------------------------- MODULE TcpClientInvariant -------------------------
(***************************************************************************)
(* The inductive invariant of a tun2socks connection, and the handlers     *)
(* that end one: a RST or a timeout of lwIP, the end or the failure of the *)
(* SOCKS connection, and the murder of the client.                         *)
(*                                                                         *)
(* A state is good when it records no fault and                            *)
(*   - the flags of the client, the SOCKS connection, the pcb and the      *)
(*     callbacks lwIP has agree (Life, Callbacks);                         *)
(*   - a callback is running in the phase of tcp_input() it belongs to,    *)
(*     and its frame knows whether the client was freed or aborted (Flow,  *)
(*     Frame);                                                             *)
(*   - what is in flight, buffered and pending agrees (Sends, Receives,    *)
(*     Queues), and a closed client has let go of its pcb (LetGo);         *)
(*   - the bytes received, buffered and in the segment follow each other,  *)
(*     and add up to what was sent or read, in each direction, and what is *)
(*     unread was left by an error (Up, Down).                             *)
(***************************************************************************)
EXTENDS TcpClient, SequenceTheorems, TLAPS

-----------------------------------------------------------------------------
(* Types of the state record, and what the teardown handlers do to it.     *)

\* The types of TypeOK, and a state without faults.
ClientT == [alive : BOOLEAN, client_closed : BOOLEAN, socks_closed : BOOLEAN,
            socks_up : BOOLEAN, buf : Seq(1..MaxUp), rbuf : Seq(1..MaxDown),
            rsent : 0..RecvBufSize, waiting : BOOLEAN, pending : 0..TCP_SND_BUF,
            aborted : BOOLEAN, dead : {"null", "frame", "stale"}]
SocksT == [state : SocksStates, send : 0..TCP_WND, recv : BOOLEAN]
PcbT == [state : PcbStates, rcv_wnd : 0..TCP_WND, cbs : SUBSET {"err", "recv", "sent"},
         rxclosed : BOOLEAN, closed : BOOLEAN, sndq : Seq(1..MaxDown),
         refused : Seq(1..MaxUp)]
State == [c : ClientT, k : SocksT, p : PcbT, f : {-1, 0, 1}, x : {{}}, h : SUBSET Causes]

\* The states of a SOCKS connection by name.
LEMMA StateNames ==
    SocksStates = {"CONNECTING", "CONNECTED_HANDLER", "SENDING_HELLO", "SENT_HELLO",
               "SENDING_REQUEST", "SENT_REQUEST", "RECEIVED_REPLY_HEADER", "UP", "NONE", "FREE"}
  BY DEF SocksStates, Handshake

\* A SOCKS connection that was freed.
Freed == [state |-> "FREE", send |-> 0, recv |-> FALSE]

\* The fields that closing a side leaves alone.
SameData(c, d) ==
    /\ d.socks_up = c.socks_up /\ d.buf = c.buf /\ d.rbuf = c.rbuf /\ d.rsent = c.rsent
    /\ d.waiting = c.waiting /\ d.pending = c.pending /\ d.dead = c.dead

\* Freeing the SOCKS connection closes that side and nothing else.
LEMMA SocksClosedIs ==
    ASSUME NEW s \in State, s.k.state # "FREE", NEW t, t = SocksClosed(s)
    PROVE  /\ t \in State /\ SameData(s.c, t.c)
           /\ t.c.socks_closed /\ (t.c.client_closed <=> s.c.client_closed)
           /\ (t.c.alive <=> s.c.alive) /\ (t.c.aborted <=> s.c.aborted)
           /\ t.k = Freed
           /\ t.p = s.p /\ t.h = s.h /\ t.f = s.f
<1>1. BSocksClient_Free(s) = [s EXCEPT !.k = Freed]
  BY DEF BSocksClient_Free, Check, Freed
<1>2. Freed \in SocksT
  BY StateNames, SizesAssumption DEF SocksT, Freed
<1>3. [s.c EXCEPT !.socks_closed = TRUE] \in ClientT
  BY DEF State, ClientT
<1>4. t \in State
  BY <1>1, <1>2, <1>3 DEF SocksClosed, State
<1> QED
  BY <1>1, <1>4, ZenonT(30) DEF SocksClosed, State, SameData, ClientT

\* client_dealloc() finds both sides closed and frees the client.
LEMMA DeallocIs ==
    ASSUME NEW s \in State, s.c.alive, s.c.client_closed, s.c.socks_closed,
           s.c.dead = "stale" => s.c.aborted, NEW t, t = client_dealloc(s)
    PROVE  /\ t \in State /\ SameData(s.c, t.c)
           /\ t.c.socks_closed /\ t.c.client_closed /\ ~t.c.alive
           /\ (t.c.aborted <=> s.c.aborted)
           /\ t.k = s.k
           /\ t.p = s.p /\ t.h = s.h
           /\ t.f = IF s.c.aborted \/ s.c.dead = "null" THEN s.f ELSE -1
<1>2. [s.c EXCEPT !.alive = FALSE] \in ClientT
  BY DEF State, ClientT
<1>3. s.c.dead \in {"null", "frame", "stale"}
  BY DEF State, ClientT
<1>4. CASE s.c.aborted \/ s.c.dead = "null"
  <2>1. t = [s EXCEPT !.c.alive = FALSE]
    BY <1>4 DEF client_dealloc, Check, Kill
  <2> QED BY <2>1, <1>4, <1>2, ZenonT(30) DEF State, ClientT, SameData
<1>5. CASE ~(s.c.aborted \/ s.c.dead = "null")
  <2> DEFINE u == [s EXCEPT !.f = -1]
  <2>1. u \in State /\ u.c = s.c /\ u.k = s.k /\ u.p = s.p /\ u.h = s.h /\ u.f = -1
    BY DEF State
  <2>2. t = [u EXCEPT !.c.alive = FALSE]
    BY <1>3, <1>5 DEF client_dealloc, Check, Kill, State
  <2> HIDE DEF u
  <2>3. t.c = [s.c EXCEPT !.alive = FALSE] /\ t.k = s.k /\ t.p = s.p /\ t.h = s.h /\ t.f = -1
    BY <2>1, <2>2 DEF State
  <2>4. t \in State
    BY <2>1, <2>2, <1>2 DEF State
  <2>5. s.c \in ClientT  BY DEF State
  <2> QED BY <2>3, <2>4, <2>5, <1>5 DEF ClientT, SameData
<1> QED BY <1>4, <1>5

\* The client has data for a SOCKS connection that is there.
Stays(s) == s.c.buf # <<>> /\ ~s.c.socks_closed

\* client_handle_freed_client() keeps a client that has data to send, and frees
\* the others.
LEMMA HandleFreedIs ==
    ASSUME NEW s \in State, s.c.alive, ~s.c.client_closed,
           s.c.socks_closed <=> s.k.state = "FREE",
           s.k.state = "FREE" => s.k = Freed,
           s.c.dead = "stale" => s.c.aborted,
           NEW t, t = client_handle_freed_client(s)
    PROVE  /\ t \in State /\ SameData(s.c, t.c)
           /\ t.c.client_closed /\ (t.c.socks_closed <=> ~Stays(s)) /\ (t.c.alive <=> Stays(s))
           /\ (t.c.aborted <=> s.c.aborted)
           /\ t.k = (IF Stays(s) THEN s.k ELSE Freed) /\ t.p = s.p /\ t.h = s.h
           /\ t.f = IF Stays(s) \/ s.c.aborted \/ s.c.dead = "null" THEN s.f ELSE -1
<1> DEFINE s1 == [s EXCEPT !.c.client_closed = TRUE]
           s2 == IF s1.c.socks_closed THEN s1 ELSE SocksClosed(s1)
<1>1. t = IF Stays(s) THEN s1 ELSE client_dealloc(s2)
  BY DEF client_handle_freed_client, Check, State, ClientT, Stays
<1>2. /\ s1 \in State /\ SameData(s.c, s1.c) /\ s1.c.client_closed
      /\ (s1.c.alive <=> s.c.alive) /\ (s1.c.aborted <=> s.c.aborted)
      /\ (s1.c.socks_closed <=> s.c.socks_closed)
      /\ s1.k = s.k /\ s1.p = s.p /\ s1.h = s.h /\ s1.f = s.f
  <2>1. [s.c EXCEPT !.client_closed = TRUE] \in ClientT
    BY DEF State, ClientT
  <2> QED BY <2>1 DEF State, ClientT, SameData
<1> HIDE DEF s1
<1>3. CASE Stays(s)
  BY <1>1, <1>2, <1>3 DEF Stays
<1>4. CASE ~Stays(s)
  <2>1. /\ s2 \in State /\ SameData(s.c, s2.c) /\ s2.c.client_closed /\ s2.c.socks_closed
        /\ s2.c.alive /\ (s2.c.aborted <=> s.c.aborted)
        /\ s2.k = Freed /\ s2.p = s.p /\ s2.h = s.h /\ s2.f = s.f
    BY <1>2, SocksClosedIs DEF SameData
  <2> HIDE DEF s2
  <2>2. (s2.c.dead = "stale" => s2.c.aborted) /\ s2.c.dead = s.c.dead
    BY <2>1 DEF SameData
  <2>3. SameData(s2.c, t.c) => SameData(s.c, t.c)
    BY <2>1 DEF SameData
  <2>4. t = client_dealloc(s2)
    BY <1>1, <1>4
  <2> QED BY <1>4, <2>1, <2>2, <2>3, <2>4, DeallocIs
<1> QED BY <1>3, <1>4

\* The receive window is left alone.
SameWindow(p, q) == q.rcv_wnd = p.rcv_wnd /\ q.refused = p.refused

\* client_abort_pcb() frees the pcb and tells the running callback.
LEMMA AbortPcbIs ==
    ASSUME NEW s \in State, s.p.state # "freed", s.p.cbs = {}, ~s.c.aborted,
           s.c.dead # "stale",
           NEW t, t = client_abort_pcb(s)
    PROVE  /\ t \in State /\ SameData(s.c, t.c)
           /\ (t.c.client_closed <=> s.c.client_closed)
           /\ (t.c.socks_closed <=> s.c.socks_closed)
           /\ (t.c.alive <=> s.c.alive) /\ t.c.aborted
           /\ t.k = s.k /\ t.h = s.h \cup {"aborted"}
           /\ t.f = (IF s.c.dead = "null" THEN s.f ELSE 1)
           /\ SameWindow(s.p, t.p) /\ t.p.state = "freed" /\ t.p.cbs = {} /\ t.p.sndq = <<>>
           /\ (t.p.closed <=> s.p.closed) /\ (t.p.rxclosed <=> s.p.rxclosed)
<1> DEFINE s1 == [s EXCEPT !.p.state = "freed", !.p.cbs = {}, !.p.sndq = <<>>]
           s2 == [s1 EXCEPT !.c.aborted = TRUE]
           s3 == Kill(s2, 1)
<1>1. tcp_abort(Check(s, ~s.c.aborted, "second abort")) = s1
  BY DEF tcp_abort, Touch, Check, FreePcb
<1>2. /\ s1 \in State /\ s1.c = s.c /\ s1.k = s.k /\ s1.h = s.h /\ s1.f = s.f
      /\ SameWindow(s.p, s1.p) /\ s1.p.state = "freed" /\ s1.p.cbs = {} /\ s1.p.sndq = <<>>
      /\ (s1.p.closed <=> s.p.closed) /\ (s1.p.rxclosed <=> s.p.rxclosed)
  <2> DEFINE q == [s.p EXCEPT !.state = "freed", !.cbs = {}, !.sndq = <<>>]
  <2>1. /\ q \in PcbT /\ SameWindow(s.p, q) /\ q.state = "freed" /\ q.cbs = {} /\ q.sndq = <<>>
        /\ (q.closed <=> s.p.closed) /\ (q.rxclosed <=> s.p.rxclosed)
    BY EmptySeq DEF State, PcbT, PcbStates, SameWindow
  <2>2. s1 = [s EXCEPT !.p = q]
    OBVIOUS
  <2> HIDE DEF q, s1
  <2> QED BY <2>1, <2>2 DEF State
<1> HIDE DEF s1
<1>3. /\ s2 \in State /\ s2.k = s.k /\ s2.h = s.h /\ s2.f = s.f /\ s2.p = s1.p
      /\ SameData(s.c, s2.c) /\ s2.c.aborted
      /\ (s2.c.client_closed <=> s.c.client_closed)
      /\ (s2.c.socks_closed <=> s.c.socks_closed)
      /\ (s2.c.alive <=> s.c.alive)
  <2>1. [s1.c EXCEPT !.aborted = TRUE] \in ClientT
    BY <1>2 DEF State, ClientT
  <2> QED BY <2>1, <1>2, ZenonT(30) DEF State, ClientT, SameData
<1>4. t = Because(s3, "aborted")
  BY <1>1 DEF client_abort_pcb
<1>5. s2.c.dead \in {"null", "frame"} /\ s2.c.dead = s.c.dead
  BY <1>3 DEF State, ClientT, SameData
<1> HIDE DEF s2
<1>6. /\ s3 \in State /\ s3.c = s2.c /\ s3.k = s.k /\ s3.h = s.h /\ s3.p = s1.p
      /\ s3.f = (IF s.c.dead = "null" THEN s.f ELSE 1)
  BY <1>3, <1>5 DEF Kill, State
<1> HIDE DEF s3
<1>7. /\ t \in State /\ t.c = s2.c /\ t.k = s.k /\ t.p = s1.p
      /\ t.h = s.h \cup {"aborted"} /\ t.f = s3.f
  BY <1>4, <1>6 DEF Because, State, Causes
<1> QED BY <1>2, <1>3, <1>6, <1>7

\* What tcp_close() makes of a pcb.
PcbClosed(p, q) ==
    \/ q.state = "CLOSING" /\ q.sndq = p.sndq /\ (q.closed <=> p.closed)
    \/ q.state = "TIME_WAIT" /\ q.sndq = <<>> /\ (q.closed <=> p.closed)
       /\ p.state = "ESTABLISHED" /\ (p.rcv_wnd # TCP_WND \/ p.refused # <<>>)
    \/ q.state = "CLOSE_WAIT" /\ q.sndq = <<>> /\ q.closed /\ input.phase # "idle"
       /\ p.state = "CLOSE_WAIT" /\ (p.rcv_wnd # TCP_WND \/ p.refused # <<>>)
    \/ q.state = "freed" /\ q.sndq = <<>> /\ (q.closed <=> p.closed) /\ input.phase = "idle"

\* tcp_close() of an open pcb succeeds in one of four ways.
LEMMA TcpCloseIs ==
    ASSUME NEW s \in State, s.p.state \in {"ESTABLISHED", "CLOSE_WAIT"}, s.p.cbs = {},
           NEW t, t = tcp_close(s)
    PROVE  /\ t \in State /\ t.c = s.c /\ t.k = s.k /\ t.h = s.h /\ t.f = s.f
           /\ t.p.cbs = {} /\ SameWindow(s.p, t.p) /\ PcbClosed(s.p, t.p)
<1> DEFINE s1 == [s EXCEPT !.p.rxclosed = TRUE]
           unread == s.p.rcv_wnd # TCP_WND \/ s.p.refused # <<>>
<1>1. /\ s1 \in State /\ s1.c = s.c /\ s1.k = s.k /\ s1.h = s.h /\ s1.f = s.f
      /\ s1.p \in PcbT /\ SameWindow(s.p, s1.p) /\ s1.p.cbs = {} /\ s1.p.sndq = s.p.sndq
      /\ (s1.p.closed <=> s.p.closed) /\ s1.p.state = s.p.state
  <2>1. [s.p EXCEPT !.rxclosed = TRUE] \in PcbT
    BY DEF State, PcbT
  <2> QED BY <2>1 DEF State, PcbT, SameWindow
<1>2. t = IF unread THEN IF s.p.state = "ESTABLISHED"
                 THEN [s1 EXCEPT !.p.state = "TIME_WAIT", !.p.sndq = <<>>]
                 ELSE IF input.phase # "idle"
                        THEN [s1 EXCEPT !.p.closed = TRUE, !.p.sndq = <<>>]
                        ELSE FreePcb(s1)
          ELSE [s1 EXCEPT !.p.state = "CLOSING"]
  BY DEF tcp_close, Touch, Check
<1> HIDE DEF s1
<1>3. CASE ~unread
  <2> DEFINE q == [s1.p EXCEPT !.state = "CLOSING"]
  <2>1. q \in PcbT /\ SameWindow(s.p, q) /\ q.cbs = {} /\ PcbClosed(s.p, q)
    BY <1>1 DEF PcbT, SameWindow, PcbClosed, PcbStates
  <2>2. t = [s1 EXCEPT !.p = q]
    BY <1>1, <1>2, <1>3 DEF State
  <2> HIDE DEF q
  <2> QED BY <1>1, <2>1, <2>2 DEF State
<1>4. CASE unread /\ s.p.state = "ESTABLISHED"
  <2> DEFINE q == [s1.p EXCEPT !.state = "TIME_WAIT", !.sndq = <<>>]
  <2>1. q \in PcbT /\ SameWindow(s.p, q) /\ q.cbs = {} /\ PcbClosed(s.p, q)
    BY <1>1, <1>4, EmptySeq DEF PcbT, SameWindow, PcbClosed, PcbStates
  <2>a. t = [s1 EXCEPT !.p.state = "TIME_WAIT", !.p.sndq = <<>>]
    BY <1>2, <1>4
  <2>2. t = [s1 EXCEPT !.p = q]
    BY <2>a
  <2> HIDE DEF q
  <2> QED BY <1>1, <2>1, <2>2 DEF State
<1>5. CASE unread /\ s.p.state # "ESTABLISHED" /\ input.phase # "idle"
  <2> DEFINE q == [s1.p EXCEPT !.closed = TRUE, !.sndq = <<>>]
  <2>1. q \in PcbT /\ SameWindow(s.p, q) /\ q.cbs = {} /\ PcbClosed(s.p, q)
    BY <1>1, <1>5, EmptySeq DEF PcbT, SameWindow, PcbClosed, PcbStates
  <2>a. t = [s1 EXCEPT !.p.closed = TRUE, !.p.sndq = <<>>]
    BY <1>2, <1>5
  <2>2. t = [s1 EXCEPT !.p = q]
    BY <2>a
  <2> HIDE DEF q
  <2> QED BY <1>1, <2>1, <2>2 DEF State
<1>6. CASE unread /\ s.p.state # "ESTABLISHED" /\ input.phase = "idle"
  <2> DEFINE q == [s1.p EXCEPT !.state = "freed", !.cbs = {}, !.sndq = <<>>]
  <2>1. q \in PcbT /\ SameWindow(s.p, q) /\ q.cbs = {} /\ PcbClosed(s.p, q)
    BY <1>1, <1>6, EmptySeq DEF PcbT, SameWindow, PcbClosed, PcbStates
  <2>a. t = [s1 EXCEPT !.p.state = "freed", !.p.cbs = {}, !.p.sndq = <<>>]
    BY <1>2, <1>6 DEF FreePcb
  <2>2. t = [s1 EXCEPT !.p = q]
    BY <2>a
  <2> HIDE DEF q
  <2> QED BY <1>1, <2>1, <2>2 DEF State
<1> QED BY <1>3, <1>4, <1>5, <1>6

\* An open client: its pcb may be closed or aborted.
PreClose(s) ==
    /\ s \in State /\ s.c.alive /\ ~s.c.client_closed /\ ~s.c.aborted
    /\ s.c.dead # "stale" /\ s.p.state \in {"ESTABLISHED", "CLOSE_WAIT"}
    /\ (s.c.socks_closed <=> s.k.state = "FREE")
    /\ s.k.state = "FREE" => s.k = Freed

\* The client side was closed, by an abort or not, and the client stays or is freed.
Closing(s, t, ab, stays) ==
    /\ t \in State /\ SameData(s.c, t.c)
    /\ t.c.client_closed /\ (t.c.socks_closed <=> ~stays) /\ (t.c.alive <=> stays)
    /\ (t.c.aborted <=> ab)
    /\ t.k = (IF stays THEN s.k ELSE Freed)
    /\ t.p.cbs = {} /\ SameWindow(s.p, t.p)
    /\ t.h = (IF ab THEN s.h \cup {"aborted"} ELSE s.h)
    /\ t.f = (IF s.c.dead = "null" THEN s.f ELSE IF ab THEN 1 ELSE IF stays THEN s.f ELSE -1)
    /\ ab => t.p.state = "freed" /\ t.p.sndq = <<>> /\ (t.p.closed <=> s.p.closed)
    /\ ~ab => PcbClosed(s.p, t.p)

\* Taking its callbacks from a pcb leaves everything else alone.
LEMMA NoCallbacks ==
    ASSUME NEW s, PreClose(s), NEW t, t = [Touch(s) EXCEPT !.p.cbs = {}]
    PROVE  /\ t \in State /\ t.c = s.c /\ t.k = s.k /\ t.h = s.h /\ t.f = s.f
           /\ t.p.cbs = {} /\ SameWindow(s.p, t.p) /\ t.p.state = s.p.state
           /\ t.p.sndq = s.p.sndq /\ (t.p.closed <=> s.p.closed)
<1>1. t = [s EXCEPT !.p.cbs = {}]
  BY DEF PreClose, Touch, Check
<1>2. s \in State  BY DEF PreClose
<1>3. [s.p EXCEPT !.cbs = {}] \in PcbT
  BY <1>2 DEF State, PcbT
<1>4. /\ t \in State /\ t.c = s.c /\ t.k = s.k /\ t.h = s.h /\ t.f = s.f
      /\ t.p = [s.p EXCEPT !.cbs = {}]
  BY <1>1, <1>2, <1>3 DEF State
<1>5. s.p \in PcbT  BY <1>2 DEF State
<1> QED BY <1>4, <1>5 DEF PcbT, SameWindow

\* client_abort_client() from the point at which the callbacks are cleared.
LEMMA AbortClosing ==
    ASSUME NEW s, PreClose(s), NEW r \in State, r.c = s.c, r.k = s.k, r.h = s.h, r.f = s.f,
           r.p.cbs = {}, SameWindow(s.p, r.p), r.p.state = s.p.state,
           r.p.closed <=> s.p.closed,
           NEW t, t = client_handle_freed_client(client_abort_pcb(r))
    PROVE  Closing(s, t, TRUE, Stays(s))
<1> DEFINE u == client_abort_pcb(r)
<1>1. /\ u \in State /\ SameData(r.c, u.c) /\ (u.c.client_closed <=> r.c.client_closed)
      /\ (u.c.socks_closed <=> r.c.socks_closed)
      /\ (u.c.alive <=> r.c.alive) /\ u.c.aborted
      /\ u.k = r.k /\ u.h = r.h \cup {"aborted"}
      /\ u.f = (IF r.c.dead = "null" THEN r.f ELSE 1)
      /\ SameWindow(r.p, u.p) /\ u.p.state = "freed" /\ u.p.cbs = {} /\ u.p.sndq = <<>>
      /\ (u.p.closed <=> r.p.closed)
  BY AbortPcbIs DEF PreClose
<1> HIDE DEF u
<1>2. u.c.buf = s.c.buf /\ u.c.dead = s.c.dead /\ (Stays(u) <=> Stays(s))
  BY <1>1 DEF SameData, Stays
<1>3. t = client_handle_freed_client(u)
  BY DEF u
<1>4. /\ t \in State /\ SameData(u.c, t.c)
      /\ t.c.client_closed /\ (t.c.socks_closed <=> ~Stays(u)) /\ (t.c.alive <=> Stays(u))
      /\ (t.c.aborted <=> u.c.aborted)
      /\ t.k = (IF Stays(u) THEN u.k ELSE Freed) /\ t.p = u.p /\ t.h = u.h
      /\ t.f = IF Stays(u) \/ u.c.aborted \/ u.c.dead = "null" THEN u.f ELSE -1
  BY <1>1, <1>2, <1>3, HandleFreedIs DEF PreClose
<1>5. SameData(s.c, t.c) /\ SameWindow(s.p, t.p)
  BY <1>1, <1>4 DEF SameData, SameWindow
<1> QED BY <1>1, <1>2, <1>4, <1>5 DEF Closing

\* client_free_client() closes the pcb, or aborts it when tcp_close() fails.
LEMMA FreeClientIs ==
    ASSUME NEW s, PreClose(s), NEW ok \in BOOLEAN, NEW t, t = client_free_client(s, ok)
    PROVE  Closing(s, t, ~ok, Stays(s))
<1> DEFINE r == [Touch(s) EXCEPT !.p.cbs = {}]
<1>1. /\ r \in State /\ r.c = s.c /\ r.k = s.k /\ r.h = s.h /\ r.f = s.f
      /\ r.p.cbs = {} /\ SameWindow(s.p, r.p) /\ r.p.state = s.p.state
      /\ r.p.sndq = s.p.sndq /\ (r.p.closed <=> s.p.closed)
  BY NoCallbacks, ZenonT(30)
<1>2. t = client_handle_freed_client(
             IF ok THEN tcp_close(r) ELSE client_abort_pcb([r EXCEPT !.p.rxclosed = TRUE]))
  BY DEF client_free_client
<1> HIDE DEF r
<1>3. CASE ok
  <2> DEFINE u == tcp_close(r)
  <2>1. /\ u \in State /\ u.c = s.c /\ u.k = s.k /\ u.h = s.h /\ u.f = s.f
        /\ u.p.cbs = {} /\ SameWindow(s.p, u.p) /\ PcbClosed(s.p, u.p)
    <3>1. /\ u \in State /\ u.c = r.c /\ u.k = r.k /\ u.h = r.h /\ u.f = r.f
          /\ u.p.cbs = {} /\ SameWindow(r.p, u.p) /\ PcbClosed(r.p, u.p)
      BY <1>1, TcpCloseIs DEF PreClose
    <3> HIDE DEF u
    <3>2. SameWindow(s.p, u.p)  BY <1>1, <3>1 DEF SameWindow
    <3>3. PcbClosed(s.p, u.p)  BY <1>1, <3>1 DEF PcbClosed, SameWindow
    <3> QED BY <1>1, <3>1, <3>2, <3>3
  <2> HIDE DEF u
  <2>2. t = client_handle_freed_client(u)
    BY <1>2, <1>3 DEF u
  <2>3. Stays(u) <=> Stays(s)
    BY <2>1 DEF Stays
  <2>4. /\ t \in State /\ SameData(u.c, t.c)
        /\ t.c.client_closed /\ (t.c.socks_closed <=> ~Stays(u)) /\ (t.c.alive <=> Stays(u))
        /\ (t.c.aborted <=> u.c.aborted)
        /\ t.k = (IF Stays(u) THEN u.k ELSE Freed) /\ t.p = u.p /\ t.h = u.h
        /\ t.f = IF Stays(u) \/ u.c.aborted \/ u.c.dead = "null" THEN u.f ELSE -1
    BY <2>1, <2>2, HandleFreedIs DEF PreClose
  <2> QED BY <1>3, <2>1, <2>3, <2>4 DEF Closing, PreClose
<1>4. CASE ~ok
  <2> DEFINE u == [r EXCEPT !.p.rxclosed = TRUE]
  <2>1. /\ u \in State /\ u.c = s.c /\ u.k = s.k /\ u.h = s.h /\ u.f = s.f
        /\ u.p.cbs = {} /\ SameWindow(s.p, u.p) /\ u.p.state = s.p.state
        /\ (u.p.closed <=> s.p.closed)
    <3>1. [r.p EXCEPT !.rxclosed = TRUE] \in PcbT
      BY <1>1 DEF State, PcbT
    <3> QED BY <1>1, <3>1 DEF State, PcbT, SameWindow
  <2> HIDE DEF u
  <2>2. t = client_handle_freed_client(client_abort_pcb(u))
    BY <1>2, <1>4 DEF u
  <2>3. Closing(s, t, TRUE, Stays(s))
    BY <2>1, <2>2, AbortClosing
  <2> QED BY <1>4, <2>3 DEF Closing
<1> QED BY <1>3, <1>4

\* client_abort_client() aborts the pcb.
LEMMA AbortClientIs ==
    ASSUME NEW s, PreClose(s), NEW t, t = client_abort_client(s)
    PROVE  Closing(s, t, TRUE, Stays(s))
<1> DEFINE r == [Touch(s) EXCEPT !.p.cbs = {}]
<1>1. /\ r \in State /\ r.c = s.c /\ r.k = s.k /\ r.h = s.h /\ r.f = s.f
      /\ r.p.cbs = {} /\ SameWindow(s.p, r.p) /\ r.p.state = s.p.state
      /\ r.p.sndq = s.p.sndq /\ (r.p.closed <=> s.p.closed)
  BY NoCallbacks, ZenonT(30)
<1>2. t = client_handle_freed_client(client_abort_pcb(r))
  BY DEF client_abort_client
<1> HIDE DEF r
<1> QED BY <1>1, <1>2, AbortClosing

\* client_murder() aborts the pcb and frees the client at once.
LEMMA MurderIs ==
    ASSUME NEW s, PreClose(s), NEW t, t = client_murder(s)
    PROVE  Closing(s, t, TRUE, FALSE)
<1> DEFINE r == [Touch(s) EXCEPT !.p.cbs = {}]
           u == client_abort_pcb(r)
           v == [u EXCEPT !.c.client_closed = TRUE]
           w == IF v.c.socks_closed THEN v ELSE SocksClosed(v)
<1>1. /\ r \in State /\ r.c = s.c /\ r.k = s.k /\ r.h = s.h /\ r.f = s.f
      /\ r.p.cbs = {} /\ SameWindow(s.p, r.p) /\ r.p.state = s.p.state
      /\ r.p.sndq = s.p.sndq /\ (r.p.closed <=> s.p.closed)
  BY NoCallbacks, ZenonT(30)
<1>2. t = client_dealloc(w)
  BY DEF client_murder, PreClose
<1> HIDE DEF r
<1>3. /\ u \in State /\ SameData(r.c, u.c) /\ (u.c.client_closed <=> r.c.client_closed)
      /\ (u.c.socks_closed <=> r.c.socks_closed)
      /\ (u.c.alive <=> r.c.alive) /\ u.c.aborted
      /\ u.k = r.k /\ u.h = r.h \cup {"aborted"}
      /\ u.f = (IF r.c.dead = "null" THEN r.f ELSE 1)
      /\ SameWindow(r.p, u.p) /\ u.p.state = "freed" /\ u.p.cbs = {} /\ u.p.sndq = <<>>
      /\ (u.p.closed <=> r.p.closed)
  BY <1>1, AbortPcbIs DEF PreClose
<1> HIDE DEF u
<1>4. /\ v \in State /\ SameData(u.c, v.c) /\ v.c.client_closed
      /\ (v.c.alive <=> u.c.alive) /\ v.c.aborted /\ (v.c.socks_closed <=> u.c.socks_closed)
      /\ v.k = u.k /\ v.p = u.p /\ v.h = u.h /\ v.f = u.f
  <2>1. [u.c EXCEPT !.client_closed = TRUE] \in ClientT
    BY <1>3 DEF State, ClientT
  <2> QED BY <2>1, <1>3 DEF State, ClientT, SameData
<1> HIDE DEF v
<1>5. /\ w \in State /\ SameData(v.c, w.c) /\ w.c.client_closed /\ w.c.socks_closed
      /\ w.c.alive /\ w.c.aborted
      /\ w.k = Freed /\ w.p = v.p /\ w.h = v.h /\ w.f = v.f
  <2>1. CASE v.c.socks_closed
    BY <1>1, <1>3, <1>4, <2>1 DEF SameData, PreClose
  <2>2. CASE ~v.c.socks_closed
    BY <1>1, <1>3, <1>4, <2>2, SocksClosedIs DEF PreClose
  <2> QED BY <2>1, <2>2
<1> HIDE DEF w
<1>6. /\ t \in State /\ SameData(w.c, t.c)
      /\ t.c.socks_closed /\ t.c.client_closed /\ ~t.c.alive
      /\ t.c.aborted /\ t.k = w.k /\ t.p = w.p /\ t.h = w.h /\ t.f = w.f
  BY <1>2, <1>5, DeallocIs
<1>7. SameData(s.c, t.c) /\ SameWindow(s.p, t.p)
  BY <1>1, <1>3, <1>4, <1>5, <1>6 DEF SameData, SameWindow
<1> QED BY <1>1, <1>3, <1>4, <1>5, <1>6, <1>7 DEF Closing

-----------------------------------------------------------------------------
(* The inductive invariant.                                                *)

\* The length of a sequence, as a number of which the provers know no more.
Size(q) == Len(q)

\* Consecutive bytes from the one after the m-th on.
Counts(q, m) == \A j \in 1..Size(q) : q[j] = m + j

\* Sizes are natural numbers, and only the empty sequence has size 0.
LEMMA SizeNat ==
    /\ \A q \in Seq(1..MaxUp) : Size(q) \in Nat /\ (Size(q) = 0 <=> q = <<>>)
    /\ \A q \in Seq(1..MaxDown) : Size(q) \in Nat /\ (Size(q) = 0 <=> q = <<>>)
    /\ Size(<<>>) = 0
  BY LenProperties, EmptySeq DEF Size

\* The types of the segment, the callback and the two peers.
InputT == [phase : {"idle", "accept", "receive", "sent", "data", "fin", "end"},
           ack : 0..TCP_SND_BUF, data : Seq(1..MaxUp), fin : BOOLEAN]
AppT == [sent : 0..MaxUp, got : Seq(1..MaxDown), fin : BOOLEAN]
SrvT == [sent : 0..MaxDown, eof : BOOLEAN, read : 0..MaxDown, got : Seq(1..MaxUp)]
CbT == {"none", "accept", "sent", "recv", "fin"}

\* What a segment still carries: its FIN, its acknowledgement, its data.
Fin(i) == IF i.fin THEN 1 ELSE 0
Ack(i) == IF i.phase = "sent" THEN i.ack ELSE 0
InFlight(i) == IF i.phase \in {"accept", "receive", "sent", "data"} THEN Size(i.data) ELSE 0

\* Which sides of the connection are there.
Life(c, k, p) ==
    /\ c.socks_closed <=> k.state = "FREE"
    /\ c.alive <=> k.state # "NONE" /\ ~(c.client_closed /\ c.socks_closed)
    /\ k.state = "NONE" => /\ ~c.client_closed /\ ~c.socks_up /\ c.buf = <<>> /\ c.rbuf = <<>>
                           /\ c.rsent = 0 /\ c.pending = 0 /\ ~c.aborted /\ c.dead = "null"
                           /\ ~p.rxclosed /\ ~p.closed /\ p.sndq = <<>>
                           /\ p.state \in {"SYN_RCVD", "freed"} /\ p.rcv_wnd = TCP_WND
    /\ p.state = "SYN_RCVD" => k.state = "NONE"
    /\ k.state = "UP" => c.socks_up
    /\ c.socks_up => k.state \in {"UP", "FREE"}
    /\ (k.state # "NONE" /\ ~c.client_closed) =>
          /\ p.state \in {"ESTABLISHED", "CLOSE_WAIT"}
          /\ ~p.rxclosed /\ ~p.closed /\ ~c.aborted
    /\ c.aborted => p.state = "freed"

\* The callbacks lwIP has are those of the sides that are there.
Callbacks(c, k, p) ==
    /\ "err" \in p.cbs <=> k.state # "NONE" /\ ~c.client_closed
    /\ "recv" \in p.cbs <=> k.state # "NONE" /\ ~c.client_closed /\ ~c.socks_closed
    /\ "sent" \in p.cbs <=> ~c.client_closed /\ c.socks_up

\* What is in flight is buffered, and the buffers are bounded.
Sends(c, k) ==
    /\ k.state = "UP" => (k.send > 0 <=> c.buf # <<>>)
    /\ k.state # "UP" => k.send = 0 /\ ~k.recv
    /\ k.send <= Size(c.buf) /\ Size(c.buf) <= TCP_WND
    /\ c.rbuf = <<>> => c.rsent = 0
    /\ c.rsent <= Size(c.rbuf) /\ Size(c.rbuf) <= RecvBufSize
    /\ c.pending > 0 => c.socks_up

\* A half-closed client has something to drain, and an open one an event to
\* wait for.
Receives(c, k) ==
    /\ (c.client_closed /\ ~c.socks_closed) => c.buf # <<>>
    /\ ~c.client_closed =>
      /\ k.state = "UP" => (k.recv <=> c.rbuf = <<>>)
      /\ c.rbuf # <<>> => c.waiting /\ c.pending > 0 /\ c.rsent < Size(c.rbuf)
      /\ c.socks_closed => c.pending > 0

\* The callbacks belong to the phases of tcp_input().
Flow(c, k, p, i, b) ==
    /\ b = "accept" => i.phase = "receive"
    /\ b = "sent" => i.phase = "data"
    /\ b = "recv" => i.phase = "fin"
    /\ b = "fin" => i.phase = "end"
    /\ b = "none" => i.phase \notin {"receive", "end"}
    /\ i.phase = "idle" => i.data = <<>> /\ i.ack = 0 /\ ~i.fin
    /\ (b = "none" /\ i.phase = "data") => i.data # <<>>
    /\ (b = "none" /\ i.phase = "fin") => i.fin
    /\ i.phase = "accept" => p.state = "SYN_RCVD"
    /\ i.phase \notin {"idle", "accept"} => k.state # "NONE"
    /\ (b = "none" /\ i.phase # "idle") => p.state # "freed" /\ ~p.closed
    /\ i.phase \in {"accept", "receive"} =>
         /\ i.ack = 0 /\ p.rcv_wnd = TCP_WND /\ c.buf = <<>>
         /\ Size(i.data) + Fin(i) <= TCP_WND

\* The frame of a running callback knows what became of the client.
Frame(c, p, b, f) ==
    /\ b # "none" =>
         /\ c.dead = "frame"
         /\ f = 1 <=> c.aborted
         /\ f = -1 <=> ~c.aborted /\ ~c.alive
         /\ p.state = "freed" <=> c.aborted
    /\ b = "none" =>
         /\ c.dead # "frame"
         /\ c.dead = "stale" => c.aborted \/ ~c.alive
         /\ p.closed => p.state = "freed"

\* Every byte of the send queue is pending, every byte of the window accounted for.
Queues(c, k, p, i) ==
    /\ p.refused = <<>>
    /\ Size(p.sndq) + Ack(i) <= TCP_SND_BUF
    /\ (k.state # "NONE" /\ ~c.client_closed) => c.pending = Size(p.sndq) + Ack(i)
    /\ "recv" \in p.cbs =>
         TCP_WND = p.rcv_wnd + Size(c.buf)
                   + (IF i.phase \in {"sent", "data"} THEN Size(i.data) ELSE 0)
                   + (IF i.phase \in {"sent", "data", "fin"} THEN Fin(i) ELSE 0)

\* Names for causes, of which the provers need not know more.
FinAtAccept == "fin at accept"
ClientClosed == "client closed"

\* A closed client has let go of its pcb.
LetGo(c, p, i, b, h) ==
    c.client_closed =>
      /\ \/ p.state \in {"CLOSING", "TIME_WAIT", "freed"}
         \/ p.closed /\ b # "none"
         \/ FinAtAccept \in h
      /\ i.phase = "receive" => p.state \in {"CLOSING", "freed"} /\ ~p.closed

\* From the application to the proxy: what was received, is buffered and is in the
\* segment adds up, and nothing is missing when the application ended it.
UpLost == {"socks error", "socks closed", "aborted", "murdered"}
Up(c, p, i, h, a, v) ==
    /\ Counts(v.got, 0)
    /\ ~c.socks_closed => Counts(c.buf, Size(v.got))
    /\ InFlight(i) > 0 => Counts(i.data, a.sent - Size(i.data))
    /\ Size(v.got) + (IF c.socks_closed THEN 0 ELSE Size(c.buf)) + InFlight(i) <= a.sent
    /\ (p.state = "SYN_RCVD" \/ "recv" \in p.cbs) =>
          Size(v.got) + Size(c.buf) + InFlight(i) = a.sent
    /\ (c.client_closed /\ ~c.socks_closed /\ "aborted" \notin h) =>
          /\ Size(v.got) + Size(c.buf) = a.sent /\ (a.fin \/ p.state = "freed")
    /\ (c.socks_closed /\ h \cap UpLost = {}) =>
          /\ Size(v.got) = a.sent /\ (a.fin \/ p.state = "freed")
    /\ i.fin => a.fin
    /\ c.aborted => "aborted" \in h

\* What the proxy has sent and tun2socks has not read is in the kernel's queue,
\* and none is left when the end of file is read.
SocksFailed == "socks error"
Behind(v) == v.read <= v.sent
AllRead(v) == v.eof /\ v.read = v.sent

\* From the proxy to the application: the same, with the send queue in between;
\* the SOCKS side is closed for a cause, or after everything was read.
DownLost == {"client closed", "reset", "aborted", "murdered"}
Down(c, k, p, h, a, v) ==
    /\ Counts(a.got, 0)
    /\ Counts(p.sndq, Size(a.got))
    /\ ~c.client_closed => Counts(c.rbuf, v.read - Size(c.rbuf))
    /\ Size(a.got) + Size(p.sndq) <= v.read
    /\ ~c.client_closed => Size(a.got) + Size(p.sndq) + Size(c.rbuf) - c.rsent = v.read
    /\ ~c.socks_up => v.read = 0
    /\ (c.client_closed /\ h \cap DownLost = {}) => Size(a.got) = v.read /\ c.socks_closed
    /\ Behind(v)
    /\ c.socks_closed => h \cap DownLost # {} \/ SocksFailed \in h \/ AllRead(v)

\* The types of the peers and the segment.
World(i, a, v) == i \in InputT /\ a \in AppT /\ v \in SrvT

\* What closing a side relies on, without and with the running callback.
Core(s, i, a, v) ==
    /\ s \in State /\ World(i, a, v)
    /\ Life(s.c, s.k, s.p)
    /\ s.k.state = "FREE" => s.k = Freed
    /\ Sends(s.c, s.k)
    /\ Queues(s.c, s.k, s.p, i)
    /\ Up(s.c, s.p, i, s.h, a, v)
    /\ Down(s.c, s.k, s.p, s.h, a, v)

Base(s, i, b, a, v) ==
    /\ Core(s, i, a, v)
    /\ b \in CbT
    /\ Flow(s.c, s.k, s.p, i, b)
    /\ Frame(s.c, s.p, b, s.f)
    /\ LetGo(s.c, s.p, i, b, s.h)

\* The invariant of a state.
Good(s, i, b, a, v) ==
    /\ Base(s, i, b, a, v)
    /\ Callbacks(s.c, s.k, s.p)
    /\ Receives(s.c, s.k)

-----------------------------------------------------------------------------
(* Closing the client side.                                                *)

\* Nobody misses anything without a cause.
UpTold(s, t, ab, a, v) ==
    ab \/ s.c.socks_closed
       \/ (Size(v.got) + Size(s.c.buf) = a.sent /\ (a.fin \/ t.p.state = "freed"))
DownTold(s, ab, a, v) ==
    ab \/ s.h \cap DownLost # {} \/ (Size(a.got) = v.read /\ s.c.socks_closed)

\* The counters of a state are natural numbers.
LEMMA Numbers ==
    ASSUME NEW s \in State, NEW i, NEW a, NEW v, World(i, a, v)
    PROVE  /\ Size(s.c.buf) \in Nat /\ Size(s.c.rbuf) \in Nat /\ Size(s.p.sndq) \in Nat
           /\ Size(i.data) \in Nat /\ Size(a.got) \in Nat /\ Size(v.got) \in Nat
           /\ InFlight(i) \in Nat /\ Ack(i) \in Nat /\ Fin(i) \in {0, 1}
           /\ a.sent \in Nat /\ v.read \in Nat /\ s.c.rsent \in Nat /\ s.c.pending \in Nat
           /\ s.k.send \in Nat /\ s.p.rcv_wnd \in Nat
<1>1. /\ s.c \in ClientT /\ s.k \in SocksT /\ s.p \in PcbT
      /\ i \in InputT /\ a \in AppT /\ v \in SrvT
  BY DEF State, World
<1>2. Size(s.c.buf) \in Nat /\ Size(s.c.rbuf) \in Nat
  BY <1>1, SizeNat DEF ClientT
<1>3. Size(s.p.sndq) \in Nat
  BY <1>1, SizeNat DEF PcbT
<1>4. Size(i.data) \in Nat /\ Size(a.got) \in Nat /\ Size(v.got) \in Nat
  BY <1>1, SizeNat DEF InputT, AppT, SrvT
<1>5. InFlight(i) \in Nat /\ Fin(i) \in {0, 1}
  BY <1>4 DEF InFlight, Fin
<1>6. Ack(i) \in Nat
  BY <1>1 DEF Ack, InputT
<1>7. a.sent \in Nat /\ v.read \in Nat
  BY <1>1 DEF AppT, SrvT
<1>8. s.c.rsent \in Nat /\ s.c.pending \in Nat
  BY <1>1 DEF ClientT
<1>9. s.k.send \in Nat /\ s.p.rcv_wnd \in Nat
  BY <1>1 DEF SocksT, PcbT
<1> QED BY <1>2, <1>3, <1>4, <1>5, <1>6, <1>7, <1>8, <1>9

\* Once the client is open, it can be closed.
LEMMA MayClose ==
    ASSUME NEW s, NEW i, NEW b, NEW a, NEW v, Base(s, i, b, a, v),
           s.k.state # "NONE", ~s.c.client_closed
    PROVE  PreClose(s)
  BY DEF Core, Base, World, CbT, Life, Frame, PreClose

\* However the client side is closed, the invariant survives it, given that the
\* proxy and the application have been told of what they miss.
LEMMA ClosingKeeps ==
    ASSUME NEW s, NEW i, NEW b, NEW a, NEW v, Base(s, i, b, a, v),
           s.k.state # "NONE", ~s.c.client_closed,
           b = "none" <=> i.phase = "idle",
           b = "none" <=> input.phase = "idle",
           NEW ab \in BOOLEAN, NEW stays \in BOOLEAN, NEW t, Closing(s, t, ab, stays),
           stays => Stays(s), ~ab => (stays <=> Stays(s)),
           UpTold(s, t, ab, a, v), DownTold(s, ab, a, v)
    PROVE  Good(t, i, b, a, v)
<1>1. PreClose(s)  BY MayClose
<1>2. /\ t \in State /\ World(i, a, v) /\ (t.k.state = "FREE" => t.k = Freed)
      /\ t.c.client_closed /\ (t.c.socks_closed <=> ~stays) /\ (t.c.alive <=> stays)
      /\ t.k = (IF stays THEN s.k ELSE Freed)
      /\ s \in State
  BY <1>1 DEF Closing, Core, Base
<1>3. Life(t.c, t.k, t.p)
  <2>1. Freed.state = "FREE"  BY DEF Freed
  <2>2. t.p.state \in {"CLOSING", "TIME_WAIT", "CLOSE_WAIT", "freed"}
    BY DEF Closing, PcbClosed
  <2> QED BY <1>1, <1>2, <2>1, <2>2 DEF Life, Core, Base, Closing, PreClose, SameData, Stays
<1>4. Callbacks(t.c, t.k, t.p)
  BY <1>2 DEF Callbacks, Closing
<1>5. Receives(t.c, t.k)
  BY <1>2 DEF Receives, Closing, SameData, Stays
<1>6. Sends(t.c, t.k)
  <2>1. Freed.state = "FREE" /\ Freed.send = 0 /\ ~Freed.recv  BY DEF Freed
  <2> QED BY <1>2, <2>1, SizeNat DEF Sends, Core, Base, Closing, SameData, Stays, State, ClientT
<1>7. Flow(t.c, t.k, t.p, i, b)
  <2>1. Freed.state = "FREE"  BY DEF Freed
  <2>2. s.p.state # "SYN_RCVD"  BY <1>1 DEF PreClose
  <2>3. t.k.state # "NONE"  BY <1>2, <2>1
  <2>4. t.c.buf = s.c.buf /\ t.p.rcv_wnd = s.p.rcv_wnd
    BY DEF Closing, SameData, SameWindow
  <2> QED BY <2>2, <2>3, <2>4 DEF Flow, Core, Base
<1>8. Frame(t.c, t.p, b, t.f)
  <2>1. ~s.p.closed /\ ~s.c.aborted /\ s.c.alive
    BY <1>1 DEF Core, Base, Life, PreClose
  <2>2. t.c.dead = s.c.dead /\ (t.c.aborted <=> ab)  BY DEF Closing, SameData
  <2>3. CASE b # "none"
    <3>1. s.c.dead = "frame" /\ s.f # 1 /\ s.f # -1
      BY <2>1, <2>3 DEF Core, Base, Frame
    <3>2. t.f = (IF ab THEN 1 ELSE IF stays THEN s.f ELSE -1)
      BY <3>1 DEF Closing
    <3>3. t.p.state = "freed" <=> ab
      BY <2>3 DEF Closing, PcbClosed
    <3> QED BY <1>2, <2>2, <2>3, <3>1, <3>2, <3>3 DEF Frame
  <2>4. CASE b = "none"
    <3>1. s.c.dead # "frame" /\ s.c.dead # "stale"
      BY <2>1, <2>4 DEF Core, Base, Frame
    <3>2. ~t.p.closed
      BY <2>1, <2>4 DEF Closing, PcbClosed
    <3> QED BY <2>2, <2>4, <3>1, <3>2 DEF Frame
  <2> QED BY <2>3, <2>4
<1>9. Queues(t.c, t.k, t.p, i)
  <2>1. t.p.refused = <<>> /\ t.p.cbs = {}
    BY DEF Core, Base, Queues, Closing, SameWindow
  <2>2. t.p.sndq = s.p.sndq \/ t.p.sndq = <<>>
    BY DEF Closing, PcbClosed
  <2>3. Size(t.p.sndq) <= Size(s.p.sndq) /\ Size(t.p.sndq) \in Nat /\ Size(s.p.sndq) \in Nat
    BY <1>2, <2>2, SizeNat DEF State, PcbT
  <2>4. Ack(i) \in Nat
    BY <1>2 DEF Ack, World, InputT
  <2> QED BY <1>2, <2>1, <2>3, <2>4, SizesAssumption DEF Queues, Core, Base
<1>10. LetGo(t.c, t.p, i, b, t.h)
  <2>1. ~s.p.closed
    BY <1>1 DEF Core, Base, Life, PreClose
  <2>2. i.phase = "receive" => s.p.rcv_wnd = TCP_WND /\ s.p.refused = <<>>
    BY DEF Core, Base, Flow, Queues
  <2> QED BY <2>1, <2>2 DEF LetGo, Closing, PcbClosed
<1>11. Up(t.c, t.p, i, t.h, a, v)
  <2>1. /\ t.c.buf = s.c.buf /\ t.p.cbs = {} /\ t.p.state # "SYN_RCVD" /\ s.h \subseteq t.h
        /\ (t.c.aborted <=> ab) /\ (ab => "aborted" \in t.h) /\ s.h \cap UpLost \subseteq t.h \cap UpLost
        /\ (s.c.socks_closed => t.c.socks_closed)
    BY <1>2 DEF Closing, SameData, PcbClosed, Stays
  <2>2. /\ Size(v.got) \in Nat /\ Size(s.c.buf) \in Nat /\ InFlight(i) \in Nat /\ a.sent \in Nat
    BY <1>2, Numbers
  <2>3. /\ Counts(v.got, 0)
        /\ ~t.c.socks_closed => Counts(t.c.buf, Size(v.got))
        /\ InFlight(i) > 0 => Counts(i.data, a.sent - Size(i.data))
        /\ i.fin => a.fin
    BY <2>1 DEF Core, Base, Up
  <2>4. Size(v.got) + (IF t.c.socks_closed THEN 0 ELSE Size(t.c.buf)) + InFlight(i) <= a.sent
    <3>1. Size(v.got) + (IF s.c.socks_closed THEN 0 ELSE Size(s.c.buf)) + InFlight(i) <= a.sent
      BY DEF Core, Base, Up
    <3> QED BY <2>1, <2>2, <3>1
  <2>5. (t.c.client_closed /\ ~t.c.socks_closed /\ "aborted" \notin t.h) =>
          /\ Size(v.got) + Size(t.c.buf) = a.sent /\ (a.fin \/ t.p.state = "freed")
    BY <1>2, <2>1 DEF UpTold
  <2>6. (t.c.socks_closed /\ t.h \cap UpLost = {}) =>
          /\ Size(v.got) = a.sent /\ (a.fin \/ t.p.state = "freed")
    <3> SUFFICES ASSUME t.c.socks_closed, t.h \cap UpLost = {}
                 PROVE  /\ Size(v.got) = a.sent /\ (a.fin \/ t.p.state = "freed")
      OBVIOUS
    <3>1. ~ab /\ s.h \cap UpLost = {}  BY <2>1 DEF UpLost
    <3>2. CASE s.c.socks_closed
      BY <1>1, <3>1, <3>2 DEF Core, Base, Up, PreClose
    <3>3. CASE ~s.c.socks_closed
      <4>1. ~Stays(s)  BY <1>2, <3>1
      <4>2. s.c.buf = <<>>  BY <3>3, <4>1 DEF Stays
      <4>3. Size(s.c.buf) = 0  BY <4>2, SizeNat
      <4> QED BY <3>1, <3>3, <2>2, <4>3 DEF UpTold
    <3> QED BY <3>2, <3>3
  <2> QED BY <2>1, <2>3, <2>4, <2>5, <2>6 DEF Up
<1>12. Down(t.c, t.k, t.p, t.h, a, v)
  <2>1. /\ s.h \cap DownLost \subseteq t.h \cap DownLost /\ (ab => t.h \cap DownLost # {})
        /\ (s.c.socks_closed => t.c.socks_closed)
    BY <1>2 DEF Closing, DownLost, Stays
  <2>2. t.p.sndq = s.p.sndq \/ t.p.sndq = <<>>
    BY DEF Closing, PcbClosed
  <2>3. Size(t.p.sndq) <= Size(s.p.sndq) /\ Size(t.p.sndq) \in Nat /\ Size(s.p.sndq) \in Nat
    BY <1>2, <2>2, SizeNat DEF State, PcbT
  <2>4. Size(a.got) \in Nat /\ v.read \in Nat
    BY <1>2, SizeNat, SizesAssumption DEF World, AppT, SrvT
  <2>5. Counts(t.p.sndq, Size(a.got))
    <3>1. CASE t.p.sndq = s.p.sndq  BY <3>1 DEF Core, Base, Down
    <3>2. CASE t.p.sndq = <<>>
      <4>1. Size(t.p.sndq) = 0  BY <3>2, SizeNat
      <4> QED BY <4>1 DEF Counts
    <3> QED BY <2>2, <3>1, <3>2
  <2>6. Size(a.got) + Size(t.p.sndq) <= v.read
    <3>1. Size(a.got) + Size(s.p.sndq) <= v.read
      BY DEF Core, Base, Down
    <3> QED BY <2>3, <2>4, <3>1
  <2>7. ~t.c.socks_up => v.read = 0
    BY DEF Core, Base, Down, Closing, SameData
  <2>8. t.h \cap DownLost = {} => Size(a.got) = v.read /\ t.c.socks_closed
    BY <2>1 DEF DownTold
  <2>9. Counts(a.got, 0) /\ Behind(v)
    BY DEF Core, Base, Down
  <2>10. t.h \cap DownLost # {} \/ SocksFailed \in t.h \/ AllRead(v)
    <3>1. s.h \subseteq t.h  BY DEF Closing
    <3>2. s.c.socks_closed => s.h \cap DownLost # {} \/ SocksFailed \in s.h \/ AllRead(v)
      BY DEF Core, Base, Down
    <3> QED BY <2>1, <3>1, <3>2 DEF DownTold
  <2> QED BY <1>2, <2>5, <2>6, <2>7, <2>8, <2>9, <2>10 DEF Down
<1> QED
  BY <1>2, <1>3, <1>4, <1>5, <1>6, <1>7, <1>8, <1>9, <1>10, <1>11, <1>12 DEF Good, Core, Base

-----------------------------------------------------------------------------
(* Steps from one good state to the next.                                  *)

\* The inductive invariant.
Inv == Good(Cur, input, cb, app, srv)

\* The fields of the state record.
LEMMA CurIs == /\ Cur.c = client /\ Cur.k = socks /\ Cur.p = pcb
               /\ Cur.f = frame /\ Cur.x = faults /\ Cur.h = causes
  BY DEF Cur

\* A step to a state record that has no faults reaches that state.
LEMMA BecomeIs ==
    ASSUME NEW t \in State, Become(t)
    PROVE  Cur' = t
<1>1. /\ client' = t.c /\ socks' = t.k /\ pcb' = t.p
      /\ frame' = t.f /\ faults' = t.x /\ causes' = t.h
  BY DEF Become
<1>2. t = [c |-> t.c, k |-> t.k, p |-> t.p, f |-> t.f, x |-> t.x, h |-> t.h]
  BY DEF State
<1> QED BY <1>1, <1>2 DEF Cur

\* A step to a good state keeps the invariant.
LEMMA InvNext ==
    ASSUME NEW t, NEW i, NEW b, NEW a, NEW v, Good(t, i, b, a, v),
           Become(t), input' = i, cb' = b, app' = a, srv' = v
    PROVE  Inv'
<1>1. Cur' = t
  BY BecomeIs DEF Good, Base, Core
<1> QED BY <1>1 DEF Inv

\* Noting a cause changes nothing else.
LEMMA BecauseIs ==
    ASSUME NEW s \in State, NEW why \in Causes, NEW t, t = Because(s, why)
    PROVE  /\ t \in State /\ t.c = s.c /\ t.k = s.k /\ t.p = s.p /\ t.f = s.f
           /\ t.h = s.h \cup {why}
  BY DEF Because, State

\* Noting a cause keeps the part of the invariant that closing relies on.
LEMMA BecauseKeeps ==
    ASSUME NEW s, NEW i, NEW b, NEW a, NEW v, Base(s, i, b, a, v),
           NEW why \in Causes, NEW t, t = Because(s, why)
    PROVE  /\ Base(t, i, b, a, v)
           /\ t \in State /\ t.c = s.c /\ t.k = s.k /\ t.p = s.p /\ t.f = s.f
           /\ t.h = s.h \cup {why}
<1>1. /\ t \in State /\ t.c = s.c /\ t.k = s.k /\ t.p = s.p /\ t.f = s.f
      /\ t.h = s.h \cup {why}
  BY BecauseIs DEF Base, Core
<1>2. Up(t.c, t.p, i, t.h, a, v)
  <2>1. /\ t.h \cap UpLost = {} => s.h \cap UpLost = {}
        /\ "aborted" \in s.h => "aborted" \in t.h
    BY <1>1
  <2> QED BY <1>1, <2>1 DEF Base, Core, Up
<1>3. Down(t.c, t.k, t.p, t.h, a, v)
  <2>1. /\ t.h \cap DownLost = {} => s.h \cap DownLost = {}
        /\ SocksFailed \in s.h => SocksFailed \in t.h
    BY <1>1
  <2> QED BY <1>1, <2>1 DEF Base, Core, Down
<1>4. LetGo(t.c, t.p, i, b, t.h)
  BY <1>1 DEF Base, LetGo
<1>5. /\ World(i, a, v) /\ Life(s.c, s.k, s.p) /\ (s.k.state = "FREE" => s.k = Freed)
      /\ Sends(s.c, s.k) /\ Queues(s.c, s.k, s.p, i)
      /\ b \in CbT /\ Flow(s.c, s.k, s.p, i, b) /\ Frame(s.c, s.p, b, s.f)
  BY DEF Base, Core
<1>6. Base(t, i, b, a, v)
  BY <1>1, <1>2, <1>3, <1>4, <1>5 DEF Base, Core
<1> QED BY <1>1, <1>6

-----------------------------------------------------------------------------
(* lwIP ends the connection: a RST, or the slow timer.                     *)

\* Freeing a pcb takes its callbacks and its send queue.
LEMMA FreePcbIs ==
    ASSUME NEW s \in State, NEW t, t = FreePcb(s)
    PROVE  /\ t \in State /\ t.c = s.c /\ t.k = s.k /\ t.h = s.h /\ t.f = s.f
           /\ SameWindow(s.p, t.p) /\ t.p.state = "freed" /\ t.p.cbs = {} /\ t.p.sndq = <<>>
           /\ (t.p.closed <=> s.p.closed) /\ (t.p.rxclosed <=> s.p.rxclosed)
<1> DEFINE q == [s.p EXCEPT !.state = "freed", !.cbs = {}, !.sndq = <<>>]
<1>1. /\ q \in PcbT /\ SameWindow(s.p, q) /\ q.state = "freed" /\ q.cbs = {} /\ q.sndq = <<>>
      /\ (q.closed <=> s.p.closed) /\ (q.rxclosed <=> s.p.rxclosed)
  BY EmptySeq DEF State, PcbT, PcbStates, SameWindow
<1>2. t = [s EXCEPT !.p = q]
  BY DEF FreePcb
<1> HIDE DEF q
<1> QED BY <1>1, <1>2 DEF State

\* The pcb of a closed client may go at any time.
LEMMA FreedKeeps ==
    ASSUME NEW s, NEW i, NEW a, NEW v, Core(s, i, a, v), Callbacks(s.c, s.k, s.p),
           Receives(s.c, s.k), s.c.client_closed,
           s.c.dead # "frame", s.c.dead = "stale" => s.c.aborted \/ ~s.c.alive,
           NEW t, t = FreePcb(s),
           NEW j \in InputT, j = NoSegment
    PROVE  Good(t, j, "none", a, v)
<1>1. /\ t \in State /\ t.c = s.c /\ t.k = s.k /\ t.h = s.h /\ t.f = s.f
      /\ SameWindow(s.p, t.p) /\ t.p.state = "freed" /\ t.p.cbs = {} /\ t.p.sndq = <<>>
      /\ (t.p.closed <=> s.p.closed) /\ (t.p.rxclosed <=> s.p.rxclosed)
  BY FreePcbIs DEF Core
<1>2. s.k.state # "NONE"  BY DEF Core, Life
<1>3. j.phase = "idle" /\ j.data = <<>> /\ j.ack = 0 /\ ~j.fin
  BY DEF NoSegment
<1>4. World(j, a, v)  BY DEF Core, World
<1>5. Life(t.c, t.k, t.p) /\ (t.k.state = "FREE" => t.k = Freed)
  BY <1>1, <1>2 DEF Core, Life
<1>6. Sends(t.c, t.k) /\ Receives(t.c, t.k)
  BY <1>1 DEF Core
<1>7. Queues(t.c, t.k, t.p, j)
  <2>1. Size(t.p.sndq) = 0 /\ Ack(j) = 0
    BY <1>1, <1>3, SizeNat DEF Ack
  <2>2. t.p.refused = <<>>
    BY <1>1 DEF Core, Queues, SameWindow
  <2> QED BY <1>1, <2>1, <2>2, SizesAssumption DEF Queues
<1>8. Up(t.c, t.p, j, t.h, a, v)
  <2>1. InFlight(j) = 0  BY <1>3 DEF InFlight
  <2>2. /\ Size(v.got) \in Nat /\ Size(s.c.buf) \in Nat /\ InFlight(i) \in Nat /\ a.sent \in Nat
    BY Numbers DEF Core
  <2>3. Size(v.got) + (IF s.c.socks_closed THEN 0 ELSE Size(s.c.buf)) + InFlight(i) <= a.sent
    BY DEF Core, Up
  <2>4. Size(v.got) + (IF t.c.socks_closed THEN 0 ELSE Size(t.c.buf)) + InFlight(j) <= a.sent
    BY <1>1, <2>1, <2>2, <2>3
  <2>5. /\ Counts(v.got, 0)
        /\ ~t.c.socks_closed => Counts(t.c.buf, Size(v.got))
    BY <1>1 DEF Core, Up
  <2>6. /\ (t.c.client_closed /\ ~t.c.socks_closed /\ "aborted" \notin t.h) =>
             Size(v.got) + Size(t.c.buf) = a.sent
        /\ (t.c.socks_closed /\ t.h \cap UpLost = {}) => Size(v.got) = a.sent
        /\ t.c.aborted => "aborted" \in t.h
    BY <1>1 DEF Core, Up
  <2> QED BY <1>1, <1>3, <2>1, <2>4, <2>5, <2>6 DEF Up
<1>9. Down(t.c, t.k, t.p, t.h, a, v)
  <2>1. Size(t.p.sndq) = 0  BY <1>1, SizeNat
  <2>2. Size(a.got) \in Nat /\ v.read \in Nat /\ Size(s.p.sndq) \in Nat
    BY Numbers DEF Core
  <2>3. Size(a.got) + Size(s.p.sndq) <= v.read
    BY DEF Core, Down
  <2>4. Size(a.got) + Size(t.p.sndq) <= v.read
    BY <2>1, <2>2, <2>3
  <2>5. Counts(t.p.sndq, Size(a.got))
    BY <2>1 DEF Counts
  <2> QED BY <1>1, <2>4, <2>5 DEF Core, Down
<1>10. Flow(t.c, t.k, t.p, j, "none")
  BY <1>3 DEF Flow
<1>11. Frame(t.c, t.p, "none", t.f)
  BY <1>1 DEF Frame
<1>12. LetGo(t.c, t.p, j, "none", t.h)
  BY <1>1, <1>3 DEF LetGo
<1>13. Callbacks(t.c, t.k, t.p)
  BY <1>1 DEF Callbacks
<1> QED
  BY <1>1, <1>4, <1>5, <1>6, <1>7, <1>8, <1>9, <1>10, <1>11, <1>12, <1>13
  DEF Good, Base, Core, CbT

\* NoCallbacks in the form in which the handlers clear the callbacks.
LEMMA CallbacksCleared ==
    ASSUME NEW s, PreClose(s)
    PROVE  LET r == [Touch(s) EXCEPT !.p.cbs = {}]
           IN  /\ r \in State /\ r.c = s.c /\ r.k = s.k /\ r.h = s.h /\ r.f = s.f
               /\ r.p.cbs = {} /\ SameWindow(s.p, r.p) /\ r.p.state = s.p.state
               /\ r.p.sndq = s.p.sndq /\ (r.p.closed <=> s.p.closed)
  BY NoCallbacks, ZenonT(30)

\* The error callback of a pcb that lwIP frees, before or after it.
LEMMA ErrorClosing ==
    ASSUME NEW s, PreClose(s), input.phase = "idle", s.c.dead = "null",
           NEW t, \/ t = FreePcb(client_handle_freed_client([s EXCEPT !.p.cbs = {}]))
                  \/ t = client_handle_freed_client(FreePcb(s))
    PROVE  Closing(s, t, FALSE, Stays(s)) /\ t.p.state = "freed"
<1>1. CASE t = FreePcb(client_handle_freed_client([s EXCEPT !.p.cbs = {}]))
  <2> DEFINE r == [Touch(s) EXCEPT !.p.cbs = {}]
             u == client_handle_freed_client(r)
  <2>1. t = FreePcb(u)
    BY <1>1 DEF PreClose, Touch, Check
  <2>2. /\ r \in State /\ r.c = s.c /\ r.k = s.k /\ r.h = s.h /\ r.f = s.f
        /\ r.p.cbs = {} /\ SameWindow(s.p, r.p) /\ r.p.state = s.p.state
        /\ r.p.sndq = s.p.sndq /\ (r.p.closed <=> s.p.closed)
    BY CallbacksCleared
  <2> HIDE DEF r
  <2>3. Stays(r) <=> Stays(s)  BY <2>2 DEF Stays
  <2>4. /\ u \in State /\ SameData(r.c, u.c)
        /\ u.c.client_closed /\ (u.c.socks_closed <=> ~Stays(r)) /\ (u.c.alive <=> Stays(r))
        /\ (u.c.aborted <=> r.c.aborted)
        /\ u.k = (IF Stays(r) THEN r.k ELSE Freed) /\ u.p = r.p /\ u.h = r.h
        /\ u.f = IF Stays(r) \/ r.c.aborted \/ r.c.dead = "null" THEN r.f ELSE -1
    BY <2>2, HandleFreedIs DEF PreClose
  <2> HIDE DEF u
  <2>5. /\ t \in State /\ t.c = u.c /\ t.k = u.k /\ t.h = u.h /\ t.f = u.f
        /\ SameWindow(u.p, t.p) /\ t.p.state = "freed" /\ t.p.cbs = {} /\ t.p.sndq = <<>>
        /\ (t.p.closed <=> u.p.closed)
    BY <2>1, <2>4, FreePcbIs
  <2>6. SameWindow(s.p, t.p)
    BY <2>2, <2>4, <2>5 DEF SameWindow
  <2>7. PcbClosed(s.p, t.p)
    BY <2>2, <2>4, <2>5 DEF PcbClosed
  <2> QED BY <2>2, <2>3, <2>4, <2>5, <2>6, <2>7 DEF Closing, PreClose
<1>2. CASE t = client_handle_freed_client(FreePcb(s))
  <2> DEFINE r == FreePcb(s)
  <2>1. /\ r \in State /\ r.c = s.c /\ r.k = s.k /\ r.h = s.h /\ r.f = s.f
        /\ SameWindow(s.p, r.p) /\ r.p.state = "freed" /\ r.p.cbs = {} /\ r.p.sndq = <<>>
        /\ (r.p.closed <=> s.p.closed)
    BY FreePcbIs DEF PreClose
  <2> HIDE DEF r
  <2>2. Stays(r) <=> Stays(s)  BY <2>1 DEF Stays
  <2>3. t = client_handle_freed_client(r)
    BY <1>2 DEF r
  <2>4. /\ t \in State /\ SameData(r.c, t.c)
        /\ t.c.client_closed /\ (t.c.socks_closed <=> ~Stays(r)) /\ (t.c.alive <=> Stays(r))
        /\ (t.c.aborted <=> r.c.aborted)
        /\ t.k = (IF Stays(r) THEN r.k ELSE Freed) /\ t.p = r.p /\ t.h = r.h
        /\ t.f = IF Stays(r) \/ r.c.aborted \/ r.c.dead = "null" THEN r.f ELSE -1
    BY <2>1, <2>3, HandleFreedIs DEF PreClose
  <2>5. PcbClosed(s.p, t.p)
    BY <2>1, <2>4 DEF PcbClosed
  <2> QED BY <2>1, <2>2, <2>4, <2>5 DEF Closing, PreClose
<1> QED BY <1>1, <1>2

\* The steps between events, and those a callback's SYNC_COMMIT runs.
LEMMA IdleIs ==
    ASSUME Inv, Idle
    PROVE  /\ Cur.c.dead = "null" \/ Cur.c.aborted \/ ~Cur.c.alive
           /\ Cur.c.dead # "frame" /\ (Cur.c.dead = "stale" => Cur.c.aborted \/ ~Cur.c.alive)
           /\ input = NoSegment
<1>1. Base(Cur, input, cb, app, srv) /\ cb = "none" /\ input.phase = "idle"
  BY DEF Inv, Good, Idle
<1>2. Cur.c.dead \in {"null", "frame", "stale"}
  BY <1>1 DEF Base, Core, State, ClientT
<1>3. input.data = <<>> /\ input.ack = 0 /\ ~input.fin /\ input \in InputT
  BY <1>1 DEF Base, Core, World, Flow
<1>4. input.fin = FALSE  BY <1>3 DEF InputT
<1>5. input = NoSegment
  BY <1>1, <1>3, <1>4 DEF InputT, NoSegment
<1> QED BY <1>1, <1>2, <1>5 DEF Base, Frame

\* The application resets the connection or lwIP gives it up.
LEMMA ResetKeeps ==
    ASSUME Inv, Idle, "err" \in pcb.cbs,
           NEW s, s = Because(Cur, "reset"),
           NEW t, \/ t = FreePcb(client_handle_freed_client([s EXCEPT !.p.cbs = {}]))
                  \/ t = client_handle_freed_client(FreePcb(s))
    PROVE  Good(t, input, cb, app, srv)
<1>1. Base(Cur, input, cb, app, srv)  BY DEF Inv, Good
<1>a. "reset" \in Causes  BY DEF Causes
<1>2. /\ Base(s, input, cb, app, srv) /\ s.c = Cur.c /\ s.k = Cur.k /\ s.p = Cur.p
      /\ s.h = Cur.h \cup {"reset"} /\ s \in State
  BY <1>1, <1>a, BecauseKeeps
<1>3. Cur.k.state # "NONE" /\ ~Cur.c.client_closed
  BY CurIs DEF Inv, Good, Callbacks
<1>4. PreClose(s)  BY <1>2, <1>3, MayClose
<1>5. s.c.dead = "null"
  BY <1>2, <1>4, IdleIs DEF PreClose
<1>6. Closing(s, t, FALSE, Stays(s)) /\ t.p.state = "freed"
  BY <1>4, <1>5, ErrorClosing DEF Idle
<1>7. UpTold(s, t, FALSE, app, srv)
  <2>1. CASE s.c.socks_closed  BY <2>1 DEF UpTold
  <2>2. CASE ~s.c.socks_closed
    <3>1. "recv" \in s.p.cbs  BY <1>2, <1>3, <2>2 DEF Inv, Good, Callbacks
    <3>2. Size(srv.got) + Size(s.c.buf) + InFlight(input) = app.sent
      BY <1>2, <3>1 DEF Base, Core, Up
    <3>3. InFlight(input) = 0  BY DEF InFlight, Idle
    <3>4. Size(srv.got) \in Nat /\ Size(s.c.buf) \in Nat
      BY <1>2, Numbers DEF Base, Core
    <3> QED BY <1>6, <3>2, <3>3, <3>4 DEF UpTold
  <2> QED BY <2>1, <2>2
<1>8. DownTold(s, FALSE, app, srv)
  BY <1>2 DEF DownTold, DownLost
<1>9. Stays(s) \in BOOLEAN  BY DEF Stays
<1> QED BY <1>2, <1>3, <1>6, <1>7, <1>8, <1>9, ClosingKeeps DEF Idle

\* A RST of the application keeps the invariant.
LEMMA TcpResetKeeps == ASSUME Inv, TcpReset PROVE Inv'
<1> DEFINE s == Because(Cur, "reset")
           t == FreePcb(IF "err" \in pcb.cbs
                          THEN client_handle_freed_client([s EXCEPT !.p.cbs = {}]) ELSE s)
<1>1. Become(t) /\ Idle /\ pcb.state \in {"ESTABLISHED", "CLOSE_WAIT", "CLOSING"}
      /\ UNCHANGED <<input, cb, app, srv>>
  BY DEF TcpReset
<1>2. Good(t, input, cb, app, srv)
  <2>1. CASE "err" \in pcb.cbs
    BY <1>1, <2>1, ResetKeeps
  <2>2. CASE "err" \notin pcb.cbs
    <3>1. /\ Base(s, input, cb, app, srv) /\ s.c = Cur.c /\ s.k = Cur.k /\ s.p = Cur.p
      <4>1. Base(Cur, input, cb, app, srv) /\ "reset" \in Causes  BY DEF Inv, Good, Causes
      <4> QED BY <4>1, BecauseKeeps
    <3>2. Cur.k.state # "NONE" /\ Cur.c.client_closed
      BY <1>1, <2>2, CurIs DEF Inv, Good, Base, Core, Callbacks, Life
    <3>3. Callbacks(s.c, s.k, s.p) /\ Receives(s.c, s.k)
      BY <3>1 DEF Inv, Good
    <3>4. t = FreePcb(s)  BY <2>2
    <3> HIDE DEF s, t
    <3>5. Core(s, input, app, srv) /\ input \in InputT
      BY <3>1 DEF Base, Core, World
    <3>6. input = NoSegment /\ s.c.dead # "frame" /\ (s.c.dead = "stale" => s.c.aborted \/ ~s.c.alive)
      BY <1>1, <3>1, IdleIs
    <3> QED BY <1>1, <3>1, <3>2, <3>3, <3>4, <3>5, <3>6, FreedKeeps DEF Idle
  <2> QED BY <2>1, <2>2
<1> HIDE DEF t
<1> QED BY <1>1, <1>2, InvNext

\* lwIP's slow timer keeps the invariant.
LEMMA SlowtmrKeeps == ASSUME Inv, tcp_slowtmr PROVE Inv'
<1> DEFINE s == FreePcb(IF pcb.state \in {"CLOSING", "TIME_WAIT"} THEN Cur
                        ELSE Because(Cur, "reset"))
           t == IF "err" \in pcb.cbs THEN client_handle_freed_client(s) ELSE s
<1>1. /\ Become(t) /\ Idle /\ UNCHANGED <<input, cb, app, srv>>
      /\ \/ pcb.state \in {"CLOSING", "TIME_WAIT"}
         \/ pcb.state \in {"ESTABLISHED", "CLOSE_WAIT"}
  BY DEF tcp_slowtmr
<1>2. Good(t, input, cb, app, srv)
  <2>1. CASE "err" \in pcb.cbs
    <3>1. pcb.state \notin {"CLOSING", "TIME_WAIT"}
      BY <2>1, CurIs DEF Inv, Good, Base, Core, Callbacks, Life
    <3>2. t = client_handle_freed_client(FreePcb(Because(Cur, "reset")))
      BY <2>1, <3>1
    <3> HIDE DEF t
    <3> QED BY <1>1, <2>1, <3>2, ResetKeeps
  <2>2. CASE "err" \notin pcb.cbs
    <3> DEFINE r == IF pcb.state \in {"CLOSING", "TIME_WAIT"} THEN Cur
                    ELSE Because(Cur, "reset")
    <3>1. /\ Base(r, input, cb, app, srv) /\ r.c = Cur.c /\ r.k = Cur.k /\ r.p = Cur.p
      <4>1. Base(Cur, input, cb, app, srv) /\ "reset" \in Causes  BY DEF Inv, Good, Causes
      <4> QED BY <4>1, BecauseKeeps
    <3>2. Cur.k.state # "NONE" /\ Cur.c.client_closed
      BY <1>1, <2>2, CurIs DEF Inv, Good, Base, Core, Callbacks, Life
    <3>3. Callbacks(r.c, r.k, r.p) /\ Receives(r.c, r.k)
      BY <3>1 DEF Inv, Good
    <3>4. t = FreePcb(r)  BY <2>2
    <3> HIDE DEF r, t
    <3>5. Core(r, input, app, srv) /\ input \in InputT
      BY <3>1 DEF Base, Core, World
    <3>6. input = NoSegment /\ r.c.dead # "frame" /\ (r.c.dead = "stale" => r.c.aborted \/ ~r.c.alive)
      BY <1>1, <3>1, IdleIs
    <3> QED BY <1>1, <3>1, <3>2, <3>3, <3>4, <3>5, <3>6, FreedKeeps DEF Idle
  <2> QED BY <2>1, <2>2
<1> HIDE DEF t
<1> QED BY <1>1, <1>2, InvNext

-----------------------------------------------------------------------------
(* The SOCKS side ends, or the reactor.                                    *)

\* The SOCKS side of a closed client ends: the client is freed.
LEMMA FinishKeeps ==
    ASSUME NEW s, NEW i, NEW b, NEW a, NEW v, Base(s, i, b, a, v), s.p.cbs = {},
           s.c.client_closed, ~s.c.socks_closed,
           s.h \cap UpLost # {} \/ s.c.buf = <<>>,
           NEW t, t = client_dealloc(SocksClosed(s))
    PROVE  Good(t, i, b, a, v)
<1> DEFINE m == SocksClosed(s)
<1>1. s \in State /\ s.k.state # "FREE" /\ s.c.alive /\ World(i, a, v) /\ s.k.state # "NONE"
  BY DEF Base, Core, Life
<1>2. /\ m \in State /\ SameData(s.c, m.c)
      /\ m.c.socks_closed /\ (m.c.client_closed <=> s.c.client_closed)
      /\ (m.c.alive <=> s.c.alive) /\ (m.c.aborted <=> s.c.aborted)
      /\ m.k = Freed /\ m.p = s.p /\ m.h = s.h /\ m.f = s.f
  BY <1>1, SocksClosedIs
<1> HIDE DEF m
<1>3. t = client_dealloc(m)  BY DEF m
<1>4. s.c.dead = "stale" => s.c.aborted
  BY <1>1 DEF Base, CbT, Frame
<1>5. m.c.dead = s.c.dead
  BY <1>2 DEF SameData
<1>6. /\ t \in State /\ SameData(m.c, t.c)
      /\ t.c.socks_closed /\ t.c.client_closed /\ ~t.c.alive
      /\ (t.c.aborted <=> m.c.aborted) /\ t.k = m.k /\ t.p = m.p /\ t.h = m.h
      /\ t.f = IF m.c.aborted \/ m.c.dead = "null" THEN m.f ELSE -1
  BY <1>1, <1>2, <1>3, <1>4, <1>5, DeallocIs
<1>7. /\ SameData(s.c, t.c) /\ (t.c.aborted <=> s.c.aborted)
      /\ t.k = Freed /\ t.p = s.p /\ t.h = s.h
      /\ t.f = IF s.c.aborted \/ s.c.dead = "null" THEN s.f ELSE -1
  BY <1>2, <1>5, <1>6 DEF SameData
<1>8. Freed.state = "FREE" /\ Freed.send = 0 /\ ~Freed.recv  BY DEF Freed
<1>9. Life(t.c, t.k, t.p)
  BY <1>1, <1>6, <1>7, <1>8 DEF Base, Core, Life, SameData
<1>10. Sends(t.c, t.k)
  BY <1>1, <1>7, <1>8, SizeNat DEF Base, Core, Sends, SameData, State, ClientT
<1>11. Queues(t.c, t.k, t.p, i)
  BY <1>6, <1>7 DEF Base, Core, Queues
<1>12. Up(t.c, t.p, i, t.h, a, v)
  <2>1. /\ Size(v.got) \in Nat /\ Size(s.c.buf) \in Nat /\ InFlight(i) \in Nat /\ a.sent \in Nat
    BY <1>1, Numbers
  <2>2. Size(v.got) + (IF s.c.socks_closed THEN 0 ELSE Size(s.c.buf)) + InFlight(i) <= a.sent
    BY DEF Base, Core, Up
  <2>3. Size(v.got) + (IF t.c.socks_closed THEN 0 ELSE Size(t.c.buf)) + InFlight(i) <= a.sent
    BY <1>6, <2>1, <2>2
  <2>4. t.h \cap UpLost = {} => Size(v.got) = a.sent /\ (a.fin \/ t.p.state = "freed")
    <3> SUFFICES ASSUME t.h \cap UpLost = {}
                 PROVE  Size(v.got) = a.sent /\ (a.fin \/ t.p.state = "freed")
      OBVIOUS
    <3>1. s.c.buf = <<>> /\ "aborted" \notin s.h  BY <1>7 DEF UpLost
    <3>2. Size(v.got) + Size(s.c.buf) = a.sent /\ (a.fin \/ s.p.state = "freed")
      BY <3>1 DEF Base, Core, Up
    <3>3. Size(s.c.buf) = 0  BY <3>1, SizeNat
    <3> QED BY <1>7, <2>1, <3>2, <3>3
  <2> QED BY <1>6, <1>7, <2>3, <2>4 DEF Base, Core, Up, SameData
<1>13. Down(t.c, t.k, t.p, t.h, a, v)
  <2>1. t.h \cap DownLost # {}
    BY <1>7 DEF Base, Core, Down
  <2> QED BY <1>6, <1>7, <2>1 DEF Base, Core, Down, SameData
<1>14. Flow(t.c, t.k, t.p, i, b)
  BY <1>7, <1>8 DEF Base, Flow, SameData
<1>15. Frame(t.c, t.p, b, t.f)
  <2>1. t.c.dead = s.c.dead  BY <1>7 DEF SameData
  <2>2. CASE b # "none"
    <3>1. s.c.dead = "frame" /\ (s.f = 1 <=> s.c.aborted) /\ (s.p.state = "freed" <=> s.c.aborted)
      BY <2>2 DEF Base, Frame
    <3>2. (t.f = 1 <=> t.c.aborted) /\ (t.f = -1 <=> ~t.c.aborted)
      BY <1>7, <3>1
    <3> QED BY <1>6, <1>7, <2>1, <2>2, <3>1, <3>2 DEF Frame
  <2>3. CASE b = "none"
    BY <1>6, <1>7, <2>1, <2>3 DEF Base, Frame
  <2> QED BY <2>2, <2>3
<1>16. LetGo(t.c, t.p, i, b, t.h)
  BY <1>6, <1>7 DEF Base, LetGo
<1>17. Callbacks(t.c, t.k, t.p) /\ Receives(t.c, t.k)
  BY <1>6, <1>7 DEF Callbacks, Receives
<1> QED
  BY <1>1, <1>6, <1>7, <1>9, <1>10, <1>11, <1>12, <1>13, <1>14, <1>15, <1>16, <1>17
  DEF Good, Base, Core

\* The SOCKS side of an open client ends: what is not confirmed is waited for.
LEMMA FreeSocksOpen ==
    ASSUME NEW s, NEW i, NEW b, NEW a, NEW v, Good(s, i, b, a, v),
           s.k.state \notin {"NONE", "FREE"}, ~s.c.client_closed,
           b = "none" <=> i.phase = "idle", b = "none" <=> input.phase = "idle",
           s.h \cap UpLost # {}, SocksFailed \in s.h \/ AllRead(v), NEW ok \in BOOLEAN,
           NEW t, t = client_free_socks(s, ok)
    PROVE  Good(t, i, b, a, v)
<1> DEFINE r == IF s.c.socks_up THEN [s EXCEPT !.p.cbs = @ \ {"recv"}] ELSE s
           m == SocksClosed(r)
           waits == m.c.socks_up /\ (m.c.rbuf # <<>> \/ m.c.pending > 0)
<1>1. /\ s \in State /\ World(i, a, v) /\ ~s.c.socks_closed /\ s.c.alive
      /\ s.p.state \in {"ESTABLISHED", "CLOSE_WAIT"}
  BY DEF Good, Base, Core, Life
<1>2. /\ r \in State /\ r.c = s.c /\ r.k = s.k /\ r.h = s.h /\ r.f = s.f
      /\ r.p.cbs = (IF s.c.socks_up THEN s.p.cbs \ {"recv"} ELSE s.p.cbs)
      /\ SameWindow(s.p, r.p) /\ r.p.state = s.p.state /\ r.p.sndq = s.p.sndq
      /\ (r.p.closed <=> s.p.closed) /\ (r.p.rxclosed <=> s.p.rxclosed)
  <2>1. CASE s.c.socks_up
    <3> DEFINE q == [s.p EXCEPT !.cbs = @ \ {"recv"}]
    <3>0. s.p \in PcbT  BY <1>1 DEF State
    <3>1. /\ q \in PcbT /\ q.cbs = s.p.cbs \ {"recv"} /\ SameWindow(s.p, q)
          /\ q.state = s.p.state /\ q.sndq = s.p.sndq
          /\ (q.closed <=> s.p.closed) /\ (q.rxclosed <=> s.p.rxclosed)
      BY <3>0 DEF PcbT, SameWindow
    <3>2. r = [s EXCEPT !.p = q]
      BY <1>1, <2>1 DEF State
    <3> HIDE DEF q, r
    <3> QED BY <1>1, <2>1, <3>1, <3>2 DEF State
  <2>2. CASE ~s.c.socks_up
    BY <1>1, <2>2 DEF SameWindow
  <2> QED BY <2>1, <2>2
<1>3. t = IF waits /\ ~m.c.client_closed THEN m
          ELSE IF ~m.c.client_closed THEN client_free_client(m, ok)
          ELSE client_dealloc(m)
  <2>1. Touch(s) = s  BY <1>1 DEF Touch, Check
  <2>2. Check(r, ~r.c.socks_closed, "SOCKS closed twice") = r
    BY <1>1, <1>2 DEF Check
  <2>3. r = IF s.c.socks_up /\ ~s.c.client_closed
              THEN [Touch(s) EXCEPT !.p.cbs = @ \ {"recv"}] ELSE s
    BY <2>1
  <2> HIDE DEF r
  <2> QED BY <2>2, <2>3 DEF client_free_socks
<1> HIDE DEF r
<1>4. /\ m \in State /\ SameData(s.c, m.c)
      /\ m.c.socks_closed /\ ~m.c.client_closed
      /\ m.c.alive /\ (m.c.aborted <=> s.c.aborted)
      /\ m.k = Freed /\ m.p = r.p /\ m.h = s.h /\ m.f = s.f
  BY <1>1, <1>2, SocksClosedIs
<1> HIDE DEF m
<1>5. Freed.state = "FREE" /\ Freed.send = 0 /\ ~Freed.recv  BY DEF Freed
<1>6. Life(m.c, m.k, m.p)
  BY <1>1, <1>2, <1>4, <1>5 DEF Good, Base, Core, Life, SameData
<1>7. Sends(m.c, m.k)
  BY <1>1, <1>4, <1>5, SizeNat DEF Good, Base, Core, Sends, SameData, State, ClientT
<1>8. Queues(m.c, m.k, m.p, i)
  <2>1. "recv" \in m.p.cbs => "recv" \in s.p.cbs
    BY <1>2, <1>4
  <2> QED BY <1>1, <1>2, <1>4, <1>5, <2>1 DEF Good, Base, Core, Queues, SameData, SameWindow
<1>9. Up(m.c, m.p, i, m.h, a, v)
  <2>1. /\ Size(v.got) \in Nat /\ Size(s.c.buf) \in Nat /\ InFlight(i) \in Nat /\ a.sent \in Nat
    BY <1>1, Numbers
  <2>2. Size(v.got) + (IF s.c.socks_closed THEN 0 ELSE Size(s.c.buf)) + InFlight(i) <= a.sent
    BY DEF Good, Base, Core, Up
  <2>3. Size(v.got) + (IF m.c.socks_closed THEN 0 ELSE Size(m.c.buf)) + InFlight(i) <= a.sent
    BY <1>1, <1>4, <2>1, <2>2
  <2>4. "recv" \in m.p.cbs => "recv" \in s.p.cbs
    BY <1>2, <1>4
  <2> QED BY <1>1, <1>2, <1>4, <2>3, <2>4 DEF Good, Base, Core, Up, SameData
<1>10. Down(m.c, m.k, m.p, m.h, a, v)
  BY <1>1, <1>2, <1>4 DEF Good, Base, Core, Down, SameData
<1>11. Flow(m.c, m.k, m.p, i, b)
  BY <1>2, <1>4, <1>5 DEF Good, Base, Flow, SameData, SameWindow
<1>12. Frame(m.c, m.p, b, m.f)
  BY <1>1, <1>2, <1>4 DEF Good, Base, Frame, SameData
<1>13. LetGo(m.c, m.p, i, b, m.h)
  BY <1>4 DEF LetGo
<1>14. Base(m, i, b, a, v)
  BY <1>1, <1>4, <1>6, <1>7, <1>8, <1>9, <1>10, <1>11, <1>12, <1>13 DEF Good, Base, Core
<1>15. CASE waits
  <2>1. Callbacks(m.c, m.k, m.p)
    BY <1>1, <1>2, <1>4, <1>5, <1>15 DEF Good, Callbacks, SameData
  <2>2. Receives(m.c, m.k)
    BY <1>1, <1>4, <1>5, <1>15 DEF Good, Receives, SameData
  <2> QED BY <1>3, <1>4, <1>14, <1>15, <2>1, <2>2 DEF Good
<1>16. CASE ~waits
  <2>1. t = client_free_client(m, ok)
    BY <1>3, <1>4, <1>16
  <2>2. PreClose(m) /\ m.k.state # "NONE"
    BY <1>4, <1>5, <1>14, MayClose
  <2>3. Closing(m, t, ~ok, Stays(m)) /\ Stays(m) \in BOOLEAN
    BY <2>1, <2>2, FreeClientIs DEF Stays
  <2>4. UpTold(m, t, ~ok, a, v)
    BY <1>4 DEF UpTold
  <2>5. DownTold(m, ~ok, a, v)
    <3>1. Size(a.got) \in Nat /\ v.read \in Nat /\ Size(s.p.sndq) \in Nat /\ Ack(i) \in Nat
          /\ s.c.pending \in Nat
      BY <1>1, Numbers
    <3>2. CASE ~s.c.socks_up
      <4>1. v.read = 0 /\ Size(a.got) + Size(s.p.sndq) <= v.read
        BY <3>2 DEF Good, Base, Core, Down
      <4>2. Size(a.got) = v.read
        BY <3>1, <4>1
      <4> QED BY <1>4, <4>2 DEF DownTold
    <3>3. CASE s.c.socks_up
      <4>1. s.c.rbuf = <<>> /\ ~(s.c.pending > 0)
        BY <1>4, <1>16, <3>3 DEF SameData
      <4>2. /\ s.c.pending = Size(s.p.sndq) + Ack(i)
            /\ Size(a.got) + Size(s.p.sndq) + Size(s.c.rbuf) - s.c.rsent = v.read
            /\ s.c.rsent = 0
        BY <4>1 DEF Good, Base, Core, Queues, Down, Sends
      <4>3. Size(s.c.rbuf) = 0  BY <4>1, SizeNat
      <4>4. Size(s.p.sndq) = 0  BY <3>1, <4>1, <4>2
      <4>5. Size(a.got) = v.read  BY <3>1, <4>2, <4>3, <4>4
      <4> QED BY <1>4, <4>5 DEF DownTold
    <3> QED BY <3>2, <3>3
  <2> QED BY <1>4, <1>14, <2>2, <2>3, <2>4, <2>5, ClosingKeeps
<1> QED BY <1>15, <1>16

\* A closed client has no callbacks registered.
LEMMA NoneLeft ==
    ASSUME NEW s \in State, Callbacks(s.c, s.k, s.p), s.c.client_closed
    PROVE  s.p.cbs = {}
<1>1. s.p.cbs \subseteq {"err", "recv", "sent"}  BY DEF State, PcbT
<1> QED BY <1>1 DEF Callbacks

\* client_free_socks() keeps the invariant, whichever side is still open.
LEMMA FreeSocksKeeps ==
    ASSUME NEW s, NEW i, NEW b, NEW a, NEW v, Good(s, i, b, a, v),
           s.k.state \notin {"NONE", "FREE"},
           b = "none" <=> i.phase = "idle", b = "none" <=> input.phase = "idle",
           s.h \cap UpLost # {}, SocksFailed \in s.h \/ AllRead(v), NEW ok \in BOOLEAN,
           NEW t, t = client_free_socks(s, ok)
    PROVE  Good(t, i, b, a, v)
<1>1. CASE ~s.c.client_closed
  BY <1>1, FreeSocksOpen
<1>2. CASE s.c.client_closed
  <2>1. s \in State /\ ~s.c.socks_closed /\ s.p.cbs = {}
    BY <1>2, NoneLeft DEF Good, Base, Core, Life
  <2>2. SocksClosed(s).c.client_closed
    BY <1>2, <2>1, SocksClosedIs
  <2>3. t = client_dealloc(SocksClosed(s))
    BY <1>2, <2>1, <2>2 DEF client_free_socks, Check
  <2> QED BY <1>2, <2>1, <2>3, FinishKeeps DEF Good
<1> QED BY <1>1, <1>2

\* Inside a callback, input is not idle.
LEMMA InCallback ==
    ASSUME Inv, Idle \/ cb \in {"accept", "sent", "recv", "fin"}
    PROVE  cb = "none" <=> input.phase = "idle"
  BY DEF Inv, Good, Base, Flow, Idle

\* Noting a cause keeps the whole invariant.
LEMMA BecauseGood ==
    ASSUME Inv, NEW why \in Causes, NEW s, s = Because(Cur, why)
    PROVE  /\ Good(s, input, cb, app, srv)
           /\ s.c = client /\ s.k = socks /\ s.p = pcb /\ s.f = frame
           /\ s.h = causes \cup {why}
<1>1. Base(Cur, input, cb, app, srv)  BY DEF Inv, Good
<1>2. /\ Base(s, input, cb, app, srv)
      /\ s.c = Cur.c /\ s.k = Cur.k /\ s.p = Cur.p /\ s.f = Cur.f
      /\ s.h = Cur.h \cup {why}
  BY <1>1, BecauseKeeps
<1>3. Callbacks(s.c, s.k, s.p) /\ Receives(s.c, s.k)
  BY <1>2 DEF Inv, Good
<1> QED BY <1>2, <1>3, CurIs DEF Good

\* Whether tcp_close() succeeds is a Boolean.
LEMMA ClosesBoolean == Closes \subseteq BOOLEAN
  BY DEF Closes

\* An end of file from the proxy keeps the invariant.
LEMMA SocksRecvClosedKeeps == ASSUME Inv, SocksRecvClosed PROVE Inv'
<1>1. PICK ok \in Closes : Become(client_free_socks(Because(Cur, "socks closed"), ok))
  BY DEF SocksRecvClosed
<1>2. socks.recv /\ UNCHANGED <<input, cb, app, srv>> /\ (Idle \/ cb \in {"sent", "accept"})
  BY DEF SocksRecvClosed, During
<1> DEFINE s == Because(Cur, "socks closed")
           t == client_free_socks(s, ok)
<1>3. "socks closed" \in Causes  BY DEF Causes
<1>4. /\ Good(s, input, cb, app, srv) /\ s.k = socks /\ s.h = causes \cup {"socks closed"}
  BY <1>3, BecauseGood
<1> HIDE DEF s
<1>5. s.k.state = "UP"
  BY <1>2, <1>4 DEF Good, Base, Core, Sends
<1>6. s.h \cap UpLost # {}  BY <1>4 DEF UpLost
<1>7. cb = "none" <=> input.phase = "idle"  BY <1>2, InCallback
<1>8. Good(t, input, cb, app, srv)
  <2>1. AllRead(srv)  BY DEF SocksRecvClosed, AllRead
  <2> QED BY <1>4, <1>5, <1>6, <1>7, <2>1, ClosesBoolean, FreeSocksKeeps
<1>9. Become(t)  BY <1>1 DEF s
<1> HIDE DEF t
<1> QED BY <1>2, <1>8, <1>9, InvNext

\* An error of the SOCKS connection keeps the invariant.
LEMMA SocksErrorKeeps == ASSUME Inv, SocksError PROVE Inv'
<1>1. PICK ok \in Closes : Become(client_free_socks(Because(Cur, "socks error"), ok))
  BY DEF SocksError
<1>2. socks.state \notin {"NONE", "FREE"} /\ UNCHANGED <<input, cb, app, srv>>
      /\ (Idle \/ cb \in {"recv", "sent", "accept"})
  BY DEF SocksError
<1> DEFINE s == Because(Cur, "socks error")
           t == client_free_socks(s, ok)
<1>3. "socks error" \in Causes  BY DEF Causes
<1>4. /\ Good(s, input, cb, app, srv) /\ s.k = socks /\ s.h = causes \cup {"socks error"}
  BY <1>3, BecauseGood
<1> HIDE DEF s
<1>6. s.h \cap UpLost # {}  BY <1>4 DEF UpLost
<1>7. cb = "none" <=> input.phase = "idle"  BY <1>2, InCallback
<1>8. Good(t, input, cb, app, srv)
  <2>1. SocksFailed \in s.h  BY <1>4 DEF SocksFailed
  <2> QED BY <1>2, <1>4, <1>6, <1>7, <2>1, ClosesBoolean, FreeSocksKeeps
<1>9. Become(t)  BY <1>1 DEF s
<1> HIDE DEF t
<1> QED BY <1>2, <1>8, <1>9, InvNext

\* Murdering the client when the reactor has ended keeps the invariant.
LEMMA TeardownKeeps == ASSUME Inv, Teardown PROVE Inv'
<1> DEFINE s == Because(Cur, "murdered")
           t == client_murder(s)
<1>1. Become(t) /\ Idle /\ client.alive /\ UNCHANGED <<input, cb, app, srv>>
  BY DEF Teardown
<1>2. "murdered" \in Causes  BY DEF Causes
<1>3. /\ Good(s, input, cb, app, srv) /\ s.c = client /\ s.h = causes \cup {"murdered"}
  BY <1>2, BecauseGood
<1> HIDE DEF s
<1>4. s.h \cap UpLost # {} /\ s.h \cap DownLost # {}  BY <1>3 DEF UpLost, DownLost
<1>5. /\ s \in State /\ s.k.state # "NONE" /\ ~(s.c.client_closed /\ s.c.socks_closed)
  BY <1>1, <1>3 DEF Good, Base, Core, Life
<1>6. Good(t, input, cb, app, srv)
  <2>1. CASE ~s.c.client_closed
    <3>1. Base(s, input, cb, app, srv)  BY <1>3 DEF Good
    <3>2. PreClose(s)  BY <1>5, <2>1, <3>1, MayClose
    <3>3. Closing(s, t, TRUE, FALSE)  BY <3>2, MurderIs
    <3>4. UpTold(s, t, TRUE, app, srv) /\ DownTold(s, TRUE, app, srv)
      BY DEF UpTold, DownTold
    <3> HIDE DEF t
    <3> QED BY <1>1, <1>5, <2>1, <3>1, <3>3, <3>4, ClosingKeeps DEF Idle
  <2>2. CASE s.c.client_closed
    <3>1. ~s.c.socks_closed  BY <1>5, <2>2
    <3>2. t = client_dealloc(SocksClosed(s))
      BY <2>2, <3>1 DEF client_murder
    <3>3. s.p.cbs = {}  BY <1>3, <1>5, <2>2, NoneLeft DEF Good
    <3>4. Base(s, input, cb, app, srv)  BY <1>3 DEF Good
    <3> HIDE DEF t
    <3> QED BY <1>4, <2>2, <3>1, <3>2, <3>3, <3>4, FinishKeeps
  <2> QED BY <2>1, <2>2
<1>7. Become(t)  BY <1>1 DEF s
<1> HIDE DEF t
<1> QED BY <1>1, <1>6, <1>7, InvNext

=============================================================================
