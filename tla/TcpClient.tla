----------------------------- MODULE TcpClient -----------------------------
(***************************************************************************)
(* One TCP connection of a phone application through tun2socks: the lwIP   *)
(* protocol control block that terminates it, the struct tcp_client of     *)
(* tun2socks.c and the SOCKS connection (BSocksClient) to the ciadpi       *)
(* srv.  Everything runs on the tun2socks thread, but handlers nest: a   *)
(* tcp_input() calls up to three callbacks for one segment, and a callback *)
(* runs the jobs it has queued (SYNC_COMMIT) before it returns, so that    *)
(* the SOCKS side may fail, or free the client, in the middle of it.       *)
(*                                                                         *)
(* The handlers are operators on the record Cur of the whole state and are *)
(* named after the C functions.  An ASSERT of the code, a use of a freed   *)
(* pcb or client and a write through a dead frame pointer add their name   *)
(* to faults.                                                              *)
(***************************************************************************)
EXTENDS Integers, Sequences, FiniteSets

CONSTANTS
    TCP_WND,       \* lwIP's receive window = sizeof(client->buf), in bytes
    TCP_SND_BUF,   \* lwIP's send buffer
    RecvBufSize,   \* CLIENT_SOCKS_RECV_BUF_SIZE
    MaxUp,         \* bytes the application sends
    MaxDown,       \* bytes the proxy sends
    CloseMayFail   \* whether tcp_close() may return an error

ASSUME SizesAssumption ==
    /\ TCP_WND \in Nat \ {0} /\ TCP_SND_BUF \in Nat \ {0}
    /\ RecvBufSize \in Nat \ {0}
    /\ MaxUp \in Nat /\ MaxDown \in Nat
    /\ CloseMayFail \in BOOLEAN

VARIABLES
    client,   \* struct tcp_client
    socks,    \* BSocksClient: handshake state, send and receive in flight
    pcb,      \* the lwIP pcb, its callbacks and queues
    input,    \* the segment tcp_input() is working on
    cb,       \* the callback whose SYNC_COMMIT is running
    frame,    \* the badvpn__dead variable of that callback
    faults,   \* failed ASSERTs and uses of freed memory
    app,      \* the application: bytes sent and received, how it ended
    srv,      \* the proxy's end of the SOCKS socket: bytes it has sent and
              \* those tun2socks has read, whether it has closed, bytes it got
    causes    \* what went wrong outside: history of the connection

vars == <<client, socks, pcb, input, cb, frame, faults, app, srv, causes>>

Handshake == <<"CONNECTING", "CONNECTED_HANDLER", "SENDING_HELLO", "SENT_HELLO",
               "SENDING_REQUEST", "SENT_REQUEST", "RECEIVED_REPLY_HEADER", "UP">>
SocksStates == {Handshake[i] : i \in DOMAIN Handshake} \cup {"NONE", "FREE"}
PcbStates == {"SYN_RCVD", "ESTABLISHED", "CLOSE_WAIT", "CLOSING", "TIME_WAIT", "freed"}
Causes == {"client closed", "reset", "socks error", "socks closed", "aborted", "murdered",
           "fin at accept"}

Bytes(n) == [i \in 1..n |-> i]
Take(s, n) == SubSeq(s, 1, n)
Drop(s, n) == SubSeq(s, n + 1, Len(s))
Min2(a, b) == IF a < b THEN a ELSE b

NoSegment == [phase |-> "idle", ack |-> 0, data |-> <<>>, fin |-> FALSE]

Cur == [c |-> client, k |-> socks, p |-> pcb, f |-> frame, x |-> faults, h |-> causes]
Become(s) ==
    \E t \in {s} :
      /\ client' = t.c /\ socks' = t.k /\ pcb' = t.p
      /\ frame' = t.f /\ faults' = t.x /\ causes' = t.h

Check(s, ok, what) == IF ok THEN s ELSE [s EXCEPT !.x = @ \cup {what}]
Because(s, why) == [s EXCEPT !.h = @ \cup {why}]
\* Whether a tcp_close() of the step succeeds.
Closes == IF CloseMayFail THEN BOOLEAN ELSE {TRUE}
----------------------------------------------------------------------------
(* lwIP, as far as the client can see it.                                  *)

FreePcb(s) == [s EXCEPT !.p.state = "freed", !.p.cbs = {}, !.p.sndq = <<>>]

\* A call of the client that dereferences client->pcb.
Touch(s) == Check(s, s.p.state # "freed", "use of a freed pcb")

\* tcp_abandon() frees the pcb and calls errf, which the client has cleared.
tcp_abort(s) ==
    FreePcb(Check(Touch(s), "err" \notin s.p.cbs, "error callback during abort"))

tcp_recved(s, len) == [Touch(s) EXCEPT !.p.rcv_wnd = Min2(@ + len, TCP_WND)]

\* tcp_close(): a RST if the application has not taken all data, else a FIN.
\* In CLOSE_WAIT the RST frees the pcb, from within tcp_input() only later.
tcp_close(s) ==
    LET open   == s.p.state \in {"ESTABLISHED", "CLOSE_WAIT"}
        unread == open /\ (s.p.rcv_wnd # TCP_WND \/ s.p.refused # <<>>)
        t      == [Touch(s) EXCEPT !.p.rxclosed = TRUE]
    IN  IF unread
          THEN IF s.p.state = "ESTABLISHED"
                 THEN [t EXCEPT !.p.state = "TIME_WAIT", !.p.sndq = <<>>]
                 ELSE IF input.phase # "idle"
                        THEN [t EXCEPT !.p.closed = TRUE, !.p.sndq = <<>>]
                        ELSE FreePcb(t)
        ELSE IF open THEN [t EXCEPT !.p.state = "CLOSING"] ELSE t

\* tcp_write() of n bytes: "mem" when a queue or the heap is full.
tcp_write(s, n, mem) ==
    IF s.p.state \notin {"ESTABLISHED", "CLOSE_WAIT"} THEN "conn"
    ELSE IF mem \/ n > TCP_SND_BUF - Len(s.p.sndq) THEN "mem" ELSE "ok"

----------------------------------------------------------------------------
(* The client: tearing it down.                                            *)

\* DEAD_KILL_WITH: writes into the frame of the running callback, if any.
Kill(s, v) ==
    IF s.c.dead = "null" THEN s
    ELSE IF s.c.dead = "frame" THEN [s EXCEPT !.f = v]
    ELSE Check(s, FALSE, "write to a dead frame")

client_dealloc_unguarded(s) ==  \* (mutant) kills the frame of an aborted client too
    LET t == Kill(s, -1)
    IN  [Check(t, t.c.alive, "double free") EXCEPT !.c.alive = FALSE]

client_dealloc(s) ==
    LET r == Check(s, s.c.client_closed /\ s.c.socks_closed, "dealloc of an open client")
        t == IF r.c.aborted THEN r ELSE Kill(r, -1)
    IN  [Check(t, t.c.alive, "double free") EXCEPT !.c.alive = FALSE]

client_abort_pcb(s) ==
    LET t == tcp_abort(Check(s, ~s.c.aborted, "second abort"))
    IN  Because(Kill([t EXCEPT !.c.aborted = TRUE], 1), "aborted")

BSocksClient_Free(s) ==
    [Check(s, s.k.state # "FREE", "second free of SOCKS")
       EXCEPT !.k = [state |-> "FREE", send |-> 0, recv |-> FALSE]]

SocksClosed(s) == [BSocksClient_Free(s) EXCEPT !.c.socks_closed = TRUE]

client_handle_freed_client_drops(s) ==  \* (mutant) does not wait for the buffer
    LET t == [s EXCEPT !.c.client_closed = TRUE]
    IN  client_dealloc(IF t.c.socks_closed THEN t ELSE SocksClosed(t))

\* With the client closed, client_free_socks() comes down to SocksClosed.
client_handle_freed_client(s) ==
    LET t == [Check(s, ~s.c.client_closed, "client freed twice")
                EXCEPT !.c.client_closed = TRUE]
    IN  IF t.c.buf # <<>> /\ ~t.c.socks_closed THEN t
        ELSE client_dealloc(IF t.c.socks_closed THEN t ELSE SocksClosed(t))

client_free_client_leaks(s, ok) ==  \* (mutant) a failed tcp_close() is ignored
    LET r == [Touch(s) EXCEPT !.p.cbs = {}]
    IN  client_handle_freed_client(IF ok THEN tcp_close(r) ELSE r)

client_free_client(s, ok) ==
    LET r == [Touch(s) EXCEPT !.p.cbs = {}]
    IN  client_handle_freed_client(
          IF ok THEN tcp_close(r) ELSE client_abort_pcb([r EXCEPT !.p.rxclosed = TRUE]))

client_abort_client(s) ==
    client_handle_freed_client(client_abort_pcb([Touch(s) EXCEPT !.p.cbs = {}]))

client_free_socks_at_once(s, ok) ==  \* (mutant) forgets data lwIP has not confirmed
    LET t == SocksClosed(s)
    IN  IF ~t.c.client_closed THEN client_free_client(t, ok) ELSE client_dealloc(t)

client_free_socks(s, ok) ==
    LET r == IF s.c.socks_up /\ ~s.c.client_closed
               THEN [Touch(s) EXCEPT !.p.cbs = @ \ {"recv"}] ELSE s
        t == SocksClosed(Check(r, ~r.c.socks_closed, "SOCKS closed twice"))
    IN  IF t.c.socks_up /\ (t.c.rbuf # <<>> \/ t.c.pending > 0) /\ ~t.c.client_closed THEN t
        ELSE IF ~t.c.client_closed THEN client_free_client(t, ok)
        ELSE client_dealloc(t)

client_murder(s) ==
    LET r == IF s.c.client_closed THEN s
             ELSE [client_abort_pcb([Touch(s) EXCEPT !.p.cbs = {}])
                     EXCEPT !.c.client_closed = TRUE]
    IN  client_dealloc(IF r.c.socks_closed THEN r ELSE SocksClosed(r))
----------------------------------------------------------------------------
(* The client: moving data.                                                *)

client_send_to_socks(s) ==
    [Check(s, ~s.c.socks_closed /\ s.c.socks_up /\ s.c.buf # <<>> /\ s.k.send = 0,
           "send to SOCKS out of turn")
       EXCEPT !.k.send = Len(s.c.buf)]

client_socks_recv_initiate(s) ==
    [Check(s, ~s.c.client_closed /\ ~s.c.socks_closed /\ s.c.socks_up
              /\ s.c.rbuf = <<>> /\ ~s.k.recv, "receive from SOCKS out of turn")
       EXCEPT !.k.recv = TRUE]

\* The next n bytes of the receive buffer are in lwIP's hands.
handed_out(s, n) ==
    [s EXCEPT !.p.sndq = @ \o SubSeq(s.c.rbuf, s.c.rsent + 1, s.c.rsent + n),
              !.c.rsent = @ + n, !.c.pending = @ + n]

\* w: tcp_write() has no memory; o: tcp_output() works.  Aborts on an error.
client_socks_recv_send_out(s, w, o) ==
    LET n  == Min2(Len(s.c.rbuf) - s.c.rsent, TCP_SND_BUF - Len(s.p.sndq))
        e  == IF n = 0 THEN "mem" ELSE tcp_write(s, n, w)
        r  == Touch(Check(s, ~s.c.client_closed /\ s.c.socks_up /\ ~s.c.waiting
                             /\ s.c.rsent < Len(s.c.rbuf), "send out of turn"))
        t  == IF e # "ok" THEN r ELSE handed_out(r, n)
        more == t.c.rsent < Len(t.c.rbuf)
    IN  IF e = "conn" \/ ~o \/ (more /\ t.c.pending = 0) THEN client_abort_client(t)
        ELSE IF more THEN [t EXCEPT !.c.waiting = TRUE]
        ELSE [t EXCEPT !.c.rbuf = <<>>, !.c.rsent = 0]

client_recv_func(s, data) ==
    LET t == [s EXCEPT !.c.buf = @ \o data]
    IN  IF Len(data) > TCP_WND - Len(s.c.buf)
          THEN [s EXCEPT !.p.refused = data]              \* ERR_MEM
        ELSE IF t.c.buf = data /\ t.c.socks_up THEN client_send_to_socks(t)
        ELSE t

client_sent_func_uncounted(s, len, w, ok) ==  \* (mutant) pending is not decremented
    IF s.c.rbuf # <<>>
      THEN client_socks_recv_send_out([s EXCEPT !.c.waiting = FALSE], w, TRUE)
      ELSE s

client_sent_func(s, len, w, ok) ==
    LET r == [Check(s, ~s.c.client_closed /\ s.c.socks_up /\ len <= s.c.pending,
                    "confirmation out of turn")
                EXCEPT !.c.pending = @ - len]
        t == client_socks_recv_send_out([r EXCEPT !.c.waiting = FALSE], w, TRUE)
    IN  IF r.c.rbuf # <<>>
          THEN IF t.c.aborted THEN t
               ELSE LET u == Check(Check(t, r.c.waiting, "buffer without waiting"),
                                   t.c.pending > 0, "nothing pending")
                    IN  IF u.c.rbuf = <<>> /\ ~u.c.socks_closed
                          THEN client_socks_recv_initiate(u) ELSE u
        ELSE IF r.c.socks_closed /\ r.c.pending = 0 THEN client_free_client(r, ok)
        ELSE r

client_socks_recv_handler_done(s, data, w, o) ==
    LET r == [s EXCEPT !.k.recv = FALSE]
        t == client_socks_recv_send_out(
               [r EXCEPT !.c.rbuf = data, !.c.rsent = 0, !.c.waiting = FALSE], w, o)
    IN  IF r.c.client_closed THEN r
        ELSE IF ~t.c.aborted /\ t.c.rbuf = <<>> THEN client_socks_recv_initiate(t)
        ELSE t

client_socks_send_handler_done_unconfirmed(s, n, ok) ==  \* (mutant) no tcp_recved()
    LET t == [s EXCEPT !.c.buf = Drop(@, n), !.k.send = 0]
    IN  IF t.c.buf # <<>> THEN client_send_to_socks(t)
        ELSE IF t.c.client_closed THEN client_free_socks(t, ok) ELSE t

client_socks_send_handler_done(s, n, ok) ==
    LET r == [Check(s, ~s.c.socks_closed /\ s.c.socks_up /\ n <= Len(s.c.buf), "sent too much")
                EXCEPT !.c.buf = Drop(@, n), !.k.send = 0]
        t == IF r.c.client_closed THEN r ELSE tcp_recved(r, n)
    IN  IF t.c.buf # <<>> THEN client_send_to_socks(t)
        ELSE IF t.c.client_closed THEN client_free_socks(t, ok) ELSE t

client_socks_up_silent(s) ==  \* (mutant) what was buffered during the handshake is left
    LET t == [s EXCEPT !.c.socks_up = TRUE, !.k.state = "UP",
                       !.p.cbs = IF s.c.client_closed THEN @ ELSE @ \cup {"sent"}]
    IN  IF t.c.client_closed THEN t ELSE client_socks_recv_initiate(t)

\* client_socks_handler, BSOCKSCLIENT_EVENT_UP
client_socks_up(s) ==
    LET r == IF s.c.client_closed THEN s ELSE [Touch(s) EXCEPT !.p.cbs = @ \cup {"sent"}]
        t == [Check(r, ~s.c.socks_closed /\ ~s.c.socks_up, "up twice")
                EXCEPT !.c.socks_up = TRUE, !.k.state = "UP"]
        u == IF t.c.buf # <<>> THEN client_send_to_socks(t) ELSE t
    IN  IF u.c.client_closed THEN u ELSE client_socks_recv_initiate(u)
----------------------------------------------------------------------------
(* tcp_input(): one segment, then the callbacks for what it acknowledges,  *)
(* carries and ends, in this order.  input.phase is what comes next.       *)

Init ==
    /\ client = [alive |-> FALSE, client_closed |-> FALSE, socks_closed |-> FALSE,
                 socks_up |-> FALSE, buf |-> <<>>, rbuf |-> <<>>, rsent |-> 0,
                 waiting |-> FALSE, pending |-> 0, aborted |-> FALSE, dead |-> "null"]
    /\ socks = [state |-> "NONE", send |-> 0, recv |-> FALSE]
    /\ pcb = [state |-> "SYN_RCVD", rcv_wnd |-> TCP_WND, cbs |-> {}, rxclosed |-> FALSE,
              closed |-> FALSE, sndq |-> <<>>, refused |-> <<>>]
    /\ input = NoSegment
    /\ cb = "none" /\ frame = 0 /\ faults = {} /\ causes = {}
    /\ app = [sent |-> 0, got |-> <<>>, fin |-> FALSE]
    /\ srv = [sent |-> 0, eof |-> FALSE, read |-> 0, got |-> <<>>]

Idle == input.phase = "idle" /\ cb = "none"

\* What the application may put into its next segment.
Segment(a, k, f) ==
    /\ k + (IF f THEN 1 ELSE 0) <= pcb.rcv_wnd
    /\ app.sent + k <= MaxUp
    /\ app.fin => k = 0 /\ ~f
    /\ app' = [sent |-> app.sent + k, got |-> app.got \o Take(pcb.sndq, a), fin |-> app.fin \/ f]
    /\ input' = [phase |-> IF pcb.state = "SYN_RCVD" THEN "accept" ELSE "sent", ack |-> a,
                 data |-> SubSeq(Bytes(MaxUp), app.sent + 1, app.sent + k), fin |-> f]

\* tcp_receive() takes data and FIN from the window.
Received(p, seg) ==
    [p EXCEPT !.rcv_wnd = @ - Len(seg.data) - (IF seg.fin THEN 1 ELSE 0)]

\* The last segment of the handshake, perhaps with data and FIN.
HandshakeAck ==
    /\ Idle /\ pcb.state = "SYN_RCVD"
    /\ \E k \in 0..TCP_WND, f \in BOOLEAN : Segment(0, k, f)
    /\ UNCHANGED <<client, socks, pcb, cb, frame, faults, srv, causes>>

\* An acceptable segment on an open connection.
TcpInput ==
    /\ Idle /\ pcb.state \in {"ESTABLISHED", "CLOSE_WAIT", "CLOSING"}
    /\ \E a \in 0..Len(pcb.sndq), k \in 0..TCP_WND, f \in BOOLEAN :
         /\ a + k > 0 \/ f
         /\ Segment(a, k, f)
         /\ pcb' = [Received(pcb, input') EXCEPT
                      !.sndq = Drop(@, a),
                      !.state = IF f /\ @ = "ESTABLISHED" THEN "CLOSE_WAIT" ELSE @]
    /\ UNCHANGED <<client, socks, cb, frame, faults, srv, causes>>

\* Starting a callback that uses DEAD_ENTER, and going on without one.
Enter(name, next, s) ==
    /\ Become(s)
    /\ cb' = name
    /\ input' = [input EXCEPT !.phase = next]
Entered(s) == [s EXCEPT !.c.dead = "frame", !.f = 0]

\* tcp_input_delayed_close() and the next callback that has something to do.
Continue(phase, s) ==
    LET gone == s.p.state = "freed" \/ s.p.closed
        next == IF gone THEN "idle"
                ELSE IF phase = "data" /\ input.data # <<>> THEN "data"
                ELSE IF phase \in {"data", "fin"} /\ input.fin THEN "fin" ELSE "idle"
    IN  /\ Become(IF s.p.closed THEN FreePcb(s) ELSE s)
        /\ input' = IF next = "idle" THEN NoSegment ELSE [input EXCEPT !.phase = next]
        /\ cb' = "none"

listener_accept_func ==
    /\ input.phase = "accept" /\ cb = "none"
    /\ \/ /\ Become(FreePcb(Cur))                     \* ERR_MEM: lwIP aborts the pcb
          /\ input' = NoSegment /\ cb' = "none"
       \/ Enter("accept", "receive",
            [Entered(Cur) EXCEPT !.c.alive = TRUE, !.k.state = "CONNECTING",
               !.p.state = "ESTABLISHED", !.p.cbs = {"err", "recv"}])
    /\ UNCHANGED <<app, srv>>

InputSent ==
    /\ input.phase = "sent" /\ cb = "none"
    /\ IF input.ack > 0 /\ "sent" \in pcb.cbs
         THEN \E w \in BOOLEAN, ok \in Closes :
                Enter("sent", "data", client_sent_func(Entered(Cur), input.ack, w, ok))
         ELSE Continue("data", Cur)
    /\ UNCHANGED <<app, srv>>

\* Data after tcp_close() resets the connection; without callback
\* tcp_recv_null() takes it.
InputData ==
    /\ input.phase = "data" /\ cb = "none"
    /\ IF pcb.rxclosed THEN Continue("fin", tcp_abort(Cur))
       ELSE IF "recv" \in pcb.cbs
         THEN Enter("recv", "fin", client_recv_func(Entered(Cur), input.data))
       ELSE Continue("fin", tcp_recved(Cur, Len(input.data)))
    /\ UNCHANGED <<app, srv>>

\* The FIN is no data: the window gets its byte back before the callback.
InputFin ==
    /\ input.phase = "fin" /\ cb = "none"
    /\ LET s == [Cur EXCEPT !.p.rcv_wnd = Min2(@ + 1, TCP_WND)]
       IN  IF "recv" \in pcb.cbs
             THEN \E ok \in Closes :
                    Enter("fin", "end",
                          client_free_client(Because(Entered(s), "client closed"), ok))
             ELSE Continue("end", s)
    /\ UNCHANGED <<app, srv>>

\* Seen from lwIP, a callback that returned must have told it of an abort.
Returned(s) ==
    Check([s EXCEPT !.c.dead = IF s.f = 0 THEN "null" ELSE "stale"],
          (s.f > 0) = (s.p.state = "freed"), "ERR_ABRT and tcp_abort() differ")

\* DEAD_LEAVE2 and return; after the accept callback tcp_process() goes on
\* with tcp_receive(), and a FIN puts even a closed pcb into CLOSE_WAIT.
Return ==
    /\ cb # "none"
    /\ LET s == Returned(Cur)
           t == IF input.phase # "receive" \/ s.p.state = "freed" THEN s
                ELSE [(IF input.fin /\ s.p.state = "CLOSING" THEN Because(s, "fin at accept") ELSE s)
                        EXCEPT !.p = [Received(s.p, input) EXCEPT
                                        !.state = IF input.fin THEN "CLOSE_WAIT" ELSE @]]
       IN  Continue(IF input.phase = "receive" THEN "data" ELSE input.phase, t)
    /\ UNCHANGED <<app, srv>>

\* A RST of the application: the error callback, then the pcb is freed.
TcpReset ==
    /\ Idle /\ pcb.state \in {"ESTABLISHED", "CLOSE_WAIT", "CLOSING"}
    /\ LET s == Because(Cur, "reset")
       IN  Become(FreePcb(IF "err" \in pcb.cbs
                            THEN client_handle_freed_client([s EXCEPT !.p.cbs = {}]) ELSE s))
    /\ UNCHANGED <<input, cb, app, srv>>

\* tcp_slowtmr(): unacknowledged data or a closing state for too long.
tcp_slowtmr ==
    /\ Idle
    /\ \/ pcb.state \in {"CLOSING", "TIME_WAIT"}
       \/ pcb.state \in {"ESTABLISHED", "CLOSE_WAIT"} /\ pcb.sndq # <<>>
    /\ LET s == FreePcb(IF pcb.state \in {"CLOSING", "TIME_WAIT"} THEN Cur
                        ELSE Because(Cur, "reset"))
       IN  Become(IF "err" \in pcb.cbs THEN client_handle_freed_client(s) ELSE s)
    /\ UNCHANGED <<input, cb, app, srv>>
----------------------------------------------------------------------------
(* The SOCKS connection.  Inside a callback only the operations run that   *)
(* its SYNC_COMMIT can reach.                                              *)

During(names) == Idle \/ cb \in names
OutputWorks == IF input.phase = "idle" THEN BOOLEAN ELSE {TRUE}

\* The connection, hello, request and reply advance by one state.
SocksStep ==
    /\ During({"accept"})
    /\ \E i \in 1..7 :
         /\ socks.state = Handshake[i]
         /\ Become(IF i = 7 THEN client_socks_up(Cur)
                   ELSE [Cur EXCEPT !.k.state = Handshake[i + 1]])
    /\ UNCHANGED <<input, cb, app, srv>>

SocksSendDone ==
    /\ During({"recv", "accept"})
    /\ \E n \in 1..socks.send, ok \in Closes :
         /\ srv' = [srv EXCEPT !.got = @ \o Take(client.buf, n)]
         /\ Become(client_socks_send_handler_done(Cur, n, ok))
    /\ UNCHANGED <<input, cb, app>>

\* The proxy writes into its socket once it has answered the request, and
\* closes it; both wait in the kernel's receive queue (external).
ProxySends ==
    /\ socks.state \in {"SENT_REQUEST", "RECEIVED_REPLY_HEADER", "UP"}
    /\ ~srv.eof
    /\ \E n \in 1..(MaxDown - srv.sent) : srv' = [srv EXCEPT !.sent = @ + n]
    /\ UNCHANGED <<client, socks, pcb, input, cb, frame, faults, app, causes>>

ProxyCloses ==
    /\ socks.state \in {"SENT_REQUEST", "RECEIVED_REPLY_HEADER", "UP"}
    /\ ~srv.eof
    /\ srv' = [srv EXCEPT !.eof = TRUE]
    /\ UNCHANGED <<client, socks, pcb, input, cb, frame, faults, app, causes>>

\* A receive takes what is queued, up to the size of the buffer.
SocksRecvDone ==
    /\ During({"sent", "accept"})
    /\ socks.recv
    /\ \E n \in 1..RecvBufSize, w \in BOOLEAN, o \in OutputWorks :
         /\ srv.read + n <= srv.sent
         /\ srv' = [srv EXCEPT !.read = @ + n]
         /\ Become(client_socks_recv_handler_done(
               Cur, SubSeq(Bytes(MaxDown), srv.read + 1, srv.read + n), w, o))
    /\ UNCHANGED <<input, cb, app>>

\* End of file from the proxy: noticed only while a receive is in flight, and
\* after all it has sent.
SocksRecvClosed ==
    /\ During({"sent", "accept"})
    /\ socks.recv /\ srv.eof /\ srv.read = srv.sent
    /\ \E ok \in Closes : Become(client_free_socks(Because(Cur, "socks closed"), ok))
    /\ UNCHANGED <<input, cb, app, srv>>

\* A send, a receive or the handshake fails: the socket is closed, with what
\* is still in its receive queue.
SocksError ==
    /\ socks.state \notin {"NONE", "FREE"}
    /\ \/ Idle
       \/ cb = "recv" /\ socks.send > 0
       \/ cb = "sent" /\ socks.recv
       \/ cb = "accept" /\ socks.state # "CONNECTING"
    /\ \E ok \in Closes : Become(client_free_socks(Because(Cur, "socks error"), ok))
    /\ UNCHANGED <<input, cb, app, srv>>

\* The reactor has ended (stop or device error): every client is murdered.
Teardown ==
    /\ Idle /\ client.alive
    /\ Become(client_murder(Because(Cur, "murdered")))
    /\ UNCHANGED <<input, cb, app, srv>>

Next ==
    \/ HandshakeAck \/ TcpInput \/ listener_accept_func
    \/ InputSent \/ InputData \/ InputFin \/ Return \/ TcpReset \/ tcp_slowtmr
    \/ SocksStep \/ SocksSendDone \/ ProxySends \/ ProxyCloses
    \/ SocksRecvDone \/ SocksRecvClosed \/ SocksError \/ Teardown

\* The thread goes on; the proxy answers the handshake and takes what is
\* written to it; the application acknowledges what it is sent.
Fairness ==
    /\ WF_vars(listener_accept_func \/ InputSent \/ InputData \/ InputFin \/ Return)
    /\ WF_vars(SocksStep) /\ WF_vars(SocksSendDone)
    /\ WF_vars(TcpInput /\ input'.ack > 0)

Spec == Init /\ [][Next]_vars /\ Fairness
----------------------------------------------------------------------------
\* Types; with them the bounds of client->buf, the receive buffer and
\* socks_recv_tcp_pending, which client_sent_func counts down.
TypeOK ==
    /\ client \in [alive : BOOLEAN, client_closed : BOOLEAN, socks_closed : BOOLEAN,
                   socks_up : BOOLEAN, buf : Seq(1..MaxUp), rbuf : Seq(1..MaxDown),
                   rsent : 0..RecvBufSize, waiting : BOOLEAN, pending : 0..TCP_SND_BUF,
                   aborted : BOOLEAN, dead : {"null", "frame", "stale"}]
    /\ socks \in [state : SocksStates, send : 0..TCP_WND, recv : BOOLEAN]
    /\ pcb \in [state : PcbStates, rcv_wnd : 0..TCP_WND, cbs : SUBSET {"err", "recv", "sent"},
                rxclosed : BOOLEAN, closed : BOOLEAN, sndq : Seq(1..MaxDown),
                refused : Seq(1..MaxUp)]
    /\ input \in [phase : {"idle", "accept", "receive", "sent", "data", "fin", "end"},
                  ack : 0..TCP_SND_BUF, data : Seq(1..MaxUp), fin : BOOLEAN]
    /\ cb \in {"none", "accept", "sent", "recv", "fin"}
    /\ frame \in {-1, 0, 1}
    /\ causes \subseteq Causes
    /\ app.sent \in 0..MaxUp /\ app.got \in Seq(1..MaxDown) /\ app.fin \in BOOLEAN
    /\ srv \in [sent : 0..MaxDown, eof : BOOLEAN, read : 0..MaxDown, got : Seq(1..MaxUp)]

\* No handler finds itself in a state its ASSERTs exclude, nothing uses a pcb
\* or client after it was freed, and a callback answers ERR_ABRT to lwIP
\* exactly when tcp_abort() was called in it (tun2socks.c:1681, tcp.c:535).
HandlersSound == faults = {}

\* Every byte of the receive window is either free or in client->buf, as
\* tcp_recved() is called for what SOCKS has taken: the branch "no buffer for
\* data !?!" of client_recv_func is never taken and lwIP never keeps a
\* refused segment.
WindowAccounted ==
    /\ pcb.refused = <<>>
    /\ "recv" \in pcb.cbs =>
         TCP_WND = pcb.rcv_wnd + Len(client.buf)
                   + (IF input.phase \in {"sent", "data"} THEN Len(input.data) ELSE 0)
                   + (IF input.phase \in {"sent", "data", "fin"} /\ input.fin THEN 1 ELSE 0)

\* Between events, whatever is still buffered has an event that will move it:
\* client data a send to SOCKS, proxy data a confirmation of lwIP, an open
\* client a receive; and a half-closed client waits for something to drain.
NoStall ==
    (client.alive /\ Idle) =>
      /\ (client.socks_up /\ ~client.socks_closed) => (client.buf # <<>>) = (socks.send > 0)
      /\ client.client_closed \/ client.pending = Len(pcb.sndq)
      /\ (~client.client_closed /\ client.rbuf # <<>>) =>
            client.waiting /\ client.pending > 0 /\ "sent" \in pcb.cbs
      /\ (client.socks_up /\ ~client.client_closed /\ ~client.socks_closed) =>
            (client.rbuf = <<>>) = socks.recv
      /\ client.client_closed => client.buf # <<>>
      /\ client.socks_closed => client.pending > 0

Prefix(s, n) == Len(s) <= n /\ s = Bytes(Len(s))

\* The proxy gets the application's bytes in order, and all of them when the
\* connection ended on the application's side, by FIN or by RST: what was
\* buffered is sent before the client is freed.
UpstreamIntact ==
    /\ Prefix(srv.got, app.sent)
    /\ (socks.state = "FREE" /\ input.phase = "idle"
        /\ causes \cap {"socks error", "socks closed", "aborted", "murdered"} = {})
          => srv.got = Bytes(app.sent)

\* The application gets the proxy's bytes in order.  When the connection ended
\* on the SOCKS side it gets all that tun2socks has read, even after an error,
\* as the pcb is closed only after everything was acknowledged; and all the
\* proxy has sent when the proxy closed: only an error loses what is unread.
DownstreamIntact ==
    /\ Prefix(app.got, srv.read) /\ srv.read <= srv.sent
    /\ (socks.state = "FREE" /\ ~client.alive
        /\ causes \cap {"client closed", "reset", "aborted", "murdered"} = {})
          => /\ app.got = Bytes(srv.read)
             /\ "socks error" \notin causes => srv.read = srv.sent

\* When the client is gone its pcb is too, or is in a state that lwIP's timer
\* ends -- but for a FIN that arrives with the last segment of the handshake
\* when the accept callback has already closed the pcb: tcp_process() moves
\* it to CLOSE_WAIT (tcp_in.c:939), from which nobody ever takes it.
PcbLetGo ==
    (socks.state = "FREE" /\ ~client.alive /\ Idle) =>
      pcb.state \in {"CLOSING", "TIME_WAIT", "freed"} \/ "fin at accept" \in causes

\* A client of which one side is closed is freed once the other side has
\* taken what was buffered for it.
ClientReleased ==
    (client.alive /\ (client.client_closed \/ client.socks_closed)) ~> ~client.alive

============================================================================
