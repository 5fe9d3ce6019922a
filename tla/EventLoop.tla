----------------------------- MODULE EventLoop -----------------------------
(***************************************************************************)
(* The event loop of the ciadpi proxy: the pool of evals and their epoll   *)
(* events (conev.c), the SOCKS5 connections and the tunnel they become     *)
(* (proxy.c), and the split of the first round's data (desync.c).          *)
(*                                                                         *)
(* params.max_open is 1: next to the listener the pool has room for two    *)
(* evals, a client and its remote, or two clients of which none can        *)
(* connect.  Sockets are non-blocking, and the kernel, the application and *)
(* the server move between any two steps of the loop.  The desync group is *)
(* one that init_params() of ciadpi_jni.c builds without TLS record split  *)
(* and HTTP modification, so that tamp() leaves the data alone.            *)
(***************************************************************************)
EXTENDS Integers, Sequences, FiniteSets

CONSTANTS
    BufSize,   \* params.bfsize
    SndBuf,    \* the kernel's send buffer of a socket
    MaxUp,     \* bytes the application sends on a connection
    MaxDown,   \* bytes the server sends
    MaxBytes,  \* bytes both send on a connection
    RequestSize,  \* the first bytes of the application, up to the host name
    Configs    \* the part lists of the desync group

PartModes == {"SPLIT", "DISORDER", "OOB", "DISOOB", "FAKE"}
Part == [pos : Nat, at : {"abs", "sni", "mid"}, m : PartModes]

ASSUME SizesAssumption ==
    /\ BufSize \in Nat \ {0} /\ SndBuf \in Nat \ {0} /\ MaxUp \in Nat /\ MaxDown \in Nat
    /\ MaxBytes \in Nat
    /\ RequestSize \in Nat \ {0}
    /\ \A c \in Configs :
          /\ c \in Seq(Part) /\ Len(c) <= 2
          /\ \A i \in DOMAIN c : c[i].pos = c[1].pos /\ c[i].at = c[1].at

VARIABLES
    parts,    \* dp->parts
    ev,       \* pool->items: the two evals
    batch,    \* the events of the last epoll_wait() not yet handled
    run,      \* the on_tunnel() call that is reading: its event's eval and its source
    brk,      \* pool->brk, and whether destroy_pool() is done
    backlog,  \* whether a client waits in the listener's queue
    sk,       \* the kernel's side of the two sockets
    net,      \* what application and server have sent and received
    causes,   \* history of the connection: what it met
    faults    \* handlers called for an eval they must not see

vars == <<parts, ev, batch, run, brk, backlog, sk, net, causes, faults>>

Slots == {1, 2}
Bytes(n) == [i \in 1..n |-> i]
Take(s, n) == SubSeq(s, 1, n)
Drop(s, n) == SubSeq(s, n + 1, Len(s))
Min2(a, b) == IF a < b THEN a ELSE b

\* data[0..lock) of a struct buffer; waited: the chunk has waited for the kernel.
NoBuff == [data |-> <<>>, offset |-> 0, waited |-> FALSE]
NoEval == [live |-> FALSE, cb |-> "none", flag |-> "none", pair |-> 0, out |-> FALSE,
           buff |-> NoBuff, round_sent |-> 0, round_count |-> 0, part_sent |-> 0,
           timer |-> FALSE, stamp |-> FALSE]
NoSocket == [st |-> "closed", rx |-> <<>>, eof |-> FALSE, err |-> FALSE, tx |-> <<>>,
             unsent |-> 0, low |-> FALSE, linger |-> FALSE]
NoRun == [s |-> 0, val |-> 0]

Cur == [e |-> ev, b |-> batch, k |-> sk, w |-> net, h |-> causes, x |-> faults]
Become(s) ==
    \E t \in {s} :
      /\ ev' = t.e /\ batch' = t.b /\ sk' = t.k
      /\ net' = t.w /\ causes' = t.h /\ faults' = t.x

Held(s) == ev[s].buff.data # <<>>
Because(s, why) == [s EXCEPT !.h = @ \cup why]
----------------------------------------------------------------------------
(* The pool (conev.c).                                                     *)

\* The free slots; pool->links orders them, here the first one is taken.
Free(s) == {i \in Slots : ~s.e[i].live}
NextFree(s) == CHOOSE i \in Free(s) : \A j \in Free(s) : i <= j

add_event_unstamped(s, cb, st, out) ==  \* (mutant) mod_iter is left at zero
    LET i == NextFree(s)
    IN  [s EXCEPT !.e[i] = [NoEval EXCEPT !.live = TRUE, !.cb = cb, !.out = out],
                  !.k[i] = [NoSocket EXCEPT !.st = st]]

\* The caller has checked that the pool is not full.
add_event(s, cb, st, out) ==
    LET i == NextFree(s)
    IN  [s EXCEPT !.e[i] = [NoEval EXCEPT !.live = TRUE, !.cb = cb, !.out = out,
                                          !.stamp = TRUE],
                  !.k[i] = [NoSocket EXCEPT !.st = st]]

\* close(): unread data or a zero linger time make it a RST, which drops what
\* is queued; otherwise the kernel still delivers the queue.
CloseSocket(s, i) ==
    LET k    == s.k[i]
        rst  == k.linger \/ k.rx # <<>> \/ k.err
        left == IF rst \/ k.low \/ k.st # "up" THEN <<>> ELSE k.tx
        t    == [s EXCEPT !.k[i] = NoSocket]
    IN  Because(IF s.e[i].flag = "CONN" THEN [t EXCEPT !.w.sgot = @ \o left]
                                        ELSE [t EXCEPT !.w.agot = @ \o left],
                IF rst /\ ~k.err THEN {"reset_at_close"} ELSE {})

\* The part of del_event() about one eval.
Release(s, i) ==
    IF ~s.e[i].live THEN s
    ELSE [CloseSocket(s, i) EXCEPT
            !.e[i] = [NoEval EXCEPT !.stamp = TRUE],
            !.b = {[b EXCEPT !.old = b.old \/ b.s = i] : b \in @}]

\* An eval is deleted with its pair.
del_event(s, i) ==
    LET p == s.e[i].pair
    IN  IF p = 0 THEN Release(s, i) ELSE Release(Release(s, i), p)

mod_etype_input(s, i, out) == [s EXCEPT !.e[i].out = FALSE]  \* (mutant) never asks for POLLOUT

\* mod_etype(): POLLIN and the error events are always reported.
mod_etype(s, i, out) == [s EXCEPT !.e[i].out = out]
----------------------------------------------------------------------------
(* Sending (desync.c, extend.c).                                           *)

\* gen_offset(): the host, which is the last byte of a request of RequestSize
\* bytes, is found in a chunk that holds the whole request.
gen_offset(p, data) ==
    CASE p.at = "abs" -> p.pos
      [] p.at = "mid" -> p.pos + Len(data) \div 2
      [] OTHER -> IF data[1] = 1 /\ Len(data) >= RequestSize THEN p.pos + RequestSize - 1
                  ELSE -1

\* send() on socket k: what it accepts.
Accepts(k, n) == Min2(n, SndBuf - Len(k.tx))
Queue(k, data) == [k EXCEPT !.tx = @ \o data, !.unsent = @ + Len(data)]

restore_state_forgets(k) == [k EXCEPT !.unsent = 0]  \* (mutant) keeps the short TTL

\* restore_state(): the real time to live, and the data below the fake page.
restore_state(k) == [k EXCEPT !.low = FALSE, !.unsent = 0]

\* A part that ends at pos is sent; one that part_sent names is taken to be
\* sent already.
send_part(a, i, pos, data, offset, part_skip, notsent) ==
    LET want    == SubSeq(data, a.lp + 1, pos)
        assumed == i = part_skip
        low     == parts[i].m \in {"DISORDER", "DISOOB"}
                   \/ (parts[i].m = "FAKE" /\ pos # a.lp)
        n       == IF assumed THEN pos - a.lp ELSE Accepts(a.k, pos - a.lp)
        k       == IF assumed THEN a.k ELSE [Queue(a.k, Take(want, n)) EXCEPT !.low = @ \/ low]
        again   == assumed /\ offset = 0 /\ pos > a.lp
        b       == [a EXCEPT !.k = k, !.part = i,
                             !.why = @ \cup IF again THEN {"part_again"} ELSE {}]
    IN  IF n < pos - a.lp
          THEN [b EXCEPT !.st = "back", !.lp = a.lp + n, !.why = @ \cup {"part_blocked"}]
        ELSE IF notsent[i] /\ k.unsent > 0
          THEN [b EXCEPT !.st = "back", !.lp = pos, !.wait = TRUE]
        ELSE [b EXCEPT !.lp = pos, !.k = restore_state(k)]

\* One turn of the loop over the parts.  lp is how far the chunk has gone.
desync_part(a, i, data, offset, skip, part_skip, notsent) ==
    LET p == gen_offset(parts[i], data)
    IN  IF \/ a.st # "go" \/ i > Len(parts)
           \/ (skip > 0 /\ p < skip) \/ i < part_skip \/ (offset > 0 /\ p < offset)
          THEN a
        ELSE IF p < 0 \/ p < a.lp THEN [a EXCEPT !.st = "cancel"]
        ELSE send_part(a, i, Min2(p, Len(data)), data, offset, part_skip, notsent)

\* desync(): the parts, then the rest of the chunk.  The rest counts as sent
\* even if the kernel takes only some of it.  notsent[i]: sock_has_notsent()
\* after part i.
desync(k, data, offset, skip, part_skip, notsent) ==
    LET start == [k |-> k, lp |-> offset, part |-> part_skip, st |-> "go", wait |-> FALSE,
                  why |-> {}]
        one == desync_part(start, 1, data, offset, skip, part_skip, notsent)
        two == desync_part(one, 2, data, offset, skip, part_skip, notsent)
        m   == Accepts(two.k, Len(data) - two.lp)
    IN  IF two.st = "back" \/ two.lp = Len(data) \/ m = 0 THEN two
        ELSE [two EXCEPT !.lp = Len(data), !.k = Queue(@, Take(Drop(data, two.lp), m)),
                         !.why = @ \cup IF m < Len(data) - two.lp THEN {"short_tail"} ELSE {}]

tcp_send_hook_whole(s, i, data, offset, notsent) ==  \* (mutant) ignores a short send()
    LET c == s.e[i].pair
        n == Accepts(s.k[i], Len(data) - offset)
    IN  IF s.e[i].flag = "CONN" /\ s.e[c].round_count <= 1
          THEN desync(s.k[i], data, offset, s.e[c].round_sent, s.e[c].part_sent, notsent)
          ELSE [k |-> [s.k[i] EXCEPT !.tx = @ \o SubSeq(data, offset + 1, offset + n)],
                lp |-> IF n = 0 THEN offset ELSE Len(data),
                part |-> s.e[c].part_sent, st |-> "go", wait |-> FALSE, why |-> {}]

\* tcp_send_hook(): sends data[offset..] to eval i; the first round of a client
\* through desync().  The result's lp is the new offset.
tcp_send_hook(s, i, data, offset, notsent) ==
    LET c == s.e[i].pair
        n == Accepts(s.k[i], Len(data) - offset)
    IN  IF s.e[i].flag = "CONN" /\ s.e[c].round_count <= 1
          THEN desync(s.k[i], data, offset, s.e[c].round_sent, s.e[c].part_sent, notsent)
          ELSE [k |-> IF s.e[i].flag = "CONN"
                        THEN Queue(s.k[i], SubSeq(data, offset + 1, offset + n))
                        ELSE [s.k[i] EXCEPT !.tx = @ \o SubSeq(data, offset + 1, offset + n)],
                lp |-> offset + n,
                part |-> s.e[c].part_sent, st |-> "go", wait |-> FALSE, why |-> {}]

\* The state after a successful tcp_send_hook(): source val, destination p.
Sent(s, val, p, r, offset) ==
    Because([s EXCEPT !.k[p] = r.k, !.e[val].round_sent = @ + r.lp - offset,
                      !.e[val].part_sent = r.part, !.e[p].timer = @ \/ r.wait], r.why)

\* Both directions hold data at the same time.
Crossed(s) ==
    IF \A i \in Slots : s.e[i].buff.data # <<>> THEN Because(s, {"crossed"}) ELSE s
----------------------------------------------------------------------------
(* The handlers.  A handler that returns -1 has its eval deleted.          *)

\* on_torst(): the remote has failed, the client is closed with a RST.
on_torst(s, r) == IF s.e[r].pair = 0 THEN s ELSE [s EXCEPT !.k[s.e[r].pair].linger = TRUE]

\* handle_err() of eval i, on the way to deleting the event's eval.
handle_err(s, i, event) == del_event(IF s.e[i].flag = "CONN" THEN on_torst(s, i) ELSE s, event)

\* Events are handled while nothing else is under way and no timer is due:
\* params.await_int is 0, so that a timer is due at once.
AtLoop == ~brk.set /\ run = NoRun /\ \A i \in Slots : ~ev[i].timer
Took(b) == [Cur EXCEPT !.b = @ \ {b}]
Sees(b, cb) == b \in batch /\ b.s # 0 /\ ~ev[b.s].stamp /\ ev[b.s].cb = cb
Check(s, ok, what) == IF ok THEN s ELSE [s EXCEPT !.x = @ \cup {what}]
Sound(s, b) == Check(s, ~b.old, "event_of_a_deleted_eval")

\* on_accept(): any error of accept() ends the whole proxy.
on_accept ==
    /\ AtLoop
    /\ \E b \in batch :
         /\ b.s = 0
         /\ \E fails \in BOOLEAN :
              /\ brk' = [brk EXCEPT !.set = fails]
              /\ Become(IF fails \/ ~backlog \/ Free(Cur) = {} THEN Took(b)
                        ELSE add_event(Took(b), "on_request", "up", FALSE))
         /\ backlog' = FALSE
    /\ UNCHANGED <<parts, run>>

\* create_conn(): the remote is added and paired with the client.
create_conn(s, c) ==
    IF Free(s) = {} THEN del_event(s, c)
    ELSE LET r == NextFree(s)
             t == add_event(s, "on_connect", "connecting", TRUE)
         IN  [t EXCEPT !.e[c].pair = r, !.e[r].pair = c, !.e[r].flag = "CONN",
                       !.e[c].cb = "on_ignore", !.e[c].out = FALSE]

\* on_request(): the greeting, then the request, which may be refused, be of a
\* kind that is not a connection, or fail before the socket is added.
on_request ==
    /\ AtLoop
    /\ \E b \in batch :
         /\ Sees(b, "on_request")
         /\ LET c == b.s
                s == [Sound(Took(b), b) EXCEPT !.k[c].rx = <<>>]
            IN  \E good \in BOOLEAN :
                  Become(IF sk[c].rx = <<>> \/ ~good THEN del_event(s, c)
                         ELSE IF ev[c].flag = "none" THEN [s EXCEPT !.e[c].flag = "S5"]
                         ELSE create_conn(s, c))
    /\ UNCHANGED <<parts, run, brk, backlog>>

\* on_connect(): the client is told; on failure both evals go.
on_connect ==
    /\ AtLoop
    /\ \E b \in batch :
         /\ Sees(b, "on_connect")
         /\ LET r == b.s
                c == ev[r].pair
                s == Check(Sound(Took(b), b), c # 0, "no_pair")
            IN  Become(IF c = 0 \/ "err" \in b.type THEN del_event(s, r)
                       ELSE [mod_etype(mod_etype(s, r, FALSE), c, FALSE)
                               EXCEPT !.e[r].cb = "on_tunnel", !.e[c].cb = "on_tunnel"])
    /\ UNCHANGED <<parts, run, brk, backlog>>

on_ignore ==
    /\ AtLoop
    /\ \E b \in batch :
         /\ Sees(b, "on_ignore")
         /\ LET s == Sound(Took(b), b)
            IN  Become(IF b.type \cap {"err", "rdhup"} # {} THEN del_event(s, b.s) ELSE s)
    /\ UNCHANGED <<parts, run, brk, backlog>>

Advance_twice(f, r) ==  \* (mutant) adds the new offset to the old one
    [f EXCEPT !.offset = @ + r.lp, !.waited = @ \/ r.wait]
Advance_kept(f, r) == [f EXCEPT !.waited = @ \/ r.wait]  \* (mutant) sends it again

\* The held chunk after a send that did not take all of it.
Advance(f, r) == [f EXCEPT !.offset = r.lp, !.waited = @ \/ r.wait]

\* on_tunnel(), up to the flush of what the source val still holds; event is
\* the eval it was called for.
Flush(s, event, val, notsent) ==
    LET p == s.e[val].pair
        f == s.e[val].buff
        r == tcp_send_hook(s, p, f.data, f.offset, notsent)
        t == Sent(s, val, p, r, f.offset)
        blocked == r.lp < Len(f.data) /\ ~r.wait
    IN  IF f.data = <<>> THEN Become(s) /\ run' = [s |-> event, val |-> val]
        ELSE IF s.k[p].err THEN Become(handle_err(s, p, event)) /\ run' = NoRun
        ELSE IF blocked \/ r.wait
          THEN /\ Become([Because(t, IF blocked /\ f.waited THEN {"blocked_after_wait"} ELSE {})
                            EXCEPT !.e[val].buff = Advance(f, r)])
               /\ run' = NoRun
        ELSE /\ Become(mod_etype(mod_etype([t EXCEPT !.e[val].buff = NoBuff], val, FALSE),
                                 p, FALSE))
             /\ run' = [s |-> event, val |-> val]

\* What sock_has_notsent() may find after each part of a send from val: it is
\* asked about data of the client only.
NotSent(val) == [1..(IF ev[val].flag = "S5" THEN Len(parts) ELSE 0) -> BOOLEAN]

\* on_tunnel(): on POLLOUT the source is the other eval.
on_tunnel ==
    /\ AtLoop
    /\ \E b \in batch :
         /\ Sees(b, "on_tunnel")
         /\ LET s   == Check(Sound(Took(b), b), ev[b.s].pair # 0, "no_pair")
                val == IF "out" \in b.type THEN ev[b.s].pair ELSE b.s
            IN  IF ev[b.s].pair = 0 THEN Become(del_event(s, b.s)) /\ run' = NoRun
                ELSE \E notsent \in NotSent(val) : Flush(s, b.s, val, notsent)
    /\ UNCHANGED <<parts, brk, backlog>>

\* next_event_tv(): a due timer comes before the rest of the batch.  A timer
\* without a held chunk would be taken for a timeout of the server.
Timeout ==
    /\ ~brk.set /\ run = NoRun
    /\ \E r \in Slots :
         /\ ev[r].timer
         /\ LET c == ev[r].pair
                s == [Cur EXCEPT !.e[r].timer = FALSE]
            IN  IF ev[c].buff = NoBuff /\ ev[r].round_count > 0
                  THEN /\ Become(handle_err(Check(s, FALSE, "timeout_of_a_live_connection"), r, r))
                       /\ run' = NoRun
                  ELSE \E notsent \in NotSent(c) : Flush(s, r, c, notsent)
    /\ UNCHANGED <<parts, brk, backlog>>

\* tcp_recv_hook(): what is read begins a new round of val if nothing was sent
\* from it since its peer last spoke.
tcp_recv_hook(s, val, n) ==
    LET p == s.e[val].pair
        t == [s EXCEPT !.k[val].rx = Drop(@, n)]
    IN  IF s.e[val].round_sent > 0 THEN t
        ELSE [t EXCEPT !.e[val].round_count = Min2(@ + 1, 2),
                       !.e[p].round_sent = 0, !.e[p].part_sent = 0]

\* The reading loop of on_tunnel(): one chunk, sent or held.
TunnelRead ==
    /\ run # NoRun
    /\ \E notsent \in NotSent(run.val) :
         LET val  == run.val
             p    == ev[val].pair
             data == Take(sk[val].rx, Min2(BufSize, Len(sk[val].rx)))
             s    == tcp_recv_hook(Cur, val, Len(data))
             r    == tcp_send_hook(s, p, data, 0, notsent)
             t    == Sent(s, val, p, r, 0)
         IN  IF data = <<>>
               THEN /\ run' = NoRun
                    /\ Become(IF sk[val].err THEN handle_err(Cur, val, run.s)
                              ELSE IF sk[val].eof THEN del_event(Cur, run.s)
                              ELSE Cur)
             ELSE IF sk[p].err THEN run' = NoRun /\ Become(handle_err(s, p, run.s))
             ELSE IF r.lp < Len(data) \/ r.wait
               THEN /\ run' = NoRun
                    /\ Become(Crossed(mod_etype(mod_etype(
                         [t EXCEPT !.e[val].buff = [data |-> data, offset |-> r.lp,
                                                    waited |-> r.wait]],
                         val, FALSE), p, ~r.wait)))
             ELSE /\ run' = IF Len(data) = BufSize THEN run ELSE NoRun
                  /\ Become(t)
    /\ UNCHANGED <<parts, brk, backlog>>

\* An event of an eval that was added or deleted in this batch is skipped.
Skip ==
    /\ AtLoop
    /\ \E b \in batch : b.s # 0 /\ ev[b.s].stamp /\ Become(Took(b))
    /\ UNCHANGED <<parts, run, brk, backlog>>

\* The history of a connection is kept until the batch it ended in is done.
NoNet == [up |-> 0, down |-> 0, sgot |-> <<>>, agot |-> <<>>]
Forget(s) == [s EXCEPT !.w = NoNet, !.h = {}]

\* The events epoll reports for slot i.
Ready(i) ==
    LET k == sk[i] failed == k.st = "failed" \/ k.err
    IN  IF ~ev[i].live THEN {}
        ELSE (IF k.rx # <<>> \/ k.eof \/ failed THEN {"in"} ELSE {})
             \cup (IF ev[i].out /\ (failed \/ (k.st = "up" /\ Len(k.tx) < SndBuf))
                     THEN {"out"} ELSE {})
             \cup (IF k.eof THEN {"rdhup"} ELSE {}) \cup (IF failed THEN {"err"} ELSE {})

\* What the handler of eval i looks at in the event.
Heeds(i) == IF ev[i].cb = "on_tunnel" THEN {"out"} ELSE {"err", "rdhup"}

\* next_event(): a new batch, and a new value of pool->iters.
epoll_wait ==
    /\ AtLoop /\ batch = {}
    /\ LET new == {[s |-> i, type |-> Ready(i) \cap Heeds(i), old |-> FALSE] :
                     i \in {j \in Slots : Ready(j) # {}}}
                  \cup (IF backlog THEN {[s |-> 0, type |-> {"in"}, old |-> FALSE]} ELSE {})
       IN  /\ new # {}
           /\ Become([(IF \E i \in Slots : ev[i].pair # 0 THEN Cur ELSE Forget(Cur))
                        EXCEPT !.b = new, !.e = [i \in Slots |-> [@[i] EXCEPT !.stamp = FALSE]]])
    /\ UNCHANGED <<parts, run, brk, backlog>>

\* loop_event() ends and destroy_pool() closes what is left.
destroy_pool ==
    /\ brk.set /\ ~brk.gone
    /\ brk' = [brk EXCEPT !.gone = TRUE]
    /\ Become(del_event(del_event([Because(Cur, {"proxy_ended"}) EXCEPT !.b = {}], 1), 2))
    /\ UNCHANGED <<parts, run, backlog>>
----------------------------------------------------------------------------
(* The kernel, the application and the server.                             *)

Open(c, r) ==
    /\ ev[c].live /\ ev[r].live /\ ev[c].pair = r /\ ev[r].flag = "CONN"
    /\ ev[c].cb = "on_tunnel"

World(k, w, h) ==
    /\ sk' = k /\ net' = w /\ causes' = causes \cup h
    /\ UNCHANGED <<parts, ev, batch, run, brk, faults>>

\* The loop is in epoll_wait(); what only that call observes happens here.
Waiting == AtLoop /\ batch = {}

\* An end of the connection has closed.
Over(k) == k.eof \/ k.err

\* A client connects, but not while a tunnel relays: on_accept() does not touch
\* it.  A handshake message is sent when the last was answered.
ClientConnects ==
    /\ Waiting /\ ~backlog /\ backlog' = TRUE
    /\ \A i \in Slots : ev[i].cb = "on_tunnel" => Over(sk[i])
    /\ World(sk, net, {})
ClientSpeaks ==
    /\ Waiting
    /\ \E c \in Slots :
         /\ ev[c].live /\ ev[c].cb = "on_request" /\ sk[c].rx = <<>> /\ ~sk[c].eof
         /\ World([sk EXCEPT ![c].rx = <<0>>], net, {})
    /\ UNCHANGED backlog

\* The remote socket's connect() ends.
Connected ==
    /\ Waiting
    /\ \E r \in Slots, st \in {"up", "failed"} :
         sk[r].st = "connecting" /\ World([sk EXCEPT ![r].st = st], net, {})
    /\ UNCHANGED backlog

\* A connection is followed until bytes are lost or it stalls, and its peers
\* send no more than a buffer ahead.
Lossy == {"part_blocked", "part_again", "short_tail", "crossed", "blocked_after_wait"}

AppSends ==
    /\ \E c, r \in Slots :
         /\ Open(c, r) /\ net.up < MaxUp /\ ~Over(sk[c]) /\ Len(sk[c].rx) < BufSize
         /\ causes \cap Lossy = {} /\ net.up + net.down < MaxBytes
         /\ World([sk EXCEPT ![c].rx = Append(@, net.up + 1)], [net EXCEPT !.up = @ + 1], {})
    /\ UNCHANGED backlog

ServerSends ==
    /\ \E c, r \in Slots :
         /\ Open(c, r) /\ net.down < MaxDown /\ ~Over(sk[r]) /\ Len(sk[r].rx) < BufSize
         /\ causes \cap Lossy = {} /\ net.up + net.down < MaxBytes
         /\ World([sk EXCEPT ![r].rx = Append(@, net.down + 1)], [net EXCEPT !.down = @ + 1], {})
    /\ UNCHANGED backlog

\* A peer closes its end, or resets the connection and what is queued for it.
PeerCloses ==
    /\ \E i \in Slots, rst \in BOOLEAN :
         /\ sk[i].st = "up" /\ ~Over(sk[i])
         /\ World([sk EXCEPT ![i] = IF rst THEN [@ EXCEPT !.err = TRUE, !.tx = <<>>, !.unsent = 0]
                                    ELSE [@ EXCEPT !.eof = TRUE]],
                  net,
                  {IF ev[i].flag = "CONN" THEN IF rst THEN "server_reset" ELSE "server_closed"
                   ELSE IF rst THEN "client_reset" ELSE "client_closed"})
    /\ UNCHANGED backlog

\* The kernel sends what is queued for the server, and the server gets it
\* unless it is sent with the short time to live: that is sent again.
Transmit ==
    /\ \E r \in Slots : sk[r].unsent > 0 /\ World([sk EXCEPT ![r].unsent = 0], net, {})
    /\ UNCHANGED backlog

ServerReads ==
    /\ \E r \in Slots :
         /\ ev[r].flag = "CONN" /\ Len(sk[r].tx) > sk[r].unsent /\ ~sk[r].low
         /\ World([sk EXCEPT ![r].tx = Tail(@)], [net EXCEPT !.sgot = Append(@, Head(sk[r].tx))], {})
    /\ UNCHANGED backlog

AppReads ==
    /\ \E c \in Slots :
         /\ ev[c].flag = "S5" /\ sk[c].tx # <<>>
         /\ World([sk EXCEPT ![c].tx = Tail(@)],
                  [net EXCEPT !.agot = Append(@, Head(sk[c].tx))], {})
    /\ UNCHANGED backlog
----------------------------------------------------------------------------
Init ==
    /\ parts \in Configs
    /\ ev = [i \in Slots |-> NoEval]
    /\ batch = {} /\ run = NoRun
    /\ brk = [set |-> FALSE, gone |-> FALSE]
    /\ backlog = FALSE
    /\ sk = [i \in Slots |-> NoSocket]
    /\ net = NoNet
    /\ causes = {} /\ faults = {}

Loop ==
    \/ epoll_wait \/ Skip \/ Timeout \/ on_accept \/ on_request \/ on_connect \/ on_ignore
    \/ on_tunnel \/ TunnelRead \/ destroy_pool

Next ==
    \/ Loop
    \/ ClientConnects \/ ClientSpeaks \/ Connected \/ AppSends \/ ServerSends \/ PeerCloses
    \/ Transmit \/ ServerReads \/ AppReads

Spec == Init /\ [][Next]_vars
----------------------------------------------------------------------------
\* Types; a socket's queue keeps within its buffer, what is unsent within the
\* queue, and a held chunk's offset within the chunk (proxy.c:645 adds to it).
TypeOK ==
    /\ parts \in Configs
    /\ \A i \in Slots :
         /\ ev[i] \in [live : BOOLEAN,
                       cb : {"none", "on_request", "on_ignore", "on_connect", "on_tunnel"},
                       flag : {"none", "S5", "CONN"}, pair : {0} \cup Slots, out : BOOLEAN,
                       buff : [data : Seq(1..(MaxUp + MaxDown)), offset : 0..BufSize, waited : BOOLEAN],
                       round_sent : 0..(MaxUp + MaxDown), round_count : 0..2,
                       part_sent : 0..2, timer : BOOLEAN, stamp : BOOLEAN]
         /\ sk[i].unsent \in 0..Len(sk[i].tx) /\ Len(sk[i].tx) <= SndBuf
         /\ ev[i].buff = NoBuff \/ ev[i].buff.offset <= Len(ev[i].buff.data)
    /\ run.s \in {0} \cup Slots /\ run.val \in {0} \cup Slots

\* No handler runs on an event of an eval that was deleted, whose slot may
\* hold another connection by then, none finds its pair gone (proxy.c:630),
\* and no timer fires without a chunk that waits for it, which on_timeout()
\* would answer by resetting a healthy connection.
EventsSound == faults = {}

Prefix(s, n) == Len(s) <= n /\ s = Bytes(Len(s))
Left(i) == Drop(ev[i].buff.data, ev[i].buff.offset)
Ended == \A i \in Slots : ev[i].pair = 0
LostUp == {"part_blocked", "part_again", "short_tail"}

\* The server gets the application's bytes in order, each once, and all of
\* them when it is the application that closes -- except where desync() counts
\* bytes as sent that are not: a part of which the kernel took less
\* (desync.c:464: part_sent names it, so that the retry skips it), the same
\* part met again in a later chunk of the first round, and the rest of a
\* chunk, whose short send() is not looked at (desync.c:489).
UpIntact ==
    causes \cap LostUp = {} =>
      /\ Prefix(net.sgot, net.up)
      /\ \A c, r \in Slots :
           (Open(c, r) /\ ~sk[r].err) =>
             net.sgot \o sk[r].tx \o Left(c) \o sk[c].rx = Bytes(net.up)
      /\ (Ended /\ causes \subseteq {"client_closed", "crossed", "blocked_after_wait"})
           => net.sgot = Bytes(net.up)

\* The application gets the server's bytes in order, each once, and all of
\* them when it is the server that closes, however slowly they are taken.
DownIntact ==
    /\ Prefix(net.agot, net.down)
    /\ \A c, r \in Slots :
         (Open(c, r) /\ ~sk[c].err) =>
           net.agot \o sk[c].tx \o Left(r) \o sk[r].rx = Bytes(net.down)
    /\ (Ended /\ causes \subseteq {"server_closed"} \cup Lossy) => net.agot = Bytes(net.down)

\* A held chunk has an event to come that makes on_tunnel() send it: POLLOUT of
\* its destination, a timer, or input of its source.  Two things break this.
\* When both directions hold data, the mod_etype() calls for one direction
\* withdraw the POLLOUT of the other (proxy.c:650, proxy.c:667); and a chunk
\* that waited for the kernel and is then refused is given no POLLOUT
\* (proxy.c:644).
WakeupPending ==
    AtLoop =>
      \A i \in Slots :
        (Held(i) /\ causes \cap {"crossed", "blocked_after_wait"} = {}) =>
          \/ ev[ev[i].pair].out
          \/ sk[i].rx # <<>> \/ Over(sk[i]) \/ sk[ev[i].pair].err

\* The short time to live of a disordered or fake part is in force only while
\* the rest of its chunk is held back: whatever else is sent, retransmissions
\* included, goes out with def_ttl.  Otherwise the server never gets it, as
\* ciadpi_jni.c:102 tells of a build that left def_ttl at 0.
TtlRestored ==
    (run = NoRun /\ ~brk.set) =>
      \A r \in Slots : sk[r].low => ev[r].pair # 0 /\ Held(ev[r].pair)
============================================================================
