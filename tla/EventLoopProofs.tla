-------------------------- MODULE EventLoopProofs --------------------------
(***************************************************************************)
(* What EventLoop.tla states of the proxy's event loop holds in every      *)
(* state, for every number of bytes, buffer size and set of configurations *)
(* its assumptions allow.  LoopInv is the inductive invariant.  It says in *)
(* which phase the two slots are (free, a client alone, a pair that joins, *)
(* a tunnel) and, for a tunnel, where each byte that a peer has sent is:   *)
(* got, in a send queue, in a buffer, or not read yet.                     *)
(*                                                                         *)
(* First come the operators on sequences and sockets, then desync() and    *)
(* its parts, then the records of the state, and then one lemma for each   *)
(* action.                                                                 *)
(***************************************************************************)
EXTENDS EventLoop, FiniteSetTheorems, SequenceTheorems, TLAPS

-----------------------------------------------------------------------------
(* Types.                                                                  *)

Byte == 1..(MaxUp + MaxDown)
BuffT == [data : Seq(Byte), offset : Nat, waited : BOOLEAN]
EvalT == [live : BOOLEAN, cb : {"none", "on_request", "on_ignore", "on_connect", "on_tunnel"},
          flag : {"none", "S5", "CONN"}, pair : {0} \cup Slots, out : BOOLEAN, buff : BuffT,
          round_sent : Nat, round_count : 0..2, part_sent : Nat, timer : BOOLEAN,
          stamp : BOOLEAN]
SockT == [st : {"closed", "connecting", "up", "failed"}, rx : Seq(Nat), eof : BOOLEAN,
          err : BOOLEAN, tx : Seq(Byte), unsent : Nat, low : BOOLEAN, linger : BOOLEAN]
EventT == [s : {0} \cup Slots, type : SUBSET {"in", "out", "rdhup", "err"}, old : BOOLEAN]
NetT == [up : 0..MaxUp, down : 0..MaxDown, sgot : Seq(Byte), agot : Seq(Byte)]
Cause == {"client_closed", "client_reset", "server_closed", "server_reset", "reset_at_close",
          "proxy_ended", "part_blocked", "part_again", "short_tail", "crossed",
          "blocked_after_wait"}
Fault == {"event_of_a_deleted_eval", "no_pair", "timeout_of_a_live_connection"}
StateT == [e : [Slots -> EvalT], b : SUBSET EventT, k : [Slots -> SockT], w : NetT,
           h : SUBSET Cause, x : SUBSET Fault]

-----------------------------------------------------------------------------
(* Bytes in order.                                                         *)

\* s are the bytes that follow the first n.
Counts(s, n) == \A i \in 1..Len(s) : s[i] = n + i

\* The bytes one way: got, queued, held and still to be read are all of them.
Flow(got, tx, left, rx, n) ==
    /\ Counts(got, 0) /\ Counts(tx, Len(got)) /\ Counts(left, Len(got) + Len(tx))
    /\ Counts(rx, Len(got) + Len(tx) + Len(left))
    /\ Len(got) + Len(tx) + Len(left) + Len(rx) = n
Whole(got, n) == Counts(got, 0) /\ Len(got) = n
Partly(got, n) == Counts(got, 0) /\ Len(got) <= n

\* What a buffer holds and has not sent.
Rest(f) == Drop(f.data, f.offset)
Holds(v) == v.buff.data # <<>>

-----------------------------------------------------------------------------
(* The phases of the pool.                                                 *)

Quiet(v, k) ==
    /\ v.buff = NoBuff /\ v.round_sent = 0 /\ v.round_count = 0 /\ v.part_sent = 0 /\ ~v.timer
    /\ k.tx = <<>> /\ k.unsent = 0 /\ ~k.low /\ ~k.linger
IsFree(v, k) ==
    /\ ~v.live /\ v.cb = "none" /\ v.flag = "none" /\ v.pair = 0 /\ ~v.out
    /\ Quiet(v, k) /\ k.st = "closed" /\ k.rx = <<>> /\ ~k.eof /\ ~k.err
IsClient(v, k) ==
    /\ v.live /\ v.cb = "on_request" /\ v.flag \in {"none", "S5"} /\ v.pair = 0 /\ ~v.out
    /\ Quiet(v, k) /\ k.st = "up"

\* What became of the bytes of a connection that is over.
Final(w, h) ==
    /\ Partly(w.agot, w.down)
    /\ h \subseteq {"server_closed"} \cup Lossy => Whole(w.agot, w.down)
    /\ h \cap LostUp = {} => Partly(w.sgot, w.up)
    /\ h \subseteq {"client_closed", "crossed", "blocked_after_wait"} => Whole(w.sgot, w.up)

\* No connection: its bytes are forgotten before an eval may be handled.
Loose(s) ==
    /\ \A i \in Slots : IsFree(s.e[i], s.k[i]) \/ IsClient(s.e[i], s.k[i])
    /\ Final(s.w, s.h)
    /\ (\E i \in Slots : ~s.e[i].stamp) => s.w = NoNet

\* The client ended before it was paired: the batch has its event.
Early(k, h) == (k.err /\ "client_reset" \notin h) \/ (k.eof /\ "client_closed" \notin h)
Noticed(s, c) == ~s.e[c].stamp /\ \E x \in s.b : x.s = c /\ "out" \notin x.type

\* A client and a remote that connects.
Joining(s, c, r) ==
    /\ s.e[c].live /\ s.e[c].cb = "on_ignore" /\ s.e[c].flag = "S5" /\ s.e[c].pair = r
    /\ ~s.e[c].out
    /\ s.e[r].live /\ s.e[r].cb = "on_connect" /\ s.e[r].flag = "CONN" /\ s.e[r].pair = c
    /\ Quiet(s.e[c], s.k[c]) /\ Quiet(s.e[r], s.k[r])
    /\ s.k[c].st = "up" /\ s.k[c].rx = <<>> /\ s.k[r].rx = <<>>
    /\ s.k[r].st # "closed" /\ (s.k[r].eof \/ s.k[r].err => s.k[r].st = "up")
    /\ s.w = NoNet
    /\ \A x \in s.b : x.s = c /\ ~s.e[c].stamp => x.type \cap {"err", "rdhup"} # {}
    /\ \A x \in s.b : x.s = r /\ ~s.e[r].stamp => "err" \in x.type \/ s.k[r].st = "up"
    /\ Early(s.k[c], s.h) => s.e[r].stamp \/ Noticed(s, c)
    /\ s.k[r].err => "server_reset" \in s.h
    /\ s.k[r].eof => "server_closed" \in s.h

\* A tunnel.
Ends(s, c, r) ==
    /\ s.e[c].live /\ s.e[c].cb = "on_tunnel" /\ s.e[c].flag = "S5" /\ s.e[c].pair = r
    /\ s.e[r].live /\ s.e[r].cb = "on_tunnel" /\ s.e[r].flag = "CONN" /\ s.e[r].pair = c
    /\ s.k[c].st = "up" /\ s.k[r].st = "up" /\ ~s.k[c].linger /\ ~s.k[r].linger
    /\ ~s.k[c].low /\ s.k[c].unsent = 0
    /\ ~s.e[c].timer /\ ~s.e[r].buff.waited /\ s.e[r].part_sent = 0
    /\ s.k[r].err => "server_reset" \in s.h
    /\ s.k[r].eof => "server_closed" \in s.h

Chunk(f) == f = NoBuff \/ (f.data # <<>> /\ Len(f.data) <= BufSize /\ f.offset <= Len(f.data))
Queued(k) == Len(k.tx) <= SndBuf /\ k.unsent <= Len(k.tx) /\ (k.err => k.tx = <<>>)

\* The bytes of one direction, source v with socket k: those counted as sent,
\* held, and still to be read.
Account(v, k, n) ==
    /\ Chunk(v.buff) /\ k.rx \in Seq(Byte)
    /\ v.round_sent + Len(Rest(v.buff)) + Len(k.rx) <= n
    /\ Counts(k.rx, n - Len(k.rx))

Down(s, c, r) ==
    /\ Partly(s.w.agot, s.w.down)
    /\ ~s.k[c].err \/ "client_reset" \notin s.h =>
          Flow(s.w.agot, s.k[c].tx, Rest(s.e[r].buff), s.k[r].rx, s.w.down)
Up(s, c, r) ==
    s.h \cap LostUp = {} =>
      /\ Partly(s.w.sgot, s.w.up)
      /\ ~s.k[r].err => Flow(s.w.sgot, s.k[r].tx, Rest(s.e[c].buff), s.k[c].rx, s.w.up)

\* A held chunk has a timer if it has waited for the kernel, and otherwise
\* POLLOUT of its destination.
Stalls == {"crossed", "blocked_after_wait"}
Wakes(s, i, j) ==
    Holds(s.e[i]) /\ s.h \cap Stalls = {} =>
      /\ ~Holds(s.e[j])
      /\ IF s.e[i].buff.waited THEN s.e[j].timer ELSE s.e[j].out
TimerHolds(s, c, r) == s.e[r].timer => Holds(s.e[c])

\* The first round, with the part list pp.  All parts are at one position.
Position(pp, data) == gen_offset(pp[1], data)
First(s, c) == s.e[c].round_count <= 1
InParts(pp, v) == v.round_sent <= v.buff.offset /\ v.buff.offset <= Position(pp, v.buff.data)
Parts(pp, s, c, r) ==
    /\ s.e[c].part_sent <= Len(pp)
    /\ s.k[r].low =>
          /\ Holds(s.e[c]) /\ First(s, c) /\ pp # <<>>
          /\ Position(pp, s.e[c].buff.data) >= 0 /\ InParts(pp, s.e[c])
    /\ First(s, c) /\ ~Holds(s.e[c]) =>
          \/ s.e[c].part_sent = Len(pp) \/ s.e[c].round_sent = 0
          \/ pp[1].at = "sni"
    /\ First(s, c) /\ Holds(s.e[c]) /\ pp # <<>> =>
          LET v == s.e[c] p == Position(pp, v.buff.data) IN
          p < 0 \/ (v.buff.offset <= p /\ (v.part_sent = Len(pp) \/ InParts(pp, v)))
PartDone(pp, s, c) ==
    s.h \cap LostUp = {} /\ First(s, c) /\ Holds(s.e[c]) /\ s.e[c].part_sent > 0 =>
      LET v == s.e[c] p == Position(pp, v.buff.data) IN
      \/ p < 0 \/ Min2(p, Len(v.buff.data)) <= v.buff.offset
      \/ p < v.round_sent

\* A client that ended early: nothing is read before that is noticed.
EarlyEnd(s, rn, c, r) ==
    Early(s.k[c], s.h) =>
      /\ s.k[c].rx = <<>> /\ s.e[c].buff = NoBuff /\ s.e[r].buff = NoBuff
      /\ \A x \in s.b : x.s # r
      /\ (rn = NoRun /\ Noticed(s, c)) \/ rn = [s |-> c, val |-> c]
Reading(s, rn, c, r) ==
    rn # NoRun => rn.s \in {c, r} /\ rn.val \in {c, r} /\ s.e[rn.val].buff = NoBuff

Relay(pp, s, c, r) ==
    /\ Ends(s, c, r) /\ Queued(s.k[c]) /\ Queued(s.k[r])
    /\ Account(s.e[c], s.k[c], s.w.up) /\ Account(s.e[r], s.k[r], s.w.down)
    /\ Down(s, c, r) /\ Up(s, c, r)
    /\ Parts(pp, s, c, r) /\ PartDone(pp, s, c)
Tunnel(pp, s, rn, c, r) ==
    /\ Relay(pp, s, c, r)
    /\ Wakes(s, c, r) /\ Wakes(s, r, c) /\ TimerHolds(s, c, r)
    /\ EarlyEnd(s, rn, c, r) /\ Reading(s, rn, c, r)

\* The events of a batch: one of each eval, and those of a deleted one are
\* known by its stamp.
Events(s) ==
    /\ \A x, y \in s.b : x.s = y.s => x = y
    /\ \A x \in s.b : x.old => x.s \in Slots /\ s.e[x.s].stamp

Good(pp, s, rn) ==
    /\ s \in StateT /\ s.x = {} /\ Events(s)
    /\ \/ Loose(s) /\ rn = NoRun
       \/ \E c, r \in Slots : c # r /\ Joining(s, c, r) /\ rn = NoRun
       \/ \E c, r \in Slots : c # r /\ Tunnel(pp, s, rn, c, r)

LoopInv ==
    /\ parts \in Configs
    /\ Good(parts, Cur, run)
    /\ brk \in [set : BOOLEAN, gone : BOOLEAN] /\ (brk.set => run = NoRun)

-----------------------------------------------------------------------------
(* Sequences of consecutive bytes.                                         *)

\* Concatenation, and the elements after the x-th up to the y-th, as the
\* lemmas name them.
Cat(q, r) == q \o r
Sub(q, x, y) == SubSeq(q, x + 1, y)

\* The elements of a concatenation.
LEMMA CatIs ==
  ASSUME NEW q \in Seq(Byte), NEW r \in Seq(Byte)
  PROVE  /\ Cat(q, r) \in Seq(Byte) /\ Len(Cat(q, r)) = Len(q) + Len(r)
         /\ Len(q) \in Nat /\ Len(r) \in Nat
         /\ \A i \in 1..Len(q) : Cat(q, r)[i] = q[i]
         /\ \A i \in 1..Len(r) : Cat(q, r)[Len(q) + i] = r[i]
<1> DEFINE t == Cat(q, r)
<1>1. t \in Seq(Byte) /\ Len(t) = Len(q) + Len(r) /\ Len(q) \in Nat /\ Len(r) \in Nat
  BY ConcatProperties, LenProperties DEF Cat
<1>2. \A i \in 1..Len(q) : t[i] = q[i]
  BY <1>1, ConcatProperties DEF Cat
<1>3. ASSUME NEW i \in 1..Len(r) PROVE t[Len(q) + i] = r[i]
  <2> DEFINE j == Len(q) + i
  <2>1. j \in (Len(q) + 1)..(Len(q) + Len(r)) /\ j - Len(q) = i
    BY <1>1
  <2>2. \A l \in (Len(q) + 1)..(Len(q) + Len(r)) : t[l] = r[l - Len(q)]
    BY ConcatProperties DEF Cat
  <2> HIDE DEF j
  <2>3. t[j] = r[i]
    BY <2>1, <2>2
  <2> QED BY <2>3 DEF j
<1> QED BY <1>1, <1>2, <1>3

\* The elements of a part of a sequence.
LEMMA SubIs ==
  ASSUME NEW q \in Seq(Byte), NEW x \in Nat, NEW y \in Nat, x <= y, y <= Len(q)
  PROVE  /\ Sub(q, x, y) \in Seq(Byte) /\ Len(Sub(q, x, y)) = y - x
         /\ \A i \in 1..(y - x) : Sub(q, x, y)[i] = q[x + i]
<1> DEFINE t == Sub(q, x, y)
<1>1. Len(q) \in Nat
  BY LenProperties
<1>2. \A i \in (x + 1)..y : q[i] \in Byte
  BY <1>1, ElementOfSeq
<1>3. /\ t \in Seq(Byte)
      /\ Len(t) = (IF x + 1 <= y THEN y - (x + 1) + 1 ELSE 0)
      /\ \A i \in 1..(y - (x + 1) + 1) : t[i] = q[x + 1 + i - 1]
  BY <1>2, SubSeqProperties DEF Sub
<1>4. Len(t) = y - x
  BY <1>3
<1>5. ASSUME NEW i \in 1..(y - x) PROVE t[i] = q[x + i]
  <2>1. i \in 1..(y - (x + 1) + 1) /\ x + 1 + i - 1 = x + i
    OBVIOUS
  <2>2. t[i] = q[x + 1 + i - 1]
    BY <1>3, <2>1
  <2> QED BY <2>1, <2>2
<1> QED BY <1>3, <1>4, <1>5

\* Take() and Drop() are such parts.
LEMMA TakeDrop ==
  ASSUME NEW q \in Seq(Byte), NEW n \in Nat, n <= Len(q)
  PROVE  Take(q, n) = Sub(q, 0, n) /\ Drop(q, n) = Sub(q, n, Len(q)) /\ Len(q) \in Nat
<1>1. Take(q, n) = Sub(q, 0, n)
  BY DEF Take, Sub
<1>2. Drop(q, n) = Sub(q, n, Len(q))
  BY DEF Drop, Sub
<1> QED BY <1>1, <1>2, LenProperties

\* Consecutive bytes, followed by the bytes that come next, are consecutive.
LEMMA CountsCat ==
  ASSUME NEW q \in Seq(Byte), NEW r \in Seq(Byte), NEW n \in Int,
         Counts(q, n), Counts(r, n + Len(q))
  PROVE  Cat(q, r) \in Seq(Byte) /\ Len(Cat(q, r)) = Len(q) + Len(r) /\ Counts(Cat(q, r), n)
<1> DEFINE t == Cat(q, r)
<1>1. /\ t \in Seq(Byte) /\ Len(t) = Len(q) + Len(r) /\ Len(q) \in Nat /\ Len(r) \in Nat
      /\ \A i \in 1..Len(q) : t[i] = q[i]
      /\ \A i \in 1..Len(r) : t[Len(q) + i] = r[i]
  BY CatIs
<1>2. ASSUME NEW j \in 1..Len(t) PROVE t[j] = n + j
  <2>1. CASE j <= Len(q)
    <3>1. j \in 1..Len(q)
      BY <1>1, <2>1
    <3> QED BY <1>1, <3>1 DEF Counts
  <2>2. CASE j > Len(q)
    <3> DEFINE l == j - Len(q)
    <3>1. l \in 1..Len(r) /\ Len(q) + l = j /\ n + Len(q) + l = n + j
      BY <1>1, <2>2
    <3> HIDE DEF l
    <3>2. t[j] = r[l]
      BY <1>1, <3>1
    <3>3. r[l] = n + Len(q) + l
      BY <3>1 DEF Counts
    <3> QED BY <3>1, <3>2, <3>3
  <2> QED BY <1>1, <2>1, <2>2
<1> QED BY <1>1, <1>2 DEF Counts

\* A part of consecutive bytes is consecutive.
LEMMA CountsSub ==
  ASSUME NEW q \in Seq(Byte), NEW n \in Int, Counts(q, n),
         NEW x \in Nat, NEW y \in Nat, x <= y, y <= Len(q)
  PROVE  Sub(q, x, y) \in Seq(Byte) /\ Len(Sub(q, x, y)) = y - x /\ Counts(Sub(q, x, y), n + x)
<1> DEFINE t == Sub(q, x, y)
<1>1. /\ t \in Seq(Byte) /\ Len(t) = y - x
      /\ \A i \in 1..(y - x) : t[i] = q[x + i]
  BY SubIs
<1>2. ASSUME NEW i \in 1..(y - x) PROVE t[i] = n + x + i
  <2> DEFINE l == x + i
  <2>0. Len(q) \in Nat
    BY LenProperties
  <2>1. l \in 1..Len(q) /\ n + l = n + x + i
    BY <2>0
  <2>2. t[i] = q[l]
    BY <1>1
  <2> HIDE DEF l
  <2>3. q[l] = n + l
    BY <2>1 DEF Counts
  <2> QED BY <2>1, <2>2, <2>3
<1> QED BY <1>1, <1>2 DEF Counts

\* The first n bytes.
LEMMA CountsBytes ==
  ASSUME NEW q \in Seq(Byte), Counts(q, 0)
  PROVE  q = Bytes(Len(q))
<1>1. Len(q) \in Nat /\ DOMAIN q = 1..Len(q) /\ q = [i \in 1..Len(q) |-> q[i]]
  BY LenProperties
<1>2. \A i \in 1..Len(q) : q[i] = i
  BY <1>1 DEF Counts
<1> DEFINE n == Len(q)
<1> HIDE DEF n
<1>3. q = [i \in 1..n |-> q[i]] /\ \A i \in 1..n : q[i] = i
  BY <1>1, <1>2 DEF n
<1>4. q = [i \in 1..n |-> i]
  BY <1>3
<1> QED BY <1>4 DEF Bytes, n

\* No bytes at all.
LEMMA CountsNone ==
  ASSUME NEW n
  PROVE  <<>> \in Seq(Byte) /\ Len(<<>>) = 0 /\ Counts(<<>>, n)
BY DEF Counts

-----------------------------------------------------------------------------
(* The bytes of one direction, as they move.                               *)

\* A send moves bytes of a chunk into the destination's queue.
LEMMA FlowSend ==
  ASSUME NEW got \in Seq(Byte), NEW tx \in Seq(Byte), NEW data \in Seq(Byte), NEW rx \in Seq(Byte),
         NEW n \in Nat, NEW off \in Nat, NEW lp \in Nat, off <= lp, lp <= Len(data),
         Flow(got, tx, Drop(data, off), rx, n)
  PROVE  Flow(got, Cat(tx, Sub(data, off, lp)), Drop(data, lp), rx, n)
<1> DEFINE a == Drop(data, off)
           m == Sub(data, off, lp)
           b == Drop(data, lp)
           t == Cat(tx, m)
           k == Len(got) + Len(tx)
<1>0. Len(got) \in Nat /\ Len(tx) \in Nat /\ Len(data) \in Nat /\ Len(rx) \in Nat /\ off <= Len(data)
      /\ k \in Nat
  BY LenProperties
<1>1. a = Sub(data, off, Len(data)) /\ b = Sub(data, lp, Len(data))
  BY <1>0, TakeDrop
<1>2. /\ a \in Seq(Byte) /\ Len(a) = Len(data) - off
      /\ \A i \in 1..(Len(data) - off) : a[i] = data[off + i]
  <2> DEFINE z == Len(data)
  <2>1. z \in Nat /\ off <= z /\ z <= Len(data) /\ a = Sub(data, off, z)
    BY <1>0, <1>1
  <2> HIDE DEF a, z
  <2>2. /\ Sub(data, off, z) \in Seq(Byte) /\ Len(Sub(data, off, z)) = z - off
        /\ \A i \in 1..(z - off) : Sub(data, off, z)[i] = data[off + i]
    BY <2>1, SubIs
  <2>3. a \in Seq(Byte) /\ Len(a) = z - off /\ \A i \in 1..(z - off) : a[i] = data[off + i]
    BY <2>1, <2>2
  <2> QED BY <2>3 DEF z
<1>3. /\ b \in Seq(Byte) /\ Len(b) = Len(data) - lp
      /\ \A i \in 1..(Len(data) - lp) : b[i] = data[lp + i]
  <2> DEFINE z == Len(data)
  <2>1. z \in Nat /\ lp <= z /\ z <= Len(data) /\ b = Sub(data, lp, z)
    BY <1>0, <1>1
  <2> HIDE DEF b, z
  <2>2. /\ Sub(data, lp, z) \in Seq(Byte) /\ Len(Sub(data, lp, z)) = z - lp
        /\ \A i \in 1..(z - lp) : Sub(data, lp, z)[i] = data[lp + i]
    BY <2>1, SubIs
  <2>3. b \in Seq(Byte) /\ Len(b) = z - lp /\ \A i \in 1..(z - lp) : b[i] = data[lp + i]
    BY <2>1, <2>2
  <2> QED BY <2>3 DEF z
<1>4. /\ m \in Seq(Byte) /\ Len(m) = lp - off
      /\ \A i \in 1..(lp - off) : m[i] = data[off + i]
  BY SubIs
<1>5. Counts(got, 0) /\ Counts(tx, Len(got)) /\ Counts(a, k) /\ Counts(rx, k + Len(a))
      /\ k + Len(a) + Len(rx) = n
  BY DEF Flow
<1> HIDE DEF a, m, b, k
<1>6. ASSUME NEW j \in Nat, off + j <= Len(data), j # 0 PROVE data[off + j] = k + j
  <2>1. j \in 1..(Len(data) - off)
    BY <1>0, <1>6
  <2> QED BY <1>2, <1>5, <2>1 DEF Counts
<1>7. Counts(m, k)
  <2> SUFFICES ASSUME NEW i \in 1..(lp - off) PROVE m[i] = k + i
    BY <1>4 DEF Counts
  <2>1. i \in Nat /\ off + i <= Len(data) /\ i # 0
    BY <1>0
  <2> QED BY <1>4, <1>6, <2>1
<1>8. Counts(b, k + (lp - off))
  <2> SUFFICES ASSUME NEW i \in 1..(Len(data) - lp) PROVE b[i] = k + (lp - off) + i
    BY <1>3 DEF Counts
  <2> DEFINE j == lp - off + i
  <2>1. j \in Nat /\ off + j <= Len(data) /\ j # 0 /\ off + j = lp + i /\ k + j = k + (lp - off) + i
    BY <1>0
  <2> HIDE DEF j
  <2>2. data[off + j] = k + j
    BY <1>6, <2>1
  <2> QED BY <1>3, <2>1, <2>2
<1>9. t \in Seq(Byte) /\ Len(t) = Len(tx) + (lp - off) /\ Counts(t, Len(got))
  <2> DEFINE g == Len(got)
  <2>2. Counts(m, g + Len(tx)) /\ g \in Int /\ Counts(tx, g)
    BY <1>0, <1>5, <1>7 DEF k
  <2> HIDE DEF g
  <2>3. m \in Seq(Byte)
    BY <1>4
  <2>4. Cat(tx, m) \in Seq(Byte) /\ Len(Cat(tx, m)) = Len(tx) + Len(m) /\ Counts(Cat(tx, m), g)
    BY ONLY tx \in Seq(Byte), <2>2, <2>3, CountsCat
  <2> QED BY <1>4, <2>4 DEF g
<1> HIDE DEF t
<1>10. /\ Len(got) + Len(t) = k + (lp - off)
       /\ Len(got) + Len(t) + Len(b) = k + Len(a)
       /\ Len(got) + Len(t) + Len(b) + Len(rx) = n
  <2> DEFINE g == Len(got)
             x == Len(tx)
             y == Len(t)
             z == Len(data)
             u == Len(a)
             v == Len(b)
             q == Len(rx)
  <2>1. /\ g \in Nat /\ x \in Nat /\ z \in Nat /\ q \in Nat /\ k = g + x /\ u = z - off
        /\ v = z - lp /\ y = x + (lp - off) /\ k + u + q = n
    BY <1>0, <1>2, <1>3, <1>5, <1>9 DEF k
  <2> HIDE DEF g, x, y, z, u, v, q
  <2>2. g + y = k + (lp - off) /\ g + y + v = k + u /\ g + y + v + q = n
    BY ONLY <2>1, n \in Nat, off \in Nat, lp \in Nat
  <2> QED BY <2>2 DEF g, x, y, z, u, v, q
<1>11. Flow(got, t, b, rx, n)
  BY <1>5, <1>8, <1>9, <1>10 DEF Flow
<1> QED BY <1>11 DEF t, m, b

\* A read moves bytes into an empty chunk.
LEMMA FlowRead ==
  ASSUME NEW got \in Seq(Byte), NEW tx \in Seq(Byte), NEW rx \in Seq(Byte), NEW left,
         left = <<>>, NEW n \in Nat, NEW m \in Nat, m <= Len(rx),
         Flow(got, tx, left, rx, n)
  PROVE  Flow(got, tx, Drop(Take(rx, m), 0), Drop(rx, m), n)
<1> DEFINE d == Take(rx, m)
           a == Drop(d, 0)
           b == Drop(rx, m)
           k == Len(got) + Len(tx)
<1>0. Len(got) \in Nat /\ Len(tx) \in Nat /\ Len(rx) \in Nat /\ Len(left) = 0 /\ k \in Nat /\ 0 <= m
  BY LenProperties
<1>1. Counts(got, 0) /\ Counts(tx, Len(got)) /\ Counts(rx, k) /\ k + Len(rx) = n
  <2>1. k + Len(left) = k /\ Len(got) + Len(tx) + Len(left) + Len(rx) = k + Len(rx)
    BY <1>0
  <2> QED BY <1>0, <2>1 DEF Flow
<1>2. d \in Seq(Byte) /\ Len(d) = m /\ Counts(d, k)
  <2>1. d = Sub(rx, 0, m) /\ k + 0 = k /\ m - 0 = m /\ 0 \in Nat
    BY <1>0, TakeDrop
  <2> HIDE DEF d, k
  <2>2. d \in Seq(Byte) /\ Len(d) = m - 0 /\ Counts(d, k + 0)
    BY <1>0, <1>1, <2>1, CountsSub
  <2> QED BY <2>1, <2>2
<1> HIDE DEF d
<1>3. a \in Seq(Byte) /\ Len(a) = m /\ Counts(a, k)
  <2> DEFINE z == 0
  <2>1. a = Sub(d, z, m) /\ k + z = k /\ m - z = m /\ z \in Nat /\ z <= m
    BY <1>0, <1>2, TakeDrop
  <2> HIDE DEF a, k, z
  <2>2. a \in Seq(Byte) /\ Len(a) = m - z /\ Counts(a, k + z)
    BY <1>0, <1>2, <2>1, CountsSub
  <2> QED BY <2>1, <2>2
<1>4. b \in Seq(Byte) /\ Len(b) = Len(rx) - m /\ Counts(b, k + m)
  <2>1. b = Sub(rx, m, Len(rx)) /\ Len(rx) <= Len(rx)
    BY <1>0, TakeDrop
  <2> DEFINE z == Len(rx)
  <2>2. z \in Nat /\ m <= z /\ z <= Len(rx) /\ b = Sub(rx, m, z)
    BY <1>0, <2>1
  <2> HIDE DEF b, k, z
  <2>4. k \in Int /\ Counts(rx, k)
    BY <1>0, <1>1
  <2>3. Sub(rx, m, z) \in Seq(Byte) /\ Len(Sub(rx, m, z)) = z - m /\ Counts(Sub(rx, m, z), k + m)
    BY ONLY rx \in Seq(Byte), m \in Nat, <2>2, <2>4, CountsSub
  <2> QED BY <2>2, <2>3 DEF z
<1> HIDE DEF a, b
<1>5. k + Len(a) = k + m /\ k + Len(a) + Len(b) = n
  <2> DEFINE x == Len(a)
             y == Len(b)
             z == Len(rx)
  <2>1. k \in Nat /\ z \in Nat /\ x = m /\ y = z - m /\ k + z = n
    BY <1>0, <1>1, <1>3, <1>4
  <2> HIDE DEF x, y, z, k
  <2>2. k + x = k + m /\ k + x + y = n
    BY ONLY <2>1, n \in Nat, m \in Nat
  <2> QED BY <2>2 DEF x, y
<1>6. Flow(got, tx, a, b, n)
  BY <1>1, <1>3, <1>4, <1>5 DEF Flow
<1> QED BY <1>6 DEF a, b, d

\* The peer takes a byte out of the queue.
LEMMA FlowGet ==
  ASSUME NEW got \in Seq(Byte), NEW tx \in Seq(Byte), NEW left \in Seq(Byte), NEW rx \in Seq(Byte),
         NEW n \in Nat, tx # <<>>, Flow(got, tx, left, rx, n)
  PROVE  /\ Append(got, Head(tx)) \in Seq(Byte) /\ Tail(tx) \in Seq(Byte)
         /\ Len(Tail(tx)) = Len(tx) - 1
         /\ Flow(Append(got, Head(tx)), Tail(tx), left, rx, n)
<1> DEFINE g == Append(got, Head(tx))
           t == Tail(tx)
<1>1. Len(got) \in Nat /\ Len(tx) \in Nat /\ Len(left) \in Nat /\ Len(rx) \in Nat /\ Len(tx) >= 1
  BY LenProperties, EmptySeq
<1>2. g \in Seq(Byte) /\ Len(g) = Len(got) + 1 /\ t \in Seq(Byte) /\ Len(t) = Len(tx) - 1
      /\ (\A i \in 1..Len(got) : g[i] = got[i]) /\ g[Len(got) + 1] = tx[1]
      /\ \A i \in 1..Len(t) : t[i] = tx[i + 1]
  BY <1>1
<1> HIDE DEF g, t
<1>3. Counts(g, 0)
  <2> SUFFICES ASSUME NEW i \in 1..(Len(got) + 1) PROVE g[i] = 0 + i
    BY <1>2 DEF Counts
  <2>1. CASE i = Len(got) + 1
    <3>1. tx[1] = Len(got) + 1
      BY <1>1 DEF Flow, Counts
    <3> QED BY <1>1, <1>2, <2>1, <3>1
  <2>2. CASE i # Len(got) + 1
    <3>1. i \in 1..Len(got)
      BY <1>1, <2>2
    <3> QED BY <1>2, <3>1 DEF Flow, Counts
  <2> QED BY <2>1, <2>2
<1>4. Counts(t, Len(got) + 1)
  <2> SUFFICES ASSUME NEW i \in 1..Len(t) PROVE t[i] = Len(got) + 1 + i
    BY DEF Counts
  <2> DEFINE j == i + 1
  <2>1. j \in 1..Len(tx) /\ Len(got) + j = Len(got) + 1 + i
    BY <1>1, <1>2
  <2>2. t[i] = tx[j]
    BY <1>2
  <2> HIDE DEF j
  <2>3. tx[j] = Len(got) + j
    BY <2>1 DEF Flow, Counts
  <2> QED BY <2>1, <2>2, <2>3
<1>5. /\ Len(g) + Len(t) = Len(got) + Len(tx)
      /\ Len(g) + Len(t) + Len(left) = Len(got) + Len(tx) + Len(left)
      /\ Len(g) + Len(t) + Len(left) + Len(rx) = Len(got) + Len(tx) + Len(left) + Len(rx)
  BY <1>1, <1>2
<1>6. Flow(g, t, left, rx, n)
  BY <1>2, <1>3, <1>4, <1>5 DEF Flow
<1> QED BY <1>2, <1>6 DEF g, t

\* The source sends one more byte.
LEMMA FlowMore ==
  ASSUME NEW got \in Seq(Byte), NEW tx \in Seq(Byte), NEW left \in Seq(Byte), NEW rx \in Seq(Byte),
         NEW n \in Nat, Flow(got, tx, left, rx, n), NEW m, m = n + 1, m \in Byte
  PROVE  Flow(got, tx, left, Append(rx, m), m)
<1> DEFINE q == Append(rx, m)
           k == Len(got) + Len(tx) + Len(left)
<1>1. Len(rx) \in Nat /\ k \in Nat /\ k + Len(rx) = n
  BY LenProperties DEF Flow
<1>2. Len(q) = Len(rx) + 1 /\ (\A i \in 1..Len(rx) : q[i] = rx[i]) /\ q[Len(rx) + 1] = m
  BY <1>1
<1>3. Counts(rx, k)
  BY DEF Flow
<1> HIDE DEF q, k
<1>4. Counts(q, k)
  <2> SUFFICES ASSUME NEW i \in 1..(Len(rx) + 1) PROVE q[i] = k + i
    BY <1>2 DEF Counts
  <2>1. CASE i = Len(rx) + 1
    <3> DEFINE z == Len(rx)
    <3>1. q[i] = m /\ i = z + 1 /\ k + z = n /\ z \in Nat /\ k \in Nat /\ m = n + 1
      BY <1>1, <1>2, <2>1
    <3> HIDE DEF z
    <3> QED BY ONLY <3>1, n \in Nat
  <2>2. CASE i # Len(rx) + 1
    <3>1. i \in 1..Len(rx)
      BY <1>1, <2>2
    <3> QED BY <1>2, <1>3, <3>1 DEF Counts
  <2> QED BY <2>1, <2>2
<1>5. k + Len(q) = m
  <2> DEFINE z == Len(rx)
             y == Len(q)
  <2>1. y = z + 1 /\ k + z = n /\ z \in Nat /\ k \in Nat /\ m = n + 1
    BY <1>1, <1>2
  <2> HIDE DEF z, y
  <2>2. k + y = m
    BY ONLY <2>1, n \in Nat
  <2> QED BY <2>2 DEF y
<1>6. Flow(got, tx, left, q, m)
  BY <1>4, <1>5 DEF Flow, k
<1> QED BY <1>6 DEF q

\* What the kernel still delivers after close().
LEMMA FlowClose ==
  ASSUME NEW got \in Seq(Byte), NEW tx \in Seq(Byte), NEW left \in Seq(Byte), NEW rx \in Seq(Byte),
         NEW n \in Nat, Flow(got, tx, left, rx, n)
  PROVE  /\ Cat(got, tx) \in Seq(Byte) /\ Partly(Cat(got, tx), n) /\ Partly(got, n)
         /\ left = <<>> /\ rx = <<>> => Whole(Cat(got, tx), n)
<1> DEFINE t == Cat(got, tx)
<1>1. Len(got) \in Nat /\ Len(tx) \in Nat /\ Len(left) \in Nat /\ Len(rx) \in Nat
      /\ Len(got) + Len(tx) + Len(left) + Len(rx) = n
  BY LenProperties DEF Flow
<1>2. Counts(got, 0) /\ Counts(tx, 0 + Len(got)) /\ 0 \in Int
  BY <1>1 DEF Flow
<1>3. t \in Seq(Byte) /\ Len(t) = Len(got) + Len(tx) /\ Counts(t, 0)
  BY <1>2, CountsCat
<1> HIDE DEF t
<1>4. left = <<>> /\ rx = <<>> => Len(left) = 0 /\ Len(rx) = 0
  OBVIOUS
<1>5. Len(t) <= n /\ Len(got) <= n /\ (Len(left) = 0 /\ Len(rx) = 0 => Len(t) = n)
  <2> DEFINE g == Len(got)
             x == Len(tx)
             l == Len(left)
             y == Len(rx)
             z == Len(t)
  <2>1. g \in Nat /\ x \in Nat /\ l \in Nat /\ y \in Nat /\ g + x + l + y = n /\ z = g + x
    BY <1>1, <1>3
  <2> HIDE DEF g, x, l, y, z
  <2>2. z <= n /\ g <= n /\ (l = 0 /\ y = 0 => z = n)
    BY ONLY <2>1, n \in Nat
  <2> QED BY <2>2 DEF g, x, l, y, z
<1>6. t \in Seq(Byte) /\ Partly(t, n) /\ Partly(got, n) /\ (left = <<>> /\ rx = <<>> => Whole(t, n))
  BY <1>2, <1>3, <1>4, <1>5 DEF Partly, Whole
<1> QED BY <1>6 DEF t

\* The flow, as the properties state it.
LEMMA FlowIs ==
  ASSUME NEW got \in Seq(Byte), NEW tx \in Seq(Byte), NEW left \in Seq(Byte), NEW rx \in Seq(Byte),
         NEW n \in Nat, Flow(got, tx, left, rx, n)
  PROVE  got \o tx \o left \o rx = Bytes(n)
<1> DEFINE a == Cat(got, tx)
           b == Cat(a, left)
           d == Cat(b, rx)
<1>1. Len(got) \in Nat /\ Len(tx) \in Nat /\ Len(left) \in Nat /\ Len(rx) \in Nat
      /\ Len(got) + Len(tx) + Len(left) + Len(rx) = n
  BY LenProperties DEF Flow
<1>2. Counts(got, 0) /\ Counts(tx, 0 + Len(got)) /\ 0 \in Int
      /\ Counts(left, Len(got) + Len(tx)) /\ Counts(rx, Len(got) + Len(tx) + Len(left))
  BY <1>1 DEF Flow
<1>3. a \in Seq(Byte) /\ Len(a) = Len(got) + Len(tx) /\ Counts(a, 0)
  BY <1>2, CountsCat
<1> HIDE DEF a
<1>4. Counts(left, 0 + Len(a)) /\ Counts(rx, 0 + (Len(a) + Len(left)))
  BY <1>1, <1>2, <1>3
<1>5. b \in Seq(Byte) /\ Len(b) = Len(a) + Len(left) /\ Counts(b, 0)
  BY <1>2, <1>3, <1>4, CountsCat
<1> HIDE DEF b
<1>6. Counts(rx, 0 + Len(b))
  BY <1>4, <1>5
<1>7. d \in Seq(Byte) /\ Len(d) = Len(b) + Len(rx) /\ Counts(d, 0)
  BY <1>2, <1>5, <1>6, CountsCat
<1>8. Len(d) = n
  BY <1>1, <1>3, <1>5, <1>7
<1> HIDE DEF d
<1>9. d = Bytes(n)
  BY <1>7, <1>8, CountsBytes
<1> QED BY <1>9 DEF a, b, d, Cat

-----------------------------------------------------------------------------
(* A send.                                                                 *)

\* Bytes off..lp of data were sent: whatever flow the queue tx was part of,
\* the queue ty is part of the same flow.
Moves(tx, off, ty, lp, data) ==
    \A got \in Seq(Byte), rx \in Seq(Byte), n \in Nat :
      Flow(got, tx, Drop(data, off), rx, n) => Flow(got, ty, Drop(data, lp), rx, n)

\* The queue keeps within its buffer, and a send leaves the rest of socket k
\* as it was.
Fits(k) == Len(k.tx) <= SndBuf /\ k.unsent <= Len(k.tx)
Fed(k, l) ==
    /\ l \in SockT /\ Fits(l)
    /\ l.st = k.st /\ l.rx = k.rx /\ l.eof = k.eof /\ l.err = k.err /\ l.linger = k.linger

\* The smaller of two numbers.
LEMMA Min2Is ==
  ASSUME NEW a \in Int, NEW b \in Int
  PROVE  Min2(a, b) \in Int /\ Min2(a, b) <= a /\ Min2(a, b) <= b /\ Min2(a, b) \in {a, b}
BY DEF Min2

\* Sending nothing moves nothing, and two sends are one.
LEMMA MovesNone ==
  ASSUME NEW tx, NEW off, NEW data
  PROVE  Moves(tx, off, tx, off, data)
BY DEF Moves

\* Two moves in a row of the same chunk into a socket are one move.
LEMMA MovesTwice ==
  ASSUME NEW tx, NEW off, NEW ty, NEW lp, NEW tz, NEW lq, NEW data,
         Moves(tx, off, ty, lp, data), Moves(ty, lp, tz, lq, data)
  PROVE  Moves(tx, off, tz, lq, data)
BY DEF Moves

\* What is sent goes behind what is queued.
LEMMA MovesSend ==
  ASSUME NEW tx \in Seq(Byte), NEW data \in Seq(Byte), NEW off \in Nat, NEW lp \in Nat,
         off <= lp, lp <= Len(data)
  PROVE  Moves(tx, off, Cat(tx, Sub(data, off, lp)), lp, data)
<1> SUFFICES ASSUME NEW got \in Seq(Byte), NEW rx \in Seq(Byte), NEW n \in Nat,
                    Flow(got, tx, Drop(data, off), rx, n)
             PROVE  Flow(got, Cat(tx, Sub(data, off, lp)), Drop(data, lp), rx, n)
  BY DEF Moves
<1> QED BY FlowSend

\* Types of a socket.
LEMMA SockIs ==
  ASSUME NEW k \in SockT
  PROVE  /\ k.tx \in Seq(Byte) /\ Len(k.tx) \in Nat /\ k.unsent \in Nat
         /\ k.low \in BOOLEAN /\ k.rx \in Seq(Nat) /\ k.eof \in BOOLEAN /\ k.err \in BOOLEAN
         /\ k.linger \in BOOLEAN /\ k.st \in {"closed", "connecting", "up", "failed"}
BY LenProperties DEF SockT

\* A socket whose queue, unsent bytes and time to live are set.
SetQueue(k, tx, u, low) == [k EXCEPT !.tx = tx, !.unsent = u, !.low = low]

\* That is all that is set.
LEMMA SockSet ==
  ASSUME NEW k \in SockT, NEW tx \in Seq(Byte), NEW u \in Nat, NEW low \in BOOLEAN,
         Len(tx) <= SndBuf, u <= Len(tx)
  PROVE  /\ Fed(k, SetQueue(k, tx, u, low)) /\ SetQueue(k, tx, u, low).tx = tx
         /\ SetQueue(k, tx, u, low).unsent = u /\ SetQueue(k, tx, u, low).low = low
BY DEF SockT, Fed, Fits, SetQueue

\* send(): the bytes off..lp of data that fit.
LEMMA QueueIs ==
  ASSUME NEW k \in SockT, Fits(k), NEW data \in Seq(Byte), NEW off \in Nat, NEW lp \in Nat,
         off <= lp, lp <= Len(data), lp - off <= SndBuf - Len(k.tx)
  PROVE  /\ Fed(k, Queue(k, Sub(data, off, lp))) /\ Queue(k, Sub(data, off, lp)).low = k.low
         /\ Moves(k.tx, off, Queue(k, Sub(data, off, lp)).tx, lp, data)
<1> DEFINE l == Queue(k, Sub(data, off, lp))
<1> DEFINE m == Sub(data, off, lp)
           t == Cat(k.tx, m)
           u == k.unsent + Len(m)
<1>1. k.tx \in Seq(Byte) /\ Len(k.tx) \in Nat /\ k.unsent \in Nat /\ k.low \in BOOLEAN
  BY SockIs
<1>2. m \in Seq(Byte) /\ Len(m) = lp - off
  BY SubIs
<1>3. Moves(k.tx, off, t, lp, data)
  BY <1>1, MovesSend
<1> HIDE DEF m
<1>4. t \in Seq(Byte) /\ Len(t) = Len(k.tx) + Len(m)
  BY <1>1, <1>2, CatIs
<1> DEFINE x == Len(k.tx)
           y == Len(m)
           z == Len(t)
<1>5. x \in Nat /\ y = lp - off /\ z = x + y /\ y <= SndBuf - x /\ k.unsent <= x /\ u = k.unsent + y
      /\ SndBuf \in Nat /\ k.unsent \in Nat
  BY <1>1, <1>2, <1>4, SizesAssumption DEF Fits
<1>6. l = [k EXCEPT !.tx = t, !.unsent = u]
  BY DEF Queue, Cat, m
<1> HIDE DEF t, u, x, y, z
<1>7. u \in Nat /\ u <= z /\ z <= SndBuf
  BY ONLY <1>5, off \in Nat, lp \in Nat, off <= lp
<1>8. z = Len(t)
  BY DEF z
<1>9. l = SetQueue(k, t, u, k.low)
  BY <1>6 DEF SockT, SetQueue
<1> HIDE DEF l
<1>10. Fed(k, l) /\ l.tx = t /\ l.low = k.low
  <2> DEFINE w == k.low
  <2>1. w \in BOOLEAN /\ t \in Seq(Byte) /\ u \in Nat /\ Len(t) <= SndBuf /\ u <= Len(t)
        /\ l = SetQueue(k, t, u, w)
    BY <1>1, <1>4, <1>7, <1>8, <1>9
  <2> HIDE DEF w
  <2>2. Fed(k, SetQueue(k, t, u, w)) /\ SetQueue(k, t, u, w).tx = t /\ SetQueue(k, t, u, w).low = w
    BY ONLY k \in SockT, <2>1, SockSet
  <2> QED BY <2>1, <2>2 DEF w
<1>11. Fed(k, l) /\ l.low = k.low /\ Moves(k.tx, off, l.tx, lp, data)
  BY <1>3, <1>10
<1> QED BY <1>11 DEF l

\* The first n elements of a part of a sequence.
LEMMA SubTake ==
  ASSUME NEW q \in Seq(Byte), NEW x \in Nat, NEW y \in Nat, x <= y, y <= Len(q),
         NEW n \in Nat, n <= y - x
  PROVE  Take(Sub(q, x, y), n) = Sub(q, x, x + n)
<1> DEFINE u == Sub(q, x, y)
           v == Sub(q, x, x + n)
           z == 0
           w == Sub(u, z, n)
           e == x + n
<1>1. Len(q) \in Nat /\ e \in Nat /\ x <= e /\ e <= Len(q) /\ e - x = n
  BY LenProperties
<1>2. u \in Seq(Byte) /\ Len(u) = y - x /\ \A i \in 1..(y - x) : u[i] = q[x + i]
  BY SubIs
<1>3. v = Sub(q, x, e)
  OBVIOUS
<1> HIDE DEF e, v
<1>4. Sub(q, x, e) \in Seq(Byte) /\ Len(Sub(q, x, e)) = e - x
      /\ \A i \in 1..(e - x) : Sub(q, x, e)[i] = q[x + i]
  BY <1>1, SubIs
<1>5. v \in Seq(Byte) /\ Len(v) = n /\ \A i \in 1..n : v[i] = q[x + i]
  BY <1>1, <1>3, <1>4
<1> HIDE DEF u
<1>6. Take(u, n) = w
  BY DEF Take, Sub
<1>7. z \in Nat /\ z <= n /\ n <= Len(u) /\ n - z = n /\ \A i \in 1..n : z + i = i
  BY <1>2
<1> HIDE DEF z, w
<1>8. Sub(u, z, n) \in Seq(Byte) /\ Len(Sub(u, z, n)) = n - z
      /\ \A i \in 1..(n - z) : Sub(u, z, n)[i] = u[z + i]
  BY <1>2, <1>7, SubIs
<1>9. w \in Seq(Byte) /\ Len(w) = n /\ \A i \in 1..n : w[i] = u[i]
  BY <1>7, <1>8 DEF w
<1>10. \A i \in 1..n : w[i] = v[i]
  <2> TAKE i \in 1..n
  <2>1. i \in 1..(y - x)
    OBVIOUS
  <2> QED BY <1>2, <1>5, <1>9, <2>1
<1>11. w = v
  BY ONLY <1>5, <1>9, <1>10, SeqEqual
<1> QED BY <1>6, <1>11 DEF u, v, w, e, z

\* What a send keeps, it keeps when the time to live changes.
LEMMA FedLow ==
  ASSUME NEW k \in SockT, NEW l, Fed(k, l), NEW low \in BOOLEAN
  PROVE  /\ Fed(k, [l EXCEPT !.low = @ \/ low]) /\ [l EXCEPT !.low = @ \/ low].tx = l.tx
<1>1. l \in SockT /\ l.low \in BOOLEAN
  BY SockIs DEF Fed
<1> DEFINE w == l.low \/ low
<1>2. w \in BOOLEAN /\ [l EXCEPT !.low = @ \/ low] = [l EXCEPT !.low = w]
  BY <1>1
<1> HIDE DEF w
<1>3. Fed(k, [l EXCEPT !.low = w]) /\ [l EXCEPT !.low = w].tx = l.tx
  BY <1>1, <1>2 DEF SockT, Fed, Fits
<1> QED BY <1>2, <1>3

\* restore_state() puts the TTL back and leaves what has been sent alone.
LEMMA FedRestore ==
  ASSUME NEW k \in SockT, NEW l, Fed(k, l)
  PROVE  /\ Fed(k, restore_state(l)) /\ restore_state(l).tx = l.tx /\ restore_state(l).low = FALSE
<1>1. l \in SockT /\ Len(l.tx) \in Nat
  BY SockIs DEF Fed
<1> DEFINE m == SetQueue(l, l.tx, 0, FALSE)
<1>2. restore_state(l) = m
  BY <1>1 DEF SockT, restore_state, SetQueue
<1> DEFINE tx == l.tx
           z == 0
           f == FALSE
<1>3. tx \in Seq(Byte) /\ z \in Nat /\ f \in BOOLEAN /\ Len(tx) <= SndBuf /\ z <= Len(tx)
  BY <1>1, SockIs DEF Fed, Fits
<1>4. m = SetQueue(l, tx, z, f)
  OBVIOUS
<1> HIDE DEF m, tx, z, f
<1>5. /\ Fed(l, SetQueue(l, tx, z, f)) /\ SetQueue(l, tx, z, f).tx = tx
      /\ SetQueue(l, tx, z, f).low = f
  BY ONLY <1>1, <1>3, SockSet
<1>6. Fed(k, m)
  BY <1>4, <1>5 DEF Fed
<1> QED BY <1>2, <1>4, <1>5, <1>6 DEF tx, f

\* A socket nothing was written to is fed with nothing.
LEMMA FedSame ==
  ASSUME NEW k \in SockT, Fits(k)
  PROVE  Fed(k, k)
BY DEF Fed

\* Feeding a socket twice is feeding it once with both.
LEMMA FedTwice ==
  ASSUME NEW k, NEW l, NEW m, Fed(k, l), Fed(l, m)
  PROVE  Fed(k, m)
BY DEF Fed

-----------------------------------------------------------------------------
(* desync().                                                               *)

\* The position of the parts in a chunk.
LEMMA PositionIs ==
  ASSUME parts \in Configs, parts # <<>>, NEW data \in Seq(Byte), data # <<>>
  PROVE  /\ Len(parts) \in {1, 2} /\ DOMAIN parts = 1..Len(parts)
         /\ Position(parts, data) \in Int
         /\ \A i \in 1..Len(parts) : gen_offset(parts[i], data) = Position(parts, data)
         /\ Position(parts, data) < 0 => parts[1].at = "sni"
         /\ parts[1].at = "sni" /\ data[1] # 1 => Position(parts, data) < 0
<1>1. parts \in Seq(Part) /\ Len(parts) <= 2
      /\ \A i \in DOMAIN parts : parts[i].pos = parts[1].pos /\ parts[i].at = parts[1].at
  BY SizesAssumption
<1>2. Len(parts) \in {1, 2} /\ DOMAIN parts = 1..Len(parts)
  <2> DEFINE n == Len(parts)
  <2>1. n \in Nat /\ DOMAIN parts = 1..n
    BY <1>1, LenProperties
  <2>2. n # 0
    BY <1>1, EmptySeq
  <2>3. n <= 2
    BY <1>1
  <2> HIDE DEF n
  <2>4. n \in {1, 2}
    BY ONLY <2>1, <2>2, <2>3
  <2> QED BY <2>1, <2>4 DEF n
<1>3. parts[1] \in Part
  BY <1>1, <1>2, ElementOfSeq
<1>4. parts[1].pos \in Nat /\ parts[1].at \in {"abs", "sni", "mid"}
  BY <1>3 DEF Part
<1> DEFINE l == Len(data)
           h == l \div 2
           p == parts[1].pos
           z == RequestSize
<1>5. l \in Nat /\ h \in Nat /\ p \in Nat /\ z \in Nat \ {0}
  BY <1>4, LenProperties, SizesAssumption
<1>6. Position(parts, data) = CASE parts[1].at = "abs" -> p
                                [] parts[1].at = "mid" -> p + h
                                [] OTHER -> IF data[1] = 1 /\ l >= z THEN p + z - 1 ELSE -1
  BY DEF Position, gen_offset
<1>7. \A i \in 1..Len(parts) : gen_offset(parts[i], data) = Position(parts, data)
  BY <1>1, <1>2 DEF Position, gen_offset
<1> HIDE DEF l, h, p, z
<1>8. CASE parts[1].at = "abs"
  <2>1. Position(parts, data) = p
    BY <1>6, <1>8
  <2> QED BY <1>2, <1>5, <1>7, <1>8, <2>1
<1>9. CASE parts[1].at = "mid"
  <2>1. Position(parts, data) = p + h
    BY <1>6, <1>9
  <2> QED BY <1>2, <1>5, <1>7, <1>9, <2>1
<1>10. CASE parts[1].at = "sni"
  <2>1. Position(parts, data) = IF data[1] = 1 /\ l >= z THEN p + z - 1 ELSE -1
    BY <1>6, <1>10
  <2> QED BY <1>2, <1>5, <1>7, <1>10, <2>1
<1> QED BY <1>4, <1>8, <1>9, <1>10

\* The state of the loop over the parts.
TurnT == [k : SockT, lp : Nat, part : Nat, st : {"go", "cancel", "back"}, wait : BOOLEAN,
          why : SUBSET LostUp]

\* The parts at position p are not skipped: p is found, and the bytes before
\* it were not sent in this round or from this chunk.
Live(p, off, skip) == p >= 0 /\ (off > 0 => off <= p) /\ (skip > 0 => skip <= p)

\* A turn that sends a part, from a to b.
Turned(a, b, i, data, off, ps, pos) ==
    /\ b \in TurnT /\ b.part = i /\ Fed(a.k, b.k)
    /\ a.lp <= b.lp /\ b.lp <= pos /\ a.why \subseteq b.why
    /\ b.st = "go" => b.lp = pos /\ b.k.low = FALSE /\ ~b.wait
    /\ b.st # "go" => /\ b.st = "back" /\ (b.wait => b.lp = pos)
                      /\ ~b.wait => "part_blocked" \in b.why /\ b.lp < pos
    /\ i = ps /\ b.st # "go" => b.wait /\ b.k.low = a.k.low
    /\ b.why = {} /\ (i = ps => off = 0 \/ pos <= a.lp) =>
         Moves(a.k.tx, a.lp, b.k.tx, b.lp, data)

\* The fields of a turn's state.
LEMMA TurnFields ==
  ASSUME NEW a \in TurnT
  PROVE  /\ a.k \in SockT /\ a.lp \in Nat /\ a.part \in Nat /\ a.st \in {"go", "cancel", "back"}
         /\ a.wait \in BOOLEAN /\ a.why \subseteq LostUp
         /\ a.k.tx \in Seq(Byte) /\ Len(a.k.tx) \in Nat
<1>1. a.k \in SockT /\ a.lp \in Nat /\ a.part \in Nat /\ a.st \in {"go", "cancel", "back"}
      /\ a.wait \in BOOLEAN /\ a.why \subseteq LostUp
  BY DEF TurnT
<1> QED BY <1>1, SockIs

\* A turn with a part that is not skipped.
LEMMA TurnIs ==
  ASSUME parts \in Configs, parts # <<>>, NEW i \in 1..Len(parts),
         NEW data \in Seq(Byte), data # <<>>, NEW off \in Nat, NEW skip \in Nat, NEW ps \in Nat,
         ps <= i, NEW notsent, NEW a \in TurnT, a.st = "go", ~a.wait, Fits(a.k),
         a.lp <= Len(data), a.lp <= Position(parts, data),
         Live(Position(parts, data), off, skip)
  PROVE  Turned(a, desync_part(a, i, data, off, skip, ps, notsent), i, data, off, ps,
                Min2(Position(parts, data), Len(data)))
<1> DEFINE p       == gen_offset(parts[i], data)
           pos     == Min2(p, Len(data))
           want    == SubSeq(data, a.lp + 1, pos)
           assumed == i = ps
           low     == parts[i].m \in {"DISORDER", "DISOOB"}
                      \/ (parts[i].m = "FAKE" /\ pos # a.lp)
           n       == IF assumed THEN pos - a.lp ELSE Accepts(a.k, pos - a.lp)
           k       == IF assumed THEN a.k
                      ELSE [Queue(a.k, Take(want, n)) EXCEPT !.low = @ \/ low]
           again   == assumed /\ off = 0 /\ pos > a.lp
           w       == a.why \cup IF again THEN {"part_again"} ELSE {}
           b       == [a EXCEPT !.k = k, !.part = i,
                                !.why = @ \cup IF again THEN {"part_again"} ELSE {}]
           t       == desync_part(a, i, data, off, skip, ps, notsent)
<1>1. p \in Int /\ p = Position(parts, data) /\ Len(parts) \in {1, 2}
  BY PositionIs
<1>2. a.k \in SockT /\ a.lp \in Nat /\ a.part \in Nat /\ a.why \subseteq LostUp /\ a.wait = FALSE
      /\ a.k.tx \in Seq(Byte) /\ Len(a.k.tx) \in Nat /\ Len(data) \in Nat
  BY TurnFields, LenProperties
<1>3. pos \in Nat /\ a.lp <= pos /\ pos <= Len(data) /\ p >= 0
  <2> DEFINE l == Len(data)
  <2>1. p \in Int /\ p >= 0 /\ a.lp <= p /\ a.lp <= l /\ l \in Nat /\ a.lp \in Nat
    BY <1>1, <1>2 DEF Live
  <2> HIDE DEF p, l
  <2>4. p \in Int /\ l \in Int
    BY <2>1
  <2>2. Min2(p, l) \in Int /\ Min2(p, l) <= l /\ Min2(p, l) \in {p, l}
    BY ONLY <2>4, Min2Is
  <2>3. Min2(p, l) \in Nat /\ a.lp <= Min2(p, l) /\ Min2(p, l) <= l
    BY <2>1, <2>2
  <2> QED BY <2>1, <2>3 DEF l
<1>4. t = IF n < pos - a.lp
            THEN [b EXCEPT !.st = "back", !.lp = a.lp + n, !.why = @ \cup {"part_blocked"}]
          ELSE IF notsent[i] /\ k.unsent > 0
            THEN [b EXCEPT !.st = "back", !.lp = pos, !.wait = TRUE]
          ELSE [b EXCEPT !.lp = pos, !.k = restore_state(k)]
  <2>1. ~(\/ a.st # "go" \/ i > Len(parts)
          \/ (skip > 0 /\ p < skip) \/ i < ps \/ (off > 0 /\ p < off))
    BY <1>1 DEF Live
  <2>2. ~(p < 0 \/ p < a.lp)
    BY <1>1, <1>2, <1>3
  <2> DEFINE A == \/ a.st # "go" \/ i > Len(parts)
                  \/ (skip > 0 /\ p < skip) \/ i < ps \/ (off > 0 /\ p < off)
             B == p < 0 \/ p < a.lp
             C == IF n < pos - a.lp
                    THEN [b EXCEPT !.st = "back", !.lp = a.lp + n, !.why = @ \cup {"part_blocked"}]
                  ELSE IF notsent[i] /\ k.unsent > 0
                    THEN [b EXCEPT !.st = "back", !.lp = pos, !.wait = TRUE]
                  ELSE [b EXCEPT !.lp = pos, !.k = restore_state(k)]
             D == send_part(a, i, pos, data, off, ps, notsent)
  <2>3. D = C
    BY ONLY Zenon DEF send_part
  <2>4. t = IF A THEN a ELSE IF B THEN [a EXCEPT !.st = "cancel"] ELSE D
    BY ONLY Zenon DEF desync_part
  <2>5. ~A /\ ~B
    BY <2>1, <2>2
  <2> HIDE DEF A, B, C, D
  <2>6. t = C
    BY <2>3, <2>4, <2>5
  <2> QED BY <2>6 DEF C
<1>5. w \subseteq LostUp /\ a.why \subseteq w
  BY <1>2 DEF LostUp
<1>6. n \in Nat /\ n <= pos - a.lp /\ Fed(a.k, k)
      /\ (assumed => n = pos - a.lp /\ k = a.k)
      /\ (~assumed => Moves(a.k.tx, a.lp, k.tx, a.lp + n, data))
  <2>1. CASE assumed
    <3>1. n = pos - a.lp /\ k = a.k
      BY <2>1
    <3> HIDE DEF n, k, pos
    <3> QED BY <1>2, <1>3, <2>1, <3>1, FedSame
  <2>2. CASE ~assumed
    <3> DEFINE x == Len(a.k.tx)
               y == pos - a.lp
               m == Take(want, n)
               q == a.lp + n
               l == Queue(a.k, m)
    <3>1. n = Min2(y, SndBuf - x) /\ SndBuf \in Nat /\ x \in Nat /\ x <= SndBuf /\ y \in Nat
      BY <1>2, <1>3, <2>2, SizesAssumption DEF Accepts, Fits
    <3>2. k = [l EXCEPT !.low = @ \/ low]
      BY <2>2
    <3> HIDE DEF n, x
    <3>3. n \in Nat /\ n <= y /\ n <= SndBuf - x
      <4> DEFINE g == SndBuf - x
      <4>1. y \in Nat /\ g \in Nat /\ n = Min2(y, g)
        BY <3>1
      <4> HIDE DEF y, g
      <4>2. Min2(y, g) \in Int /\ Min2(y, g) <= y /\ Min2(y, g) <= g /\ Min2(y, g) \in {y, g}
        BY ONLY <4>1, Min2Is
      <4> QED BY <4>1, <4>2 DEF g
    <3>4. want = Sub(data, a.lp, pos)
      BY DEF Sub
    <3>5. m = Sub(data, a.lp, q)
      <4> DEFINE lo == a.lp
                 hi == pos
      <4>1. lo \in Nat /\ hi \in Nat /\ lo <= hi /\ hi <= Len(data) /\ n <= hi - lo
        BY <1>2, <1>3, <3>3
      <4> HIDE DEF lo, hi
      <4>2. Take(Sub(data, lo, hi), n) = Sub(data, lo, lo + n)
        BY <3>3, <4>1, SubTake
      <4> QED BY <3>4, <4>2 DEF lo, hi
    <3> HIDE DEF m
    <3>6. Fed(a.k, l) /\ Moves(a.k.tx, a.lp, l.tx, q, data)
      <4> DEFINE lo == a.lp
                 kk == a.k
      <4>1. kk \in SockT /\ Fits(kk) /\ lo \in Nat /\ q \in Nat /\ lo <= q /\ q <= Len(data)
            /\ q - lo <= SndBuf - Len(kk.tx)
        BY <1>2, <1>3, <3>3 DEF x
      <4> HIDE DEF lo, kk, q
      <4>2. /\ Fed(kk, Queue(kk, Sub(data, lo, q)))
            /\ Moves(kk.tx, lo, Queue(kk, Sub(data, lo, q)).tx, q, data)
        BY ONLY data \in Seq(Byte), <4>1, QueueIs
      <4> QED BY <3>5, <4>2 DEF lo, kk
    <3> HIDE DEF l, y, q
    <3>7. low \in BOOLEAN
      OBVIOUS
    <3> HIDE DEF low
    <3>8. Fed(a.k, [l EXCEPT !.low = @ \/ low]) /\ [l EXCEPT !.low = @ \/ low].tx = l.tx
      BY <1>2, <3>6, <3>7, FedLow
    <3> HIDE DEF k
    <3>9. Fed(a.k, k) /\ Moves(a.k.tx, a.lp, k.tx, q, data)
      BY <3>2, <3>6, <3>8
    <3> QED BY <2>2, <3>3, <3>9 DEF q, y
  <2> QED BY <2>1, <2>2
<1>7. b \in TurnT /\ b.k = k /\ b.part = i /\ b.why = w /\ b.st = "go" /\ b.lp = a.lp /\ b.wait = FALSE
  <2>1. k \in SockT /\ i \in Nat
    BY <1>1, <1>6 DEF Fed
  <2>2. b = [a EXCEPT !.k = k, !.part = i, !.why = w]
    BY DEF TurnT
  <2> HIDE DEF k, w, b
  <2> QED BY <1>2, <1>5, <2>1, <2>2 DEF TurnT
<1>8. again => "part_again" \in w
  OBVIOUS
<1>9. ~again /\ (assumed => off = 0 \/ pos <= a.lp) /\ assumed => pos = a.lp
  <2> HIDE DEF pos
  <2> QED BY <1>2, <1>3
<1> DEFINE fine == assumed => off = 0 \/ pos <= a.lp
<1>10. w = {} /\ fine /\ n = pos - a.lp => Moves(a.k.tx, a.lp, k.tx, pos, data)
  <2> SUFFICES ASSUME w = {}, fine, n = pos - a.lp
               PROVE  Moves(a.k.tx, a.lp, k.tx, pos, data)
    OBVIOUS
  <2>1. CASE assumed
    <3>1. pos = a.lp /\ k = a.k
      BY <1>6, <1>8, <1>9, <2>1
    <3> HIDE DEF pos, k
    <3> QED BY <3>1, MovesNone
  <2>2. CASE ~assumed
    <3> HIDE DEF n, k, pos, assumed
    <3>1. a.lp + n = pos
      BY <1>2, <1>3
    <3>2. Moves(a.k.tx, a.lp, k.tx, a.lp + n, data)
      BY <1>6, <2>2
    <3> QED BY <3>1, <3>2
  <2> QED BY <2>1, <2>2
<1>11. Min2(Position(parts, data), Len(data)) = pos
  BY <1>1
<1> HIDE DEF p, pos, want, low, n, k, again, w, b, t
<1>12. Turned(a, t, i, data, off, ps, pos)
  <2>1. CASE n < pos - a.lp
    <3> DEFINE q == a.lp + n
               v == w \cup {"part_blocked"}
    <3>1. q \in Nat /\ a.lp <= q /\ q < pos /\ v \subseteq LostUp /\ a.why \subseteq v /\ ~assumed
          /\ "part_blocked" \in v
      BY <1>2, <1>3, <1>5, <1>6, <2>1 DEF LostUp
    <3>2. t = [b EXCEPT !.st = "back", !.lp = q, !.why = v]
      BY <1>4, <1>7, <2>1
    <3> HIDE DEF q, v
    <3>3. t \in TurnT /\ t.k = k /\ t.part = i /\ t.why = v /\ t.st = "back" /\ t.lp = q /\ t.wait = FALSE
      BY <1>7, <3>1, <3>2 DEF TurnT
    <3>4. t.lp <= pos /\ a.lp <= t.lp
      BY <1>3, <3>1, <3>3
    <3> QED BY <1>6, <3>1, <3>3, <3>4 DEF Turned
  <2>2. CASE n = pos - a.lp /\ notsent[i] /\ k.unsent > 0
    <3>1. t = [b EXCEPT !.st = "back", !.lp = pos, !.wait = TRUE]
      BY <1>2, <1>3, <1>4, <1>6, <2>2
    <3>2. t \in TurnT /\ t.k = k /\ t.part = i /\ t.why = w /\ t.st = "back" /\ t.lp = pos /\ t.wait = TRUE
      BY <1>3, <1>7, <3>1 DEF TurnT
    <3>3. t.lp <= pos /\ a.lp <= t.lp
      BY <1>3, <3>2
    <3>4. i = ps => t.k.low = a.k.low
      BY <1>6, <3>2
    <3>5. t.why = {} /\ (i = ps => off = 0 \/ pos <= a.lp) => Moves(a.k.tx, a.lp, t.k.tx, t.lp, data)
      BY <1>10, <2>2, <3>2
    <3> HIDE DEF assumed, fine
    <3> QED BY <1>5, <1>6, <3>2, <3>3, <3>4, <3>5 DEF Turned
  <2>3. CASE n = pos - a.lp /\ ~(notsent[i] /\ k.unsent > 0)
    <3> DEFINE l == restore_state(k)
    <3>1. t = [b EXCEPT !.lp = pos, !.k = l]
      BY <1>2, <1>3, <1>4, <1>6, <2>3
    <3>2. Fed(a.k, l) /\ l.tx = k.tx /\ l.low = FALSE
      BY <1>2, <1>6, FedRestore
    <3> HIDE DEF l
    <3>3. l \in SockT
      BY <3>2 DEF Fed
    <3>4. t \in TurnT /\ t.k = l /\ t.part = i /\ t.why = w /\ t.st = "go" /\ t.lp = pos /\ t.wait = FALSE
      BY <1>3, <1>7, <3>1, <3>3 DEF TurnT
    <3>5. t.lp <= pos /\ a.lp <= t.lp
      BY <1>3, <3>4
    <3>6. t.why = {} /\ (i = ps => off = 0 \/ pos <= a.lp) => Moves(a.k.tx, a.lp, t.k.tx, t.lp, data)
      BY <1>10, <2>3, <3>2, <3>4
    <3> HIDE DEF assumed, fine
    <3> QED BY <1>5, <3>2, <3>4, <3>5, <3>6 DEF Turned
  <2>4. n < pos - a.lp \/ n = pos - a.lp
    BY <1>2, <1>3, <1>6
  <2> QED BY <2>1, <2>2, <2>3, <2>4
<1> QED BY <1>11, <1>12 DEF t

\* The guards of a turn.
Skips(a, i, p, off, skip, ps) ==
    \/ a.st # "go" \/ i > Len(parts)
    \/ (skip > 0 /\ p < skip) \/ i < ps \/ (off > 0 /\ p < off)

Cancelled(a) == [a EXCEPT !.st = "cancel"]

\* A turn of desync()'s loop skips its part, cancels, or sends.
LEMMA TurnForm ==
  ASSUME NEW i, NEW data, NEW off, NEW skip, NEW ps, NEW notsent, NEW a
  PROVE  \E x : desync_part(a, i, data, off, skip, ps, notsent) =
                  IF Skips(a, i, gen_offset(parts[i], data), off, skip, ps) THEN a
                  ELSE IF gen_offset(parts[i], data) < 0 \/ gen_offset(parts[i], data) < a.lp
                    THEN Cancelled(a)
                  ELSE x
<1> DEFINE p       == gen_offset(parts[i], data)
           A == \/ a.st # "go" \/ i > Len(parts)
                \/ (skip > 0 /\ p < skip) \/ i < ps \/ (off > 0 /\ p < off)
           C == send_part(a, i, Min2(p, Len(data)), data, off, ps, notsent)
           t == desync_part(a, i, data, off, skip, ps, notsent)
<1>1. t = IF A THEN a ELSE IF p < 0 \/ p < a.lp THEN [a EXCEPT !.st = "cancel"] ELSE C
  BY ONLY Zenon DEF desync_part
<1> DEFINE u == [a EXCEPT !.st = "cancel"]
<1>5. u = Cancelled(a)
  BY ONLY Zenon DEF Cancelled
<1>2. A <=> Skips(a, i, p, off, skip, ps)
  BY ONLY Zenon DEF Skips
<1> HIDE DEF p, C, t, A, u
<1>3. t = IF Skips(a, i, p, off, skip, ps) THEN a
          ELSE IF p < 0 \/ p < a.lp THEN Cancelled(a) ELSE C
  BY ONLY <1>1, <1>2, <1>5 DEF u
<1>4. \E x : t = IF Skips(a, i, p, off, skip, ps) THEN a
                 ELSE IF p < 0 \/ p < a.lp THEN Cancelled(a) ELSE x
  BY ONLY <1>3, Zenon
<1> QED BY ONLY <1>4, Zenon DEF p, t

\* A turn that is skipped, or that finds the loop ended, changes nothing.
LEMMA TurnSkips ==
  ASSUME NEW i, NEW data, NEW off, NEW skip, NEW ps, NEW notsent, NEW a,
         Skips(a, i, gen_offset(parts[i], data), off, skip, ps)
  PROVE  desync_part(a, i, data, off, skip, ps, notsent) = a
BY TurnForm, Zenon

\* A part without a position ends the loop.
LEMMA TurnCancels ==
  ASSUME NEW i, NEW data, NEW off, NEW skip, NEW ps, NEW notsent, NEW a,
         ~Skips(a, i, gen_offset(parts[i], data), off, skip, ps),
         gen_offset(parts[i], data) < 0
  PROVE  desync_part(a, i, data, off, skip, ps, notsent) = [a EXCEPT !.st = "cancel"]
<1> DEFINE p == gen_offset(parts[i], data)
           t == desync_part(a, i, data, off, skip, ps, notsent)
           u == Cancelled(a)
<1>1. PICK x : t = IF Skips(a, i, p, off, skip, ps) THEN a ELSE IF p < 0 \/ p < a.lp THEN u ELSE x
  BY ONLY TurnForm, Zenon
<1>2. ~Skips(a, i, p, off, skip, ps) /\ (p < 0 \/ p < a.lp)
  OBVIOUS
<1> HIDE DEF p, t, u
<1>3. t = u
  BY ONLY <1>1, <1>2, Zenon
<1> QED BY <1>3 DEF t, u, Cancelled

\* The loop over the parts, from its start to its end.
Start(k, off, ps) ==
    [k |-> k, lp |-> off, part |-> ps, st |-> "go", wait |-> FALSE, why |-> {}]
OneTurn(k, data, off, skip, ps, notsent) ==
    desync_part(Start(k, off, ps), 1, data, off, skip, ps, notsent)
TwoTurns(k, data, off, skip, ps, notsent) ==
    desync_part(OneTurn(k, data, off, skip, ps, notsent), 2, data, off, skip, ps, notsent)

\* All parts are skipped.
Idle(b, k, off, ps) ==
    /\ b \in TurnT /\ b.k = k /\ b.lp = off /\ b.part = ps /\ b.wait = FALSE /\ b.why = {}
    /\ b.st # "back"

\* Before the first turn of desync()'s loop nothing has moved.
LEMMA StartIs ==
  ASSUME NEW k \in SockT, NEW off \in Nat, NEW ps \in Nat
  PROVE  Idle(Start(k, off, ps), k, off, ps) /\ Start(k, off, ps).st = "go"
BY DEF Start, TurnT, Idle

\* A turn whose part does not reach past what is sent moves nothing.
LEMMA IdleTurn ==
  ASSUME parts \in Configs, NEW i \in {1, 2}, NEW data \in Seq(Byte), data # <<>>,
         NEW off \in Nat, NEW skip \in Nat, NEW ps \in Nat, NEW notsent,
         NEW k, NEW a, Idle(a, k, off, ps),
         parts = <<>> \/ ~Live(Position(parts, data), off, skip)
  PROVE  Idle(desync_part(a, i, data, off, skip, ps, notsent), k, off, ps)
<1> DEFINE p == gen_offset(parts[i], data)
           t == desync_part(a, i, data, off, skip, ps, notsent)
           A == Skips(a, i, p, off, skip, ps)
<1>1. CASE A
  <2>1. t = a
    BY <1>1, TurnSkips
  <2> QED BY <2>1
<1>2. CASE ~A
  <2>0. ~(i > Len(parts))
    BY <1>2 DEF Skips
  <2>1. parts # <<>>
    BY <2>0
  <2>2. i \in 1..Len(parts) /\ p = Position(parts, data) /\ p \in Int
    BY <2>0, <2>1, PositionIs
  <2>3. p < 0
    <3> HIDE DEF p
    <3> QED BY <1>2, <2>1, <2>2 DEF Live, Skips
  <2>4. t = [a EXCEPT !.st = "cancel"]
    BY <1>2, <2>3, TurnCancels
  <2>5. a \in TurnT
    BY DEF Idle
  <2> HIDE DEF t
  <2>6. t \in TurnT /\ t.k = a.k /\ t.lp = a.lp /\ t.part = a.part /\ t.st = "cancel"
        /\ t.wait = a.wait /\ t.why = a.why
    BY <2>4, <2>5 DEF TurnT
  <2>7. Idle(t, k, off, ps)
    BY <2>6 DEF Idle
  <2> QED BY <2>7 DEF t
<1> QED BY <1>1, <1>2

\* Where the parts do not reach past what is sent, both turns move nothing.
LEMMA PartsIdle ==
  ASSUME parts \in Configs, NEW data \in Seq(Byte), data # <<>>, NEW k \in SockT,
         NEW off \in Nat, NEW skip \in Nat, NEW ps \in Nat, NEW notsent,
         parts = <<>> \/ ~Live(Position(parts, data), off, skip)
  PROVE  Idle(TwoTurns(k, data, off, skip, ps, notsent), k, off, ps)
<1> DEFINE a == Start(k, off, ps)
           b == OneTurn(k, data, off, skip, ps, notsent)
<1>1. Idle(a, k, off, ps)
  BY StartIs
<1> HIDE DEF a
<1>2. b = desync_part(a, 1, data, off, skip, ps, notsent)
  BY DEF OneTurn, a
<1> HIDE DEF b
<1>3. Idle(b, k, off, ps)
  BY <1>1, <1>2, IdleTurn
<1>4. TwoTurns(k, data, off, skip, ps, notsent) = desync_part(b, 2, data, off, skip, ps, notsent)
  BY DEF TwoTurns, b
<1> QED BY <1>3, <1>4, IdleTurn

\* The parts are sent, or the loop ends at one of them.
Split(b, k, data, off, ps, n, pos) ==
    /\ b \in TurnT /\ b.part \in 1..n /\ Fed(k, b.k) /\ off <= b.lp /\ b.lp <= pos
    /\ b.st = "go" => b.lp = pos /\ b.k.low = FALSE /\ ~b.wait /\ b.part = n
    /\ b.st # "go" => /\ b.st = "back" /\ (b.wait => b.lp = pos)
                      /\ ~b.wait => "part_blocked" \in b.why /\ b.lp < pos
    /\ ps = n /\ b.st # "go" => b.wait /\ b.k.low = k.low /\ b.part = n
    /\ b.why = {} /\ (ps > 0 => off = 0 \/ pos <= off) =>
         Moves(k.tx, off, b.k.tx, b.lp, data)

\* Where the parts lie ahead, the two turns leave the chunk split at their position.
LEMMA PartsLive ==
  ASSUME parts \in Configs, parts # <<>>, NEW data \in Seq(Byte), data # <<>>,
         NEW k \in SockT, Fits(k), NEW off \in Nat, off <= Len(data), NEW skip \in Nat,
         NEW ps \in Nat, ps <= Len(parts), NEW notsent,
         Live(Position(parts, data), off, skip)
  PROVE  Split(TwoTurns(k, data, off, skip, ps, notsent), k, data, off, ps, Len(parts),
               Min2(Position(parts, data), Len(data)))
<1> DEFINE p == Position(parts, data)
           pos == Min2(p, Len(data))
           n == Len(parts)
           a == Start(k, off, ps)
           b == OneTurn(k, data, off, skip, ps, notsent)
           t == TwoTurns(k, data, off, skip, ps, notsent)
           one == 1
           two == 2
<1>1. p \in Int /\ n \in {1, 2}
  BY PositionIs
<1>2. off <= p /\ p >= 0
  BY <1>1 DEF Live
<1>3. pos \in Nat /\ pos <= p /\ pos <= Len(data) /\ off <= pos
  <2> DEFINE l == Len(data)
  <2>1. l \in Int /\ l \in Nat /\ off <= l
    BY LenProperties
  <2> HIDE DEF p, l
  <2>2. Min2(p, l) \in Int /\ Min2(p, l) <= p /\ Min2(p, l) <= l /\ Min2(p, l) \in {p, l}
    BY ONLY <1>1, <2>1, Min2Is
  <2> QED BY <1>2, <2>1, <2>2 DEF l
<1>4. a \in TurnT /\ a.k = k /\ a.lp = off /\ a.part = ps /\ a.st = "go" /\ a.wait = FALSE /\ a.why = {}
  <2>1. Idle(a, k, off, ps) /\ a.st = "go"
    BY StartIs
  <2> HIDE DEF a
  <2> QED BY <2>1 DEF Idle
<1>5. b = desync_part(a, one, data, off, skip, ps, notsent)
  BY DEF OneTurn
<1>6. t = desync_part(b, two, data, off, skip, ps, notsent)
  BY DEF TwoTurns
<1>7. one \in 1..n /\ (n = 2 => two \in 1..n) /\ (n = 1 => two > n)
  <2> HIDE DEF n
  <2> QED BY <1>1
<1> HIDE DEF a, b, t
<1>8. CASE ps <= 1
  <2>1. ps <= one /\ one \in 1..n
    BY <1>7, <1>8
  <2> HIDE DEF one
  <2>2. Fits(a.k) /\ a.lp <= Len(data) /\ a.lp <= p /\ ~a.wait
    BY <1>2, <1>4
  <2>3. Turned(a, desync_part(a, one, data, off, skip, ps, notsent), one, data, off, ps, pos)
    BY <1>4, <2>1, <2>2, TurnIs
  <2>4. Turned(a, b, one, data, off, ps, pos)
    BY <1>5, <2>3
  <2> HIDE DEF p, pos, n
  <2>5. CASE n = 2 /\ b.st = "go"
    <3>1. /\ b \in TurnT /\ b.part = one /\ Fed(k, b.k) /\ b.lp = pos /\ ~b.wait
          /\ b.why = {} /\ (one = ps => off = 0 \/ pos <= off) => Moves(k.tx, off, b.k.tx, pos, data)
      BY <1>4, <2>4, <2>5 DEF Turned
    <3>2. Fits(b.k) /\ b.lp <= Len(data) /\ b.lp <= p
      BY <1>3, <3>1 DEF Fed
    <3>3. ps <= two /\ two \in 1..n
      BY <1>7, <1>8, <2>5
    <3> HIDE DEF two
    <3>4. Turned(b, desync_part(b, two, data, off, skip, ps, notsent), two, data, off, ps, pos)
      BY <2>5, <3>1, <3>2, <3>3, TurnIs DEF p, pos, n
    <3>5. Turned(b, t, two, data, off, ps, pos)
      BY <1>6, <3>4
    <3>6. two # ps /\ two = n /\ ps # n
      BY <1>8, <2>5 DEF two
    <3>7. t.why = {} => b.why = {}
      BY <3>5 DEF Turned
    <3>8. t.why = {} => Moves(b.k.tx, pos, t.k.tx, t.lp, data)
      BY <3>1, <3>5, <3>6 DEF Turned
    <3>9. t.why = {} /\ (ps > 0 => off = 0 \/ pos <= off) => Moves(k.tx, off, t.k.tx, t.lp, data)
      <4> SUFFICES ASSUME t.why = {}, ps > 0 => off = 0 \/ pos <= off
                   PROVE  Moves(k.tx, off, t.k.tx, t.lp, data)
        OBVIOUS
      <4>1. Moves(k.tx, off, b.k.tx, pos, data)
        BY <3>1, <3>7 DEF one
      <4>2. Moves(b.k.tx, pos, t.k.tx, t.lp, data)
        BY <3>8
      <4> QED BY <4>1, <4>2, MovesTwice
    <3>10. Fed(k, t.k)
      BY <3>1, <3>5, FedTwice DEF Turned
    <3>11. t \in TurnT /\ t.part = two /\ t.lp = pos
      <4>1. t \in TurnT /\ t.part = two /\ b.lp <= t.lp /\ t.lp <= pos
        BY <3>5 DEF Turned
      <4>2. t.lp \in Nat
        BY <4>1, TurnFields
      <4> QED BY <1>3, <3>1, <4>1, <4>2
    <3>12. off <= t.lp /\ t.lp <= pos /\ t.part \in 1..n
      BY <1>3, <3>3, <3>11
    <3>13. (t.st = "go" => t.k.low = FALSE /\ ~t.wait)
           /\ (t.st # "go" => t.st = "back" /\ (~t.wait => "part_blocked" \in t.why /\ t.lp < pos))
      BY <3>5 DEF Turned
    <3>14. Split(t, k, data, off, ps, n, pos)
      BY <3>6, <3>9, <3>10, <3>11, <3>12, <3>13 DEF Split
    <3> QED BY <3>14 DEF p, pos, n, t
  <2>6. CASE ~(n = 2 /\ b.st = "go")
    <3>1. t = b
      <4>1. Skips(b, two, gen_offset(parts[two], data), off, skip, ps)
        BY <1>1, <1>7, <2>6 DEF n, Skips
      <4> QED BY <1>6, <4>1, TurnSkips
    <3>2. /\ b \in TurnT /\ b.part = one /\ Fed(k, b.k) /\ off <= b.lp /\ b.lp <= pos
          /\ b.st = "go" => b.lp = pos /\ b.k.low = FALSE /\ ~b.wait
          /\ b.st # "go" => /\ b.st = "back" /\ (b.wait => b.lp = pos)
                            /\ ~b.wait => "part_blocked" \in b.why /\ b.lp < pos
          /\ one = ps /\ b.st # "go" => b.wait /\ b.k.low = k.low
          /\ b.why = {} /\ (one = ps => off = 0 \/ pos <= off) =>
               Moves(k.tx, off, b.k.tx, b.lp, data)
      BY <1>4, <2>4 DEF Turned
    <3>3. one \in 1..n /\ (b.st = "go" => one = n) /\ (ps = n => one = ps /\ one = n)
      BY <1>1, <1>7, <1>8, <2>6 DEF one, n
    <3>4. b.why = {} /\ (ps > 0 => off = 0 \/ pos <= off) => Moves(k.tx, off, b.k.tx, b.lp, data)
      BY <3>2 DEF one
    <3>5. Split(b, k, data, off, ps, n, pos)
      BY <3>2, <3>3, <3>4 DEF Split
    <3> QED BY <3>1, <3>5 DEF p, pos, n, t
  <2> QED BY <2>5, <2>6
<1>9. CASE ps > 1
  <2>1. ps = 2 /\ n = 2 /\ two = ps /\ two \in 1..n /\ ps <= two
    <3>1. ps <= n
      OBVIOUS
    <3> HIDE DEF n
    <3> QED BY <1>1, <1>9, <3>1
  <2>2. b = a
    <3>1. Skips(a, one, gen_offset(parts[one], data), off, skip, ps)
      BY <2>1 DEF Skips
    <3> QED BY <1>5, <3>1, TurnSkips
  <2>3. Fits(a.k) /\ a.lp <= Len(data) /\ a.lp <= p /\ ~a.wait
    BY <1>2, <1>4
  <2> HIDE DEF two
  <2>4. Turned(a, desync_part(a, two, data, off, skip, ps, notsent), two, data, off, ps, pos)
    BY <1>4, <2>1, <2>3, TurnIs
  <2>5. Turned(a, t, two, data, off, ps, pos)
    BY <1>6, <2>2, <2>4
  <2> HIDE DEF p, pos, n
  <2>6. Split(t, k, data, off, ps, n, pos)
    BY <1>4, <2>1, <2>5 DEF Turned, Split
  <2> QED BY <2>6 DEF p, pos, n, t
<1> QED BY <1>8, <1>9

\* The rest of the chunk, after the parts.
RestSent(a, r, data) ==
    /\ r \in TurnT /\ r.part = a.part /\ r.wait = a.wait /\ r.lp \in {a.lp, Len(data)}
    /\ Fed(a.k, r.k) /\ r.k.low = a.k.low /\ a.why \subseteq r.why
    /\ r.why = {} => Moves(a.k.tx, a.lp, r.k.tx, r.lp, data)
    /\ a.st = "back" => r = a

\* What desync() does after its loop: the rest of the chunk goes out unchanged.
LEMMA RestIs ==
  ASSUME NEW data \in Seq(Byte), NEW k, NEW off, NEW skip, NEW ps, NEW notsent,
         NEW a \in TurnT, a = TwoTurns(k, data, off, skip, ps, notsent), Fits(a.k),
         a.lp <= Len(data)
  PROVE  RestSent(a, desync(k, data, off, skip, ps, notsent), data)
<1> DEFINE y == Len(data) - a.lp
           m == Accepts(a.k, y)
           d == Take(Drop(data, a.lp), m)
           l == Queue(a.k, d)
           v == a.why \cup IF m < y THEN {"short_tail"} ELSE {}
           r == desync(k, data, off, skip, ps, notsent)
<1>1. a.k \in SockT /\ a.lp \in Nat /\ a.why \subseteq LostUp /\ Len(a.k.tx) \in Nat
      /\ Len(data) \in Nat /\ SndBuf \in Nat
  BY TurnFields, LenProperties, SizesAssumption
<1>2. r = IF a.st = "back" \/ a.lp = Len(data) \/ m = 0 THEN a
          ELSE [a EXCEPT !.lp = Len(data), !.k = l, !.why = v]
  <2>1. r = IF a.st = "back" \/ a.lp = Len(data) \/ m = 0 THEN a
            ELSE [a EXCEPT !.lp = Len(data), !.k = Queue(@, Take(Drop(data, a.lp), m)),
                           !.why = @ \cup IF m < Len(data) - a.lp THEN {"short_tail"} ELSE {}]
    BY ONLY a = TwoTurns(k, data, off, skip, ps, notsent), Zenon
       DEF desync, TwoTurns, OneTurn, Start
  <2> HIDE DEF r, m
  <2> QED BY <2>1 DEF TurnT
<1>3. CASE a.st = "back" \/ a.lp = Len(data) \/ m = 0
  <2>1. r = a
    BY <1>2, <1>3
  <2> HIDE DEF r
  <2>2. Fed(a.k, a.k) /\ Moves(a.k.tx, a.lp, a.k.tx, a.lp, data)
    BY <1>1, FedSame, MovesNone
  <2>3. RestSent(a, r, data)
    BY <2>1, <2>2 DEF RestSent
  <2> QED BY <2>3 DEF r
<1>4. CASE ~(a.st = "back" \/ a.lp = Len(data) \/ m = 0)
  <2>1. r = [a EXCEPT !.lp = Len(data), !.k = l, !.why = v]
    BY <1>2, <1>4
  <2> DEFINE z == Len(data)
             q == a.lp + m
             lo == a.lp
             kk == a.k
             x == Len(kk.tx)
  <2>2. y \in Nat /\ x \in Nat /\ x <= SndBuf /\ m = Min2(y, SndBuf - x) /\ lo \in Nat /\ lo <= z
        /\ z \in Nat /\ y = z - lo /\ kk \in SockT
    BY <1>1 DEF Accepts, Fits
  <2>3. m \in Nat /\ m <= y /\ m <= SndBuf - x
    <3> DEFINE g == SndBuf - x
    <3>1. y \in Nat /\ g \in Nat /\ m = Min2(y, g)
      BY <1>1, <2>2
    <3> HIDE DEF y, g, m
    <3>2. Min2(y, g) \in Int /\ Min2(y, g) <= y /\ Min2(y, g) <= g /\ Min2(y, g) \in {y, g}
      BY ONLY <3>1, Min2Is
    <3> QED BY <3>1, <3>2 DEF g
  <2> HIDE DEF m, y
  <2>4. q \in Nat /\ lo <= q /\ q <= z /\ q - lo <= SndBuf - x /\ (m = y => q = z) /\ m <= z - lo
        /\ z <= Len(data)
    BY <1>1, <2>2, <2>3
  <2>5. d = Sub(data, lo, q)
    <3>1. Drop(data, lo) = Sub(data, lo, z)
      BY <2>2, TakeDrop
    <3> HIDE DEF z, lo
    <3>2. Take(Sub(data, lo, z), m) = Sub(data, lo, lo + m)
      BY <2>2, <2>3, <2>4, SubTake
    <3> QED BY <3>1, <3>2 DEF lo
  <2> HIDE DEF d
  <2>6. Fed(kk, l) /\ l.low = kk.low /\ Moves(kk.tx, lo, l.tx, q, data)
    <3>1. Fits(kk) /\ q <= Len(data) /\ q - lo <= SndBuf - Len(kk.tx)
      BY <2>4
    <3> HIDE DEF kk, lo, q
    <3>2. /\ Fed(kk, Queue(kk, Sub(data, lo, q))) /\ Queue(kk, Sub(data, lo, q)).low = kk.low
          /\ Moves(kk.tx, lo, Queue(kk, Sub(data, lo, q)).tx, q, data)
      BY ONLY data \in Seq(Byte), <2>2, <2>4, <3>1, QueueIs
    <3> QED BY <2>5, <3>2 DEF kk
  <2>7. v \subseteq LostUp /\ a.why \subseteq v /\ (v = {} => m = y)
    <3>1. v = {} => ~(m < y)
      OBVIOUS
    <3> QED BY <1>1, <2>2, <2>3, <3>1 DEF LostUp
  <2> HIDE DEF l, v, r
  <2>8. r \in TurnT /\ r.k = l /\ r.lp = z /\ r.part = a.part /\ r.wait = a.wait /\ r.why = v
    <3>1. l \in SockT
      BY <2>6 DEF Fed
    <3> HIDE DEF z
    <3> QED BY <2>1, <2>2, <2>7, <3>1 DEF TurnT, z
  <2>9. r.why = {} => Moves(a.k.tx, a.lp, r.k.tx, r.lp, data)
    BY <2>4, <2>6, <2>7, <2>8
  <2>10. RestSent(a, r, data)
    BY <1>4, <2>6, <2>7, <2>8, <2>9 DEF RestSent
  <2> QED BY <2>10 DEF r
<1> QED BY <1>3, <1>4

\* What holds of the parts while a chunk of the first round is held at off.
PartsAt(pp, low, rs, ps, data, off) ==
    /\ ps <= Len(pp)
    /\ low => pp # <<>> /\ Position(pp, data) >= 0 /\ rs <= off /\ off <= Position(pp, data)
    /\ pp # <<>> =>
         \/ Position(pp, data) < 0
         \/ off <= Position(pp, data) /\ (ps = Len(pp) \/ rs <= off)
DoneAt(pp, rs, ps, data, off) ==
    ps > 0 =>
      \/ Position(pp, data) < 0 \/ Min2(Position(pp, data), Len(data)) <= off
      \/ Position(pp, data) < rs

\* A send of the chunk from off on, with its outcome r.
Stepped(pp, k, data, off, rs, ps, r) ==
    /\ Fed(k, r.k) /\ r.lp \in Nat /\ off <= r.lp /\ r.lp <= Len(data)
    /\ r.part \in Nat /\ r.part <= Len(pp) /\ r.wait \in BOOLEAN /\ r.why \subseteq LostUp
    /\ r.lp < Len(data) \/ r.wait =>
         /\ PartsAt(pp, r.k.low, rs + r.lp - off, r.part, data, r.lp)
         /\ r.why = {} => DoneAt(pp, rs + r.lp - off, r.part, data, r.lp)
    /\ ~(r.lp < Len(data) \/ r.wait) =>
         r.k.low = FALSE /\ (r.part = Len(pp) \/ pp[1].at = "sni")
    /\ r.why = {} /\ (off = 0 \/ DoneAt(pp, rs, ps, data, off)) =>
         Moves(k.tx, off, r.k.tx, r.lp, data)

\* desync(), of a chunk whose parts are as PartsAt() says.
LEMMA DesyncIs ==
  ASSUME parts \in Configs, NEW data \in Seq(Byte), data # <<>>, NEW k \in SockT, Fits(k),
         NEW off \in Nat, off <= Len(data), NEW rs \in Nat, NEW ps \in Nat, NEW notsent,
         PartsAt(parts, k.low, rs, ps, data, off)
  PROVE  Stepped(parts, k, data, off, rs, ps, desync(k, data, off, rs, ps, notsent))
<1> DEFINE p == Position(parts, data)
           z == Len(data)
           n == Len(parts)
           pos == Min2(p, z)
           a == TwoTurns(k, data, off, rs, ps, notsent)
           r == desync(k, data, off, rs, ps, notsent)
           u == rs + r.lp - off
<1>0. z \in Nat /\ k.low \in BOOLEAN /\ parts \in Seq(Part) /\ n \in Nat
  BY LenProperties, SockIs, SizesAssumption
<1>1. ps <= n
  BY DEF PartsAt
<1>2. CASE parts = <<>> \/ ~Live(p, off, rs)
  <2>1. Idle(a, k, off, ps)
    BY <1>2, PartsIdle
  <2>2. a \in TurnT /\ a.k = k /\ a.lp = off /\ a.part = ps /\ a.wait = FALSE /\ a.why = {}
    BY <2>1 DEF Idle
  <2>3. Fits(a.k) /\ a.lp <= Len(data)
    BY <2>2
  <2>4. RestSent(a, r, data)
    BY <2>2, <2>3, RestIs
  <2> HIDE DEF a, r, p, z, n
  <2>5. /\ r \in TurnT /\ r.part = ps /\ r.wait = FALSE /\ r.lp \in {off, z} /\ Fed(k, r.k)
        /\ r.k.low = k.low /\ (r.why = {} => Moves(k.tx, off, r.k.tx, r.lp, data))
    BY <2>2, <2>4 DEF RestSent, z
  <2>6. r.lp \in Nat /\ r.why \subseteq LostUp
    BY <2>5, TurnFields
  <2>7. k.low = FALSE
    <3>1. k.low => parts # <<>> /\ p >= 0 /\ rs <= off /\ off <= p
      BY DEF PartsAt, p
    <3>2. parts # <<>> => p \in Int
      BY PositionIs DEF p
    <3> QED BY <1>0, <1>2, <3>1, <3>2 DEF Live
  <2>8. parts # <<>> /\ p >= 0 => ps = n /\ off <= p /\ p < rs
    <3> SUFFICES ASSUME parts # <<>>, p >= 0 PROVE ps = n /\ off <= p /\ p < rs
      OBVIOUS
    <3>1. p \in Int
      BY PositionIs DEF p
    <3>2. off <= p /\ (ps = n \/ rs <= off)
      BY <3>1 DEF PartsAt, p, n
    <3> QED BY <1>2, <3>1, <3>2 DEF Live
  <2>9. parts # <<>> => p \in Int
    BY PositionIs DEF p
  <2>10. r.lp < z => r.lp = off /\ u = rs
    BY <1>0, <2>5
  <2>11. r.lp < z => PartsAt(parts, r.k.low, u, r.part, data, r.lp)
    <3> HIDE DEF u
    <3> QED BY <1>1, <2>5, <2>7, <2>8, <2>9, <2>10 DEF PartsAt, p, n
  <2>12. r.lp < z => DoneAt(parts, u, r.part, data, r.lp)
    <3> SUFFICES ASSUME r.lp < z, ps > 0 PROVE p < 0 \/ p < rs
      BY <2>5, <2>10 DEF DoneAt, p
    <3>1. parts # <<>>
      BY <1>1 DEF n
    <3> QED BY <2>8, <2>9, <3>1
  <2>13. ps = n \/ parts[1].at = "sni"
    <3>1. CASE parts = <<>>
      <4>1. n = 0
        BY <3>1 DEF n
      <4> QED BY <1>1, <4>1
    <3>2. CASE parts # <<>> /\ p < 0
      BY <3>2, PositionIs DEF p
    <3>3. CASE parts # <<>> /\ p >= 0
      BY <2>8, <3>3
    <3> QED BY <2>9, <3>1, <3>2, <3>3
  <2>14. r.lp <= z /\ off <= r.lp
    BY <1>0, <2>5, <2>6 DEF z
  <2>15. Stepped(parts, k, data, off, rs, ps, r)
    BY <1>1, <2>5, <2>6, <2>7, <2>11, <2>12, <2>13, <2>14 DEF Stepped, z, n
  <2> QED BY <2>15 DEF r
<1>3. CASE parts # <<>> /\ Live(p, off, rs)
  <2>0. p \in Int /\ n \in {1, 2}
    BY <1>3, PositionIs
  <2>1. Split(a, k, data, off, ps, n, pos)
    BY <1>1, <1>3, PartsLive
  <2>2. off <= p /\ p >= 0
    BY <2>0, <1>3 DEF Live
  <2> HIDE DEF p, n
  <2>3. pos \in Nat /\ pos <= p /\ pos <= z /\ off <= pos
    <3>1. z \in Int /\ off <= z
      BY <1>0
    <3> HIDE DEF z
    <3>2. Min2(p, z) \in Int /\ Min2(p, z) <= p /\ Min2(p, z) <= z /\ Min2(p, z) \in {p, z}
      BY ONLY <2>0, <3>1, Min2Is
    <3> QED BY <1>0, <2>2, <3>1, <3>2
  <2> HIDE DEF z, pos
  <2>4. a \in TurnT /\ a.part \in 1..n /\ Fed(k, a.k) /\ off <= a.lp /\ a.lp <= pos
    BY <2>1 DEF Split
  <2>5. a.k \in SockT /\ Fits(a.k) /\ a.lp \in Nat
    BY <2>4, TurnFields DEF Fed
  <2>6. a.lp <= Len(data)
    BY <1>0, <2>3, <2>4, <2>5 DEF z
  <2>7. RestSent(a, r, data)
    BY <2>4, <2>5, <2>6, RestIs
  <2> HIDE DEF a, r
  <2>8. /\ r \in TurnT /\ r.part = a.part /\ r.wait = a.wait /\ r.lp \in {a.lp, z} /\ Fed(a.k, r.k)
        /\ r.k.low = a.k.low /\ a.why \subseteq r.why
        /\ r.why = {} => Moves(a.k.tx, a.lp, r.k.tx, r.lp, data)
        /\ a.st = "back" => r = a
    BY <2>7 DEF RestSent, z
  <2>9. r.lp \in Nat /\ r.why \subseteq LostUp /\ r.part \in Nat /\ r.wait \in BOOLEAN
    BY <2>8, TurnFields
  <2>10. Fed(k, r.k)
    BY <2>4, <2>8, FedTwice
  <2>11. off <= r.lp /\ r.lp <= z /\ r.part <= n
    <3> HIDE DEF z
    <3> QED BY <1>0, <2>0, <2>3, <2>4, <2>5, <2>8
  <2>12. r.why = {} /\ (off = 0 \/ DoneAt(parts, rs, ps, data, off)) =>
           Moves(k.tx, off, r.k.tx, r.lp, data)
    <3> SUFFICES ASSUME r.why = {}, off = 0 \/ DoneAt(parts, rs, ps, data, off)
                 PROVE  Moves(k.tx, off, r.k.tx, r.lp, data)
      OBVIOUS
    <3>1. ps > 0 => off = 0 \/ pos <= off
      <4>1. ~(p < 0) /\ ~(p < rs)
        BY <1>3, <2>0, <2>2 DEF Live
      <4> QED BY <4>1 DEF DoneAt, p, pos, z
    <3>2. Moves(k.tx, off, a.k.tx, a.lp, data)
      BY <2>1, <2>8, <3>1 DEF Split
    <3> QED BY <2>8, <3>2, MovesTwice
  <2>13. CASE a.st = "go"
    <3>1. a.lp = pos /\ a.k.low = FALSE /\ ~a.wait /\ a.part = n
      BY <2>1, <2>13 DEF Split
    <3>2. r.lp < z => r.lp = pos
      BY <1>0, <2>8, <3>1
    <3>3. r.lp < z => PartsAt(parts, r.k.low, u, r.part, data, r.lp)
      <4> HIDE DEF u
      <4> QED BY <2>3, <2>8, <2>11, <3>1, <3>2 DEF PartsAt, p, n
    <3>4. r.lp < z => DoneAt(parts, u, r.part, data, r.lp)
      <4> HIDE DEF u
      <4>1. pos <= pos
        BY <2>3
      <4> QED BY <3>2, <4>1 DEF DoneAt, p, pos, z
    <3>5. Stepped(parts, k, data, off, rs, ps, r)
      BY <2>8, <2>9, <2>10, <2>11, <2>12, <3>1, <3>3, <3>4 DEF Stepped, z, n
    <3> QED BY <3>5 DEF r
  <2>14. CASE a.st # "go"
    <3>1. /\ a.st = "back" /\ (a.wait => a.lp = pos)
          /\ ~a.wait => "part_blocked" \in a.why /\ a.lp < pos
          /\ ps = n => a.wait /\ a.k.low = k.low /\ a.part = n
      BY <2>1, <2>14 DEF Split
    <3>2. r = a
      BY <2>8, <3>1
    <3>3. r.lp < z \/ r.wait
      <4>1. ~r.wait => r.lp < pos
        BY <3>1, <3>2
      <4> QED BY <1>0, <2>3, <2>9, <4>1
    <3>4. ps = n \/ rs <= off
      <4>1. ~(p < 0)
        BY <2>0, <2>2
      <4> QED BY <1>3, <4>1 DEF PartsAt, p, n
    <3>5. r.lp <= p
      BY <2>0, <2>3, <2>4, <2>5, <3>2
    <3>6. rs <= off => u <= r.lp
      BY <2>9
    <3>7. k.low => rs <= off
      BY DEF PartsAt
    <3>8. r.k.low => u <= r.lp
      BY <3>1, <3>2, <3>4, <3>6, <3>7
    <3>9. r.part = n \/ u <= r.lp
      BY <3>1, <3>2, <3>4, <3>6
    <3> HIDE DEF u
    <3>10. PartsAt(parts, r.k.low, u, r.part, data, r.lp)
      BY <1>3, <2>2, <2>11, <3>5, <3>8, <3>9 DEF PartsAt, p, n
    <3>11. r.why = {} => DoneAt(parts, u, r.part, data, r.lp)
      <4>1. r.why = {} => r.lp = pos
        BY <3>1, <3>2
      <4>2. pos <= pos
        BY <2>3
      <4> QED BY <4>1, <4>2 DEF DoneAt, p, pos, z
    <3>12. Stepped(parts, k, data, off, rs, ps, r)
      BY <2>8, <2>9, <2>10, <2>11, <2>12, <3>3, <3>10, <3>11 DEF Stepped, z, n, u
    <3> QED BY <3>12 DEF r
  <2> QED BY <2>13, <2>14
<1> QED BY <1>2, <1>3

-----------------------------------------------------------------------------
(* The states of the loop.                                                 *)

\* The parts of a state, of an eval, of a buffer and of the network.
LEMMA StateIs ==
  ASSUME NEW s \in StateT
  PROVE  /\ s.e \in [Slots -> EvalT] /\ s.k \in [Slots -> SockT] /\ s.b \subseteq EventT
         /\ s.w \in NetT /\ s.h \subseteq Cause /\ s.x \subseteq Fault
         /\ \A i \in Slots : s.e[i] \in EvalT /\ s.k[i] \in SockT
<1>1. s.e \in [Slots -> EvalT] /\ s.k \in [Slots -> SockT] /\ s.b \subseteq EventT
      /\ s.w \in NetT /\ s.h \subseteq Cause /\ s.x \subseteq Fault
  BY DEF StateT
<1> QED BY <1>1

\* The types of an eval's fields.
LEMMA EvalIs ==
  ASSUME NEW v \in EvalT
  PROVE  /\ v.live \in BOOLEAN /\ v.flag \in {"none", "S5", "CONN"} /\ v.pair \in {0} \cup Slots
         /\ v.cb \in {"none", "on_request", "on_ignore", "on_connect", "on_tunnel"}
         /\ v.out \in BOOLEAN /\ v.buff \in BuffT /\ v.round_sent \in Nat
         /\ v.round_count \in 0..2 /\ v.part_sent \in Nat /\ v.timer \in BOOLEAN
         /\ v.stamp \in BOOLEAN
BY DEF EvalT

\* The types of a buffer's fields.
LEMMA BuffIs ==
  ASSUME NEW f \in BuffT
  PROVE  f.data \in Seq(Byte) /\ f.offset \in Nat /\ f.waited \in BOOLEAN /\ Len(f.data) \in Nat
BY LenProperties DEF BuffT

\* The types of the two ends' counts and of what they got.
LEMMA NetIs ==
  ASSUME NEW w \in NetT
  PROVE  /\ w.up \in 0..MaxUp /\ w.down \in 0..MaxDown /\ w.sgot \in Seq(Byte) /\ w.agot \in Seq(Byte)
         /\ w.up \in Nat /\ w.down \in Nat /\ MaxUp \in Nat /\ MaxDown \in Nat
<1>1. /\ w.up \in 0..MaxUp /\ w.down \in 0..MaxDown /\ w.sgot \in Seq(Byte) /\ w.agot \in Seq(Byte)
  BY DEF NetT
<1> QED BY <1>1, SizesAssumption

\* The types of a reported event's fields.
LEMMA EventIs ==
  ASSUME NEW b \in EventT
  PROVE  b.s \in {0} \cup Slots /\ b.type \subseteq {"in", "out", "rdhup", "err"} /\ b.old \in BOOLEAN
BY DEF EventT

\* The state is the variables, and Become() sets them.
LEMMA CurIs ==
  /\ Cur.e = ev /\ Cur.b = batch /\ Cur.k = sk /\ Cur.w = net /\ Cur.h = causes /\ Cur.x = faults
BY DEF Cur

\* Become(s) makes s the state of the loop.
LEMMA BecomeIs ==
  ASSUME NEW s \in StateT, Become(s)
  PROVE  Cur' = s
<1>1. ev' = s.e /\ batch' = s.b /\ sk' = s.k /\ net' = s.w /\ causes' = s.h /\ faults' = s.x
  BY DEF Become
<1>2. s = [e |-> s.e, b |-> s.b, k |-> s.k, w |-> s.w, h |-> s.h, x |-> s.x]
  BY DEF StateT
<1>3. Cur' = [e |-> ev', b |-> batch', k |-> sk', w |-> net', h |-> causes', x |-> faults']
  BY DEF Cur
<1> QED BY <1>1, <1>2, <1>3

\* A state with some of its parts replaced.
LEMMA StateOf ==
  ASSUME NEW e \in [Slots -> EvalT], NEW b \in SUBSET EventT, NEW k \in [Slots -> SockT],
         NEW w \in NetT, NEW h \in SUBSET Cause, NEW x \in SUBSET Fault
  PROVE  [e |-> e, b |-> b, k |-> k, w |-> w, h |-> h, x |-> x] \in StateT
BY DEF StateT

-----------------------------------------------------------------------------
(* tcp_send_hook().                                                        *)

\* A send without parts.
Plain(k, data, off, r) ==
    /\ Fed(k, r.k) /\ r.k.low = k.low /\ r.lp \in Nat /\ off <= r.lp /\ r.lp <= Len(data)
    /\ r.wait = FALSE /\ r.why = {} /\ Moves(k.tx, off, r.k.tx, r.lp, data)

\* What the socket accepts, and the bytes that it is.
LEMMA AcceptsIs ==
  ASSUME NEW k \in SockT, Fits(k), NEW data \in Seq(Byte), NEW off \in Nat, off <= Len(data)
  PROVE  /\ off + Accepts(k, Len(data) - off) \in Nat
         /\ off <= off + Accepts(k, Len(data) - off)
         /\ off + Accepts(k, Len(data) - off) <= Len(data)
         /\ (off + Accepts(k, Len(data) - off)) - off <= SndBuf - Len(k.tx)
<1> DEFINE y == Len(data) - off
           g == SndBuf - Len(k.tx)
           z == Len(data)
           n == Accepts(k, y)
<1>1. y \in Nat /\ g \in Nat /\ z \in Nat /\ y = z - off
  BY SockIs, LenProperties, SizesAssumption DEF Fits
<1>2. n = Min2(y, g)
  BY DEF Accepts
<1> HIDE DEF n, y, g, z
<1>5. y \in Int /\ g \in Int
  BY <1>1
<1>3. Min2(y, g) \in Int /\ Min2(y, g) <= y /\ Min2(y, g) <= g /\ Min2(y, g) \in {y, g}
  BY ONLY <1>5, Min2Is
<1>4. off + n \in Nat /\ off <= off + n /\ off + n <= z /\ (off + n) - off <= g
  BY <1>1, <1>2, <1>3
<1> QED BY <1>4 DEF n, y, g, z

\* The first round goes through desync(), later ones do not.
LEMMA SendUp ==
  ASSUME parts \in Configs, NEW s \in StateT, NEW c \in Slots, NEW r \in Slots,
         s.e[r].flag = "CONN", s.e[r].pair = c, Fits(s.k[r]),
         NEW data \in Seq(Byte), data # <<>>, NEW off \in Nat, off <= Len(data), NEW notsent,
         First(s, c) =>
           PartsAt(parts, s.k[r].low, s.e[c].round_sent, s.e[c].part_sent, data, off)
  PROVE  /\ First(s, c) =>
              Stepped(parts, s.k[r], data, off, s.e[c].round_sent, s.e[c].part_sent,
                      tcp_send_hook(s, r, data, off, notsent))
         /\ ~First(s, c) =>
              /\ Plain(s.k[r], data, off, tcp_send_hook(s, r, data, off, notsent))
              /\ tcp_send_hook(s, r, data, off, notsent).part = s.e[c].part_sent
<1> DEFINE k == s.k[r]
           rs == s.e[c].round_sent
           ps == s.e[c].part_sent
           x == tcp_send_hook(s, r, data, off, notsent)
           n == Accepts(k, Len(data) - off)
           lp == off + n
<1>1. k \in SockT /\ rs \in Nat /\ ps \in Nat
  <2>1. s.e[c] \in EvalT
    BY StateIs
  <2> QED BY <2>1, StateIs, EvalIs
<1>2. CASE First(s, c)
  <2>1. x = desync(k, data, off, rs, ps, notsent)
    BY <1>2 DEF tcp_send_hook, First
  <2> HIDE DEF k, rs, ps, x
  <2>2. Fits(k) /\ PartsAt(parts, k.low, rs, ps, data, off)
    BY <1>2 DEF k, rs, ps
  <2>3. Stepped(parts, k, data, off, rs, ps, desync(k, data, off, rs, ps, notsent))
    BY <1>1, <2>2, DesyncIs
  <2>4. Stepped(parts, k, data, off, rs, ps, x)
    BY <2>1, <2>3
  <2> QED BY <1>2, <2>4 DEF k, rs, ps, x
<1>3. CASE ~First(s, c)
  <2> DEFINE l == Queue(k, Sub(data, off, lp))
  <2>1. x = [k |-> l, lp |-> lp, part |-> ps, st |-> "go", wait |-> FALSE, why |-> {}]
    BY <1>3 DEF tcp_send_hook, First, Sub
  <2> HIDE DEF k, x, n
  <2>2. lp \in Nat /\ off <= lp /\ lp <= Len(data) /\ lp - off <= SndBuf - Len(k.tx) /\ Fits(k)
    BY <1>1, AcceptsIs DEF k, n
  <2> HIDE DEF lp
  <2>3. Fed(k, l) /\ l.low = k.low /\ Moves(k.tx, off, l.tx, lp, data)
    BY <1>1, <2>2, QueueIs
  <2> HIDE DEF l
  <2>4. Plain(k, data, off, x) /\ x.part = ps
    BY <2>1, <2>2, <2>3 DEF Plain
  <2> QED BY <1>3, <2>4 DEF k, x
<1> QED BY <1>2, <1>3

\* What goes to the client is sent as it is.
LEMMA SendDown ==
  ASSUME NEW s \in StateT, NEW c \in Slots, NEW r \in Slots,
         s.e[c].flag # "CONN", s.e[c].pair = r, Fits(s.k[c]),
         NEW data \in Seq(Byte), NEW off \in Nat, off <= Len(data), NEW notsent
  PROVE  /\ Plain(s.k[c], data, off, tcp_send_hook(s, c, data, off, notsent))
         /\ tcp_send_hook(s, c, data, off, notsent).part = s.e[r].part_sent
         /\ tcp_send_hook(s, c, data, off, notsent).k.unsent = s.k[c].unsent
<1> DEFINE k == s.k[c]
           ps == s.e[r].part_sent
           x == tcp_send_hook(s, c, data, off, notsent)
           n == Accepts(k, Len(data) - off)
           lp == off + n
           m == Sub(data, off, lp)
           t == Cat(k.tx, m)
           l == SetQueue(k, t, k.unsent, k.low)
<1>1. k \in SockT
  BY StateIs
<1>2. k.tx \in Seq(Byte) /\ Len(k.tx) \in Nat /\ k.unsent \in Nat /\ k.low \in BOOLEAN /\ SndBuf \in Nat
  BY <1>1, SockIs, SizesAssumption
<1>3. x = [k |-> [k EXCEPT !.tx = @ \o SubSeq(data, off + 1, off + n)], lp |-> off + n, part |-> ps,
           st |-> "go", wait |-> FALSE, why |-> {}]
  BY DEF tcp_send_hook
<1>4. lp \in Nat /\ off <= lp /\ lp <= Len(data) /\ lp - off <= SndBuf - Len(k.tx) /\ Fits(k)
  <2> HIDE DEF k
  <2> QED BY <1>1, AcceptsIs DEF k
<1> HIDE DEF k, n, x
<1>5. [k EXCEPT !.tx = @ \o SubSeq(data, off + 1, off + n)] = l
  BY <1>1 DEF SetQueue, Cat, Sub, SockT
<1>6. x = [k |-> l, lp |-> lp, part |-> ps, st |-> "go", wait |-> FALSE, why |-> {}]
  BY <1>3, <1>5
<1> HIDE DEF lp
<1>7. m \in Seq(Byte) /\ Len(m) = lp - off
  BY <1>4, SubIs
<1>8. Moves(k.tx, off, t, lp, data)
  BY <1>2, <1>4, MovesSend
<1> HIDE DEF m
<1>9. t \in Seq(Byte) /\ Len(t) = Len(k.tx) + Len(m)
  BY <1>2, <1>7, CatIs
<1> HIDE DEF t
<1> DEFINE x1 == Len(k.tx)
           y1 == Len(m)
           z1 == Len(t)
           u1 == k.unsent
           w1 == k.low
<1>10. x1 \in Nat /\ y1 = lp - off /\ z1 = x1 + y1 /\ y1 <= SndBuf - x1 /\ u1 <= x1 /\ u1 \in Nat
  BY <1>2, <1>4, <1>7, <1>9 DEF Fits
<1> HIDE DEF x1, y1, z1
<1>11. z1 <= SndBuf /\ u1 <= z1
  BY <1>2, <1>4, <1>10
<1>12. /\ k \in SockT /\ t \in Seq(Byte) /\ u1 \in Nat /\ w1 \in BOOLEAN
       /\ Len(t) <= SndBuf /\ u1 <= Len(t)
  BY <1>1, <1>2, <1>9, <1>10, <1>11 DEF z1
<1> HIDE DEF u1, w1
<1>13. /\ Fed(k, SetQueue(k, t, u1, w1)) /\ SetQueue(k, t, u1, w1).tx = t
       /\ SetQueue(k, t, u1, w1).unsent = u1 /\ SetQueue(k, t, u1, w1).low = w1
  BY ONLY <1>12, SockSet
<1>14. Fed(k, l) /\ l.tx = t /\ l.unsent = k.unsent /\ l.low = k.low
  BY <1>13 DEF u1, w1
<1> HIDE DEF l
<1>15. Plain(k, data, off, x) /\ x.part = ps /\ x.k.unsent = k.unsent
  BY <1>4, <1>6, <1>8, <1>14 DEF Plain
<1> QED BY <1>15 DEF k, x

-----------------------------------------------------------------------------
(* Setting one part of a state.                                            *)

PutE(s, i, v) == [s EXCEPT !.e[i] = v]
PutK(s, i, l) == [s EXCEPT !.k[i] = l]
PutB(s, b) == [s EXCEPT !.b = b]
PutW(s, w) == [s EXCEPT !.w = w]
PutH(s, h) == [s EXCEPT !.h = h]

\* Writing one eval changes that eval and nothing else.
LEMMA PutEIs ==
  ASSUME NEW s \in StateT, NEW i \in Slots, NEW v \in EvalT
  PROVE  /\ PutE(s, i, v) \in StateT /\ PutE(s, i, v).e[i] = v
         /\ \A j \in Slots : j # i => PutE(s, i, v).e[j] = s.e[j]
         /\ PutE(s, i, v).b = s.b /\ PutE(s, i, v).k = s.k /\ PutE(s, i, v).w = s.w
         /\ PutE(s, i, v).h = s.h /\ PutE(s, i, v).x = s.x
<1> DEFINE f == [s.e EXCEPT ![i] = v]
<1>1. f \in [Slots -> EvalT] /\ f[i] = v /\ \A j \in Slots : j # i => f[j] = s.e[j]
  BY StateIs
<1>2. PutE(s, i, v) = [s EXCEPT !.e = f]
  BY DEF PutE
<1> HIDE DEF f
<1> QED BY <1>1, <1>2 DEF StateT

\* Writing one socket changes that socket and nothing else.
LEMMA PutKIs ==
  ASSUME NEW s \in StateT, NEW i \in Slots, NEW l \in SockT
  PROVE  /\ PutK(s, i, l) \in StateT /\ PutK(s, i, l).k[i] = l
         /\ \A j \in Slots : j # i => PutK(s, i, l).k[j] = s.k[j]
         /\ PutK(s, i, l).b = s.b /\ PutK(s, i, l).e = s.e /\ PutK(s, i, l).w = s.w
         /\ PutK(s, i, l).h = s.h /\ PutK(s, i, l).x = s.x
<1> DEFINE f == [s.k EXCEPT ![i] = l]
<1>1. f \in [Slots -> SockT] /\ f[i] = l /\ \A j \in Slots : j # i => f[j] = s.k[j]
  BY StateIs
<1>2. PutK(s, i, l) = [s EXCEPT !.k = f]
  BY DEF PutK
<1> HIDE DEF f
<1> QED BY <1>1, <1>2 DEF StateT

\* Writing the batch changes the batch and nothing else.
LEMMA PutBIs ==
  ASSUME NEW s \in StateT, NEW b \in SUBSET EventT
  PROVE  /\ PutB(s, b) \in StateT /\ PutB(s, b).b = b /\ PutB(s, b).e = s.e
         /\ PutB(s, b).k = s.k /\ PutB(s, b).w = s.w /\ PutB(s, b).h = s.h /\ PutB(s, b).x = s.x
BY DEF StateT, PutB

\* Writing the two ends changes them and nothing else.
LEMMA PutWIs ==
  ASSUME NEW s \in StateT, NEW w \in NetT
  PROVE  /\ PutW(s, w) \in StateT /\ PutW(s, w).w = w /\ PutW(s, w).e = s.e
         /\ PutW(s, w).k = s.k /\ PutW(s, w).b = s.b /\ PutW(s, w).h = s.h /\ PutW(s, w).x = s.x
BY DEF StateT, PutW

\* Writing the causes changes them and nothing else.
LEMMA PutHIs ==
  ASSUME NEW s \in StateT, NEW h \in SUBSET Cause
  PROVE  /\ PutH(s, h) \in StateT /\ PutH(s, h).h = h /\ PutH(s, h).e = s.e
         /\ PutH(s, h).k = s.k /\ PutH(s, h).b = s.b /\ PutH(s, h).w = s.w /\ PutH(s, h).x = s.x
BY DEF StateT, PutH

-----------------------------------------------------------------------------
(* Deleting an eval.                                                       *)

\* The empty values have their types.
LEMMA NoneIs ==
  /\ NoBuff \in BuffT /\ NoEval \in EvalT /\ NoSocket \in SockT /\ NoNet \in NetT
  /\ NoBuff.data = <<>> /\ NoBuff.offset = 0 /\ NoBuff.waited = FALSE
<1>1. <<>> \in Seq(Byte) /\ <<>> \in Seq(Nat)
  OBVIOUS
<1>2. NoBuff \in BuffT
  BY <1>1 DEF NoBuff, BuffT
<1>3. NoEval \in EvalT
  BY <1>2 DEF NoEval, EvalT
<1>4. NoSocket \in SockT
  BY <1>1 DEF NoSocket, SockT
<1>5. NoNet \in NetT
  BY <1>1, SizesAssumption DEF NoNet, NetT
<1> QED BY <1>2, <1>3, <1>4, <1>5 DEF NoBuff

\* A deleted eval.
Dead == [NoEval EXCEPT !.stamp = TRUE]

\* A deleted eval is free and stamped, so no report is taken for its own.
LEMMA DeadIs ==
  Dead \in EvalT /\ IsFree(Dead, NoSocket) /\ Dead.stamp = TRUE /\ Dead.pair = 0 /\ Dead.live = FALSE
<1>1. Dead \in EvalT
  BY NoneIs DEF Dead, EvalT
<1> QED BY <1>1 DEF Dead, NoEval, NoSocket, IsFree, Quiet

\* What close() still delivers of socket k, and whether it is a RST.
Delivered(k) ==
    IF k.linger \/ k.rx # <<>> \/ k.err \/ k.low \/ k.st # "up" THEN <<>> ELSE k.tx
ResetAt(k) == IF (k.linger \/ k.rx # <<>> \/ k.err) /\ ~k.err THEN {"reset_at_close"} ELSE {}
Aged(B, i) == {[b EXCEPT !.old = b.old \/ b.s = i] : b \in B}
Paid(w, flag, left) ==
    IF flag = "CONN" THEN [w EXCEPT !.sgot = Cat(@, left)] ELSE [w EXCEPT !.agot = Cat(@, left)]

\* What close() leaves to deliver: all that is queued, or nothing when it resets.
LEMMA DeliveredIs ==
  ASSUME NEW k \in SockT
  PROVE  /\ Delivered(k) \in Seq(Byte) /\ Delivered(k) \in {<<>>, k.tx}
         /\ ResetAt(k) \subseteq Cause /\ ResetAt(k) \in SUBSET {"reset_at_close"}
<1>1. k.tx \in Seq(Byte) /\ <<>> \in Seq(Byte)
  BY SockIs
<1>2. Delivered(k) = <<>> \/ Delivered(k) = k.tx
  BY DEF Delivered
<1>3. ResetAt(k) = {} \/ ResetAt(k) = {"reset_at_close"}
  BY DEF ResetAt
<1>4. "reset_at_close" \in Cause
  BY DEF Cause
<1>5. ResetAt(k) \subseteq Cause /\ ResetAt(k) \in SUBSET {"reset_at_close"}
  BY <1>3, <1>4
<1> QED BY <1>1, <1>2, <1>5

\* The events of an eval become old.
LEMMA AgedIs ==
  ASSUME NEW B \in SUBSET EventT, NEW i \in Slots
  PROVE  /\ Aged(B, i) \in SUBSET EventT
         /\ \A x \in Aged(B, i) : \E b \in B :
              x.s = b.s /\ x.type = b.type /\ (x.old <=> b.old \/ b.s = i)
         /\ (\A x, y \in B : x.s = y.s => x = y) =>
              (\A x, y \in Aged(B, i) : x.s = y.s => x = y)
<1> DEFINE Old(b) == [b EXCEPT !.old = b.old \/ b.s = i]
<1>1. ASSUME NEW b \in B
      PROVE  Old(b) \in EventT /\ Old(b).s = b.s /\ Old(b).type = b.type
             /\ (Old(b).old <=> b.old \/ b.s = i)
  <2>1. b \in EventT
    OBVIOUS
  <2> DEFINE o == b.old \/ b.s = i
  <2>2. o \in BOOLEAN /\ Old(b) = [b EXCEPT !.old = o]
    BY <2>1 DEF EventT
  <2> HIDE DEF o
  <2>3. [b EXCEPT !.old = o] \in EventT /\ [b EXCEPT !.old = o].s = b.s
        /\ [b EXCEPT !.old = o].type = b.type /\ [b EXCEPT !.old = o].old = o
    BY <2>1, <2>2 DEF EventT
  <2> QED BY <2>2, <2>3 DEF o
<1>2. Aged(B, i) = {Old(b) : b \in B}
  BY DEF Aged
<1> HIDE DEF Old
<1>3. Aged(B, i) \in SUBSET EventT
  BY <1>1, <1>2
<1>4. \A x \in Aged(B, i) : \E b \in B :
        x.s = b.s /\ x.type = b.type /\ (x.old <=> b.old \/ b.s = i)
  BY <1>1, <1>2
<1>5. (\A x, y \in B : x.s = y.s => x = y) => (\A x, y \in Aged(B, i) : x.s = y.s => x = y)
  <2> SUFFICES ASSUME \A x, y \in B : x.s = y.s => x = y, NEW x \in Aged(B, i),
                      NEW y \in Aged(B, i), x.s = y.s
               PROVE  x = y
    OBVIOUS
  <2>1. PICK f \in B : x = Old(f)
    BY <1>2
  <2>2. PICK g \in B : y = Old(g)
    BY <1>2
  <2>3. f.s = g.s
    BY <1>1, <2>1, <2>2
  <2>4. f = g
    BY <2>3
  <2> QED BY <2>1, <2>2, <2>4
<1> QED BY <1>3, <1>4, <1>5

\* What close() leaves to deliver goes to the end the socket belongs to.
LEMMA PaidIs ==
  ASSUME NEW w \in NetT, NEW flag, NEW left \in Seq(Byte)
  PROVE  /\ Paid(w, flag, left) \in NetT /\ Paid(w, flag, left).up = w.up
         /\ Paid(w, flag, left).down = w.down
         /\ flag = "CONN" => Paid(w, flag, left).sgot = Cat(w.sgot, left)
                             /\ Paid(w, flag, left).agot = w.agot
         /\ flag # "CONN" => Paid(w, flag, left).agot = Cat(w.agot, left)
                             /\ Paid(w, flag, left).sgot = w.sgot
<1> DEFINE g == Cat(w.sgot, left)
           a == Cat(w.agot, left)
<1>1. w.sgot \in Seq(Byte) /\ w.agot \in Seq(Byte)
  BY NetIs
<1>2. g \in Seq(Byte)
  BY <1>1, CatIs
<1>3. a \in Seq(Byte)
  BY <1>1, CatIs
<1>4. Paid(w, flag, left) = IF flag = "CONN" THEN [w EXCEPT !.sgot = g] ELSE [w EXCEPT !.agot = a]
  BY DEF Paid
<1> HIDE DEF g, a
<1>5. Paid(w, flag, left) \in NetT /\ Paid(w, flag, left).up = w.up /\ Paid(w, flag, left).down = w.down
  BY <1>2, <1>3, <1>4 DEF NetT
<1>6. flag = "CONN" => Paid(w, flag, left).sgot = g /\ Paid(w, flag, left).agot = w.agot
  BY <1>4 DEF NetT
<1>7. flag # "CONN" => Paid(w, flag, left).agot = a /\ Paid(w, flag, left).sgot = w.sgot
  BY <1>4 DEF NetT
<1> QED BY <1>5, <1>6, <1>7 DEF g, a

\* Release() of a live eval.
LEMMA ReleaseIs ==
  ASSUME NEW s \in StateT, NEW i \in Slots, s.e[i].live
  PROVE  /\ Release(s, i) \in StateT
         /\ Release(s, i).e[i] = Dead /\ Release(s, i).k[i] = NoSocket
         /\ \A j \in Slots : j # i =>
              Release(s, i).e[j] = s.e[j] /\ Release(s, i).k[j] = s.k[j]
         /\ Release(s, i).b = Aged(s.b, i) /\ Release(s, i).x = s.x
         /\ Release(s, i).h = s.h \cup ResetAt(s.k[i])
         /\ Release(s, i).w = Paid(s.w, s.e[i].flag, Delivered(s.k[i]))
<1> DEFINE k == s.k[i]
           left == Delivered(k)
           w == Paid(s.w, s.e[i].flag, left)
           h == s.h \cup ResetAt(k)
           B == Aged(s.b, i)
           t1 == PutK(s, i, NoSocket)
           t2 == PutW(t1, w)
           t3 == PutH(t2, h)
           t4 == PutE(t3, i, Dead)
           t5 == PutB(t4, B)
<1>1. k \in SockT /\ s.w \in NetT /\ s.h \subseteq Cause /\ s.b \in SUBSET EventT
  BY StateIs
<1>2. left \in Seq(Byte) /\ ResetAt(k) \subseteq Cause
  BY <1>1, DeliveredIs
<1>3. w \in NetT /\ h \in SUBSET Cause /\ B \in SUBSET EventT
  <2>1. w \in NetT
    <3> HIDE DEF left
    <3> QED BY <1>1, <1>2, PaidIs
  <2>2. B \in SUBSET EventT
    BY <1>1, AgedIs
  <2> QED BY <1>1, <1>2, <2>1, <2>2
<1>4. CloseSocket(s, i) = t3
  <2> DEFINE rst == k.linger \/ k.rx # <<>> \/ k.err
             lf == IF rst \/ k.low \/ k.st # "up" THEN <<>> ELSE k.tx
             c == IF rst /\ ~k.err THEN {"reset_at_close"} ELSE {}
             u == IF s.e[i].flag = "CONN" THEN [t1 EXCEPT !.w.sgot = @ \o lf]
                                          ELSE [t1 EXCEPT !.w.agot = @ \o lf]
  <2>1. CloseSocket(s, i) = Because(u, c)
    BY ONLY Zenon DEF CloseSocket, PutK
  <2>2. lf = left /\ c = ResetAt(k)
    BY DEF Delivered, ResetAt
  <2>3. t1 \in StateT /\ t1.w = s.w /\ t1.h = s.h
    BY NoneIs, PutKIs
  <2> HIDE DEF lf, c, left, t1
  <2>4. u = t2
    BY <2>2, <2>3 DEF PutW, Paid, Cat
  <2>5. t2.h = s.h
    BY <1>3, <2>3, PutWIs
  <2> HIDE DEF u, t2
  <2>6. Because(u, c) = t3
    BY <2>2, <2>4, <2>5 DEF Because, PutH
  <2> QED BY <2>1, <2>6
<1> HIDE DEF w, h, B
<1>5. /\ t1 \in StateT /\ t1.k[i] = NoSocket /\ t1.b = s.b /\ t1.e = s.e /\ t1.w = s.w /\ t1.h = s.h /\ t1.x = s.x
      /\ \A j \in Slots : j # i => t1.k[j] = s.k[j]
  BY NoneIs, PutKIs
<1> HIDE DEF t1
<1>6. t2 \in StateT /\ t2.w = w /\ t2.e = s.e /\ t2.k = t1.k /\ t2.b = s.b /\ t2.h = s.h /\ t2.x = s.x
  BY <1>3, <1>5, PutWIs
<1> HIDE DEF t2
<1>7. t3 \in StateT /\ t3.w = w /\ t3.e = s.e /\ t3.k = t1.k /\ t3.b = s.b /\ t3.h = h /\ t3.x = s.x
  BY <1>3, <1>6, PutHIs
<1> HIDE DEF t3
<1>8. /\ t4 \in StateT /\ t4.w = w /\ t4.e[i] = Dead /\ t4.k = t1.k /\ t4.b = s.b /\ t4.h = h /\ t4.x = s.x
      /\ \A j \in Slots : j # i => t4.e[j] = s.e[j]
  BY <1>7, DeadIs, PutEIs
<1>9. Release(s, i) = t5
  <2>1. Release(s, i) = [t3 EXCEPT !.e[i] = Dead, !.b = {[b EXCEPT !.old = b.old \/ b.s = i] : b \in @}]
    BY <1>4 DEF Release, Dead
  <2>2. [t3 EXCEPT !.e[i] = Dead, !.b = {[b EXCEPT !.old = b.old \/ b.s = i] : b \in @}]
         = [t4 EXCEPT !.b = Aged(t3.b, i)]
    BY DEF PutE, Aged
  <2> HIDE DEF t4
  <2> QED BY <1>7, <2>1, <2>2 DEF PutB, B
<1> HIDE DEF t4
<1>10. t5 \in StateT /\ t5.w = w /\ t5.e = t4.e /\ t5.k = t1.k /\ t5.b = B /\ t5.h = h /\ t5.x = s.x
  BY <1>3, <1>8, PutBIs
<1> HIDE DEF t5
<1> QED BY <1>5, <1>8, <1>9, <1>10 DEF w, h, B

\* Two evals that are each other's pair are deleted together.
Paired(s, c, r) ==
    /\ s.e[c].live /\ s.e[c].pair = r /\ s.e[c].flag # "CONN"
    /\ s.e[r].live /\ s.e[r].pair = c /\ s.e[r].flag = "CONN"
Gone(s, t, c, r) ==
    /\ t \in StateT /\ t.x = s.x
    /\ \A i \in Slots : t.e[i] = Dead /\ t.k[i] = NoSocket
    /\ t.h = s.h \cup ResetAt(s.k[c]) \cup ResetAt(s.k[r])
    /\ t.w.up = s.w.up /\ t.w.down = s.w.down
    /\ t.w.sgot = Cat(s.w.sgot, Delivered(s.k[r])) /\ t.w.agot = Cat(s.w.agot, Delivered(s.k[c]))
    /\ Events(s) => Events(t)

\* Two different slots are all the slots there are.
LEMMA OtherSlot ==
  ASSUME NEW c \in Slots, NEW r \in Slots, c # r
  PROVE  Slots = {c, r} /\ c # 0 /\ r # 0 /\ \A i \in Slots : i = c \/ i = r
BY DEF Slots

\* del_event() on either side of a pair closes both sides.
LEMMA DelPair ==
  ASSUME NEW s \in StateT, NEW c \in Slots, NEW r \in Slots, c # r, Paired(s, c, r),
         NEW i \in {c, r}
  PROVE  Gone(s, del_event(s, i), c, r)
<1> DEFINE p == s.e[i].pair
           t == Release(s, i)
           u == Release(t, p)
<1>1. p \in {c, r} /\ p # i /\ p \in Slots /\ i \in Slots /\ p # 0 /\ s.e[i].live /\ s.e[p].live
      /\ \A j \in Slots : j = i \/ j = p
  BY OtherSlot DEF Paired
<1>2. del_event(s, i) = u
  BY <1>1 DEF del_event
<1> HIDE DEF p
<1>3. /\ t \in StateT /\ t.e[i] = Dead /\ t.k[i] = NoSocket /\ t.e[p] = s.e[p] /\ t.k[p] = s.k[p]
      /\ t.b = Aged(s.b, i) /\ t.x = s.x /\ t.h = s.h \cup ResetAt(s.k[i])
      /\ t.w = Paid(s.w, s.e[i].flag, Delivered(s.k[i]))
  BY <1>1, ReleaseIs
<1> HIDE DEF t
<1>4. t.e[p].live
  BY <1>1, <1>3
<1>5. /\ u \in StateT /\ u.e[p] = Dead /\ u.k[p] = NoSocket /\ u.e[i] = t.e[i] /\ u.k[i] = t.k[i]
      /\ u.b = Aged(t.b, p) /\ u.x = t.x /\ u.h = t.h \cup ResetAt(t.k[p])
      /\ u.w = Paid(t.w, t.e[p].flag, Delivered(t.k[p]))
  BY <1>1, <1>3, <1>4, ReleaseIs
<1> HIDE DEF u
<1>6. \A j \in Slots : u.e[j] = Dead /\ u.k[j] = NoSocket
  BY <1>1, <1>3, <1>5
<1>7. u.h = s.h \cup ResetAt(s.k[c]) \cup ResetAt(s.k[r])
  BY <1>1, <1>3, <1>5
<1>8. s.w \in NetT /\ s.k[i] \in SockT /\ s.k[p] \in SockT /\ s.b \in SUBSET EventT /\ t.b \in SUBSET EventT
  BY <1>1, <1>3, StateIs
<1>9. Delivered(s.k[i]) \in Seq(Byte) /\ Delivered(s.k[p]) \in Seq(Byte)
  BY <1>8, DeliveredIs
<1>10. /\ u.w.up = s.w.up /\ u.w.down = s.w.down
       /\ u.w.sgot = Cat(s.w.sgot, Delivered(s.k[r])) /\ u.w.agot = Cat(s.w.agot, Delivered(s.k[c]))
  <2> DEFINE a == Delivered(s.k[i])
             d == Delivered(s.k[p])
             f == s.e[i].flag
             g == s.e[p].flag
             w == Paid(s.w, f, a)
             z == Paid(w, g, d)
  <2>1. a \in Seq(Byte) /\ d \in Seq(Byte) /\ t.w = w /\ u.w = z
    BY <1>3, <1>5, <1>9
  <2>2. f = "CONN" <=> i = r
    BY <1>1 DEF Paired
  <2>3. g = "CONN" <=> p = r
    BY <1>1 DEF Paired
  <2> HIDE DEF a, d, f, g
  <2>4. /\ w \in NetT /\ w.up = s.w.up /\ w.down = s.w.down
        /\ f = "CONN" => w.sgot = Cat(s.w.sgot, a) /\ w.agot = s.w.agot
        /\ f # "CONN" => w.agot = Cat(s.w.agot, a) /\ w.sgot = s.w.sgot
    BY <1>8, <2>1, PaidIs
  <2> HIDE DEF w
  <2>5. /\ z.up = w.up /\ z.down = w.down
        /\ g = "CONN" => z.sgot = Cat(w.sgot, d) /\ z.agot = w.agot
        /\ g # "CONN" => z.agot = Cat(w.agot, d) /\ z.sgot = w.sgot
    BY <2>1, <2>4, PaidIs
  <2> HIDE DEF z
  <2>6. CASE i = r
    BY <1>1, <2>1, <2>2, <2>3, <2>4, <2>5, <2>6 DEF a, d
  <2>7. CASE i = c
    BY <1>1, <2>1, <2>2, <2>3, <2>4, <2>5, <2>7 DEF a, d
  <2> QED BY <2>6, <2>7
<1>11. Events(s) => Events(u)
  <2> SUFFICES ASSUME Events(s) PROVE Events(u)
    OBVIOUS
  <2>1. \A x, y \in s.b : x.s = y.s => x = y
    BY DEF Events
  <2>2. /\ \A x, y \in t.b : x.s = y.s => x = y
        /\ \A x \in t.b : \E b \in s.b : x.s = b.s /\ (x.old <=> b.old \/ b.s = i)
    BY <1>1, <1>3, <1>8, <2>1, AgedIs
  <2>3. /\ \A x, y \in u.b : x.s = y.s => x = y
        /\ \A x \in u.b : \E b \in t.b : x.s = b.s /\ (x.old <=> b.old \/ b.s = p)
    BY <1>1, <1>5, <1>8, <2>2, AgedIs
  <2>4. ASSUME NEW x \in u.b, x.old PROVE x.s \in Slots
    <3>1. PICK y \in t.b : x.s = y.s /\ (y.old \/ y.s = p)
      BY <2>3, <2>4
    <3>2. PICK b \in s.b : y.s = b.s /\ (y.old <=> b.old \/ b.s = i)
      BY <2>2
    <3> QED BY <1>1, <3>1, <3>2 DEF Events
  <2>5. \A j \in Slots : u.e[j].stamp
    BY <1>6, DeadIs
  <2> QED BY <2>3, <2>4, <2>5 DEF Events
<1>12. u.x = s.x
  BY <1>3, <1>5
<1>13. Gone(s, u, c, r)
  BY <1>5, <1>6, <1>7, <1>10, <1>11, <1>12 DEF Gone
<1> QED BY <1>2, <1>13

\* After that there is no connection.
LEMMA GoneLoose ==
  ASSUME NEW s, NEW t, NEW c, NEW r, Gone(s, t, c, r), Final(t.w, t.h), Events(s), s.x = {}, NEW pp
  PROVE  Good(pp, t, NoRun) /\ Loose(t)
<1>1. \A i \in Slots : t.e[i] = Dead /\ t.k[i] = NoSocket
  BY DEF Gone
<1>2. \A i \in Slots : IsFree(t.e[i], t.k[i]) /\ t.e[i].stamp
  BY <1>1, DeadIs
<1>3. Loose(t)
  BY <1>2 DEF Loose
<1>4. Good(pp, t, NoRun)
  BY <1>3 DEF Good, Gone
<1> QED BY <1>3, <1>4

\* No bytes.
LEMMA CatNone ==
  ASSUME NEW q \in Seq(Byte)
  PROVE  Cat(q, <<>>) = q
BY DEF Cat

\* A connection that is deleted before anything was sent.
LEMMA DelJoining ==
  ASSUME NEW s \in StateT, s.x = {}, Events(s), NEW c \in Slots, NEW r \in Slots, c # r,
         Paired(s, c, r), s.k[c].tx = <<>>, s.k[r].tx = <<>>, s.w = NoNet, NEW i \in {c, r}, NEW pp
  PROVE  Good(pp, del_event(s, i), NoRun) /\ Loose(del_event(s, i))
<1> DEFINE t == del_event(s, i)
<1>1. Gone(s, t, c, r)
  BY DelPair
<1> HIDE DEF t
<1>2. s.k[c].tx = <<>> /\ s.k[r].tx = <<>> /\ s.w = NoNet
  OBVIOUS
<1>3. Delivered(s.k[c]) = <<>> /\ Delivered(s.k[r]) = <<>>
  BY <1>2 DEF Delivered
<1>4. NoNet.sgot = <<>> /\ NoNet.agot = <<>> /\ NoNet.up = 0 /\ NoNet.down = 0
  BY DEF NoNet
<1>5. <<>> \in Seq(Byte)
  OBVIOUS
<1>6. Cat(<<>>, <<>>) = <<>>
  BY <1>5, CatNone
<1>7. t.w.sgot = <<>> /\ t.w.agot = <<>> /\ t.w.up = 0 /\ t.w.down = 0
  BY <1>1, <1>2, <1>3, <1>4, <1>6 DEF Gone
<1>8. Partly(<<>>, 0) /\ Whole(<<>>, 0)
  BY DEF Partly, Whole, Counts
<1>9. Final(t.w, t.h)
  BY <1>7, <1>8 DEF Final
<1>10. Good(pp, t, NoRun) /\ Loose(t)
  BY <1>1, <1>9, GoneLoose
<1> QED BY <1>10 DEF t

-----------------------------------------------------------------------------
(* The end of a connection.                                                *)

\* What a buffer has not sent.
LEMMA RestOf ==
  ASSUME NEW f \in BuffT, Chunk(f)
  PROVE  /\ Rest(f) \in Seq(Byte) /\ f.offset <= Len(f.data) /\ Len(Rest(f)) = Len(f.data) - f.offset
         /\ f = NoBuff => Rest(f) = <<>>
<1> DEFINE d == f.data
           o == f.offset
           z == Len(d)
<1>1. d \in Seq(Byte) /\ o \in Nat /\ z \in Nat
  BY BuffIs
<1>2. o <= z
  <2>1. CASE f = NoBuff
    <3>1. o = 0
      BY <2>1, NoneIs
    <3> HIDE DEF o, z
    <3> QED BY <1>1, <3>1
  <2>2. CASE f # NoBuff
    BY <2>2 DEF Chunk
  <2> QED BY <2>1, <2>2
<1>3. Rest(f) = Sub(d, o, z)
  BY <1>1, <1>2, TakeDrop DEF Rest
<1>4. z <= Len(d)
  BY <1>1
<1> HIDE DEF d, o, z
<1>5. Sub(d, o, z) \in Seq(Byte) /\ Len(Sub(d, o, z)) = z - o
  BY <1>1, <1>2, <1>4, SubIs
<1>6. Rest(f) \in Seq(Byte) /\ Len(Rest(f)) = z - o
  BY <1>3, <1>5
<1>7. f = NoBuff => Rest(f) = <<>>
  <2> SUFFICES ASSUME f = NoBuff PROVE Rest(f) = <<>>
    OBVIOUS
  <2>1. d = <<>> /\ o = 0
    BY NoneIs DEF d, o
  <2>2. Len(<<>>) = 0
    OBVIOUS
  <2>3. z - o = 0
    BY <2>1, <2>2 DEF z
  <2> QED BY <1>6, <2>3, EmptySeq
<1> QED BY <1>2, <1>6, <1>7 DEF d, o, z

\* A tunnel that may be deleted: the client is closed with a RST only if the
\* server has failed, and a chunk is dropped only if one of the ends has.
Shut(s, c, r) ==
    /\ s.k[c].st = "up" /\ s.k[r].st = "up" /\ s.k[c].low = FALSE /\ s.k[r].linger = FALSE
    /\ s.k[c].linger \/ s.k[r].err => "server_reset" \in s.h
    /\ Queued(s.k[c]) /\ Queued(s.k[r])
    /\ s.k[c].rx \in Seq(Byte) /\ s.k[r].rx \in Seq(Byte)
    /\ Chunk(s.e[c].buff) /\ Chunk(s.e[r].buff)
    /\ Down(s, c, r) /\ Up(s, c, r)
    /\ s.k[r].low => Holds(s.e[c])
    /\ s.h \subseteq {"server_closed"} \cup Lossy => s.e[r].buff = NoBuff
    /\ s.h \subseteq {"client_closed"} \cup Stalls =>
         s.e[c].buff = NoBuff /\ (s.k[c].err => s.k[c].rx = <<>>)

\* Once both sides of a tunnel that shuts are closed, what the ends got is final.
LEMMA ShutFinal ==
  ASSUME NEW s \in StateT, NEW c \in Slots, NEW r \in Slots, c # r, Shut(s, c, r),
         NEW t, Gone(s, t, c, r)
  PROVE  Final(t.w, t.h)
<1> DEFINE kc == s.k[c]
           kr == s.k[r]
           vc == s.e[c]
           vr == s.e[r]
           g == s.w.sgot
           a == s.w.agot
           lc == Rest(vc.buff)
           lr == Rest(vr.buff)
<1>1. kc \in SockT /\ kr \in SockT /\ vc \in EvalT /\ vr \in EvalT /\ s.w \in NetT
  BY StateIs
<1>2. g \in Seq(Byte) /\ a \in Seq(Byte) /\ s.w.up \in Nat /\ s.w.down \in Nat
  BY <1>1, NetIs
<1>3. kc.tx \in Seq(Byte) /\ kr.tx \in Seq(Byte) /\ vc.buff \in BuffT /\ vr.buff \in BuffT
  BY <1>1, SockIs, EvalIs
<1>4. /\ lc \in Seq(Byte) /\ lr \in Seq(Byte) /\ (vc.buff = NoBuff => lc = <<>>)
      /\ (vr.buff = NoBuff => lr = <<>>)
  BY <1>3, RestOf DEF Shut
<1>5. kc.rx \in Seq(Byte) /\ kr.rx \in Seq(Byte)
  BY DEF Shut
<1>6. /\ t.h = s.h \cup ResetAt(kc) \cup ResetAt(kr)
      /\ t.w.up = s.w.up /\ t.w.down = s.w.down
      /\ t.w.sgot = Cat(g, Delivered(kr)) /\ t.w.agot = Cat(a, Delivered(kc))
  BY DEF Gone
<1>7. /\ Delivered(kc) = <<>> \/ (Delivered(kc) = kc.tx /\ ~kc.err)
      /\ Delivered(kr) = <<>> \/ (Delivered(kr) = kr.tx /\ ~kr.err)
  BY DEF Delivered
<1>8. Cat(a, <<>>) = a /\ Cat(g, <<>>) = g
  BY <1>2, CatNone
<1>9. /\ Partly(a, s.w.down)
      /\ ~kc.err \/ "client_reset" \notin s.h => Flow(a, kc.tx, lr, kr.rx, s.w.down)
  BY DEF Shut, Down
<1>10. s.h \cap LostUp = {} => /\ Partly(g, s.w.up)
                               /\ ~kr.err => Flow(g, kr.tx, lc, kc.rx, s.w.up)
  BY DEF Shut, Up
<1>11. Flow(a, kc.tx, lr, kr.rx, s.w.down) =>
         /\ Partly(Cat(a, kc.tx), s.w.down)
         /\ lr = <<>> /\ kr.rx = <<>> => Whole(Cat(a, kc.tx), s.w.down)
  <2> DEFINE tx == kc.tx
             rx == kr.rx
             n == s.w.down
  <2> HIDE DEF kc, kr, a, lr, tx, rx, n
  <2>1. tx \in Seq(Byte) /\ rx \in Seq(Byte) /\ n \in Nat
    BY <1>2, <1>3, <1>5 DEF tx, rx, n
  <2>2. Flow(a, tx, lr, rx, n) => Partly(Cat(a, tx), n) /\ (lr = <<>> /\ rx = <<>> => Whole(Cat(a, tx), n))
    BY <1>2, <1>4, <2>1, FlowClose
  <2> QED BY <2>2 DEF tx, rx, n
<1>12. Flow(g, kr.tx, lc, kc.rx, s.w.up) =>
         /\ Partly(Cat(g, kr.tx), s.w.up)
         /\ lc = <<>> /\ kc.rx = <<>> => Whole(Cat(g, kr.tx), s.w.up)
  <2> DEFINE tx == kr.tx
             rx == kc.rx
             n == s.w.up
  <2> HIDE DEF kc, kr, g, lc, tx, rx, n
  <2>1. tx \in Seq(Byte) /\ rx \in Seq(Byte) /\ n \in Nat
    BY <1>2, <1>3, <1>5 DEF tx, rx, n
  <2>2. Flow(g, tx, lc, rx, n) => Partly(Cat(g, tx), n) /\ (lc = <<>> /\ rx = <<>> => Whole(Cat(g, tx), n))
    BY <1>2, <1>4, <2>1, FlowClose
  <2> QED BY <2>2 DEF tx, rx, n
<1>13. /\ kc.st = "up" /\ kr.st = "up" /\ kc.low = FALSE /\ kr.linger = FALSE
       /\ kc.linger \/ kr.err => "server_reset" \in s.h
       /\ kc.err => kc.tx = <<>>
       /\ kr.low => Holds(vc)
       /\ s.h \subseteq {"server_closed"} \cup Lossy => vr.buff = NoBuff
       /\ s.h \subseteq {"client_closed"} \cup Stalls =>
            vc.buff = NoBuff /\ (kc.err => kc.rx = <<>>)
  BY DEF Shut, Queued
<1>14. /\ kc.linger \/ kc.rx # <<>> => kc.err \/ "reset_at_close" \in t.h
       /\ kr.linger \/ kr.rx # <<>> => kr.err \/ "reset_at_close" \in t.h
  BY <1>6 DEF ResetAt
<1>15. vc.buff = NoBuff => ~Holds(vc)
  BY NoneIs DEF Holds
<1> HIDE DEF kc, kr, vc, vr, g, a, lc, lr
<1>16. Partly(t.w.agot, t.w.down)
  <2>1. CASE Delivered(kc) = <<>>
    BY <1>6, <1>8, <1>9, <2>1
  <2>2. CASE Delivered(kc) = kc.tx /\ ~kc.err
    BY <1>6, <1>9, <1>11, <2>2
  <2> QED BY <1>7, <2>1, <2>2
<1>17. t.h \cap LostUp = {} => Partly(t.w.sgot, t.w.up)
  <2> SUFFICES ASSUME t.h \cap LostUp = {} PROVE Partly(t.w.sgot, t.w.up)
    OBVIOUS
  <2>0. s.h \cap LostUp = {}
    BY <1>6
  <2>1. CASE Delivered(kr) = <<>>
    BY <1>6, <1>8, <1>10, <2>0, <2>1
  <2>2. CASE Delivered(kr) = kr.tx /\ ~kr.err
    BY <1>6, <1>10, <1>12, <2>0, <2>2
  <2> QED BY <1>7, <2>1, <2>2
<1>18. t.h \subseteq {"server_closed"} \cup Lossy => Whole(t.w.agot, t.w.down)
  <2> SUFFICES ASSUME t.h \subseteq {"server_closed"} \cup Lossy PROVE Whole(t.w.agot, t.w.down)
    OBVIOUS
  <2>1. s.h \subseteq {"server_closed"} \cup Lossy
    BY <1>6
  <2>2. "reset_at_close" \notin t.h /\ "server_reset" \notin s.h /\ "client_reset" \notin s.h
    BY <2>1 DEF Lossy
  <2>3. vr.buff = NoBuff /\ ~kc.linger /\ ~kr.err /\ kr.rx = <<>> /\ (kc.rx = <<>> \/ kc.err)
    BY <1>13, <1>14, <2>1, <2>2
  <2>4. Whole(Cat(a, kc.tx), s.w.down)
    BY <1>4, <1>9, <1>11, <2>2, <2>3
  <2>5. Delivered(kc) = kc.tx
    BY <1>13, <2>3 DEF Delivered
  <2> QED BY <1>6, <2>4, <2>5
<1>19. t.h \subseteq {"client_closed", "crossed", "blocked_after_wait"} => Whole(t.w.sgot, t.w.up)
  <2> SUFFICES ASSUME t.h \subseteq {"client_closed", "crossed", "blocked_after_wait"}
               PROVE Whole(t.w.sgot, t.w.up)
    OBVIOUS
  <2>1. s.h \subseteq {"client_closed"} \cup Stalls
    BY <1>6 DEF Stalls
  <2>2. "reset_at_close" \notin t.h /\ "server_reset" \notin s.h /\ s.h \cap LostUp = {}
    BY <2>1 DEF Stalls, LostUp
  <2>3. vc.buff = NoBuff /\ ~kc.linger /\ ~kr.err /\ kr.rx = <<>> /\ kc.rx = <<>>
    BY <1>13, <1>14, <2>1, <2>2
  <2>4. Whole(Cat(g, kr.tx), s.w.up)
    BY <1>4, <1>10, <1>12, <2>2, <2>3
  <2>5. Delivered(kr) = kr.tx
    BY <1>13, <1>15, <2>3 DEF Delivered
  <2> QED BY <1>6, <2>4, <2>5
<1> QED BY <1>16, <1>17, <1>18, <1>19 DEF Final

\* Deleting such a tunnel leaves no connection.
LEMMA DelShut ==
  ASSUME NEW s \in StateT, s.x = {}, Events(s), NEW c \in Slots, NEW r \in Slots, c # r,
         Paired(s, c, r), Shut(s, c, r), NEW i \in {c, r}, NEW pp
  PROVE  Good(pp, del_event(s, i), NoRun) /\ Loose(del_event(s, i))
<1> DEFINE t == del_event(s, i)
<1>1. Gone(s, t, c, r)
  BY DelPair
<1> HIDE DEF t
<1>2. Final(t.w, t.h)
  BY <1>1, ShutFinal
<1>3. Good(pp, t, NoRun) /\ Loose(t)
  BY <1>1, <1>2, GoneLoose
<1> QED BY <1>3 DEF t

\* handle_err(): the client is closed with a RST if the server has failed.
LEMMA ErrShut ==
  ASSUME NEW s \in StateT, s.x = {}, Events(s), NEW c \in Slots, NEW r \in Slots, c # r,
         Paired(s, c, r), Shut(s, c, r), NEW i \in {c, r}, NEW event \in {c, r}, NEW pp,
         i = r => "server_reset" \in s.h
  PROVE  Good(pp, handle_err(s, i, event), NoRun)
<1>1. CASE i = c
  <2>1. handle_err(s, i, event) = del_event(s, event)
    BY <1>1 DEF handle_err, Paired
  <2> QED BY <2>1, DelShut
<1>2. CASE i = r
  <2> DEFINE l == [s.k[c] EXCEPT !.linger = TRUE]
             u == PutK(s, c, l)
  <2>1. s.e[r].flag = "CONN" /\ s.e[r].pair = c /\ c # 0 /\ c \in Slots
    BY OtherSlot DEF Paired
  <2>2. handle_err(s, i, event) = del_event(u, event)
    BY <1>2, <2>1 DEF handle_err, on_torst, PutK
  <2>3. s.k[c] \in SockT
    BY StateIs
  <2>4. /\ l \in SockT /\ l.st = s.k[c].st /\ l.rx = s.k[c].rx /\ l.eof = s.k[c].eof
        /\ l.err = s.k[c].err /\ l.tx = s.k[c].tx /\ l.unsent = s.k[c].unsent /\ l.low = s.k[c].low
    BY <2>3 DEF SockT
  <2> HIDE DEF l
  <2>5. /\ u \in StateT /\ u.k[c] = l /\ u.k[r] = s.k[r] /\ u.b = s.b /\ u.e = s.e /\ u.w = s.w
        /\ u.h = s.h /\ u.x = s.x
    BY <2>4, PutKIs
  <2> HIDE DEF u
  <2>6. Paired(u, c, r) /\ Events(u) /\ u.x = {}
    BY <2>5 DEF Paired, Events
  <2>7. Queued(l)
    BY <2>4 DEF Shut, Queued
  <2>8. Down(u, c, r) /\ Up(u, c, r)
    BY <2>4, <2>5 DEF Shut, Down, Up
  <2>9. Shut(u, c, r)
    BY <1>2, <2>4, <2>5, <2>7, <2>8 DEF Shut
  <2> QED BY <2>2, <2>5, <2>6, <2>9, DelShut
<1> QED BY <1>1, <1>2

\* When a tunnel may be deleted.
LEMMA RelayShut ==
  ASSUME NEW s \in StateT, NEW c \in Slots, NEW r \in Slots, NEW pp, Relay(pp, s, c, r),
         s.h \subseteq {"server_closed"} \cup Lossy => s.e[r].buff = NoBuff,
         s.h \subseteq {"client_closed"} \cup Stalls =>
           s.e[c].buff = NoBuff /\ (s.k[c].err => s.k[c].rx = <<>>)
  PROVE  Paired(s, c, r) /\ Shut(s, c, r)
<1>1. Paired(s, c, r)
  BY DEF Relay, Ends, Paired
<1>2. s.k[r].low => Holds(s.e[c])
  BY DEF Relay, Parts
<1>3. s.k[c].low \in BOOLEAN /\ s.k[r].linger \in BOOLEAN
  <2>1. s.k[c] \in SockT /\ s.k[r] \in SockT
    BY StateIs
  <2> QED BY <2>1, SockIs
<1>4. /\ s.k[c].st = "up" /\ s.k[r].st = "up" /\ s.k[c].low = FALSE /\ s.k[r].linger = FALSE
      /\ s.k[c].linger \/ s.k[r].err => "server_reset" \in s.h
  BY <1>3 DEF Relay, Ends
<1>5. Shut(s, c, r)
  BY <1>2, <1>4 DEF Relay, Account, Shut
<1> QED BY <1>1, <1>5

-----------------------------------------------------------------------------
(* Steps of the loop.                                                      *)

\* The next state is as good as the one a handler ends in.
LEMMA InvNext ==
  ASSUME NEW t, Become(t), parts \in Configs, parts' = parts, Good(parts, t, run'),
         brk' \in [set : BOOLEAN, gone : BOOLEAN], brk'.set => run' = NoRun
  PROVE  LoopInv'
<1>1. Cur' = t
  BY BecomeIs DEF Good
<1> QED BY <1>1 DEF LoopInv

\* The phase is told by the handlers.
LEMMA PhaseIs ==
  ASSUME LoopInv, NEW i \in Slots
  PROVE  /\ Cur \in StateT /\ Cur.x = {} /\ Events(Cur)
         /\ ev[i].cb = "on_request" => Loose(Cur) /\ run = NoRun /\ IsClient(ev[i], sk[i])
         /\ ev[i].cb = "on_connect" =>
              \E c \in Slots : c # i /\ Joining(Cur, c, i) /\ run = NoRun
         /\ ev[i].cb = "on_ignore" =>
              \E r \in Slots : r # i /\ Joining(Cur, i, r) /\ run = NoRun
         /\ ev[i].cb = "on_tunnel" =>
              \E c, r \in Slots : c # r /\ Tunnel(parts, Cur, run, c, r)
<1>1. Good(parts, Cur, run) /\ Cur.e = ev /\ Cur.k = sk
  BY CurIs DEF LoopInv
<1>2. Cur \in StateT /\ Cur.x = {} /\ Events(Cur)
  BY <1>1 DEF Good
<1>3. CASE Loose(Cur) /\ run = NoRun
  <2>1. IsFree(ev[i], sk[i]) \/ IsClient(ev[i], sk[i])
    BY <1>1, <1>3 DEF Loose
  <2>2. ev[i].cb \in {"none", "on_request"} /\ (ev[i].cb = "on_request" => IsClient(ev[i], sk[i]))
    BY <2>1 DEF IsFree, IsClient
  <2> QED BY <1>2, <1>3, <2>2
<1>4. CASE \E c, r \in Slots : c # r /\ Joining(Cur, c, r) /\ run = NoRun
  <2>1. PICK c \in Slots, r \in Slots : c # r /\ Joining(Cur, c, r) /\ run = NoRun
    BY <1>4
  <2>2. ev[c].cb = "on_ignore" /\ ev[r].cb = "on_connect" /\ (i = c \/ i = r)
    BY <1>1, <2>1, OtherSlot DEF Joining
  <2> QED BY <1>2, <2>1, <2>2
<1>5. CASE \E c, r \in Slots : c # r /\ Tunnel(parts, Cur, run, c, r)
  <2>1. PICK c \in Slots, r \in Slots : c # r /\ Tunnel(parts, Cur, run, c, r)
    BY <1>5
  <2>2. ev[c].cb = "on_tunnel" /\ ev[r].cb = "on_tunnel" /\ (i = c \/ i = r)
    BY <1>1, <2>1, OtherSlot DEF Tunnel, Relay, Ends
  <2> QED BY <1>2, <1>5, <2>2
<1> QED BY <1>1, <1>3, <1>4, <1>5 DEF Good

\* The event that is handled leaves the batch; it is not an old one.
LEMMA TookIs ==
  ASSUME LoopInv, NEW b \in batch
  PROVE  /\ Took(b) \in StateT /\ Took(b).e = ev /\ Took(b).k = sk /\ Took(b).w = net
         /\ Took(b).h = causes /\ Took(b).x = {} /\ Took(b).b = batch \ {b} /\ Events(Took(b))
         /\ b.s # 0 /\ ~ev[b.s].stamp => Sound(Took(b), b) = Took(b)
         /\ \A x \in batch \ {b} : x.s # b.s
         /\ b.s \in {0} \cup Slots
<1>1. Cur \in StateT /\ Cur.x = {} /\ Events(Cur)
  BY DEF LoopInv, Good
<1>2. Cur.e = ev /\ Cur.k = sk /\ Cur.w = net /\ Cur.h = causes /\ Cur.b = batch
  BY CurIs
<1> DEFINE B == batch \ {b}
           t == PutB(Cur, B)
<1>3. Took(b) = t
  BY <1>2 DEF Took, PutB
<1>4. B \in SUBSET EventT /\ b \in EventT
  BY <1>1, <1>2, StateIs
<1> HIDE DEF B
<1>5. t \in StateT /\ t.b = B /\ t.e = Cur.e /\ t.k = Cur.k /\ t.w = Cur.w /\ t.h = Cur.h /\ t.x = Cur.x
  BY <1>1, <1>4, PutBIs
<1> HIDE DEF t
<1>6. Events(t)
  BY <1>1, <1>2, <1>5 DEF Events, B
<1>7. \A x \in B : x.s # b.s
  BY <1>1, <1>2 DEF Events, B
<1>8. b.s # 0 /\ ~ev[b.s].stamp => ~b.old
  BY <1>1, <1>2 DEF Events
<1>9. b.s # 0 /\ ~ev[b.s].stamp => Sound(Took(b), b) = Took(b)
  BY <1>8 DEF Sound, Check
<1>10. b.s \in {0} \cup Slots
  BY <1>4, EventIs
<1> QED BY <1>1, <1>2, <1>3, <1>5, <1>6, <1>7, <1>9, <1>10 DEF B

\* More causes excuse more.
LEMMA FinalMore ==
  ASSUME NEW w, NEW h, NEW g, h \subseteq g, Final(w, h)
  PROVE  Final(w, g)
<1>1. Partly(w.agot, w.down)
  BY DEF Final
<1>2. g \subseteq {"server_closed"} \cup Lossy => Whole(w.agot, w.down)
  <2>1. g \subseteq {"server_closed"} \cup Lossy => h \subseteq {"server_closed"} \cup Lossy
    OBVIOUS
  <2> QED BY <2>1 DEF Final
<1>3. g \cap LostUp = {} => Partly(w.sgot, w.up)
  <2>1. g \cap LostUp = {} => h \cap LostUp = {}
    OBVIOUS
  <2> QED BY <2>1 DEF Final
<1>4. g \subseteq {"client_closed", "crossed", "blocked_after_wait"} => Whole(w.sgot, w.up)
  <2>1. g \subseteq {"client_closed", "crossed", "blocked_after_wait"} =>
          h \subseteq {"client_closed", "crossed", "blocked_after_wait"}
    OBVIOUS
  <2> QED BY <2>1 DEF Final
<1> QED BY <1>1, <1>2, <1>3, <1>4 DEF Final

\* Nothing was sent, nothing is lost.
LEMMA FinalNone ==
  ASSUME NEW h
  PROVE  Final(NoNet, h)
<1>1. NoNet.sgot = <<>> /\ NoNet.agot = <<>> /\ NoNet.up = 0 /\ NoNet.down = 0
  BY DEF NoNet
<1>2. Partly(<<>>, 0) /\ Whole(<<>>, 0)
  BY DEF Partly, Whole, Counts
<1> QED BY <1>1, <1>2 DEF Final

\* A client without a connection is deleted.
LEMMA DelClient ==
  ASSUME NEW s \in StateT, s.x = {}, Events(s), Loose(s), NEW i \in Slots,
         IsClient(s.e[i], s.k[i]), NEW pp
  PROVE  Good(pp, del_event(s, i), NoRun) /\ Loose(del_event(s, i))
<1> DEFINE t == del_event(s, i)
<1>1. s.e[i].pair = 0 /\ s.e[i].live /\ s.e[i].flag # "CONN" /\ s.k[i].tx = <<>>
  BY DEF IsClient, Quiet
<1>2. t = Release(s, i)
  BY <1>1 DEF del_event
<1>3. s.w \in NetT /\ s.k[i] \in SockT /\ s.b \in SUBSET EventT
  BY StateIs
<1>4. /\ t \in StateT /\ t.e[i] = Dead /\ t.k[i] = NoSocket
      /\ \A j \in Slots : j # i => t.e[j] = s.e[j] /\ t.k[j] = s.k[j]
      /\ t.b = Aged(s.b, i) /\ t.x = s.x /\ t.h = s.h \cup ResetAt(s.k[i])
      /\ t.w = Paid(s.w, s.e[i].flag, Delivered(s.k[i]))
  BY <1>1, <1>2, ReleaseIs
<1>5. t.w = s.w
  <2>1. Delivered(s.k[i]) = <<>>
    BY <1>1 DEF Delivered
  <2>2. Cat(s.w.agot, <<>>) = s.w.agot
    BY <1>3, NetIs, CatNone
  <2>3. t.w = [s.w EXCEPT !.agot = s.w.agot]
    BY <1>1, <1>4, <2>1, <2>2 DEF Paid
  <2> HIDE DEF t
  <2> QED BY <1>3, <2>3 DEF NetT
<1> HIDE DEF t
<1>6. \A j \in Slots : IsFree(t.e[j], t.k[j]) \/ IsClient(t.e[j], t.k[j])
  BY <1>4, DeadIs DEF Loose
<1>7. Final(t.w, t.h)
  BY <1>4, <1>5, FinalMore DEF Loose
<1>8. (\E j \in Slots : ~t.e[j].stamp) => t.w = NoNet
  BY <1>4, <1>5, DeadIs DEF Loose
<1>9. Loose(t)
  BY <1>6, <1>7, <1>8 DEF Loose
<1>10. Events(t)
  <2>1. \A x, y \in s.b : x.s = y.s => x = y
    BY DEF Events
  <2>2. /\ \A x, y \in t.b : x.s = y.s => x = y
        /\ \A x \in t.b : \E b \in s.b : x.s = b.s /\ (x.old <=> b.old \/ b.s = i)
    BY <1>3, <1>4, <2>1, AgedIs
  <2>3. ASSUME NEW x \in t.b, x.old PROVE x.s \in Slots /\ t.e[x.s].stamp
    <3>1. PICK b \in s.b : x.s = b.s /\ (b.old \/ b.s = i)
      BY <2>2, <2>3
    <3> QED BY <1>4, <3>1, DeadIs DEF Events
  <2> QED BY <2>2, <2>3 DEF Events
<1>11. Good(pp, t, NoRun)
  BY <1>4, <1>9, <1>10 DEF Good
<1> QED BY <1>9, <1>11 DEF t

\* A free slot.
LEMMA NextFreeIs ==
  ASSUME NEW s, Free(s) # {}
  PROVE  NextFree(s) \in Slots /\ ~s.e[NextFree(s)].live
<1>1. Free(s) \subseteq {1, 2}
  BY DEF Free, Slots
<1>2. \E i \in Free(s) : \A j \in Free(s) : i <= j
  <2>1. CASE 1 \in Free(s)
    <3>1. \A j \in Free(s) : 1 <= j
      BY <1>1
    <3> QED BY <2>1, <3>1
  <2>2. CASE 1 \notin Free(s)
    <3>1. Free(s) = {2}
      BY <1>1, <2>2
    <3>2. 2 <= 2
      OBVIOUS
    <3> QED BY <3>1, <3>2
  <2> QED BY <2>1, <2>2
<1>3. NextFree(s) \in Free(s)
  BY <1>2 DEF NextFree
<1> QED BY <1>3 DEF Free

\* A new eval and its socket.
Fresh(cb, out) == [NoEval EXCEPT !.live = TRUE, !.cb = cb, !.out = out, !.stamp = TRUE]
Made(st) == [NoSocket EXCEPT !.st = st]

\* What add_event() makes of a free slot and of the socket it watches.
LEMMA FreshIs ==
  ASSUME NEW cb \in {"on_request", "on_connect"}, NEW out \in BOOLEAN,
         NEW st \in {"up", "connecting"}
  PROVE  /\ Fresh(cb, out) \in EvalT /\ Made(st) \in SockT /\ Quiet(Fresh(cb, out), Made(st))
         /\ Fresh(cb, out).live = TRUE /\ Fresh(cb, out).cb = cb /\ Fresh(cb, out).out = out
         /\ Fresh(cb, out).flag = "none" /\ Fresh(cb, out).pair = 0 /\ Fresh(cb, out).stamp = TRUE
         /\ Made(st).st = st /\ Made(st).rx = <<>> /\ Made(st).eof = FALSE /\ Made(st).err = FALSE
<1>1. Fresh(cb, out) \in EvalT
  BY NoneIs DEF Fresh, EvalT
<1>2. Made(st) \in SockT
  BY NoneIs DEF Made, SockT
<1>3. /\ Fresh(cb, out).live = TRUE /\ Fresh(cb, out).cb = cb /\ Fresh(cb, out).out = out
      /\ Fresh(cb, out).flag = "none" /\ Fresh(cb, out).pair = 0 /\ Fresh(cb, out).stamp = TRUE
  BY DEF Fresh, NoEval
<1>4. Made(st).st = st /\ Made(st).rx = <<>> /\ Made(st).eof = FALSE /\ Made(st).err = FALSE
  BY DEF Made, NoSocket
<1>5. Quiet(Fresh(cb, out), Made(st))
  BY DEF Fresh, Made, NoEval, NoSocket, Quiet
<1> QED BY <1>1, <1>2, <1>3, <1>4, <1>5

\* add_event() fills a free slot and leaves the other alone.
LEMMA AddIs ==
  ASSUME NEW s \in StateT, Free(s) # {}, NEW cb \in {"on_request", "on_connect"},
         NEW st \in {"up", "connecting"}, NEW out \in BOOLEAN
  PROVE  LET i == NextFree(s)
             t == add_event(s, cb, st, out)
         IN  /\ i \in Slots /\ ~s.e[i].live
             /\ t \in StateT /\ t.e[i] = Fresh(cb, out) /\ t.k[i] = Made(st)
             /\ \A j \in Slots : j # i => t.e[j] = s.e[j] /\ t.k[j] = s.k[j]
             /\ t.b = s.b /\ t.w = s.w /\ t.h = s.h /\ t.x = s.x
<1> DEFINE i == NextFree(s)
           t == add_event(s, cb, st, out)
           v == Fresh(cb, out)
           l == Made(st)
           u == PutE(s, i, v)
<1>1. i \in Slots /\ ~s.e[i].live
  BY NextFreeIs
<1>2. v \in EvalT /\ l \in SockT
  BY FreshIs
<1>3. t = [s EXCEPT !.e[i] = v, !.k[i] = l]
  BY DEF add_event, Fresh, Made
<1> HIDE DEF i, v, l
<1>4. t = PutK(u, i, l)
  BY <1>3 DEF PutE, PutK
<1>5. /\ u \in StateT /\ u.e[i] = v /\ u.b = s.b /\ u.k = s.k /\ u.w = s.w /\ u.h = s.h /\ u.x = s.x
      /\ \A j \in Slots : j # i => u.e[j] = s.e[j]
  BY <1>1, <1>2, PutEIs
<1> HIDE DEF u
<1>6. /\ PutK(u, i, l) \in StateT /\ PutK(u, i, l).k[i] = l /\ PutK(u, i, l).b = u.b
      /\ PutK(u, i, l).e = u.e /\ PutK(u, i, l).w = u.w /\ PutK(u, i, l).h = u.h
      /\ PutK(u, i, l).x = u.x
      /\ \A j \in Slots : j # i => PutK(u, i, l).k[j] = u.k[j]
  BY <1>1, <1>2, <1>5, PutKIs
<1> HIDE DEF t
<1>7. /\ i \in Slots /\ ~s.e[i].live
      /\ t \in StateT /\ t.e[i] = v /\ t.k[i] = l
      /\ \A j \in Slots : j # i => t.e[j] = s.e[j] /\ t.k[j] = s.k[j]
      /\ t.b = s.b /\ t.w = s.w /\ t.h = s.h /\ t.x = s.x
  BY <1>1, <1>4, <1>5, <1>6
<1> QED BY <1>7 DEF i, t, v, l

\* Evals that differ in their stamp only.
Alike(u, v) ==
    /\ u.live = v.live /\ u.cb = v.cb /\ u.flag = v.flag /\ u.pair = v.pair /\ u.out = v.out
    /\ u.buff = v.buff /\ u.round_sent = v.round_sent /\ u.round_count = v.round_count
    /\ u.part_sent = v.part_sent /\ u.timer = v.timer

\* Of a tunnel's bytes and parts the events tell nothing, and more causes ask less.
LEMMA RelaySame ==
  ASSUME NEW pp, NEW s, NEW t, NEW c, NEW r, Alike(t.e[c], s.e[c]), Alike(t.e[r], s.e[r]),
         t.k = s.k, t.w = s.w, s.h \subseteq t.h, Relay(pp, s, c, r)
  PROVE  Relay(pp, t, c, r)
<1>1. /\ "client_reset" \in s.h => "client_reset" \in t.h
      /\ "server_reset" \in s.h => "server_reset" \in t.h
      /\ "server_closed" \in s.h => "server_closed" \in t.h
      /\ t.h \cap LostUp = {} => s.h \cap LostUp = {}
  OBVIOUS
<1>2. Ends(t, c, r) /\ Down(t, c, r) /\ Up(t, c, r)
  BY <1>1 DEF Relay, Ends, Down, Up, Alike
<1>3. Parts(pp, t, c, r)
  BY DEF Relay, Parts, First, Alike, Holds, InParts
<1>4. PartDone(pp, t, c)
  BY <1>1 DEF Relay, PartDone, First, Alike, Holds
<1>5. Account(t.e[c], t.k[c], t.w.up) /\ Account(t.e[r], t.k[r], t.w.down)
  BY DEF Relay, Account, Alike
<1> QED BY <1>2, <1>3, <1>4, <1>5 DEF Relay

\* A tunnel but for its events.
LEMMA TunnelSame ==
  ASSUME NEW pp, NEW s, NEW t, NEW rn, NEW c, NEW r, Alike(t.e[c], s.e[c]), Alike(t.e[r], s.e[r]),
         t.k = s.k, t.w = s.w, s.h \subseteq t.h, Tunnel(pp, s, rn, c, r), EarlyEnd(t, rn, c, r)
  PROVE  Tunnel(pp, t, rn, c, r)
<1>1. Relay(pp, t, c, r)
  BY RelaySame DEF Tunnel
<1>2. t.h \cap Stalls = {} => s.h \cap Stalls = {}
  OBVIOUS
<1>3. Wakes(t, c, r) /\ Wakes(t, r, c) /\ TimerHolds(t, c, r)
  BY <1>2 DEF Tunnel, Wakes, TimerHolds, Alike, Holds
<1>4. Reading(t, rn, c, r)
  BY DEF Tunnel, Reading, Alike
<1> QED BY <1>1, <1>3, <1>4 DEF Tunnel

\* An event that tells nothing of a live eval may go.
LEMMA FewerEvents ==
  ASSUME NEW pp, NEW rn, NEW s, NEW t \in StateT, t.e = s.e, t.k = s.k, t.w = s.w, t.h = s.h,
         t.x = s.x, t.b \subseteq s.b, \A c \in Slots : Noticed(s, c) => Noticed(t, c),
         Good(pp, s, rn)
  PROVE  Good(pp, t, rn)
<1>1. t.x = {} /\ Events(t)
  BY DEF Good, Events
<1>2. CASE Loose(s) /\ rn = NoRun
  <2>1. Loose(t)
    BY <1>2 DEF Loose
  <2> QED BY <1>1, <1>2, <2>1 DEF Good
<1>3. ASSUME NEW c \in Slots, NEW r \in Slots, c # r, Joining(s, c, r), rn = NoRun
      PROVE  Good(pp, t, rn)
  <2>1. Joining(t, c, r)
    BY <1>3 DEF Joining
  <2> QED BY <1>1, <1>3, <2>1 DEF Good
<1>4. ASSUME NEW c \in Slots, NEW r \in Slots, c # r, Tunnel(pp, s, rn, c, r)
      PROVE  Good(pp, t, rn)
  <2>1. EarlyEnd(t, rn, c, r)
    BY <1>4 DEF Tunnel, EarlyEnd
  <2>2. Tunnel(pp, t, rn, c, r)
    BY <1>4, <2>1, TunnelSame DEF Alike
  <2> QED BY <1>1, <1>4, <2>2 DEF Good
<1> QED BY <1>2, <1>3, <1>4 DEF Good

\* So may one of the listener or of a new eval.
LEMMA TookGood ==
  ASSUME LoopInv, NEW b \in batch, b.s = 0 \/ ev[b.s].stamp
  PROVE  Good(parts, Took(b), run)
<1> DEFINE t == Took(b)
<1>1. /\ t \in StateT /\ t.e = ev /\ t.k = sk /\ t.w = net /\ t.h = causes /\ t.x = {}
      /\ t.b = batch \ {b}
  BY TookIs
<1> HIDE DEF t
<1>2. Good(parts, Cur, run) /\ Cur.x = {}
  BY DEF LoopInv, Good
<1>3. /\ t.e = Cur.e /\ t.k = Cur.k /\ t.w = Cur.w /\ t.h = Cur.h /\ t.x = Cur.x
      /\ t.b = Cur.b \ {b}
  BY <1>1, <1>2, CurIs
<1>4. ASSUME NEW c \in Slots, Noticed(Cur, c)
      PROVE  Noticed(t, c)
  <2>1. ~Cur.e[c].stamp
    BY <1>4 DEF Noticed
  <2>2. PICK x \in Cur.b : x.s = c /\ "out" \notin x.type
    BY <1>4 DEF Noticed
  <2>3. x # b
    BY <2>1, <2>2, CurIs DEF Slots
  <2> QED BY <1>3, <2>1, <2>2, <2>3 DEF Noticed
<1>5. Good(parts, t, run)
  BY <1>1, <1>2, <1>3, <1>4, FewerEvents
<1> QED BY <1>5 DEF t

\* A step of the loop that leaves pool->brk alone.
LEMMA LoopStep ==
  ASSUME LoopInv, NEW t, Become(t), UNCHANGED <<parts, run, brk>>, Good(parts, t, run)
  PROVE  LoopInv'
BY InvNext DEF LoopInv

\* An event that the loop skips keeps the invariant.
LEMMA SkipKeeps ==
  ASSUME LoopInv, Skip
  PROVE  LoopInv'
<1>1. PICK b \in batch : b.s # 0 /\ ev[b.s].stamp /\ Become(Took(b))
  BY DEF Skip
<1>2. UNCHANGED <<parts, run, brk>>
  BY DEF Skip
<1> QED BY <1>1, <1>2, TookGood, LoopStep

\* on_accept(): there is room only while no connection is made.
LEMMA AcceptKeeps ==
  ASSUME LoopInv, on_accept
  PROVE  LoopInv'
<1>1. PICK b \in batch :
        /\ b.s = 0
        /\ \E fails \in BOOLEAN :
             /\ brk' = [brk EXCEPT !.set = fails]
             /\ Become(IF fails \/ ~backlog \/ Free(Cur) = {} THEN Took(b)
                       ELSE add_event(Took(b), "on_request", "up", FALSE))
  BY DEF on_accept
<1>2. PICK fails \in BOOLEAN :
        /\ brk' = [brk EXCEPT !.set = fails]
        /\ Become(IF fails \/ ~backlog \/ Free(Cur) = {} THEN Took(b)
                  ELSE add_event(Took(b), "on_request", "up", FALSE))
  BY <1>1
<1>3. parts' = parts /\ run' = run /\ run = NoRun /\ parts \in Configs
  BY DEF on_accept, AtLoop, LoopInv
<1>4. brk' \in [set : BOOLEAN, gone : BOOLEAN]
  BY <1>2 DEF LoopInv
<1> DEFINE s == Took(b)
           t == add_event(s, "on_request", "up", FALSE)
<1>5. /\ s \in StateT /\ s.e = ev /\ s.k = sk /\ s.w = net /\ s.h = causes /\ s.x = {}
      /\ s.b = batch \ {b} /\ Events(s)
  BY TookIs
<1>6. Good(parts, s, NoRun)
  BY <1>1, <1>3, TookGood
<1> HIDE DEF s
<1>7. CASE fails \/ ~backlog \/ Free(Cur) = {}
  <2>1. Become(s)
    BY <1>2, <1>7 DEF s
  <2> QED BY <1>3, <1>4, <1>6, <2>1, InvNext
<1>8. CASE ~(fails \/ ~backlog \/ Free(Cur) = {})
  <2>1. Become(t)
    BY <1>2, <1>8 DEF s
  <2>2. Free(s) # {}
    BY <1>5, <1>8, CurIs DEF Free
  <2> DEFINE i == NextFree(s)
             v == Fresh("on_request", FALSE)
             l == Made("up")
  <2>3. /\ i \in Slots /\ ~s.e[i].live
        /\ t \in StateT /\ t.e[i] = v /\ t.k[i] = l
        /\ \A j \in Slots : j # i => t.e[j] = s.e[j] /\ t.k[j] = s.k[j]
        /\ t.b = s.b /\ t.w = s.w /\ t.h = s.h /\ t.x = s.x
    BY <1>5, <2>2, AddIs
  <2>4. IsClient(v, l) /\ v.stamp = TRUE
    BY FreshIs DEF IsClient
  <2> HIDE DEF i, v, l, t
  <2>5. Loose(s)
    <3>1. ASSUME NEW c \in Slots, NEW r \in Slots, c # r, s.e[c].live, s.e[r].live
          PROVE FALSE
      BY <2>3, <3>1, OtherSlot
    <3> QED BY <1>6, <3>1 DEF Good, Joining, Tunnel, Relay, Ends
  <2>6. Loose(t)
    <3>1. \A j \in Slots : IsFree(t.e[j], t.k[j]) \/ IsClient(t.e[j], t.k[j])
      BY <2>3, <2>4, <2>5 DEF Loose
    <3>2. (\E j \in Slots : ~t.e[j].stamp) => t.w = NoNet
      BY <2>3, <2>4, <2>5 DEF Loose
    <3> QED BY <2>3, <2>5, <3>1, <3>2 DEF Loose
  <2>7. Events(t)
    BY <1>5, <2>3, <2>4 DEF Events
  <2>8. Good(parts, t, NoRun)
    BY <1>5, <2>3, <2>6, <2>7 DEF Good
  <2> QED BY <1>3, <1>4, <2>1, <2>8, InvNext
<1> QED BY <1>7, <1>8

\* Setting fields of an eval keeps its type and the other fields.
SetFlag(v, f) == [v EXCEPT !.flag = f]
SetRx(k, q) == [k EXCEPT !.rx = q]
SetTalk(v, p, f, cb, out) == [v EXCEPT !.pair = p, !.flag = f, !.cb = cb, !.out = out]

\* Writing an eval's flag changes nothing else of it.
LEMMA SetFlagIs ==
  ASSUME NEW v \in EvalT, NEW f \in {"none", "S5", "CONN"}
  PROVE  /\ SetFlag(v, f) \in EvalT /\ SetFlag(v, f).flag = f
         /\ SetFlag(v, f).live = v.live /\ SetFlag(v, f).cb = v.cb /\ SetFlag(v, f).pair = v.pair
         /\ SetFlag(v, f).out = v.out /\ SetFlag(v, f).buff = v.buff
         /\ SetFlag(v, f).round_sent = v.round_sent /\ SetFlag(v, f).round_count = v.round_count
         /\ SetFlag(v, f).part_sent = v.part_sent /\ SetFlag(v, f).timer = v.timer
         /\ SetFlag(v, f).stamp = v.stamp
BY DEF SetFlag, EvalT

\* Writing what a socket has received changes nothing else of it.
LEMMA SetRxIs ==
  ASSUME NEW k \in SockT, NEW q \in Seq(Nat)
  PROVE  /\ SetRx(k, q) \in SockT /\ SetRx(k, q).rx = q
         /\ SetRx(k, q).st = k.st /\ SetRx(k, q).eof = k.eof /\ SetRx(k, q).err = k.err
         /\ SetRx(k, q).tx = k.tx /\ SetRx(k, q).unsent = k.unsent /\ SetRx(k, q).low = k.low
         /\ SetRx(k, q).linger = k.linger
BY DEF SetRx, SockT

\* create_conn() pairs the client with a remote that connects.
LEMMA ConnectGood ==
  ASSUME NEW s \in StateT, s.x = {}, Events(s), Loose(s), NEW c \in Slots,
         IsClient(s.e[c], s.k[c]), s.e[c].flag = "S5", s.k[c].rx = <<>>, s.w = NoNet,
         \A x \in s.b : x.s # c, NEW pp
  PROVE  Good(pp, create_conn(s, c), NoRun)
<1>1. CASE Free(s) = {}
  <2>1. create_conn(s, c) = del_event(s, c)
    BY <1>1 DEF create_conn
  <2> QED BY <2>1, DelClient
<1>2. CASE Free(s) # {}
  <2> DEFINE r == NextFree(s)
             t == add_event(s, "on_connect", "connecting", TRUE)
             v == Fresh("on_connect", TRUE)
             l == Made("connecting")
             vc == SetTalk(s.e[c], r, "S5", "on_ignore", FALSE)
             vr == SetTalk(v, c, "CONN", "on_connect", TRUE)
             u == PutE(t, c, vc)
             w == PutE(u, r, vr)
  <2>1. /\ r \in Slots /\ ~s.e[r].live
        /\ t \in StateT /\ t.e[r] = v /\ t.k[r] = l
        /\ \A j \in Slots : j # r => t.e[j] = s.e[j] /\ t.k[j] = s.k[j]
        /\ t.b = s.b /\ t.w = s.w /\ t.h = s.h /\ t.x = s.x
    BY <1>2, AddIs
  <2>2. /\ v \in EvalT /\ l \in SockT /\ Quiet(v, l) /\ v.live = TRUE /\ v.stamp = TRUE
        /\ v.flag = "none" /\ v.pair = 0 /\ v.cb = "on_connect" /\ v.out = TRUE
        /\ l.st = "connecting" /\ l.rx = <<>> /\ l.eof = FALSE /\ l.err = FALSE
    BY FreshIs
  <2>3. /\ s.e[c] \in EvalT /\ s.e[c].live /\ s.e[c].flag = "S5" /\ s.e[c].out = FALSE
        /\ Quiet(s.e[c], s.k[c]) /\ s.k[c].st = "up"
    <3>1. s.e[c] \in EvalT
      BY StateIs
    <3> QED BY <3>1, EvalIs DEF IsClient
  <2>4. c # r
    BY <2>1, <2>3
  <2>5. create_conn(s, c) = [t EXCEPT !.e[c].pair = r, !.e[r].pair = c, !.e[r].flag = "CONN",
                       !.e[c].cb = "on_ignore", !.e[c].out = FALSE]
    BY <1>2 DEF create_conn
  <2> HIDE DEF r, v, l, t
  <2>6. create_conn(s, c) = w
    <3>1. t.e \in [Slots -> EvalT] /\ t.e[c] = s.e[c] /\ t.e[r] = v
      BY <2>1, <2>4, StateIs
    <3>2. [[[[[t.e EXCEPT ![c].pair = r] EXCEPT ![r].pair = c] EXCEPT ![r].flag = "CONN"]
              EXCEPT ![c].cb = "on_ignore"] EXCEPT ![c].out = FALSE]
          = [[t.e EXCEPT ![c] = vc] EXCEPT ![r] = vr]
      <4>1. vc = [[[s.e[c] EXCEPT !.pair = r] EXCEPT !.cb = "on_ignore"] EXCEPT !.out = FALSE]
        BY <2>3 DEF SetTalk, EvalT
      <4>2. vr = [[v EXCEPT !.pair = c] EXCEPT !.flag = "CONN"]
        BY <2>2 DEF SetTalk, EvalT
      <4> HIDE DEF vc, vr
      <4> DEFINE f == [[[[[t.e EXCEPT ![c].pair = r] EXCEPT ![r].pair = c] EXCEPT ![r].flag = "CONN"]
                         EXCEPT ![c].cb = "on_ignore"] EXCEPT ![c].out = FALSE]
                 g == [[t.e EXCEPT ![c] = vc] EXCEPT ![r] = vr]
      <4>3. f \in [Slots -> {f[i] : i \in Slots}] /\ g \in [Slots -> {g[i] : i \in Slots}]
            /\ DOMAIN f = Slots /\ DOMAIN g = Slots
        BY <3>1
      <4>4. f[c] = vc
        BY <2>1, <2>4, <3>1, <4>1
      <4>5. f[r] = vr
        BY <2>1, <2>4, <3>1, <4>2
      <4>6. g[c] = vc /\ g[r] = vr
        BY <2>1, <2>4, <3>1
      <4> HIDE DEF f, g
      <4>7. \A i \in Slots : f[i] = g[i]
        BY <2>1, <2>4, <4>4, <4>5, <4>6, OtherSlot
      <4>8. f = g
        BY <4>3, <4>7
      <4> QED BY <4>8 DEF f, g
    <3> HIDE DEF vc, vr
    <3> QED BY <2>5, <3>2 DEF PutE
  <2>7. /\ vc \in EvalT /\ vc.pair = r /\ vc.flag = "S5" /\ vc.cb = "on_ignore"
        /\ vc.live = s.e[c].live /\ vc.buff = s.e[c].buff /\ vc.round_sent = s.e[c].round_sent
        /\ vc.round_count = s.e[c].round_count /\ vc.part_sent = s.e[c].part_sent
        /\ vc.timer = s.e[c].timer /\ vc.stamp = s.e[c].stamp
    BY <2>1, <2>3 DEF vc, SetTalk, EvalT
  <2>15. ~vc.out
    BY <2>3 DEF vc, SetTalk, EvalT
  <2>8. /\ vr \in EvalT /\ vr.pair = c /\ vr.flag = "CONN" /\ vr.cb = "on_connect"
        /\ vr.live = v.live /\ vr.buff = v.buff /\ vr.round_sent = v.round_sent
        /\ vr.round_count = v.round_count /\ vr.part_sent = v.part_sent
        /\ vr.timer = v.timer /\ vr.stamp = v.stamp
    BY <2>2 DEF vr, SetTalk, EvalT
  <2> HIDE DEF vc, vr
  <2>9. /\ u \in StateT /\ u.e[c] = vc /\ u.e[r] = v /\ u.b = s.b /\ u.k = t.k /\ u.w = s.w
        /\ u.h = s.h /\ u.x = s.x
    BY <2>1, <2>4, <2>7, PutEIs
  <2> HIDE DEF u
  <2>10. /\ w \in StateT /\ w.e[c] = vc /\ w.e[r] = vr /\ w.b = s.b /\ w.w = s.w
         /\ w.h = s.h /\ w.x = s.x /\ w.k[c] = s.k[c] /\ w.k[r] = l
    BY <2>1, <2>4, <2>8, <2>9, PutEIs
  <2> HIDE DEF w
  <2>11. Quiet(vc, s.k[c]) /\ Quiet(vr, l)
    BY <2>2, <2>3, <2>7, <2>8 DEF Quiet
  <2>12. Joining(w, c, r)
    <3>1. /\ w.e[c].live /\ w.e[c].cb = "on_ignore" /\ w.e[c].flag = "S5" /\ w.e[c].pair = r
          /\ w.e[r].live /\ w.e[r].cb = "on_connect" /\ w.e[r].flag = "CONN" /\ w.e[r].pair = c
          /\ w.e[r].stamp
      <4>1. w.e[c].live /\ w.e[r].live /\ w.e[r].stamp
        BY <2>2, <2>3, <2>7, <2>8, <2>10
      <4>2. /\ w.e[c].cb = "on_ignore" /\ w.e[c].flag = "S5" /\ w.e[c].pair = r
            /\ w.e[r].cb = "on_connect" /\ w.e[r].flag = "CONN" /\ w.e[r].pair = c
        BY ONLY <2>7, <2>8, <2>10
      <4> QED BY ONLY <4>1, <4>2
    <3>4. ~w.e[c].out
      BY <2>10, <2>15
    <3>2. /\ Quiet(w.e[c], w.k[c]) /\ Quiet(w.e[r], w.k[r]) /\ w.k[c].st = "up"
          /\ w.k[c].rx = <<>> /\ w.k[r].rx = <<>> /\ w.k[r].st # "closed"
          /\ ~w.k[r].eof /\ ~w.k[r].err /\ w.w = NoNet
      BY <2>2, <2>3, <2>10, <2>11
    <3>3. \A x \in w.b : x.s # c
      BY <2>10
    <3> QED BY <3>1, <3>2, <3>3, <3>4 DEF Joining
  <2>13. Events(w)
    <3>1. ASSUME NEW x \in s.b, x.old PROVE x.s \in Slots /\ w.e[x.s].stamp
      <4>1. x.s \in Slots /\ x.s # c
        BY <3>1 DEF Events
      <4>2. x.s = r
        BY <2>1, <2>4, <4>1, OtherSlot
      <4> QED BY <2>1, <2>2, <2>8, <2>10, <4>2
    <3> QED BY <2>10, <3>1 DEF Events
  <2>14. Good(pp, w, NoRun)
    BY <2>1, <2>4, <2>10, <2>12, <2>13 DEF Good
  <2> QED BY <2>6, <2>14
<1> QED BY <1>1, <1>2

\* on_request(): the client is deleted, greeted, or given a remote.
LEMMA RequestKeeps ==
  ASSUME LoopInv, on_request
  PROVE  LoopInv'
<1>1. PICK b \in batch :
         /\ Sees(b, "on_request")
         /\ LET c == b.s
                s == [Sound(Took(b), b) EXCEPT !.k[c].rx = <<>>]
            IN  \E good \in BOOLEAN :
                  Become(IF sk[c].rx = <<>> \/ ~good THEN del_event(s, c)
                         ELSE IF ev[c].flag = "none" THEN [s EXCEPT !.e[c].flag = "S5"]
                         ELSE create_conn(s, c))
  BY DEF on_request
<1>2. UNCHANGED <<parts, run, brk>>
  BY DEF on_request
<1> DEFINE c == b.s
           t == Took(b)
           l == SetRx(sk[c], <<>>)
           s == PutK(t, c, l)
<1>3. b.s # 0 /\ ~ev[c].stamp /\ ev[c].cb = "on_request"
  BY <1>1 DEF Sees
<1>4. /\ t \in StateT /\ t.e = ev /\ t.k = sk /\ t.w = net /\ t.h = causes /\ t.x = {}
      /\ t.b = batch \ {b} /\ Events(t) /\ Sound(t, b) = t /\ (\A x \in batch \ {b} : x.s # c)
      /\ c \in Slots
  BY <1>3, TookIs
<1>5. Loose(Cur) /\ run = NoRun /\ IsClient(ev[c], sk[c])
  BY <1>3, <1>4, PhaseIs
<1> HIDE DEF t, c
<1>6. [Sound(t, b) EXCEPT !.k[c].rx = <<>>] = s
  BY <1>4 DEF PutK, SetRx
<1>7. /\ l \in SockT /\ l.rx = <<>>
      /\ l.st = sk[c].st /\ l.eof = sk[c].eof /\ l.err = sk[c].err
      /\ l.tx = sk[c].tx /\ l.unsent = sk[c].unsent /\ l.low = sk[c].low /\ l.linger = sk[c].linger
  <2>1. sk[c] \in SockT /\ <<>> \in Seq(Nat)
    BY <1>4, StateIs
  <2> QED BY <2>1, SetRxIs
<1> HIDE DEF l
<1>8. /\ s \in StateT /\ s.k[c] = l /\ (\A j \in Slots : j # c => s.k[j] = sk[j])
      /\ s.b = batch \ {b} /\ s.e = ev /\ s.w = net /\ s.h = causes /\ s.x = {}
  BY <1>4, <1>7, PutKIs
<1>9. Events(s)
  BY <1>4, <1>8 DEF Events
<1>10. IsClient(s.e[c], s.k[c])
  BY <1>5, <1>7, <1>8 DEF IsClient, Quiet
<1>11. Loose(s) /\ s.w = NoNet
  <2>1. /\ \A i \in Slots : IsFree(ev[i], sk[i]) \/ IsClient(ev[i], sk[i])
        /\ Final(net, causes) /\ net = NoNet
    BY <1>3, <1>4, <1>5, CurIs DEF Loose
  <2>2. \A i \in Slots : IsFree(s.e[i], s.k[i]) \/ IsClient(s.e[i], s.k[i])
    BY <1>8, <1>10, <2>1
  <2> QED BY <1>8, <2>1, <2>2 DEF Loose
<1>12. PICK good \in BOOLEAN :
         Become(IF sk[c].rx = <<>> \/ ~good THEN del_event(s, c)
                ELSE IF ev[c].flag = "none" THEN [s EXCEPT !.e[c].flag = "S5"]
                ELSE create_conn(s, c))
  BY <1>1, <1>6 DEF c, t
<1> HIDE DEF s
<1>13. CASE sk[c].rx = <<>> \/ ~good
  <2>1. Become(del_event(s, c))
    BY <1>12, <1>13
  <2>2. Good(parts, del_event(s, c), run)
    BY <1>4, <1>5, <1>8, <1>9, <1>10, <1>11, DelClient
  <2> QED BY <1>2, <2>1, <2>2, LoopStep
<1>14. CASE ~(sk[c].rx = <<>> \/ ~good) /\ ev[c].flag = "none"
  <2> DEFINE v == SetFlag(ev[c], "S5")
             u == PutE(s, c, v)
  <2>1. Become(u)
    BY <1>8, <1>12, <1>14 DEF PutE, SetFlag
  <2>2. /\ v \in EvalT /\ v.flag = "S5" /\ v.live = ev[c].live /\ v.cb = ev[c].cb
        /\ v.pair = ev[c].pair /\ v.out = ev[c].out /\ v.buff = ev[c].buff
        /\ v.round_sent = ev[c].round_sent /\ v.round_count = ev[c].round_count
        /\ v.part_sent = ev[c].part_sent /\ v.timer = ev[c].timer /\ v.stamp = ev[c].stamp
    <3>1. ev[c] \in EvalT
      BY <1>4, StateIs
    <3> QED BY <3>1, SetFlagIs
  <2> HIDE DEF v
  <2>3. /\ u \in StateT /\ u.e[c] = v /\ (\A j \in Slots : j # c => u.e[j] = ev[j])
        /\ u.k = s.k /\ u.b = s.b /\ u.w = s.w /\ u.h = s.h /\ u.x = {}
    BY <1>4, <1>8, <2>2, PutEIs
  <2> HIDE DEF u
  <2>4. IsClient(v, u.k[c])
    BY <1>8, <1>10, <2>2, <2>3 DEF IsClient, Quiet
  <2>5. Loose(u)
    <3>1. \A i \in Slots : IsFree(u.e[i], u.k[i]) \/ IsClient(u.e[i], u.k[i])
      BY <1>8, <1>11, <2>3, <2>4 DEF Loose
    <3> QED BY <1>11, <2>3, <3>1 DEF Loose
  <2>6. Events(u)
    BY <1>8, <1>9, <2>2, <2>3 DEF Events
  <2>7. Good(parts, u, run)
    BY <1>5, <2>3, <2>5, <2>6 DEF Good
  <2> QED BY <1>2, <2>1, <2>7, LoopStep
<1>15. CASE ~(sk[c].rx = <<>> \/ ~good) /\ ev[c].flag # "none"
  <2>1. Become(create_conn(s, c))
    BY <1>12, <1>15
  <2>2. s.e[c].flag = "S5" /\ s.k[c].rx = <<>> /\ \A x \in s.b : x.s # c
    BY <1>4, <1>5, <1>7, <1>8, <1>15 DEF IsClient
  <2>3. Good(parts, create_conn(s, c), run)
    BY <1>4, <1>5, <1>8, <1>9, <1>10, <1>11, <2>2, ConnectGood
  <2> QED BY <1>2, <2>1, <2>3, LoopStep
<1> QED BY <1>13, <1>14, <1>15

\* Two empty queues and no bytes.
LEMMA EmptyFlow ==
  /\ Flow(<<>>, <<>>, <<>>, <<>>, 0) /\ Partly(<<>>, 0) /\ Counts(<<>>, 0) /\ Len(<<>>) = 0
BY DEF Flow, Partly, Counts

\* A tunnel begins with nothing sent.
LEMMA NewTunnel ==
  ASSUME NEW pp \in Configs, NEW s \in StateT, NEW c \in Slots, NEW r \in Slots, c # r,
         s.e[c].live, s.e[c].cb = "on_tunnel", s.e[c].flag = "S5", s.e[c].pair = r,
         s.e[r].live, s.e[r].cb = "on_tunnel", s.e[r].flag = "CONN", s.e[r].pair = c,
         Quiet(s.e[c], s.k[c]), Quiet(s.e[r], s.k[r]),
         s.k[c].st = "up", s.k[c].rx = <<>>, s.k[r].st = "up", s.k[r].rx = <<>>, s.w = NoNet,
         s.k[r].err => "server_reset" \in s.h, s.k[r].eof => "server_closed" \in s.h,
         EarlyEnd(s, NoRun, c, r)
  PROVE  Tunnel(pp, s, NoRun, c, r)
<1>1. /\ s.e[c].buff = NoBuff /\ s.e[c].round_sent = 0 /\ s.e[c].part_sent = 0 /\ ~s.e[c].timer
      /\ s.e[r].buff = NoBuff /\ s.e[r].round_sent = 0 /\ s.e[r].part_sent = 0 /\ ~s.e[r].timer
      /\ s.k[c].tx = <<>> /\ s.k[c].unsent = 0 /\ ~s.k[c].low /\ ~s.k[c].linger
      /\ s.k[r].tx = <<>> /\ s.k[r].unsent = 0 /\ ~s.k[r].low /\ ~s.k[r].linger
  BY DEF Quiet
<1>2. NoNet.sgot = <<>> /\ NoNet.agot = <<>> /\ NoNet.up = 0 /\ NoNet.down = 0
  BY DEF NoNet
<1>3. ~Holds(s.e[c]) /\ ~Holds(s.e[r]) /\ Chunk(NoBuff) /\ ~NoBuff.waited
  BY <1>1, NoneIs DEF Holds, Chunk
<1>4. Rest(NoBuff) = <<>>
  BY <1>3, NoneIs, RestOf
<1>5. Ends(s, c, r)
  BY <1>1, <1>3 DEF Ends
<1>6. Queued(s.k[c]) /\ Queued(s.k[r])
  <2>1. Len(<<>>) <= SndBuf /\ 0 <= Len(<<>>)
    BY EmptyFlow, SizesAssumption
  <2> QED BY <1>1, <2>1 DEF Queued
<1>7. Account(s.e[c], s.k[c], s.w.up) /\ Account(s.e[r], s.k[r], s.w.down)
  <2>1. <<>> \in Seq(Byte) /\ 0 + Len(<<>>) + Len(<<>>) <= 0 /\ Counts(<<>>, 0 - Len(<<>>))
    BY EmptyFlow DEF Counts
  <2> QED BY <1>1, <1>2, <1>3, <1>4, <2>1 DEF Account
<1>8. Down(s, c, r) /\ Up(s, c, r)
  BY <1>1, <1>2, <1>4, EmptyFlow DEF Down, Up
<1>9. Parts(pp, s, c, r) /\ PartDone(pp, s, c)
  <2>1. 0 <= Len(pp)
    BY SizesAssumption, LenProperties
  <2> QED BY <1>1, <1>3, <2>1 DEF Parts, PartDone
<1>10. Wakes(s, c, r) /\ Wakes(s, r, c) /\ TimerHolds(s, c, r) /\ Reading(s, NoRun, c, r)
  BY <1>1, <1>3 DEF Wakes, TimerHolds, Reading
<1> QED BY <1>5, <1>6, <1>7, <1>8, <1>9, <1>10 DEF Tunnel, Relay

\* on_connect(): the connection fails, or the tunnel begins.
LEMMA ConnectKeeps ==
  ASSUME LoopInv, on_connect
  PROVE  LoopInv'
<1>1. PICK b \in batch :
         /\ Sees(b, "on_connect")
         /\ LET r == b.s
                c == ev[r].pair
                s == Check(Sound(Took(b), b), c # 0, "no_pair")
            IN  Become(IF c = 0 \/ "err" \in b.type THEN del_event(s, r)
                       ELSE [mod_etype(mod_etype(s, r, FALSE), c, FALSE)
                               EXCEPT !.e[r].cb = "on_tunnel", !.e[c].cb = "on_tunnel"])
  BY DEF on_connect
<1>2. UNCHANGED <<parts, run, brk>>
  BY DEF on_connect
<1> DEFINE r == b.s
           s == Took(b)
<1>3. b.s # 0 /\ ~ev[r].stamp /\ ev[r].cb = "on_connect"
  BY <1>1 DEF Sees
<1>4. /\ s \in StateT /\ s.e = ev /\ s.k = sk /\ s.w = net /\ s.h = causes /\ s.x = {}
      /\ s.b = batch \ {b} /\ Events(s) /\ Sound(s, b) = s /\ (\A x \in batch \ {b} : x.s # r)
      /\ r \in Slots
  BY <1>3, TookIs
<1>5. PICK c \in Slots : c # r /\ Joining(Cur, c, r) /\ run = NoRun
  BY <1>3, <1>4, PhaseIs
<1>6. ev[r].pair = c /\ c # 0
  BY <1>5, CurIs DEF Joining, Slots
<1>7. Check(s, c # 0, "no_pair") = s
  BY <1>6 DEF Check
<1> DEFINE w == [mod_etype(mod_etype(s, r, FALSE), c, FALSE)
                   EXCEPT !.e[r].cb = "on_tunnel", !.e[c].cb = "on_tunnel"]
<1>8. Become(IF "err" \in b.type THEN del_event(s, r) ELSE w)
  BY <1>1, <1>4, <1>6, <1>7
<1> HIDE DEF s
<1>9. CASE "err" \in b.type
  <2>1. Paired(s, c, r) /\ s.k[c].tx = <<>> /\ s.k[r].tx = <<>> /\ s.w = NoNet
    BY <1>4, <1>5, CurIs DEF Joining, Paired, Quiet
  <2>2. Good(parts, del_event(s, r), run)
    BY <1>4, <1>5, <2>1, DelJoining
  <2>3. Become(del_event(s, r))
    BY <1>8, <1>9
  <2> QED BY <1>2, <2>2, <2>3, LoopStep
<1>10. CASE "err" \notin b.type
  <2> DEFINE vc == [ev[c] EXCEPT !.out = FALSE, !.cb = "on_tunnel"]
             vr == [ev[r] EXCEPT !.out = FALSE, !.cb = "on_tunnel"]
             t == PutE(s, r, vr)
             u == PutE(t, c, vc)
  <2>1. Become(w)
    BY <1>8, <1>10
  <2>2. ev \in [Slots -> EvalT] /\ ev[c] \in EvalT /\ ev[r] \in EvalT
    BY <1>4, StateIs
  <2>3. w = u
    <3>1. w = [s EXCEPT !.e = [[[[ev EXCEPT ![r].out = FALSE] EXCEPT ![c].out = FALSE]
                                EXCEPT ![r].cb = "on_tunnel"] EXCEPT ![c].cb = "on_tunnel"]]
      <4> DEFINE f1 == [ev EXCEPT ![r].out = FALSE]
                 f2 == [f1 EXCEPT ![c].out = FALSE]
                 f3 == [f2 EXCEPT ![r].cb = "on_tunnel"]
                 f4 == [f3 EXCEPT ![c].cb = "on_tunnel"]
                 s1 == mod_etype(s, r, FALSE)
                 s2 == mod_etype(s1, c, FALSE)
      <4>1. s1 = [s EXCEPT !.e = f1]
        BY <1>4 DEF mod_etype
      <4> HIDE DEF f1
      <4>2. s1.e = f1 /\ s1 = [s EXCEPT !.e = f1]
        BY <1>4, <4>1 DEF StateT
      <4> HIDE DEF s1
      <4>3. s2 = [s1 EXCEPT !.e = f2]
        BY <4>2 DEF mod_etype
      <4> HIDE DEF f2
      <4>4. s2 = [s EXCEPT !.e = f2]
        BY <4>2, <4>3
      <4>5. s2.e = f2
        BY <1>4, <4>4 DEF StateT
      <4> HIDE DEF s2
      <4>6. w = [s2 EXCEPT !.e = f4]
        BY <4>5 DEF s1, s2
      <4> HIDE DEF f4
      <4>7. w = [s EXCEPT !.e = f4]
        BY <4>4, <4>6
      <4> QED BY <4>7 DEF f1, f2, f3, f4
    <3>2. u = [s EXCEPT !.e = [[ev EXCEPT ![r] = vr] EXCEPT ![c] = vc]]
      <4> HIDE DEF vc, vr
      <4> QED BY <1>4 DEF PutE
    <3> DEFINE f == [[[[ev EXCEPT ![r].out = FALSE] EXCEPT ![c].out = FALSE]
                                EXCEPT ![r].cb = "on_tunnel"] EXCEPT ![c].cb = "on_tunnel"]
               g == [[ev EXCEPT ![r] = vr] EXCEPT ![c] = vc]
    <3>3. f \in [Slots -> {f[i] : i \in Slots}] /\ g \in [Slots -> {g[i] : i \in Slots}]
          /\ DOMAIN f = Slots /\ DOMAIN g = Slots
      BY <2>2
    <3>4. f[c] = vc
      BY <1>4, <1>5, <2>2
    <3>5. f[r] = vr
      BY <1>4, <1>5, <2>2
    <3>6. g[c] = vc /\ g[r] = vr
      BY <1>4, <1>5, <2>2
    <3> HIDE DEF f, g
    <3>7. \A i \in Slots : f[i] = g[i]
      BY <1>4, <1>5, <3>4, <3>5, <3>6, OtherSlot
    <3>8. f = g
      BY <3>3, <3>7
    <3> QED BY <3>1, <3>2, <3>8 DEF f, g
  <2>4. /\ vc \in EvalT /\ vc.cb = "on_tunnel" /\ vc.live = ev[c].live /\ vc.flag = ev[c].flag
        /\ vc.pair = ev[c].pair /\ vc.buff = ev[c].buff /\ vc.round_sent = ev[c].round_sent
        /\ vc.round_count = ev[c].round_count /\ vc.part_sent = ev[c].part_sent
        /\ vc.timer = ev[c].timer /\ vc.stamp = ev[c].stamp
    BY <2>2 DEF EvalT
  <2>5. /\ vr \in EvalT /\ vr.cb = "on_tunnel" /\ vr.live = ev[r].live /\ vr.flag = ev[r].flag
        /\ vr.pair = ev[r].pair /\ vr.buff = ev[r].buff /\ vr.round_sent = ev[r].round_sent
        /\ vr.round_count = ev[r].round_count /\ vr.part_sent = ev[r].part_sent
        /\ vr.timer = ev[r].timer /\ vr.stamp = ev[r].stamp
    BY <1>4, <2>2 DEF EvalT
  <2> HIDE DEF vc, vr, w
  <2>6. /\ t \in StateT /\ t.e[r] = vr /\ t.b = s.b /\ t.k = sk /\ t.w = net /\ t.h = causes
        /\ t.x = {}
    BY <1>4, <2>5, PutEIs
  <2> HIDE DEF t
  <2>7. /\ u \in StateT /\ u.e[c] = vc /\ u.e[r] = vr /\ u.b = batch \ {b} /\ u.k = sk /\ u.w = net
        /\ u.h = causes /\ u.x = {}
    BY <1>4, <1>5, <2>4, <2>6, PutEIs
  <2> HIDE DEF u
  <2>8. /\ ev[c].live /\ ev[c].flag = "S5" /\ ev[c].pair = r
        /\ ev[r].live /\ ev[r].flag = "CONN" /\ ev[r].pair = c
        /\ Quiet(ev[c], sk[c]) /\ Quiet(ev[r], sk[r])
        /\ sk[c].st = "up" /\ sk[c].rx = <<>> /\ sk[r].rx = <<>> /\ net = NoNet
        /\ (sk[r].err => "server_reset" \in causes) /\ (sk[r].eof => "server_closed" \in causes)
        /\ Early(sk[c], causes) => ev[r].stamp \/ Noticed(Cur, c)
    BY <1>5, CurIs DEF Joining
  <2>9. sk[r].st = "up"
    BY <1>3, <1>5, <1>10, CurIs DEF Joining
  <2>10. Quiet(vc, sk[c]) /\ Quiet(vr, sk[r])
    BY <2>4, <2>5, <2>8 DEF Quiet
  <2>11. EarlyEnd(u, NoRun, c, r)
    <3>1. SUFFICES ASSUME Early(sk[c], causes)
                   PROVE  /\ u.k[c].rx = <<>> /\ u.e[c].buff = NoBuff /\ u.e[r].buff = NoBuff
                          /\ (\A x \in u.b : x.s # r) /\ Noticed(u, c)
      BY <2>7 DEF EarlyEnd
    <3>2. Noticed(Cur, c)
      BY <1>3, <2>8, <3>1
    <3>3. PICK x \in batch : x.s = c /\ "out" \notin x.type
      BY <3>2, CurIs DEF Noticed
    <3>4. x \in u.b /\ ~ev[c].stamp
      BY <1>5, <2>7, <3>2, <3>3, CurIs DEF Noticed
    <3>5. Noticed(u, c)
      BY <2>4, <2>7, <3>3, <3>4 DEF Noticed
    <3> QED BY <1>4, <2>7, <2>8, <2>10, <3>5 DEF Quiet
  <2>12. parts \in Configs
    BY DEF LoopInv
  <2>13. Tunnel(parts, u, NoRun, c, r)
    <3>1. /\ u.e[c].live /\ u.e[c].cb = "on_tunnel" /\ u.e[c].flag = "S5" /\ u.e[c].pair = r
          /\ u.e[r].live /\ u.e[r].cb = "on_tunnel" /\ u.e[r].flag = "CONN" /\ u.e[r].pair = c
      BY <2>4, <2>5, <2>7, <2>8
    <3>2. /\ Quiet(u.e[c], u.k[c]) /\ Quiet(u.e[r], u.k[r])
          /\ u.k[c].st = "up" /\ u.k[c].rx = <<>> /\ u.k[r].st = "up" /\ u.k[r].rx = <<>>
          /\ u.w = NoNet
          /\ u.k[r].err => "server_reset" \in u.h
          /\ u.k[r].eof => "server_closed" \in u.h
      BY <2>7, <2>8, <2>9, <2>10
    <3>3. r \in Slots /\ c # r /\ u \in StateT
      BY <1>4, <1>5, <2>7
    <3> HIDE DEF r
    <3> QED BY <2>11, <2>12, <3>1, <3>2, <3>3, NewTunnel
  <2>14. Events(u)
    <3>1. \A i \in Slots : u.e[i].stamp = ev[i].stamp
      BY <1>4, <1>5, <2>4, <2>5, <2>7, OtherSlot
    <3> QED BY <1>4, <2>7, <3>1 DEF Events
  <2>15. Good(parts, u, run)
    BY <1>4, <1>5, <2>7, <2>13, <2>14 DEF Good
  <2> QED BY <1>2, <2>1, <2>3, <2>15, LoopStep
<1> QED BY <1>9, <1>10

\* on_ignore(): the client has gone before it had a connection.
LEMMA IgnoreKeeps ==
  ASSUME LoopInv, on_ignore
  PROVE  LoopInv'
<1>1. PICK b \in batch :
         /\ Sees(b, "on_ignore")
         /\ LET s == Sound(Took(b), b)
            IN  Become(IF b.type \cap {"err", "rdhup"} # {} THEN del_event(s, b.s) ELSE s)
  BY DEF on_ignore
<1>2. UNCHANGED <<parts, run, brk>>
  BY DEF on_ignore
<1> DEFINE c == b.s
           s == Took(b)
<1>3. b.s # 0 /\ ~ev[c].stamp /\ ev[c].cb = "on_ignore"
  BY <1>1 DEF Sees
<1>4. /\ s \in StateT /\ s.e = ev /\ s.k = sk /\ s.w = net /\ s.h = causes /\ s.x = {}
      /\ Events(s) /\ Sound(s, b) = s /\ c \in Slots
  BY <1>3, TookIs
<1>5. PICK r \in Slots : r # c /\ Joining(Cur, c, r) /\ run = NoRun
  BY <1>3, <1>4, PhaseIs
<1>6. b.type \cap {"err", "rdhup"} # {}
  BY <1>3, <1>5, CurIs DEF Joining
<1>7. Become(del_event(s, c))
  BY <1>1, <1>4, <1>6
<1> HIDE DEF s
<1>8. Paired(s, c, r) /\ s.k[c].tx = <<>> /\ s.k[r].tx = <<>> /\ s.w = NoNet
  BY <1>4, <1>5, CurIs DEF Joining, Paired, Quiet
<1>9. Good(parts, del_event(s, c), run)
  BY <1>4, <1>5, <1>8, DelJoining
<1> QED BY <1>2, <1>7, <1>9, LoopStep

\* The events of a new batch.
Reports ==
    {[s |-> i, type |-> Ready(i) \cap Heeds(i), old |-> FALSE] :
       i \in {j \in Slots : Ready(j) # {}}}
    \cup (IF backlog THEN {[s |-> 0, type |-> {"in"}, old |-> FALSE]} ELSE {})

\* epoll_wait() reports each ready slot once, with the types the slot heeds.
LEMMA ReportsAre ==
  /\ Reports \in SUBSET EventT
  /\ \A x, y \in Reports : x.s = y.s => x = y
  /\ \A x \in Reports : x.old = FALSE
  /\ \A i \in Slots : \A x \in Reports :
       x.s = i => Ready(i) # {} /\ x.type = Ready(i) \cap Heeds(i)
  /\ \A i \in Slots : Ready(i) # {} =>
       \E x \in Reports : x.s = i /\ x.type = Ready(i) \cap Heeds(i)
<1> DEFINE Of(i) == [s |-> i, type |-> Ready(i) \cap Heeds(i), old |-> FALSE]
           L == [s |-> 0, type |-> {"in"}, old |-> FALSE]
           S == {j \in Slots : Ready(j) # {}}
<1>1. Reports = {Of(i) : i \in S} \cup (IF backlog THEN {L} ELSE {})
  BY DEF Reports
<1>2. \A i \in Slots : Ready(i) \cap Heeds(i) \in SUBSET {"in", "out", "rdhup", "err"}
  BY DEF Heeds
<1>3. \A i \in Slots : Of(i) \in EventT /\ Of(i).s = i /\ Of(i).type = Ready(i) \cap Heeds(i)
                       /\ Of(i).old = FALSE /\ i # 0
  BY <1>2 DEF EventT, Slots
<1>4. L \in EventT /\ L.s = 0 /\ L.old = FALSE
  BY DEF EventT
<1> HIDE DEF Of, L
<1>5. \A x \in Reports : x = L \/ \E i \in S : x = Of(i)
  BY <1>1
<1>6. \A i \in S : Of(i) \in Reports
  BY <1>1
<1>7. \A i \in S : i \in Slots /\ Ready(i) # {}
  OBVIOUS
<1>8. \A i \in Slots : Ready(i) # {} => i \in S
  OBVIOUS
<1> HIDE DEF S
<1>9. Reports \in SUBSET EventT
  BY <1>3, <1>4, <1>5, <1>7
<1>10. \A x, y \in Reports : x.s = y.s => x = y
  BY <1>3, <1>4, <1>5, <1>7
<1>11. \A x \in Reports : x.old = FALSE
  BY <1>3, <1>4, <1>5, <1>7
<1>12. ASSUME NEW i \in Slots, NEW x \in Reports, x.s = i
       PROVE  Ready(i) # {} /\ x.type = Ready(i) \cap Heeds(i)
  <2>1. x # L
    BY <1>3, <1>4, <1>12
  <2>2. PICK j \in S : x = Of(j)
    BY <1>5, <2>1
  <2>3. j = i
    BY <1>3, <1>7, <1>12, <2>2
  <2> QED BY <1>3, <1>7, <2>2, <2>3
<1>13. \A i \in Slots : Ready(i) # {} =>
         \E x \in Reports : x.s = i /\ x.type = Ready(i) \cap Heeds(i)
  BY <1>3, <1>6, <1>8
<1> QED BY <1>9, <1>10, <1>11, <1>12, <1>13

\* An eval of an earlier batch.
Awake(v) == [v EXCEPT !.stamp = FALSE]

\* Waking clears an eval's stamp and changes nothing else of it.
LEMMA AwakeIs ==
  ASSUME NEW v \in EvalT
  PROVE  Awake(v) \in EvalT /\ Alike(Awake(v), v) /\ ~Awake(v).stamp
<1>1. Awake(v) \in EvalT
  BY DEF Awake, EvalT
<1>2. Alike(Awake(v), v)
  BY DEF Awake, EvalT, Alike
<1>3. ~Awake(v).stamp
  BY DEF Awake, EvalT
<1> QED BY <1>1, <1>2, <1>3

\* epoll_wait(): a client or a remote that ended is reported.
LEMMA WaitKeeps ==
  ASSUME LoopInv, epoll_wait
  PROVE  LoopInv'
<1> DEFINE q == IF \E i \in Slots : ev[i].pair # 0 THEN Cur ELSE Forget(Cur)
           f == [i \in Slots |-> Awake(ev[i])]
           u == [q EXCEPT !.b = Reports, !.e = f]
<1>1. AtLoop /\ batch = {} /\ run = NoRun /\ UNCHANGED <<parts, run, brk>>
  BY DEF epoll_wait, AtLoop
<1>2. Cur \in StateT /\ Cur.x = {} /\ Good(parts, Cur, NoRun)
  BY <1>1 DEF LoopInv, Good
<1>3. /\ Cur.e = ev /\ Cur.b = batch /\ Cur.k = sk /\ Cur.w = net /\ Cur.h = causes
      /\ ev \in [Slots -> EvalT] /\ sk \in [Slots -> SockT]
  BY <1>2, CurIs, StateIs
<1>4. /\ q \in StateT /\ q.e = ev /\ q.k = sk /\ q.x = {}
      /\ (\E i \in Slots : ev[i].pair # 0) => q.w = net /\ q.h = causes
      /\ ~(\E i \in Slots : ev[i].pair # 0) => q.w = NoNet
  <2>1. CASE \E i \in Slots : ev[i].pair # 0
    BY <1>2, <1>3, <2>1
  <2>2. CASE ~(\E i \in Slots : ev[i].pair # 0)
    <3>1. q = Forget(Cur)
      BY <2>2
    <3> HIDE DEF q
    <3> DEFINE m == PutW(Cur, NoNet)
    <3>2. /\ m \in StateT /\ m.e = ev /\ m.k = sk /\ m.x = {} /\ m.w = NoNet
      BY <1>2, <1>3, NoneIs, PutWIs
    <3>3. q = PutH(m, {})
      BY <3>1 DEF Forget, PutW, PutH
    <3> HIDE DEF m
    <3>4. {} \in SUBSET Cause
      OBVIOUS
    <3>5. PutH(m, {}) \in StateT /\ PutH(m, {}).e = m.e /\ PutH(m, {}).k = m.k
          /\ PutH(m, {}).w = m.w /\ PutH(m, {}).x = m.x
      BY <3>2, <3>4, PutHIs
    <3> QED BY <2>2, <3>2, <3>3, <3>5
  <2> QED BY <2>1, <2>2
<1>5. Become(u)
  <2>1. Become([q EXCEPT !.b = Reports, !.e = [i \in Slots |-> [@[i] EXCEPT !.stamp = FALSE]]])
    BY DEF epoll_wait, Reports
  <2>2. [q EXCEPT !.b = Reports, !.e = [i \in Slots |-> [@[i] EXCEPT !.stamp = FALSE]]] = u
    <3> HIDE DEF q
    <3> QED BY <1>4 DEF Awake
  <2> QED BY <2>1, <2>2
<1>6. \A i \in Slots : f[i] \in EvalT /\ Alike(f[i], ev[i]) /\ ~f[i].stamp
  BY <1>3, AwakeIs
<1>7. f \in [Slots -> EvalT]
  BY <1>6
<1> HIDE DEF q, f
<1>8. u \in StateT /\ u.e = f /\ u.b = Reports /\ u.k = sk /\ u.w = q.w /\ u.h = q.h /\ u.x = {}
  BY <1>4, <1>7, ReportsAre DEF StateT
<1> HIDE DEF u
<1>9. Events(u)
  <2>1. \A x \in Reports : ~x.old
    BY ReportsAre
  <2> QED BY <1>8, <2>1, ReportsAre DEF Events
<1>10. CASE Loose(Cur)
  <2>1. \A i \in Slots : IsFree(ev[i], sk[i]) \/ IsClient(ev[i], sk[i])
    BY <1>3, <1>10 DEF Loose
  <2>2. \A i \in Slots : IsFree(f[i], sk[i]) \/ IsClient(f[i], sk[i])
    BY <1>6, <2>1 DEF IsFree, IsClient, Quiet, Alike
  <2>3. ~\E i \in Slots : ev[i].pair # 0
    BY <2>1 DEF IsFree, IsClient
  <2>4. u.w = NoNet
    BY <1>4, <1>8, <2>3
  <2>5. Loose(u)
    BY <1>8, <2>2, <2>4, FinalNone DEF Loose
  <2>6. Good(parts, u, run)
    BY <1>1, <1>8, <1>9, <2>5 DEF Good
  <2> QED BY <1>1, <1>5, <2>6, LoopStep
<1>11. ASSUME NEW c \in Slots, NEW r \in Slots, c # r, Joining(Cur, c, r)
       PROVE  LoopInv'
  <2>1. ev[c].pair = r /\ r # 0
    BY <1>3, <1>11 DEF Joining, Slots
  <2>2. u.w = net /\ u.h = causes
    BY <1>4, <1>8, <2>1
  <2>3. Alike(f[c], ev[c]) /\ Alike(f[r], ev[r]) /\ ~f[c].stamp /\ ~f[r].stamp
    BY <1>6
  <2>4. Quiet(f[c], sk[c]) /\ Quiet(f[r], sk[r])
    BY <1>3, <1>11, <2>3 DEF Joining, Quiet, Alike
  <2>5. /\ f[c].live /\ f[c].cb = "on_ignore" /\ f[c].flag = "S5" /\ f[c].pair = r
        /\ f[r].live /\ f[r].cb = "on_connect" /\ f[r].flag = "CONN" /\ f[r].pair = c /\ ~f[c].out
    BY <1>3, <1>11, <2>3 DEF Joining, Alike
  <2>6. /\ sk[c].st = "up" /\ sk[c].rx = <<>> /\ sk[r].rx = <<>> /\ sk[r].st # "closed"
        /\ (sk[r].eof \/ sk[r].err => sk[r].st = "up") /\ net = NoNet
        /\ (sk[r].err => "server_reset" \in causes) /\ (sk[r].eof => "server_closed" \in causes)
        /\ ev[c].live /\ ev[c].cb = "on_ignore" /\ ev[r].live /\ ev[r].cb = "on_connect" /\ ~ev[c].out
    BY <1>3, <1>11 DEF Joining
  <2>7. Ready(c) = (IF sk[c].eof \/ sk[c].err THEN {"in"} ELSE {})
                   \cup (IF sk[c].eof THEN {"rdhup"} ELSE {}) \cup (IF sk[c].err THEN {"err"} ELSE {})
    BY <2>6 DEF Ready
  <2>8. Heeds(c) = {"err", "rdhup"} /\ Heeds(r) = {"err", "rdhup"}
    BY <2>6 DEF Heeds
  <2>9. ASSUME NEW x \in Reports, x.s = c PROVE x.type \cap {"err", "rdhup"} # {}
    <3>1. Ready(c) # {} /\ x.type = Ready(c) \cap {"err", "rdhup"}
      BY <2>8, <2>9, ReportsAre
    <3>2. "rdhup" \in Ready(c) \/ "err" \in Ready(c)
      BY <2>7, <3>1
    <3> QED BY <3>1, <3>2
  <2>10. ASSUME NEW x \in Reports, x.s = r PROVE "err" \in x.type \/ sk[r].st = "up"
    <3>1. Ready(r) # {} /\ x.type = Ready(r) \cap {"err", "rdhup"}
      BY <2>8, <2>10, ReportsAre
    <3>2. "err" \in Ready(r) \/ sk[r].st = "up"
      BY <2>6, <3>1 DEF Ready
    <3> QED BY <3>1, <3>2
  <2>11. ASSUME sk[c].err \/ sk[c].eof PROVE Noticed(u, c)
    <3>1. Ready(c) # {}
      BY <2>7, <2>11
    <3>2. PICK x \in Reports : x.s = c /\ x.type = Ready(c) \cap Heeds(c)
      BY <3>1, ReportsAre
    <3>3. "out" \notin x.type
      BY <2>8, <3>2
    <3> QED BY <1>8, <2>3, <3>2, <3>3 DEF Noticed
  <2>12. Joining(u, c, r)
    <3>1. Early(sk[c], causes) => Noticed(u, c)
      BY <2>11 DEF Early
    <3>2. /\ \A x \in u.b : x.s = c => x.type \cap {"err", "rdhup"} # {}
          /\ \A x \in u.b : x.s = r => "err" \in x.type \/ sk[r].st = "up"
      BY <1>8, <2>9, <2>10
    <3> QED BY <1>8, <2>2, <2>4, <2>5, <2>6, <3>1, <3>2 DEF Joining
  <2>13. Good(parts, u, run)
    BY <1>1, <1>8, <1>9, <1>11, <2>12 DEF Good
  <2> QED BY <1>1, <1>5, <2>13, LoopStep
<1>12. ASSUME NEW c \in Slots, NEW r \in Slots, c # r, Tunnel(parts, Cur, NoRun, c, r)
       PROVE  LoopInv'
  <2>1. ev[c].pair = r /\ r # 0
    BY <1>3, <1>12 DEF Tunnel, Relay, Ends, Slots
  <2>2. u.w = net /\ u.h = causes
    BY <1>4, <1>8, <2>1
  <2>3. ~Early(sk[c], causes)
    <3>1. NoRun # [s |-> c, val |-> c]
      BY DEF NoRun, Slots
    <3> QED BY <1>1, <1>3, <1>12, <3>1 DEF Tunnel, EarlyEnd, Noticed
  <2>4. EarlyEnd(u, NoRun, c, r)
    BY <1>8, <2>2, <2>3 DEF EarlyEnd
  <2>5. Alike(u.e[c], Cur.e[c]) /\ Alike(u.e[r], Cur.e[r])
    BY <1>3, <1>6, <1>8
  <2>6. Tunnel(parts, u, NoRun, c, r)
    <3>1. u.k = Cur.k /\ u.w = Cur.w /\ Cur.h \subseteq u.h
      BY <1>3, <1>8, <2>2
    <3> QED BY <1>12, <2>4, <2>5, <3>1, TunnelSame
  <2>7. Good(parts, u, run)
    BY <1>1, <1>8, <1>9, <1>12, <2>6 DEF Good
  <2> QED BY <1>1, <1>5, <2>7, LoopStep
<1> QED BY <1>2, <1>10, <1>11, <1>12 DEF Good

\* Without a connection any eval may be deleted, and so may a free slot.
LEMMA DelLoose ==
  ASSUME NEW pp, NEW s, Good(pp, s, NoRun), Loose(s), NEW i \in Slots
  PROVE  Good(pp, del_event(s, i), NoRun) /\ Loose(del_event(s, i))
<1>1. s \in StateT /\ s.x = {} /\ Events(s)
  BY DEF Good
<1>2. CASE IsClient(s.e[i], s.k[i])
  BY <1>1, <1>2, DelClient
<1>3. CASE IsFree(s.e[i], s.k[i])
  <2>1. del_event(s, i) = s
    BY <1>3 DEF IsFree, del_event, Release
  <2> QED BY <2>1
<1> QED BY <1>2, <1>3 DEF Loose

\* destroy_pool(): what was not delivered is owed to the end of the proxy.
LEMMA DestroyKeeps ==
  ASSUME LoopInv, destroy_pool
  PROVE  LoopInv'
<1> DEFINE m == PutH(Cur, causes \cup {"proxy_ended"})
           s == PutB(m, {})
           t == del_event(s, 1)
<1>1. parts' = parts /\ run' = run /\ run = NoRun /\ parts \in Configs
  BY DEF destroy_pool, LoopInv
<1>2. brk' \in [set : BOOLEAN, gone : BOOLEAN]
  BY DEF destroy_pool, LoopInv
<1>3. Cur \in StateT /\ Cur.x = {} /\ Good(parts, Cur, NoRun)
  BY <1>1 DEF LoopInv, Good
<1>4. /\ Cur.e = ev /\ Cur.b = batch /\ Cur.k = sk /\ Cur.w = net /\ Cur.h = causes
      /\ causes \subseteq Cause
  BY <1>3, CurIs, StateIs
<1>5. Become(del_event(t, 2))
  <2>1. Become(del_event(del_event([Because(Cur, {"proxy_ended"}) EXCEPT !.b = {}], 1), 2))
    BY DEF destroy_pool
  <2>2. [Because(Cur, {"proxy_ended"}) EXCEPT !.b = {}] = s
    BY <1>4 DEF Because, PutH, PutB
  <2> QED BY <2>1, <2>2
<1>6. causes \cup {"proxy_ended"} \in SUBSET Cause
  BY <1>4 DEF Cause
<1>7. /\ m \in StateT /\ m.e = ev /\ m.k = sk /\ m.w = net /\ m.h = causes \cup {"proxy_ended"}
      /\ m.x = {}
  BY <1>3, <1>4, <1>6, PutHIs
<1> HIDE DEF m
<1>8. /\ s \in StateT /\ s.e = ev /\ s.k = sk /\ s.w = net /\ s.h = causes \cup {"proxy_ended"}
      /\ s.x = {} /\ s.b = {}
  BY <1>7, PutBIs
<1> HIDE DEF s
<1>9. Events(s)
  BY <1>8 DEF Events
<1>10. Good(parts, t, NoRun) /\ Loose(t)
  <2>1. CASE Loose(Cur)
    <3>1. Final(s.w, s.h)
      BY <1>4, <1>8, <2>1, FinalMore DEF Loose
    <3>2. Loose(s)
      BY <1>4, <1>8, <2>1, <3>1 DEF Loose
    <3>3. Good(parts, s, NoRun)
      BY <1>8, <1>9, <3>2 DEF Good
    <3>4. 1 \in Slots
      BY DEF Slots
    <3> QED BY <3>2, <3>3, <3>4, DelLoose
  <2>2. ASSUME NEW c \in Slots, NEW r \in Slots, c # r, Joining(Cur, c, r)
        PROVE  Good(parts, t, NoRun) /\ Loose(t)
    <3>1. Paired(s, c, r) /\ s.k[c].tx = <<>> /\ s.k[r].tx = <<>> /\ s.w = NoNet
      BY <1>4, <1>8, <2>2 DEF Joining, Paired, Quiet
    <3>2. 1 \in {c, r}
      BY <2>2 DEF Slots
    <3> QED BY <1>8, <1>9, <2>2, <3>1, <3>2, DelJoining
  <2>3. ASSUME NEW c \in Slots, NEW r \in Slots, c # r, Tunnel(parts, Cur, NoRun, c, r)
        PROVE  Good(parts, t, NoRun) /\ Loose(t)
    <3>1. Relay(parts, s, c, r)
      <4>1. Relay(parts, Cur, c, r)
        BY <2>3 DEF Tunnel
      <4>2. Alike(s.e[c], Cur.e[c]) /\ Alike(s.e[r], Cur.e[r])
        BY <1>4, <1>8 DEF Alike
      <4>3. s.k = Cur.k /\ s.w = Cur.w /\ Cur.h \subseteq s.h
        BY <1>4, <1>8
      <4> QED BY <4>1, <4>2, <4>3, RelaySame
    <3>2. "proxy_ended" \notin {"server_closed"} \cup Lossy
          /\ "proxy_ended" \notin {"client_closed"} \cup Stalls
      BY DEF Lossy, Stalls
    <3>3. "proxy_ended" \in s.h
      BY <1>8
    <3>4. Paired(s, c, r) /\ Shut(s, c, r)
      BY <1>8, <3>1, <3>2, <3>3, RelayShut
    <3>5. 1 \in {c, r}
      BY <2>3 DEF Slots
    <3> QED BY <1>8, <1>9, <2>3, <3>4, <3>5, DelShut
  <2> QED BY <1>3, <2>1, <2>2, <2>3 DEF Good
<1> HIDE DEF t
<1>11. 2 \in Slots
  BY DEF Slots
<1>12. Good(parts, del_event(t, 2), NoRun)
  BY <1>10, <1>11, DelLoose
<1> QED BY <1>1, <1>2, <1>5, <1>12, InvNext

-----------------------------------------------------------------------------
(* Steps of the kernel, the application and the server.                    *)

\* The state after such a step.
Moved(k, w, h) == [e |-> ev, b |-> batch, k |-> k, w |-> w, h |-> causes \cup h, x |-> faults]

\* What a step of the outside world makes of the state of the loop.
LEMMA MovedIs ==
  ASSUME LoopInv, NEW k \in [Slots -> SockT], NEW w \in NetT, NEW h \in SUBSET Cause
  PROVE  /\ Moved(k, w, h) \in StateT /\ Moved(k, w, h).e = ev /\ Moved(k, w, h).b = batch
         /\ Moved(k, w, h).k = k /\ Moved(k, w, h).w = w /\ Moved(k, w, h).h = causes \cup h
         /\ Moved(k, w, h).x = {} /\ Events(Moved(k, w, h))
<1> DEFINE t == Moved(k, w, h)
<1>1. Cur \in StateT /\ Cur.x = {} /\ Events(Cur)
  BY DEF LoopInv, Good
<1>2. /\ ev \in [Slots -> EvalT] /\ batch \in SUBSET EventT /\ causes \subseteq Cause
      /\ faults \in SUBSET Fault /\ faults = {}
  BY <1>1, CurIs, StateIs
<1>3. causes \cup h \in SUBSET Cause
  BY <1>2
<1>4. t \in StateT
  BY <1>2, <1>3, StateOf DEF Moved
<1>5. t.e = ev /\ t.b = batch /\ t.k = k /\ t.w = w /\ t.h = causes \cup h /\ t.x = {}
  BY <1>2 DEF Moved
<1> HIDE DEF t
<1>6. Events(t)
  BY <1>1, <1>5, CurIs DEF Events
<1> QED BY <1>4, <1>5, <1>6 DEF t

\* A step without a cause.
LEMMA MovedSilent ==
  ASSUME LoopInv, NEW k \in [Slots -> SockT], NEW w \in NetT
  PROVE  /\ Moved(k, w, {}) \in StateT /\ Moved(k, w, {}).e = ev /\ Moved(k, w, {}).b = batch
         /\ Moved(k, w, {}).k = k /\ Moved(k, w, {}).w = w /\ Moved(k, w, {}).h = causes
         /\ Moved(k, w, {}).x = {} /\ Events(Moved(k, w, {}))
<1> DEFINE o == {}
<1>1. o \in SUBSET Cause /\ causes \cup o = causes
  OBVIOUS
<1> HIDE DEF o
<1>2. /\ Moved(k, w, o) \in StateT /\ Moved(k, w, o).e = ev /\ Moved(k, w, o).b = batch
      /\ Moved(k, w, o).k = k /\ Moved(k, w, o).w = w /\ Moved(k, w, o).h = causes \cup o
      /\ Moved(k, w, o).x = {} /\ Events(Moved(k, w, o))
  <2>1. o \in SUBSET Cause
    BY <1>1
  <2> QED BY <2>1, MovedIs
<1> QED BY <1>1, <1>2 DEF o

\* A step of the outside world that keeps the phase keeps the invariant.
LEMMA WorldStep ==
  ASSUME LoopInv, NEW k, NEW w, NEW h, World(k, w, h), Good(parts, Moved(k, w, h), run)
  PROVE  LoopInv'
<1>1. UNCHANGED <<parts, run, brk>>
  BY DEF World
<1>2. Cur' = Moved(k, w, h)
  BY DEF World, Cur, Moved
<1> QED BY <1>1, <1>2 DEF LoopInv

\* One socket changes.
OneSocket(i, l) == [sk EXCEPT ![i] = l]

\* A step of one peer changes that peer's socket only.
LEMMA OneSocketIs ==
  ASSUME LoopInv, NEW i \in Slots, NEW l \in SockT
  PROVE  /\ OneSocket(i, l) \in [Slots -> SockT] /\ OneSocket(i, l)[i] = l
         /\ \A j \in Slots : j # i => OneSocket(i, l)[j] = sk[j]
<1>1. Cur \in StateT /\ Cur.k = sk
  BY CurIs DEF LoopInv, Good
<1>2. sk \in [Slots -> SockT]
  BY <1>1, StateIs
<1> QED BY <1>2 DEF OneSocket

\* The variables are typed, and the connection is in one of its phases.
LEMMA VarsAre ==
  ASSUME LoopInv
  PROVE  /\ ev \in [Slots -> EvalT] /\ sk \in [Slots -> SockT] /\ net \in NetT
         /\ causes \subseteq Cause /\ batch \subseteq EventT /\ faults = {}
         /\ \A i \in Slots : ev[i] \in EvalT /\ sk[i] \in SockT
         /\ \/ Loose(Cur) /\ run = NoRun
            \/ \E c, r \in Slots : c # r /\ Joining(Cur, c, r) /\ run = NoRun
            \/ \E c, r \in Slots : c # r /\ Tunnel(parts, Cur, run, c, r)
<1>1. Good(parts, Cur, run)
  BY DEF LoopInv
<1>2. Cur \in StateT /\ Cur.x = {}
  BY <1>1 DEF Good
<1>3. /\ ev \in [Slots -> EvalT] /\ sk \in [Slots -> SockT] /\ net \in NetT
      /\ causes \subseteq Cause /\ batch \subseteq EventT /\ faults = {}
  BY <1>2, CurIs, StateIs
<1> QED BY <1>1, <1>3 DEF Good

\* A client that connects keeps the invariant.
LEMMA ClientConnectsKeeps ==
  ASSUME LoopInv, ClientConnects
  PROVE  LoopInv'
<1>1. World(sk, net, {})
  BY DEF ClientConnects
<1>2. causes \cup {} = causes
  OBVIOUS
<1>3. Moved(sk, net, {}) = Cur
  BY <1>2 DEF Moved, Cur
<1> QED BY <1>1, <1>3, WorldStep DEF LoopInv

\* A handshake message is for on_request().
LEMMA ClientSpeaksKeeps ==
  ASSUME LoopInv, ClientSpeaks
  PROVE  LoopInv'
<1>1. PICK c \in Slots : ev[c].cb = "on_request" /\ World([sk EXCEPT ![c].rx = <<0>>], net, {})
  BY DEF ClientSpeaks
<1> DEFINE l == SetRx(sk[c], <<0>>)
           k == OneSocket(c, l)
           t == Moved(k, net, {})
<1>2. Loose(Cur) /\ run = NoRun /\ IsClient(ev[c], sk[c])
  BY <1>1, PhaseIs
<1>3. sk[c] \in SockT /\ <<0>> \in Seq(Nat) /\ net \in NetT /\ {} \in SUBSET Cause
  BY VarsAre
<1>4. /\ l \in SockT /\ l.st = sk[c].st /\ l.tx = sk[c].tx /\ l.unsent = sk[c].unsent
      /\ l.low = sk[c].low /\ l.linger = sk[c].linger
  BY <1>3, SetRxIs
<1>5. World(k, net, {})
  BY <1>1 DEF OneSocket, SetRx
<1> HIDE DEF l
<1>6. k \in [Slots -> SockT] /\ k[c] = l /\ \A j \in Slots : j # c => k[j] = sk[j]
  BY <1>4, OneSocketIs
<1> HIDE DEF k
<1>7. t \in StateT /\ t.e = ev /\ t.k = k /\ t.w = net /\ t.h = causes /\ t.x = {} /\ Events(t)
  BY <1>3, <1>6, MovedSilent
<1> HIDE DEF t
<1>8. IsClient(ev[c], l)
  BY <1>2, <1>4 DEF IsClient, Quiet
<1>9. Loose(t)
  <2>2. \A i \in Slots : IsFree(t.e[i], t.k[i]) \/ IsClient(t.e[i], t.k[i])
    BY <1>2, <1>6, <1>7, <1>8, CurIs DEF Loose
  <2> QED BY <1>2, <1>7, <2>2, CurIs DEF Loose
<1>10. Good(parts, t, run)
  BY <1>2, <1>7, <1>9 DEF Good
<1> QED BY <1>5, <1>10, WorldStep DEF t

\* connect() ends while the loop waits.
LEMMA ConnectedKeeps ==
  ASSUME LoopInv, Connected
  PROVE  LoopInv'
<1>1. PICK i \in Slots, st \in {"up", "failed"} :
        sk[i].st = "connecting" /\ World([sk EXCEPT ![i].st = st], net, {})
  BY DEF Connected
<1>2. batch = {}
  BY DEF Connected, Waiting
<1> DEFINE l == [sk[i] EXCEPT !.st = st]
           k == OneSocket(i, l)
           t == Moved(k, net, {})
<1>3. sk[i] \in SockT /\ net \in NetT /\ {} \in SUBSET Cause
  BY VarsAre
<1>4. /\ l \in SockT /\ l.st = st /\ l.rx = sk[i].rx /\ l.eof = sk[i].eof /\ l.err = sk[i].err
      /\ l.tx = sk[i].tx /\ l.unsent = sk[i].unsent /\ l.low = sk[i].low /\ l.linger = sk[i].linger
  BY <1>1, <1>3 DEF SockT
<1>5. World(k, net, {})
  BY <1>1 DEF OneSocket
<1> HIDE DEF l
<1>6. k \in [Slots -> SockT] /\ k[i] = l /\ \A j \in Slots : j # i => k[j] = sk[j]
  BY <1>4, OneSocketIs
<1> HIDE DEF k
<1>7. t \in StateT /\ t.e = ev /\ t.b = batch /\ t.k = k /\ t.w = net /\ t.h = causes /\ t.x = {} /\ Events(t)
  BY <1>3, <1>6, MovedSilent
<1> HIDE DEF t
<1>8. PICK c \in Slots, r \in Slots : c # r /\ Joining(Cur, c, r) /\ run = NoRun
  <2>1. ~Loose(Cur)
    BY <1>1, CurIs DEF Loose, IsFree, IsClient
  <2>2. \A c, r \in Slots : c # r => ~Tunnel(parts, Cur, run, c, r)
    BY <1>1, CurIs, OtherSlot DEF Tunnel, Relay, Ends
  <2> QED BY <2>1, <2>2, VarsAre
<1>9. i = r /\ t.h = causes
  BY <1>1, <1>7, <1>8, CurIs, OtherSlot DEF Joining
<1>10. Quiet(ev[r], l)
  BY <1>4, <1>8, <1>9, CurIs DEF Joining, Quiet
<1>11. Noticed(Cur, c) => Noticed(t, c)
  BY <1>7, CurIs DEF Noticed
<1>12. t.k[c] = sk[c] /\ t.k[r] = l /\ l.st # "closed" /\ ~l.eof /\ ~l.err
  BY <1>1, <1>4, <1>6, <1>7, <1>8, <1>9, CurIs DEF Joining
<1>13. l.rx = <<>>
  BY <1>4, <1>8, <1>9, CurIs DEF Joining
<1>14. Joining(t, c, r)
  BY <1>2, <1>7, <1>8, <1>9, <1>10, <1>11, <1>12, <1>13, CurIs DEF Joining
<1>15. Good(parts, t, run)
  BY <1>7, <1>8, <1>14 DEF Good
<1> QED BY <1>5, <1>15, WorldStep DEF t

\* What a step of the kernel must keep of a tunnel.
LEMMA TunnelMoved ==
  ASSUME NEW pp, NEW rn, NEW s, NEW t, NEW c, NEW r, Tunnel(pp, s, rn, c, r),
         t.e = s.e, t.b = s.b, s.h \subseteq t.h,
         t.k[c].st = "up", t.k[c].linger = s.k[c].linger, t.k[c].low = s.k[c].low,
         t.k[c].unsent = 0,
         t.k[r].st = "up", t.k[r].linger = s.k[r].linger, t.k[r].low = s.k[r].low,
         Queued(t.k[c]), Queued(t.k[r]),
         Account(t.e[c], t.k[c], t.w.up), Account(t.e[r], t.k[r], t.w.down),
         Down(t, c, r), Up(t, c, r),
         t.k[r].err => "server_reset" \in t.h, t.k[r].eof => "server_closed" \in t.h,
         Early(t.k[c], t.h) => Early(s.k[c], s.h) /\ t.k[c].rx = s.k[c].rx
  PROVE  Tunnel(pp, t, rn, c, r)
<1>1. /\ t.h \cap LostUp = {} => s.h \cap LostUp = {}
      /\ t.h \cap Stalls = {} => s.h \cap Stalls = {}
  OBVIOUS
<1>2. Ends(t, c, r)
  BY DEF Tunnel, Relay, Ends
<1>3. Parts(pp, t, c, r)
  BY DEF Tunnel, Relay, Parts, First
<1>4. PartDone(pp, t, c)
  BY <1>1 DEF Tunnel, Relay, PartDone, First
<1>5. Wakes(t, c, r) /\ Wakes(t, r, c) /\ TimerHolds(t, c, r) /\ Reading(t, rn, c, r)
  BY <1>1 DEF Tunnel, Wakes, TimerHolds, Reading
<1>6. EarlyEnd(t, rn, c, r)
  BY DEF Tunnel, EarlyEnd, Noticed
<1> QED BY <1>2, <1>3, <1>4, <1>5, <1>6 DEF Tunnel, Relay

\* Bytes that the application sends are for the tunnel.
LEMMA OpenIs ==
  ASSUME LoopInv, NEW c \in Slots, NEW r \in Slots, Open(c, r)
  PROVE  c # r /\ Tunnel(parts, Cur, run, c, r)
<1>1. ev[c].cb = "on_tunnel" /\ ev[c].pair = r /\ ev[r].flag = "CONN"
  BY DEF Open
<1>2. PICK d \in Slots, q \in Slots : d # q /\ Tunnel(parts, Cur, run, d, q)
  BY <1>1, PhaseIs
<1>3. /\ ev[d].flag = "S5" /\ ev[d].pair = q /\ ev[q].pair = d
  BY <1>2, CurIs DEF Tunnel, Relay, Ends
<1>4. r = q
  BY <1>1, <1>2, <1>3, OtherSlot
<1>5. c = d
  BY <1>1, <1>2, <1>3, <1>4, OtherSlot
<1> QED BY <1>2, <1>4, <1>5

\* What the parts of a relay are.
LEMMA RelayTypes ==
  ASSUME NEW s \in StateT, NEW c \in Slots, NEW r \in Slots, NEW pp, Relay(pp, s, c, r)
  PROVE  /\ s.w.up \in Nat /\ s.w.down \in Nat /\ s.w.sgot \in Seq(Byte) /\ s.w.agot \in Seq(Byte)
         /\ s.w \in NetT
         /\ s.e[c] \in EvalT /\ s.e[r] \in EvalT /\ s.k[c] \in SockT /\ s.k[r] \in SockT
         /\ s.k[c].tx \in Seq(Byte) /\ s.k[r].tx \in Seq(Byte)
         /\ s.k[c].rx \in Seq(Byte) /\ s.k[r].rx \in Seq(Byte)
         /\ Rest(s.e[c].buff) \in Seq(Byte) /\ Rest(s.e[r].buff) \in Seq(Byte)
         /\ s.e[c].buff \in BuffT /\ s.e[r].buff \in BuffT
<1>1. /\ s.e[c] \in EvalT /\ s.e[r] \in EvalT /\ s.k[c] \in SockT /\ s.k[r] \in SockT
      /\ s.w \in NetT
  BY StateIs
<1>2. /\ s.w.up \in Nat /\ s.w.down \in Nat /\ s.w.sgot \in Seq(Byte) /\ s.w.agot \in Seq(Byte)
  BY <1>1, NetIs
<1>3. s.k[c].tx \in Seq(Byte) /\ s.k[r].tx \in Seq(Byte)
  BY <1>1, SockIs
<1>4. s.e[c].buff \in BuffT /\ s.e[r].buff \in BuffT
  BY <1>1, EvalIs
<1>5. /\ Chunk(s.e[c].buff) /\ Chunk(s.e[r].buff)
      /\ s.k[c].rx \in Seq(Byte) /\ s.k[r].rx \in Seq(Byte)
  BY DEF Relay, Account
<1>6. Rest(s.e[c].buff) \in Seq(Byte) /\ Rest(s.e[r].buff) \in Seq(Byte)
  BY <1>4, <1>5, RestOf
<1> QED BY <1>1, <1>2, <1>3, <1>4, <1>5, <1>6

\* One more byte to be read.
LEMMA AccountMore ==
  ASSUME NEW v \in EvalT, NEW k, NEW l, NEW n \in Nat, Account(v, k, n), NEW m, m = n + 1,
         m \in Byte, l.rx = Append(k.rx, m)
  PROVE  Account(v, l, m)
<1> DEFINE q == Append(k.rx, m)
           a == v.round_sent
           x == Len(k.rx)
           y == Len(Rest(v.buff))
           z == Len(q)
<1>1. k.rx \in Seq(Byte) /\ Chunk(v.buff) /\ a + y + x <= n /\ Counts(k.rx, n - x)
  BY DEF Account
<1>2. q \in Seq(Byte) /\ z = x + 1 /\ x \in Nat /\ q[x + 1] = m /\ \A i \in 1..x : q[i] = k.rx[i]
  BY <1>1, AppendProperties, LenProperties
<1>3. a \in Nat /\ y \in Nat
  <2>1. v.buff \in BuffT /\ a \in Nat
    BY EvalIs
  <2>2. Rest(v.buff) \in Seq(Byte)
    BY <1>1, <2>1, RestOf
  <2> QED BY <2>1, <2>2, LenProperties
<1>4. Counts(q, m - z)
  <2> SUFFICES ASSUME NEW i \in 1..z PROVE q[i] = (m - z) + i
    BY DEF Counts, z
  <2>1. \A j \in 1..x : k.rx[j] = (n - x) + j
    BY <1>1 DEF Counts, x
  <2> HIDE DEF x, z, q
  <2>2. CASE i = x + 1
    BY <1>2, <2>2
  <2>3. CASE i # x + 1
    <3>1. i \in 1..x
      BY <1>2, <2>3
    <3>2. q[i] = (n - x) + i
      BY <1>2, <2>1, <3>1
    <3> QED BY <1>2, <3>2
  <2> QED BY <2>2, <2>3
<1>5. a + y + z <= m
  <2> HIDE DEF a, x, y, z
  <2> QED BY <1>1, <1>2, <1>3
<1> HIDE DEF q
<1>6. l.rx = q
  BY DEF q
<1> QED BY <1>1, <1>2, <1>4, <1>5, <1>6 DEF Account

\* A byte is one if it is within what is sent.
LEMMA ByteIs ==
  ASSUME NEW w \in NetT
  PROVE  /\ w.up < MaxUp => w.up + 1 \in Byte /\ w.up + 1 \in 0..MaxUp
         /\ w.down < MaxDown => w.down + 1 \in Byte /\ w.down + 1 \in 0..MaxDown
<1>1. w.up \in Nat /\ w.down \in Nat /\ MaxUp \in Nat /\ MaxDown \in Nat
  BY NetIs
<1> QED BY <1>1 DEF Byte

\* Bytes are numbers.
LEMMA BytesAreNat ==
  ASSUME NEW q \in Seq(Byte)
  PROVE  q \in Seq(Nat)
<1>1. Byte \subseteq Nat
  BY SizesAssumption DEF Byte
<1>2. Len(q) \in Nat /\ q \in [1..Len(q) -> Byte]
  BY LenProperties
<1>3. q \in [1..Len(q) -> Nat]
  BY <1>1, <1>2
<1> QED BY <1>2, <1>3, SeqDef

\* The application's send keeps the invariant.
LEMMA AppSendsKeeps ==
  ASSUME LoopInv, AppSends
  PROVE  LoopInv'
<1>1. PICK c \in Slots, r \in Slots :
        /\ Open(c, r) /\ net.up < MaxUp /\ ~Over(sk[c])
        /\ World([sk EXCEPT ![c].rx = Append(@, net.up + 1)], [net EXCEPT !.up = @ + 1], {})
  BY DEF AppSends
<1>2. c # r /\ Tunnel(parts, Cur, run, c, r)
  BY <1>1, OpenIs
<1> DEFINE m == net.up + 1
           q == Append(sk[c].rx, m)
           l == SetRx(sk[c], q)
           k == OneSocket(c, l)
           w == [net EXCEPT !.up = m]
           t == Moved(k, w, {})
<1>3. Relay(parts, Cur, c, r) /\ Cur \in StateT
  BY <1>2 DEF Tunnel, LoopInv, Good
<1>4. Cur.e = ev /\ Cur.b = batch /\ Cur.k = sk /\ Cur.w = net /\ Cur.h = causes
  BY CurIs
<1>5. /\ net.up \in Nat /\ net.down \in Nat /\ net.sgot \in Seq(Byte) /\ net.agot \in Seq(Byte)
      /\ net \in NetT
      /\ ev[c] \in EvalT /\ ev[r] \in EvalT /\ sk[c] \in SockT /\ sk[r] \in SockT
      /\ sk[c].tx \in Seq(Byte) /\ sk[r].tx \in Seq(Byte)
      /\ sk[c].rx \in Seq(Byte) /\ sk[r].rx \in Seq(Byte)
      /\ Rest(ev[c].buff) \in Seq(Byte) /\ Rest(ev[r].buff) \in Seq(Byte)
  BY <1>3, <1>4, RelayTypes
<1>6. m \in Byte /\ m \in 0..MaxUp /\ m = net.up + 1
  BY <1>1, <1>5, ByteIs
<1>7. World(k, w, {})
  BY <1>1 DEF OneSocket, SetRx
<1> HIDE DEF m
<1>8. q \in Seq(Byte) /\ q \in Seq(Nat)
  <2>1. q \in Seq(Byte)
    BY <1>5, <1>6, AppendProperties
  <2> HIDE DEF q
  <2> QED BY <2>1, BytesAreNat
<1>9. l.rx = q
  BY <1>5, <1>8, SetRxIs
<1> HIDE DEF q
<1>10. /\ l \in SockT /\ l.st = sk[c].st /\ l.eof = sk[c].eof /\ l.err = sk[c].err
       /\ l.tx = sk[c].tx /\ l.unsent = sk[c].unsent /\ l.low = sk[c].low
       /\ l.linger = sk[c].linger
  BY <1>5, <1>8, SetRxIs
<1> HIDE DEF l
<1>11. k \in [Slots -> SockT] /\ k[c] = l /\ \A j \in Slots : j # c => k[j] = sk[j]
  BY <1>10, OneSocketIs
<1>12. w \in NetT /\ w.up = m /\ w.down = net.down /\ w.sgot = net.sgot /\ w.agot = net.agot
  BY <1>5, <1>6 DEF NetT
<1> HIDE DEF k, w
<1>13. /\ t \in StateT /\ t.e = ev /\ t.b = batch /\ t.k = k /\ t.w = w /\ t.h = causes
       /\ t.x = {} /\ Events(t)
  BY <1>11, <1>12, MovedSilent
<1> HIDE DEF t
<1>14. t.k[c] = l /\ t.k[r] = sk[r]
  BY <1>2, <1>11, <1>13
<1>15. /\ Ends(Cur, c, r) /\ Queued(sk[c]) /\ Queued(sk[r])
       /\ Account(ev[c], sk[c], net.up) /\ Account(ev[r], sk[r], net.down)
       /\ Down(Cur, c, r) /\ Up(Cur, c, r)
  BY <1>3, <1>4 DEF Relay
<1>16. Account(ev[c], l, m)
  <2>1. l.rx = Append(sk[c].rx, m)
    BY <1>9 DEF q
  <2> QED BY <1>5, <1>6, <1>15, <2>1, AccountMore
<1>17. Queued(l)
  BY <1>10, <1>15 DEF Queued
<1>18. Down(t, c, r)
  BY <1>4, <1>10, <1>12, <1>13, <1>14, <1>15 DEF Down
<1>19. Up(t, c, r)
  <2>1. Partly(net.sgot, net.up) => Partly(net.sgot, m)
    <3>1. Len(net.sgot) \in Nat
      BY <1>5, LenProperties
    <3>2. Len(net.sgot) <= net.up => Len(net.sgot) <= m
      BY <1>5, <1>6, <3>1
    <3> QED BY <3>2 DEF Partly
  <2>2. Flow(net.sgot, sk[r].tx, Rest(ev[c].buff), sk[c].rx, net.up) =>
          Flow(net.sgot, sk[r].tx, Rest(ev[c].buff), q, m)
    <3> DEFINE tx == sk[r].tx
               rx == sk[c].rx
               lf == Rest(ev[c].buff)
               g == net.sgot
               n == net.up
    <3>1. tx \in Seq(Byte) /\ rx \in Seq(Byte) /\ lf \in Seq(Byte) /\ g \in Seq(Byte) /\ n \in Nat
          /\ m = n + 1 /\ m \in Byte
      BY <1>5, <1>6
    <3> HIDE DEF tx, rx, lf, g, n
    <3>2. Flow(g, tx, lf, rx, n) => Flow(g, tx, lf, Append(rx, m), m)
      BY <3>1, FlowMore
    <3> QED BY <3>2 DEF tx, rx, lf, g, n, q
  <2> QED BY <1>4, <1>9, <1>12, <1>13, <1>14, <1>15, <2>1, <2>2 DEF Up
<1>20. ~Early(l, causes)
  BY <1>1, <1>10 DEF Early, Over
<1>21. Tunnel(parts, t, run, c, r)
  <2>1. /\ t.e = Cur.e /\ t.b = Cur.b /\ Cur.h \subseteq t.h
    BY <1>4, <1>13
  <2>2. /\ t.k[c].st = "up" /\ t.k[c].linger = Cur.k[c].linger /\ t.k[c].low = Cur.k[c].low
        /\ t.k[c].unsent = 0
        /\ t.k[r].st = "up" /\ t.k[r].linger = Cur.k[r].linger /\ t.k[r].low = Cur.k[r].low
        /\ (t.k[r].err => "server_reset" \in t.h) /\ (t.k[r].eof => "server_closed" \in t.h)
    BY <1>4, <1>10, <1>13, <1>14, <1>15 DEF Ends
  <2>3. /\ Queued(t.k[c]) /\ Queued(t.k[r]) /\ ~Early(t.k[c], t.h)
        /\ Account(t.e[c], t.k[c], t.w.up) /\ Account(t.e[r], t.k[r], t.w.down)
    BY <1>12, <1>13, <1>14, <1>15, <1>16, <1>17, <1>20
  <2> QED BY <1>2, <1>18, <1>19, <2>1, <2>2, <2>3, TunnelMoved
<1>22. Good(parts, t, run)
  BY <1>2, <1>13, <1>21 DEF Good
<1> QED BY <1>7, <1>22, WorldStep DEF t

\* The server's send keeps the invariant.
LEMMA ServerSendsKeeps ==
  ASSUME LoopInv, ServerSends
  PROVE  LoopInv'
<1>1. PICK c \in Slots, r \in Slots :
        /\ Open(c, r) /\ net.down < MaxDown
        /\ World([sk EXCEPT ![r].rx = Append(@, net.down + 1)], [net EXCEPT !.down = @ + 1], {})
  BY DEF ServerSends
<1>2. c # r /\ Tunnel(parts, Cur, run, c, r)
  BY <1>1, OpenIs
<1> DEFINE m == net.down + 1
           q == Append(sk[r].rx, m)
           l == SetRx(sk[r], q)
           k == OneSocket(r, l)
           w == [net EXCEPT !.down = m]
           t == Moved(k, w, {})
<1>3. Relay(parts, Cur, c, r) /\ Cur \in StateT
  BY <1>2 DEF Tunnel, LoopInv, Good
<1>4. Cur.e = ev /\ Cur.b = batch /\ Cur.k = sk /\ Cur.w = net /\ Cur.h = causes
  BY CurIs
<1>5. /\ net.up \in Nat /\ net.down \in Nat /\ net.sgot \in Seq(Byte) /\ net.agot \in Seq(Byte)
      /\ net \in NetT
      /\ ev[c] \in EvalT /\ ev[r] \in EvalT /\ sk[c] \in SockT /\ sk[r] \in SockT
      /\ sk[c].tx \in Seq(Byte) /\ sk[r].tx \in Seq(Byte)
      /\ sk[c].rx \in Seq(Byte) /\ sk[r].rx \in Seq(Byte)
      /\ Rest(ev[c].buff) \in Seq(Byte) /\ Rest(ev[r].buff) \in Seq(Byte)
  BY <1>3, <1>4, RelayTypes
<1>6. m \in Byte /\ m \in 0..MaxDown /\ m = net.down + 1
  BY <1>1, <1>5, ByteIs
<1>7. World(k, w, {})
  BY <1>1 DEF OneSocket, SetRx
<1> HIDE DEF m
<1>8. q \in Seq(Byte) /\ q \in Seq(Nat)
  <2>1. q \in Seq(Byte)
    BY <1>5, <1>6, AppendProperties
  <2> HIDE DEF q
  <2> QED BY <2>1, BytesAreNat
<1>9. l.rx = q
  BY <1>5, <1>8, SetRxIs
<1> HIDE DEF q
<1>10. /\ l \in SockT /\ l.st = sk[r].st /\ l.eof = sk[r].eof /\ l.err = sk[r].err
       /\ l.tx = sk[r].tx /\ l.unsent = sk[r].unsent /\ l.low = sk[r].low
       /\ l.linger = sk[r].linger
  BY <1>5, <1>8, SetRxIs
<1> HIDE DEF l
<1>11. k \in [Slots -> SockT] /\ k[r] = l /\ \A j \in Slots : j # r => k[j] = sk[j]
  BY <1>10, OneSocketIs
<1>12. w \in NetT /\ w.down = m /\ w.up = net.up /\ w.sgot = net.sgot /\ w.agot = net.agot
  BY <1>5, <1>6 DEF NetT
<1> HIDE DEF k, w
<1>13. /\ t \in StateT /\ t.e = ev /\ t.b = batch /\ t.k = k /\ t.w = w /\ t.h = causes
       /\ t.x = {} /\ Events(t)
  BY <1>11, <1>12, MovedSilent
<1> HIDE DEF t
<1>14. t.k[r] = l /\ t.k[c] = sk[c]
  BY <1>2, <1>11, <1>13
<1>15. /\ Ends(Cur, c, r) /\ Queued(sk[c]) /\ Queued(sk[r])
       /\ Account(ev[c], sk[c], net.up) /\ Account(ev[r], sk[r], net.down)
       /\ Down(Cur, c, r) /\ Up(Cur, c, r)
  BY <1>3, <1>4 DEF Relay
<1>16. Account(ev[r], l, m)
  <2>1. l.rx = Append(sk[r].rx, m)
    BY <1>9 DEF q
  <2> QED BY <1>5, <1>6, <1>15, <2>1, AccountMore
<1>17. Queued(l)
  BY <1>10, <1>15 DEF Queued
<1>18. Up(t, c, r)
  BY <1>4, <1>10, <1>12, <1>13, <1>14, <1>15 DEF Up
<1>19. Down(t, c, r)
  <2>1. Partly(net.agot, net.down) => Partly(net.agot, m)
    <3>1. Len(net.agot) \in Nat
      BY <1>5, LenProperties
    <3>2. Len(net.agot) <= net.down => Len(net.agot) <= m
      BY <1>5, <1>6, <3>1
    <3> QED BY <3>2 DEF Partly
  <2>2. Flow(net.agot, sk[c].tx, Rest(ev[r].buff), sk[r].rx, net.down) =>
          Flow(net.agot, sk[c].tx, Rest(ev[r].buff), q, m)
    <3> DEFINE tx == sk[c].tx
               rx == sk[r].rx
               lf == Rest(ev[r].buff)
               g == net.agot
               n == net.down
    <3>1. tx \in Seq(Byte) /\ rx \in Seq(Byte) /\ lf \in Seq(Byte) /\ g \in Seq(Byte) /\ n \in Nat
          /\ m = n + 1 /\ m \in Byte
      BY <1>5, <1>6
    <3> HIDE DEF tx, rx, lf, g, n
    <3>2. Flow(g, tx, lf, rx, n) => Flow(g, tx, lf, Append(rx, m), m)
      BY <3>1, FlowMore
    <3> QED BY <3>2 DEF tx, rx, lf, g, n, q
  <2> QED BY <1>4, <1>9, <1>12, <1>13, <1>14, <1>15, <2>1, <2>2 DEF Down
<1>21. Tunnel(parts, t, run, c, r)
  <2>1. /\ t.e = Cur.e /\ t.b = Cur.b /\ Cur.h \subseteq t.h
    BY <1>4, <1>13
  <2>2. /\ t.k[c].st = "up" /\ t.k[c].linger = Cur.k[c].linger /\ t.k[c].low = Cur.k[c].low
        /\ t.k[c].unsent = 0
        /\ t.k[r].st = "up" /\ t.k[r].linger = Cur.k[r].linger /\ t.k[r].low = Cur.k[r].low
        /\ (t.k[r].err => "server_reset" \in t.h) /\ (t.k[r].eof => "server_closed" \in t.h)
    BY <1>4, <1>10, <1>13, <1>14, <1>15 DEF Ends
  <2>3. /\ Queued(t.k[c]) /\ Queued(t.k[r])
        /\ Account(t.e[c], t.k[c], t.w.up) /\ Account(t.e[r], t.k[r], t.w.down)
        /\ Early(t.k[c], t.h) => Early(Cur.k[c], Cur.h) /\ t.k[c].rx = Cur.k[c].rx
    BY <1>4, <1>12, <1>13, <1>14, <1>15, <1>16, <1>17
  <2> QED BY <1>2, <1>18, <1>19, <2>1, <2>2, <2>3, TunnelMoved
<1>22. Good(parts, t, run)
  BY <1>2, <1>13, <1>21 DEF Good
<1> QED BY <1>7, <1>22, WorldStep DEF t

\* A socket whose peer has closed or reset it.
Closed(k, rst) ==
    IF rst THEN [k EXCEPT !.err = TRUE, !.tx = <<>>, !.unsent = 0] ELSE [k EXCEPT !.eof = TRUE]
CloseCause(flag, rst) ==
    IF flag = "CONN" THEN IF rst THEN "server_reset" ELSE "server_closed"
    ELSE IF rst THEN "client_reset" ELSE "client_closed"

\* What a peer's close or reset makes of a socket.
LEMMA ClosedIs ==
  ASSUME NEW k \in SockT, NEW rst \in BOOLEAN, ~Over(k)
  PROVE  /\ Closed(k, rst) \in SockT /\ Closed(k, rst).st = k.st /\ Closed(k, rst).rx = k.rx
         /\ Closed(k, rst).low = k.low /\ Closed(k, rst).linger = k.linger
         /\ rst => Closed(k, rst).tx = <<>> /\ Closed(k, rst).unsent = 0 /\ ~Closed(k, rst).eof
         /\ ~rst => Closed(k, rst).tx = k.tx /\ Closed(k, rst).unsent = k.unsent /\ ~Closed(k, rst).err
<1>1. <<>> \in Seq(Byte) /\ k.eof = FALSE /\ k.err = FALSE
  BY SockIs DEF Over
<1>2. CASE rst
  BY <1>1, <1>2 DEF Closed, SockT
<1>3. CASE ~rst
  BY <1>1, <1>3 DEF Closed, SockT
<1> QED BY <1>2, <1>3

\* A peer's close or reset keeps the invariant.
LEMMA PeerClosesKeeps ==
  ASSUME LoopInv, PeerCloses
  PROVE  LoopInv'
<1>1. PICK i \in Slots, rst \in BOOLEAN :
        /\ sk[i].st = "up" /\ ~Over(sk[i])
        /\ World([sk EXCEPT ![i] = IF rst THEN [@ EXCEPT !.err = TRUE, !.tx = <<>>, !.unsent = 0]
                                    ELSE [@ EXCEPT !.eof = TRUE]],
                  net,
                  {IF ev[i].flag = "CONN" THEN IF rst THEN "server_reset" ELSE "server_closed"
                   ELSE IF rst THEN "client_reset" ELSE "client_closed"})
  BY DEF PeerCloses
<1> DEFINE l == Closed(sk[i], rst)
           k == OneSocket(i, l)
           o == CloseCause(ev[i].flag, rst)
           t == Moved(k, net, {o})
<1>2. World(k, net, {o})
  BY <1>1 DEF OneSocket, Closed, CloseCause
<1>3. sk[i] \in SockT /\ net \in NetT
  BY VarsAre
<1>4. /\ l \in SockT /\ l.st = "up" /\ l.rx = sk[i].rx /\ l.low = sk[i].low
      /\ l.linger = sk[i].linger
      /\ rst => l.tx = <<>> /\ l.unsent = 0 /\ ~l.eof
      /\ ~rst => l.tx = sk[i].tx /\ l.unsent = sk[i].unsent /\ ~l.err
  BY <1>1, <1>3, ClosedIs
<1>5. /\ ev[i].flag = "CONN" => o = IF rst THEN "server_reset" ELSE "server_closed"
      /\ ev[i].flag # "CONN" => o = IF rst THEN "client_reset" ELSE "client_closed"
  BY DEF CloseCause
<1>6. {o} \in SUBSET Cause
  BY <1>5 DEF Cause
<1> HIDE DEF l, o
<1>7. k \in [Slots -> SockT] /\ k[i] = l /\ \A j \in Slots : j # i => k[j] = sk[j]
  BY <1>4, OneSocketIs
<1> HIDE DEF k
<1>8. /\ t \in StateT /\ t.e = ev /\ t.b = batch /\ t.k = k /\ t.w = net /\ t.h = causes \cup {o}
      /\ t.x = {} /\ Events(t)
  <2> DEFINE g == {o}
  <2>1. g \in SUBSET Cause
    BY <1>6
  <2> HIDE DEF g
  <2>2. /\ Moved(k, net, g) \in StateT /\ Moved(k, net, g).e = ev /\ Moved(k, net, g).b = batch
        /\ Moved(k, net, g).k = k /\ Moved(k, net, g).w = net /\ Moved(k, net, g).h = causes \cup g
        /\ Moved(k, net, g).x = {} /\ Events(Moved(k, net, g))
    BY <1>3, <1>7, <2>1, MovedIs
  <2> QED BY <2>2 DEF g
<1> HIDE DEF t
<1>9. Cur.e = ev /\ Cur.b = batch /\ Cur.k = sk /\ Cur.w = net /\ Cur.h = causes
  BY CurIs
<1>10. causes \subseteq t.h /\ o \in t.h
  BY <1>8
<1>11. ~Early(l, t.h) \/ ev[i].flag = "CONN"
  BY <1>4, <1>5, <1>10 DEF Early
<1>12. CASE Loose(Cur) /\ run = NoRun
  <2>1. \A j \in Slots : IsFree(ev[j], sk[j]) \/ IsClient(ev[j], sk[j])
    BY <1>9, <1>12 DEF Loose
  <2>2. IsClient(ev[i], sk[i])
    BY <1>1, <2>1 DEF IsFree
  <2>3. IsClient(ev[i], l)
    BY <1>4, <2>2 DEF IsClient, Quiet
  <2>4. \A j \in Slots : IsFree(t.e[j], t.k[j]) \/ IsClient(t.e[j], t.k[j])
    BY <1>7, <1>8, <2>1, <2>3
  <2>5. Final(t.w, t.h)
    BY <1>8, <1>9, <1>10, <1>12, FinalMore DEF Loose
  <2>6. Loose(t)
    BY <1>8, <1>9, <1>12, <2>4, <2>5 DEF Loose
  <2>7. Good(parts, t, run)
    BY <1>8, <1>12, <2>6 DEF Good
  <2> QED BY <1>2, <2>7, WorldStep DEF t
<1>13. ASSUME NEW c \in Slots, NEW r \in Slots, c # r, Joining(Cur, c, r), run = NoRun
       PROVE  LoopInv'
  <2>1. ev[c].flag = "S5" /\ ev[r].flag = "CONN" /\ (i = c \/ i = r)
    BY <1>9, <1>13, OtherSlot DEF Joining
  <2>2. Quiet(ev[c], t.k[c]) /\ Quiet(ev[r], t.k[r])
    <3>1. Quiet(ev[c], sk[c]) /\ Quiet(ev[r], sk[r])
      BY <1>9, <1>13 DEF Joining
    <3>2. Quiet(ev[i], sk[i]) => Quiet(ev[i], l)
      BY <1>4 DEF Quiet
    <3> QED BY <1>7, <1>8, <1>13, <2>1, <3>1, <3>2
  <2>3. Noticed(Cur, c) => Noticed(t, c)
    BY <1>8, <1>9 DEF Noticed
  <2>4. Early(t.k[c], t.h) => Early(sk[c], causes)
    <3>1. CASE i = c
      BY <1>7, <1>8, <1>11, <2>1, <3>1
    <3>2. CASE i = r
      <4>1. t.k[c] = sk[c]
        BY <1>7, <1>8, <1>13, <3>2
      <4> QED BY <1>10, <4>1 DEF Early
    <3> QED BY <2>1, <3>1, <3>2
  <2>5. /\ t.k[c].st = "up" /\ t.k[c].rx = <<>> /\ t.k[r].rx = <<>> /\ t.k[r].st = sk[r].st
        /\ sk[r].st # "closed" /\ net = NoNet
        /\ (t.k[r].eof \/ t.k[r].err => t.k[r].st = "up")
        /\ (t.k[r].err => "server_reset" \in t.h) /\ (t.k[r].eof => "server_closed" \in t.h)
    <3>1. CASE i = c
      BY <1>4, <1>7, <1>8, <1>9, <1>10, <1>13, <3>1 DEF Joining
    <3>2. CASE i = r
      <4>1. t.k[r] = l /\ t.k[c] = sk[c]
        BY <1>7, <1>8, <1>13, <3>2
      <4>2. (l.err => "server_reset" \in t.h) /\ (l.eof => "server_closed" \in t.h)
        BY <1>4, <1>5, <1>10, <2>1, <3>2
      <4> QED BY <1>1, <1>4, <1>9, <1>13, <3>2, <4>1, <4>2 DEF Joining
    <3> QED BY <2>1, <3>1, <3>2
  <2>6. Joining(t, c, r)
    <3>1. /\ \A x \in t.b : x.s = c /\ ~t.e[c].stamp => x.type \cap {"err", "rdhup"} # {}
          /\ \A x \in t.b : x.s = r /\ ~t.e[r].stamp => "err" \in x.type \/ t.k[r].st = "up"
      BY <1>8, <1>9, <1>13, <2>5 DEF Joining
    <3>2. Early(t.k[c], t.h) => t.e[r].stamp \/ Noticed(t, c)
      BY <1>8, <1>9, <1>13, <2>3, <2>4 DEF Joining
    <3>3. /\ t.e[c].live /\ t.e[c].cb = "on_ignore" /\ t.e[c].flag = "S5" /\ t.e[c].pair = r
          /\ ~t.e[c].out
          /\ t.e[r].live /\ t.e[r].cb = "on_connect" /\ t.e[r].flag = "CONN" /\ t.e[r].pair = c
      BY <1>8, <1>9, <1>13 DEF Joining
    <3> QED BY <1>8, <2>2, <2>5, <3>1, <3>2, <3>3 DEF Joining
  <2>7. Good(parts, t, run)
    BY <1>8, <1>13, <2>6 DEF Good
  <2> QED BY <1>2, <2>7, WorldStep DEF t
<1>14. ASSUME NEW c \in Slots, NEW r \in Slots, c # r, Tunnel(parts, Cur, run, c, r)
       PROVE  LoopInv'
  <2>1. /\ Ends(Cur, c, r) /\ Queued(sk[c]) /\ Queued(sk[r])
        /\ Account(ev[c], sk[c], net.up) /\ Account(ev[r], sk[r], net.down)
        /\ Down(Cur, c, r) /\ Up(Cur, c, r)
    BY <1>9, <1>14 DEF Tunnel, Relay
  <2>2. ev[c].flag = "S5" /\ ev[r].flag = "CONN" /\ (i = c \/ i = r)
    BY <1>9, <1>14, <2>1, OtherSlot DEF Ends
  <2>3. Queued(sk[i]) => Queued(l)
    <3>1. Len(<<>>) = 0 /\ SndBuf \in Nat
      BY SizesAssumption
    <3>2. CASE rst
      BY <1>4, <3>1, <3>2 DEF Queued
    <3>3. CASE ~rst
      BY <1>4, <3>3 DEF Queued
    <3> QED BY <3>2, <3>3
  <2>4. Account(t.e[c], t.k[c], t.w.up) /\ Account(t.e[r], t.k[r], t.w.down)
    <3>1. t.k[c].rx = sk[c].rx /\ t.k[r].rx = sk[r].rx
      BY <1>4, <1>7, <1>8
    <3> QED BY <1>8, <2>1, <3>1 DEF Account
  <2>5. /\ "client_reset" \in causes => "client_reset" \in t.h
        /\ "server_reset" \in causes => "server_reset" \in t.h
        /\ "server_closed" \in causes => "server_closed" \in t.h
        /\ t.h \cap LostUp = {} => causes \cap LostUp = {}
    BY <1>10
  <2>6. CASE i = c
    <3>1. t.k[c] = l /\ t.k[r] = sk[r]
      BY <1>7, <1>8, <1>14, <2>6
    <3>2. Down(t, c, r)
      <4>1. CASE rst
        <5>1. "client_reset" \in t.h
          BY <1>5, <1>10, <2>2, <2>6, <4>1
        <5> QED BY <1>8, <1>9, <2>1, <3>1, <5>1, SockIs, <1>4, <4>1 DEF Down, Closed, l
      <4>2. CASE ~rst
        <5>1. l.tx = sk[c].tx /\ ~l.err /\ ~sk[c].err
          BY <1>1, <1>4, <2>6, <4>2 DEF Over
        <5> QED BY <1>8, <1>9, <2>1, <3>1, <5>1 DEF Down
      <4> QED BY <4>1, <4>2
    <3>3. Up(t, c, r)
      BY <1>4, <1>8, <1>9, <2>1, <2>5, <2>6, <3>1 DEF Up
    <3>4. /\ t.k[c].st = "up" /\ t.k[c].linger = Cur.k[c].linger /\ t.k[c].low = Cur.k[c].low
          /\ t.k[c].unsent = 0
          /\ t.k[r].st = "up" /\ t.k[r].linger = Cur.k[r].linger /\ t.k[r].low = Cur.k[r].low
          /\ (t.k[r].err => "server_reset" \in t.h) /\ (t.k[r].eof => "server_closed" \in t.h)
      BY <1>4, <1>9, <2>1, <2>5, <2>6, <3>1 DEF Ends
    <3>5. ~Early(t.k[c], t.h)
      BY <1>11, <2>2, <2>6, <3>1
    <3>6. Queued(t.k[c]) /\ Queued(t.k[r])
      BY <2>1, <2>3, <2>6, <3>1
    <3>7. t.e = Cur.e /\ t.b = Cur.b /\ Cur.h \subseteq t.h
      BY <1>8, <1>9
    <3>8. Tunnel(parts, t, run, c, r)
      BY <1>14, <2>4, <3>2, <3>3, <3>4, <3>5, <3>6, <3>7, TunnelMoved
    <3>9. Good(parts, t, run)
      BY <1>8, <1>14, <3>8 DEF Good
    <3> QED BY <1>2, <3>9, WorldStep DEF t
  <2>7. CASE i = r
    <3>1. t.k[r] = l /\ t.k[c] = sk[c]
      BY <1>7, <1>8, <1>14, <2>7
    <3>2. Down(t, c, r)
      BY <1>4, <1>8, <1>9, <2>1, <2>5, <2>7, <3>1 DEF Down
    <3>3. Up(t, c, r)
      <4>1. ~l.err => l.tx = sk[r].tx /\ ~sk[r].err
        BY <1>1, <1>3, <1>4, <2>7, SockIs DEF Closed, l, Over, SockT
      <4> QED BY <1>8, <1>9, <2>1, <2>5, <3>1, <4>1 DEF Up
    <3>4. (l.err => "server_reset" \in t.h) /\ (l.eof => "server_closed" \in t.h)
      BY <1>4, <1>5, <1>10, <2>2, <2>7
    <3>5. /\ t.k[c].st = "up" /\ t.k[c].linger = Cur.k[c].linger /\ t.k[c].low = Cur.k[c].low
          /\ t.k[c].unsent = 0
          /\ t.k[r].st = "up" /\ t.k[r].linger = Cur.k[r].linger /\ t.k[r].low = Cur.k[r].low
          /\ (t.k[r].err => "server_reset" \in t.h) /\ (t.k[r].eof => "server_closed" \in t.h)
      BY <1>4, <1>9, <2>1, <2>7, <3>1, <3>4 DEF Ends
    <3>6. Early(t.k[c], t.h) => Early(Cur.k[c], Cur.h) /\ t.k[c].rx = Cur.k[c].rx
      BY <1>9, <1>10, <3>1 DEF Early
    <3>7. Queued(t.k[c]) /\ Queued(t.k[r])
      BY <2>1, <2>3, <2>7, <3>1
    <3>8. t.e = Cur.e /\ t.b = Cur.b /\ Cur.h \subseteq t.h
      BY <1>8, <1>9
    <3>9. Tunnel(parts, t, run, c, r)
      BY <1>14, <2>4, <3>2, <3>3, <3>5, <3>6, <3>7, <3>8, TunnelMoved
    <3>10. Good(parts, t, run)
      BY <1>8, <1>14, <3>9 DEF Good
    <3> QED BY <1>2, <3>10, WorldStep DEF t
  <2> QED BY <2>2, <2>6, <2>7
<1> QED BY <1>12, <1>13, <1>14, VarsAre

\* The kernel has sent what was queued.
LEMMA TransmitKeeps ==
  ASSUME LoopInv, Transmit
  PROVE  LoopInv'
<1>1. PICK i \in Slots : sk[i].unsent > 0 /\ World([sk EXCEPT ![i].unsent = 0], net, {})
  BY DEF Transmit
<1> DEFINE l == [sk[i] EXCEPT !.unsent = 0]
           k == OneSocket(i, l)
           t == Moved(k, net, {})
<1>2. World(k, net, {})
  BY <1>1 DEF OneSocket
<1>3. sk[i] \in SockT /\ net \in NetT /\ sk[i].unsent # 0
  BY <1>1, VarsAre
<1>4. /\ l \in SockT /\ l.st = sk[i].st /\ l.rx = sk[i].rx /\ l.eof = sk[i].eof /\ l.err = sk[i].err
      /\ l.tx = sk[i].tx /\ l.unsent = 0 /\ l.low = sk[i].low /\ l.linger = sk[i].linger
  BY <1>3 DEF SockT
<1> HIDE DEF l
<1>5. k \in [Slots -> SockT] /\ k[i] = l /\ \A j \in Slots : j # i => k[j] = sk[j]
  BY <1>4, OneSocketIs
<1> HIDE DEF k
<1>6. /\ t \in StateT /\ t.e = ev /\ t.b = batch /\ t.k = k /\ t.w = net /\ t.h = causes
      /\ t.x = {} /\ Events(t)
  BY <1>3, <1>5, MovedSilent
<1> HIDE DEF t
<1>7. Cur.e = ev /\ Cur.b = batch /\ Cur.k = sk /\ Cur.w = net /\ Cur.h = causes
  BY CurIs
<1>8. PICK c \in Slots, r \in Slots : c # r /\ Tunnel(parts, Cur, run, c, r)
  <2>1. ~Loose(Cur)
    BY <1>3, <1>7 DEF Loose, IsFree, IsClient, Quiet
  <2>2. \A c, r \in Slots : c # r => ~Joining(Cur, c, r)
    BY <1>3, <1>7, OtherSlot DEF Joining, Quiet
  <2> QED BY <2>1, <2>2, VarsAre
<1>9. /\ Ends(Cur, c, r) /\ Queued(sk[c]) /\ Queued(sk[r])
      /\ Account(ev[c], sk[c], net.up) /\ Account(ev[r], sk[r], net.down)
      /\ Down(Cur, c, r) /\ Up(Cur, c, r)
  BY <1>7, <1>8 DEF Tunnel, Relay
<1>10. i = r
  BY <1>3, <1>7, <1>8, <1>9, OtherSlot DEF Ends
<1>11. t.k[r] = l /\ t.k[c] = sk[c]
  BY <1>5, <1>6, <1>8, <1>10
<1>12. Queued(l)
  <2>1. Len(l.tx) \in Nat
    BY <1>4, SockIs
  <2>2. 0 <= Len(l.tx)
    BY <2>1
  <2> QED BY <1>4, <1>9, <1>10, <2>2 DEF Queued
<1>13. Account(t.e[c], t.k[c], t.w.up) /\ Account(t.e[r], t.k[r], t.w.down)
  BY <1>4, <1>6, <1>9, <1>10, <1>11 DEF Account
<1>14. Down(t, c, r) /\ Up(t, c, r)
  BY <1>4, <1>6, <1>7, <1>9, <1>10, <1>11 DEF Down, Up
<1>15. /\ t.k[c].st = "up" /\ t.k[c].linger = Cur.k[c].linger /\ t.k[c].low = Cur.k[c].low
       /\ t.k[c].unsent = 0
       /\ t.k[r].st = "up" /\ t.k[r].linger = Cur.k[r].linger /\ t.k[r].low = Cur.k[r].low
       /\ (t.k[r].err => "server_reset" \in t.h) /\ (t.k[r].eof => "server_closed" \in t.h)
  BY <1>4, <1>6, <1>7, <1>9, <1>10, <1>11 DEF Ends
<1>16. /\ t.e = Cur.e /\ t.b = Cur.b /\ Cur.h \subseteq t.h /\ Queued(t.k[c]) /\ Queued(t.k[r])
       /\ Early(t.k[c], t.h) => Early(Cur.k[c], Cur.h) /\ t.k[c].rx = Cur.k[c].rx
  BY <1>6, <1>7, <1>9, <1>11, <1>12
<1>17. Tunnel(parts, t, run, c, r)
  BY <1>8, <1>13, <1>14, <1>15, <1>16, TunnelMoved
<1>18. Good(parts, t, run)
  BY <1>6, <1>8, <1>17 DEF Good
<1> QED BY <1>2, <1>18, WorldStep DEF t

\* The first byte of a queue is taken.
Taken(k) == [k EXCEPT !.tx = Tail(@)]

\* What a peer's read takes from a socket's send queue.
LEMMA TakenIs ==
  ASSUME NEW k \in SockT, k.tx # <<>>
  PROVE  /\ Taken(k) \in SockT /\ Taken(k).st = k.st /\ Taken(k).rx = k.rx /\ Taken(k).eof = k.eof
         /\ Taken(k).err = k.err /\ Taken(k).tx = Tail(k.tx) /\ Taken(k).unsent = k.unsent
         /\ Taken(k).low = k.low /\ Taken(k).linger = k.linger
         /\ Head(k.tx) \in Byte /\ Len(Tail(k.tx)) = Len(k.tx) - 1 /\ Len(k.tx) \in Nat
<1> DEFINE q == Tail(k.tx)
<1>1. k.tx \in Seq(Byte)
  BY SockIs
<1>2. q \in Seq(Byte) /\ Head(k.tx) \in Byte /\ Len(q) = Len(k.tx) - 1 /\ Len(k.tx) \in Nat
  BY <1>1, HeadTailProperties, LenProperties
<1>3. Taken(k) = [k EXCEPT !.tx = q]
  BY DEF Taken
<1> HIDE DEF q
<1>4. /\ Taken(k) \in SockT /\ Taken(k).st = k.st /\ Taken(k).rx = k.rx /\ Taken(k).eof = k.eof
      /\ Taken(k).err = k.err /\ Taken(k).tx = q /\ Taken(k).unsent = k.unsent
      /\ Taken(k).low = k.low /\ Taken(k).linger = k.linger
  BY <1>2, <1>3 DEF SockT
<1> QED BY <1>2, <1>4 DEF q

\* The server's read keeps the invariant.
LEMMA ServerReadsKeeps ==
  ASSUME LoopInv, ServerReads
  PROVE  LoopInv'
<1>1. PICK i \in Slots :
        /\ ev[i].flag = "CONN" /\ Len(sk[i].tx) > sk[i].unsent
        /\ World([sk EXCEPT ![i].tx = Tail(@)], [net EXCEPT !.sgot = Append(@, Head(sk[i].tx))], {})
  BY DEF ServerReads
<1> DEFINE l == Taken(sk[i])
           k == OneSocket(i, l)
           g == Append(net.sgot, Head(sk[i].tx))
           w == [net EXCEPT !.sgot = g]
           t == Moved(k, w, {})
<1>2. World(k, w, {})
  BY <1>1 DEF OneSocket, Taken
<1>3. sk[i] \in SockT /\ net \in NetT /\ sk[i].tx # <<>>
  <2>1. sk[i] \in SockT /\ net \in NetT
    BY VarsAre
  <2>2. sk[i].unsent \in Nat /\ Len(<<>>) = 0
    BY <2>1, SockIs
  <2> QED BY <1>1, <2>1, <2>2
<1>4. /\ l \in SockT /\ l.st = sk[i].st /\ l.rx = sk[i].rx /\ l.eof = sk[i].eof
      /\ l.err = sk[i].err /\ l.tx = Tail(sk[i].tx) /\ l.unsent = sk[i].unsent
      /\ l.low = sk[i].low /\ l.linger = sk[i].linger
      /\ Head(sk[i].tx) \in Byte /\ Len(Tail(sk[i].tx)) = Len(sk[i].tx) - 1 /\ Len(sk[i].tx) \in Nat
  BY <1>3, TakenIs
<1> HIDE DEF l
<1>5. k \in [Slots -> SockT] /\ k[i] = l /\ \A j \in Slots : j # i => k[j] = sk[j]
  BY <1>4, OneSocketIs
<1>6. g \in Seq(Byte)
  BY <1>3, <1>4, NetIs, AppendProperties
<1> HIDE DEF g, k
<1>7. w \in NetT /\ w.up = net.up /\ w.down = net.down /\ w.sgot = g /\ w.agot = net.agot
  BY <1>3, <1>6 DEF NetT
<1> HIDE DEF w
<1>8. /\ t \in StateT /\ t.e = ev /\ t.b = batch /\ t.k = k /\ t.w = w /\ t.h = causes
      /\ t.x = {} /\ Events(t)
  BY <1>5, <1>7, MovedSilent
<1> HIDE DEF t
<1>9. Cur.e = ev /\ Cur.b = batch /\ Cur.k = sk /\ Cur.w = net /\ Cur.h = causes
  BY CurIs
<1>10. PICK c \in Slots, r \in Slots : c # r /\ Tunnel(parts, Cur, run, c, r)
  <2>1. ~Loose(Cur)
    BY <1>3, <1>9 DEF Loose, IsFree, IsClient, Quiet
  <2>2. \A c, r \in Slots : c # r => ~Joining(Cur, c, r)
    BY <1>3, <1>9, OtherSlot DEF Joining, Quiet
  <2> QED BY <2>1, <2>2, VarsAre
<1>11. /\ Ends(Cur, c, r) /\ Queued(sk[c]) /\ Queued(sk[r])
       /\ Account(ev[c], sk[c], net.up) /\ Account(ev[r], sk[r], net.down)
       /\ Down(Cur, c, r) /\ Up(Cur, c, r) /\ Relay(parts, Cur, c, r)
  BY <1>9, <1>10 DEF Tunnel, Relay
<1>12. i = r
  BY <1>1, <1>9, <1>10, <1>11, OtherSlot DEF Ends
<1>13. t.k[r] = l /\ t.k[c] = sk[c]
  BY <1>5, <1>8, <1>10, <1>12
<1>14. /\ net.up \in Nat /\ net.sgot \in Seq(Byte) /\ sk[r].tx \in Seq(Byte)
       /\ sk[c].rx \in Seq(Byte) /\ Rest(ev[c].buff) \in Seq(Byte)
  BY <1>9, <1>11, RelayTypes DEF LoopInv, Good
<1>15. Queued(l)
  <2>1. sk[i].unsent \in Nat /\ SndBuf \in Nat /\ Len(sk[i].tx) <= SndBuf /\ Len(sk[i].tx) > sk[i].unsent
    BY <1>1, <1>3, <1>11, <1>12, SockIs, SizesAssumption DEF Queued
  <2>2. Len(sk[i].tx) - 1 <= SndBuf /\ sk[i].unsent <= Len(sk[i].tx) - 1
    BY <1>4, <2>1
  <2>3. ~l.err
    BY <1>3, <1>4, <1>11, <1>12 DEF Queued
  <2> QED BY <1>4, <2>2, <2>3 DEF Queued
<1>16. Account(t.e[c], t.k[c], t.w.up) /\ Account(t.e[r], t.k[r], t.w.down)
  BY <1>4, <1>7, <1>8, <1>11, <1>12, <1>13 DEF Account
<1>17. Down(t, c, r)
  BY <1>4, <1>7, <1>8, <1>9, <1>11, <1>12, <1>13 DEF Down
<1>18. Up(t, c, r)
  <2>1. Flow(net.sgot, sk[r].tx, Rest(ev[c].buff), sk[c].rx, net.up) =>
          /\ Flow(g, Tail(sk[r].tx), Rest(ev[c].buff), sk[c].rx, net.up)
          /\ Partly(g, net.up)
    <3> DEFINE tx == sk[r].tx
               rx == sk[c].rx
               lf == Rest(ev[c].buff)
               q == net.sgot
               n == net.up
    <3>1. tx \in Seq(Byte) /\ rx \in Seq(Byte) /\ lf \in Seq(Byte) /\ q \in Seq(Byte) /\ n \in Nat
          /\ tx # <<>>
      BY <1>3, <1>12, <1>14
    <3> HIDE DEF tx, rx, lf, q, n
    <3>2. ASSUME Flow(q, tx, lf, rx, n)
          PROVE  /\ Flow(Append(q, Head(tx)), Tail(tx), lf, rx, n)
                 /\ Append(q, Head(tx)) \in Seq(Byte) /\ Tail(tx) \in Seq(Byte)
      BY <3>1, <3>2, FlowGet
    <3>3. ASSUME Flow(q, tx, lf, rx, n) PROVE Partly(Append(q, Head(tx)), n)
      <4> DEFINE y == Append(q, Head(tx))
                 z == Tail(tx)
      <4>1. y \in Seq(Byte) /\ z \in Seq(Byte) /\ Flow(y, z, lf, rx, n)
        BY <3>2, <3>3
      <4> HIDE DEF y, z
      <4>2. Partly(y, n)
        BY <3>1, <4>1, FlowClose
      <4> QED BY <4>2 DEF y
    <3> QED BY <1>12, <3>2, <3>3 DEF tx, rx, lf, q, n, g
  <2>2. ~sk[r].err
    BY <1>3, <1>11, <1>12 DEF Queued
  <2> QED BY <1>4, <1>7, <1>8, <1>9, <1>11, <1>12, <1>13, <2>1, <2>2 DEF Up
<1>19. /\ t.k[c].st = "up" /\ t.k[c].linger = Cur.k[c].linger /\ t.k[c].low = Cur.k[c].low
       /\ t.k[c].unsent = 0
       /\ t.k[r].st = "up" /\ t.k[r].linger = Cur.k[r].linger /\ t.k[r].low = Cur.k[r].low
       /\ (t.k[r].err => "server_reset" \in t.h) /\ (t.k[r].eof => "server_closed" \in t.h)
  BY <1>4, <1>8, <1>9, <1>11, <1>12, <1>13 DEF Ends
<1>20. /\ t.e = Cur.e /\ t.b = Cur.b /\ Cur.h \subseteq t.h /\ Queued(t.k[c]) /\ Queued(t.k[r])
       /\ Early(t.k[c], t.h) => Early(Cur.k[c], Cur.h) /\ t.k[c].rx = Cur.k[c].rx
  BY <1>8, <1>9, <1>11, <1>13, <1>15
<1>21. Tunnel(parts, t, run, c, r)
  BY <1>10, <1>16, <1>17, <1>18, <1>19, <1>20, TunnelMoved
<1>22. Good(parts, t, run)
  BY <1>8, <1>10, <1>21 DEF Good
<1> QED BY <1>2, <1>22, WorldStep DEF t

\* The application's read keeps the invariant.
LEMMA AppReadsKeeps ==
  ASSUME LoopInv, AppReads
  PROVE  LoopInv'
<1>1. PICK i \in Slots :
        /\ ev[i].flag = "S5" /\ sk[i].tx # <<>>
        /\ World([sk EXCEPT ![i].tx = Tail(@)], [net EXCEPT !.agot = Append(@, Head(sk[i].tx))], {})
  BY DEF AppReads
<1> DEFINE l == Taken(sk[i])
           k == OneSocket(i, l)
           g == Append(net.agot, Head(sk[i].tx))
           w == [net EXCEPT !.agot = g]
           t == Moved(k, w, {})
<1>2. World(k, w, {})
  BY <1>1 DEF OneSocket, Taken
<1>3. sk[i] \in SockT /\ net \in NetT /\ sk[i].tx # <<>>
  BY <1>1, VarsAre
<1>4. /\ l \in SockT /\ l.st = sk[i].st /\ l.rx = sk[i].rx /\ l.eof = sk[i].eof
      /\ l.err = sk[i].err /\ l.tx = Tail(sk[i].tx) /\ l.unsent = sk[i].unsent
      /\ l.low = sk[i].low /\ l.linger = sk[i].linger
      /\ Head(sk[i].tx) \in Byte /\ Len(Tail(sk[i].tx)) = Len(sk[i].tx) - 1 /\ Len(sk[i].tx) \in Nat
  BY <1>3, TakenIs
<1> HIDE DEF l
<1>5. k \in [Slots -> SockT] /\ k[i] = l /\ \A j \in Slots : j # i => k[j] = sk[j]
  BY <1>4, OneSocketIs
<1>6. g \in Seq(Byte)
  BY <1>3, <1>4, NetIs, AppendProperties
<1> HIDE DEF g, k
<1>7. w \in NetT /\ w.up = net.up /\ w.down = net.down /\ w.agot = g /\ w.sgot = net.sgot
  BY <1>3, <1>6 DEF NetT
<1> HIDE DEF w
<1>8. /\ t \in StateT /\ t.e = ev /\ t.b = batch /\ t.k = k /\ t.w = w /\ t.h = causes
      /\ t.x = {} /\ Events(t)
  BY <1>5, <1>7, MovedSilent
<1> HIDE DEF t
<1>9. Cur.e = ev /\ Cur.b = batch /\ Cur.k = sk /\ Cur.w = net /\ Cur.h = causes
  BY CurIs
<1>10. PICK c \in Slots, r \in Slots : c # r /\ Tunnel(parts, Cur, run, c, r)
  <2>1. ~Loose(Cur)
    BY <1>3, <1>9 DEF Loose, IsFree, IsClient, Quiet
  <2>2. \A c, r \in Slots : c # r => ~Joining(Cur, c, r)
    BY <1>3, <1>9, OtherSlot DEF Joining, Quiet
  <2> QED BY <2>1, <2>2, VarsAre
<1>11. /\ Ends(Cur, c, r) /\ Queued(sk[c]) /\ Queued(sk[r])
       /\ Account(ev[c], sk[c], net.up) /\ Account(ev[r], sk[r], net.down)
       /\ Down(Cur, c, r) /\ Up(Cur, c, r) /\ Relay(parts, Cur, c, r)
  BY <1>9, <1>10 DEF Tunnel, Relay
<1>12. i = c
  BY <1>1, <1>9, <1>10, <1>11, OtherSlot DEF Ends
<1>13. t.k[c] = l /\ t.k[r] = sk[r]
  BY <1>5, <1>8, <1>10, <1>12
<1>14. /\ net.down \in Nat /\ net.agot \in Seq(Byte) /\ sk[c].tx \in Seq(Byte)
       /\ sk[r].rx \in Seq(Byte) /\ Rest(ev[r].buff) \in Seq(Byte)
  BY <1>9, <1>11, RelayTypes DEF LoopInv, Good
<1>15. Queued(l)
  <2>1. SndBuf \in Nat /\ Len(sk[i].tx) <= SndBuf /\ sk[i].unsent = 0 /\ Len(sk[i].tx) # 0
    <3>1. sk[i].tx \in Seq(Byte)
      BY <1>12, <1>14
    <3>2. Len(sk[i].tx) # 0
      BY <1>3, <3>1, EmptySeq
    <3> QED BY <1>9, <1>11, <1>12, <3>2, SizesAssumption DEF Queued, Ends
  <2>2. Len(sk[i].tx) - 1 <= SndBuf /\ sk[i].unsent <= Len(sk[i].tx) - 1
    BY <1>4, <2>1
  <2>3. ~l.err
    BY <1>3, <1>4, <1>11, <1>12 DEF Queued
  <2> QED BY <1>4, <2>2, <2>3 DEF Queued
<1>16. Account(t.e[c], t.k[c], t.w.up) /\ Account(t.e[r], t.k[r], t.w.down)
  BY <1>4, <1>7, <1>8, <1>11, <1>12, <1>13 DEF Account
<1>17. Up(t, c, r)
  BY <1>4, <1>7, <1>8, <1>9, <1>11, <1>12, <1>13 DEF Up
<1>18. Down(t, c, r)
  <2>1. Flow(net.agot, sk[c].tx, Rest(ev[r].buff), sk[r].rx, net.down) =>
          /\ Flow(g, Tail(sk[c].tx), Rest(ev[r].buff), sk[r].rx, net.down)
          /\ Partly(g, net.down)
    <3> DEFINE tx == sk[c].tx
               rx == sk[r].rx
               lf == Rest(ev[r].buff)
               q == net.agot
               n == net.down
    <3>1. tx \in Seq(Byte) /\ rx \in Seq(Byte) /\ lf \in Seq(Byte) /\ q \in Seq(Byte) /\ n \in Nat
          /\ tx # <<>>
      BY <1>3, <1>12, <1>14
    <3> HIDE DEF tx, rx, lf, q, n
    <3>2. ASSUME Flow(q, tx, lf, rx, n)
          PROVE  /\ Flow(Append(q, Head(tx)), Tail(tx), lf, rx, n)
                 /\ Append(q, Head(tx)) \in Seq(Byte) /\ Tail(tx) \in Seq(Byte)
      BY <3>1, <3>2, FlowGet
    <3>3. ASSUME Flow(q, tx, lf, rx, n) PROVE Partly(Append(q, Head(tx)), n)
      <4> DEFINE y == Append(q, Head(tx))
                 z == Tail(tx)
      <4>1. y \in Seq(Byte) /\ z \in Seq(Byte) /\ Flow(y, z, lf, rx, n)
        BY <3>2, <3>3
      <4> HIDE DEF y, z
      <4>2. Partly(y, n)
        BY <3>1, <4>1, FlowClose
      <4> QED BY <4>2 DEF y
    <3> QED BY <1>12, <3>2, <3>3 DEF tx, rx, lf, q, n, g
  <2>2. ~sk[c].err
    BY <1>3, <1>11, <1>12 DEF Queued
  <2> QED BY <1>4, <1>7, <1>8, <1>9, <1>11, <1>12, <1>13, <2>1, <2>2 DEF Down
<1>19. /\ t.k[c].st = "up" /\ t.k[c].linger = Cur.k[c].linger /\ t.k[c].low = Cur.k[c].low
       /\ t.k[c].unsent = 0
       /\ t.k[r].st = "up" /\ t.k[r].linger = Cur.k[r].linger /\ t.k[r].low = Cur.k[r].low
       /\ (t.k[r].err => "server_reset" \in t.h) /\ (t.k[r].eof => "server_closed" \in t.h)
  BY <1>4, <1>8, <1>9, <1>11, <1>12, <1>13 DEF Ends
<1>20. /\ t.e = Cur.e /\ t.b = Cur.b /\ Cur.h \subseteq t.h /\ Queued(t.k[c]) /\ Queued(t.k[r])
       /\ Early(t.k[c], t.h) => Early(Cur.k[c], Cur.h) /\ t.k[c].rx = Cur.k[c].rx
  <2>1. Early(t.k[c], t.h) => Early(Cur.k[c], Cur.h) /\ t.k[c].rx = Cur.k[c].rx
    BY <1>4, <1>8, <1>9, <1>12, <1>13 DEF Early
  <2> QED BY <1>8, <1>9, <1>11, <1>13, <1>15, <2>1
<1>21. Tunnel(parts, t, run, c, r)
  BY <1>10, <1>16, <1>17, <1>18, <1>19, <1>20, TunnelMoved
<1>22. Good(parts, t, run)
  BY <1>8, <1>10, <1>21 DEF Good
<1> QED BY <1>2, <1>22, WorldStep DEF t

-----------------------------------------------------------------------------
(* The tunnel: the state after a send.                                     *)

\* Evals that agree on what a send leaves alone.
SameTalk(u, v) ==
    /\ u.live = v.live /\ u.cb = v.cb /\ u.flag = v.flag /\ u.pair = v.pair
    /\ u.round_count = v.round_count /\ u.stamp = v.stamp

\* The state u after the chunk of val was sent to p from off on, with outcome x;
\* f is what is left of the chunk, and g what else the send has caused.
After(s, u, val, p, x, off, f, g) ==
    /\ u \in StateT /\ u.k[p] = x.k /\ u.k[val] = s.k[val]
    /\ u.b = s.b /\ u.w = s.w /\ u.x = s.x /\ u.h = s.h \cup x.why \cup g
    /\ SameTalk(u.e[val], s.e[val]) /\ SameTalk(u.e[p], s.e[p])
    /\ u.e[val].round_sent = s.e[val].round_sent + x.lp - off /\ u.e[val].part_sent = x.part
    /\ u.e[val].buff = f /\ (u.e[val].timer <=> s.e[val].timer)
    /\ u.e[p].round_sent = s.e[p].round_sent /\ u.e[p].part_sent = s.e[p].part_sent
    /\ u.e[p].buff = s.e[p].buff /\ (u.e[p].timer <=> (s.e[p].timer \/ x.wait))
SameOut(s, u, i) == u.e[i].out <=> s.e[i].out

\* Setting one field of an eval.
SetOut(v, o) == [v EXCEPT !.out = o]
SetBuff(v, f) == [v EXCEPT !.buff = f]
SetSent(v, n) == [v EXCEPT !.round_sent = n]
SetPart(v, n) == [v EXCEPT !.part_sent = n]
SetTimer(v, o) == [v EXCEPT !.timer = o]
SetCount(v, n) == [v EXCEPT !.round_count = n]

\* mod_etype()'s change of POLLOUT changes nothing else of an eval.
LEMMA SetOutIs ==
  ASSUME NEW v \in EvalT, NEW o \in BOOLEAN
  PROVE  /\ SetOut(v, o) \in EvalT /\ (SetOut(v, o).out <=> o) /\ SameTalk(SetOut(v, o), v)
         /\ SetOut(v, o).buff = v.buff /\ SetOut(v, o).round_sent = v.round_sent
         /\ SetOut(v, o).part_sent = v.part_sent /\ (SetOut(v, o).timer <=> v.timer)
<1>1. SetOut(v, o) \in EvalT /\ SameTalk(SetOut(v, o), v)
  BY DEF SetOut, EvalT, SameTalk
<1> QED BY <1>1 DEF SetOut, EvalT

\* Writing an eval's buffer changes nothing else of it.
LEMMA SetBuffIs ==
  ASSUME NEW v \in EvalT, NEW f \in BuffT
  PROVE  /\ SetBuff(v, f) \in EvalT /\ SetBuff(v, f).buff = f /\ SameTalk(SetBuff(v, f), v)
         /\ (SetBuff(v, f).out <=> v.out) /\ SetBuff(v, f).round_sent = v.round_sent
         /\ SetBuff(v, f).part_sent = v.part_sent /\ (SetBuff(v, f).timer <=> v.timer)
<1>1. SetBuff(v, f) \in EvalT /\ SameTalk(SetBuff(v, f), v)
  BY DEF SetBuff, EvalT, SameTalk
<1> QED BY <1>1 DEF SetBuff, EvalT

\* Writing round_sent changes nothing else of an eval.
LEMMA SetSentIs ==
  ASSUME NEW v \in EvalT, NEW n \in Nat
  PROVE  /\ SetSent(v, n) \in EvalT /\ SetSent(v, n).round_sent = n /\ SameTalk(SetSent(v, n), v)
         /\ (SetSent(v, n).out <=> v.out) /\ SetSent(v, n).buff = v.buff
         /\ SetSent(v, n).part_sent = v.part_sent /\ (SetSent(v, n).timer <=> v.timer)
<1>1. SetSent(v, n) \in EvalT /\ SameTalk(SetSent(v, n), v)
  BY DEF SetSent, EvalT, SameTalk
<1> QED BY <1>1 DEF SetSent, EvalT

\* Writing part_sent changes nothing else of an eval.
LEMMA SetPartIs ==
  ASSUME NEW v \in EvalT, NEW n \in Nat
  PROVE  /\ SetPart(v, n) \in EvalT /\ SetPart(v, n).part_sent = n /\ SameTalk(SetPart(v, n), v)
         /\ (SetPart(v, n).out <=> v.out) /\ SetPart(v, n).buff = v.buff
         /\ SetPart(v, n).round_sent = v.round_sent /\ (SetPart(v, n).timer <=> v.timer)
<1>1. SetPart(v, n) \in EvalT /\ SameTalk(SetPart(v, n), v)
  BY DEF SetPart, EvalT, SameTalk
<1> QED BY <1>1 DEF SetPart, EvalT

\* Arming or clearing the timer changes nothing else of an eval.
LEMMA SetTimerIs ==
  ASSUME NEW v \in EvalT, NEW o \in BOOLEAN
  PROVE  /\ SetTimer(v, o) \in EvalT /\ (SetTimer(v, o).timer <=> o) /\ SameTalk(SetTimer(v, o), v)
         /\ (SetTimer(v, o).out <=> v.out) /\ SetTimer(v, o).buff = v.buff
         /\ SetTimer(v, o).round_sent = v.round_sent /\ SetTimer(v, o).part_sent = v.part_sent
<1>1. SetTimer(v, o) \in EvalT /\ SameTalk(SetTimer(v, o), v)
  BY DEF SetTimer, EvalT, SameTalk
<1> QED BY <1>1 DEF SetTimer, EvalT

\* SameTalk() in several steps.
LEMMA TalkTwice ==
  ASSUME NEW u, NEW v, NEW w, SameTalk(u, v), SameTalk(v, w)
  PROVE  SameTalk(u, w)
BY DEF SameTalk

\* Sent().
LEMMA SentIs ==
  ASSUME NEW s \in StateT, NEW val \in Slots, NEW p \in Slots, val # p, NEW x, NEW off,
         x.k \in SockT, x.part \in Nat, x.wait \in BOOLEAN, x.why \subseteq Cause,
         s.e[val].round_sent + x.lp - off \in Nat
  PROVE  /\ After(s, Sent(s, val, p, x, off), val, p, x, off, s.e[val].buff, {})
         /\ SameOut(s, Sent(s, val, p, x, off), val) /\ SameOut(s, Sent(s, val, p, x, off), p)
<1> DEFINE a == s.e[val].round_sent + x.lp - off
           s1 == PutK(s, p, x.k)
           v2 == SetSent(s1.e[val], a)
           s2 == PutE(s1, val, v2)
           v3 == SetPart(s2.e[val], x.part)
           s3 == PutE(s2, val, v3)
           o == s3.e[p].timer \/ x.wait
           v4 == SetTimer(s3.e[p], o)
           s4 == PutE(s3, p, v4)
           h == s4.h \cup x.why
           s5 == PutH(s4, h)
<1>1. Sent(s, val, p, x, off) = s5
  <2>1. /\ s1 \in StateT /\ s1.e = s.e
    BY PutKIs
  <2>2. s2 = [s1 EXCEPT !.e[val].round_sent = a]
    BY DEF PutE, SetSent
  <2>3. s3 = [s2 EXCEPT !.e[val].part_sent = x.part]
    BY DEF PutE, SetPart
  <2>4. s4 = [s3 EXCEPT !.e[p].timer = @ \/ x.wait]
    BY DEF PutE, SetTimer
  <2>5. s4 = [s EXCEPT !.k[p] = x.k, !.e[val].round_sent = @ + x.lp - off,
                      !.e[val].part_sent = x.part, !.e[p].timer = @ \/ x.wait]
    <3>1. s1 = [s EXCEPT !.k[p] = x.k]
      BY DEF PutK
    <3>2. s2 = [s1 EXCEPT !.e[val].round_sent = @ + x.lp - off]
      <4> HIDE DEF s1
      <4> QED BY <2>1, <2>2
    <3> HIDE DEF s1, s2, s3, s4, a
    <3> QED BY ONLY <2>3, <2>4, <3>1, <3>2, ZenonT(60)
  <2> HIDE DEF s4
  <2> QED BY <2>5 DEF Sent, Because, PutH
<1>2. s.e[val] \in EvalT /\ s.e[p] \in EvalT /\ s.h \subseteq Cause
  BY StateIs
<1>3. /\ s1 \in StateT /\ s1.k[p] = x.k /\ s1.k[val] = s.k[val] /\ s1.b = s.b /\ s1.e = s.e
      /\ s1.w = s.w /\ s1.h = s.h /\ s1.x = s.x
  BY PutKIs
<1> HIDE DEF s1, a
<1>4. a \in Nat /\ a = s.e[val].round_sent + x.lp - off
  BY DEF a
<1>5. /\ v2 \in EvalT /\ v2.round_sent = a /\ SameTalk(v2, s.e[val]) /\ (v2.out <=> s.e[val].out)
      /\ v2.buff = s.e[val].buff /\ (v2.timer <=> s.e[val].timer)
  <2> DEFINE y == s.e[val]
  <2>1. v2 = SetSent(y, a) /\ y \in EvalT
    BY <1>2, <1>3
  <2> HIDE DEF y, v2
  <2>2. /\ v2 \in EvalT /\ v2.round_sent = a /\ SameTalk(v2, y) /\ (v2.out <=> y.out)
        /\ v2.buff = y.buff /\ (v2.timer <=> y.timer)
    BY ONLY <1>4, <2>1, SetSentIs
  <2> QED BY <2>2 DEF y
<1> HIDE DEF v2
<1>6. /\ s2 \in StateT /\ s2.e[val] = v2 /\ s2.e[p] = s.e[p] /\ s2.k = s1.k /\ s2.b = s.b
      /\ s2.w = s.w /\ s2.h = s.h /\ s2.x = s.x
  BY <1>3, <1>5, PutEIs
<1> HIDE DEF s2
<1>7. /\ v3 \in EvalT /\ v3.part_sent = x.part /\ SameTalk(v3, v2) /\ (v3.out <=> v2.out)
      /\ v3.buff = v2.buff /\ v3.round_sent = v2.round_sent /\ (v3.timer <=> v2.timer)
  BY <1>5, <1>6, SetPartIs
<1> HIDE DEF v3
<1>8. /\ s3 \in StateT /\ s3.e[val] = v3 /\ s3.e[p] = s.e[p] /\ s3.k = s1.k /\ s3.b = s.b
      /\ s3.w = s.w /\ s3.h = s.h /\ s3.x = s.x
  BY <1>6, <1>7, PutEIs
<1> HIDE DEF s3
<1>9. o \in BOOLEAN /\ (o <=> (s.e[p].timer \/ x.wait))
  BY <1>8
<1> HIDE DEF o
<1>10. /\ v4 \in EvalT /\ (v4.timer <=> o) /\ SameTalk(v4, s.e[p]) /\ (v4.out <=> s.e[p].out)
       /\ v4.buff = s.e[p].buff /\ v4.round_sent = s.e[p].round_sent
       /\ v4.part_sent = s.e[p].part_sent
  BY <1>2, <1>8, <1>9, SetTimerIs
<1> HIDE DEF v4
<1>11. /\ s4 \in StateT /\ s4.e[val] = v3 /\ s4.e[p] = v4 /\ s4.k = s1.k /\ s4.b = s.b
       /\ s4.w = s.w /\ s4.h = s.h /\ s4.x = s.x
  BY <1>8, <1>10, PutEIs
<1> HIDE DEF s4
<1>12. h \in SUBSET Cause /\ h = s.h \cup x.why \cup {}
  BY <1>2, <1>11
<1> HIDE DEF h
<1>13. /\ s5 \in StateT /\ s5.e = s4.e /\ s5.k = s1.k /\ s5.b = s.b /\ s5.w = s.w /\ s5.h = h
       /\ s5.x = s.x
  BY <1>11, <1>12, PutHIs
<1> HIDE DEF s5
<1>14. SameTalk(v3, s.e[val])
  BY <1>5, <1>7, TalkTwice
<1>15. After(s, s5, val, p, x, off, s.e[val].buff, {})
  <2>1. /\ s5 \in StateT /\ s5.k[p] = x.k /\ s5.k[val] = s.k[val]
        /\ s5.b = s.b /\ s5.w = s.w /\ s5.x = s.x /\ s5.h = s.h \cup x.why \cup {}
    BY <1>3, <1>12, <1>13
  <2>2. /\ SameTalk(s5.e[val], s.e[val]) /\ SameTalk(s5.e[p], s.e[p])
        /\ s5.e[val].round_sent = s.e[val].round_sent + x.lp - off /\ s5.e[val].part_sent = x.part
        /\ s5.e[val].buff = s.e[val].buff
        /\ s5.e[p].round_sent = s.e[p].round_sent /\ s5.e[p].part_sent = s.e[p].part_sent
        /\ s5.e[p].buff = s.e[p].buff
    BY <1>4, <1>5, <1>7, <1>10, <1>11, <1>13, <1>14
  <2>3. (s5.e[val].timer <=> s.e[val].timer) /\ (s5.e[p].timer <=> (s.e[p].timer \/ x.wait))
    BY <1>5, <1>7, <1>9, <1>10, <1>11, <1>13
  <2> QED BY <2>1, <2>2, <2>3 DEF After
<1>16. SameOut(s, s5, val) /\ SameOut(s, s5, p)
  BY <1>5, <1>7, <1>10, <1>11, <1>13 DEF SameOut
<1> QED BY <1>1, <1>15, <1>16

-----------------------------------------------------------------------------
(* The tunnel: a chunk that is sent.                                       *)

\* A tunnel whose source c is about to send a chunk.
Sending(pp, s, c, r) ==
    /\ Ends(s, c, r) /\ Queued(s.k[c]) /\ Queued(s.k[r])
    /\ Account(s.e[c], s.k[c], s.w.up) /\ Account(s.e[r], s.k[r], s.w.down)
    /\ Down(s, c, r) /\ Up(s, c, r)
    /\ Parts(pp, s, c, r) /\ (s.e[c].buff.offset = 0 \/ PartDone(pp, s, c))

\* What the send of the client's chunk may come to.
Unsent(x, data) == x.lp < Len(data) \/ x.wait
Outcome(pp, s, c, r, x) ==
    LET v == s.e[c]
        d == v.buff.data
        n == v.round_sent + x.lp - v.buff.offset
    IN  /\ Fed(s.k[r], x.k) /\ x.lp \in Nat /\ v.buff.offset <= x.lp /\ x.lp <= Len(d)
        /\ x.part \in Nat /\ x.part <= Len(pp) /\ x.wait \in BOOLEAN /\ x.why \subseteq LostUp
        /\ Unsent(x, d) /\ First(s, c) =>
             /\ PartsAt(pp, x.k.low, n, x.part, d, x.lp)
             /\ x.why = {} => DoneAt(pp, n, x.part, d, x.lp)
        /\ Unsent(x, d) /\ ~First(s, c) => ~x.k.low
        /\ ~Unsent(x, d) => ~x.k.low
        /\ ~Unsent(x, d) /\ First(s, c) => x.part = Len(pp) \/ pp[1].at = "sni"
        /\ s.h \cap LostUp = {} /\ x.why = {} =>
             Moves(s.k[r].tx, v.buff.offset, x.k.tx, x.lp, d)

\* The send of the client's chunk, in the first round and in a later one.
LEMMA HookUp ==
  ASSUME parts \in Configs, NEW s \in StateT, NEW c \in Slots, NEW r \in Slots, c # r,
         Sending(parts, s, c, r), Holds(s.e[c]), NEW notsent
  PROVE  Outcome(parts, s, c, r,
                 tcp_send_hook(s, r, s.e[c].buff.data, s.e[c].buff.offset, notsent))
<1> DEFINE v == s.e[c]
           d == v.buff.data
           off == v.buff.offset
           rs == v.round_sent
           ps == v.part_sent
           k == s.k[r]
           x == tcp_send_hook(s, r, d, off, notsent)
<1>1. /\ v \in EvalT /\ k \in SockT /\ s.h \subseteq Cause
  BY StateIs
<1>2. /\ v.buff \in BuffT /\ rs \in Nat /\ ps \in Nat
  BY <1>1, EvalIs
<1>3. /\ d \in Seq(Byte) /\ off \in Nat /\ Len(d) \in Nat
  BY <1>2, BuffIs
<1>4. d # <<>>
  BY DEF Holds
<1>5. off <= Len(d) /\ Chunk(v.buff)
  <2>1. Chunk(v.buff)
    BY DEF Sending, Account
  <2> QED BY <1>2, <2>1, RestOf
<1>6. s.e[r].flag = "CONN" /\ s.e[r].pair = c
  BY DEF Sending, Ends
<1>7. Fits(k)
  BY DEF Sending, Queued, Fits
<1>8. Parts(parts, s, c, r) /\ (off = 0 \/ PartDone(parts, s, c))
  BY DEF Sending
<1>9. First(s, c) => PartsAt(parts, k.low, rs, ps, d, off)
  <2> HAVE First(s, c)
  <2>1. ps <= Len(parts)
    BY <1>8 DEF Parts
  <2>2. k.low => parts # <<>> /\ Position(parts, d) >= 0 /\ rs <= off /\ off <= Position(parts, d)
    BY <1>8 DEF Parts, InParts
  <2>3. parts # <<>> => \/ Position(parts, d) < 0
                        \/ off <= Position(parts, d) /\ (ps = Len(parts) \/ rs <= off)
    BY <1>8 DEF Parts, InParts
  <2> QED BY <2>1, <2>2, <2>3 DEF PartsAt
<1>10. /\ First(s, c) => Stepped(parts, k, d, off, rs, ps, x)
       /\ ~First(s, c) => Plain(k, d, off, x) /\ x.part = ps
  BY <1>1, <1>3, <1>4, <1>5, <1>6, <1>7, <1>9, SendUp
<1> HIDE DEF x
<1>11. ps <= Len(parts)
  BY <1>8 DEF Parts
<1>12. ~First(s, c) => ~k.low
  BY <1>8 DEF Parts
<1>13. s.h \cap LostUp = {} /\ First(s, c) => off = 0 \/ DoneAt(parts, rs, ps, d, off)
  BY <1>8 DEF PartDone, DoneAt
<1>14. CASE First(s, c)
  <2> HIDE DEF v, d, off, rs, ps, k
  <2>1. Stepped(parts, k, d, off, rs, ps, x)
    BY <1>10, <1>14
  <2>2. /\ Fed(k, x.k) /\ x.lp \in Nat /\ off <= x.lp /\ x.lp <= Len(d)
        /\ x.part \in Nat /\ x.part <= Len(parts) /\ x.wait \in BOOLEAN /\ x.why \subseteq LostUp
    BY <2>1 DEF Stepped
  <2>3. Unsent(x, d) => /\ PartsAt(parts, x.k.low, rs + x.lp - off, x.part, d, x.lp)
                        /\ x.why = {} => DoneAt(parts, rs + x.lp - off, x.part, d, x.lp)
    BY <2>1 DEF Stepped, Unsent
  <2>4. ~Unsent(x, d) => ~x.k.low /\ (x.part = Len(parts) \/ parts[1].at = "sni")
    BY <2>1 DEF Stepped, Unsent
  <2>5. s.h \cap LostUp = {} /\ x.why = {} => Moves(k.tx, off, x.k.tx, x.lp, d)
    BY <2>1, <1>13, <1>14 DEF Stepped
  <2> QED BY <1>14, <2>2, <2>3, <2>4, <2>5 DEF Outcome, v, d, off, rs, ps, k, x
<1>15. CASE ~First(s, c)
  <2> HIDE DEF v, d, off, rs, ps, k
  <2>1. Plain(k, d, off, x) /\ x.part = ps
    BY <1>10, <1>15
  <2>2. /\ Fed(k, x.k) /\ x.lp \in Nat /\ off <= x.lp /\ x.lp <= Len(d)
        /\ x.part \in Nat /\ x.part <= Len(parts)
    BY <2>1, <1>2, <1>11 DEF Plain
  <2>3. x.wait \in BOOLEAN /\ x.why \subseteq LostUp
    BY <2>1 DEF Plain
  <2>4. ~x.k.low
    BY <2>1, <1>12, <1>15 DEF Plain
  <2>5. Moves(k.tx, off, x.k.tx, x.lp, d)
    BY <2>1 DEF Plain
  <2> QED BY <1>15, <2>2, <2>3, <2>4, <2>5 DEF Outcome, v, d, off, rs, ps, k, x
<1> QED BY <1>14, <1>15 DEF x

\* What is left of the chunk after the send.
Kept(s, val, x, f) ==
    /\ f \in BuffT
    /\ Unsent(x, s.e[val].buff.data) => f.data = s.e[val].buff.data /\ f.offset = x.lp
    /\ ~Unsent(x, s.e[val].buff.data) => f = NoBuff

\* What is left is a chunk, and its bytes follow those that were sent.
LEMMA KeptIs ==
  ASSUME NEW s \in StateT, NEW val \in Slots, Chunk(s.e[val].buff), Holds(s.e[val]), NEW x, NEW f,
         x.lp \in Nat, s.e[val].buff.offset <= x.lp, x.lp <= Len(s.e[val].buff.data), Kept(s, val, x, f)
  PROVE  /\ Chunk(f) /\ Rest(f) = Drop(s.e[val].buff.data, x.lp)
         /\ Len(Rest(f)) = Len(s.e[val].buff.data) - x.lp
         /\ Rest(s.e[val].buff) = Drop(s.e[val].buff.data, s.e[val].buff.offset)
         /\ Len(Rest(s.e[val].buff)) = Len(s.e[val].buff.data) - s.e[val].buff.offset
         /\ f \in BuffT /\ Rest(f) \in Seq(Byte) /\ Rest(s.e[val].buff) \in Seq(Byte)
<1> DEFINE v == s.e[val].buff
           d == v.data
<1>1. v \in BuffT
  BY StateIs, EvalIs
<1>2. d \in Seq(Byte) /\ Len(d) \in Nat /\ v.offset \in Nat
  BY <1>1, BuffIs
<1>3. d # <<>> /\ Len(d) <= BufSize
  BY NoneIs DEF Chunk, Holds
<1>4. f \in BuffT
  BY DEF Kept
<1>5. /\ Rest(v) = Drop(d, v.offset) /\ Rest(v) \in Seq(Byte) /\ Len(Rest(v)) = Len(d) - v.offset
  BY <1>1, RestOf DEF Rest
<1>6. Chunk(f) /\ Rest(f) = Drop(d, x.lp)
  <2>1. CASE Unsent(x, d)
    <3>1. f.data = d /\ f.offset = x.lp
      BY <2>1 DEF Kept
    <3> QED BY <3>1, <1>3 DEF Chunk, Rest
  <2>2. CASE ~Unsent(x, d)
    <3>1. f = NoBuff /\ x.lp = Len(d)
      BY <2>2, <1>2 DEF Kept, Unsent
    <3>2. Chunk(f)
      BY <3>1 DEF Chunk
    <3>3. Rest(f) = <<>>
      BY <3>1, <3>2, <1>4, RestOf
    <3>4. Drop(d, Len(d)) = <<>>
      <4> HIDE DEF d
      <4> QED BY <1>2, SubSeqProperties, EmptySeq DEF Drop
    <3> QED BY <3>1, <3>2, <3>3, <3>4
  <2> QED BY <2>1, <2>2
<1>7. Len(Drop(d, x.lp)) = Len(d) - x.lp /\ Drop(d, x.lp) \in Seq(Byte)
  <2> DEFINE n == x.lp
  <2>1. n \in Nat /\ n <= Len(d)
    OBVIOUS
  <2> HIDE DEF d, n
  <2>2. Drop(d, n) = Sub(d, n, Len(d))
    BY ONLY <1>2, <2>1, TakeDrop
  <2>3. Sub(d, n, Len(d)) \in Seq(Byte) /\ Len(Sub(d, n, Len(d))) = Len(d) - n
    <3>1. Len(d) <= Len(d)
      BY <1>2
    <3> QED BY ONLY <1>2, <2>1, <3>1, SubIs
  <2> QED BY <2>2, <2>3 DEF n
<1> QED BY <1>4, <1>5, <1>6, <1>7

\* The socket that was sent to.
LEMMA FedIs ==
  ASSUME NEW k \in SockT, NEW l, Fed(k, l), ~k.err
  PROVE  l \in SockT /\ Queued(l) /\ ~l.err /\ l.st = k.st /\ l.rx = k.rx
         /\ (l.eof <=> k.eof) /\ (l.linger <=> k.linger)
<1>1. l \in SockT /\ Len(l.tx) <= SndBuf /\ l.unsent <= Len(l.tx) /\ l.err = k.err
  BY DEF Fed, Fits
<1>2. ~l.err
  BY <1>1
<1> QED BY <1>1, <1>2 DEF Queued, Fed

\* The client's chunk is sent.
LEMMA SentUp ==
  ASSUME parts \in Configs, NEW s \in StateT, NEW c \in Slots, NEW r \in Slots, c # r,
         Sending(parts, s, c, r), Holds(s.e[c]), ~s.k[r].err, NEW x, Outcome(parts, s, c, r, x),
         NEW u, NEW f, NEW g, g \subseteq Stalls, Kept(s, c, x, f),
         After(s, u, c, r, x, s.e[c].buff.offset, f, g)
  PROVE  Relay(parts, u, c, r)
<1> DEFINE v == s.e[c]
           d == v.buff.data
           off == v.buff.offset
           n == v.round_sent + x.lp - off
<1>1. /\ v \in EvalT /\ s.e[r] \in EvalT /\ s.k[r] \in SockT /\ s.k[c] \in SockT /\ s.w \in NetT
  BY StateIs
<1>2. /\ Fed(s.k[r], x.k) /\ x.lp \in Nat /\ off <= x.lp /\ x.lp <= Len(d)
      /\ x.part \in Nat /\ x.part <= Len(parts) /\ x.wait \in BOOLEAN /\ x.why \subseteq LostUp
      /\ Unsent(x, d) /\ First(s, c) =>
           /\ PartsAt(parts, x.k.low, n, x.part, d, x.lp)
           /\ x.why = {} => DoneAt(parts, n, x.part, d, x.lp)
      /\ Unsent(x, d) /\ ~First(s, c) => ~x.k.low
      /\ ~Unsent(x, d) => ~x.k.low
      /\ ~Unsent(x, d) /\ First(s, c) => x.part = Len(parts) \/ parts[1].at = "sni"
      /\ s.h \cap LostUp = {} /\ x.why = {} => Moves(s.k[r].tx, off, x.k.tx, x.lp, d)
  BY Zenon DEF Outcome
<1>3. /\ u \in StateT /\ u.k[r] = x.k /\ u.k[c] = s.k[c] /\ u.b = s.b /\ u.w = s.w
      /\ u.h = s.h \cup x.why \cup g
      /\ SameTalk(u.e[c], v) /\ SameTalk(u.e[r], s.e[r])
      /\ u.e[c].round_sent = n /\ u.e[c].part_sent = x.part /\ u.e[c].buff = f
      /\ u.e[r].round_sent = s.e[r].round_sent /\ u.e[r].part_sent = s.e[r].part_sent
      /\ u.e[r].buff = s.e[r].buff
  BY DEF After
<1>4. (u.e[c].timer <=> v.timer) /\ (u.e[r].timer <=> (s.e[r].timer \/ x.wait))
  BY DEF After
<1>5. /\ Ends(s, c, r) /\ Queued(s.k[c]) /\ Queued(s.k[r])
      /\ Account(v, s.k[c], s.w.up) /\ Account(s.e[r], s.k[r], s.w.down)
      /\ Down(s, c, r) /\ Up(s, c, r) /\ Parts(parts, s, c, r)
  BY DEF Sending
<1>6. /\ Chunk(f) /\ Rest(f) = Drop(d, x.lp) /\ Len(Rest(f)) = Len(d) - x.lp
      /\ Rest(v.buff) = Drop(d, off) /\ Len(Rest(v.buff)) = Len(d) - off /\ f \in BuffT
  <2>1. Chunk(v.buff)
    BY <1>5 DEF Account
  <2> QED BY <1>2, <2>1, KeptIs
<1>7. /\ x.k \in SockT /\ Queued(x.k) /\ ~x.k.err /\ x.k.st = s.k[r].st /\ x.k.rx = s.k[r].rx
      /\ (x.k.eof <=> s.k[r].eof) /\ (x.k.linger <=> s.k[r].linger)
  BY <1>1, <1>2, FedIs
<1>8. Ends(u, c, r)
  <2>1. /\ u.e[c].live /\ u.e[c].cb = "on_tunnel" /\ u.e[c].flag = "S5" /\ u.e[c].pair = r
        /\ u.e[r].live /\ u.e[r].cb = "on_tunnel" /\ u.e[r].flag = "CONN" /\ u.e[r].pair = c
    BY <1>3, <1>5 DEF Ends, SameTalk
  <2>2. /\ u.k[c].st = "up" /\ u.k[r].st = "up" /\ ~u.k[c].linger /\ ~u.k[r].linger
        /\ ~u.k[c].low /\ u.k[c].unsent = 0
    BY <1>3, <1>5, <1>7 DEF Ends
  <2>3. ~u.e[c].timer /\ ~u.e[r].buff.waited /\ u.e[r].part_sent = 0
    BY <1>3, <1>4, <1>5 DEF Ends
  <2>4. (u.k[r].err => "server_reset" \in u.h) /\ (u.k[r].eof => "server_closed" \in u.h)
    BY <1>3, <1>5, <1>7 DEF Ends
  <2> QED BY <2>1, <2>2, <2>3, <2>4 DEF Ends
<1>9. Queued(u.k[c]) /\ Queued(u.k[r])
  BY <1>3, <1>5, <1>7
<1>10. Account(u.e[c], u.k[c], u.w.up)
  <2>1. s.k[c].rx \in Seq(Byte) /\ Counts(s.k[c].rx, s.w.up - Len(s.k[c].rx))
        /\ v.round_sent + Len(Rest(v.buff)) + Len(s.k[c].rx) <= s.w.up
    BY <1>5 DEF Account
  <2>2. n + Len(Rest(f)) = v.round_sent + Len(Rest(v.buff))
    <3>1. v.round_sent \in Nat /\ v.buff \in BuffT
      BY <1>1, EvalIs
    <3>2. Len(d) \in Nat /\ off \in Nat
      BY <3>1, BuffIs
    <3> DEFINE a == v.round_sent
               b == Len(d)
               y == Len(Rest(f))
               z == Len(Rest(v.buff))
    <3>3. a \in Nat /\ b \in Nat /\ off \in Nat /\ x.lp \in Nat
      BY <3>1, <3>2, <1>2
    <3>4. n = a + x.lp - off /\ y = b - x.lp /\ z = b - off
      BY <1>6
    <3> HIDE DEF a, b, n, off, y, z
    <3>5. n + y = a + z
      BY ONLY <3>3, <3>4
    <3> QED BY <3>5 DEF a, y, z
  <2> QED BY <1>3, <1>6, <2>1, <2>2 DEF Account
<1>11. Account(u.e[r], u.k[r], u.w.down)
  BY <1>3, <1>5, <1>7 DEF Account
<1>12. Down(u, c, r)
  BY <1>3, <1>5, <1>7 DEF Down
<1>13. Up(u, c, r)
  <2>1. SUFFICES ASSUME u.h \cap LostUp = {}
                 PROVE  /\ Partly(u.w.sgot, u.w.up)
                        /\ ~u.k[r].err => Flow(u.w.sgot, u.k[r].tx, Rest(u.e[c].buff), u.k[c].rx, u.w.up)
    BY DEF Up
  <2>2. s.h \cap LostUp = {} /\ x.why = {}
    BY <1>2, <1>3, <2>1
  <2>3. Partly(s.w.sgot, s.w.up) /\ Flow(s.w.sgot, s.k[r].tx, Rest(v.buff), s.k[c].rx, s.w.up)
    BY <1>5, <2>2 DEF Up
  <2>4. Flow(s.w.sgot, x.k.tx, Drop(d, x.lp), s.k[c].rx, s.w.up)
    <3>1. Moves(s.k[r].tx, off, x.k.tx, x.lp, d)
      BY <1>2, <2>2
    <3>2. s.w.sgot \in Seq(Byte) /\ s.k[c].rx \in Seq(Byte) /\ s.w.up \in Nat
      BY <1>1, <1>5, NetIs DEF Account
    <3>3. Flow(s.w.sgot, s.k[r].tx, Drop(d, off), s.k[c].rx, s.w.up)
      BY <2>3, <1>6
    <3> HIDE DEF d, off, v
    <3> QED BY <3>1, <3>2, <3>3 DEF Moves
  <2> QED BY <2>3, <2>4, <1>3, <1>6
<1>14. First(u, c) <=> First(s, c)
  BY <1>3 DEF First, SameTalk
<1>15. Holds(u.e[c]) <=> Unsent(x, d)
  BY <1>3, NoneIs DEF Holds, Kept
<1>16. Unsent(x, d) => f.data = d /\ f.offset = x.lp
  BY DEF Kept
<1>17. Parts(parts, u, c, r)
  <2>1. u.e[c].part_sent <= Len(parts)
    BY <1>2, <1>3
  <2>2. ASSUME u.k[r].low
        PROVE  /\ Holds(u.e[c]) /\ First(u, c) /\ parts # <<>>
               /\ Position(parts, u.e[c].buff.data) >= 0 /\ InParts(parts, u.e[c])
    <3>1. Unsent(x, d) /\ First(s, c)
      BY <2>2, <1>2, <1>3
    <3>2. PartsAt(parts, x.k.low, n, x.part, d, x.lp)
      BY <3>1, <1>2
    <3>3. parts # <<>> /\ Position(parts, d) >= 0 /\ n <= x.lp /\ x.lp <= Position(parts, d)
      BY <3>2, <2>2, <1>3 DEF PartsAt
    <3> QED BY <3>1, <3>3, <1>3, <1>14, <1>15, <1>16 DEF InParts
  <2>3. First(u, c) /\ ~Holds(u.e[c]) =>
          \/ u.e[c].part_sent = Len(parts) \/ u.e[c].round_sent = 0 \/ parts[1].at = "sni"
    BY <1>2, <1>3, <1>14, <1>15
  <2>4. ASSUME First(u, c), Holds(u.e[c]), parts # <<>>
        PROVE  \/ Position(parts, f.data) < 0
               \/ /\ f.offset <= Position(parts, f.data)
                  /\ u.e[c].part_sent = Len(parts) \/ InParts(parts, u.e[c])
    <3>1. Unsent(x, d) /\ First(s, c)
      BY <2>4, <1>14, <1>15
    <3>2. PartsAt(parts, x.k.low, n, x.part, d, x.lp)
      BY <3>1, <1>2
    <3>3. \/ Position(parts, d) < 0
          \/ x.lp <= Position(parts, d) /\ (x.part = Len(parts) \/ n <= x.lp)
      BY <3>2, <2>4 DEF PartsAt
    <3> QED BY <3>1, <3>3, <1>3, <1>16 DEF InParts
  <2> HIDE DEF v, d, off, n
  <2> QED BY <2>1, <2>2, <2>3, <2>4, <1>3 DEF Parts
<1>18. PartDone(parts, u, c)
  <2>1. SUFFICES ASSUME u.h \cap LostUp = {}, First(u, c), Holds(u.e[c]), u.e[c].part_sent > 0
                 PROVE  \/ Position(parts, f.data) < 0
                        \/ Min2(Position(parts, f.data), Len(f.data)) <= f.offset
                        \/ Position(parts, f.data) < u.e[c].round_sent
    BY <1>3 DEF PartDone
  <2>2. Unsent(x, d) /\ First(s, c) /\ x.why = {}
    BY <2>1, <1>2, <1>3, <1>14, <1>15
  <2>3. DoneAt(parts, n, x.part, d, x.lp)
    BY <2>2, <1>2
  <2> QED BY <2>1, <2>2, <2>3, <1>3, <1>16 DEF DoneAt
<1> QED BY <1>8, <1>9, <1>10, <1>11, <1>12, <1>13, <1>17, <1>18 DEF Relay

\* The send of the server's chunk.
SendsDown(s, c, r, x) ==
    /\ Plain(s.k[c], s.e[r].buff.data, s.e[r].buff.offset, x)
    /\ x.part = s.e[r].part_sent /\ x.k.unsent = s.k[c].unsent

\* tcp_send_hook() towards the client sends the bytes as they are, without parts.
LEMMA HookDown ==
  ASSUME NEW pp, NEW s \in StateT, NEW c \in Slots, NEW r \in Slots, Relay(pp, s, c, r), NEW notsent
  PROVE  SendsDown(s, c, r, tcp_send_hook(s, c, s.e[r].buff.data, s.e[r].buff.offset, notsent))
<1>1. s.e[r] \in EvalT
  BY StateIs
<1>2. s.e[r].buff \in BuffT
  BY <1>1, EvalIs
<1>3. Chunk(s.e[r].buff)
  BY DEF Relay, Account
<1>4. s.e[r].buff.offset <= Len(s.e[r].buff.data)
  BY <1>2, <1>3, RestOf
<1>5. s.e[r].buff.data \in Seq(Byte) /\ s.e[r].buff.offset \in Nat
  BY <1>2, BuffIs
<1>6. s.e[c].flag # "CONN" /\ s.e[c].pair = r /\ Fits(s.k[c])
  BY DEF Relay, Ends, Queued, Fits
<1> QED BY <1>4, <1>5, <1>6, SendDown DEF SendsDown

\* The server's chunk is sent.
LEMMA SentDown ==
  ASSUME NEW pp, NEW s \in StateT, NEW c \in Slots, NEW r \in Slots, c # r,
         Relay(pp, s, c, r), Holds(s.e[r]), ~s.k[c].err, NEW x,
         Plain(s.k[c], s.e[r].buff.data, s.e[r].buff.offset, x),
         x.part = s.e[r].part_sent, x.k.unsent = s.k[c].unsent,
         NEW u, NEW f, NEW g, Kept(s, r, x, f), ~f.waited,
         After(s, u, r, c, x, s.e[r].buff.offset, f, g)
  PROVE  Relay(pp, u, c, r)
<1> DEFINE v == s.e[r]
           d == v.buff.data
           off == v.buff.offset
           n == v.round_sent + x.lp - off
<1>1. /\ v \in EvalT /\ s.e[c] \in EvalT /\ s.k[r] \in SockT /\ s.k[c] \in SockT /\ s.w \in NetT
  BY StateIs
<1>2. /\ Fed(s.k[c], x.k) /\ x.lp \in Nat /\ off <= x.lp /\ x.lp <= Len(d) /\ x.why = {}
      /\ Moves(s.k[c].tx, off, x.k.tx, x.lp, d)
  BY DEF Plain
<1>3. ~x.wait /\ (x.k.low <=> s.k[c].low)
  BY DEF Plain
<1>4. /\ u \in StateT /\ u.k[c] = x.k /\ u.k[r] = s.k[r] /\ u.b = s.b /\ u.w = s.w
      /\ s.h \subseteq u.h
      /\ SameTalk(u.e[r], v) /\ SameTalk(u.e[c], s.e[c])
      /\ u.e[r].round_sent = n /\ u.e[r].part_sent = x.part /\ u.e[r].buff = f
      /\ u.e[c].round_sent = s.e[c].round_sent /\ u.e[c].part_sent = s.e[c].part_sent
      /\ u.e[c].buff = s.e[c].buff
  BY DEF After
<1>5. u.e[c].timer <=> s.e[c].timer
  BY <1>3 DEF After
<1>6. /\ Ends(s, c, r) /\ Queued(s.k[c]) /\ Queued(s.k[r])
      /\ Account(s.e[c], s.k[c], s.w.up) /\ Account(v, s.k[r], s.w.down)
      /\ Down(s, c, r) /\ Up(s, c, r) /\ Parts(pp, s, c, r) /\ PartDone(pp, s, c)
  BY DEF Relay
<1>7. /\ Chunk(f) /\ Rest(f) = Drop(d, x.lp) /\ Len(Rest(f)) = Len(d) - x.lp
      /\ Rest(v.buff) = Drop(d, off) /\ Len(Rest(v.buff)) = Len(d) - off /\ f \in BuffT
  <2>1. Chunk(v.buff)
    BY <1>6 DEF Account
  <2> QED BY <1>2, <2>1, KeptIs
<1>8. /\ x.k \in SockT /\ Queued(x.k) /\ ~x.k.err /\ x.k.st = s.k[c].st /\ x.k.rx = s.k[c].rx
      /\ (x.k.eof <=> s.k[c].eof) /\ (x.k.linger <=> s.k[c].linger)
  BY <1>1, <1>2, FedIs
<1>9. Ends(u, c, r)
  <2>1. /\ u.e[c].live /\ u.e[c].cb = "on_tunnel" /\ u.e[c].flag = "S5" /\ u.e[c].pair = r
        /\ u.e[r].live /\ u.e[r].cb = "on_tunnel" /\ u.e[r].flag = "CONN" /\ u.e[r].pair = c
    BY <1>4, <1>6 DEF Ends, SameTalk
  <2>2. /\ u.k[c].st = "up" /\ u.k[r].st = "up" /\ ~u.k[c].linger /\ ~u.k[r].linger
        /\ ~u.k[c].low /\ u.k[c].unsent = 0
    BY <1>3, <1>4, <1>6, <1>8 DEF Ends
  <2>3. ~u.e[c].timer /\ ~u.e[r].buff.waited
    BY <1>4, <1>5, <1>6 DEF Ends
  <2>4. u.e[r].part_sent = 0
    BY <1>4, <1>6 DEF Ends
  <2>5. (u.k[r].err => "server_reset" \in u.h) /\ (u.k[r].eof => "server_closed" \in u.h)
    BY <1>4, <1>6 DEF Ends
  <2> QED BY <2>1, <2>2, <2>3, <2>4, <2>5 DEF Ends
<1>10. Queued(u.k[c]) /\ Queued(u.k[r])
  BY <1>4, <1>6, <1>8
<1>11. Account(u.e[r], u.k[r], u.w.down)
  <2>1. s.k[r].rx \in Seq(Byte) /\ Counts(s.k[r].rx, s.w.down - Len(s.k[r].rx))
        /\ v.round_sent + Len(Rest(v.buff)) + Len(s.k[r].rx) <= s.w.down
    BY <1>6 DEF Account
  <2>2. n + Len(Rest(f)) = v.round_sent + Len(Rest(v.buff))
    <3>1. v.round_sent \in Nat /\ v.buff \in BuffT
      BY <1>1, EvalIs
    <3>2. Len(d) \in Nat /\ off \in Nat
      BY <3>1, BuffIs
    <3> DEFINE a == v.round_sent
               b == Len(d)
               y == Len(Rest(f))
               z == Len(Rest(v.buff))
    <3>3. a \in Nat /\ b \in Nat /\ off \in Nat /\ x.lp \in Nat
      BY <3>1, <3>2, <1>2
    <3>4. n = a + x.lp - off /\ y = b - x.lp /\ z = b - off
      BY <1>7
    <3> HIDE DEF a, b, n, off, y, z
    <3>5. n + y = a + z
      BY ONLY <3>3, <3>4
    <3> QED BY <3>5 DEF a, y, z
  <2> QED BY <1>4, <1>7, <2>1, <2>2 DEF Account
<1>12. Account(u.e[c], u.k[c], u.w.up)
  BY <1>4, <1>6, <1>8 DEF Account
<1>13. Up(u, c, r)
  BY <1>4, <1>6, <1>8 DEF Up
<1>14. Down(u, c, r)
  <2>1. Partly(s.w.agot, s.w.down) /\ Flow(s.w.agot, s.k[c].tx, Rest(v.buff), s.k[r].rx, s.w.down)
    BY <1>6 DEF Down
  <2>2. Flow(s.w.agot, x.k.tx, Drop(d, x.lp), s.k[r].rx, s.w.down)
    <3>1. Moves(s.k[c].tx, off, x.k.tx, x.lp, d)
      BY <1>2
    <3>2. s.w.agot \in Seq(Byte) /\ s.k[r].rx \in Seq(Byte) /\ s.w.down \in Nat
      BY <1>1, <1>6, NetIs DEF Account
    <3>3. Flow(s.w.agot, s.k[c].tx, Drop(d, off), s.k[r].rx, s.w.down)
      BY <2>1, <1>7
    <3> HIDE DEF d, off, v
    <3> QED BY <3>1, <3>2, <3>3 DEF Moves
  <2> QED BY <2>1, <2>2, <1>4, <1>7 DEF Down
<1>15. First(u, c) <=> First(s, c)
  BY <1>4 DEF First, SameTalk
<1>16. Parts(pp, u, c, r)
  BY <1>4, <1>6, <1>15 DEF Parts, Holds, InParts
<1>17. PartDone(pp, u, c)
  BY <1>4, <1>6, <1>15 DEF PartDone, Holds
<1> QED BY <1>9, <1>10, <1>11, <1>12, <1>13, <1>14, <1>16, <1>17 DEF Relay

-----------------------------------------------------------------------------
(* The tunnel: the handler's steps after a send.                           *)

\* The chunk that is kept is set.
LEMMA AfterBuff ==
  ASSUME NEW s, NEW u, NEW val \in Slots, NEW p \in Slots, val # p, NEW x, NEW off, NEW f, NEW g,
         After(s, u, val, p, x, off, f, g), NEW y \in BuffT
  PROVE  /\ After(s, [u EXCEPT !.e[val].buff = y], val, p, x, off, y, g)
         /\ SameOut(u, [u EXCEPT !.e[val].buff = y], val) /\ SameOut(u, [u EXCEPT !.e[val].buff = y], p)
<1> DEFINE w == u.e[val]
           v == SetBuff(w, y)
           t == PutE(u, val, v)
<1>1. u \in StateT
  BY DEF After
<1>2. w \in EvalT /\ w = u.e[val]
  BY <1>1, StateIs
<1>3. [u EXCEPT !.e[val].buff = y] = t
  BY DEF PutE, SetBuff
<1> HIDE DEF w
<1>4. /\ v \in EvalT /\ v.buff = y /\ SameTalk(v, w) /\ (v.out <=> w.out)
      /\ v.round_sent = w.round_sent /\ v.part_sent = w.part_sent /\ (v.timer <=> w.timer)
  BY ONLY <1>2, y \in BuffT, SetBuffIs
<1> HIDE DEF v
<1>5. /\ t \in StateT /\ t.e[val] = v /\ t.e[p] = u.e[p] /\ t.b = u.b /\ t.k = u.k /\ t.w = u.w
      /\ t.h = u.h /\ t.x = u.x
  BY <1>1, <1>4, PutEIs
<1> HIDE DEF t
<1>6. SameTalk(v, s.e[val])
  BY <1>2, <1>4, TalkTwice DEF After
<1>7. After(s, t, val, p, x, off, y, g)
  BY <1>2, <1>4, <1>5, <1>6 DEF After
<1>8. SameOut(u, t, val) /\ SameOut(u, t, p)
  BY <1>2, <1>4, <1>5 DEF SameOut
<1> QED BY <1>3, <1>7, <1>8

\* mod_etype().
LEMMA AfterOut ==
  ASSUME NEW s, NEW u, NEW val \in Slots, NEW p \in Slots, val # p, NEW x, NEW off, NEW f, NEW g,
         After(s, u, val, p, x, off, f, g), NEW i \in {val, p}, NEW o \in BOOLEAN
  PROVE  /\ After(s, mod_etype(u, i, o), val, p, x, off, f, g)
         /\ (mod_etype(u, i, o).e[i].out <=> o)
         /\ \A j \in {val, p} : j # i => SameOut(u, mod_etype(u, i, o), j)
<1> DEFINE w == u.e[i]
           v == SetOut(w, o)
           t == PutE(u, i, v)
<1>1. u \in StateT /\ i \in Slots
  BY DEF After
<1>2. w \in EvalT /\ w = u.e[i]
  BY <1>1, StateIs
<1>3. mod_etype(u, i, o) = t
  BY DEF PutE, SetOut, mod_etype
<1> HIDE DEF w
<1>4. /\ v \in EvalT /\ v.buff = w.buff /\ SameTalk(v, w) /\ (v.out <=> o)
      /\ v.round_sent = w.round_sent /\ v.part_sent = w.part_sent /\ (v.timer <=> w.timer)
  BY ONLY <1>2, o \in BOOLEAN, SetOutIs
<1> HIDE DEF v
<1>5. /\ t \in StateT /\ t.e[i] = v /\ (\A j \in Slots : j # i => t.e[j] = u.e[j])
      /\ t.b = u.b /\ t.k = u.k /\ t.w = u.w /\ t.h = u.h /\ t.x = u.x
  BY <1>1, <1>4, PutEIs
<1> HIDE DEF t
<1>6. SameTalk(v, s.e[i])
  BY <1>2, <1>4, TalkTwice DEF After
<1>7. After(s, t, val, p, x, off, f, g)
  <2>1. CASE i = val
    BY <2>1, <1>2, <1>4, <1>5, <1>6 DEF After
  <2>2. CASE i = p
    BY <2>2, <1>2, <1>4, <1>5, <1>6 DEF After
  <2> QED BY <2>1, <2>2
<1>8. \A j \in {val, p} : j # i => SameOut(u, t, j)
  BY <1>5 DEF SameOut
<1>9. t.e[i].out <=> o
  BY <1>4, <1>5
<1> QED BY <1>3, <1>7, <1>8, <1>9

\* The send has caused something else.
LEMMA AfterWhy ==
  ASSUME NEW s, NEW u, NEW val \in Slots, NEW p \in Slots, val # p, NEW x, NEW off, NEW f, NEW g,
         After(s, u, val, p, x, off, f, g), NEW m \in SUBSET Cause
  PROVE  /\ After(s, Because(u, m), val, p, x, off, f, g \cup m)
         /\ SameOut(u, Because(u, m), val) /\ SameOut(u, Because(u, m), p)
<1> DEFINE h == u.h \cup m
           t == PutH(u, h)
<1>1. u \in StateT
  BY DEF After
<1>2. h \in SUBSET Cause
  BY <1>1, StateIs
<1>3. Because(u, m) = t
  BY DEF PutH, Because
<1>4. h = u.h \cup m
  OBVIOUS
<1> HIDE DEF h
<1>5. /\ t \in StateT /\ t.e = u.e /\ t.b = u.b /\ t.k = u.k /\ t.w = u.w /\ t.h = h /\ t.x = u.x
  BY <1>1, <1>2, PutHIs
<1> HIDE DEF t
<1>6. After(s, t, val, p, x, off, f, g \cup m)
  BY <1>4, <1>5 DEF After
<1>7. SameOut(u, t, val) /\ SameOut(u, t, p)
  BY <1>5 DEF SameOut
<1> QED BY <1>3, <1>6, <1>7

\* The events are those there were.
LEMMA AfterEvents ==
  ASSUME NEW s, NEW u, NEW val \in Slots, NEW p \in Slots, val # p, NEW x, NEW off, NEW f, NEW g,
         After(s, u, val, p, x, off, f, g), Events(s)
  PROVE  Events(u)
<1>1. \A i \in Slots : u.e[i].stamp = s.e[i].stamp
  BY DEF After, SameTalk, Slots
<1> QED BY <1>1 DEF Events, After

-----------------------------------------------------------------------------
(* on_tunnel(): the flush.                                                 *)

\* A tunnel whose held chunk has been woken up.
Woken(s, c, r) ==
    /\ Holds(s.e[c]) /\ s.h \cap Stalls = {} =>
         ~Holds(s.e[r]) /\ (~s.e[c].buff.waited => s.e[r].out)
    /\ Holds(s.e[r]) /\ s.h \cap Stalls = {} => ~Holds(s.e[c]) /\ s.e[c].out
    /\ ~s.e[r].timer
    /\ Early(s.k[c], s.h) => s.e[c].buff = NoBuff /\ s.e[r].buff = NoBuff

\* The states that a flush ends in when it sends.
Blocked(x, f) == IF (x.lp < Len(f.data) /\ ~x.wait) /\ f.waited THEN {"blocked_after_wait"} ELSE {}
FlushKeeps(s, val, p, x) ==
    [Because(Sent(s, val, p, x, s.e[val].buff.offset), Blocked(x, s.e[val].buff))
       EXCEPT !.e[val].buff = Advance(s.e[val].buff, x)]
FlushEnds(s, val, p, x) ==
    mod_etype(mod_etype([Sent(s, val, p, x, s.e[val].buff.offset) EXCEPT !.e[val].buff = NoBuff],
                        val, FALSE), p, FALSE)

\* The four outcomes of on_tunnel()'s flush of a kept buffer.
LEMMA FlushIs ==
  ASSUME NEW s, NEW event, NEW val, NEW notsent, Flush(s, event, val, notsent), NEW p,
         s.e[val].pair = p, NEW x,
         x = tcp_send_hook(s, p, s.e[val].buff.data, s.e[val].buff.offset, notsent)
  PROVE  /\ ~Holds(s.e[val]) => Become(s) /\ run' = [s |-> event, val |-> val]
         /\ Holds(s.e[val]) /\ s.k[p].err => Become(handle_err(s, p, event)) /\ run' = NoRun
         /\ Holds(s.e[val]) /\ ~s.k[p].err /\ Unsent(x, s.e[val].buff.data) =>
              Become(FlushKeeps(s, val, p, x)) /\ run' = NoRun
         /\ Holds(s.e[val]) /\ ~s.k[p].err /\ ~Unsent(x, s.e[val].buff.data) =>
              Become(FlushEnds(s, val, p, x)) /\ run' = [s |-> event, val |-> val]
BY DEF Flush, Holds, Unsent, FlushKeeps, FlushEnds, Blocked

\* A flush that leaves bytes over keeps exactly those bytes.
LEMMA FlushKeepsIs ==
  ASSUME NEW s \in StateT, NEW val \in Slots, NEW p \in Slots, val # p, NEW x,
         x.k \in SockT, x.part \in Nat, x.wait \in BOOLEAN, x.why \subseteq Cause, x.lp \in Nat,
         s.e[val].buff.offset <= x.lp, Unsent(x, s.e[val].buff.data)
  PROVE  LET u == FlushKeeps(s, val, p, x)
             f == Advance(s.e[val].buff, x)
         IN  /\ After(s, u, val, p, x, s.e[val].buff.offset, f, {} \cup Blocked(x, s.e[val].buff))
             /\ SameOut(s, u, val) /\ SameOut(s, u, p)
             /\ Kept(s, val, x, f) /\ (f.waited <=> (s.e[val].buff.waited \/ x.wait))
<1> DEFINE b == s.e[val].buff
           f == Advance(b, x)
           t == Sent(s, val, p, x, b.offset)
           m == Blocked(x, b)
           q == Because(t, m)
           u == [q EXCEPT !.e[val].buff = f]
           o == {}
<1>1. b \in BuffT /\ s.e[val].round_sent \in Nat
  BY StateIs, EvalIs
<1>2. b.data \in Seq(Byte) /\ b.offset \in Nat /\ b.waited \in BOOLEAN
  BY <1>1, BuffIs
<1>3. s.e[val].round_sent + x.lp - b.offset \in Nat
  <2> DEFINE y == s.e[val].round_sent
             z == b.offset
             l == x.lp
  <2>1. y \in Nat /\ z \in Nat /\ l \in Nat /\ z <= l
    BY <1>1, <1>2
  <2> HIDE DEF y, z, l
  <2>2. y + l - z \in Nat
    BY ONLY <2>1
  <2> QED BY <2>2 DEF y, z, l
<1>4. f \in BuffT /\ f.data = b.data /\ f.offset = x.lp
  BY <1>1 DEF Advance, BuffT
<1>5. f.waited <=> (b.waited \/ x.wait)
  BY <1>1 DEF Advance, BuffT
<1>6. Kept(s, val, x, f)
  BY <1>4 DEF Kept
<1>7. m \in SUBSET Cause
  BY DEF Blocked, Cause
<1>8. After(s, t, val, p, x, b.offset, b, o) /\ SameOut(s, t, val) /\ SameOut(s, t, p)
  BY <1>3, SentIs
<1>81. u = FlushKeeps(s, val, p, x)
  BY DEF FlushKeeps
<1> HIDE DEF t, m, f, o
<1>9. After(s, q, val, p, x, b.offset, b, o \cup m) /\ SameOut(t, q, val) /\ SameOut(t, q, p)
  BY <1>7, <1>8, AfterWhy
<1> HIDE DEF q
<1>10. After(s, u, val, p, x, b.offset, f, o \cup m) /\ SameOut(q, u, val) /\ SameOut(q, u, p)
  BY <1>4, <1>9, AfterBuff
<1> HIDE DEF u
<1>11. SameOut(s, u, val) /\ SameOut(s, u, p)
  BY <1>8, <1>9, <1>10 DEF SameOut
<1>12. After(s, u, val, p, x, b.offset, f, {} \cup m)
  BY <1>10 DEF o
<1> QED BY <1>5, <1>6, <1>81, <1>11, <1>12 DEF f, m

\* A flush that sends the rest empties the buffer.
LEMMA FlushEndsIs ==
  ASSUME NEW s \in StateT, NEW val \in Slots, NEW p \in Slots, val # p, NEW x,
         x.k \in SockT, x.part \in Nat, x.wait \in BOOLEAN, x.why \subseteq Cause, x.lp \in Nat,
         s.e[val].buff.offset <= x.lp, ~Unsent(x, s.e[val].buff.data)
  PROVE  /\ After(s, FlushEnds(s, val, p, x), val, p, x, s.e[val].buff.offset, NoBuff, {})
         /\ Kept(s, val, x, NoBuff)
<1> DEFINE b == s.e[val].buff
           t == Sent(s, val, p, x, b.offset)
           q == [t EXCEPT !.e[val].buff = NoBuff]
           no == FALSE
           y == mod_etype(q, val, no)
           u == mod_etype(y, p, no)
           o == {}
<1>1. b \in BuffT /\ s.e[val].round_sent \in Nat
  BY StateIs, EvalIs
<1>2. b.data \in Seq(Byte) /\ b.offset \in Nat
  BY <1>1, BuffIs
<1>3. s.e[val].round_sent + x.lp - b.offset \in Nat
  <2> DEFINE i == s.e[val].round_sent
             z == b.offset
             l == x.lp
  <2>1. i \in Nat /\ z \in Nat /\ l \in Nat /\ z <= l
    BY <1>1, <1>2
  <2> HIDE DEF i, z, l
  <2>2. i + l - z \in Nat
    BY ONLY <2>1
  <2> QED BY <2>2 DEF i, z, l
<1>4. NoBuff \in BuffT
  BY NoneIs
<1>6. Kept(s, val, x, NoBuff)
  BY <1>4 DEF Kept
<1>8. After(s, t, val, p, x, b.offset, b, o)
  BY <1>3, SentIs
<1>81. u = FlushEnds(s, val, p, x)
  BY DEF FlushEnds
<1>82. no \in BOOLEAN
  OBVIOUS
<1> HIDE DEF t, o, no
<1>9. After(s, q, val, p, x, b.offset, NoBuff, o)
  BY <1>4, <1>8, AfterBuff
<1> HIDE DEF q
<1>10. After(s, y, val, p, x, b.offset, NoBuff, o)
  BY <1>82, <1>9, AfterOut
<1> HIDE DEF y
<1>11. After(s, u, val, p, x, b.offset, NoBuff, o)
  BY <1>82, <1>10, AfterOut
<1> HIDE DEF u
<1> QED BY <1>6, <1>81, <1>11 DEF o

\* The tunnel after the send of the client's chunk.
LEMMA TunnelUp ==
  ASSUME NEW pp, NEW s \in StateT, NEW c \in Slots, NEW r \in Slots, c # r, Woken(s, c, r),
         Holds(s.e[c]), NEW x, NEW u, NEW f, NEW g, NEW off, After(s, u, c, r, x, off, f, g),
         x.wait \in BOOLEAN, Kept(s, c, x, f), Relay(pp, u, c, r), NEW event \in {c, r},
         NEW rn, rn \in {NoRun, [s |-> event, val |-> c]},
         Unsent(x, s.e[c].buff.data) =>
           /\ rn = NoRun /\ SameOut(s, u, r) /\ (f.waited <=> s.e[c].buff.waited \/ x.wait)
           /\ ~x.wait /\ s.e[c].buff.waited => u.h \cap Stalls # {}
  PROVE  Tunnel(pp, u, rn, c, r)
<1>1. /\ u.k[c] = s.k[c] /\ s.h \subseteq u.h /\ u.e[c].buff = f /\ u.e[r].buff = s.e[r].buff
  BY DEF After
<1>2. u.e[r].timer <=> x.wait
  BY DEF After, Woken
<1>3. Holds(u.e[c]) <=> Unsent(x, s.e[c].buff.data)
  BY <1>1, NoneIs DEF Holds, Kept
<1>4. Wakes(u, c, r)
  <2>1. SUFFICES ASSUME Holds(u.e[c]), u.h \cap Stalls = {}
                 PROVE  /\ ~Holds(u.e[r])
                        /\ IF u.e[c].buff.waited THEN u.e[r].timer ELSE u.e[r].out
    BY DEF Wakes
  <2>2. ~Holds(s.e[r]) /\ (~s.e[c].buff.waited => s.e[r].out)
    BY <1>1, <2>1 DEF Woken
  <2>3. SameOut(s, u, r) /\ (f.waited <=> s.e[c].buff.waited \/ x.wait)
        /\ (s.e[c].buff.waited => x.wait)
    BY <1>3, <2>1
  <2>4. u.e[c].buff.waited => u.e[r].timer
    BY <1>1, <1>2, <2>3
  <2>5. ~u.e[c].buff.waited => u.e[r].out
    BY <1>1, <2>2, <2>3 DEF SameOut
  <2> QED BY <1>1, <2>2, <2>4, <2>5 DEF Holds
<1>5. Wakes(u, r, c)
  BY <1>1 DEF Wakes, Woken, Holds
<1>6. TimerHolds(u, c, r)
  BY <1>2, <1>3 DEF TimerHolds, Unsent
<1>7. EarlyEnd(u, rn, c, r)
  <2>1. ~Early(u.k[c], u.h)
    BY <1>1, NoneIs DEF Woken, Holds, Early
  <2> QED BY <2>1 DEF EarlyEnd
<1>8. Reading(u, rn, c, r)
  BY <1>1, <1>3 DEF Reading, Kept, NoRun
<1> QED BY <1>4, <1>5, <1>6, <1>7, <1>8 DEF Tunnel

\* The tunnel after the send of the server's chunk.
LEMMA TunnelDown ==
  ASSUME NEW pp, NEW s \in StateT, NEW c \in Slots, NEW r \in Slots, c # r, Woken(s, c, r),
         Holds(s.e[r]), NEW x, NEW u, NEW f, NEW g, NEW off, After(s, u, r, c, x, off, f, g),
         ~x.k.err, x.k.eof <=> s.k[c].eof,
         Kept(s, r, x, f), ~f.waited, Relay(pp, u, c, r), NEW event \in {c, r},
         NEW rn, rn \in {NoRun, [s |-> event, val |-> r]},
         Unsent(x, s.e[r].buff.data) => rn = NoRun /\ SameOut(s, u, c)
  PROVE  Tunnel(pp, u, rn, c, r)
<1>1. /\ u.k[c] = x.k /\ s.h \subseteq u.h /\ u.e[r].buff = f /\ u.e[c].buff = s.e[c].buff
  BY DEF After
<1>2. ~u.e[r].timer
  BY DEF After, Woken
<1>3. Holds(u.e[r]) <=> Unsent(x, s.e[r].buff.data)
  BY <1>1, NoneIs DEF Holds, Kept
<1>4. Wakes(u, r, c)
  <2>1. SUFFICES ASSUME Holds(u.e[r]), u.h \cap Stalls = {}
                 PROVE  /\ ~Holds(u.e[c])
                        /\ IF u.e[r].buff.waited THEN u.e[c].timer ELSE u.e[c].out
    BY DEF Wakes
  <2>2. ~Holds(s.e[c]) /\ s.e[c].out
    BY <1>1, <2>1 DEF Woken
  <2>3. SameOut(s, u, c)
    BY <1>3, <2>1
  <2>4. u.e[c].out /\ ~u.e[r].buff.waited
    BY <1>1, <2>2, <2>3 DEF SameOut
  <2> QED BY <1>1, <2>2, <2>4 DEF Holds
<1>5. Wakes(u, c, r)
  BY <1>1 DEF Wakes, Woken, Holds
<1>6. TimerHolds(u, c, r)
  BY <1>2 DEF TimerHolds
<1>7. EarlyEnd(u, rn, c, r)
  <2>1. ~Early(s.k[c], s.h)
    BY NoneIs DEF Woken, Holds
  <2>2. ~Early(u.k[c], u.h)
    BY <1>1, <2>1 DEF Early
  <2> QED BY <2>2 DEF EarlyEnd
<1>8. Reading(u, rn, c, r)
  BY <1>1, <1>3 DEF Reading, Kept, NoRun
<1> QED BY <1>4, <1>5, <1>6, <1>7, <1>8 DEF Tunnel

\* A tunnel is a good state.
LEMMA TunnelGood ==
  ASSUME NEW pp, NEW s, NEW u, NEW val \in Slots, NEW p \in Slots, val # p, NEW x, NEW off, NEW f,
         NEW g, After(s, u, val, p, x, off, f, g), s.x = {}, Events(s), NEW c \in {val, p},
         NEW r \in {val, p}, c # r, NEW rn, Tunnel(pp, u, rn, c, r)
  PROVE  Good(pp, u, rn)
<1>1. Events(u)
  BY AfterEvents
<1>2. u \in StateT /\ u.x = {}
  BY DEF After
<1>3. c \in Slots /\ r \in Slots
  OBVIOUS
<1> QED BY <1>1, <1>2, <1>3 DEF Good

\* The flush of the client's chunk.
LEMMA FlushUp ==
  ASSUME parts \in Configs, NEW s \in StateT, s.x = {}, Events(s), NEW c \in Slots, NEW r \in Slots,
         c # r, Relay(parts, s, c, r), Woken(s, c, r), NEW event \in {c, r},
         ~Holds(s.e[c]) => Tunnel(parts, s, [s |-> event, val |-> c], c, r),
         NEW notsent, Flush(s, event, c, notsent)
  PROVE  \E t : Become(t) /\ Good(parts, t, run')
<1> DEFINE d == s.e[c].buff.data
           off == s.e[c].buff.offset
           x == tcp_send_hook(s, r, d, off, notsent)
<1>1. s.e[c].pair = r
  BY DEF Relay, Ends
<1>2. /\ ~Holds(s.e[c]) => Become(s) /\ run' = [s |-> event, val |-> c]
      /\ Holds(s.e[c]) /\ s.k[r].err => Become(handle_err(s, r, event)) /\ run' = NoRun
      /\ Holds(s.e[c]) /\ ~s.k[r].err /\ Unsent(x, d) =>
           Become(FlushKeeps(s, c, r, x)) /\ run' = NoRun
      /\ Holds(s.e[c]) /\ ~s.k[r].err /\ ~Unsent(x, d) =>
           Become(FlushEnds(s, c, r, x)) /\ run' = [s |-> event, val |-> c]
  BY <1>1, FlushIs
<1>3. CASE ~Holds(s.e[c])
  <2>1. Good(parts, s, run')
    BY <1>2, <1>3 DEF Good
  <2> QED BY <1>2, <1>3, <2>1
<1>4. CASE Holds(s.e[c]) /\ s.k[r].err
  <2>1. "server_reset" \in s.h
    BY <1>4 DEF Relay, Ends
  <2>2. Paired(s, c, r) /\ Shut(s, c, r)
    <3>1. ~(s.h \subseteq {"server_closed"} \cup Lossy) /\ ~(s.h \subseteq {"client_closed"} \cup Stalls)
      BY <2>1 DEF Lossy, Stalls
    <3> QED BY <3>1, RelayShut
  <2>3. Good(parts, handle_err(s, r, event), NoRun)
    BY <2>1, <2>2, ErrShut
  <2> QED BY <1>2, <1>4, <2>3
<1>5. CASE Holds(s.e[c]) /\ ~s.k[r].err
  <2>1. Sending(parts, s, c, r)
    BY DEF Sending, Relay
  <2>2. Outcome(parts, s, c, r, x)
    BY <1>5, <2>1, HookUp
  <2> HIDE DEF x
  <2>3. /\ Fed(s.k[r], x.k) /\ x.lp \in Nat /\ off <= x.lp /\ x.lp <= Len(d)
        /\ x.part \in Nat /\ x.wait \in BOOLEAN /\ x.why \subseteq LostUp
    BY <2>2 DEF Outcome
  <2>4. x.k \in SockT /\ x.why \subseteq Cause
    BY <2>3 DEF Fed, LostUp, Cause
  <2>5. CASE Unsent(x, d)
    <3> DEFINE u == FlushKeeps(s, c, r, x)
               f == Advance(s.e[c].buff, x)
               g == {} \cup Blocked(x, s.e[c].buff)
    <3>1. /\ After(s, u, c, r, x, off, f, g) /\ SameOut(s, u, c) /\ SameOut(s, u, r)
          /\ Kept(s, c, x, f) /\ (f.waited <=> (s.e[c].buff.waited \/ x.wait))
      BY <2>3, <2>4, <2>5, FlushKeepsIs
    <3>2. g \subseteq Stalls
      BY DEF Blocked, Stalls
    <3>3. ~x.wait /\ s.e[c].buff.waited => u.h \cap Stalls # {}
      <4> HAVE ~x.wait /\ s.e[c].buff.waited
      <4>1. "blocked_after_wait" \in g
        BY <2>5 DEF Blocked, Unsent
      <4> HIDE DEF u, f, g
      <4>2. "blocked_after_wait" \in u.h
        BY <3>1, <4>1 DEF After
      <4> QED BY <4>2 DEF Stalls
    <3>4. run' = NoRun /\ Become(u)
      BY <1>2, <1>5, <2>5
    <3> HIDE DEF u, f, g
    <3>5. Relay(parts, u, c, r)
      BY <1>5, <2>1, <2>2, <3>1, <3>2, SentUp
    <3>6. Tunnel(parts, u, NoRun, c, r)
      BY <1>5, <2>3, <2>5, <3>1, <3>3, <3>5, TunnelUp
    <3>7. Good(parts, u, NoRun)
      BY <3>1, <3>6, TunnelGood
    <3> QED BY <3>4, <3>7
  <2>6. CASE ~Unsent(x, d)
    <3> DEFINE u == FlushEnds(s, c, r, x)
               rn == [s |-> event, val |-> c]
               g == {}
               f == NoBuff
    <3>1. After(s, u, c, r, x, off, f, g) /\ Kept(s, c, x, f)
      BY <2>3, <2>4, <2>6, FlushEndsIs
    <3>2. g \subseteq Stalls /\ rn \in {NoRun, [s |-> event, val |-> c]}
      OBVIOUS
    <3>4. run' = rn /\ Become(u)
      BY <1>2, <1>5, <2>6
    <3> HIDE DEF u, g, rn, f
    <3>5. Relay(parts, u, c, r)
      BY <1>5, <2>1, <2>2, <3>1, <3>2, SentUp
    <3>6. Tunnel(parts, u, rn, c, r)
      <4>1. Unsent(x, s.e[c].buff.data) =>
              /\ rn = NoRun /\ SameOut(s, u, r) /\ (f.waited <=> s.e[c].buff.waited \/ x.wait)
              /\ ~x.wait /\ s.e[c].buff.waited => u.h \cap Stalls # {}
        BY <2>6
      <4>2. Holds(s.e[c]) /\ x.wait \in BOOLEAN
        BY <1>5, <2>3
      <4> QED BY ONLY s \in StateT, c \in Slots, r \in Slots, c # r, Woken(s, c, r),
                      event \in {c, r}, <3>1, <3>2, <3>5, <4>1, <4>2, TunnelUp
    <3>7. Good(parts, u, rn)
      BY <3>1, <3>6, TunnelGood
    <3> QED BY <3>4, <3>7
  <2> QED BY <2>5, <2>6
<1> QED BY <1>3, <1>4, <1>5

\* The flush of the server's chunk.
LEMMA FlushDown ==
  ASSUME parts \in Configs, NEW s \in StateT, s.x = {}, Events(s), NEW c \in Slots, NEW r \in Slots,
         c # r, Relay(parts, s, c, r), Woken(s, c, r), NEW event \in {c, r},
         ~Holds(s.e[r]) => Tunnel(parts, s, [s |-> event, val |-> r], c, r),
         NEW notsent, Flush(s, event, r, notsent)
  PROVE  \E t : Become(t) /\ Good(parts, t, run')
<1> DEFINE d == s.e[r].buff.data
           off == s.e[r].buff.offset
           x == tcp_send_hook(s, c, d, off, notsent)
<1>1. s.e[r].pair = c
  BY DEF Relay, Ends
<1>2. /\ ~Holds(s.e[r]) => Become(s) /\ run' = [s |-> event, val |-> r]
      /\ Holds(s.e[r]) /\ s.k[c].err => Become(handle_err(s, c, event)) /\ run' = NoRun
      /\ Holds(s.e[r]) /\ ~s.k[c].err /\ Unsent(x, d) =>
           Become(FlushKeeps(s, r, c, x)) /\ run' = NoRun
      /\ Holds(s.e[r]) /\ ~s.k[c].err /\ ~Unsent(x, d) =>
           Become(FlushEnds(s, r, c, x)) /\ run' = [s |-> event, val |-> r]
  BY <1>1, FlushIs
<1>3. CASE ~Holds(s.e[r])
  <2>1. Good(parts, s, run')
    BY <1>2, <1>3 DEF Good
  <2> QED BY <1>2, <1>3, <2>1
<1>4. CASE Holds(s.e[r]) /\ s.k[c].err
  <2>1. "client_reset" \in s.h
    BY <1>4, NoneIs DEF Woken, Early, Holds
  <2>2. Paired(s, c, r) /\ Shut(s, c, r)
    <3>1. ~(s.h \subseteq {"server_closed"} \cup Lossy) /\ ~(s.h \subseteq {"client_closed"} \cup Stalls)
      BY <2>1 DEF Lossy, Stalls
    <3> QED BY <3>1, RelayShut
  <2>3. Good(parts, handle_err(s, c, event), NoRun)
    BY <2>2, ErrShut
  <2> QED BY <1>2, <1>4, <2>3
<1>5. CASE Holds(s.e[r]) /\ ~s.k[c].err
  <2>2. /\ Plain(s.k[c], d, off, x) /\ x.part = s.e[r].part_sent /\ x.k.unsent = s.k[c].unsent
    <3>1. SendsDown(s, c, r, x)
      BY ONLY s \in StateT, c \in Slots, r \in Slots, Relay(parts, s, c, r), HookDown
    <3> QED BY <3>1 DEF SendsDown
  <2> HIDE DEF x
  <2>3. Fed(s.k[c], x.k) /\ x.lp \in Nat /\ off <= x.lp /\ x.lp <= Len(d) /\ x.why = {}
    BY <2>2 DEF Plain
  <2>31. ~x.wait /\ x.wait \in BOOLEAN
    BY <2>2 DEF Plain
  <2>4. x.k \in SockT /\ x.why \subseteq Cause /\ x.part \in Nat
    <3>1. s.e[r].part_sent = 0
      BY DEF Relay, Ends
    <3> QED BY <2>2, <2>3, <3>1 DEF Fed
  <2>41. ~x.k.err /\ (x.k.eof <=> s.k[c].eof)
    <3>1. s.k[c] \in SockT
      BY StateIs
    <3> QED BY <1>5, <2>3, <3>1, FedIs
  <2>5. CASE Unsent(x, d)
    <3> DEFINE u == FlushKeeps(s, r, c, x)
               f == Advance(s.e[r].buff, x)
               g == {} \cup Blocked(x, s.e[r].buff)
    <3>1. /\ After(s, u, r, c, x, off, f, g) /\ SameOut(s, u, r) /\ SameOut(s, u, c)
          /\ Kept(s, r, x, f) /\ (f.waited <=> (s.e[r].buff.waited \/ x.wait))
      BY <2>3, <2>31, <2>4, <2>5, FlushKeepsIs
    <3>2. ~f.waited
      BY <2>31, <3>1 DEF Relay, Ends
    <3>4. run' = NoRun /\ Become(u)
      BY <1>2, <1>5, <2>5
    <3> HIDE DEF u, f, g
    <3>5. Relay(parts, u, c, r)
      BY <1>5, <2>2, <3>1, <3>2, SentDown
    <3>6. Tunnel(parts, u, NoRun, c, r)
      BY <1>5, <2>41, <2>5, <3>1, <3>2, <3>5, TunnelDown
    <3>7. Good(parts, u, NoRun)
      BY <3>1, <3>6, TunnelGood
    <3> QED BY <3>4, <3>7
  <2>6. CASE ~Unsent(x, d)
    <3> DEFINE u == FlushEnds(s, r, c, x)
               rn == [s |-> event, val |-> r]
               g == {}
               f == NoBuff
    <3>1. After(s, u, r, c, x, off, f, g) /\ Kept(s, r, x, f)
      BY <2>3, <2>31, <2>4, <2>6, FlushEndsIs
    <3>2. rn \in {NoRun, [s |-> event, val |-> r]} /\ ~f.waited
      BY NoneIs
    <3>4. run' = rn /\ Become(u)
      BY <1>2, <1>5, <2>6
    <3> HIDE DEF u, g, rn, f
    <3>5. Relay(parts, u, c, r)
      BY <1>5, <2>2, <3>1, <3>2, SentDown
    <3>6. Tunnel(parts, u, rn, c, r)
      BY <1>5, <2>41, <2>6, <3>1, <3>2, <3>5, TunnelDown
    <3>7. Good(parts, u, rn)
      BY <3>1, <3>6, TunnelGood
    <3> QED BY <3>4, <3>7
  <2> QED BY <2>5, <2>6
<1> QED BY <1>3, <1>4, <1>5

\* The handler's step, when it ends in a good state.
LEMMA HandlerStep ==
  ASSUME LoopInv, ~brk.set, UNCHANGED <<parts, brk>>, \E t : Become(t) /\ Good(parts, t, run')
  PROVE  LoopInv'
<1>1. PICK t : Become(t) /\ Good(parts, t, run')
  OBVIOUS
<1>2. parts \in Configs /\ parts' = parts /\ brk' \in [set : BOOLEAN, gone : BOOLEAN] /\ ~brk'.set
  BY DEF LoopInv
<1> QED BY <1>1, <1>2, InvNext

\* A chunk of one direction is held, or none.
LEMMA HoldsNot ==
  ASSUME NEW v, NEW k, NEW n, Account(v, k, n)
  PROVE  ~Holds(v) => v.buff = NoBuff
BY DEF Account, Chunk, Holds

\* on_tunnel(): when no timer is due, the held chunk has POLLOUT.
LEMMA OnTunnelKeeps ==
  ASSUME LoopInv, on_tunnel
  PROVE  LoopInv'
<1>1. /\ AtLoop /\ UNCHANGED <<parts, brk>>
  BY DEF on_tunnel
<1>2. PICK b \in batch :
        /\ Sees(b, "on_tunnel")
        /\ LET s   == Check(Sound(Took(b), b), ev[b.s].pair # 0, "no_pair")
               val == IF "out" \in b.type THEN ev[b.s].pair ELSE b.s
           IN  IF ev[b.s].pair = 0 THEN Become(del_event(s, b.s)) /\ run' = NoRun
               ELSE \E notsent \in NotSent(val) : Flush(s, b.s, val, notsent)
  BY DEF on_tunnel
<1> DEFINE i == b.s
           s == Took(b)
           val == IF "out" \in b.type THEN ev[i].pair ELSE i
<1>3. i # 0 /\ ~ev[i].stamp /\ ev[i].cb = "on_tunnel"
  BY <1>2 DEF Sees
<1>4. /\ s \in StateT /\ s.e = ev /\ s.k = sk /\ s.w = net
      /\ s.h = causes /\ s.x = {} /\ s.b = batch \ {b} /\ Events(s)
      /\ Sound(s, b) = s /\ i \in Slots
  BY <1>3, TookIs
<1>5. PICK c \in Slots, r \in Slots : c # r /\ Tunnel(parts, Cur, run, c, r)
  BY <1>3, <1>4, PhaseIs
<1>6. i \in {c, r} /\ ev[c].pair = r /\ ev[r].pair = c /\ c # 0 /\ r # 0
  BY <1>4, <1>5, OtherSlot, CurIs DEF Tunnel, Relay, Ends
<1>7. val \in {c, r} /\ ev[i].pair # 0
  BY <1>6
<1>8. PICK notsent : Flush(s, i, val, notsent)
  <2>1. Check(Sound(Took(b), b), ev[b.s].pair # 0, "no_pair") = s
    BY <1>4, <1>7 DEF Check
  <2> HIDE DEF s
  <2> QED BY <1>2, <1>7, <2>1
<1>9. run = NoRun /\ ~brk.set /\ ~ev[c].timer /\ ~ev[r].timer
  BY <1>1 DEF AtLoop
<1> HIDE DEF s
<1>10. /\ Relay(parts, Cur, c, r) /\ Wakes(Cur, c, r) /\ Wakes(Cur, r, c)
       /\ EarlyEnd(Cur, NoRun, c, r)
  BY <1>5, <1>9 DEF Tunnel
<1>11. Relay(parts, s, c, r)
  <2>1. Alike(s.e[c], Cur.e[c]) /\ Alike(s.e[r], Cur.e[r])
    BY <1>4, CurIs DEF Alike
  <2>2. s.k = Cur.k /\ s.w = Cur.w /\ Cur.h \subseteq s.h
    BY <1>4, CurIs
  <2> QED BY ONLY <1>10, <2>1, <2>2, RelaySame
<1>12. Woken(s, c, r)
  <2>1. Holds(s.e[c]) /\ s.h \cap Stalls = {} => ~Holds(s.e[r]) /\ (~s.e[c].buff.waited => s.e[r].out)
    BY <1>4, <1>10, CurIs DEF Wakes
  <2>2. Holds(s.e[r]) /\ s.h \cap Stalls = {} => ~Holds(s.e[c]) /\ s.e[c].out
    BY <1>4, <1>10, CurIs DEF Wakes, Relay, Ends
  <2>3. Early(s.k[c], s.h) => s.e[c].buff = NoBuff /\ s.e[r].buff = NoBuff
    BY <1>4, <1>10, CurIs DEF EarlyEnd
  <2>4. ~s.e[r].timer
    BY <1>4, <1>9
  <2> QED BY <2>1, <2>2, <2>3, <2>4 DEF Woken
<1>13. ASSUME ~Holds(s.e[val])
       PROVE  Tunnel(parts, s, [s |-> i, val |-> val], c, r)
  <2> DEFINE rn == [s |-> i, val |-> val]
  <2>1. Wakes(s, c, r) /\ Wakes(s, r, c)
    BY <1>4, <1>10, CurIs DEF Wakes
  <2>2. TimerHolds(s, c, r)
    BY <1>12 DEF TimerHolds, Woken
  <2>3. EarlyEnd(s, rn, c, r)
    <3>1. SUFFICES ASSUME Early(s.k[c], s.h)
                   PROVE  /\ s.k[c].rx = <<>> /\ s.e[c].buff = NoBuff /\ s.e[r].buff = NoBuff
                          /\ \A x \in s.b : x.s # r
                          /\ rn = [s |-> c, val |-> c]
      BY DEF EarlyEnd
    <3>2. /\ sk[c].rx = <<>> /\ ev[c].buff = NoBuff /\ ev[r].buff = NoBuff
          /\ \A x \in batch : x.s # r
          /\ (NoRun = NoRun /\ Noticed(Cur, c)) \/ NoRun = [s |-> c, val |-> c]
      BY <1>4, <1>10, <3>1, CurIs DEF EarlyEnd
    <3>3. i = c
      BY <1>6, <3>2
    <3>4. Noticed(Cur, c)
      BY <1>6, <3>2 DEF NoRun
    <3>5. PICK x \in batch : x.s = c /\ "out" \notin x.type
      BY <3>4, CurIs DEF Noticed
    <3>6. x = b
      BY <3>3, <3>5, TookIs
    <3>7. val = c
      BY <3>3, <3>5, <3>6
    <3> QED BY <1>4, <3>2, <3>3, <3>7
  <2>4. s.e[val].buff = NoBuff
    <3>1. s.e[c].buff = NoBuff \/ Holds(s.e[c])
      BY <1>11, HoldsNot DEF Relay
    <3>2. s.e[r].buff = NoBuff \/ Holds(s.e[r])
      BY <1>11, HoldsNot DEF Relay
    <3> HIDE DEF val
    <3> QED BY <1>7, <1>13, <3>1, <3>2
  <2>5. Reading(s, rn, c, r)
    BY <1>6, <1>7, <2>4 DEF Reading
  <2> QED BY <1>11, <2>1, <2>2, <2>3, <2>5 DEF Tunnel
<1>14. \E t : Become(t) /\ Good(parts, t, run')
  <2>0. parts \in Configs
    BY DEF LoopInv
  <2> HIDE DEF i, val
  <2>1. CASE val = c
    <3>1. /\ Flush(s, i, c, notsent)
          /\ ~Holds(s.e[c]) => Tunnel(parts, s, [s |-> i, val |-> c], c, r)
      BY <1>8, <1>13, <2>1
    <3> QED BY <1>4, <1>5, <1>6, <1>11, <1>12, <2>0, <3>1, FlushUp
  <2>2. CASE val = r
    <3>1. /\ Flush(s, i, r, notsent)
          /\ ~Holds(s.e[r]) => Tunnel(parts, s, [s |-> i, val |-> r], c, r)
      BY <1>8, <1>13, <2>2
    <3> QED BY <1>4, <1>5, <1>6, <1>11, <1>12, <2>0, <3>1, FlushDown
  <2> QED BY <1>7, <2>1, <2>2
<1> QED BY <1>1, <1>9, <1>14, HandlerStep

\* A timer of the remote says nothing of the bytes.
LEMMA RelayTimer ==
  ASSUME NEW pp, NEW s, NEW t, NEW c, NEW r, t.e[c] = s.e[c], SameTalk(t.e[r], s.e[r]),
         t.e[r].buff = s.e[r].buff, t.e[r].round_sent = s.e[r].round_sent,
         t.e[r].part_sent = s.e[r].part_sent, t.k = s.k, t.w = s.w, t.h = s.h, Relay(pp, s, c, r)
  PROVE  Relay(pp, t, c, r)
<1>1. Ends(t, c, r)
  BY DEF Relay, Ends, SameTalk
<1>2. Account(t.e[c], t.k[c], t.w.up) /\ Account(t.e[r], t.k[r], t.w.down)
  BY DEF Relay, Account
<1>3. Down(t, c, r) /\ Up(t, c, r)
  BY DEF Relay, Down, Up
<1>4. Parts(pp, t, c, r) /\ PartDone(pp, t, c)
  BY DEF Relay, Parts, PartDone, First
<1> QED BY <1>1, <1>2, <1>3, <1>4 DEF Relay

\* A timer is due: it is one of a held chunk.
LEMMA TimeoutKeeps ==
  ASSUME LoopInv, Timeout
  PROVE  LoopInv'
<1>1. /\ ~brk.set /\ run = NoRun /\ UNCHANGED <<parts, brk>>
  BY DEF Timeout
<1>2. PICK r \in Slots :
        /\ ev[r].timer
        /\ LET c == ev[r].pair
               s == [Cur EXCEPT !.e[r].timer = FALSE]
           IN  IF ev[c].buff = NoBuff /\ ev[r].round_count > 0
                 THEN /\ Become(handle_err(Check(s, FALSE, "timeout_of_a_live_connection"), r, r))
                      /\ run' = NoRun
                 ELSE \E notsent \in NotSent(c) : Flush(s, r, c, notsent)
  BY DEF Timeout
<1>3. PICK c \in Slots : c # r /\ Tunnel(parts, Cur, run, c, r)
  <2>1. \/ Loose(Cur) /\ run = NoRun
        \/ \E c, q \in Slots : c # q /\ Joining(Cur, c, q) /\ run = NoRun
        \/ \E c, q \in Slots : c # q /\ Tunnel(parts, Cur, run, c, q)
    BY VarsAre
  <2>2. ~Loose(Cur)
    BY <1>2, CurIs DEF Loose, IsFree, IsClient, Quiet
  <2>3. ASSUME NEW c \in Slots, NEW q \in Slots, c # q, Joining(Cur, c, q)
        PROVE  FALSE
    BY <1>2, <2>3, CurIs, OtherSlot DEF Joining, Quiet
  <2>4. PICK c \in Slots, q \in Slots : c # q /\ Tunnel(parts, Cur, run, c, q)
    BY <2>1, <2>2, <2>3
  <2>5. ~ev[c].timer
    BY <2>4, CurIs DEF Tunnel, Relay, Ends
  <2>6. q = r
    BY <1>2, <2>4, <2>5, OtherSlot
  <2> QED BY <2>4, <2>6
<1>4. /\ Cur \in StateT /\ Cur.x = {} /\ Events(Cur) /\ ev[r] \in EvalT /\ parts \in Configs
  BY VarsAre DEF LoopInv, Good
<1>5. /\ Relay(parts, Cur, c, r) /\ Wakes(Cur, c, r) /\ Wakes(Cur, r, c)
      /\ EarlyEnd(Cur, NoRun, c, r) /\ TimerHolds(Cur, c, r)
  BY <1>1, <1>3 DEF Tunnel
<1>6. ev[r].pair = c /\ Holds(ev[c])
  BY <1>2, <1>5, CurIs DEF Relay, Ends, TimerHolds
<1>7. ev[c].buff # NoBuff
  BY <1>6, NoneIs DEF Holds
<1> DEFINE w == ev[r]
           no == FALSE
           v == SetTimer(w, no)
           s == PutE(Cur, r, v)
<1>8. PICK notsent : Flush(s, r, c, notsent)
  <2>1. s = [Cur EXCEPT !.e[r].timer = FALSE]
    BY CurIs DEF PutE, SetTimer
  <2> HIDE DEF s
  <2> QED BY <1>2, <1>6, <1>7, <2>1
<1>9. w \in EvalT /\ no \in BOOLEAN /\ w = Cur.e[r]
  BY <1>4, CurIs
<1>10. ~no
  OBVIOUS
<1> HIDE DEF w, no
<1>11. /\ v \in EvalT /\ (v.timer <=> no) /\ SameTalk(v, w) /\ (v.out <=> w.out)
       /\ v.buff = w.buff /\ v.round_sent = w.round_sent /\ v.part_sent = w.part_sent
  BY ONLY <1>9, SetTimerIs
<1> HIDE DEF v
<1>12. /\ s \in StateT /\ s.e[r] = v /\ s.e[c] = Cur.e[c] /\ s.b = Cur.b /\ s.k = Cur.k
       /\ s.w = Cur.w /\ s.h = Cur.h /\ s.x = Cur.x
  BY <1>3, <1>4, <1>11, PutEIs
<1> HIDE DEF s
<1>13. Relay(parts, s, c, r)
  <2>1. /\ s.e[c] = Cur.e[c] /\ SameTalk(s.e[r], Cur.e[r])
        /\ s.e[r].buff = Cur.e[r].buff /\ s.e[r].round_sent = Cur.e[r].round_sent
        /\ s.e[r].part_sent = Cur.e[r].part_sent /\ s.k = Cur.k /\ s.w = Cur.w /\ s.h = Cur.h
    BY <1>9, <1>11, <1>12
  <2> QED BY ONLY <1>5, <2>1, RelayTimer
<1>14. Holds(s.e[c])
  BY <1>6, <1>12, CurIs
<1>15. Woken(s, c, r)
  <2>1. (s.e[r].out <=> Cur.e[r].out) /\ ~s.e[r].timer
    BY <1>9, <1>10, <1>11, <1>12
  <2>2. s.e[r].buff = Cur.e[r].buff /\ (Holds(s.e[r]) <=> Holds(Cur.e[r]))
    BY <1>9, <1>11, <1>12 DEF Holds
  <2>3. s.h \cap Stalls = {} => ~Holds(s.e[r]) /\ (~s.e[c].buff.waited => s.e[r].out)
    BY <1>5, <1>12, <1>14, <2>1, <2>2 DEF Wakes
  <2>4. Early(s.k[c], s.h) => s.e[c].buff = NoBuff /\ s.e[r].buff = NoBuff
    BY <1>5, <1>12, <2>2 DEF EarlyEnd
  <2> QED BY <1>14, <2>1, <2>3, <2>4 DEF Woken
<1>16. Events(s)
  <2>1. \A i \in Slots : s.e[i].stamp = Cur.e[i].stamp
    BY <1>3, <1>9, <1>11, <1>12, OtherSlot DEF SameTalk
  <2> QED BY <1>4, <1>12, <2>1 DEF Events
<1>17. \E t : Become(t) /\ Good(parts, t, run')
  BY <1>3, <1>4, <1>8, <1>12, <1>13, <1>14, <1>15, <1>16, FlushUp
<1> QED BY <1>1, <1>17, HandlerStep

-----------------------------------------------------------------------------
(* on_tunnel(): the reading loop.                                          *)

\* The state u after m bytes were read from val, whose chunk is y then.
SamePeer(u, v) ==
    /\ u.live = v.live /\ u.cb = v.cb /\ u.flag = v.flag /\ u.pair = v.pair /\ u.stamp = v.stamp
Read(s, u, val, p, m, y) ==
    /\ u \in StateT /\ u.k[val] = SetRx(s.k[val], Drop(s.k[val].rx, m)) /\ u.k[p] = s.k[p]
    /\ u.b = s.b /\ u.w = s.w /\ u.h = s.h /\ u.x = s.x
    /\ SamePeer(u.e[val], s.e[val]) /\ SamePeer(u.e[p], s.e[p])
    /\ SameOut(s, u, val) /\ SameOut(s, u, p)
    /\ (u.e[val].timer <=> s.e[val].timer) /\ (u.e[p].timer <=> s.e[p].timer)
    /\ u.e[val].buff = y /\ u.e[p].buff = s.e[p].buff
    /\ u.e[val].round_sent = s.e[val].round_sent /\ u.e[val].part_sent = s.e[val].part_sent
    /\ u.e[p].round_count = s.e[p].round_count
    /\ s.e[val].round_sent > 0 =>
         /\ u.e[val].round_count = s.e[val].round_count
         /\ u.e[p].round_sent = s.e[p].round_sent /\ u.e[p].part_sent = s.e[p].part_sent
    /\ ~(s.e[val].round_sent > 0) =>
         /\ u.e[val].round_count = Min2(s.e[val].round_count + 1, 2)
         /\ u.e[p].round_sent = 0 /\ u.e[p].part_sent = 0

\* Writing round_count changes nothing else of an eval.
LEMMA SetCountIs ==
  ASSUME NEW v \in EvalT, NEW n \in 0..2
  PROVE  /\ SetCount(v, n) \in EvalT /\ SetCount(v, n).round_count = n /\ SamePeer(SetCount(v, n), v)
         /\ (SetCount(v, n).out <=> v.out) /\ SetCount(v, n).buff = v.buff
         /\ SetCount(v, n).round_sent = v.round_sent /\ SetCount(v, n).part_sent = v.part_sent
         /\ (SetCount(v, n).timer <=> v.timer)
<1>1. SetCount(v, n) \in EvalT /\ SamePeer(SetCount(v, n), v)
  BY DEF SetCount, EvalT, SamePeer
<1> QED BY <1>1 DEF SetCount, EvalT

\* tcp_recv_hook().
LEMMA ReadIs ==
  ASSUME NEW s \in StateT, NEW val \in Slots, NEW p \in Slots, val # p, s.e[val].pair = p,
         NEW m, Drop(s.k[val].rx, m) \in Seq(Nat)
  PROVE  Read(s, tcp_recv_hook(s, val, m), val, p, m, s.e[val].buff)
<1> DEFINE q == Drop(s.k[val].rx, m)
           l == SetRx(s.k[val], q)
           t == PutK(s, val, l)
           n == Min2(s.e[val].round_count + 1, 2)
           zero == 0
           v1 == SetCount(t.e[val], n)
           s1 == PutE(t, val, v1)
           v2 == SetSent(s1.e[p], zero)
           s2 == PutE(s1, p, v2)
           v3 == SetPart(s2.e[p], zero)
           s3 == PutE(s2, p, v3)
<1>1. /\ s.e[val] \in EvalT /\ s.e[p] \in EvalT /\ s.k[val] \in SockT
  BY StateIs
<1>2. l \in SockT
  BY <1>1, SetRxIs
<1> HIDE DEF l
<1>3. /\ t \in StateT /\ t.k[val] = l /\ t.k[p] = s.k[p] /\ t.b = s.b /\ t.e = s.e /\ t.w = s.w
      /\ t.h = s.h /\ t.x = s.x
  BY <1>2, PutKIs
<1>4. t = [s EXCEPT !.k[val].rx = Drop(@, m)]
  BY DEF PutK, SetRx, l
<1>5. tcp_recv_hook(s, val, m) =
        IF s.e[val].round_sent > 0 THEN t
        ELSE [t EXCEPT !.e[val].round_count = Min2(@ + 1, 2),
                       !.e[p].round_sent = 0, !.e[p].part_sent = 0]
  <2> HIDE DEF t
  <2> QED BY <1>4 DEF tcp_recv_hook
<1>6. CASE s.e[val].round_sent > 0
  <2>1. tcp_recv_hook(s, val, m) = t
    BY <1>5, <1>6
  <2> HIDE DEF t
  <2>2. Read(s, t, val, p, m, s.e[val].buff)
    <3>1. SamePeer(t.e[val], s.e[val]) /\ SamePeer(t.e[p], s.e[p])
      BY <1>3 DEF SamePeer
    <3>2. SameOut(s, t, val) /\ SameOut(s, t, p)
      BY <1>3 DEF SameOut
    <3> QED BY <1>3, <1>6, <3>1, <3>2 DEF Read, l
  <2> QED BY <2>1, <2>2
<1>7. CASE ~(s.e[val].round_sent > 0)
  <2>1. tcp_recv_hook(s, val, m) = s3
    <3>1. s1 = [t EXCEPT !.e[val].round_count = Min2(@ + 1, 2)]
      <4> HIDE DEF t
      <4> QED BY <1>3 DEF PutE, SetCount
    <3>2. s2 = [s1 EXCEPT !.e[p].round_sent = 0]
      <4> HIDE DEF s1
      <4> QED BY DEF PutE, SetSent
    <3>3. s3 = [s2 EXCEPT !.e[p].part_sent = 0]
      <4> HIDE DEF s2
      <4> QED BY DEF PutE, SetPart
    <3>4. s3 = [t EXCEPT !.e[val].round_count = Min2(@ + 1, 2),
                         !.e[p].round_sent = 0, !.e[p].part_sent = 0]
      <4> HIDE DEF s1, s2, s3, t
      <4> QED BY ONLY <3>1, <3>2, <3>3, ZenonT(60)
    <3> HIDE DEF s3, t
    <3> QED BY <1>5, <1>7, <3>4
  <2>2. n \in 0..2 /\ zero \in Nat
    <3>1. s.e[val].round_count \in 0..2
      BY <1>1, EvalIs
    <3> QED BY <3>1 DEF Min2
  <2>3. t.e[val] \in EvalT
    BY <1>1, <1>3
  <2>20. n = Min2(s.e[val].round_count + 1, 2) /\ zero = 0
    OBVIOUS
  <2> HIDE DEF t, n, zero
  <2>4. /\ v1 \in EvalT /\ v1.round_count = n /\ SamePeer(v1, t.e[val]) /\ (v1.out <=> t.e[val].out)
        /\ v1.buff = t.e[val].buff /\ v1.round_sent = t.e[val].round_sent
        /\ v1.part_sent = t.e[val].part_sent /\ (v1.timer <=> t.e[val].timer)
    <3> DEFINE y == t.e[val]
    <3>1. y \in EvalT /\ v1 = SetCount(y, n)
      BY <2>3
    <3> HIDE DEF y, v1
    <3>2. /\ v1 \in EvalT /\ v1.round_count = n /\ SamePeer(v1, y) /\ (v1.out <=> y.out)
          /\ v1.buff = y.buff /\ v1.round_sent = y.round_sent
          /\ v1.part_sent = y.part_sent /\ (v1.timer <=> y.timer)
      BY ONLY <2>2, <3>1, SetCountIs
    <3> QED BY <3>2 DEF y
  <2> HIDE DEF v1
  <2>5. /\ s1 \in StateT /\ s1.e[val] = v1 /\ s1.e[p] = t.e[p] /\ s1.k = t.k /\ s1.b = t.b
        /\ s1.w = t.w /\ s1.h = t.h /\ s1.x = t.x
    BY <1>3, <2>4, PutEIs
  <2> HIDE DEF s1
  <2>6. /\ v2 \in EvalT /\ v2.round_sent = zero /\ SameTalk(v2, s.e[p]) /\ (v2.out <=> s.e[p].out)
        /\ v2.buff = s.e[p].buff /\ (v2.timer <=> s.e[p].timer)
    <3> DEFINE y == s.e[p]
    <3>1. y \in EvalT /\ v2 = SetSent(y, zero)
      BY <1>1, <1>3, <2>5
    <3> HIDE DEF y, v2
    <3>2. /\ v2 \in EvalT /\ v2.round_sent = zero /\ SameTalk(v2, y) /\ (v2.out <=> y.out)
          /\ v2.buff = y.buff /\ (v2.timer <=> y.timer)
      BY ONLY <2>2, <3>1, SetSentIs
    <3> QED BY <3>2 DEF y
  <2> HIDE DEF v2
  <2>7. /\ s2 \in StateT /\ s2.e[val] = v1 /\ s2.e[p] = v2 /\ s2.k = t.k /\ s2.b = t.b
        /\ s2.w = t.w /\ s2.h = t.h /\ s2.x = t.x
    BY <2>5, <2>6, PutEIs
  <2> HIDE DEF s2
  <2>8. /\ v3 \in EvalT /\ v3.part_sent = zero /\ SameTalk(v3, v2) /\ (v3.out <=> v2.out)
        /\ v3.buff = v2.buff /\ v3.round_sent = v2.round_sent /\ (v3.timer <=> v2.timer)
    <3>1. v2 \in EvalT /\ v3 = SetPart(v2, zero)
      BY <2>6, <2>7
    <3> HIDE DEF v3
    <3> QED BY ONLY <2>2, <3>1, SetPartIs
  <2> HIDE DEF v3
  <2>9. /\ s3 \in StateT /\ s3.e[val] = v1 /\ s3.e[p] = v3 /\ s3.k = t.k /\ s3.b = t.b
        /\ s3.w = t.w /\ s3.h = t.h /\ s3.x = t.x
    BY <2>7, <2>8, PutEIs
  <2> HIDE DEF s3
  <2>10. Read(s, s3, val, p, m, s.e[val].buff)
    <3>1. SamePeer(s3.e[val], s.e[val])
      BY <1>3, <2>4, <2>9
    <3>2. SamePeer(s3.e[p], s.e[p])
      BY <2>6, <2>8, <2>9 DEF SamePeer, SameTalk
    <3>3. SameOut(s, s3, val) /\ SameOut(s, s3, p)
      BY <1>3, <2>4, <2>6, <2>8, <2>9 DEF SameOut
    <3>4. (s3.e[val].timer <=> s.e[val].timer) /\ (s3.e[p].timer <=> s.e[p].timer)
      BY <1>3, <2>4, <2>6, <2>8, <2>9
    <3>5. /\ s3 \in StateT /\ s3.k[val] = SetRx(s.k[val], Drop(s.k[val].rx, m)) /\ s3.k[p] = s.k[p]
          /\ s3.b = s.b /\ s3.w = s.w /\ s3.h = s.h /\ s3.x = s.x
      BY <1>3, <2>9 DEF l
    <3>6. /\ s3.e[val].buff = s.e[val].buff /\ s3.e[p].buff = s.e[p].buff
          /\ s3.e[val].round_sent = s.e[val].round_sent /\ s3.e[val].part_sent = s.e[val].part_sent
          /\ s3.e[val].round_count = Min2(s.e[val].round_count + 1, 2)
          /\ s3.e[p].round_sent = 0 /\ s3.e[p].part_sent = 0
      BY <1>3, <2>20, <2>4, <2>6, <2>8, <2>9
    <3>7. s3.e[p].round_count = s.e[p].round_count
      BY <2>6, <2>8, <2>9 DEF SameTalk
    <3> QED BY ONLY <1>7, <3>1, <3>2, <3>3, <3>4, <3>5, <3>6, <3>7 DEF Read
  <2> QED BY <2>1, <2>10
<1> QED BY <1>6, <1>7

\* The chunk is kept in val's buffer.
LEMMA ReadBuff ==
  ASSUME NEW s, NEW u, NEW val \in Slots, NEW p \in Slots, val # p, NEW m, NEW y,
         Read(s, u, val, p, m, y), NEW z \in BuffT
  PROVE  Read(s, PutE(u, val, SetBuff(u.e[val], z)), val, p, m, z)
<1> DEFINE w == u.e[val]
           v == SetBuff(w, z)
           t == PutE(u, val, v)
<1>1. u \in StateT
  BY DEF Read
<1>2. w \in EvalT /\ w = u.e[val]
  BY <1>1, StateIs
<1> HIDE DEF w
<1>4. /\ v \in EvalT /\ v.buff = z /\ SameTalk(v, w) /\ (v.out <=> w.out)
      /\ v.round_sent = w.round_sent /\ v.part_sent = w.part_sent /\ (v.timer <=> w.timer)
  BY ONLY <1>2, z \in BuffT, SetBuffIs
<1> HIDE DEF v
<1>5. /\ t \in StateT /\ t.e[val] = v /\ t.e[p] = u.e[p] /\ t.b = u.b /\ t.k = u.k /\ t.w = u.w
      /\ t.h = u.h /\ t.x = u.x
  BY <1>1, <1>4, PutEIs
<1> HIDE DEF t
<1>6. SamePeer(v, s.e[val]) /\ v.round_count = w.round_count
  BY <1>2, <1>4 DEF Read, SamePeer, SameTalk
<1>7. SameOut(s, t, val) /\ SameOut(s, t, p)
  BY <1>2, <1>4, <1>5 DEF SameOut, Read
<1>8. (t.e[val].timer <=> s.e[val].timer) /\ (t.e[p].timer <=> s.e[p].timer)
  BY <1>2, <1>4, <1>5 DEF Read
<1>9. Read(s, t, val, p, m, z)
  BY <1>2, <1>4, <1>5, <1>6, <1>7, <1>8 DEF Read
<1> QED BY <1>2, <1>9 DEF t, v

\* A chunk that was just read.
NewChunk(rx, m) == [data |-> Take(rx, m), offset |-> 0, waited |-> FALSE]

\* The bytes read, and those left.
LEMMA ReadBytes ==
  ASSUME NEW rx \in Seq(Byte), NEW m \in Nat, m <= Len(rx), NEW n \in Nat,
         Counts(rx, n - Len(rx))
  PROVE  /\ Take(rx, m) \in Seq(Byte) /\ Len(Take(rx, m)) = m
         /\ Drop(rx, m) \in Seq(Byte) /\ Len(Drop(rx, m)) = Len(rx) - m
         /\ Counts(Drop(rx, m), n - Len(Drop(rx, m)))
         /\ m > 0 => Take(rx, m)[1] = n - Len(rx) + 1
<1> DEFINE z == Len(rx)
           a == n - z
           zero == 0
<1>1. z \in Nat /\ m <= z /\ z <= Len(rx) /\ a \in Int /\ zero \in Nat /\ zero <= m /\ m <= Len(rx)
  BY LenProperties
<1>2. Take(rx, m) = Sub(rx, zero, m) /\ Drop(rx, m) = Sub(rx, m, z)
  BY TakeDrop
<1>3. Counts(rx, a)
  OBVIOUS
<1>30. zero = 0 /\ a = n - z
  OBVIOUS
<1> HIDE DEF z, a, zero
<1>4. /\ Sub(rx, zero, m) \in Seq(Byte) /\ Len(Sub(rx, zero, m)) = m - zero
      /\ Counts(Sub(rx, zero, m), a + zero)
  BY ONLY <1>1, <1>3, m \in Nat, rx \in Seq(Byte), CountsSub
<1>5. /\ Sub(rx, m, z) \in Seq(Byte) /\ Len(Sub(rx, m, z)) = z - m /\ Counts(Sub(rx, m, z), a + m)
  BY ONLY <1>1, <1>3, m \in Nat, rx \in Seq(Byte), CountsSub
<1>6. a + m = n - (z - m) /\ a + zero = a /\ m - zero = m
  BY <1>1, <1>30
<1>7. m > 0 => Take(rx, m)[1] = a + 1
  <2> HAVE m > 0
  <2>1. 1 \in 1..Len(Sub(rx, zero, m))
    BY <1>4, <1>6
  <2>2. Sub(rx, zero, m)[1] = a + zero + 1
    BY <1>4, <2>1 DEF Counts
  <2> QED BY <1>1, <1>2, <1>6, <2>2
<1>8. Take(rx, m) \in Seq(Byte) /\ Len(Take(rx, m)) = m
  BY <1>2, <1>4, <1>6
<1>9. Drop(rx, m) \in Seq(Byte) /\ Len(Drop(rx, m)) = z - m /\ Counts(Drop(rx, m), n - Len(Drop(rx, m)))
  BY <1>2, <1>5, <1>6
<1> QED BY <1>7, <1>8, <1>9, <1>30 DEF z

\* The account of the source after the read.
LEMMA ReadAccount ==
  ASSUME NEW v, NEW k \in SockT, NEW n \in Nat, Account(v, k, n), v.buff = NoBuff, v.round_sent \in Nat,
         NEW m \in Nat, m > 0, m <= BufSize, m <= Len(k.rx),
         NEW w, w.buff = NewChunk(k.rx, m), w.round_sent = v.round_sent
  PROVE  /\ NewChunk(k.rx, m) \in BuffT /\ Holds(w) /\ SetRx(k, Drop(k.rx, m)) \in SockT
         /\ Account(w, SetRx(k, Drop(k.rx, m)), n) /\ Rest(w.buff) = Drop(Take(k.rx, m), 0)
<1> DEFINE y == NewChunk(k.rx, m)
           q == Drop(k.rx, m)
           d == Take(k.rx, m)
<1>1. k.rx \in Seq(Byte) /\ Counts(k.rx, n - Len(k.rx))
      /\ v.round_sent + Len(Rest(v.buff)) + Len(k.rx) <= n
  BY DEF Account
<1>2. /\ d \in Seq(Byte) /\ Len(d) = m /\ q \in Seq(Byte) /\ Len(q) = Len(k.rx) - m
      /\ Counts(q, n - Len(q))
  BY <1>1, ReadBytes
<1> HIDE DEF d, q
<1>3. y = [data |-> d, offset |-> 0, waited |-> FALSE]
  BY DEF NewChunk, d
<1> HIDE DEF y
<1>4. y \in BuffT /\ y.data = d /\ y.offset = 0
  BY <1>2, <1>3 DEF BuffT
<1>5. d # <<>>
  BY <1>2, EmptySeq
<1>6. Chunk(y)
  BY <1>2, <1>4, <1>5 DEF Chunk
<1>7. Len(Rest(y)) = m /\ Rest(y) = Drop(d, 0)
  BY <1>2, <1>4, <1>6, RestOf DEF Rest
<1>8. Len(Rest(v.buff)) = 0
  <2>1. Rest(NoBuff) = <<>>
    BY NoneIs, RestOf DEF Chunk
  <2> QED BY <2>1
<1>9. q \in Seq(Nat)
  BY <1>2, BytesAreNat
<1>10. SetRx(k, q) \in SockT /\ SetRx(k, q).rx = q
  BY <1>9, SetRxIs
<1>11. w.buff = y
  BY DEF y
<1>12. w.round_sent + Len(Rest(y)) + Len(q) <= n
  <2> DEFINE a == v.round_sent
             b == Len(k.rx)
             e == Len(q)
             l == Len(Rest(y))
             o == Len(Rest(v.buff))
  <2>1. a \in Nat /\ b \in Nat /\ m \in Nat /\ e = b - m /\ l = m /\ o = 0 /\ a + o + b <= n /\ n \in Nat
    BY <1>1, <1>2, <1>7, <1>8, LenProperties
  <2> HIDE DEF a, b, e, l, o
  <2>2. a + l + e <= n
    BY ONLY <2>1
  <2> QED BY <2>2 DEF a, e, l
<1>13. Account(w, SetRx(k, q), n)
  BY <1>2, <1>6, <1>10, <1>11, <1>12 DEF Account
<1>14. Holds(w)
  BY <1>4, <1>5, <1>11 DEF Holds
<1> QED BY <1>4, <1>7, <1>10, <1>11, <1>13, <1>14 DEF y, q, d

\* The account of the other direction, whose round may begin anew.
LEMMA OtherAccount ==
  ASSUME NEW v, NEW k, NEW n \in Nat, Account(v, k, n), NEW w, w.buff = v.buff, v.round_sent \in Nat,
         v.buff \in BuffT, w.round_sent \in {0, v.round_sent}
  PROVE  Account(w, k, n)
<1>1. /\ Chunk(v.buff) /\ k.rx \in Seq(Byte) /\ Counts(k.rx, n - Len(k.rx))
      /\ v.round_sent + Len(Rest(v.buff)) + Len(k.rx) <= n
  BY DEF Account
<1> DEFINE a == v.round_sent
           b == w.round_sent
           c == Len(Rest(v.buff))
           d == Len(k.rx)
<1>2. a \in Nat /\ b \in {0, a} /\ c \in Nat /\ d \in Nat /\ a + c + d <= n
  BY <1>1, RestOf, LenProperties
<1> HIDE DEF a, b, c, d
<1>3. b + c + d <= n
  BY ONLY <1>2, n \in Nat
<1> QED BY <1>1, <1>3 DEF Account, b, c, d

\* Of a chunk that was just read, the send reads nothing but what it is given.
LEMMA HookSame ==
  ASSUME NEW s, NEW t, NEW i, NEW data, NEW off, NEW notsent, NEW c,
         s.e[i].pair = c, t.e[i].pair = c, t.k[i] = s.k[i], t.e[i].flag = s.e[i].flag,
         t.e[c].round_count = s.e[c].round_count, t.e[c].round_sent = s.e[c].round_sent,
         t.e[c].part_sent = s.e[c].part_sent
  PROVE  tcp_send_hook(s, i, data, off, notsent) = tcp_send_hook(t, i, data, off, notsent)
BY DEF tcp_send_hook

\* Nor does its outcome depend on what val's buffer held.
LEMMA AfterRead ==
  ASSUME NEW s, NEW t, NEW u, NEW val, NEW p, NEW x, NEW off, NEW f, NEW g,
         After(s, u, val, p, x, off, f, g),
         t.k = s.k, t.b = s.b, t.w = s.w, t.x = s.x, t.h = s.h, t.e[p] = s.e[p],
         SameTalk(t.e[val], s.e[val]), t.e[val].round_sent = s.e[val].round_sent,
         t.e[val].timer <=> s.e[val].timer
  PROVE  After(t, u, val, p, x, off, f, g)
<1>1. SameTalk(u.e[val], t.e[val])
  BY DEF After, SameTalk
<1>2. u.e[val].timer <=> t.e[val].timer
  BY DEF After
<1> QED BY <1>1, <1>2 DEF After

\* The client's bytes are read: a chunk that is about to be sent.
LEMMA ReadUp ==
  ASSUME parts \in Configs, NEW s \in StateT, NEW c \in Slots, NEW r \in Slots, c # r,
         Relay(parts, s, c, r), s.e[c].buff = NoBuff,
         NEW m \in Nat, m > 0, m <= BufSize, m <= Len(s.k[c].rx),
         NEW u, Read(s, u, c, r, m, NewChunk(s.k[c].rx, m))
  PROVE  Sending(parts, u, c, r) /\ Holds(u.e[c])
<1> DEFINE rx == s.k[c].rx
           y == NewChunk(rx, m)
           d == Take(rx, m)
           l == SetRx(s.k[c], Drop(rx, m))
<1>1. /\ s.e[c] \in EvalT /\ s.e[r] \in EvalT /\ s.k[c] \in SockT /\ s.k[r] \in SockT /\ s.w \in NetT
  BY StateIs
<1>2. /\ s.e[c].round_sent \in Nat /\ s.e[c].part_sent \in Nat /\ s.e[r].round_sent \in Nat
      /\ s.e[r].buff \in BuffT /\ s.e[c].round_count \in 0..2
  BY <1>1, EvalIs
<1>3. /\ Ends(s, c, r) /\ Queued(s.k[c]) /\ Queued(s.k[r])
      /\ Account(s.e[c], s.k[c], s.w.up) /\ Account(s.e[r], s.k[r], s.w.down)
      /\ Down(s, c, r) /\ Up(s, c, r) /\ Parts(parts, s, c, r)
  BY DEF Relay
<1>4. /\ u \in StateT /\ u.k[c] = l /\ u.k[r] = s.k[r] /\ u.w = s.w /\ u.h = s.h
      /\ SamePeer(u.e[c], s.e[c]) /\ SamePeer(u.e[r], s.e[r])
      /\ u.e[c].buff = y /\ u.e[r].buff = s.e[r].buff
      /\ u.e[c].round_sent = s.e[c].round_sent /\ u.e[c].part_sent = s.e[c].part_sent
      /\ s.e[c].round_sent > 0 =>
           /\ u.e[c].round_count = s.e[c].round_count
           /\ u.e[r].round_sent = s.e[r].round_sent /\ u.e[r].part_sent = s.e[r].part_sent
      /\ ~(s.e[c].round_sent > 0) =>
           /\ u.e[c].round_count = Min2(s.e[c].round_count + 1, 2)
           /\ u.e[r].round_sent = 0 /\ u.e[r].part_sent = 0
  BY DEF Read
<1>5. (u.e[c].timer <=> s.e[c].timer) /\ (u.e[r].timer <=> s.e[r].timer)
  BY DEF Read
<1>6. s.w.up \in Nat /\ s.w.down \in Nat /\ s.w.sgot \in Seq(Byte)
  BY <1>1, NetIs
<1>7. /\ y \in BuffT /\ Holds(u.e[c]) /\ l \in SockT /\ Account(u.e[c], l, s.w.up)
      /\ Rest(u.e[c].buff) = Drop(d, 0)
  <2>1. /\ s.k[c] \in SockT /\ s.w.up \in Nat /\ Account(s.e[c], s.k[c], s.w.up)
        /\ s.e[c].buff = NoBuff /\ s.e[c].round_sent \in Nat
        /\ m \in Nat /\ m > 0 /\ m <= BufSize /\ m <= Len(s.k[c].rx)
        /\ u.e[c].buff = NewChunk(s.k[c].rx, m) /\ u.e[c].round_sent = s.e[c].round_sent
    BY <1>1, <1>2, <1>3, <1>4, <1>6
  <2> QED BY ONLY <2>1, ReadAccount
<1>8. rx \in Seq(Byte) /\ Counts(rx, s.w.up - Len(rx))
      /\ s.e[c].round_sent + Len(Rest(s.e[c].buff)) + Len(rx) <= s.w.up
  BY <1>3 DEF Account
<1>9. /\ d \in Seq(Byte) /\ Len(d) = m /\ Drop(rx, m) \in Seq(Byte)
      /\ d[1] = s.w.up - Len(rx) + 1
  BY <1>6, <1>8, ReadBytes
<1>10. /\ l.rx = Drop(rx, m) /\ l.st = s.k[c].st /\ l.eof = s.k[c].eof /\ l.err = s.k[c].err
       /\ l.tx = s.k[c].tx /\ l.unsent = s.k[c].unsent /\ l.low = s.k[c].low
       /\ l.linger = s.k[c].linger
  <2>1. Drop(rx, m) \in Seq(Nat)
    BY <1>9, BytesAreNat
  <2> QED BY <1>1, <2>1, SetRxIs
<1>11. y.data = d /\ y.offset = 0
  BY DEF NewChunk
<1> HIDE DEF l, y, d
<1>12. Ends(u, c, r)
  <2>1. /\ u.e[c].live /\ u.e[c].cb = "on_tunnel" /\ u.e[c].flag = "S5" /\ u.e[c].pair = r
        /\ u.e[r].live /\ u.e[r].cb = "on_tunnel" /\ u.e[r].flag = "CONN" /\ u.e[r].pair = c
    BY <1>3, <1>4 DEF Ends, SamePeer
  <2>2. /\ u.k[c].st = "up" /\ u.k[r].st = "up" /\ ~u.k[c].linger /\ ~u.k[r].linger
        /\ ~u.k[c].low /\ u.k[c].unsent = 0
    BY <1>3, <1>4, <1>10 DEF Ends
  <2>3. ~u.e[c].timer /\ ~u.e[r].buff.waited
    BY <1>3, <1>4, <1>5 DEF Ends
  <2>4. u.e[r].part_sent = 0
    BY <1>3, <1>4 DEF Ends
  <2>5. (u.k[r].err => "server_reset" \in u.h) /\ (u.k[r].eof => "server_closed" \in u.h)
    BY <1>3, <1>4 DEF Ends
  <2> QED BY <2>1, <2>2, <2>3, <2>4, <2>5 DEF Ends
<1>13. Queued(u.k[c]) /\ Queued(u.k[r])
  BY <1>3, <1>4, <1>10 DEF Queued
<1>14. Account(u.e[c], u.k[c], u.w.up)
  BY <1>4, <1>7
<1>15. Account(u.e[r], u.k[r], u.w.down)
  <2>1. u.e[r].round_sent \in {0, s.e[r].round_sent}
    BY <1>4
  <2> QED BY <1>2, <1>3, <1>4, <1>6, <2>1, OtherAccount
<1>16. Down(u, c, r)
  BY <1>3, <1>4, <1>10 DEF Down
<1>17. Up(u, c, r)
  <2>1. SUFFICES ASSUME u.h \cap LostUp = {}
                 PROVE  /\ Partly(u.w.sgot, u.w.up)
                        /\ ~u.k[r].err => Flow(u.w.sgot, u.k[r].tx, Rest(u.e[c].buff), u.k[c].rx, u.w.up)
    BY DEF Up
  <2>2. Partly(s.w.sgot, s.w.up)
        /\ (~s.k[r].err => Flow(s.w.sgot, s.k[r].tx, Rest(s.e[c].buff), rx, s.w.up))
    BY <1>3, <1>4, <2>1 DEF Up
  <2>3. ASSUME ~s.k[r].err
        PROVE  Flow(s.w.sgot, s.k[r].tx, Drop(d, 0), Drop(rx, m), s.w.up)
    <3>1. Rest(s.e[c].buff) = <<>>
      BY NoneIs, RestOf DEF Chunk
    <3>2. Flow(s.w.sgot, s.k[r].tx, Rest(s.e[c].buff), rx, s.w.up)
      BY <2>2, <2>3
    <3>3. s.k[r].tx \in Seq(Byte)
      BY <1>1, SockIs
    <3> QED BY <1>6, <1>8, <3>1, <3>2, <3>3, FlowRead DEF d
  <2> QED BY <1>4, <1>7, <1>10, <2>2, <2>3
<1>18. ~s.k[r].low
  BY <1>3, NoneIs DEF Parts, Holds
<1>19. First(u, c) => First(s, c)
  <2> DEFINE a == s.e[c].round_count
             b == u.e[c].round_count
  <2>1. a \in 0..2 /\ (b = a \/ b = Min2(a + 1, 2))
    BY <1>2, <1>4
  <2> HIDE DEF a, b
  <2>2. b <= 1 => a <= 1
    BY <2>1 DEF Min2
  <2> QED BY <2>2 DEF First, a, b
<1>20. ASSUME First(u, c), parts # <<>>
       PROVE  \/ Position(parts, d) < 0
              \/ 0 <= Position(parts, d)
                 /\ (s.e[c].part_sent = Len(parts) \/ s.e[c].round_sent = 0)
  <2>1. \/ s.e[c].part_sent = Len(parts) \/ s.e[c].round_sent = 0 \/ parts[1].at = "sni"
    BY <1>3, <1>19, <1>20, NoneIs DEF Parts, Holds
  <2>2. d # <<>>
    BY <1>9, EmptySeq
  <2>3. Position(parts, d) \in Int
        /\ (parts[1].at = "sni" /\ d[1] # 1 => Position(parts, d) < 0)
    BY <1>9, <1>20, <2>2, PositionIs
  <2>4. s.e[c].round_sent = 0 \/ d[1] # 1
    <3> DEFINE a == s.e[c].round_sent
               b == Len(rx)
               n == s.w.up
               e == Len(Rest(s.e[c].buff))
               z == d[1]
    <3>1. e \in Nat
      BY NoneIs, RestOf, LenProperties DEF Chunk
    <3>2. a \in Nat /\ b \in Nat /\ n \in Nat /\ a + e + b <= n /\ z = n - b + 1
      BY <1>2, <1>6, <1>8, <1>9, LenProperties
    <3> HIDE DEF a, b, n, e, z
    <3>3. a = 0 \/ z # 1
      BY ONLY <3>1, <3>2
    <3> QED BY <3>3 DEF a, z
  <2> DEFINE p == Position(parts, d)
  <2> HIDE DEF p
  <2>5. p < 0 \/ 0 <= p
    BY <2>3 DEF p
  <2> QED BY <2>1, <2>3, <2>4, <2>5 DEF p
<1>21. Parts(parts, u, c, r)
  <2>1. u.e[c].part_sent <= Len(parts)
    BY <1>3, <1>4 DEF Parts
  <2>2. ~u.k[r].low
    BY <1>4, <1>18
  <2>3. ASSUME First(u, c), parts # <<>>
        PROVE  \/ Position(parts, u.e[c].buff.data) < 0
               \/ /\ u.e[c].buff.offset <= Position(parts, u.e[c].buff.data)
                  /\ u.e[c].part_sent = Len(parts) \/ InParts(parts, u.e[c])
    BY <1>4, <1>11, <1>20, <2>3 DEF InParts
  <2> QED BY <1>7, <2>1, <2>2, <2>3 DEF Parts
<1>22. u.e[c].buff.offset = 0
  BY <1>4, <1>11
<1> QED BY <1>7, <1>12, <1>13, <1>14, <1>15, <1>16, <1>17, <1>21, <1>22 DEF Sending

\* The server's bytes are read, and the client's next round begins.
LEMMA ReadDown ==
  ASSUME NEW pp \in Configs, NEW s \in StateT, NEW c \in Slots, NEW r \in Slots, c # r,
         Relay(pp, s, c, r), s.e[r].buff = NoBuff,
         NEW m \in Nat, m > 0, m <= BufSize, m <= Len(s.k[r].rx),
         NEW u, Read(s, u, r, c, m, NewChunk(s.k[r].rx, m))
  PROVE  Relay(pp, u, c, r) /\ Holds(u.e[r])
<1> DEFINE rx == s.k[r].rx
           y == NewChunk(rx, m)
           d == Take(rx, m)
           l == SetRx(s.k[r], Drop(rx, m))
<1>1. /\ s.e[c] \in EvalT /\ s.e[r] \in EvalT /\ s.k[c] \in SockT /\ s.k[r] \in SockT /\ s.w \in NetT
  BY StateIs
<1>2. /\ s.e[r].round_sent \in Nat /\ s.e[c].part_sent \in Nat /\ s.e[c].round_sent \in Nat
      /\ s.e[c].buff \in BuffT
  BY <1>1, EvalIs
<1>3. /\ Ends(s, c, r) /\ Queued(s.k[c]) /\ Queued(s.k[r])
      /\ Account(s.e[c], s.k[c], s.w.up) /\ Account(s.e[r], s.k[r], s.w.down)
      /\ Down(s, c, r) /\ Up(s, c, r) /\ Parts(pp, s, c, r) /\ PartDone(pp, s, c)
  BY DEF Relay
<1>4. /\ u \in StateT /\ u.k[r] = l /\ u.k[c] = s.k[c] /\ u.w = s.w /\ u.h = s.h
      /\ SamePeer(u.e[r], s.e[r]) /\ SamePeer(u.e[c], s.e[c])
      /\ u.e[r].buff = y /\ u.e[c].buff = s.e[c].buff
      /\ u.e[r].round_sent = s.e[r].round_sent /\ u.e[r].part_sent = s.e[r].part_sent
      /\ u.e[c].round_count = s.e[c].round_count
      /\ \/ u.e[c].round_sent = s.e[c].round_sent /\ u.e[c].part_sent = s.e[c].part_sent
         \/ u.e[c].round_sent = 0 /\ u.e[c].part_sent = 0
  BY DEF Read
<1>5. (u.e[c].timer <=> s.e[c].timer) /\ (u.e[r].timer <=> s.e[r].timer)
  BY DEF Read
<1>6. s.w.up \in Nat /\ s.w.down \in Nat /\ s.w.agot \in Seq(Byte)
  BY <1>1, NetIs
<1>7. /\ y \in BuffT /\ Holds(u.e[r]) /\ l \in SockT /\ Account(u.e[r], l, s.w.down)
      /\ Rest(u.e[r].buff) = Drop(d, 0)
  <2>1. /\ s.k[r] \in SockT /\ s.w.down \in Nat /\ Account(s.e[r], s.k[r], s.w.down)
        /\ s.e[r].buff = NoBuff /\ s.e[r].round_sent \in Nat
        /\ m \in Nat /\ m > 0 /\ m <= BufSize /\ m <= Len(s.k[r].rx)
        /\ u.e[r].buff = NewChunk(s.k[r].rx, m) /\ u.e[r].round_sent = s.e[r].round_sent
    BY <1>1, <1>2, <1>3, <1>4, <1>6
  <2> QED BY ONLY <2>1, ReadAccount
<1>8. rx \in Seq(Byte) /\ Counts(rx, s.w.down - Len(rx))
  BY <1>3 DEF Account
<1>9. Drop(rx, m) \in Seq(Byte)
  BY <1>6, <1>8, ReadBytes
<1>10. /\ l.rx = Drop(rx, m) /\ l.st = s.k[r].st /\ l.eof = s.k[r].eof /\ l.err = s.k[r].err
       /\ l.tx = s.k[r].tx /\ l.unsent = s.k[r].unsent /\ l.low = s.k[r].low
       /\ l.linger = s.k[r].linger
  <2>1. Drop(rx, m) \in Seq(Nat)
    BY <1>9, BytesAreNat
  <2> QED BY <1>1, <2>1, SetRxIs
<1>11. ~y.waited
  BY DEF NewChunk
<1> HIDE DEF l, y, d
<1>12. Ends(u, c, r)
  <2>1. /\ u.e[c].live /\ u.e[c].cb = "on_tunnel" /\ u.e[c].flag = "S5" /\ u.e[c].pair = r
        /\ u.e[r].live /\ u.e[r].cb = "on_tunnel" /\ u.e[r].flag = "CONN" /\ u.e[r].pair = c
    BY <1>3, <1>4 DEF Ends, SamePeer
  <2>2. /\ u.k[c].st = "up" /\ u.k[r].st = "up" /\ ~u.k[c].linger /\ ~u.k[r].linger
        /\ ~u.k[c].low /\ u.k[c].unsent = 0
    BY <1>3, <1>4, <1>10 DEF Ends
  <2>3. ~u.e[c].timer /\ ~u.e[r].buff.waited
    BY <1>3, <1>4, <1>5, <1>11 DEF Ends
  <2>4. u.e[r].part_sent = 0
    BY <1>3, <1>4 DEF Ends
  <2>5. (u.k[r].err => "server_reset" \in u.h) /\ (u.k[r].eof => "server_closed" \in u.h)
    BY <1>3, <1>4, <1>10 DEF Ends
  <2> QED BY <2>1, <2>2, <2>3, <2>4, <2>5 DEF Ends
<1>13. Queued(u.k[c]) /\ Queued(u.k[r])
  BY <1>3, <1>4, <1>10 DEF Queued
<1>14. Account(u.e[r], u.k[r], u.w.down)
  BY <1>4, <1>7
<1>15. Account(u.e[c], u.k[c], u.w.up)
  <2>1. u.e[c].round_sent \in {0, s.e[c].round_sent}
    BY <1>4
  <2> QED BY <1>2, <1>3, <1>4, <1>6, <2>1, OtherAccount
<1>16. Up(u, c, r)
  BY <1>3, <1>4, <1>10 DEF Up
<1>17. Down(u, c, r)
  <2>1. SUFFICES ASSUME ~u.k[c].err \/ "client_reset" \notin u.h
                 PROVE  Flow(u.w.agot, u.k[c].tx, Rest(u.e[r].buff), u.k[r].rx, u.w.down)
    BY <1>3, <1>4 DEF Down
  <2>2. Flow(s.w.agot, s.k[c].tx, Rest(s.e[r].buff), rx, s.w.down)
    BY <1>3, <1>4, <2>1 DEF Down
  <2>3. Rest(s.e[r].buff) = <<>>
    BY NoneIs, RestOf DEF Chunk
  <2>4. s.k[c].tx \in Seq(Byte)
    BY <1>1, SockIs
  <2>5. Flow(s.w.agot, s.k[c].tx, Drop(d, 0), Drop(rx, m), s.w.down)
    BY <1>6, <1>8, <2>2, <2>3, <2>4, FlowRead DEF d
  <2> QED BY <1>4, <1>7, <1>10, <2>5
<1>18. s.e[c].buff.offset \in Nat /\ Len(pp) \in Nat
  BY <1>2, BuffIs, SizesAssumption, LenProperties
<1>19. Parts(pp, u, c, r) /\ PartDone(pp, u, c)
  <2>1. /\ u.e[c].buff = s.e[c].buff /\ (Holds(u.e[c]) <=> Holds(s.e[c]))
        /\ (First(u, c) <=> First(s, c)) /\ (u.k[r].low <=> s.k[r].low) /\ u.h = s.h
    BY <1>4, <1>10 DEF Holds, First
  <2>2. CASE u.e[c].round_sent = s.e[c].round_sent /\ u.e[c].part_sent = s.e[c].part_sent
    BY <1>3, <2>1, <2>2 DEF Parts, PartDone, InParts
  <2>3. CASE u.e[c].round_sent = 0 /\ u.e[c].part_sent = 0
    <3>1. InParts(pp, u.e[c]) <=> s.e[c].buff.offset <= Position(pp, s.e[c].buff.data)
      BY <1>18, <2>1, <2>3 DEF InParts
    <3>2. u.e[c].part_sent <= Len(pp) /\ ~(u.e[c].part_sent > 0)
      BY <1>18, <2>3
    <3>3. u.k[r].low =>
            /\ Holds(u.e[c]) /\ First(u, c) /\ pp # <<>>
            /\ Position(pp, u.e[c].buff.data) >= 0 /\ InParts(pp, u.e[c])
      BY <1>3, <2>1, <3>1 DEF Parts, InParts
    <3>4. ASSUME First(u, c), Holds(u.e[c]), pp # <<>>
          PROVE  \/ Position(pp, u.e[c].buff.data) < 0
                 \/ /\ u.e[c].buff.offset <= Position(pp, u.e[c].buff.data)
                    /\ u.e[c].part_sent = Len(pp) \/ InParts(pp, u.e[c])
      BY <1>3, <2>1, <3>1, <3>4 DEF Parts
    <3>5. Parts(pp, u, c, r)
      BY <2>3, <3>2, <3>3, <3>4 DEF Parts
    <3>6. PartDone(pp, u, c)
      BY <3>2 DEF PartDone
    <3> QED BY <3>5, <3>6
  <2> QED BY <1>4, <2>2, <2>3
<1> QED BY <1>7, <1>12, <1>13, <1>14, <1>15, <1>16, <1>17, <1>19 DEF Relay

\* TunnelRead, by cases: what is read, the state after tcp_recv_hook(), and
\* the state in which a chunk is kept.
Input(val) == Take(sk[val].rx, Min2(BufSize, Len(sk[val].rx)))
Hooked(val) == tcp_recv_hook(Cur, val, Len(Input(val)))
ReadHeld(s, val, p, x, data) ==
    Crossed(mod_etype(mod_etype(
      [Sent(s, val, p, x, 0) EXCEPT !.e[val].buff = [data |-> data, offset |-> x.lp,
                                                     waited |-> x.wait]],
      val, FALSE), p, ~x.wait))
Reads(val, p, x) ==
    /\ Input(val) = <<>> =>
         /\ run' = NoRun
         /\ Become(IF sk[val].err THEN handle_err(Cur, val, run.s)
                   ELSE IF sk[val].eof THEN del_event(Cur, run.s) ELSE Cur)
    /\ Input(val) # <<>> /\ sk[p].err =>
         run' = NoRun /\ Become(handle_err(Hooked(val), p, run.s))
    /\ Input(val) # <<>> /\ ~sk[p].err /\ Unsent(x, Input(val)) =>
         run' = NoRun /\ Become(ReadHeld(Hooked(val), val, p, x, Input(val)))
    /\ Input(val) # <<>> /\ ~sk[p].err /\ ~Unsent(x, Input(val)) =>
         /\ run' \in {run, NoRun}
         /\ Become(Sent(Hooked(val), val, p, x, 0))

\* The outcomes of a turn of on_tunnel()'s reading loop.
LEMMA ReadForms ==
  ASSUME TunnelRead
  PROVE  \E notsent :
           Reads(run.val, ev[run.val].pair,
                 tcp_send_hook(Hooked(run.val), ev[run.val].pair, Input(run.val), 0, notsent))
<1> DEFINE val == run.val
           p == ev[val].pair
<1>1. PICK notsent \in NotSent(val) :
        LET data == Input(val)
            s    == Hooked(val)
            x    == tcp_send_hook(s, p, data, 0, notsent)
            t    == Sent(s, val, p, x, 0)
        IN  IF data = <<>>
              THEN /\ run' = NoRun
                   /\ Become(IF sk[val].err THEN handle_err(Cur, val, run.s)
                             ELSE IF sk[val].eof THEN del_event(Cur, run.s)
                             ELSE Cur)
            ELSE IF sk[p].err THEN run' = NoRun /\ Become(handle_err(s, p, run.s))
            ELSE IF x.lp < Len(data) \/ x.wait
              THEN run' = NoRun /\ Become(ReadHeld(s, val, p, x, data))
            ELSE /\ run' = IF Len(data) = BufSize THEN run ELSE NoRun
                 /\ Become(t)
  BY Zenon DEF TunnelRead, Input, Hooked, ReadHeld
<1> DEFINE x == tcp_send_hook(Hooked(val), p, Input(val), 0, notsent)
<1>2. Reads(val, p, x)
  BY <1>1 DEF Reads, Unsent
<1> QED BY <1>2

\* What is read.
LEMMA InputIs ==
  ASSUME NEW val, sk[val].rx \in Seq(Byte)
  PROVE  /\ Input(val) \in Seq(Byte) /\ Len(Input(val)) \in Nat
         /\ Len(Input(val)) <= BufSize /\ Len(Input(val)) <= Len(sk[val].rx)
         /\ Input(val) = Take(sk[val].rx, Len(Input(val)))
         /\ Input(val) = <<>> => sk[val].rx = <<>>
         /\ Input(val) # <<>> => Len(Input(val)) > 0
<1> DEFINE rx == sk[val].rx
           z == Len(rx)
           m == Min2(BufSize, z)
           zero == 0
<1>1. z \in Nat /\ BufSize \in Nat /\ BufSize > 0
  BY LenProperties, SizesAssumption
<1>2. m \in Nat /\ m <= BufSize /\ m <= z /\ (m = 0 => z = 0) /\ zero \in Nat /\ zero <= m /\ m - zero = m
  BY <1>1 DEF Min2
<1>3. Input(val) = Take(rx, m)
  BY DEF Input
<1>30. z = Len(rx) /\ zero = 0
  OBVIOUS
<1> HIDE DEF m, zero, z
<1>4. Take(rx, m) = Sub(rx, zero, m)
  BY <1>2, <1>30, TakeDrop
<1>5. Sub(rx, zero, m) \in Seq(Byte) /\ Len(Sub(rx, zero, m)) = m - zero
  BY <1>2, <1>30, SubIs
<1>6. Input(val) \in Seq(Byte) /\ Len(Input(val)) = m
  BY <1>2, <1>3, <1>4, <1>5
<1>7. Input(val) = <<>> => rx = <<>>
  <2> HAVE Input(val) = <<>>
  <2>1. m = 0
    BY <1>6
  <2> QED BY <1>2, <1>30, <2>1, EmptySeq
<1>8. Input(val) # <<>> => m > 0
  BY <1>2, <1>6, EmptySeq
<1> QED BY <1>2, <1>3, <1>6, <1>7, <1>8, <1>30 DEF z

\* Nothing was read: the connection has ended, or there is no more to read.
LEMMA ReadNothing ==
  ASSUME LoopInv, NEW c \in Slots, NEW r \in Slots, c # r, Tunnel(parts, Cur, run, c, r),
         run # NoRun, sk[run.val].rx = <<>>, NEW t, run' = NoRun,
         t = IF sk[run.val].err THEN handle_err(Cur, run.val, run.s)
             ELSE IF sk[run.val].eof THEN del_event(Cur, run.s) ELSE Cur
  PROVE  Good(parts, t, NoRun)
<1> DEFINE val == run.val
<1>1. Cur \in StateT /\ Cur.x = {} /\ Events(Cur)
  BY DEF LoopInv, Good
<1>2. run.s \in {c, r} /\ val \in {c, r} /\ ev[val].buff = NoBuff
  BY CurIs DEF Tunnel, Reading
<1>3. Relay(parts, Cur, c, r)
  BY DEF Tunnel
<1>4. (sk[r].err => "server_reset" \in causes) /\ (sk[r].eof => "server_closed" \in causes)
  BY <1>3, CurIs DEF Relay, Ends
<1>5. Early(sk[c], causes) => ev[c].buff = NoBuff /\ ev[r].buff = NoBuff /\ val = c
                             /\ sk[c].rx = <<>>
  <2> HAVE Early(sk[c], causes)
  <2>1. /\ sk[c].rx = <<>> /\ ev[c].buff = NoBuff /\ ev[r].buff = NoBuff
        /\ run = [s |-> c, val |-> c]
    BY CurIs DEF Tunnel, EarlyEnd
  <2> QED BY <2>1
<1>6. ASSUME sk[val].err \/ sk[val].eof
      PROVE  Paired(Cur, c, r) /\ Shut(Cur, c, r)
  <2>1. causes \subseteq {"server_closed"} \cup Lossy => ev[r].buff = NoBuff
    <3>1. CASE val = r
      BY <1>2, <3>1
    <3>2. CASE val = c /\ ~Early(sk[c], causes)
      <4>1. "client_reset" \in causes \/ "client_closed" \in causes
        BY <1>6, <3>2 DEF Early
      <4> QED BY <4>1 DEF Lossy
    <3> QED BY <1>2, <1>5, <3>1, <3>2
  <2>2. causes \subseteq {"client_closed"} \cup Stalls =>
          ev[c].buff = NoBuff /\ (sk[c].err => sk[c].rx = <<>>)
    <3>1. CASE val = c
      BY <1>2, <3>1
    <3>2. CASE val = r
      <4>1. "server_reset" \in causes \/ "server_closed" \in causes
        BY <1>4, <1>6, <3>2
      <4> QED BY <4>1 DEF Stalls
    <3> QED BY <1>2, <3>1, <3>2
  <2>3. /\ Cur.h \subseteq {"server_closed"} \cup Lossy => Cur.e[r].buff = NoBuff
        /\ Cur.h \subseteq {"client_closed"} \cup Stalls =>
             Cur.e[c].buff = NoBuff /\ (Cur.k[c].err => Cur.k[c].rx = <<>>)
    BY <2>1, <2>2, CurIs
  <2> QED BY ONLY <1>1, <1>3, <2>3, c \in Slots, r \in Slots, RelayShut
<1>7. CASE sk[val].err
  <2>1. t = handle_err(Cur, val, run.s)
    BY <1>7
  <2>2. val = r => "server_reset" \in Cur.h
    BY <1>4, <1>7, CurIs
  <2>3. Paired(Cur, c, r) /\ Shut(Cur, c, r)
    BY <1>6, <1>7
  <2> QED BY <1>1, <1>2, <2>1, <2>2, <2>3, ErrShut
<1>8. CASE ~sk[val].err /\ sk[val].eof
  <2>1. t = del_event(Cur, run.s)
    BY <1>8
  <2>3. Paired(Cur, c, r) /\ Shut(Cur, c, r)
    BY <1>6, <1>8
  <2> QED BY <1>1, <1>2, <2>1, <2>3, DelShut
<1>9. CASE ~sk[val].err /\ ~sk[val].eof
  <2>1. t = Cur
    BY <1>9
  <2>2. ~Early(sk[c], causes)
    BY <1>5, <1>9 DEF Early
  <2>3. EarlyEnd(Cur, NoRun, c, r)
    BY <2>2, CurIs DEF EarlyEnd
  <2>4. Reading(Cur, NoRun, c, r)
    BY DEF Reading
  <2>5. Tunnel(parts, Cur, NoRun, c, r)
    BY <2>3, <2>4 DEF Tunnel
  <2> QED BY <1>1, <2>1, <2>5 DEF Good
<1> QED BY <1>7, <1>8, <1>9

\* The chunk that is kept after a read.
Waits(data, x) == [data |-> data, offset |-> x.lp, waited |-> x.wait]

\* The state in which it is kept: both chunks are held only if that is recorded.
LEMMA ReadHeldIs ==
  ASSUME NEW s \in StateT, NEW val \in Slots, NEW p \in Slots, val # p, NEW x,
         x.k \in SockT, x.part \in Nat, x.wait \in BOOLEAN, x.why \subseteq Cause, x.lp \in Nat,
         s.e[val].round_sent + x.lp - 0 \in Nat, NEW data \in Seq(Byte)
  PROVE  \E g \in SUBSET Stalls :
           /\ After(s, ReadHeld(s, val, p, x, data), val, p, x, 0, Waits(data, x), g)
           /\ (ReadHeld(s, val, p, x, data).e[p].out <=> ~x.wait)
           /\ (\A i \in Slots : Holds(ReadHeld(s, val, p, x, data).e[i])) =>
                "crossed" \in ReadHeld(s, val, p, x, data).h
<1> DEFINE zero == 0
           no == FALSE
           o == ~x.wait
           none == {}
           one == {"crossed"}
           f == Waits(data, x)
           t == Sent(s, val, p, x, zero)
           t1 == [t EXCEPT !.e[val].buff = f]
           t2 == mod_etype(t1, val, no)
           t3 == mod_etype(t2, p, o)
           u == ReadHeld(s, val, p, x, data)
<1>1. u = Crossed(t3)
  BY DEF ReadHeld, Waits
<1>2. f \in BuffT
  BY DEF Waits, BuffT
<1>3. /\ no \in BOOLEAN /\ o \in BOOLEAN /\ none \subseteq Stalls /\ none \cup one \subseteq Stalls
      /\ one \in SUBSET Cause
  BY DEF Stalls, Cause
<1>4. "crossed" \in one /\ (o <=> ~x.wait) /\ zero = 0
  OBVIOUS
<1>5. s.e[val].round_sent + x.lp - zero \in Nat
  OBVIOUS
<1>6. Crossed(t3) = IF \A i \in Slots : Holds(t3.e[i]) THEN Because(t3, one) ELSE t3
  BY DEF Crossed, Holds
<1> HIDE DEF f, zero, no, o, none, one
<1>7. After(s, t, val, p, x, zero, s.e[val].buff, none)
  BY <1>5, SentIs DEF none
<1> HIDE DEF t
<1>8. After(s, t1, val, p, x, zero, f, none)
  BY <1>2, <1>7, AfterBuff
<1> HIDE DEF t1
<1>9. After(s, t2, val, p, x, zero, f, none)
  <2>1. val \in {val, p}
    OBVIOUS
  <2> QED BY <1>3, <1>8, <2>1, AfterOut
<1> HIDE DEF t2
<1>10. After(s, t3, val, p, x, zero, f, none) /\ (t3.e[p].out <=> o)
  <2>1. p \in {val, p}
    OBVIOUS
  <2> QED BY <1>3, <1>9, <2>1, AfterOut
<1> HIDE DEF t3, u
<1>11. CASE \A i \in Slots : Holds(t3.e[i])
  <2> DEFINE q == Because(t3, one)
  <2>1. u = q
    BY <1>1, <1>6, <1>11
  <2>2. After(s, q, val, p, x, zero, f, none \cup one) /\ SameOut(t3, q, p)
    BY <1>3, <1>10, AfterWhy
  <2> HIDE DEF q
  <2>3. "crossed" \in q.h
    BY <1>4, <2>2 DEF After
  <2>4. q.e[p].out <=> ~x.wait
    BY <1>4, <1>10, <2>2 DEF SameOut
  <2> QED BY <1>3, <1>4, <2>1, <2>2, <2>3, <2>4 DEF f, u
<1>12. CASE ~(\A i \in Slots : Holds(t3.e[i]))
  <2>1. u = t3
    BY <1>1, <1>6, <1>12
  <2> QED BY <1>3, <1>4, <1>10, <1>12, <2>1 DEF f, u
<1> QED BY <1>11, <1>12

\* The two ends of the tunnel as source and destination.
Ways(val, p, c, r) == (val = c /\ p = r) \/ (val = r /\ p = c)

\* Who ended early has nothing to be read.
LEMMA NotEarly ==
  ASSUME NEW pp, NEW s, NEW c, NEW r, NEW rn, Tunnel(pp, s, rn, c, r), rn # NoRun,
         s.k[rn.val].rx # <<>>
  PROVE  ~Early(s.k[c], s.h)
<1> SUFFICES ASSUME Early(s.k[c], s.h) PROVE FALSE
  OBVIOUS
<1>1. s.k[c].rx = <<>> /\ rn = [s |-> c, val |-> c]
  BY DEF Tunnel, EarlyEnd
<1> QED BY <1>1

\* The tunnel after a chunk was read and kept.
LEMMA TunnelHeld ==
  ASSUME NEW pp, NEW s, NEW u, NEW c, NEW r, NEW rn, Tunnel(pp, s, rn, c, r), rn # NoRun,
         NEW val, NEW p, Ways(val, p, c, r), rn.val = val, s.k[val].rx # <<>>,
         Relay(pp, u, c, r), Holds(u.e[val]), u.e[p].buff = s.e[p].buff,
         u.e[val].buff.waited => u.e[p].timer, ~u.e[val].buff.waited => u.e[p].out,
         Holds(u.e[c]) /\ Holds(u.e[r]) => u.h \cap Stalls # {},
         val = r => (u.e[r].timer <=> s.e[r].timer),
         s.h \subseteq u.h, u.k[c].err <=> s.k[c].err, u.k[c].eof <=> s.k[c].eof
  PROVE  Tunnel(pp, u, NoRun, c, r)
<1>1. Wakes(u, c, r) /\ Wakes(u, r, c)
  BY DEF Wakes, Ways, Holds
<1>2. TimerHolds(u, c, r)
  BY DEF Tunnel, TimerHolds, Ways, Holds
<1>3. ~Early(s.k[c], s.h)
  BY NotEarly
<1>4. EarlyEnd(u, NoRun, c, r)
  BY <1>3 DEF EarlyEnd, Early
<1>5. Reading(u, NoRun, c, r)
  BY DEF Reading
<1> QED BY <1>1, <1>2, <1>4, <1>5 DEF Tunnel

\* The tunnel after a chunk was read and sent as a whole.
LEMMA TunnelRest ==
  ASSUME NEW pp, NEW s, NEW u, NEW c, NEW r, NEW rn, Tunnel(pp, s, rn, c, r), rn # NoRun,
         NEW val, NEW p, Ways(val, p, c, r), rn.val = val, s.k[val].rx # <<>>,
         Relay(pp, u, c, r), u.e[val].buff = NoBuff, u.e[p].buff = s.e[p].buff,
         SameOut(s, u, val), u.e[val].timer <=> s.e[val].timer, u.e[p].timer <=> s.e[p].timer,
         s.h \subseteq u.h, u.k[c].err <=> s.k[c].err, u.k[c].eof <=> s.k[c].eof,
         NEW rm \in {rn, NoRun}
  PROVE  Tunnel(pp, u, rm, c, r)
<1>1. s.e[val].buff = NoBuff /\ ~Holds(u.e[val]) /\ ~Holds(s.e[val])
  BY NoneIs DEF Tunnel, Reading, Holds
<1>2. Wakes(u, val, p)
  BY <1>1 DEF Wakes
<1>3. Wakes(u, p, val)
  <2>1. Wakes(s, p, val)
    BY DEF Tunnel, Ways
  <2>2. Holds(u.e[p]) <=> Holds(s.e[p])
    BY DEF Holds
  <2>3. u.h \cap Stalls = {} => s.h \cap Stalls = {}
    OBVIOUS
  <2> QED BY <1>1, <2>1, <2>2, <2>3 DEF Wakes, SameOut
<1>4. Wakes(u, c, r) /\ Wakes(u, r, c)
  BY <1>2, <1>3 DEF Ways
<1>5. TimerHolds(u, c, r)
  BY <1>1 DEF Tunnel, TimerHolds, Ways, Holds
<1>6. ~Early(s.k[c], s.h)
  BY NotEarly
<1>7. EarlyEnd(u, rm, c, r)
  BY <1>6 DEF EarlyEnd, Early
<1>8. Reading(u, rm, c, r)
  BY DEF Tunnel, Reading
<1> QED BY <1>4, <1>5, <1>7, <1>8 DEF Tunnel

\* The state with the chunk that was read in val's buffer.
Loaded(val) ==
    PutE(Hooked(val), val,
         SetBuff(Hooked(val).e[val], NewChunk(sk[val].rx, Len(Input(val)))))

\* A chunk is read.
Chunks(val, p) ==
    /\ Len(Input(val)) \in Nat /\ Len(Input(val)) > 0 /\ Len(Input(val)) <= BufSize
    /\ Len(Input(val)) <= Len(Cur.k[val].rx) /\ Input(val) \in Seq(Byte)
    /\ Read(Cur, Hooked(val), val, p, Len(Input(val)), NoBuff)
    /\ Read(Cur, Loaded(val), val, p, Len(Input(val)), NewChunk(Cur.k[val].rx, Len(Input(val))))
    /\ Loaded(val).e[val].buff.data = Input(val) /\ Loaded(val).e[val].buff.offset = 0
    /\ Loaded(val).k = Hooked(val).k /\ Loaded(val).b = Hooked(val).b
    /\ Loaded(val).w = Hooked(val).w /\ Loaded(val).x = Hooked(val).x
    /\ Loaded(val).h = Hooked(val).h /\ Loaded(val).e[p] = Hooked(val).e[p]
    /\ SameTalk(Loaded(val).e[val], Hooked(val).e[val])
    /\ Loaded(val).e[val].round_sent = Hooked(val).e[val].round_sent
    /\ Loaded(val).e[val].part_sent = Hooked(val).e[val].part_sent
    /\ (Loaded(val).e[val].timer <=> Hooked(val).e[val].timer)

\* A chunk that was read extends what its direction has in flight by its bytes.
LEMMA ChunksIs ==
  ASSUME LoopInv, NEW c \in Slots, NEW r \in Slots, c # r, Tunnel(parts, Cur, run, c, r),
         run # NoRun, NEW val, NEW p, Ways(val, p, c, r), run.val = val, Input(val) # <<>>
  PROVE  Chunks(val, p)
<1> DEFINE rx == sk[val].rx
           d == Input(val)
           m == Len(d)
           s == Hooked(val)
           y == NewChunk(rx, m)
           v == SetBuff(s.e[val], y)
           t == Loaded(val)
<1>1. val \in Slots /\ p \in Slots /\ val # p /\ ev[val].pair = p /\ ev[val].buff = NoBuff
  BY CurIs DEF Ways, Tunnel, Relay, Ends, Reading
<1>2. PICK n \in Nat : rx \in Seq(Byte) /\ Counts(rx, n - Len(rx))
  <2>1. net.up \in Nat /\ net.down \in Nat
    BY VarsAre, NetIs
  <2>2. /\ sk[c].rx \in Seq(Byte) /\ Counts(sk[c].rx, net.up - Len(sk[c].rx))
        /\ sk[r].rx \in Seq(Byte) /\ Counts(sk[r].rx, net.down - Len(sk[r].rx))
    BY CurIs DEF Tunnel, Relay, Account
  <2>3. CASE val = c
    BY <2>1, <2>2, <2>3
  <2>4. CASE val = r
    BY <2>1, <2>2, <2>4
  <2> QED BY <2>3, <2>4 DEF Ways
<1>3. /\ d \in Seq(Byte) /\ m \in Nat /\ m <= BufSize /\ m <= Len(rx) /\ d = Take(rx, m) /\ m > 0
  BY <1>2, InputIs
<1>4. Drop(rx, m) \in Seq(Byte)
  <2> HIDE DEF m, rx
  <2> QED BY <1>2, <1>3, ReadBytes
<1>5. Drop(rx, m) \in Seq(Nat)
  BY <1>4, BytesAreNat
<1>6. Cur \in StateT /\ Cur.k = sk /\ Cur.e = ev
  BY CurIs DEF LoopInv, Good
<1>7. Read(Cur, s, val, p, m, NoBuff)
  <2>1. Cur.e[val].pair = p /\ Drop(Cur.k[val].rx, m) \in Seq(Nat) /\ Cur.e[val].buff = NoBuff
    BY <1>1, <1>5, <1>6
  <2>2. Read(Cur, tcp_recv_hook(Cur, val, m), val, p, m, Cur.e[val].buff)
    <3> HIDE DEF m
    <3> QED BY ONLY <1>1, <1>6, <2>1, ReadIs
  <2> QED BY <2>1, <2>2 DEF Hooked
<1>8. y \in BuffT /\ y.data = d /\ y.offset = 0
  BY <1>3 DEF NewChunk, BuffT
<1>9. t = PutE(s, val, v)
  BY DEF Loaded
<1>10. s \in StateT /\ s.e[val] \in EvalT
  <2>1. s \in StateT
    BY <1>7 DEF Read
  <2> HIDE DEF s
  <2> QED BY <1>1, <2>1, StateIs
<1> HIDE DEF s, y, m, d
<1>11. Read(Cur, t, val, p, m, y)
  BY <1>1, <1>7, <1>8, <1>9, ReadBuff
<1>12. /\ v \in EvalT /\ v.buff = y /\ SameTalk(v, s.e[val]) /\ v.round_sent = s.e[val].round_sent
       /\ v.part_sent = s.e[val].part_sent /\ (v.timer <=> s.e[val].timer)
  BY <1>8, <1>10, SetBuffIs
<1> HIDE DEF v, t
<1>13. /\ t.e[val] = v /\ t.e[p] = s.e[p] /\ t.b = s.b /\ t.k = s.k /\ t.w = s.w /\ t.h = s.h
       /\ t.x = s.x
  <2>1. s \in StateT /\ val \in Slots /\ v \in EvalT
    BY <1>1, <1>10, <1>12
  <2> DEFINE q == PutE(s, val, v)
  <2>2. /\ q.e[val] = v /\ \A j \in Slots : j # val => q.e[j] = s.e[j]
        /\ q.b = s.b /\ q.k = s.k /\ q.w = s.w /\ q.h = s.h /\ q.x = s.x
    BY ONLY <2>1, PutEIs
  <2> HIDE DEF q
  <2>3. t = q
    BY <1>9 DEF q
  <2> QED BY <1>1, <2>2, <2>3
<1>14. y = NewChunk(Cur.k[val].rx, m)
  BY <1>6 DEF y
<1>15. /\ m \in Nat /\ m > 0 /\ m <= BufSize /\ m <= Len(Cur.k[val].rx) /\ d \in Seq(Byte)
       /\ Read(Cur, s, val, p, m, NoBuff) /\ Read(Cur, t, val, p, m, NewChunk(Cur.k[val].rx, m))
       /\ t.e[val].buff.data = d /\ t.e[val].buff.offset = 0
  BY <1>3, <1>6, <1>7, <1>8, <1>11, <1>12, <1>13, <1>14
<1>16. /\ SameTalk(t.e[val], s.e[val])
       /\ t.e[val].round_sent = s.e[val].round_sent /\ t.e[val].part_sent = s.e[val].part_sent
       /\ (t.e[val].timer <=> s.e[val].timer)
  BY <1>12, <1>13
<1> QED BY <1>13, <1>15, <1>16 DEF Chunks, s, t, m, d

\* The chunk is sent as if it had been in the buffer.
LEMMA LoadedSent ==
  ASSUME NEW c, NEW r, NEW val, NEW p, Ways(val, p, c, r), Chunks(val, p), Ends(Cur, c, r),
         NEW notsent
  PROVE  /\ tcp_send_hook(Hooked(val), p, Input(val), 0, notsent)
              = tcp_send_hook(Loaded(val), p, Loaded(val).e[val].buff.data,
                              Loaded(val).e[val].buff.offset, notsent)
         /\ \A u, x, f, g :
              After(Hooked(val), u, val, p, x, 0, f, g) =>
                After(Loaded(val), u, val, p, x, Loaded(val).e[val].buff.offset, f, g)
<1> DEFINE s == Hooked(val)
           t == Loaded(val)
           d == Input(val)
           zero == 0
<1>1. /\ t.e[val].buff.data = d /\ t.e[val].buff.offset = zero
      /\ t.k = s.k /\ t.b = s.b /\ t.w = s.w /\ t.x = s.x /\ t.h = s.h /\ t.e[p] = s.e[p]
      /\ SameTalk(t.e[val], s.e[val]) /\ t.e[val].round_sent = s.e[val].round_sent
      /\ t.e[val].part_sent = s.e[val].part_sent /\ (t.e[val].timer <=> s.e[val].timer)
  BY DEF Chunks
<1>2. s.e[p].pair = val
  BY DEF Chunks, Read, SamePeer, Ends, Ways
<1>3. zero = 0
  OBVIOUS
<1> HIDE DEF s, t, d, zero
<1>4. /\ s.e[p].pair = val /\ t.e[p].pair = val /\ t.k[p] = s.k[p] /\ t.e[p].flag = s.e[p].flag
      /\ t.e[val].round_count = s.e[val].round_count /\ t.e[val].round_sent = s.e[val].round_sent
      /\ t.e[val].part_sent = s.e[val].part_sent
  BY <1>1, <1>2 DEF SameTalk
<1>5. tcp_send_hook(s, p, d, zero, notsent) = tcp_send_hook(t, p, d, zero, notsent)
  BY ONLY <1>4, HookSame
<1>6. ASSUME NEW u, NEW x, NEW f, NEW g, After(s, u, val, p, x, zero, f, g)
      PROVE  After(t, u, val, p, x, zero, f, g)
  BY ONLY <1>1, <1>6, AfterRead
<1> QED BY <1>1, <1>3, <1>5, <1>6 DEF s, t, d

\* The state after the read is a good one to send from.
LEMMA LoadedIs ==
  ASSUME LoopInv, NEW c \in Slots, NEW r \in Slots, c # r, NEW val, NEW p, Ways(val, p, c, r),
         Chunks(val, p)
  PROVE  /\ Loaded(val) \in StateT /\ Loaded(val).x = {} /\ Events(Loaded(val))
         /\ Hooked(val) \in StateT /\ Hooked(val).x = {} /\ Events(Hooked(val))
<1>1. Cur \in StateT /\ Cur.x = {} /\ Events(Cur)
  BY DEF LoopInv, Good
<1>2. \A i \in Slots : i = val \/ i = p
  BY OtherSlot DEF Ways
<1>3. ASSUME NEW u, NEW y, NEW m, Read(Cur, u, val, p, m, y)
      PROVE  u \in StateT /\ u.x = {} /\ Events(u)
  <2>1. u \in StateT /\ u.x = {} /\ u.b = Cur.b /\ \A i \in Slots : u.e[i].stamp = Cur.e[i].stamp
    BY <1>1, <1>2, <1>3 DEF Read, SamePeer
  <2> QED BY <1>1, <2>1 DEF Events
<1> QED BY <1>3 DEF Chunks

\* A chunk is read that cannot be sent: its destination has failed.
LEMMA ReadBroken ==
  ASSUME LoopInv, NEW c \in Slots, NEW r \in Slots, c # r, Tunnel(parts, Cur, run, c, r),
         run # NoRun, NEW val, NEW p, Ways(val, p, c, r), run.val = val, Input(val) # <<>>,
         Chunks(val, p), sk[p].err
  PROVE  Good(parts, handle_err(Hooked(val), p, run.s), NoRun)
<1> DEFINE s == Hooked(val)
           rx == Cur.k[val].rx
           m == Len(Input(val))
           l == SetRx(Cur.k[val], Drop(rx, m))
<1>1. s \in StateT /\ s.x = {} /\ Events(s)
  BY LoadedIs
<1>2. /\ s.k[val] = l /\ s.k[p] = Cur.k[p] /\ s.w = Cur.w /\ s.h = Cur.h
      /\ SamePeer(s.e[val], Cur.e[val]) /\ SamePeer(s.e[p], Cur.e[p])
      /\ s.e[val].buff = NoBuff /\ s.e[p].buff = Cur.e[p].buff
  BY DEF Chunks, Read
<1>3. /\ Ends(Cur, c, r) /\ Queued(Cur.k[c]) /\ Queued(Cur.k[r])
      /\ Account(Cur.e[c], Cur.k[c], Cur.w.up) /\ Account(Cur.e[r], Cur.k[r], Cur.w.down)
      /\ Down(Cur, c, r) /\ Up(Cur, c, r) /\ Parts(parts, Cur, c, r)
      /\ Cur.e[val].buff = NoBuff
  BY DEF Tunnel, Relay, Reading
<1>4. Drop(rx, m) \in Seq(Byte)
  <2>1. rx \in Seq(Byte) /\ m \in Nat /\ m <= Len(rx)
    BY <1>3 DEF Account, Ways, Chunks
  <2> DEFINE q == Len(rx)
  <2>2. q \in Nat /\ q = Len(rx)
    BY <2>1, LenProperties
  <2> HIDE DEF m, q, rx
  <2>3. m <= q /\ q <= Len(rx) /\ q - m \in Nat
    BY <2>1, <2>2
  <2>4. Drop(rx, m) = Sub(rx, m, q)
    BY <2>1, <2>2, <2>3, TakeDrop
  <2> QED BY <2>1, <2>2, <2>3, <2>4, SubIs
<1>5. /\ l \in SockT /\ l.rx = Drop(rx, m) /\ l.st = Cur.k[val].st /\ l.eof = Cur.k[val].eof
      /\ l.err = Cur.k[val].err /\ l.tx = Cur.k[val].tx /\ l.unsent = Cur.k[val].unsent
      /\ l.low = Cur.k[val].low /\ l.linger = Cur.k[val].linger
  <2>1. Drop(rx, m) \in Seq(Nat)
    BY <1>4, BytesAreNat
  <2>2. Cur.k[val] \in SockT
    BY StateIs DEF LoopInv, Good, Ways
  <2> HIDE DEF m, rx
  <2> QED BY ONLY <2>1, <2>2, SetRxIs DEF l
<1>6. ~Early(Cur.k[c], Cur.h)
  <2>1. Cur.k[run.val].rx # <<>>
    <3>1. m > 0 /\ m \in Nat /\ m <= Len(Cur.k[run.val].rx)
      BY DEF Chunks
    <3> QED BY <3>1, EmptySeq
  <2> QED BY <2>1, NotEarly
<1>7. run.s \in {c, r} /\ p \in {c, r}
  BY DEF Tunnel, Reading, Ways
<1>8. p = r => "server_reset" \in Cur.h
  BY <1>3, CurIs DEF Ends
<1>9. p = c => "client_reset" \in Cur.h
  BY <1>6, CurIs DEF Early
<1> HIDE DEF s, l, m, rx
<1>10. Paired(s, c, r)
  BY <1>2, <1>3 DEF Paired, SamePeer, Ends, Ways
<1>11. s.k[c].low \in BOOLEAN /\ s.k[r].linger \in BOOLEAN
  <2>1. s.k[c] \in SockT /\ s.k[r] \in SockT
    BY <1>1, StateIs
  <2> QED BY <2>1, SockIs
<1>12. /\ s.k[c].st = "up" /\ s.k[r].st = "up" /\ s.k[c].low = FALSE /\ s.k[r].linger = FALSE
       /\ s.k[c].linger \/ s.k[r].err => "server_reset" \in s.h
  BY <1>2, <1>3, <1>5, <1>11 DEF Ends, Ways
<1>13. Queued(s.k[c]) /\ Queued(s.k[r])
  BY <1>2, <1>3, <1>5 DEF Queued, Ways
<1>14. s.k[c].rx \in Seq(Byte) /\ s.k[r].rx \in Seq(Byte) /\ Chunk(s.e[c].buff) /\ Chunk(s.e[r].buff)
  BY <1>2, <1>3, <1>4, <1>5 DEF Account, Ways, Chunk
<1>15. Down(s, c, r)
  <2>1. CASE p = r
    BY <1>2, <1>3, <1>5, <2>1 DEF Down, Ways
  <2>2. CASE p = c
    BY <1>2, <1>3, <1>9, <2>2, CurIs DEF Down, Ways
  <2> QED BY <2>1, <2>2 DEF Ways
<1>16. Up(s, c, r)
  <2>1. CASE p = r
    BY <1>2, <1>3, <2>1, CurIs DEF Up, Ways
  <2>2. CASE p = c
    BY <1>2, <1>3, <1>5, <2>2 DEF Up, Ways
  <2> QED BY <2>1, <2>2 DEF Ways
<1>17. s.k[r].low => Holds(s.e[c])
  BY <1>2, <1>3, <1>5 DEF Parts, Ways, Holds
<1>18. ~(s.h \subseteq {"server_closed"} \cup Lossy) /\ ~(s.h \subseteq {"client_closed"} \cup Stalls)
  BY <1>2, <1>7, <1>8, <1>9 DEF Lossy, Stalls
<1>19. Shut(s, c, r)
  BY <1>12, <1>13, <1>14, <1>15, <1>16, <1>17, <1>18 DEF Shut
<1>20. p = r => "server_reset" \in s.h
  BY <1>2, <1>8
<1>21. Good(parts, handle_err(s, p, run.s), NoRun)
  BY ONLY <1>1, <1>7, <1>10, <1>19, <1>20, c \in Slots, r \in Slots, c # r, ErrShut
<1> QED BY <1>21 DEF s

\* The end of a read: the tunnel goes on.
LEMMA ReadEnds ==
  ASSUME LoopInv, NEW c \in Slots, NEW r \in Slots, c # r, Tunnel(parts, Cur, run, c, r),
         run # NoRun, NEW val, NEW p, Ways(val, p, c, r), run.val = val, Input(val) # <<>>,
         Chunks(val, p), ~sk[p].err, NEW x, Reads(val, p, x),
         x.k \in SockT, x.part \in Nat, x.wait \in BOOLEAN, x.why \subseteq Cause, x.lp \in Nat,
         val = r => ~x.wait, ~x.k.err, x.k.eof <=> sk[p].eof,
         \A u, f, g : /\ After(Loaded(val), u, val, p, x, Loaded(val).e[val].buff.offset, f, g)
                      /\ Kept(Loaded(val), val, x, f) /\ g \subseteq Stalls
                      /\ f.waited => x.wait
                      => Relay(parts, u, c, r),
         \A u, f, g : After(Hooked(val), u, val, p, x, 0, f, g) =>
                        After(Loaded(val), u, val, p, x, Loaded(val).e[val].buff.offset, f, g)
  PROVE  \E t : Become(t) /\ Good(parts, t, run')
<1> DEFINE s == Hooked(val)
           y == Loaded(val)
           d == Input(val)
           off == y.e[val].buff.offset
           zero == 0
           none == {}
<1>1. /\ s \in StateT /\ s.x = {} /\ Events(s) /\ y \in StateT /\ y.x = {} /\ Events(y)
  BY LoadedIs
<1>2. /\ val \in Slots /\ p \in Slots /\ val # p /\ c \in {val, p} /\ r \in {val, p}
  BY DEF Ways
<1>3. /\ s.e[val].round_sent \in Nat
  BY <1>1, <1>2, StateIs, EvalIs
<1>4. s.e[val].round_sent + x.lp - zero \in Nat
  <2> DEFINE a == s.e[val].round_sent
             b == x.lp
  <2>1. a \in Nat /\ b \in Nat
    BY <1>3
  <2> HIDE DEF a, b
  <2>2. a + b - zero \in Nat
    BY <2>1
  <2> QED BY <2>2 DEF a, b
<1>5. /\ s.k[val].err = sk[val].err /\ s.k[val].eof = sk[val].eof
      /\ s.h = causes /\ s.e[p].buff = ev[p].buff /\ s.e[val].buff = NoBuff
      /\ SameOut(Cur, s, val)
      /\ (s.e[val].timer <=> ev[val].timer) /\ (s.e[p].timer <=> ev[p].timer)
  <2> DEFINE q == Drop(Cur.k[val].rx, Len(Input(val)))
             l == SetRx(Cur.k[val], q)
  <2>1. /\ s.k[val] = l /\ s.h = causes /\ s.e[p].buff = ev[p].buff /\ s.e[val].buff = NoBuff
        /\ SameOut(Cur, s, val)
        /\ (s.e[val].timer <=> ev[val].timer) /\ (s.e[p].timer <=> ev[p].timer)
    BY CurIs DEF Chunks, Read
  <2>2. Cur.k[val] \in SockT
    BY <1>2, StateIs DEF LoopInv, Good
  <2>3. l.err = Cur.k[val].err /\ l.eof = Cur.k[val].eof
    BY <2>2 DEF SetRx, SockT
  <2> QED BY <2>1, <2>3, CurIs
<1>6. Cur.k[val].rx # <<>> /\ y.e[val].buff.data = d /\ d \in Seq(Byte)
  <2>1. Len(d) > 0 /\ Len(d) \in Nat /\ Len(d) <= Len(Cur.k[val].rx)
    BY DEF Chunks
  <2>2. Cur.k[val].rx # <<>>
    BY <2>1, EmptySeq
  <2> QED BY <2>2 DEF Chunks
<1>7. zero = 0 /\ none = {} /\ none \subseteq Stalls
  OBVIOUS
<1> HIDE DEF s, y, d, zero, none
<1>8. ASSUME NEW u, NEW f, NEW g, After(s, u, val, p, x, zero, f, g)
      PROVE  /\ After(y, u, val, p, x, off, f, g)
             /\ u.e[p].buff = Cur.e[p].buff /\ Cur.h \subseteq u.h
             /\ (u.e[val].timer <=> Cur.e[val].timer)
             /\ (u.e[p].timer <=> (Cur.e[p].timer \/ x.wait))
             /\ (u.k[c].err <=> Cur.k[c].err) /\ (u.k[c].eof <=> Cur.k[c].eof)
             /\ u.e[val].buff = f
  <2>1. After(y, u, val, p, x, off, f, g)
    BY <1>7, <1>8 DEF s, y
  <2>2. /\ u.e[p].buff = Cur.e[p].buff /\ Cur.h \subseteq u.h /\ u.e[val].buff = f
        /\ u.k[p] = x.k /\ u.k[val] = s.k[val]
    BY <1>5, <1>8, CurIs DEF After
  <2>3. (u.e[val].timer <=> Cur.e[val].timer) /\ (u.e[p].timer <=> (Cur.e[p].timer \/ x.wait))
    BY <1>5, <1>8, CurIs DEF After
  <2>4. (u.k[c].err <=> Cur.k[c].err) /\ (u.k[c].eof <=> Cur.k[c].eof)
    BY <1>5, <2>2, CurIs DEF Ways
  <2> QED BY <2>1, <2>2, <2>3, <2>4
<1>9. CASE Unsent(x, d)
  <2> DEFINE u == ReadHeld(s, val, p, x, d)
             f == Waits(d, x)
  <2>1. run' = NoRun /\ Become(u)
    BY <1>9 DEF Reads, s, d
  <2>2. PICK g \in SUBSET Stalls :
          /\ After(s, u, val, p, x, zero, f, g) /\ (u.e[p].out <=> ~x.wait)
          /\ (\A i \in Slots : Holds(u.e[i])) => "crossed" \in u.h
    BY <1>1, <1>2, <1>4, <1>6, <1>7, ReadHeldIs
  <2>3. f \in BuffT /\ f.data = d /\ f.offset = x.lp
    BY <1>6 DEF Waits, BuffT
  <2>4. f.waited <=> x.wait
    BY DEF Waits
  <2>5. Kept(y, val, x, f)
    BY <1>6, <1>9, <2>3 DEF Kept
  <2> HIDE DEF u, f
  <2>6. /\ After(y, u, val, p, x, off, f, g)
        /\ u.e[p].buff = Cur.e[p].buff /\ Cur.h \subseteq u.h
        /\ (u.e[val].timer <=> Cur.e[val].timer)
        /\ (u.e[p].timer <=> (Cur.e[p].timer \/ x.wait))
        /\ (u.k[c].err <=> Cur.k[c].err) /\ (u.k[c].eof <=> Cur.k[c].eof)
        /\ u.e[val].buff = f
    BY <2>2, <1>8
  <2>7. Relay(parts, u, c, r)
    <3>1. g \subseteq Stalls /\ (f.waited => x.wait)
      BY <2>2, <2>4
    <3> QED BY <2>5, <2>6, <3>1 DEF y
  <2>8. Tunnel(parts, u, NoRun, c, r)
    <3>1. Holds(u.e[val])
      BY <1>6, <2>3, <2>6 DEF Holds, d
    <3>2. (u.e[val].buff.waited => u.e[p].timer) /\ (~u.e[val].buff.waited => u.e[p].out)
      BY <2>2, <2>4, <2>6
    <3>3. Holds(u.e[c]) /\ Holds(u.e[r]) => u.h \cap Stalls # {}
      BY <2>2, OtherSlot DEF Stalls
    <3>4. val = r => (u.e[r].timer <=> Cur.e[r].timer)
      BY <2>6
    <3> QED BY <1>6, <2>6, <2>7, <3>1, <3>2, <3>3, <3>4, TunnelHeld
  <2>9. Good(parts, u, NoRun)
    BY <1>1, <1>2, <2>6, <2>8, TunnelGood
  <2> QED BY <2>1, <2>9
<1>10. CASE ~Unsent(x, d)
  <2> DEFINE u == Sent(s, val, p, x, zero)
             f == NoBuff
  <2>1. run' \in {run, NoRun} /\ Become(u)
    BY <1>10 DEF Reads, s, d, zero
  <2>2. After(s, u, val, p, x, zero, f, none) /\ SameOut(s, u, val)
    BY <1>1, <1>2, <1>4, <1>5, SentIs DEF none
  <2>3. Kept(y, val, x, f) /\ ~f.waited /\ ~x.wait
    BY <1>6, <1>10, NoneIs DEF Kept, Unsent
  <2>31. f = NoBuff
    OBVIOUS
  <2> HIDE DEF u, f
  <2>6. /\ After(y, u, val, p, x, off, f, none)
        /\ u.e[p].buff = Cur.e[p].buff /\ Cur.h \subseteq u.h
        /\ (u.e[val].timer <=> Cur.e[val].timer)
        /\ (u.e[p].timer <=> (Cur.e[p].timer \/ x.wait))
        /\ (u.k[c].err <=> Cur.k[c].err) /\ (u.k[c].eof <=> Cur.k[c].eof)
        /\ u.e[val].buff = f
    BY <2>2, <1>8
  <2>7. Relay(parts, u, c, r)
    BY <1>7, <2>3, <2>6 DEF y
  <2>8. Tunnel(parts, u, run', c, r)
    <3>1. SameOut(Cur, u, val)
      BY <1>5, <2>2 DEF SameOut
    <3>2. u.e[p].timer <=> Cur.e[p].timer
      BY <2>3, <2>6
    <3> QED BY <1>6, <2>1, <2>31, <2>6, <2>7, <3>1, <3>2, TunnelRest
  <2>9. Good(parts, u, run')
    BY <1>1, <1>2, <2>6, <2>8, TunnelGood
  <2> QED BY <2>1, <2>9
<1> QED BY <1>9, <1>10

\* A chunk of the client is read, and sent or kept.
LEMMA ReadSentUp ==
  ASSUME LoopInv, NEW c \in Slots, NEW r \in Slots, c # r, Tunnel(parts, Cur, run, c, r),
         run # NoRun, run.val = c, Input(c) # <<>>, Chunks(c, r), ~sk[r].err, NEW notsent,
         Reads(c, r, tcp_send_hook(Hooked(c), r, Input(c), 0, notsent))
  PROVE  \E t : Become(t) /\ Good(parts, t, run')
<1> DEFINE y == Loaded(c)
           m == Len(Input(c))
           x == tcp_send_hook(Hooked(c), r, Input(c), 0, notsent)
<1>1. Ways(c, r, c, r)
  BY DEF Ways
<1>2. Relay(parts, Cur, c, r) /\ Ends(Cur, c, r) /\ Cur.e[c].buff = NoBuff
  BY DEF Tunnel, Relay, Reading
<1>3. Cur \in StateT /\ parts \in Configs
  BY DEF LoopInv, Good
<1>4. Sending(parts, y, c, r) /\ Holds(y.e[c])
  <2>1. /\ m \in Nat /\ m > 0 /\ m <= BufSize /\ m <= Len(Cur.k[c].rx)
        /\ Read(Cur, y, c, r, m, NewChunk(Cur.k[c].rx, m))
    BY DEF Chunks
  <2> HIDE DEF m, y
  <2> QED BY <1>2, <1>3, <2>1, ReadUp
<1>5. y \in StateT /\ ~y.k[r].err /\ (y.k[r].eof <=> sk[r].eof)
  BY <1>1, LoadedIs, CurIs DEF Chunks, Read
<1>6. /\ x = tcp_send_hook(y, r, y.e[c].buff.data, y.e[c].buff.offset, notsent)
      /\ \A u, q, f, g :
           After(Hooked(c), u, c, r, q, 0, f, g) => After(y, u, c, r, q, y.e[c].buff.offset, f, g)
  BY <1>1, <1>2, LoadedSent
<1> HIDE DEF x, y
<1>7. Outcome(parts, y, c, r, x)
  BY <1>3, <1>4, <1>5, <1>6, HookUp
<1>8. /\ Fed(y.k[r], x.k) /\ x.lp \in Nat /\ x.part \in Nat /\ x.wait \in BOOLEAN
      /\ x.why \subseteq LostUp
  BY <1>7 DEF Outcome
<1>9. x.k \in SockT /\ x.why \subseteq Cause /\ ~x.k.err /\ (x.k.eof <=> sk[r].eof)
  <2>1. y.k[r] \in SockT
    BY <1>5, StateIs
  <2>2. x.k \in SockT /\ ~x.k.err /\ (x.k.eof <=> y.k[r].eof)
    BY <1>5, <1>8, <2>1, FedIs
  <2> QED BY <1>5, <1>8, <2>2 DEF LostUp, Cause
<1>10. ASSUME NEW u, NEW f, NEW g, After(y, u, c, r, x, y.e[c].buff.offset, f, g),
              Kept(y, c, x, f), g \subseteq Stalls
       PROVE  Relay(parts, u, c, r)
  BY <1>3, <1>4, <1>5, <1>7, <1>10, SentUp
<1>11. Reads(c, r, x)
  BY DEF x
<1> QED BY <1>1, <1>6, <1>8, <1>9, <1>10, <1>11, ReadEnds DEF y

\* A chunk of the server is read, and sent or kept.
LEMMA ReadSentDown ==
  ASSUME LoopInv, NEW c \in Slots, NEW r \in Slots, c # r, Tunnel(parts, Cur, run, c, r),
         run # NoRun, run.val = r, Input(r) # <<>>, Chunks(r, c), ~sk[c].err, NEW notsent,
         Reads(r, c, tcp_send_hook(Hooked(r), c, Input(r), 0, notsent))
  PROVE  \E t : Become(t) /\ Good(parts, t, run')
<1> DEFINE y == Loaded(r)
           m == Len(Input(r))
           x == tcp_send_hook(Hooked(r), c, Input(r), 0, notsent)
<1>1. Ways(r, c, c, r)
  BY DEF Ways
<1>2. Relay(parts, Cur, c, r) /\ Ends(Cur, c, r) /\ Cur.e[r].buff = NoBuff
  BY DEF Tunnel, Relay, Reading
<1>3. Cur \in StateT /\ parts \in Configs
  BY DEF LoopInv, Good
<1>4. Relay(parts, y, c, r) /\ Holds(y.e[r])
  <2>1. /\ m \in Nat /\ m > 0 /\ m <= BufSize /\ m <= Len(Cur.k[r].rx)
        /\ Read(Cur, y, r, c, m, NewChunk(Cur.k[r].rx, m))
    BY DEF Chunks
  <2> HIDE DEF m, y
  <2> QED BY <1>2, <1>3, <2>1, ReadDown
<1>5. y \in StateT /\ ~y.k[c].err /\ (y.k[c].eof <=> sk[c].eof)
  BY <1>1, LoadedIs, CurIs DEF Chunks, Read
<1>6. /\ x = tcp_send_hook(y, c, y.e[r].buff.data, y.e[r].buff.offset, notsent)
      /\ \A u, q, f, g :
           After(Hooked(r), u, r, c, q, 0, f, g) => After(y, u, r, c, q, y.e[r].buff.offset, f, g)
  BY <1>1, <1>2, LoadedSent
<1> HIDE DEF x, y
<1>7. /\ Plain(y.k[c], y.e[r].buff.data, y.e[r].buff.offset, x)
      /\ x.part = y.e[r].part_sent /\ x.k.unsent = y.k[c].unsent
  <2>1. SendsDown(y, c, r, x)
    BY <1>4, <1>5, <1>6, HookDown
  <2> QED BY <2>1 DEF SendsDown
<1>8. Fed(y.k[c], x.k) /\ x.lp \in Nat /\ x.why = {}
  BY <1>7 DEF Plain
<1>81. ~x.wait /\ x.wait \in BOOLEAN
  BY <1>7 DEF Plain
<1>9. x.k \in SockT /\ x.why \subseteq Cause /\ ~x.k.err /\ (x.k.eof <=> sk[c].eof) /\ x.part \in Nat
  <2>1. y.k[c] \in SockT
    BY <1>5, StateIs
  <2>2. x.k \in SockT /\ ~x.k.err /\ (x.k.eof <=> y.k[c].eof)
    BY <1>5, <1>8, <2>1, FedIs
  <2>3. y.e[r].part_sent = 0
    BY <1>4 DEF Relay, Ends
  <2> QED BY <1>5, <1>7, <1>8, <2>2, <2>3
<1>10. ASSUME NEW u, NEW f, NEW g, After(y, u, r, c, x, y.e[r].buff.offset, f, g),
              Kept(y, r, x, f), f.waited => x.wait
       PROVE  Relay(parts, u, c, r)
  <2>1. ~f.waited
    BY <1>81, <1>10
  <2> QED BY <1>4, <1>5, <1>7, <1>10, <2>1, SentDown
<1>11. Reads(r, c, x)
  BY DEF x
<1> QED BY <1>1, <1>6, <1>8, <1>81, <1>9, <1>10, <1>11, ReadEnds DEF y

\* The reading loop of on_tunnel().
LEMMA TunnelReadKeeps ==
  ASSUME LoopInv, TunnelRead
  PROVE  LoopInv'
<1>1. run # NoRun /\ UNCHANGED <<parts, brk>> /\ ~brk.set
  BY DEF TunnelRead, LoopInv
<1>2. PICK c \in Slots, r \in Slots : c # r /\ Tunnel(parts, Cur, run, c, r)
  BY <1>1, VarsAre
<1> DEFINE val == run.val
           p == ev[val].pair
<1>3. Ways(val, p, c, r)
  BY <1>1, <1>2, CurIs DEF Ways, Tunnel, Reading, Relay, Ends
<1>4. PICK notsent : Reads(val, p, tcp_send_hook(Hooked(val), p, Input(val), 0, notsent))
  BY ReadForms
<1>5. \E t : Become(t) /\ Good(parts, t, run')
  <2>1. CASE Input(val) = <<>>
    <3> DEFINE t == IF sk[val].err THEN handle_err(Cur, val, run.s)
                    ELSE IF sk[val].eof THEN del_event(Cur, run.s) ELSE Cur
    <3>1. run' = NoRun /\ Become(t)
      BY <1>4, <2>1 DEF Reads
    <3>2. sk[val].rx = <<>>
      <4>1. sk[val].rx \in Seq(Byte)
        BY <1>2, <1>3, CurIs DEF Tunnel, Relay, Account, Ways
      <4> QED BY <2>1, <4>1, InputIs
    <3>3. Good(parts, t, NoRun)
      BY <1>1, <1>2, <3>1, <3>2, ReadNothing
    <3> QED BY <3>1, <3>3
  <2>2. CASE Input(val) # <<>>
    <3>1. Chunks(val, p)
      BY <1>1, <1>2, <1>3, <2>2, ChunksIs
    <3>2. CASE sk[p].err
      <4>1. run' = NoRun /\ Become(handle_err(Hooked(val), p, run.s))
        BY <1>4, <2>2, <3>2 DEF Reads
      <4>2. Good(parts, handle_err(Hooked(val), p, run.s), NoRun)
        BY <1>1, <1>2, <1>3, <2>2, <3>1, <3>2, ReadBroken
      <4> QED BY <4>1, <4>2
    <3>3. CASE ~sk[p].err /\ val = c /\ p = r
      <4>1. /\ run.val = c /\ Input(c) # <<>> /\ Chunks(c, r) /\ ~sk[r].err
            /\ Reads(c, r, tcp_send_hook(Hooked(c), r, Input(c), 0, notsent))
        BY <1>4, <2>2, <3>1, <3>3
      <4> QED BY ONLY <1>1, <1>2, <4>1, LoopInv, ReadSentUp
    <3>4. CASE ~sk[p].err /\ val = r /\ p = c
      <4>1. /\ run.val = r /\ Input(r) # <<>> /\ Chunks(r, c) /\ ~sk[c].err
            /\ Reads(r, c, tcp_send_hook(Hooked(r), c, Input(r), 0, notsent))
        BY <1>4, <2>2, <3>1, <3>4
      <4> QED BY ONLY <1>1, <1>2, <4>1, LoopInv, ReadSentDown
    <3> QED BY <1>3, <3>2, <3>3, <3>4 DEF Ways
  <2> QED BY <2>1, <2>2
<1> QED BY <1>1, <1>5, HandlerStep

-----------------------------------------------------------------------------
(* The invariant holds.                                                    *)

\* The pool begins empty.
LEMMA LoopInit == Init => LoopInv
<1> HAVE Init
<1>1. /\ parts \in Configs /\ ev = [i \in Slots |-> NoEval] /\ batch = {} /\ run = NoRun
      /\ sk = [i \in Slots |-> NoSocket] /\ net = NoNet /\ causes = {} /\ faults = {}
      /\ brk = [set |-> FALSE, gone |-> FALSE]
  BY DEF Init
<1>2. Cur.e = ev /\ Cur.b = batch /\ Cur.k = sk /\ Cur.w = net /\ Cur.h = causes /\ Cur.x = faults
  BY CurIs
<1>3. Cur \in StateT
  <2>1. ev \in [Slots -> EvalT] /\ sk \in [Slots -> SockT] /\ net \in NetT
    BY <1>1, NoneIs
  <2>2. batch \in SUBSET EventT /\ causes \in SUBSET Cause /\ faults \in SUBSET Fault
    BY <1>1
  <2> QED BY <2>1, <2>2 DEF Cur, StateT
<1>4. IsFree(NoEval, NoSocket)
  BY DEF IsFree, Quiet, NoEval, NoSocket
<1>5. Loose(Cur)
  <2>1. \A i \in Slots : IsFree(Cur.e[i], Cur.k[i])
    BY <1>1, <1>2, <1>4
  <2>2. Final(Cur.w, Cur.h) /\ Cur.w = NoNet
    BY <1>1, <1>2, FinalNone
  <2> QED BY <2>1, <2>2 DEF Loose
<1>6. Events(Cur)
  BY <1>1, <1>2 DEF Events
<1>7. Good(parts, Cur, run)
  BY <1>1, <1>2, <1>3, <1>5, <1>6 DEF Good
<1>8. brk \in [set : BOOLEAN, gone : BOOLEAN] /\ ~brk.set
  BY <1>1
<1> QED BY <1>1, <1>7, <1>8 DEF LoopInv

\* Every step keeps it: one lemma for each action.
LEMMA LoopNext == LoopInv /\ [Next]_vars => LoopInv'
<1> SUFFICES ASSUME LoopInv, [Next]_vars PROVE LoopInv'
  OBVIOUS
<1>1. CASE Loop
  <2>1. CASE epoll_wait
    BY <2>1, WaitKeeps
  <2>2. CASE Skip
    BY <2>2, SkipKeeps
  <2>3. CASE Timeout
    BY <2>3, TimeoutKeeps
  <2>4. CASE on_accept
    BY <2>4, AcceptKeeps
  <2>5. CASE on_request
    BY <2>5, RequestKeeps
  <2>6. CASE on_connect
    BY <2>6, ConnectKeeps
  <2>7. CASE on_ignore
    BY <2>7, IgnoreKeeps
  <2>8. CASE on_tunnel
    BY <2>8, OnTunnelKeeps
  <2>9. CASE TunnelRead
    BY <2>9, TunnelReadKeeps
  <2>10. CASE destroy_pool
    BY <2>10, DestroyKeeps
  <2> QED BY <1>1, <2>1, <2>2, <2>3, <2>4, <2>5, <2>6, <2>7, <2>8, <2>9, <2>10 DEF Loop
<1>2. CASE ClientConnects
  BY <1>2, ClientConnectsKeeps
<1>3. CASE ClientSpeaks
  BY <1>3, ClientSpeaksKeeps
<1>4. CASE Connected
  BY <1>4, ConnectedKeeps
<1>5. CASE AppSends
  BY <1>5, AppSendsKeeps
<1>6. CASE ServerSends
  BY <1>6, ServerSendsKeeps
<1>7. CASE PeerCloses
  BY <1>7, PeerClosesKeeps
<1>8. CASE Transmit
  BY <1>8, TransmitKeeps
<1>9. CASE ServerReads
  BY <1>9, ServerReadsKeeps
<1>10. CASE AppReads
  BY <1>10, AppReadsKeeps
<1>11. CASE UNCHANGED vars
  <2>1. Cur' = Cur /\ parts' = parts /\ run' = run /\ brk' = brk
    BY <1>11 DEF vars, Cur
  <2> QED BY <2>1 DEF LoopInv
<1> QED BY <1>1, <1>2, <1>3, <1>4, <1>5, <1>6, <1>7, <1>8, <1>9, <1>10, <1>11 DEF Next

\* The event loop keeps its invariant: there is no connection, one that is
\* being joined, or a tunnel whose bytes are all accounted for.
THEOREM LoopSound == Spec => []LoopInv
BY LoopInit, LoopNext, PTL DEF Spec

-----------------------------------------------------------------------------
(* What follows from it.                                                   *)

\* An eval that is not in a tunnel holds nothing, and its socket is idle.
LEMMA PhasesAre ==
  ASSUME LoopInv
  PROVE  \/ /\ Loose(Cur) /\ run = NoRun
            /\ \A i \in Slots : Quiet(ev[i], sk[i]) /\ ev[i].pair = 0
         \/ /\ net = NoNet /\ run = NoRun
            /\ \A i \in Slots : Quiet(ev[i], sk[i]) /\ ev[i].pair # 0
            /\ \A i \in Slots : ev[i].cb # "on_tunnel"
         \/ \E c, r \in Slots : c # r /\ Tunnel(parts, Cur, run, c, r)
<1>1. CASE Loose(Cur) /\ run = NoRun
  BY <1>1, CurIs DEF Loose, IsFree, IsClient
<1>2. ASSUME NEW c \in Slots, NEW r \in Slots, c # r, Joining(Cur, c, r), run = NoRun
      PROVE  /\ net = NoNet
             /\ \A i \in Slots : Quiet(ev[i], sk[i]) /\ ev[i].pair # 0 /\ ev[i].cb # "on_tunnel"
  <2>1. /\ net = NoNet /\ Quiet(ev[c], sk[c]) /\ Quiet(ev[r], sk[r])
        /\ ev[c].pair = r /\ ev[r].pair = c /\ ev[c].cb = "on_ignore" /\ ev[r].cb = "on_connect"
    BY <1>2, CurIs DEF Joining
  <2> QED BY <1>2, <2>1, OtherSlot
<1> QED BY <1>1, <1>2, VarsAre

\* The counters and the chunk of one eval are within their bounds.
Bounded(v, k) ==
    /\ v.round_sent \in 0..(MaxUp + MaxDown) /\ v.part_sent \in 0..2 /\ v.buff.offset \in 0..BufSize
    /\ v.buff = NoBuff \/ v.buff.offset <= Len(v.buff.data)
    /\ k.unsent \in 0..Len(k.tx) /\ Len(k.tx) <= SndBuf

\* An idle eval is.
LEMMA QuietBounded ==
  ASSUME NEW v, NEW k, Quiet(v, k)
  PROVE  Bounded(v, k)
<1>1. MaxUp + MaxDown \in Nat /\ BufSize \in Nat /\ SndBuf \in Nat
  BY SizesAssumption
<1>2. Len(<<>>) = 0
  OBVIOUS
<1>3. v.buff = NoBuff /\ v.buff.offset = 0
  BY NoneIs DEF Quiet
<1>4. v.round_sent = 0 /\ v.part_sent = 0 /\ k.unsent = 0 /\ k.tx = <<>>
  BY DEF Quiet
<1> QED BY <1>1, <1>2, <1>3, <1>4 DEF Bounded

\* So is the source of a direction.
LEMMA AccountBounded ==
  ASSUME NEW v \in EvalT, NEW k \in SockT, NEW n \in Nat, n <= MaxUp + MaxDown, Account(v, k, n),
         Queued(k), v.part_sent <= 2
  PROVE  Bounded(v, k)
<1> DEFINE a == v.round_sent
           b == Len(Rest(v.buff))
           d == Len(k.rx)
           o == v.buff.offset
           z == Len(v.buff.data)
           q == Len(k.tx)
           e == k.unsent
           g == v.part_sent
<1>1. v.buff \in BuffT /\ a \in Nat /\ g \in Nat /\ g <= 2
  BY EvalIs
<1>2. o \in Nat /\ z \in Nat /\ q \in Nat /\ e \in Nat
  BY <1>1, BuffIs, SockIs
<1>3. Rest(v.buff) \in Seq(Byte) /\ b \in Nat /\ d \in Nat
  BY <1>1, RestOf, LenProperties DEF Account
<1>4. a + b + d <= n
  BY DEF Account
<1>5. v.buff = NoBuff \/ (z <= BufSize /\ o <= z)
  BY DEF Account, Chunk
<1>6. v.buff = NoBuff => o = 0
  BY NoneIs
<1>7. q <= SndBuf /\ e <= q
  BY DEF Queued
<1>8. MaxUp \in Nat /\ MaxDown \in Nat /\ BufSize \in Nat
  BY SizesAssumption
<1>9. v.buff = NoBuff \/ o <= z
  BY <1>5
<1>10. (z <= BufSize /\ o <= z) \/ o = 0
  BY <1>5, <1>6
<1> HIDE DEF a, b, d, o, z, q, e, g
<1>11. a \in 0..(MaxUp + MaxDown)
  BY ONLY <1>1, <1>3, <1>4, <1>8, n \in Nat, n <= MaxUp + MaxDown
<1>12. o \in 0..BufSize
  BY ONLY <1>2, <1>8, <1>10
<1>13. g \in 0..2 /\ e \in 0..q
  BY ONLY <1>1, <1>2, <1>7
<1> QED BY <1>7, <1>9, <1>11, <1>12, <1>13 DEF Bounded, a, o, z, q, e, g

\* Every eval is.
LEMMA AllBounded ==
  ASSUME LoopInv, NEW i \in Slots
  PROVE  Bounded(ev[i], sk[i])
<1>1. CASE \A j \in Slots : Quiet(ev[j], sk[j])
  BY <1>1, QuietBounded
<1>2. ASSUME NEW c \in Slots, NEW r \in Slots, c # r, Tunnel(parts, Cur, run, c, r)
      PROVE  Bounded(ev[c], sk[c]) /\ Bounded(ev[r], sk[r])
  <2>1. /\ Account(ev[c], sk[c], net.up) /\ Account(ev[r], sk[r], net.down)
        /\ Queued(sk[c]) /\ Queued(sk[r]) /\ ev[r].part_sent = 0 /\ ev[c].part_sent <= Len(parts)
    BY <1>2, CurIs DEF Tunnel, Relay, Ends, Parts
  <2>2. ev[c] \in EvalT /\ ev[r] \in EvalT /\ sk[c] \in SockT /\ sk[r] \in SockT /\ net \in NetT
    BY VarsAre
  <2>3. /\ net.up \in Nat /\ net.down \in Nat /\ net.up <= MaxUp + MaxDown
        /\ net.down <= MaxUp + MaxDown
    <3>1. net.up \in 0..MaxUp /\ net.down \in 0..MaxDown /\ MaxUp \in Nat /\ MaxDown \in Nat
      BY <2>2, NetIs
    <3> QED BY <3>1
  <2>4. ev[c].part_sent <= 2 /\ ev[r].part_sent <= 2
    <3>1. Len(parts) \in Nat /\ Len(parts) <= 2
      BY SizesAssumption, LenProperties DEF LoopInv
    <3>2. ev[c].part_sent \in Nat
      BY <2>2, EvalIs
    <3> QED BY <2>1, <3>1, <3>2
  <2> QED BY <2>1, <2>2, <2>3, <2>4, AccountBounded
<1> QED BY <1>1, <1>2, PhasesAre, OtherSlot

\* The types, with the bounds of the counters.
LEMMA LoopTypes == LoopInv => TypeOK
<1> HAVE LoopInv
<1>1. parts \in Configs
  BY DEF LoopInv
<1>2. ASSUME NEW i \in Slots
      PROVE  /\ ev[i] \in [live : BOOLEAN,
                   cb : {"none", "on_request", "on_ignore", "on_connect", "on_tunnel"},
                   flag : {"none", "S5", "CONN"}, pair : {0} \cup Slots, out : BOOLEAN,
                   buff : [data : Seq(1..(MaxUp + MaxDown)), offset : 0..BufSize, waited : BOOLEAN],
                   round_sent : 0..(MaxUp + MaxDown), round_count : 0..2,
                   part_sent : 0..2, timer : BOOLEAN, stamp : BOOLEAN]
             /\ sk[i].unsent \in 0..Len(sk[i].tx) /\ Len(sk[i].tx) <= SndBuf
             /\ ev[i].buff = NoBuff \/ ev[i].buff.offset <= Len(ev[i].buff.data)
  <2> DEFINE v == ev[i]
             f == v.buff
             OffT == 0..BufSize
             SentT == 0..(MaxUp + MaxDown)
             F == [data : Seq(Byte), offset : OffT, waited : BOOLEAN]
  <2>1. v \in EvalT /\ Bounded(v, sk[i])
    BY VarsAre, AllBounded
  <2>2. f \in BuffT /\ v.round_sent \in SentT /\ v.part_sent \in 0..2 /\ f.offset \in OffT
    BY <2>1, EvalIs DEF Bounded
  <2> HIDE DEF OffT, SentT
  <2>3. f \in F
    BY <2>2 DEF BuffT
  <2> HIDE DEF F
  <2>4. v \in [live : BOOLEAN,
               cb : {"none", "on_request", "on_ignore", "on_connect", "on_tunnel"},
               flag : {"none", "S5", "CONN"}, pair : {0} \cup Slots, out : BOOLEAN, buff : F,
               round_sent : SentT, round_count : 0..2, part_sent : 0..2, timer : BOOLEAN,
               stamp : BOOLEAN]
    BY <2>1, <2>2, <2>3 DEF EvalT
  <2> QED BY <2>1, <2>4 DEF Bounded, F, OffT, SentT, Byte
<1>3. run.s \in {0} \cup Slots /\ run.val \in {0} \cup Slots
  <2>1. CASE run = NoRun
    BY <2>1 DEF NoRun
  <2>2. ASSUME NEW c \in Slots, NEW r \in Slots, c # r, Tunnel(parts, Cur, run, c, r), run # NoRun
        PROVE  run.s \in Slots /\ run.val \in Slots
    BY <2>2 DEF Tunnel, Reading
  <2> QED BY <2>1, <2>2, PhasesAre
<1> QED BY <1>1, <1>2, <1>3 DEF TypeOK

\* The types of the event loop's state: queues within the kernel's buffer,
\* unsent bytes within the queue, offsets within the chunk, part_sent within
\* the part list.
THEOREM LoopTypeOK == Spec => []TypeOK
BY LoopSound, LoopTypes, PTL

\* No handler runs on an event of a deleted eval, none finds its pair gone, and
\* no timer fires without a chunk that waits for it.
THEOREM LoopEventsSound == Spec => []EventsSound
<1>1. LoopInv => EventsSound
  BY VarsAre DEF EventsSound
<1> QED BY <1>1, LoopSound, PTL

\* Bytes in order are the first bytes.
LEMMA PartlyPrefix ==
  ASSUME NEW q \in Seq(Byte), NEW n \in Nat, Partly(q, n)
  PROVE  Prefix(q, n) /\ (Len(q) = n => q = Bytes(n))
<1>1. q = Bytes(Len(q)) /\ Len(q) <= n
  BY CountsBytes DEF Partly
<1> QED BY <1>1 DEF Prefix

\* The client's bytes.
LEMMA LoopUp == LoopInv => UpIntact
<1> HAVE LoopInv
<1> SUFFICES ASSUME causes \cap LostUp = {}
             PROVE  /\ Prefix(net.sgot, net.up)
                    /\ \A c, r \in Slots :
                         (Open(c, r) /\ ~sk[r].err) =>
                           net.sgot \o sk[r].tx \o Left(c) \o sk[c].rx = Bytes(net.up)
                    /\ (Ended /\ causes \subseteq {"client_closed", "crossed", "blocked_after_wait"})
                         => net.sgot = Bytes(net.up)
  BY DEF UpIntact
<1>1. net \in NetT /\ net.sgot \in Seq(Byte) /\ net.up \in Nat
  BY VarsAre, NetIs
<1>2. Prefix(net.sgot, net.up)
  <2>1. Partly(net.sgot, net.up)
    <3>1. CASE Loose(Cur)
      BY <3>1, CurIs DEF Loose, Final
    <3>2. CASE net = NoNet
      <4>1. Final(net, causes)
        BY <3>2, FinalNone
      <4> QED BY <4>1 DEF Final
    <3>3. ASSUME NEW c \in Slots, NEW r \in Slots, Tunnel(parts, Cur, run, c, r)
          PROVE  Partly(net.sgot, net.up)
      BY <3>3, CurIs DEF Tunnel, Relay, Up
    <3> QED BY <3>1, <3>2, <3>3, PhasesAre
  <2> QED BY <1>1, <2>1, PartlyPrefix
<1>3. ASSUME NEW c \in Slots, NEW r \in Slots, Open(c, r), ~sk[r].err
      PROVE  net.sgot \o sk[r].tx \o Left(c) \o sk[c].rx = Bytes(net.up)
  <2>1. Tunnel(parts, Cur, run, c, r)
    BY <1>3, OpenIs
  <2>2. /\ Flow(net.sgot, sk[r].tx, Rest(ev[c].buff), sk[c].rx, net.up)
        /\ Account(ev[c], sk[c], net.up)
    BY <1>3, <2>1, CurIs DEF Tunnel, Relay, Up
  <2>3. ev[c] \in EvalT /\ sk[r] \in SockT
    BY VarsAre
  <2>4. sk[r].tx \in Seq(Byte) /\ Rest(ev[c].buff) \in Seq(Byte) /\ sk[c].rx \in Seq(Byte)
    BY <2>2, <2>3, EvalIs, SockIs, RestOf DEF Account
  <2>5. Left(c) = Rest(ev[c].buff)
    BY DEF Left, Rest
  <2> DEFINE got == net.sgot
             tx == sk[r].tx
             left == Rest(ev[c].buff)
             rx == sk[c].rx
             n == net.up
  <2>6. /\ got \in Seq(Byte) /\ tx \in Seq(Byte) /\ left \in Seq(Byte) /\ rx \in Seq(Byte)
        /\ n \in Nat /\ Flow(got, tx, left, rx, n)
    BY <1>1, <2>2, <2>4
  <2>7. net.sgot \o sk[r].tx \o Left(c) \o sk[c].rx = got \o tx \o left \o rx
    BY <2>5
  <2> HIDE DEF got, tx, left, rx, n
  <2>8. got \o tx \o left \o rx = Bytes(n)
    BY ONLY <2>6, FlowIs
  <2> QED BY <2>7, <2>8 DEF n
<1>4. ASSUME Ended, causes \subseteq {"client_closed", "crossed", "blocked_after_wait"}
      PROVE  net.sgot = Bytes(net.up)
  <2>1. Loose(Cur)
    <3>1. \A i \in Slots : ev[i].pair = 0
      BY <1>4 DEF Ended
    <3>2. \A c, r \in Slots : ~Tunnel(parts, Cur, run, c, r)
      BY <3>1, CurIs DEF Tunnel, Relay, Ends, Slots
    <3>3. 1 \in Slots
      BY DEF Slots
    <3> QED BY <3>1, <3>2, <3>3, PhasesAre
  <2>2. Whole(net.sgot, net.up)
    BY <1>4, <2>1, CurIs DEF Loose, Final
  <2>3. Counts(net.sgot, 0) /\ Len(net.sgot) = net.up
    BY <2>2 DEF Whole
  <2> QED BY <1>1, <2>3, CountsBytes
<1> QED BY <1>2, <1>3, <1>4

\* The server's bytes.
LEMMA LoopDown == LoopInv => DownIntact
<1> HAVE LoopInv
<1>1. net \in NetT /\ net.agot \in Seq(Byte) /\ net.down \in Nat
  BY VarsAre, NetIs
<1>2. Prefix(net.agot, net.down)
  <2>1. Partly(net.agot, net.down)
    <3>1. CASE Loose(Cur)
      BY <3>1, CurIs DEF Loose, Final
    <3>2. CASE net = NoNet
      <4>1. Final(net, causes)
        BY <3>2, FinalNone
      <4> QED BY <4>1 DEF Final
    <3>3. ASSUME NEW c \in Slots, NEW r \in Slots, Tunnel(parts, Cur, run, c, r)
          PROVE  Partly(net.agot, net.down)
      BY <3>3, CurIs DEF Tunnel, Relay, Down
    <3> QED BY <3>1, <3>2, <3>3, PhasesAre
  <2> QED BY <1>1, <2>1, PartlyPrefix
<1>3. ASSUME NEW c \in Slots, NEW r \in Slots, Open(c, r), ~sk[c].err
      PROVE  net.agot \o sk[c].tx \o Left(r) \o sk[r].rx = Bytes(net.down)
  <2>1. Tunnel(parts, Cur, run, c, r)
    BY <1>3, OpenIs
  <2>2. /\ Flow(net.agot, sk[c].tx, Rest(ev[r].buff), sk[r].rx, net.down)
        /\ Account(ev[r], sk[r], net.down)
    BY <1>3, <2>1, CurIs DEF Tunnel, Relay, Down
  <2>3. ev[r] \in EvalT /\ sk[c] \in SockT
    BY VarsAre
  <2>4. sk[c].tx \in Seq(Byte) /\ Rest(ev[r].buff) \in Seq(Byte) /\ sk[r].rx \in Seq(Byte)
    BY <2>2, <2>3, EvalIs, SockIs, RestOf DEF Account
  <2>5. Left(r) = Rest(ev[r].buff)
    BY DEF Left, Rest
  <2> DEFINE got == net.agot
             tx == sk[c].tx
             left == Rest(ev[r].buff)
             rx == sk[r].rx
             n == net.down
  <2>6. /\ got \in Seq(Byte) /\ tx \in Seq(Byte) /\ left \in Seq(Byte) /\ rx \in Seq(Byte)
        /\ n \in Nat /\ Flow(got, tx, left, rx, n)
    BY <1>1, <2>2, <2>4
  <2>7. net.agot \o sk[c].tx \o Left(r) \o sk[r].rx = got \o tx \o left \o rx
    BY <2>5
  <2> HIDE DEF got, tx, left, rx, n
  <2>8. got \o tx \o left \o rx = Bytes(n)
    BY ONLY <2>6, FlowIs
  <2> QED BY <2>7, <2>8 DEF n
<1>4. ASSUME Ended, causes \subseteq {"server_closed"} \cup Lossy
      PROVE  net.agot = Bytes(net.down)
  <2>1. Loose(Cur)
    <3>1. \A i \in Slots : ev[i].pair = 0
      BY <1>4 DEF Ended
    <3>2. \A c, r \in Slots : ~Tunnel(parts, Cur, run, c, r)
      BY <3>1, CurIs DEF Tunnel, Relay, Ends, Slots
    <3>3. 1 \in Slots
      BY DEF Slots
    <3> QED BY <3>1, <3>2, <3>3, PhasesAre
  <2>2. Whole(net.agot, net.down)
    BY <1>4, <2>1, CurIs DEF Loose, Final
  <2>3. Counts(net.agot, 0) /\ Len(net.agot) = net.down
    BY <2>2 DEF Whole
  <2> QED BY <1>1, <2>3, CountsBytes
<1> QED BY <1>2, <1>3, <1>4 DEF DownIntact

\* The server gets the application's bytes in order, each once, and all of them
\* when it is the application that closes, unless desync() counted bytes as
\* sent that the kernel did not take.
THEOREM LoopUpIntact == Spec => []UpIntact
BY LoopSound, LoopUp, PTL

\* The application gets the server's bytes in order, each once, and all of them
\* when it is the server that closes.
THEOREM LoopDownIntact == Spec => []DownIntact
BY LoopSound, LoopDown, PTL

\* A chunk that is held at the loop has POLLOUT of its destination.
LEMMA LoopWakes == LoopInv => WakeupPending
<1> HAVE LoopInv
<1> SUFFICES ASSUME AtLoop, NEW i \in Slots, Held(i), causes \cap Stalls = {}
             PROVE  ev[ev[i].pair].out
  BY DEF WakeupPending, Stalls
<1>1. Holds(ev[i]) /\ ev[i].buff # NoBuff
  BY NoneIs DEF Held, Holds
<1>2. PICK c \in Slots, r \in Slots : c # r /\ Tunnel(parts, Cur, run, c, r)
  BY <1>1, PhasesAre DEF Quiet
<1>3. Wakes(Cur, c, r) /\ Wakes(Cur, r, c) /\ ev[c].pair = r /\ ev[r].pair = c
  BY <1>2, CurIs DEF Tunnel, Relay, Ends
<1>4. ~ev[c].timer /\ ~ev[r].timer
  BY DEF AtLoop
<1>5. i = c \/ i = r
  BY <1>2, OtherSlot
<1> QED BY <1>1, <1>3, <1>4, <1>5, CurIs DEF Wakes

\* A held chunk has an event to come that makes on_tunnel() send it, unless
\* both directions held data or the chunk was refused after it had waited.
THEOREM LoopWakeupPending == Spec => []WakeupPending
BY LoopSound, LoopWakes, PTL

\* A short time to live is that of a socket whose source holds a chunk.
LEMMA LoopTtl == LoopInv => TtlRestored
<1> HAVE LoopInv
<1> SUFFICES ASSUME NEW i \in Slots, sk[i].low
             PROVE  ev[i].pair # 0 /\ Held(ev[i].pair)
  BY DEF TtlRestored
<1>1. PICK c \in Slots, r \in Slots : c # r /\ Tunnel(parts, Cur, run, c, r)
  BY PhasesAre DEF Quiet
<1>2. ~sk[c].low /\ (sk[r].low => Holds(ev[c])) /\ ev[r].pair = c
  BY <1>1, CurIs DEF Tunnel, Relay, Ends, Parts
<1>3. i = r /\ c # 0
  BY <1>1, <1>2, OtherSlot
<1> QED BY <1>2, <1>3 DEF Held, Holds

\* The short time to live of a disordered or fake part is in force only while
\* the rest of its chunk is held back.
THEOREM LoopTtlRestored == Spec => []TtlRestored
BY LoopSound, LoopTtl, PTL
=============================================================================
