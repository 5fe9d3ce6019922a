-------------------------- MODULE TcpClientProofs --------------------------
(***************************************************************************)
(* One TCP connection through tun2socks, for all sizes of the window, the  *)
(* send buffer and the receive buffer, all amounts of data and every       *)
(* interleaving of segments, callbacks, SOCKS events and failures: the     *)
(* handlers that move data keep the invariant of TcpClientInvariant, as do *)
(* those that end a connection, and with it everything TLC checks of       *)
(* TcpClient but ClientReleased, which needs fairness.                     *)
(***************************************************************************)
EXTENDS TcpClientInvariant

-----------------------------------------------------------------------------
(* Sequences of consecutive bytes.                                         *)

\* Concatenation and n elements after the x-th, as the sequence lemmas name them.
Cat(q, r) == q \o r
Part(q, x, n) == SubSeq(q, x + 1, x + n)

\* The bytes of a concatenation.
LEMMA CatIs ==
    ASSUME NEW S, NEW q \in Seq(S), NEW r \in Seq(S)
    PROVE  /\ q \o r \in Seq(S)
           /\ Size(q) \in Nat /\ Size(r) \in Nat
           /\ Size(q \o r) = Size(q) + Size(r)
           /\ \A n \in 1..Size(q) : (q \o r)[n] = q[n]
           /\ \A n \in (Size(q) + 1)..(Size(q) + Size(r)) : (q \o r)[n] = r[n - Size(q)]
  BY ConcatProperties, LenProperties DEF Size

\* Consecutive bytes, followed by the bytes that come next, are consecutive.
LEMMA CountsCat ==
    ASSUME NEW S, NEW q \in Seq(S), NEW r \in Seq(S), NEW m \in Int,
           Counts(q, m), Counts(r, m + Size(q)), NEW t, t = Cat(q, r)
    PROVE  t \in Seq(S) /\ Size(t) = Size(q) + Size(r) /\ Counts(t, m)
<1>1. /\ t \in Seq(S) /\ Size(q) \in Nat /\ Size(r) \in Nat
      /\ Size(t) = Size(q) + Size(r)
      /\ \A n \in 1..Size(q) : t[n] = q[n]
      /\ \A n \in (Size(q) + 1)..(Size(q) + Size(r)) : t[n] = r[n - Size(q)]
  BY CatIs DEF Cat
<1>2. ASSUME NEW j \in 1..Size(t) PROVE t[j] = m + j
  <2>1. CASE j <= Size(q)
    <3>1. j \in 1..Size(q)  BY <1>1, <2>1
    <3> QED BY <1>1, <3>1 DEF Counts
  <2>2. CASE j > Size(q)
    <3> DEFINE l == j - Size(q)
    <3>1. l \in 1..Size(r) /\ j \in (Size(q) + 1)..(Size(q) + Size(r))
      BY <1>1, <2>2
    <3>2. t[j] = r[l]  BY <1>1, <3>1
    <3>3. m + Size(q) + l = m + j  BY <1>1
    <3> HIDE DEF l
    <3>4. r[l] = m + Size(q) + l  BY <3>1 DEF Counts
    <3> QED BY <1>1, <3>1, <3>2, <3>3, <3>4
  <2> QED BY <1>1, <2>1, <2>2
<1> QED BY <1>1, <1>2 DEF Counts

\* A part of consecutive bytes is consecutive.
LEMMA CountsSub ==
    ASSUME NEW S, NEW q \in Seq(S), NEW m \in Int, Counts(q, m),
           NEW x \in Nat, NEW n \in Nat, x + n <= Size(q),
           NEW t, t = Part(q, x, n)
    PROVE  t \in Seq(S) /\ Size(t) = n /\ Counts(t, m + x)
<1>1. Len(q) \in Nat /\ x + n <= Len(q) /\ \A j \in 1..Len(q) : q[j] = m + j
  BY LenProperties DEF Size, Counts
<1>2. \A j \in (x + 1)..(x + n) : q[j] \in S
  BY <1>1, ElementOfSeq
<1>3. /\ t \in Seq(S)
      /\ Len(t) = (IF x + 1 <= x + n THEN x + n - (x + 1) + 1 ELSE 0)
      /\ \A j \in 1..x + n - (x + 1) + 1 : t[j] = q[x + 1 + j - 1]
  BY <1>2, SubSeqProperties DEF Part
<1>4. Len(t) = n  BY <1>3
<1>5. ASSUME NEW j \in 1..n PROVE t[j] = m + x + j
  <2> DEFINE l == x + 1 + j - 1
  <2>1. j \in 1..x + n - (x + 1) + 1 /\ l \in 1..Len(q) /\ m + l = m + x + j
    BY <1>1
  <2>2. t[j] = q[l]  BY <1>3, <2>1
  <2> HIDE DEF l
  <2>3. q[l] = m + l  BY <1>1, <2>1
  <2> QED BY <2>1, <2>2, <2>3
<1> QED BY <1>3, <1>4, <1>5 DEF Counts, Size

\* Bytes(N) are the first N bytes.
LEMMA BytesIs ==
    ASSUME NEW N \in Nat
    PROVE  Bytes(N) \in Seq(1..N) /\ Size(Bytes(N)) = N /\ Counts(Bytes(N), 0)
<1>1. Bytes(N) \in Seq(1..N) /\ Len(Bytes(N)) = N
  BY DEF Bytes
<1> QED BY <1>1 DEF Bytes, Size, Counts

\* The first of consecutive bytes are consecutive.
LEMMA CountsTake ==
    ASSUME NEW S, NEW q \in Seq(S), NEW m \in Int, Counts(q, m),
           NEW n \in 0..Size(q), NEW t, t = Take(q, n)
    PROVE  t \in Seq(S) /\ Size(t) = n /\ Counts(t, m)
<1>1. Size(q) \in Nat /\ n \in Nat /\ 0 + n <= Size(q) /\ m + 0 = m
  BY LenProperties DEF Size
<1>2. t = Part(q, 0, n)
  BY <1>1 DEF Take, Part
<1>3. t \in Seq(S) /\ Size(t) = n /\ Counts(t, m + 0)
  BY <1>1, <1>2, CountsSub
<1> QED BY <1>1, <1>3

\* The last of consecutive bytes are consecutive.
LEMMA CountsDrop ==
    ASSUME NEW S, NEW q \in Seq(S), NEW m \in Int, Counts(q, m),
           NEW n \in 0..Size(q), NEW t, t = Drop(q, n)
    PROVE  t \in Seq(S) /\ Size(t) = Size(q) - n /\ Counts(t, m + n)
<1> DEFINE l == Size(q) - n
<1>1. Size(q) \in Nat /\ n \in Nat /\ l \in Nat /\ n + l = Size(q)
  BY LenProperties DEF Size
<1>2. t = SubSeq(q, n + 1, Size(q))
  BY DEF Drop, Size
<1> HIDE DEF l
<1>3. t = Part(q, n, l)
  BY <1>1, <1>2 DEF Part
<1>4. t \in Seq(S) /\ Size(t) = l /\ Counts(t, m + n)
  BY <1>1, <1>3, CountsSub
<1> QED BY <1>4 DEF l

\* The bytes a peer sends next continue those it has sent.
LEMMA CountsSlice ==
    ASSUME NEW N \in Nat, NEW m \in Nat, NEW k \in Nat, m + k <= N,
           NEW q, q = Part(Bytes(N), m, k)
    PROVE  q \in Seq(1..N) /\ Size(q) = k /\ Counts(q, m)
<1>1. Bytes(N) \in Seq(1..N) /\ Size(Bytes(N)) = N /\ Counts(Bytes(N), 0)
  BY BytesIs
<1>2. 0 \in Int /\ 0 + m = m  OBVIOUS
<1>3. q \in Seq(1..N) /\ Size(q) = k /\ Counts(q, 0 + m)
  BY <1>1, <1>2, CountsSub
<1> QED BY <1>2, <1>3

-----------------------------------------------------------------------------
(* Segments of the application.                                            *)

\* The segment the application sends.
LEMMA SegmentIs ==
    ASSUME Inv, Idle, NEW n \in 0..Size(pcb.sndq), NEW k \in Nat, NEW f \in BOOLEAN,
           Segment(n, k, f)
    PROVE  /\ app' \in AppT /\ input' \in InputT
           /\ app'.sent = app.sent + k /\ (app'.fin <=> app.fin \/ f)
           /\ Size(app'.got) = Size(app.got) + n /\ Counts(app'.got, 0)
           /\ input'.phase = (IF pcb.state = "SYN_RCVD" THEN "accept" ELSE "sent")
           /\ input'.ack = n /\ (input'.fin <=> f) /\ Fin(input') = (IF f THEN 1 ELSE 0)
           /\ Size(input'.data) = k /\ Counts(input'.data, app.sent)
           /\ k + (IF f THEN 1 ELSE 0) <= pcb.rcv_wnd /\ (app.fin => k = 0 /\ ~f)
<1>1. /\ Core(Cur, input, app, srv)
      /\ pcb \in PcbT /\ app \in AppT /\ Cur \in State /\ World(input, app, srv)
  BY CurIs DEF Inv, Good, Base, Core, State, World
<1>2. /\ k + (IF f THEN 1 ELSE 0) <= pcb.rcv_wnd /\ app.sent + k <= MaxUp
      /\ (app.fin => k = 0 /\ ~f)
      /\ app' = [sent |-> app.sent + k, got |-> app.got \o Take(pcb.sndq, n),
                 fin |-> app.fin \/ f]
      /\ input' = [phase |-> IF pcb.state = "SYN_RCVD" THEN "accept" ELSE "sent", ack |-> n,
                   data |-> SubSeq(Bytes(MaxUp), app.sent + 1, app.sent + k), fin |-> f]
  BY DEF Segment
<1>3. app.sent \in Nat /\ app.sent \in 0..MaxUp /\ MaxUp \in Nat
  BY <1>1, SizesAssumption DEF AppT
<1> DEFINE d == SubSeq(Bytes(MaxUp), app.sent + 1, app.sent + k)
           g == Take(pcb.sndq, n)
           o == app.got \o g
<1>4. /\ app' = [sent |-> app.sent + k, got |-> o, fin |-> app.fin \/ f]
      /\ input' = [phase |-> IF pcb.state = "SYN_RCVD" THEN "accept" ELSE "sent", ack |-> n,
                   data |-> d, fin |-> f]
  BY <1>2
<1>5. d \in Seq(1..MaxUp) /\ Size(d) = k /\ Counts(d, app.sent)
  <2>1. d = Part(Bytes(MaxUp), app.sent, k)  BY DEF Part
  <2>2. app.sent + k <= MaxUp  BY <1>2
  <2> DEFINE m == app.sent
  <2>3. m \in Nat /\ m + k <= MaxUp /\ d = Part(Bytes(MaxUp), m, k) /\ MaxUp \in Nat
    BY <1>3, <2>1, <2>2
  <2>4. d \in Seq(1..MaxUp) /\ Size(d) = k /\ Counts(d, m)
    <3> HIDE DEF m, d
    <3> QED BY ONLY k \in Nat, <2>3, CountsSlice
  <2> QED BY <2>4
<1>6. /\ pcb.sndq \in Seq(1..MaxDown) /\ app.got \in Seq(1..MaxDown)
      /\ Counts(app.got, 0) /\ Counts(pcb.sndq, Size(app.got))
  BY <1>1, CurIs DEF PcbT, AppT, Core, Down
<1>7. Size(app.got) \in Nat /\ Size(pcb.sndq) \in Nat /\ 0 + Size(app.got) = Size(app.got)
  BY <1>6, SizeNat
<1>8. g \in Seq(1..MaxDown) /\ Size(g) = n /\ Counts(g, Size(app.got))
  <2>1. g = Take(pcb.sndq, n)  OBVIOUS
  <2> HIDE DEF g
  <2> QED BY <1>6, <1>7, <2>1, CountsTake
<1> HIDE DEF g
<1>9. o \in Seq(1..MaxDown) /\ Size(o) = Size(app.got) + n /\ Counts(o, 0)
  <2>1. o = Cat(app.got, g)  BY DEF Cat
  <2> HIDE DEF o
  <2> QED BY <1>6, <1>7, <1>8, <2>1, CountsCat
<1> HIDE DEF d, o
<1>10. n \in 0..TCP_SND_BUF
  <2>1. Size(pcb.sndq) + Ack(input) <= TCP_SND_BUF
    BY <1>1, CurIs DEF Core, Queues
  <2>2. Size(pcb.sndq) \in Nat /\ Ack(input) \in Nat
    BY <1>1, CurIs, Numbers
  <2> QED BY <2>1, <2>2, SizesAssumption
<1>11. app' \in AppT
  <2>1. app.sent + k \in 0..MaxUp  BY <1>2, <1>3
  <2>2. (app.fin \/ f) \in BOOLEAN  OBVIOUS
  <2> QED BY <1>4, <1>9, <2>1, <2>2 DEF AppT
<1>12. input' \in InputT
  BY <1>4, <1>5, <1>10 DEF InputT
<1>13. /\ app'.sent = app.sent + k /\ app'.got = o /\ (app'.fin <=> app.fin \/ f)
  BY <1>4
<1>14. /\ input'.phase = (IF pcb.state = "SYN_RCVD" THEN "accept" ELSE "sent")
       /\ input'.ack = n /\ (input'.fin <=> f) /\ input'.data = d
       /\ Fin(input') = (IF f THEN 1 ELSE 0)
  BY <1>4 DEF Fin
<1> QED BY <1>2, <1>5, <1>9, <1>11, <1>12, <1>13, <1>14

\* What one event of tcp_input() leaves to be done: data and FIN in the window.
Left(i) == (IF i.phase \in {"sent", "data"} THEN Size(i.data) ELSE 0)
           + (IF i.phase \in {"sent", "data", "fin"} THEN Fin(i) ELSE 0)

\* What a segment still holds of the window is a natural number.
LEMMA LeftIs ==
    ASSUME NEW i \in InputT
    PROVE  /\ Left(i) \in Nat
           /\ (IF i.phase \in {"sent", "data"} THEN Size(i.data) ELSE 0) \in Nat
           /\ (IF i.phase \in {"sent", "data", "fin"} THEN Fin(i) ELSE 0) \in Nat
<1>1. Size(i.data) \in Nat  BY SizeNat DEF InputT
<1> QED BY <1>1 DEF Left, Fin

\* The account of the receive window in one sum.
LEMMA WindowIs ==
    ASSUME NEW s \in State, NEW i, NEW a, NEW v, World(i, a, v), Queues(s.c, s.k, s.p, i),
           "recv" \in s.p.cbs
    PROVE  TCP_WND = s.p.rcv_wnd + Size(s.c.buf) + Left(i)
<1>1. TCP_WND = s.p.rcv_wnd + Size(s.c.buf)
                   + (IF i.phase \in {"sent", "data"} THEN Size(i.data) ELSE 0)
                   + (IF i.phase \in {"sent", "data", "fin"} THEN Fin(i) ELSE 0)
  BY DEF Queues
<1>2. s.p.rcv_wnd \in Nat /\ Size(s.c.buf) \in Nat  BY Numbers
<1>3. i \in InputT  BY DEF World
<1> QED BY <1>1, <1>2, <1>3, LeftIs DEF Left

\* A later phase of the same segment, or none.
LEMMA PhaseKeeps ==
    ASSUME NEW s, NEW i, NEW a, NEW v, Core(s, i, a, v), s.k.state # "NONE",
           NEW j \in InputT, i.phase \in {"data", "fin", "end"},
           j.phase \in {"data", "fin", "idle"}, j.fin => i.fin,
           \/ InFlight(j) = InFlight(i) /\ (InFlight(j) > 0 => j.data = i.data)
              /\ Left(j) = Left(i)
           \/ InFlight(j) = 0 /\ s.c.client_closed /\ s.p.cbs = {}
    PROVE  Core(s, j, a, v)
<1>1. s \in State /\ World(i, a, v) /\ World(j, a, v)
  BY DEF Core, World
<1>2. Ack(i) = 0 /\ Ack(j) = 0  BY DEF Ack
<1>3. Queues(s.c, s.k, s.p, j)
  <2>1. "recv" \in s.p.cbs => TCP_WND = s.p.rcv_wnd + Size(s.c.buf) + Left(i)
    BY <1>1, WindowIs DEF Core
  <2>2. "recv" \in s.p.cbs => TCP_WND = s.p.rcv_wnd + Size(s.c.buf) + Left(j)
    BY <2>1
  <2>3. s.p.rcv_wnd \in Nat /\ Size(s.c.buf) \in Nat  BY <1>1, Numbers
  <2>4. "recv" \in s.p.cbs =>
          TCP_WND = s.p.rcv_wnd + Size(s.c.buf)
                   + (IF j.phase \in {"sent", "data"} THEN Size(j.data) ELSE 0)
                   + (IF j.phase \in {"sent", "data", "fin"} THEN Fin(j) ELSE 0)
    BY <2>2, <2>3, LeftIs DEF Left
  <2> QED BY <1>2, <2>4 DEF Core, Queues
<1>4. Up(s.c, s.p, j, s.h, a, v)
  <2>1. /\ Size(v.got) \in Nat /\ Size(s.c.buf) \in Nat /\ InFlight(i) \in Nat /\ a.sent \in Nat
    BY <1>1, Numbers
  <2>2. Size(v.got) + (IF s.c.socks_closed THEN 0 ELSE Size(s.c.buf)) + InFlight(i) <= a.sent
    BY DEF Core, Up
  <2>3. Size(v.got) + (IF s.c.socks_closed THEN 0 ELSE Size(s.c.buf)) + InFlight(j) <= a.sent
    BY <2>1, <2>2
  <2>4. InFlight(j) > 0 => Counts(j.data, a.sent - Size(j.data))
    BY DEF Core, Up
  <2>5. s.p.state # "SYN_RCVD"  BY DEF Core, Life
  <2>6. "recv" \in s.p.cbs => Size(v.got) + Size(s.c.buf) + InFlight(j) = a.sent
    BY DEF Core, Up
  <2> QED BY <2>3, <2>4, <2>5, <2>6 DEF Core, Up
<1> QED BY <1>1, <1>3, <1>4 DEF Core

\* The segment, with something else of it to do next.
At(phase) == [input EXCEPT !.phase = phase]

\* Between two callbacks of a segment.
Between(s, i) ==
    /\ Core(s, i, app, srv) /\ Callbacks(s.c, s.k, s.p) /\ Receives(s.c, s.k)
    /\ s.k.state # "NONE" /\ s.c.dead # "frame"
    /\ s.c.dead = "stale" => s.c.aborted \/ ~s.c.alive
    /\ s.c.client_closed => \/ s.p.state \in {"CLOSING", "TIME_WAIT", "freed"}
                            \/ s.p.closed \/ FinAtAccept \in s.h

\* Going on with the next callback of a segment.
LEMMA AtIs ==
    ASSUME input \in InputT, NEW phase \in {"data", "fin", "end", "receive"}
    PROVE  /\ At(phase).phase = phase /\ At(phase).data = input.data
           /\ (At(phase).fin <=> input.fin) /\ At(phase).ack = input.ack
           /\ At(phase) \in InputT
  BY DEF At, InputT

\* The absence of a segment.
LEMMA NoSegmentIs ==
    /\ NoSegment \in InputT /\ NoSegment.phase = "idle" /\ NoSegment.data = <<>>
    /\ NoSegment.ack = 0 /\ ~NoSegment.fin
<1>1. 0 \in 0..TCP_SND_BUF  BY SizesAssumption
<1>2. <<>> \in Seq(1..MaxUp)  BY EmptySeq
<1> QED BY <1>1, <1>2 DEF NoSegment, InputT

\* tcp_input() goes on with the next callback of the segment.
LEMMA ContinueKeeps ==
    ASSUME input \in InputT, NEW phase \in {"data", "fin", "end"},
           NEW s, Between(s, At(phase)), Continue(phase, s), UNCHANGED <<app, srv>>
    PROVE  Inv'
<1> DEFINE gone == s.p.state = "freed" \/ s.p.closed
           next == IF gone THEN "idle"
                   ELSE IF phase = "data" /\ input.data # <<>> THEN "data"
                   ELSE IF phase \in {"data", "fin"} /\ input.fin THEN "fin" ELSE "idle"
           j == IF next = "idle" THEN NoSegment ELSE [input EXCEPT !.phase = next]
           t == IF s.p.closed THEN FreePcb(s) ELSE s
           i == At(phase)
<1>1. Become(t) /\ input' = j /\ cb' = "none"
  BY DEF Continue
<1>2. /\ i.phase = phase /\ i.data = input.data /\ (i.fin <=> input.fin) /\ i \in InputT
  BY AtIs
<1>3. next \in {"data", "fin", "idle"}  OBVIOUS
<1>4. /\ j \in InputT /\ j.phase = next
      /\ next # "idle" => j.data = input.data /\ (j.fin <=> input.fin)
      /\ next = "idle" => j = NoSegment /\ j.data = <<>> /\ j.ack = 0 /\ ~j.fin
  <2> HIDE DEF next
  <2>1. CASE next = "idle"  BY <2>1, NoSegmentIs
  <2>2. CASE next # "idle"
    <3>1. j = At(next)  BY <2>2 DEF At
    <3> HIDE DEF j
    <3> QED BY <1>3, <2>2, <3>1, AtIs
  <2> QED BY <2>1, <2>2
<1>5. s \in State /\ Core(s, i, app, srv)  BY DEF Between, Core
<1>6. gone => s.c.client_closed /\ s.p.cbs = {}
  BY <1>5, NoneLeft DEF Between, Core, Life
<1>7. (next = "data" => input.data # <<>>) /\ (next = "fin" => input.fin)
      /\ (next # "idle" => ~gone)
  OBVIOUS
<1>8. ~gone => /\ phase = "data" /\ next # "data" => input.data = <<>>
               /\ phase # "data" => next # "data"
               /\ phase \in {"data", "fin"} /\ next = "idle" => ~input.fin
               /\ phase = "end" => next = "idle"
  OBVIOUS
<1> HIDE DEF i, j, next
<1>9. CASE s.p.closed
  <2>1. j = NoSegment  BY <1>4, <1>7, <1>9
  <2>2. t = FreePcb(s)  BY <1>9
  <2> HIDE DEF t
  <2>3. Good(t, j, "none", app, srv)
    BY <1>4, <1>5, <1>6, <1>9, <2>1, <2>2, FreedKeeps DEF Between
  <2> QED BY <1>1, <2>3, InvNext
<1>10. CASE ~s.p.closed
  <2>1. t = s  BY <1>10
  <2>2. Core(s, j, app, srv)
    <3>1. CASE gone
      <4>1. next = "idle"  BY <1>7, <3>1
      <4>2. InFlight(j) = 0  BY <1>4, <4>1 DEF InFlight
      <4> QED BY <1>2, <1>4, <1>5, <1>6, <3>1, <4>1, <4>2, PhaseKeeps DEF Between
    <3>2. CASE ~gone
      <4>1. Size(input.data) \in Nat /\ (Size(input.data) = 0 <=> input.data = <<>>) /\ Size(<<>>) = 0
        BY SizeNat DEF InputT
      <4>2. InFlight(j) = InFlight(i) /\ (InFlight(j) > 0 => j.data = i.data)
        <5>1. CASE next = "data"
          <6>1. phase = "data" /\ j.data = i.data /\ j.phase = "data" /\ i.phase = "data"
            BY <1>2, <1>4, <1>8, <3>2, <5>1
          <6> QED BY <6>1 DEF InFlight
        <5>2. CASE next # "data"
          <6>1. InFlight(j) = 0  BY <1>3, <1>4, <5>2 DEF InFlight
          <6>2. phase = "data" => Size(i.data) = 0  BY <1>2, <1>8, <3>2, <4>1, <5>2
          <6>3. InFlight(i) = 0  BY <1>2, <6>2 DEF InFlight
          <6> QED BY <6>1, <6>3
        <5> QED BY <5>1, <5>2
      <4>3. Left(j) = Left(i)
        <5>1. CASE next = "data"
          <6>1. phase = "data" /\ j.data = i.data /\ j.phase = i.phase /\ (j.fin <=> i.fin)
            BY <1>2, <1>4, <1>8, <3>2, <5>1
          <6> QED BY <6>1 DEF Left, Fin
        <5>2. CASE next = "fin"
          <6>1. phase \in {"data", "fin"} /\ j.phase = "fin" /\ (j.fin <=> i.fin)
                /\ (phase = "data" => Size(i.data) = 0)
            BY <1>2, <1>4, <1>8, <3>2, <4>1, <5>2
          <6> QED BY <1>2, <6>1 DEF Left, Fin
        <5>3. CASE next = "idle"
          <6>1. j.phase = "idle" /\ (phase # "end" => ~i.fin)
                /\ (phase = "data" => Size(i.data) = 0)
            BY <1>2, <1>4, <1>8, <3>2, <4>1, <5>3
          <6> QED BY <1>2, <6>1 DEF Left, Fin
        <5> QED BY <1>3, <5>1, <5>2, <5>3
      <4>4. j.fin => i.fin  BY <1>2, <1>4
      <4> QED BY <1>2, <1>3, <1>4, <1>5, <4>2, <4>3, <4>4, PhaseKeeps DEF Between
    <3> QED BY <3>1, <3>2
  <2>3. Flow(s.c, s.k, s.p, j, "none")
    BY <1>3, <1>4, <1>7 DEF Flow, Between
  <2>4. Frame(s.c, s.p, "none", s.f)
    BY <1>10 DEF Frame, Between
  <2>5. LetGo(s.c, s.p, j, "none", s.h)
    BY <1>3, <1>4, <1>10 DEF LetGo, Between
  <2>6. Good(s, j, "none", app, srv)
    BY <2>2, <2>3, <2>4, <2>5 DEF Good, Base, CbT, Between
  <2> QED BY <1>1, <2>1, <2>6, InvNext
<1> QED BY <1>9, <1>10

\* What the application sends is the next of its bytes.
LEMMA SegmentUp ==
    ASSUME Inv, Idle, NEW n \in 0..Size(pcb.sndq), NEW k \in Nat, NEW f \in BOOLEAN,
           Segment(n, k, f), NEW q \in PcbT, q.cbs = pcb.cbs,
           q.state = "SYN_RCVD" <=> pcb.state = "SYN_RCVD",
           pcb.state # "freed", q.state # "freed"
    PROVE  Up(client, q, input', causes, app', srv)
<1>1. /\ app'.sent = app.sent + k /\ (app'.fin <=> app.fin \/ f)
      /\ input'.phase \in {"accept", "sent"} /\ (input'.fin <=> f)
      /\ Size(input'.data) = k /\ Counts(input'.data, app.sent)
      /\ (app.fin => k = 0)
  BY SegmentIs
<1>2. Cur \in State /\ World(input, app, srv) /\ Up(client, pcb, input, causes, app, srv)
  BY CurIs DEF Inv, Good, Base, Core
<1>3. Size(srv.got) \in Nat /\ Size(client.buf) \in Nat /\ app.sent \in Nat
  BY <1>2, Numbers, CurIs
<1>4. InFlight(input) = 0  BY DEF InFlight, Idle
<1>5. InFlight(input') = k  BY <1>1 DEF InFlight
<1>6. app'.sent - Size(input'.data) = app.sent
  <2>1. app'.sent = app.sent + k /\ Size(input'.data) = k  BY <1>1
  <2> QED BY <1>3, <2>1
<1>7. Counts(srv.got, 0) /\ (~client.socks_closed => Counts(client.buf, Size(srv.got)))
  BY <1>2 DEF Up
<1>8. Size(srv.got) + (IF client.socks_closed THEN 0 ELSE Size(client.buf)) + InFlight(input')
        <= app'.sent
  <2>1. Size(srv.got) + (IF client.socks_closed THEN 0 ELSE Size(client.buf)) + InFlight(input)
          <= app.sent
    BY <1>2 DEF Up
  <2> QED BY <1>1, <1>3, <1>4, <1>5, <2>1
<1>9. (q.state = "SYN_RCVD" \/ "recv" \in q.cbs) =>
          Size(srv.got) + Size(client.buf) + InFlight(input') = app'.sent
  <2>1. (pcb.state = "SYN_RCVD" \/ "recv" \in pcb.cbs) =>
          Size(srv.got) + Size(client.buf) + InFlight(input) = app.sent
    BY <1>2 DEF Up
  <2> QED BY <1>1, <1>3, <1>4, <1>5, <2>1
<1>10. (client.client_closed /\ ~client.socks_closed /\ "aborted" \notin causes) =>
          /\ Size(srv.got) + Size(client.buf) = app'.sent /\ (app'.fin \/ q.state = "freed")
  <2>1. (client.client_closed /\ ~client.socks_closed /\ "aborted" \notin causes) =>
          /\ Size(srv.got) + Size(client.buf) = app.sent /\ app.fin
    BY <1>2 DEF Up
  <2>2. app.fin => app'.sent = app.sent /\ app'.fin  BY <1>1, <1>3
  <2> QED BY <2>1, <2>2
<1>11. (client.socks_closed /\ causes \cap UpLost = {}) =>
          /\ Size(srv.got) = app'.sent /\ (app'.fin \/ q.state = "freed")
  <2>1. (client.socks_closed /\ causes \cap UpLost = {}) =>
          /\ Size(srv.got) = app.sent /\ app.fin
    BY <1>2 DEF Up
  <2>2. app.fin => app'.sent = app.sent /\ app'.fin  BY <1>1, <1>3
  <2> QED BY <2>1, <2>2
<1>12. /\ InFlight(input') > 0 => Counts(input'.data, app'.sent - Size(input'.data))
       /\ input'.fin => app'.fin
  BY <1>1, <1>6
<1>13. client.aborted => "aborted" \in causes  BY <1>2 DEF Up
<1> QED BY <1>7, <1>8, <1>9, <1>10, <1>11, <1>12, <1>13 DEF Up

\* What the application acknowledges are the next bytes it gets.
LEMMA SegmentDown ==
    ASSUME Inv, Idle, NEW n \in 0..Size(pcb.sndq), NEW k \in Nat, NEW f \in BOOLEAN,
           Segment(n, k, f), NEW q \in PcbT, q.sndq = Drop(pcb.sndq, n)
    PROVE  /\ Down(client, socks, q, causes, app', srv)
           /\ Size(q.sndq) = Size(pcb.sndq) - n
<1>1. Size(app'.got) = Size(app.got) + n /\ Counts(app'.got, 0)
  BY SegmentIs
<1>2. /\ Cur \in State /\ World(input, app, srv)
      /\ Down(client, socks, pcb, causes, app, srv) /\ pcb.sndq \in Seq(1..MaxDown)
  BY CurIs DEF Inv, Good, Base, Core, State, PcbT
<1>3. /\ Size(app.got) \in Nat /\ Size(client.rbuf) \in Nat /\ srv.read \in Nat
      /\ client.rsent \in Nat /\ Size(pcb.sndq) \in Nat /\ n \in Nat /\ Size(app.got) \in Int
  BY <1>2, Numbers, CurIs
<1>4. Counts(pcb.sndq, Size(app.got))  BY <1>2 DEF Down
<1>5. Size(q.sndq) = Size(pcb.sndq) - n /\ Counts(q.sndq, Size(app.got) + n)
  BY <1>2, <1>3, <1>4, CountsDrop
<1>6. Counts(q.sndq, Size(app'.got))  BY <1>1, <1>5
<1>7. Size(app'.got) + Size(q.sndq) <= srv.read
  <2>1. Size(app.got) + Size(pcb.sndq) <= srv.read  BY <1>2 DEF Down
  <2> QED BY <1>1, <1>3, <1>5, <2>1
<1>8. ~client.client_closed => Size(app'.got) + Size(q.sndq) + Size(client.rbuf) - client.rsent = srv.read
  <2>1. ~client.client_closed => Size(app.got) + Size(pcb.sndq) + Size(client.rbuf) - client.rsent = srv.read
    BY <1>2 DEF Down
  <2> QED BY <1>1, <1>3, <1>5, <2>1
<1>9. (client.client_closed /\ causes \cap DownLost = {}) => Size(app'.got) = srv.read /\ client.socks_closed
  <2>1. (client.client_closed /\ causes \cap DownLost = {}) => Size(app.got) = srv.read /\ client.socks_closed
    BY <1>2 DEF Down
  <2>2. Size(app.got) + Size(pcb.sndq) <= srv.read  BY <1>2 DEF Down
  <2>3. Size(app.got) = srv.read => n = 0  BY <1>3, <2>2
  <2> QED BY <1>1, <1>3, <2>1, <2>3
<1>10. /\ ~client.client_closed => Counts(client.rbuf, srv.read - Size(client.rbuf))
       /\ ~client.socks_up => srv.read = 0
       /\ Behind(srv)
       /\ client.socks_closed => causes \cap DownLost # {} \/ SocksFailed \in causes \/ AllRead(srv)
  BY <1>2 DEF Down
<1> QED BY <1>1, <1>5, <1>6, <1>7, <1>8, <1>9, <1>10 DEF Down

\* The last segment of the TCP handshake keeps the invariant.
LEMMA HandshakeAckKeeps == ASSUME Inv, HandshakeAck PROVE Inv'
<1>1. PICK k \in 0..TCP_WND, f \in BOOLEAN : Segment(0, k, f)
  BY DEF HandshakeAck
<1>2. /\ Idle /\ pcb.state = "SYN_RCVD"
      /\ UNCHANGED <<client, socks, pcb, cb, frame, faults, srv, causes>>
  BY DEF HandshakeAck
<1>3. /\ Cur \in State /\ World(input, app, srv) /\ pcb \in PcbT
      /\ pcb.sndq \in Seq(1..MaxDown)
      /\ Life(client, socks, pcb) /\ (socks.state = "FREE" => socks = Freed)
      /\ Sends(client, socks) /\ Queues(client, socks, pcb, input)
      /\ Frame(client, pcb, cb, frame)
      /\ Callbacks(client, socks, pcb) /\ Receives(client, socks)
  BY CurIs DEF Inv, Good, Base, Core, State, PcbT
<1>4. /\ socks.state = "NONE" /\ pcb.sndq = <<>> /\ ~client.client_closed /\ ~pcb.closed
      /\ pcb.rcv_wnd = TCP_WND /\ client.buf = <<>> /\ "recv" \notin pcb.cbs
      /\ client.pending = 0
  BY <1>2, <1>3 DEF Life, Callbacks
<1>5. 0 \in 0..Size(pcb.sndq) /\ k \in Nat
  BY <1>3, SizeNat, SizesAssumption
<1>6. /\ app' \in AppT /\ input' \in InputT
      /\ input'.phase = "accept" /\ input'.ack = 0
      /\ Size(input'.data) = k /\ Fin(input') = (IF f THEN 1 ELSE 0)
      /\ k + (IF f THEN 1 ELSE 0) <= pcb.rcv_wnd
  BY <1>1, <1>2, <1>5, SegmentIs
<1>7. Up(client, pcb, input', causes, app', srv)
  BY <1>1, <1>2, <1>3, <1>5, SegmentUp
<1>8. Down(client, socks, pcb, causes, app', srv)
  <2>1. pcb.sndq = Drop(pcb.sndq, 0)
    BY <1>4 DEF Drop
  <2> QED BY <1>1, <1>2, <1>3, <1>5, <2>1, SegmentDown
<1>9. World(input', app', srv)  BY <1>3, <1>6 DEF World
<1>10. Queues(client, socks, pcb, input')
  <2>1. Ack(input') = 0 /\ Ack(input) = 0  BY <1>2, <1>6 DEF Ack, Idle
  <2> QED BY <1>3, <1>4, <2>1 DEF Queues
<1>11. Flow(client, socks, pcb, input', cb)
  BY <1>2, <1>4, <1>6 DEF Flow, Idle
<1>12. LetGo(client, pcb, input', cb, causes)
  BY <1>4 DEF LetGo
<1>13. Good(Cur, input', cb, app', srv)
  <2>1. cb \in CbT  BY DEF Inv, Good, Base
  <2> QED BY <1>3, <1>7, <1>8, <1>9, <1>10, <1>11, <1>12, <2>1, CurIs DEF Good, Base, Core
<1>14. Become(Cur)  BY <1>2, CurIs DEF Become
<1> QED BY <1>2, <1>13, <1>14, InvNext

\* A segment on an open connection keeps the invariant.
LEMMA TcpInputKeeps == ASSUME Inv, TcpInput PROVE Inv'
<1>1. PICK n \in 0..Len(pcb.sndq), k \in 0..TCP_WND, f \in BOOLEAN :
         /\ Segment(n, k, f)
         /\ pcb' = [Received(pcb, input') EXCEPT
                      !.sndq = Drop(@, n),
                      !.state = IF f /\ @ = "ESTABLISHED" THEN "CLOSE_WAIT" ELSE @]
  BY ZenonT(30) DEF TcpInput
<1>2. /\ Idle /\ pcb.state \in {"ESTABLISHED", "CLOSE_WAIT", "CLOSING"}
      /\ UNCHANGED <<client, socks, cb, frame, faults, srv, causes>>
  BY DEF TcpInput
<1>3. /\ Cur \in State /\ World(input, app, srv) /\ pcb \in PcbT
      /\ pcb.sndq \in Seq(1..MaxDown)
      /\ Life(client, socks, pcb) /\ (socks.state = "FREE" => socks = Freed)
      /\ Sends(client, socks) /\ Queues(client, socks, pcb, input)
      /\ Frame(client, pcb, cb, frame) /\ LetGo(client, pcb, input, cb, causes)
      /\ Callbacks(client, socks, pcb) /\ Receives(client, socks)
  BY CurIs DEF Inv, Good, Base, Core, State, PcbT
<1>4. socks.state # "NONE" /\ cb = "none"
  BY <1>2, <1>3 DEF Life, Idle
<1>5. n \in 0..Size(pcb.sndq) /\ k \in Nat /\ Size(pcb.sndq) \in Nat /\ n \in Nat
  BY <1>3, SizeNat DEF Size
<1>6. /\ app' \in AppT /\ input' \in InputT
      /\ input'.phase = "sent" /\ input'.ack = n
      /\ Size(input'.data) = k /\ Fin(input') = (IF f THEN 1 ELSE 0) /\ (input'.fin <=> f)
      /\ k + (IF f THEN 1 ELSE 0) <= pcb.rcv_wnd
  BY <1>1, <1>2, <1>5, SegmentIs
<1> DEFINE w == pcb.rcv_wnd - k - (IF f THEN 1 ELSE 0)
           d == Drop(pcb.sndq, n)
           q == [pcb EXCEPT !.rcv_wnd = w, !.sndq = d,
                            !.state = IF f /\ pcb.state = "ESTABLISHED" THEN "CLOSE_WAIT" ELSE pcb.state]
<1>7. pcb' = q
  <2>1. Len(input'.data) = k /\ (IF input'.fin THEN 1 ELSE 0) = (IF f THEN 1 ELSE 0)
    BY <1>6 DEF Size
  <2> QED BY <1>1, <1>3, <2>1 DEF Received, PcbT
<1>8. w \in 0..TCP_WND /\ w + k + (IF f THEN 1 ELSE 0) = pcb.rcv_wnd
  <2>1. pcb.rcv_wnd \in 0..TCP_WND  BY <1>3 DEF PcbT
  <2>2. k + (IF f THEN 1 ELSE 0) <= pcb.rcv_wnd /\ TCP_WND \in Nat /\ k \in Nat
    BY <1>5, <1>6, SizesAssumption
  <2> DEFINE e == IF f THEN 1 ELSE 0
  <2>3. e \in Nat /\ k + e <= pcb.rcv_wnd /\ w = pcb.rcv_wnd - k - e  BY <2>2
  <2> HIDE DEF e, w
  <2>4. w \in 0..TCP_WND /\ w + k + e = pcb.rcv_wnd
    BY <2>1, <2>2, <2>3
  <2> QED BY <2>4 DEF e
<1>9. d \in Seq(1..MaxDown)
  <2>1. Down(client, socks, pcb, causes, app, srv) /\ Size(app.got) \in Int
    BY <1>3, Numbers, CurIs DEF Inv, Good, Base, Core
  <2>2. Counts(pcb.sndq, Size(app.got))  BY <2>1 DEF Down
  <2> QED BY <1>3, <1>5, <2>1, <2>2, CountsDrop
<1> HIDE DEF w, d
<1>10. /\ q \in PcbT /\ q.rcv_wnd = w /\ q.sndq = d /\ q.cbs = pcb.cbs /\ q.refused = pcb.refused
       /\ (q.closed <=> pcb.closed) /\ (q.rxclosed <=> pcb.rxclosed)
       /\ q.state = (IF f /\ pcb.state = "ESTABLISHED" THEN "CLOSE_WAIT" ELSE pcb.state)
  BY <1>3, <1>8, <1>9 DEF PcbT, PcbStates
<1> HIDE DEF q
<1>11. /\ q.state \in {"ESTABLISHED", "CLOSE_WAIT", "CLOSING"}
       /\ (pcb.state = "CLOSING" => q.state = "CLOSING")
       /\ (pcb.state \in {"ESTABLISHED", "CLOSE_WAIT"} => q.state \in {"ESTABLISHED", "CLOSE_WAIT"})
  BY <1>2, <1>10
<1>12. Up(client, q, input', causes, app', srv)
  BY <1>1, <1>2, <1>5, <1>10, <1>11, SegmentUp
<1>13. Down(client, socks, q, causes, app', srv) /\ Size(d) = Size(pcb.sndq) - n
  <2>1. q.sndq = Drop(pcb.sndq, n)  BY <1>10 DEF d
  <2> QED BY <1>1, <1>2, <1>5, <1>10, <2>1, SegmentDown
<1>14. World(input', app', srv)  BY <1>3, <1>6 DEF World
<1>15. Queues(client, socks, q, input')
  <2>1. Ack(input') = n /\ Ack(input) = 0  BY <1>2, <1>6 DEF Ack, Idle
  <2>2. Size(q.sndq) + Ack(input') = Size(pcb.sndq) + Ack(input)
    BY <1>5, <1>10, <1>13, <2>1
  <2>3. "recv" \in pcb.cbs => TCP_WND = pcb.rcv_wnd + Size(client.buf) + 0 + 0
    BY <1>2, <1>3 DEF Queues, Idle
  <2>4. Size(client.buf) \in Nat /\ pcb.rcv_wnd \in Nat /\ w \in Int
    BY <1>3, <1>8, Numbers, CurIs
  <2>5. "recv" \in pcb.cbs => TCP_WND = w + Size(client.buf) + k + (IF f THEN 1 ELSE 0)
    BY <1>5, <1>8, <2>3, <2>4, SMTT(30)
  <2> QED BY <1>3, <1>6, <1>10, <2>2, <2>5 DEF Queues
<1>16. Life(client, socks, q)
  BY <1>3, <1>4, <1>10, <1>11 DEF Life
<1>17. Flow(client, socks, q, input', cb)
  <2>1. ~pcb.closed  BY <1>2, <1>3, <1>4 DEF Frame
  <2> QED BY <1>4, <1>6, <1>10, <1>11, <2>1 DEF Flow
<1>18. Frame(client, q, cb, frame)
  BY <1>2, <1>3, <1>4, <1>10, <1>11 DEF Frame
<1>19. LetGo(client, q, input', cb, causes)
  BY <1>2, <1>3, <1>4, <1>6, <1>11 DEF LetGo
<1>20. Callbacks(client, socks, q)
  BY <1>3, <1>10 DEF Callbacks
<1> DEFINE t == [Cur EXCEPT !.p = q]
<1>21. t \in State /\ t.c = client /\ t.k = socks /\ t.p = q /\ t.f = frame /\ t.x = faults /\ t.h = causes
  BY <1>3, <1>10, CurIs DEF State
<1> HIDE DEF t
<1>22. Good(t, input', cb, app', srv)
  <2>1. cb \in CbT  BY DEF Inv, Good, Base
  <2> QED BY <1>3, <1>12, <1>13, <1>14, <1>15, <1>16, <1>17, <1>18, <1>19, <1>20, <1>21, <2>1
          DEF Good, Base, Core
<1>23. Become(t)  BY <1>2, <1>7, <1>21 DEF Become
<1> QED BY <1>2, <1>22, <1>23, InvNext

-----------------------------------------------------------------------------
(* Inside a callback: control and data apart.                              *)

\* The invariant, split into what control and what data it is about.
Ctl(s, i, b) ==
    /\ s \in State /\ Life(s.c, s.k, s.p) /\ (s.k.state = "FREE" => s.k = Freed)
    /\ Callbacks(s.c, s.k, s.p) /\ b \in CbT /\ Flow(s.c, s.k, s.p, i, b)
    /\ Frame(s.c, s.p, b, s.f) /\ LetGo(s.c, s.p, i, b, s.h)
Data(s, i, a, v) ==
    /\ World(i, a, v) /\ Sends(s.c, s.k) /\ Queues(s.c, s.k, s.p, i)
    /\ Up(s.c, s.p, i, s.h, a, v) /\ Down(s.c, s.k, s.p, s.h, a, v)

\* The invariant in two parts: who is there, and where the bytes are.
LEMMA Parts ==
    ASSUME NEW s, NEW i, NEW b, NEW a, NEW v
    PROVE  /\ Good(s, i, b, a, v) <=> Ctl(s, i, b) /\ Data(s, i, a, v) /\ Receives(s.c, s.k)
           /\ Ctl(s, i, b) /\ Data(s, i, a, v) => Base(s, i, b, a, v) /\ Core(s, i, a, v)
  BY DEF Good, Base, Core, Ctl, Data

\* Neither the client nor the pcb has changed its condition.
SameFields(c, d) ==
    /\ (d.alive <=> c.alive) /\ (d.client_closed <=> c.client_closed)
    /\ (d.socks_closed <=> c.socks_closed) /\ (d.socks_up <=> c.socks_up)
    /\ (d.aborted <=> c.aborted)
SamePcb(p, q) ==
    /\ q.state = p.state /\ q.cbs = p.cbs /\ (q.rxclosed <=> p.rxclosed)
    /\ (q.closed <=> p.closed) /\ q.refused = p.refused

\* Moving data leaves the control alone.
LEMMA CtlKeeps ==
    ASSUME NEW s, NEW i, NEW b, Ctl(s, i, b), s.k.state # "NONE",
           NEW t \in State, SameFields(s.c, t.c), t.c.dead = s.c.dead,
           SamePcb(s.p, t.p), t.k.state = s.k.state, s.k.state = "FREE" => t.k = s.k,
           t.f = s.f, t.h = s.h,
           i.phase = "receive" => t.c.buf = s.c.buf /\ t.p.rcv_wnd = s.p.rcv_wnd
    PROVE  Ctl(t, i, b)
<1>1. Life(t.c, t.k, t.p)
  BY DEF Ctl, Life, SameFields, SamePcb
<1>2. Callbacks(t.c, t.k, t.p)
  BY DEF Ctl, Callbacks, SameFields, SamePcb
<1>3. Flow(t.c, t.k, t.p, i, b)
  <2>1. i.phase # "accept"  BY DEF Ctl, Flow, Life
  <2> QED BY <2>1 DEF Ctl, Flow, SameFields, SamePcb
<1>4. Frame(t.c, t.p, b, t.f)
  BY DEF Ctl, Frame, SameFields, SamePcb
<1>5. LetGo(t.c, t.p, i, b, t.h)
  BY DEF Ctl, LetGo, SameFields, SamePcb
<1> QED BY <1>1, <1>2, <1>3, <1>4, <1>5 DEF Ctl

\* DEAD_ENTER of a callback that an open client has.
LEMMA EnteredIs ==
    ASSUME NEW s \in State, NEW t, t = Entered(s)
    PROVE  /\ t \in State /\ t.k = s.k /\ t.p = s.p /\ t.h = s.h /\ t.f = 0 /\ t.c.dead = "frame"
           /\ SameFields(s.c, t.c) /\ t.c.buf = s.c.buf /\ t.c.rbuf = s.c.rbuf
           /\ t.c.rsent = s.c.rsent /\ t.c.waiting = s.c.waiting /\ t.c.pending = s.c.pending
<1> DEFINE d == [s.c EXCEPT !.dead = "frame"]
<1>1. /\ d \in ClientT /\ d.dead = "frame" /\ SameFields(s.c, d) /\ d.buf = s.c.buf
      /\ d.rbuf = s.c.rbuf /\ d.rsent = s.c.rsent /\ d.waiting = s.c.waiting
      /\ d.pending = s.c.pending
  BY DEF State, ClientT, SameFields
<1>2. t = [s EXCEPT !.c = d, !.f = 0]
  BY DEF Entered
<1> HIDE DEF d
<1> QED BY <1>1, <1>2 DEF State

\* Entering a callback: the client is open, and its frame is the dead variable.
LEMMA EnteredKeeps ==
    ASSUME NEW s, NEW i, NEW a, NEW v, Core(s, i, a, v), Callbacks(s.c, s.k, s.p),
           Receives(s.c, s.k), s.k.state # "NONE", ~s.c.client_closed,
           NEW j, NEW b, \/ b = "sent" /\ j.phase = "data"
                         \/ b = "recv" /\ j.phase = "fin"
                         \/ b = "fin" /\ j.phase = "end",
           NEW t, t = Entered(s)
    PROVE  /\ t.k = s.k /\ t.p = s.p /\ t.h = s.h
           /\ SameFields(s.c, t.c) /\ t.c.buf = s.c.buf /\ t.c.rbuf = s.c.rbuf
           /\ t.c.rsent = s.c.rsent /\ t.c.waiting = s.c.waiting /\ t.c.pending = s.c.pending
           /\ Ctl(t, j, b) /\ Data(t, i, a, v) /\ Receives(t.c, t.k)
<1>1. s \in State  BY DEF Core
<1>2. /\ t \in State /\ t.k = s.k /\ t.p = s.p /\ t.h = s.h /\ t.f = 0 /\ t.c.dead = "frame"
      /\ SameFields(s.c, t.c) /\ t.c.buf = s.c.buf /\ t.c.rbuf = s.c.rbuf
      /\ t.c.rsent = s.c.rsent /\ t.c.waiting = s.c.waiting /\ t.c.pending = s.c.pending
  BY <1>1, EnteredIs
<1>3. Life(t.c, t.k, t.p) /\ Callbacks(t.c, t.k, t.p)
  BY <1>2 DEF Core, Life, Callbacks, SameFields
<1>4. t.p.state \in {"ESTABLISHED", "CLOSE_WAIT"} /\ ~t.c.aborted /\ t.c.alive
      /\ ~t.c.client_closed
  BY <1>2, <1>3 DEF Life, SameFields
<1>5. Flow(t.c, t.k, t.p, j, b)
  BY <1>2, <1>4 DEF Flow
<1>6. Frame(t.c, t.p, b, t.f) /\ LetGo(t.c, t.p, j, b, t.h) /\ b \in CbT
  <2>1. t.f # 1 /\ t.f # -1  BY <1>2
  <2>2. t.p.state # "freed" /\ b # "none" /\ b \in CbT  BY <1>4 DEF CbT
  <2>3. Frame(t.c, t.p, b, t.f)  BY <1>2, <1>4, <2>1, <2>2 DEF Frame
  <2>4. LetGo(t.c, t.p, j, b, t.h)  BY <1>4 DEF LetGo
  <2> QED BY <2>2, <2>3, <2>4
<1>7. Ctl(t, j, b)
  BY <1>2, <1>3, <1>5, <1>6 DEF Core, Ctl
<1>8. Sends(t.c, t.k) /\ Queues(t.c, t.k, t.p, i)
  BY <1>2 DEF Core, Sends, Queues, SameFields
<1>9. Up(t.c, t.p, i, t.h, a, v)
  BY <1>2 DEF Core, Up, SameFields
<1>10. Down(t.c, t.k, t.p, t.h, a, v)
  BY <1>2 DEF Core, Down, SameFields
<1>11. Data(t, i, a, v)
  BY <1>8, <1>9, <1>10 DEF Core, Data
<1>12. Receives(t.c, t.k)
  BY <1>2 DEF Receives, SameFields
<1> QED BY <1>2, <1>7, <1>11, <1>12

-----------------------------------------------------------------------------
(* The callback for a FIN.                                                 *)

\* tcp_recved(): the receive window is set to w.
MoveWindow(s, w) == [s EXCEPT !.p.rcv_wnd = w]

\* tcp_recved() and the byte of a FIN.
LEMMA WindowMoves ==
    ASSUME NEW s, NEW i, NEW a, NEW v, Core(s, i, a, v), s.k.state # "NONE",
           NEW w \in 0..TCP_WND, NEW t, t = MoveWindow(s, w),
           NEW j \in InputT, Ack(j) = Ack(i), j.fin => i.fin,
           "recv" \in s.p.cbs => TCP_WND = w + Size(s.c.buf) + Left(j),
           InFlight(j) = InFlight(i) \/ (InFlight(j) = 0 /\ "recv" \notin s.p.cbs),
           InFlight(j) > 0 => j.data = i.data
    PROVE  /\ Core(t, j, a, v) /\ SamePcb(s.p, t.p) /\ t.p.sndq = s.p.sndq /\ t.p.rcv_wnd = w
           /\ t.c = s.c /\ t.k = s.k /\ t.h = s.h /\ t.f = s.f
<1> DEFINE q == [s.p EXCEPT !.rcv_wnd = w]
<1>1. s \in State /\ World(i, a, v) /\ World(j, a, v)
  BY DEF Core, World
<1>2. q \in PcbT /\ SamePcb(s.p, q) /\ q.sndq = s.p.sndq /\ q.rcv_wnd = w
  BY <1>1 DEF State, PcbT, SamePcb
<1>3. t = [s EXCEPT !.p = q]  BY DEF MoveWindow
<1> HIDE DEF q
<1>4. t \in State /\ t.c = s.c /\ t.k = s.k /\ t.h = s.h /\ t.f = s.f /\ t.p = q
  BY <1>1, <1>2, <1>3 DEF State
<1>5. Life(t.c, t.k, t.p)
  BY <1>2, <1>4 DEF Core, Life, SamePcb
<1>6. Queues(t.c, t.k, t.p, j)
  <2>1. Size(s.c.buf) \in Nat /\ w \in Nat  BY <1>1, Numbers, SizesAssumption
  <2>2. "recv" \in s.p.cbs =>
          TCP_WND = w + Size(s.c.buf)
                   + (IF j.phase \in {"sent", "data"} THEN Size(j.data) ELSE 0)
                   + (IF j.phase \in {"sent", "data", "fin"} THEN Fin(j) ELSE 0)
    BY <2>1, LeftIs DEF Left
  <2> QED BY <1>2, <1>4, <2>2 DEF Core, Queues, SamePcb
<1>7. Up(t.c, t.p, j, t.h, a, v)
  <2>1. /\ Size(v.got) \in Nat /\ Size(s.c.buf) \in Nat /\ InFlight(i) \in Nat /\ a.sent \in Nat
    BY <1>1, Numbers
  <2>2. Size(v.got) + (IF s.c.socks_closed THEN 0 ELSE Size(s.c.buf)) + InFlight(i) <= a.sent
    BY DEF Core, Up
  <2>3. Size(v.got) + (IF s.c.socks_closed THEN 0 ELSE Size(s.c.buf)) + InFlight(j) <= a.sent
    BY <2>1, <2>2
  <2>4. InFlight(j) > 0 => Counts(j.data, a.sent - Size(j.data))
    BY DEF Core, Up
  <2>5. s.p.state # "SYN_RCVD"  BY DEF Core, Life
  <2>6. "recv" \in s.p.cbs => Size(v.got) + Size(s.c.buf) + InFlight(j) = a.sent
    BY DEF Core, Up
  <2> QED BY <1>2, <1>4, <2>3, <2>4, <2>5, <2>6 DEF Core, Up, SamePcb
<1>8. Down(t.c, t.k, t.p, t.h, a, v)
  BY <1>2, <1>4 DEF Core, Down
<1> QED BY <1>1, <1>2, <1>4, <1>5, <1>6, <1>7, <1>8 DEF Core

\* What holds while tcp_input() is between two callbacks.
LEMMA Ongoing ==
    ASSUME Inv, cb = "none", input.phase \in {"sent", "data", "fin"}
    PROVE  /\ Core(Cur, input, app, srv) /\ Callbacks(Cur.c, Cur.k, Cur.p)
           /\ Receives(Cur.c, Cur.k) /\ Cur.k.state # "NONE" /\ Cur.c.dead # "frame"
           /\ Cur.c.dead = "stale" => Cur.c.aborted \/ ~Cur.c.alive
           /\ Cur.c.client_closed => \/ Cur.p.state \in {"CLOSING", "TIME_WAIT", "freed"}
                                     \/ FinAtAccept \in Cur.h
           /\ Cur.p.state # "freed" /\ ~Cur.p.closed /\ input \in InputT /\ Cur \in State
           /\ input.phase = "data" => input.data # <<>>
           /\ input.phase = "fin" => input.fin
<1>1. Base(Cur, input, cb, app, srv) /\ Callbacks(Cur.c, Cur.k, Cur.p) /\ Receives(Cur.c, Cur.k)
  BY DEF Inv, Good
<1>2. Core(Cur, input, app, srv) /\ Flow(Cur.c, Cur.k, Cur.p, input, cb)
      /\ Frame(Cur.c, Cur.p, cb, Cur.f) /\ LetGo(Cur.c, Cur.p, input, cb, Cur.h)
  BY <1>1 DEF Base
<1>3. input \in InputT /\ Cur \in State  BY <1>2 DEF Core, World
<1>4. Cur.k.state # "NONE" /\ Cur.p.state # "freed" /\ ~Cur.p.closed
      /\ (input.phase = "data" => input.data # <<>>) /\ (input.phase = "fin" => input.fin)
  BY <1>2 DEF Flow
<1>5. /\ Cur.c.dead # "frame" /\ (Cur.c.dead = "stale" => Cur.c.aborted \/ ~Cur.c.alive)
  BY <1>2 DEF Frame
<1>6. Cur.c.client_closed => \/ Cur.p.state \in {"CLOSING", "TIME_WAIT", "freed"}
                             \/ FinAtAccept \in Cur.h
  BY <1>2 DEF LetGo
<1> QED BY <1>1, <1>2, <1>3, <1>4, <1>5, <1>6

\* The smaller of two numbers.
LEMMA Min2Is ==
    ASSUME NEW m \in Nat, NEW n \in Nat
    PROVE  Min2(m, n) \in 0..n /\ (m <= n => Min2(m, n) = m)
  BY DEF Min2

\* The window with the byte of the FIN.
FinWindow(p) == Min2(p.rcv_wnd + 1, TCP_WND)
\* The proxy has or will get everything, and the application has closed.
AllUp(c) == Size(srv.got) + Size(c.buf) = app.sent /\ app.fin

\* The window gets the byte of the FIN back.
LEMMA FinTaken ==
    ASSUME Inv, cb = "none", input.phase = "fin",
           NEW w, w = FinWindow(Cur.p), NEW s, s = MoveWindow(Cur, w),
           NEW j, j = At("end")
    PROVE  /\ Between(s, j) /\ s.p.cbs = pcb.cbs /\ input \in InputT
           /\ j \in InputT /\ j.phase = "end"
           /\ "recv" \in pcb.cbs => AllUp(s.c) /\ ~s.c.client_closed
<1>3. /\ Core(Cur, input, app, srv) /\ Callbacks(Cur.c, Cur.k, Cur.p)
      /\ Receives(Cur.c, Cur.k) /\ Cur.k.state # "NONE" /\ Cur.c.dead # "frame"
      /\ Cur.c.dead = "stale" => Cur.c.aborted \/ ~Cur.c.alive
      /\ Cur.c.client_closed => \/ Cur.p.state \in {"CLOSING", "TIME_WAIT", "freed"}
                                \/ FinAtAccept \in Cur.h
      /\ input \in InputT /\ Cur \in State /\ input.fin
  BY Ongoing
<1>4. /\ j.phase = "end" /\ j.data = input.data /\ (j.fin <=> input.fin) /\ j \in InputT
  BY <1>3, AtIs
<1>5. /\ Ack(input) = 0 /\ Ack(j) = 0 /\ InFlight(j) = 0 /\ InFlight(input) = 0
      /\ Left(j) = 0 /\ Left(input) = 1
  BY <1>3, <1>4 DEF Ack, InFlight, Left, Fin
<1>6. World(input, app, srv) /\ Queues(Cur.c, Cur.k, Cur.p, input) /\ Up(Cur.c, Cur.p, input, Cur.h, app, srv)
  BY <1>3 DEF Core
<1>7. /\ Cur.p.rcv_wnd \in Nat /\ Size(Cur.c.buf) \in Nat /\ Size(srv.got) \in Nat /\ app.sent \in Nat
  BY <1>3, <1>6, Numbers
<1>a. Cur.p.rcv_wnd + 1 \in Nat /\ TCP_WND \in Nat  BY <1>7, SizesAssumption
<1>b. w = Min2(Cur.p.rcv_wnd + 1, TCP_WND)  BY DEF FinWindow
<1>8. w \in 0..TCP_WND
  BY <1>a, <1>b, Min2Is
<1>9. "recv" \in Cur.p.cbs => TCP_WND = w + Size(Cur.c.buf) + Left(j)
  <2>1. "recv" \in Cur.p.cbs => TCP_WND = Cur.p.rcv_wnd + Size(Cur.c.buf) + 1
    BY <1>3, <1>5, <1>6, WindowIs
  <2>2. "recv" \in Cur.p.cbs => w = Cur.p.rcv_wnd + 1
    <3>1. "recv" \in Cur.p.cbs => Cur.p.rcv_wnd + 1 <= TCP_WND  BY <1>7, <2>1, SizesAssumption
    <3> QED BY <1>a, <1>b, <3>1, Min2Is
  <2> QED BY <1>5, <1>7, <2>1, <2>2
<1>10. /\ Core(s, j, app, srv) /\ SamePcb(Cur.p, s.p)
       /\ s.c = Cur.c /\ s.k = Cur.k /\ s.h = Cur.h
  <2>3. /\ Ack(j) = Ack(input) /\ (j.fin => input.fin) /\ InFlight(j) = InFlight(input)
        /\ (InFlight(j) > 0 => j.data = input.data)
    BY <1>4, <1>5
  <2>4. Core(Cur, input, app, srv) /\ Cur.k.state # "NONE"  BY <1>3
  <2>5. j \in InputT  BY <1>4
  <2> QED BY <1>8, <1>9, <2>3, <2>4, <2>5, WindowMoves
<1>11. Callbacks(s.c, s.k, s.p) /\ Receives(s.c, s.k) /\ s.p.cbs = pcb.cbs
  BY <1>3, <1>10, CurIs DEF Callbacks, SamePcb
<1>12. Between(s, j)
    BY <1>3, <1>10, <1>11 DEF Between, SamePcb
<1>13. ASSUME "recv" \in pcb.cbs
       PROVE  AllUp(s.c) /\ ~s.c.client_closed
  <2>1. Size(srv.got) + Size(Cur.c.buf) + InFlight(input) = app.sent /\ app.fin
    BY <1>3, <1>6, <1>13, CurIs DEF Up
  <2>2. Size(srv.got) + Size(s.c.buf) = app.sent
    BY <1>5, <1>7, <1>10, <2>1
  <2> QED BY <1>3, <1>10, <1>13, <2>1, <2>2, CurIs DEF Callbacks, AllUp
<1> QED BY <1>3, <1>4, <1>11, <1>12, <1>13

\* client_recv_func() with no data: the application has closed.
LEMMA FinCloses ==
    ASSUME input.phase # "idle", NEW j \in InputT, j.phase = "end", NEW s, Between(s, j), ~s.c.client_closed,
           AllUp(s.c),
           NEW e, e = Entered(s), NEW r, r = Because(e, ClientClosed),
           NEW ok \in BOOLEAN, NEW t, t = client_free_client(r, ok), NEW b, b = "fin"
    PROVE  Good(t, j, b, app, srv)
<1>1. /\ Core(s, j, app, srv) /\ Callbacks(s.c, s.k, s.p) /\ Receives(s.c, s.k)
      /\ s.k.state # "NONE"
  BY DEF Between
<1>2. /\ Ctl(e, j, b) /\ Data(e, j, app, srv)
      /\ SameFields(s.c, e.c) /\ e.c.buf = s.c.buf /\ e.k = s.k
  BY <1>1, EnteredKeeps
<1>3. Base(e, j, b, app, srv)  BY <1>2, Parts
<1>4. ClientClosed \in Causes /\ ClientClosed \in DownLost  BY DEF Causes, DownLost, ClientClosed
<1>5. /\ Base(r, j, b, app, srv) /\ r.c = e.c /\ r.k = e.k /\ r.h = e.h \cup {ClientClosed}
  BY <1>3, <1>4, BecauseKeeps
<1>6. r.k.state # "NONE" /\ ~r.c.client_closed /\ r.c.buf = s.c.buf
  BY <1>1, <1>2, <1>5 DEF SameFields
<1>7. PreClose(r)  BY <1>5, <1>6, MayClose
<1>8. Closing(r, t, ~ok, Stays(r))
  BY <1>7, FreeClientIs
<1>9. UpTold(r, t, ~ok, app, srv)
  BY <1>6 DEF UpTold, AllUp
<1>10. DownTold(r, ~ok, app, srv)
  BY <1>4, <1>5 DEF DownTold
<1>11. Stays(r) \in BOOLEAN /\ (~ok) \in BOOLEAN  BY DEF Stays
<1> QED BY <1>5, <1>6, <1>8, <1>9, <1>10, <1>11, ClosingKeeps

\* The callback for a FIN keeps the invariant.
LEMMA InputFinKeeps == ASSUME Inv, InputFin PROVE Inv'
<1>1. /\ input.phase = "fin" /\ cb = "none" /\ UNCHANGED <<app, srv>>
  BY DEF InputFin
<1> DEFINE w == FinWindow(Cur.p)
           s == MoveWindow(Cur, w)
           j == At("end")
<1>2. IF "recv" \in pcb.cbs
        THEN \E ok \in Closes :
               Enter("fin", "end",
                     client_free_client(Because(Entered(s), ClientClosed), ok))
        ELSE Continue("end", s)
  <2>1. s = [Cur EXCEPT !.p.rcv_wnd = Min2(@ + 1, TCP_WND)]  BY CurIs DEF MoveWindow, FinWindow
  <2> HIDE DEF s
  <2> QED BY <2>1 DEF InputFin, ClientClosed
<1>3. /\ Between(s, j) /\ s.p.cbs = pcb.cbs /\ input \in InputT
      /\ j \in InputT /\ j.phase = "end"
      /\ "recv" \in pcb.cbs => AllUp(s.c) /\ ~s.c.client_closed
  BY <1>1, FinTaken
<1> HIDE DEF s
<1>4. CASE "recv" \notin pcb.cbs
  <2>1. Continue("end", s)  BY <1>2, <1>4
  <2> QED BY <1>1, <1>3, <2>1, ContinueKeeps
<1> HIDE DEF j
<1>5. CASE "recv" \in pcb.cbs
  <2>1. PICK ok \in Closes : Enter("fin", "end",
                     client_free_client(Because(Entered(s), ClientClosed), ok))
    BY <1>2, <1>5
  <2> DEFINE t == client_free_client(Because(Entered(s), ClientClosed), ok)
  <2>2. Become(t) /\ cb' = "fin" /\ input' = j
    BY <2>1 DEF Enter, At, j
  <2>3. Good(t, j, "fin", app, srv)
    BY <1>1, <1>3, <1>5, ClosesBoolean, FinCloses
  <2> HIDE DEF t
  <2> QED BY <1>1, <2>2, <2>3, InvNext
<1> QED BY <1>4, <1>5

-----------------------------------------------------------------------------
(* The callback for data.                                                  *)

\* An assertion that holds adds no fault.
LEMMA CheckIs == ASSUME NEW s, NEW ok, ok, NEW what PROVE Check(s, ok, what) = s
  BY DEF Check

\* client_send_to_socks() puts the whole buffer in flight.
LEMMA SendToSocksIs ==
    ASSUME NEW s \in State, ~s.c.socks_closed, s.c.socks_up, s.c.buf # <<>>, s.k.send = 0,
           NEW n \in 0..TCP_WND, n = Size(s.c.buf),
           NEW t, t = client_send_to_socks(s)
    PROVE  /\ t \in State /\ t.c = s.c /\ t.p = s.p /\ t.f = s.f /\ t.h = s.h
           /\ t.k.state = s.k.state /\ (t.k.recv <=> s.k.recv) /\ t.k.send = n
<1> DEFINE ok == ~s.c.socks_closed /\ s.c.socks_up /\ s.c.buf # <<>> /\ s.k.send = 0
           l == [s.k EXCEPT !.send = n]
<1>1. ok  OBVIOUS
<1>2. Check(s, ok, "send to SOCKS out of turn") = s  BY <1>1, CheckIs
<1>3. t = [s EXCEPT !.k.send = Len(s.c.buf)]
  BY <1>2, Zenon DEF client_send_to_socks
<1>4. t = [s EXCEPT !.k.send = n]  BY <1>3 DEF Size
<1>5. t = [s EXCEPT !.k = l]  BY <1>4
<1>6. l \in SocksT /\ l.state = s.k.state /\ (l.recv <=> s.k.recv) /\ l.send = n
  BY DEF State, SocksT
<1> HIDE DEF l
<1> QED BY <1>5, <1>6 DEF State

\* client_socks_recv_initiate() puts a receive in flight.
LEMMA RecvInitiateIs ==
    ASSUME NEW s \in State, ~s.c.client_closed, ~s.c.socks_closed, s.c.socks_up,
           s.c.rbuf = <<>>, ~s.k.recv, NEW t, t = client_socks_recv_initiate(s)
    PROVE  /\ t \in State /\ t.c = s.c /\ t.p = s.p /\ t.f = s.f /\ t.h = s.h
           /\ t.k.state = s.k.state /\ t.k.recv /\ t.k.send = s.k.send
<1> DEFINE ok == ~s.c.client_closed /\ ~s.c.socks_closed /\ s.c.socks_up
                 /\ s.c.rbuf = <<>> /\ ~s.k.recv
           l == [s.k EXCEPT !.recv = TRUE]
<1>1. ok  OBVIOUS
<1>2. Check(s, ok, "receive from SOCKS out of turn") = s  BY <1>1, CheckIs
<1>3. t = [s EXCEPT !.k.recv = TRUE]
  BY <1>2, Zenon DEF client_socks_recv_initiate
<1>5. t = [s EXCEPT !.k = l]  BY <1>3
<1>6. l \in SocksT /\ l.state = s.k.state /\ l.recv /\ l.send = s.k.send
  BY DEF State, SocksT
<1> HIDE DEF l
<1> QED BY <1>5, <1>6 DEF State

\* The client's buffer is set to d.
SetBuf(s, d) == [s EXCEPT !.c.buf = d]

\* Changing the client's buffer.
LEMMA NewBuf ==
    ASSUME NEW s \in State, NEW d \in Seq(1..MaxUp), NEW t, t = SetBuf(s, d)
    PROVE  /\ t \in State /\ t.k = s.k /\ t.p = s.p /\ t.f = s.f /\ t.h = s.h
           /\ SameFields(s.c, t.c) /\ t.c.dead = s.c.dead /\ t.c.buf = d
           /\ t.c.rbuf = s.c.rbuf /\ t.c.rsent = s.c.rsent /\ t.c.waiting = s.c.waiting
           /\ t.c.pending = s.c.pending
<1> DEFINE e == [s.c EXCEPT !.buf = d]
<1>1. /\ e \in ClientT /\ SameFields(s.c, e) /\ e.dead = s.c.dead /\ e.buf = d
      /\ e.rbuf = s.c.rbuf /\ e.rsent = s.c.rsent /\ e.waiting = s.c.waiting
      /\ e.pending = s.c.pending
  BY DEF State, ClientT, SameFields
<1>2. t = [s EXCEPT !.c = e]  BY DEF SetBuf
<1> HIDE DEF e
<1> QED BY <1>1, <1>2 DEF State

\* What client_recv_func() makes of data that has room.
LEMMA RecvFuncIs ==
    ASSUME NEW s \in State, Sends(s.c, s.k), Life(s.c, s.k, s.p), ~s.c.socks_closed,
           NEW data \in Seq(1..MaxUp), data # <<>>,
           NEW m \in Int, Counts(s.c.buf, m), Counts(data, m + Size(s.c.buf)),
           Size(s.c.buf) + Size(data) <= TCP_WND,
           NEW t, t = client_recv_func(s, data)
    PROVE  /\ t \in State /\ t.p = s.p /\ t.f = s.f /\ t.h = s.h
           /\ SameFields(s.c, t.c) /\ t.c.dead = s.c.dead
           /\ t.c.rbuf = s.c.rbuf /\ t.c.rsent = s.c.rsent /\ t.c.waiting = s.c.waiting
           /\ t.c.pending = s.c.pending
           /\ t.k.state = s.k.state /\ (t.k.recv <=> s.k.recv)
           /\ Size(t.c.buf) = Size(s.c.buf) + Size(data) /\ Counts(t.c.buf, m)
           /\ Sends(t.c, t.k)
<1>1. /\ s.c.buf \in Seq(1..MaxUp) /\ s.k \in SocksT /\ s.c \in ClientT
  BY DEF State, ClientT
<1>2. /\ Size(s.c.buf) \in Nat /\ Size(data) \in Nat /\ Size(data) # 0
      /\ (Size(s.c.buf) = 0 <=> s.c.buf = <<>>) /\ s.k.send \in Nat /\ TCP_WND \in Nat
  BY <1>1, SizeNat, SizesAssumption, SMTT(30) DEF SocksT
<1> DEFINE d == Cat(s.c.buf, data)
           u == [s EXCEPT !.c.buf = d]
<1>3. d \in Seq(1..MaxUp) /\ Size(d) = Size(s.c.buf) + Size(data) /\ Counts(d, m)
  BY <1>1, CountsCat
<1>4. t = IF d = data /\ s.c.socks_up THEN client_send_to_socks(u) ELSE u
  <2>1. ~(Len(data) > TCP_WND - Len(s.c.buf))  BY <1>2 DEF Size
  <2>2. [s EXCEPT !.c.buf = @ \o data] = u  BY DEF Cat
  <2>3. u.c.buf = d /\ u.c.socks_up = s.c.socks_up
    BY <1>1 DEF ClientT, State
  <2> HIDE DEF d, u
  <2>4. t = LET x == [s EXCEPT !.c.buf = @ \o data]
            IN  IF x.c.buf = data /\ x.c.socks_up THEN client_send_to_socks(x) ELSE x
    BY <2>1 DEF client_recv_func
  <2> QED BY <2>2, <2>3, <2>4
<1> HIDE DEF d
<1>5. /\ u \in State /\ u.k = s.k /\ u.p = s.p /\ u.f = s.f /\ u.h = s.h
      /\ SameFields(s.c, u.c) /\ u.c.dead = s.c.dead /\ u.c.buf = d
      /\ u.c.rbuf = s.c.rbuf /\ u.c.rsent = s.c.rsent /\ u.c.waiting = s.c.waiting
      /\ u.c.pending = s.c.pending
  <2>1. u = SetBuf(s, d)  BY DEF SetBuf
  <2> HIDE DEF u
  <2>2. d \in Seq(1..MaxUp)  BY <1>3
  <2> QED BY <2>1, <2>2, NewBuf
<1> HIDE DEF u
<1>6. Size(d) \in 0..TCP_WND /\ Size(d) # 0 /\ d # <<>>
  <2>1. Size(d) \in 0..TCP_WND /\ Size(d) # 0  BY <1>2, <1>3
  <2> QED BY <2>1, SizeNat
<1>7. d = data => Size(s.c.buf) = 0
  BY <1>2, <1>3
<1>8. /\ (s.k.state = "UP" => (s.k.send > 0 <=> s.c.buf # <<>>))
      /\ (s.k.state # "UP" => s.k.send = 0 /\ ~s.k.recv)
      /\ s.k.send <= Size(s.c.buf)
      /\ (s.c.rbuf = <<>> => s.c.rsent = 0)
      /\ s.c.rsent <= Size(s.c.rbuf) /\ Size(s.c.rbuf) <= RecvBufSize
      /\ (s.c.pending > 0 => s.c.socks_up)
  BY DEF Sends
<1>9. s.c.socks_up <=> s.k.state = "UP"
  BY DEF Life
<1>10. CASE d = data /\ s.c.socks_up
  <2>1. s.k.send = 0  BY <1>2, <1>7, <1>8, <1>10
  <2>2. t = client_send_to_socks(u)  BY <1>4, <1>10
  <2>3. /\ ~u.c.socks_closed /\ u.c.socks_up /\ u.c.buf # <<>> /\ u.k.send = 0
    BY <1>5, <1>6, <1>10, <2>1 DEF SameFields
  <2>4. /\ t \in State /\ t.c = u.c /\ t.p = u.p /\ t.f = u.f /\ t.h = u.h
        /\ t.k.state = u.k.state /\ (t.k.recv <=> u.k.recv) /\ t.k.send = Size(d)
    BY <1>5, <1>6, <2>2, <2>3, SendToSocksIs
  <2>5. Sends(t.c, t.k)
    <3>1. Size(d) > 0 /\ Size(d) <= TCP_WND  BY <1>6, SizesAssumption
    <3>2. t.k.send > 0 /\ t.k.send <= Size(t.c.buf) /\ Size(t.c.buf) <= TCP_WND
          /\ t.c.buf # <<>> /\ t.k.state = "UP"
      BY <1>2, <1>3, <1>5, <1>6, <1>9, <1>10, <2>4, <3>1
    <3> QED BY <1>5, <1>8, <2>4, <3>2 DEF Sends, SameFields
  <2> QED BY <1>3, <1>5, <2>4, <2>5
<1>11. CASE ~(d = data /\ s.c.socks_up)
  <2>1. t = u  BY <1>4, <1>11
  <2>2. s.k.state = "UP" => s.c.buf # <<>>
    <3>1. s.c.buf = <<>> => d = data  BY <1>1 DEF d, Cat
    <3> QED BY <1>9, <1>11, <3>1
  <2>3. s.k.send <= Size(d) /\ Size(d) <= TCP_WND
    BY <1>2, <1>3, <1>6, <1>8
  <2>4. Sends(t.c, t.k)
    BY <1>5, <1>6, <1>8, <2>1, <2>2, <2>3 DEF Sends, SameFields
  <2> QED BY <1>3, <1>5, <2>1, <2>4
<1> QED BY <1>10, <1>11

\* A pcb that is not freed may be used.
LEMMA TouchIs == ASSUME NEW s, s.p.state # "freed" PROVE Touch(s) = s
  BY CheckIs, Zenon DEF Touch

\* tcp_abort() of a pcb without error callback only frees it.
LEMMA TcpAbortIs ==
    ASSUME NEW s, s.p.state # "freed", "err" \notin s.p.cbs
    PROVE  tcp_abort(s) = FreePcb(s)
  BY TouchIs, CheckIs, Zenon DEF tcp_abort

\* The window after n bytes were taken.
Opened(p, n) == Min2(p.rcv_wnd + n, TCP_WND)

\* tcp_recved() opens the window.
LEMMA TcpRecvedIs ==
    ASSUME NEW s, s.p.state # "freed", NEW n
    PROVE  tcp_recved(s, n) = MoveWindow(s, Opened(s.p, n))
<1>1. tcp_recved(s, n) = [s EXCEPT !.p.rcv_wnd = Min2(@ + n, TCP_WND)]
  BY TouchIs, Zenon DEF tcp_recved
<1> QED BY <1>1 DEF MoveWindow, Opened

\* The window is opened exactly when it stays within TCP_WND.
LEMMA OpenedIs ==
    ASSUME NEW s \in State, NEW n \in Nat
    PROVE  /\ Opened(s.p, n) \in 0..TCP_WND
           /\ s.p.rcv_wnd + n <= TCP_WND => Opened(s.p, n) = s.p.rcv_wnd + n
<1>1. s.p.rcv_wnd \in Nat /\ TCP_WND \in Nat
  BY SizesAssumption DEF State, PcbT
<1>2. s.p.rcv_wnd + n \in Nat  BY <1>1
<1> QED BY <1>1, <1>2, Min2Is DEF Opened

\* client_recv_func() with data.
LEMMA DataBuffered ==
    ASSUME Inv, cb = "none", input.phase = "data", "recv" \in Cur.p.cbs,
           NEW e, e = Entered(Cur), NEW t, t = client_recv_func(e, input.data),
           NEW j, j = At("fin"), NEW b, b = "recv"
    PROVE  Good(t, j, b, app, srv)
<1>1. /\ Core(Cur, input, app, srv) /\ Callbacks(Cur.c, Cur.k, Cur.p)
      /\ Receives(Cur.c, Cur.k) /\ Cur.k.state # "NONE" /\ input \in InputT
      /\ input.data # <<>>
  BY Ongoing
<1>2. ~Cur.c.client_closed /\ ~Cur.c.socks_closed  BY <1>1 DEF Callbacks
<1>3. /\ j.phase = "fin" /\ j.data = input.data /\ (j.fin <=> input.fin) /\ j \in InputT
      /\ input.data \in Seq(1..MaxUp)
  BY <1>1, AtIs DEF InputT
<1>4. /\ e.k = Cur.k /\ e.p = Cur.p /\ e.h = Cur.h /\ SameFields(Cur.c, e.c) /\ e.c.buf = Cur.c.buf
      /\ Ctl(e, j, b) /\ Data(e, input, app, srv) /\ Receives(e.c, e.k)
  BY <1>1, <1>2, <1>3, EnteredKeeps
<1>5. /\ e \in State /\ Life(e.c, e.k, e.p) /\ e.k.state # "NONE" /\ "recv" \in e.p.cbs
      /\ ~e.c.client_closed /\ ~e.c.socks_closed
      /\ World(input, app, srv) /\ World(j, app, srv) /\ Sends(e.c, e.k)
      /\ Queues(e.c, e.k, e.p, input)
      /\ Up(e.c, e.p, input, e.h, app, srv) /\ Down(e.c, e.k, e.p, e.h, app, srv)
  BY <1>1, <1>2, <1>3, <1>4 DEF Ctl, Data, World, SameFields
<1>6. /\ Size(srv.got) \in Nat /\ Size(e.c.buf) \in Nat /\ Size(input.data) \in Nat
      /\ app.sent \in Nat /\ e.p.rcv_wnd \in Nat /\ Fin(input) \in {0, 1}
  BY <1>5, Numbers
<1>7. /\ InFlight(input) = Size(input.data) /\ InFlight(j) = 0
      /\ Left(input) = Size(input.data) + Fin(input) /\ Ack(input) = 0 /\ Ack(j) = 0
      /\ Fin(j) = Fin(input)
  <2>1. j.phase = "fin" /\ (j.fin <=> input.fin)  BY <1>3
  <2> QED BY <2>1 DEF InFlight, Left, Ack, Fin
<1>8. TCP_WND = e.p.rcv_wnd + Size(e.c.buf) + (Size(input.data) + Fin(input))
  <2>1. TCP_WND = e.p.rcv_wnd + Size(e.c.buf) + Left(input)
    BY <1>5, WindowIs
  <2> QED BY <1>7, <2>1
<1>9. Size(e.c.buf) + Size(input.data) <= TCP_WND
  BY <1>6, <1>8
<1>10. /\ Counts(srv.got, 0) /\ Counts(e.c.buf, Size(srv.got))
       /\ Size(srv.got) + Size(e.c.buf) + Size(input.data) = app.sent
       /\ Counts(input.data, Size(srv.got) + Size(e.c.buf))
  <2>1. /\ Counts(srv.got, 0) /\ Counts(e.c.buf, Size(srv.got))
        /\ InFlight(input) > 0 => Counts(input.data, app.sent - Size(input.data))
        /\ Size(srv.got) + Size(e.c.buf) + InFlight(input) = app.sent
    BY <1>5 DEF Up
  <2>2. Size(input.data) # 0  BY <1>1, <1>3, SizeNat
  <2>3. InFlight(input) > 0  BY <1>6, <1>7, <2>2
  <2>4. app.sent - Size(input.data) = Size(srv.got) + Size(e.c.buf)
    BY <1>6, <1>7, <2>1
  <2> QED BY <1>7, <2>1, <2>3, <2>4
<1>11. Size(srv.got) \in Int  BY <1>6
<1>12. /\ t \in State /\ t.p = e.p /\ t.f = e.f /\ t.h = e.h
       /\ SameFields(e.c, t.c) /\ t.c.dead = e.c.dead
       /\ t.c.rbuf = e.c.rbuf /\ t.c.rsent = e.c.rsent /\ t.c.waiting = e.c.waiting
       /\ t.c.pending = e.c.pending
       /\ t.k.state = e.k.state /\ (t.k.recv <=> e.k.recv)
       /\ Size(t.c.buf) = Size(e.c.buf) + Size(input.data) /\ Counts(t.c.buf, Size(srv.got))
       /\ Sends(t.c, t.k)
  BY <1>1, <1>3, <1>5, <1>9, <1>10, <1>11, RecvFuncIs
<1>13. e.k.state # "FREE"  BY <1>5 DEF Life
<1>14. Ctl(t, j, b)
  <2>1. SamePcb(e.p, t.p)  BY <1>12 DEF SamePcb
  <2> QED BY <1>3, <1>4, <1>5, <1>12, <1>13, <2>1, CtlKeeps
<1>15. Queues(t.c, t.k, t.p, j)
  <2>1. TCP_WND = e.p.rcv_wnd + Size(t.c.buf) + 0 + Fin(j)
    BY <1>6, <1>7, <1>8, <1>12
  <2> QED BY <1>3, <1>5, <1>7, <1>12, <2>1 DEF Queues, SameFields
<1>16. Up(t.c, t.p, j, t.h, app, srv)
  <2>1. ~t.c.client_closed /\ ~t.c.socks_closed /\ t.p.cbs = e.p.cbs
    BY <1>5, <1>12 DEF SameFields
  <2>2. Size(srv.got) + Size(t.c.buf) + InFlight(j) = app.sent
    BY <1>6, <1>7, <1>10, <1>12
  <2>3. Size(srv.got) + (IF t.c.socks_closed THEN 0 ELSE Size(t.c.buf)) + InFlight(j) <= app.sent
    BY <1>6, <2>1, <2>2
  <2>4. j.fin => app.fin  BY <1>3, <1>5 DEF Up
  <2>5. t.c.aborted => "aborted" \in t.h  BY <1>5, <1>12 DEF Up, SameFields
  <2> QED BY <1>7, <1>10, <1>12, <2>1, <2>2, <2>3, <2>4, <2>5 DEF Up
<1>17. Down(t.c, t.k, t.p, t.h, app, srv)
  BY <1>5, <1>12 DEF Down, SameFields
<1>18. Receives(t.c, t.k)
  BY <1>4, <1>5, <1>12 DEF Receives, SameFields
<1> QED BY <1>5, <1>12, <1>14, <1>15, <1>16, <1>17, <1>18, Parts DEF Data

\* tcp_recv_null() takes what the client no longer wants.
LEMMA DataDropped ==
    ASSUME Inv, cb = "none", input.phase = "data", "recv" \notin Cur.p.cbs,
           NEW n, n = Size(input.data), NEW w, w = Opened(Cur.p, n),
           NEW s, s = MoveWindow(Cur, w), NEW j, j = At("fin")
    PROVE  Between(s, j)
<1>1. /\ Core(Cur, input, app, srv) /\ Callbacks(Cur.c, Cur.k, Cur.p)
      /\ Receives(Cur.c, Cur.k) /\ Cur.k.state # "NONE" /\ input \in InputT
      /\ Cur \in State /\ Cur.c.dead # "frame"
      /\ Cur.c.dead = "stale" => Cur.c.aborted \/ ~Cur.c.alive
      /\ Cur.c.client_closed => \/ Cur.p.state \in {"CLOSING", "TIME_WAIT", "freed"}
                                \/ FinAtAccept \in Cur.h
  BY Ongoing
<1>2. /\ j.phase = "fin" /\ j.data = input.data /\ (j.fin <=> input.fin) /\ j \in InputT
  BY <1>1, AtIs
<1>3. n \in Nat  BY <1>1, SizeNat DEF InputT
<1>4. w \in 0..TCP_WND  BY <1>1, <1>3, OpenedIs
<1>5. InFlight(j) = 0 /\ Ack(j) = Ack(input)
  BY <1>2 DEF InFlight, Ack
<1>6. /\ Core(s, j, app, srv) /\ SamePcb(Cur.p, s.p)
      /\ s.c = Cur.c /\ s.k = Cur.k /\ s.h = Cur.h
  BY <1>1, <1>2, <1>4, <1>5, WindowMoves
<1>7. Callbacks(s.c, s.k, s.p) /\ Receives(s.c, s.k)
  BY <1>1, <1>6 DEF Callbacks, SamePcb
<1> QED BY <1>1, <1>6, <1>7 DEF Between, SamePcb

\* Handing a segment's data to the client keeps the invariant.
LEMMA InputDataKeeps == ASSUME Inv, InputData PROVE Inv'
<1>1. /\ input.phase = "data" /\ cb = "none" /\ UNCHANGED <<app, srv>>
  BY DEF InputData
<1>2. /\ Core(Cur, input, app, srv) /\ Callbacks(Cur.c, Cur.k, Cur.p)
      /\ Receives(Cur.c, Cur.k) /\ Cur.k.state # "NONE" /\ input \in InputT
      /\ Cur.p.state # "freed" /\ ~Cur.p.closed /\ Cur.c.dead # "frame" /\ Cur \in State
      /\ Cur.c.dead = "stale" => Cur.c.aborted \/ ~Cur.c.alive
  BY <1>1, Ongoing
<1>3. CASE pcb.rxclosed
  <2>1. Cur.c.client_closed  BY <1>2, <1>3, CurIs DEF Core, Life
  <2>2. "err" \notin Cur.p.cbs  BY <1>2, <2>1 DEF Callbacks
  <2> DEFINE t == FreePcb(Cur)
  <2>3. Continue("fin", t)
    BY <1>2, <1>3, <2>2, TcpAbortIs, Zenon DEF InputData
  <2>4. t.p.state = "freed" /\ (t.p.closed <=> Cur.p.closed)  BY <1>2, FreePcbIs
  <2>5. Good(t, NoSegment, "none", app, srv)
    BY <1>2, <2>1, NoSegmentIs, FreedKeeps
  <2> HIDE DEF t
  <2>6. Become(t) /\ input' = NoSegment /\ cb' = "none"
    BY <1>2, <2>3, <2>4 DEF Continue
  <2> QED BY <1>1, <2>5, <2>6, InvNext
<1>4. CASE ~pcb.rxclosed /\ "recv" \in pcb.cbs
  <2> DEFINE t == client_recv_func(Entered(Cur), input.data)
             j == At("fin")
  <2>1. Become(t) /\ cb' = "recv" /\ input' = j
    BY <1>4 DEF InputData, Enter, At
  <2>2. "recv" \in Cur.p.cbs  BY <1>4, CurIs
  <2>3. Good(t, j, "recv", app, srv)
    BY <1>1, <2>2, DataBuffered
  <2> HIDE DEF t, j
  <2> QED BY <1>1, <2>1, <2>3, InvNext
<1>5. CASE ~pcb.rxclosed /\ "recv" \notin pcb.cbs
  <2> DEFINE s == MoveWindow(Cur, Opened(Cur.p, Size(input.data)))
  <2>1. s = tcp_recved(Cur, Len(input.data))
    BY <1>2, TcpRecvedIs DEF Size
  <2>2. "recv" \notin Cur.p.cbs  BY <1>5, CurIs
  <2>3. Between(s, At("fin"))
    BY <1>1, <2>2, DataDropped
  <2> HIDE DEF s
  <2>4. Continue("fin", s)
    BY <1>5, <2>1 DEF InputData
  <2> QED BY <1>1, <1>2, <2>3, <2>4, ContinueKeeps
<1> QED BY <1>3, <1>4, <1>5

-----------------------------------------------------------------------------
(* A callback returns.                                                     *)

\* DEAD_LEAVE2: the frame pointer is forgotten, and the answer is right.
LEMMA ReturnedIs ==
    ASSUME Inv, cb # "none", NEW s, s = Returned(Cur)
    PROVE  /\ Core(s, input, app, srv) /\ Callbacks(s.c, s.k, s.p) /\ Receives(s.c, s.k)
           /\ s.k = Cur.k /\ s.p = Cur.p /\ s.h = Cur.h /\ s.c.buf = Cur.c.buf
           /\ SameFields(Cur.c, s.c) /\ s.k.state # "NONE" /\ input \in InputT
           /\ input.phase \in {"receive", "data", "fin", "end"}
           /\ s.c.dead # "frame" /\ (s.c.dead = "stale" => s.c.aborted \/ ~s.c.alive)
<1>1. /\ Core(Cur, input, app, srv) /\ Frame(Cur.c, Cur.p, cb, Cur.f) /\ Cur \in State
      /\ Callbacks(Cur.c, Cur.k, Cur.p) /\ Receives(Cur.c, Cur.k)
  BY DEF Inv, Good, Base, Core
<1>a. /\ Cur.k.state # "NONE" /\ input \in InputT
      /\ input.phase \in {"receive", "data", "fin", "end"}
  BY DEF Inv, Good, Base, Core, World, Flow, CbT
<1>2. Cur.f \in {-1, 0, 1}  BY <1>1 DEF State
<1>3. /\ (Cur.f = 1 <=> Cur.c.aborted) /\ (Cur.f = -1 <=> ~Cur.c.aborted /\ ~Cur.c.alive)
      /\ (Cur.p.state = "freed" <=> Cur.c.aborted)
  BY <1>1 DEF Frame
<1> DEFINE u == [Cur EXCEPT !.c.dead = IF Cur.f = 0 THEN "null" ELSE "stale"]
           ok == (Cur.f > 0) = (Cur.p.state = "freed")
<1>4. ok
  <2>1. Cur.f > 0 <=> Cur.f = 1  BY <1>2
  <2> QED BY <1>3, <2>1
<1>5. s = u
  <2>1. s = Check(u, ok, "ERR_ABRT and tcp_abort() differ")
    BY Zenon DEF Returned
  <2> HIDE DEF u, ok
  <2> QED BY <1>4, <2>1, CheckIs
<1> DEFINE d == [Cur.c EXCEPT !.dead = IF Cur.f = 0 THEN "null" ELSE "stale"]
<1>6. /\ d \in ClientT /\ SameFields(Cur.c, d) /\ d.buf = Cur.c.buf
      /\ d.rbuf = Cur.c.rbuf /\ d.rsent = Cur.c.rsent /\ d.waiting = Cur.c.waiting
      /\ d.pending = Cur.c.pending
      /\ d.dead = (IF Cur.f = 0 THEN "null" ELSE "stale")
  BY <1>1 DEF State, ClientT, SameFields
<1>7. s = [Cur EXCEPT !.c = d]  BY <1>5
<1> HIDE DEF d
<1>8. /\ s \in State /\ s.c = d /\ s.k = Cur.k /\ s.p = Cur.p /\ s.h = Cur.h
  BY <1>1, <1>6, <1>7 DEF State
<1>9. s.c.dead # "frame" /\ (s.c.dead = "stale" => s.c.aborted \/ ~s.c.alive)
  <2>1. SameFields(Cur.c, s.c) /\ s.c.dead = (IF Cur.f = 0 THEN "null" ELSE "stale")  BY <1>6, <1>8
  <2>2. Cur.f # 0 => Cur.c.aborted \/ ~Cur.c.alive  BY <1>2, <1>3
  <2> QED BY <2>1, <2>2 DEF SameFields
<1>10. Life(s.c, s.k, s.p)
  BY <1>1, <1>6, <1>8, <1>9, <1>a DEF Core, Life, SameFields
<1>11. Sends(s.c, s.k) /\ Queues(s.c, s.k, s.p, input)
  BY <1>1, <1>6, <1>8 DEF Core, Sends, Queues, SameFields
<1>12. Up(s.c, s.p, input, s.h, app, srv)
  BY <1>1, <1>6, <1>8 DEF Core, Up, SameFields
<1>13. Down(s.c, s.k, s.p, s.h, app, srv)
  BY <1>1, <1>6, <1>8 DEF Core, Down, SameFields
<1>14. Core(s, input, app, srv)
  BY <1>1, <1>8, <1>10, <1>11, <1>12, <1>13 DEF Core
<1>15. Callbacks(s.c, s.k, s.p) /\ Receives(s.c, s.k)
  BY <1>1, <1>6, <1>8 DEF Callbacks, Receives, SameFields
<1> QED BY <1>a, <1>6, <1>8, <1>9, <1>14, <1>15

\* tcp_receive() after the accept callback: window, state and cause may change.
LEMMA ReceiveMoves ==
    ASSUME NEW s, NEW i, NEW a, NEW v, Core(s, i, a, v), s.k.state # "NONE",
           NEW t \in State, t.c = s.c, t.k = s.k, Life(t.c, t.k, t.p),
           t.h = s.h \/ t.h = s.h \cup {FinAtAccept},
           t.p.cbs = s.p.cbs, t.p.refused = s.p.refused, t.p.sndq = s.p.sndq,
           t.p.state = "freed" <=> s.p.state = "freed",
           NEW j \in InputT, Ack(j) = Ack(i), j.fin <=> i.fin, InFlight(j) = InFlight(i),
           j.data = i.data,
           "recv" \in s.p.cbs => TCP_WND = t.p.rcv_wnd + Size(s.c.buf) + Left(j)
    PROVE  Core(t, j, a, v)
<1>1. s \in State /\ World(i, a, v) /\ World(j, a, v)
  BY DEF Core, World
<1>2. Queues(t.c, t.k, t.p, j)
  <2>1. Size(s.c.buf) \in Nat /\ t.p.rcv_wnd \in Nat  BY <1>1, Numbers
  <2>2. "recv" \in s.p.cbs =>
          TCP_WND = t.p.rcv_wnd + Size(s.c.buf)
                   + (IF j.phase \in {"sent", "data"} THEN Size(j.data) ELSE 0)
                   + (IF j.phase \in {"sent", "data", "fin"} THEN Fin(j) ELSE 0)
    BY <2>1, LeftIs DEF Left
  <2> QED BY <2>2 DEF Core, Queues
<1>3. /\ t.h \cap UpLost = s.h \cap UpLost /\ t.h \cap DownLost = s.h \cap DownLost
      /\ "aborted" \in t.h <=> "aborted" \in s.h
  <2>1. FinAtAccept \notin UpLost /\ FinAtAccept \notin DownLost
    BY DEF FinAtAccept, UpLost, DownLost
  <2>2. FinAtAccept # "aborted"  BY DEF FinAtAccept
  <2> QED BY <2>1, <2>2
<1>4. Up(t.c, t.p, j, t.h, a, v)
  <2>5. s.p.state # "SYN_RCVD" /\ t.p.state # "SYN_RCVD"  BY DEF Core, Life
  <2> QED BY <1>3, <2>5 DEF Core, Up
<1>5. Down(t.c, t.k, t.p, t.h, a, v)
  BY <1>3 DEF Core, Down
<1> QED BY <1>1, <1>2, <1>4, <1>5 DEF Core

\* The pcb after tcp_receive().
TakenIn(p) == [Received(p, input) EXCEPT !.state = IF input.fin THEN "CLOSE_WAIT" ELSE @]

\* tcp_receive() after the accept callback takes data and FIN from the window.
LEMMA TakenInIs ==
    ASSUME NEW p \in PcbT, input \in InputT, p.rcv_wnd = TCP_WND,
           NEW n, n = Size(input.data), NEW o, o = Fin(input), n + o <= TCP_WND,
           NEW q, q = TakenIn(p)
    PROVE  /\ q \in PcbT /\ q.cbs = p.cbs /\ (q.rxclosed <=> p.rxclosed)
           /\ (q.closed <=> p.closed) /\ q.refused = p.refused /\ q.sndq = p.sndq
           /\ q.state = (IF input.fin THEN "CLOSE_WAIT" ELSE p.state)
           /\ TCP_WND = q.rcv_wnd + n + o
<1>1. n \in Nat /\ o \in Nat /\ TCP_WND \in Nat
  BY SizeNat, SizesAssumption DEF InputT, Fin
<1> DEFINE w == p.rcv_wnd - n - o
<1>2. w \in 0..TCP_WND /\ TCP_WND = w + n + o  BY <1>1
<1>3. q = [p EXCEPT !.rcv_wnd = w, !.state = IF input.fin THEN "CLOSE_WAIT" ELSE p.state]
  BY DEF TakenIn, Received, PcbT, Size, Fin
<1> HIDE DEF w
<1> QED BY <1>2, <1>3 DEF PcbT, PcbStates

\* Until the accept callback has returned the window is untouched.
LEMMA ReceivingIs ==
    ASSUME Inv, input.phase = "receive"
    PROVE  /\ input.ack = 0 /\ Cur.p.rcv_wnd = TCP_WND /\ Cur.c.buf = <<>>
           /\ Size(input.data) + Fin(input) <= TCP_WND
           /\ Cur.c.client_closed => Cur.p.state \in {"CLOSING", "freed"} /\ ~Cur.p.closed
  BY DEF Inv, Good, Base, Flow, LetGo

\* Going on with tcp_receive() after the accept callback.
LEMMA ReceiveKeeps ==
    ASSUME Inv, cb # "none", input.phase = "receive",
           NEW s, s = Returned(Cur), s.p.state # "freed",
           NEW q, q = TakenIn(s.p), NEW t \in State, t.c = s.c, t.k = s.k, t.p = q,
           t.h = (IF input.fin /\ s.p.state = "CLOSING" THEN s.h \cup {FinAtAccept} ELSE s.h),
           NEW j, j = At("data")
    PROVE  Between(t, j)
<1>1. /\ Core(s, input, app, srv) /\ Callbacks(s.c, s.k, s.p) /\ Receives(s.c, s.k)
      /\ s.k = Cur.k /\ s.p = Cur.p /\ s.h = Cur.h /\ s.c.buf = Cur.c.buf
      /\ SameFields(Cur.c, s.c) /\ s.k.state # "NONE" /\ input \in InputT
      /\ s.c.dead # "frame" /\ (s.c.dead = "stale" => s.c.aborted \/ ~s.c.alive)
  BY ReturnedIs
<1>2. /\ s.p.rcv_wnd = TCP_WND /\ s.c.buf = <<>> /\ Size(input.data) + Fin(input) <= TCP_WND
      /\ s.c.client_closed => s.p.state = "CLOSING" /\ ~s.p.closed
  BY <1>1, ReceivingIs DEF SameFields
<1>3. s.p \in PcbT /\ s \in State  BY <1>1 DEF Core, State
<1>4. /\ q.cbs = s.p.cbs /\ (q.rxclosed <=> s.p.rxclosed)
      /\ (q.closed <=> s.p.closed) /\ q.refused = s.p.refused /\ q.sndq = s.p.sndq
      /\ q.state = (IF input.fin THEN "CLOSE_WAIT" ELSE s.p.state)
      /\ TCP_WND = q.rcv_wnd + Size(input.data) + Fin(input) /\ q \in PcbT
  <2>1. Size(input.data) + Fin(input) <= TCP_WND /\ s.p.rcv_wnd = TCP_WND  BY <1>2
  <2> QED BY <1>1, <1>3, <2>1, TakenInIs
<1>5. /\ j.phase = "data" /\ j.data = input.data /\ (j.fin <=> input.fin) /\ j \in InputT
      /\ j.ack = input.ack
  BY <1>1, AtIs
<1>6. Life(t.c, t.k, t.p)
  <2>1. s.p.state # "SYN_RCVD"  BY <1>1 DEF Core, Life
  <2>2. ~s.c.client_closed => s.p.state \in {"ESTABLISHED", "CLOSE_WAIT"}
    BY <1>1 DEF Core, Life
  <2> QED BY <1>1, <1>4, <2>1, <2>2 DEF Core, Life
<1>7. /\ Ack(j) = Ack(input) /\ InFlight(j) = InFlight(input)
      /\ Left(j) = Size(input.data) + Fin(input)
  <2>1. j.phase = "data" /\ j.data = input.data /\ (j.fin <=> input.fin)  BY <1>5
  <2> QED BY <2>1 DEF Ack, InFlight, Left, Fin
<1>8. TCP_WND = t.p.rcv_wnd + Size(s.c.buf) + Left(j)
  <2>1. Size(s.c.buf) = 0  BY <1>2, SizeNat
  <2>2. q.rcv_wnd \in Nat /\ Size(input.data) \in Nat /\ Fin(input) \in Nat
    BY <1>1, <1>4, SizeNat DEF PcbT, InputT, Fin
  <2>3. TCP_WND = q.rcv_wnd + Size(input.data) + Fin(input)  BY <1>4
  <2>4. TCP_WND = q.rcv_wnd + 0 + (Size(input.data) + Fin(input))  BY <2>2, <2>3
  <2> QED BY <1>7, <2>1, <2>4
<1>9. Core(t, j, app, srv)
  <2>1. t.h = s.h \/ t.h = s.h \cup {FinAtAccept}  OBVIOUS
  <2>2. /\ t.p.cbs = s.p.cbs /\ t.p.refused = s.p.refused /\ t.p.sndq = s.p.sndq
        /\ (t.p.state = "freed" <=> s.p.state = "freed")
    BY <1>4
  <2>3. Core(s, input, app, srv) /\ s.k.state # "NONE"  BY <1>1
  <2>4. j \in InputT /\ j.data = input.data /\ (j.fin <=> input.fin)  BY <1>5
  <2> QED BY <1>6, <1>7, <1>8, <2>1, <2>2, <2>3, <2>4, ReceiveMoves
<1>10. Callbacks(t.c, t.k, t.p) /\ Receives(t.c, t.k)
  BY <1>1, <1>4 DEF Callbacks
<1>11. t.c.client_closed => t.p.state = "CLOSING" \/ FinAtAccept \in t.h
  BY <1>2, <1>4
<1> QED BY <1>1, <1>9, <1>10, <1>11 DEF Between

\* The accept callback has aborted the pcb.
LEMMA AcceptAborted ==
    ASSUME Inv, cb # "none", input.phase = "receive",
           NEW s, s = Returned(Cur), s.p.state = "freed", NEW j, j = At("data")
    PROVE  Between(s, j)
<1>1. /\ Core(s, input, app, srv) /\ Callbacks(s.c, s.k, s.p) /\ Receives(s.c, s.k)
      /\ s.k.state # "NONE" /\ input \in InputT
      /\ s.c.dead # "frame" /\ (s.c.dead = "stale" => s.c.aborted \/ ~s.c.alive)
  BY ReturnedIs
<1>2. s \in State /\ Life(s.c, s.k, s.p)  BY <1>1 DEF Core
<1>3. "recv" \notin s.p.cbs
  BY <1>1, <1>2 DEF Callbacks, Life
<1>5. /\ j.phase = "data" /\ j.data = input.data /\ (j.fin <=> input.fin) /\ j \in InputT
  BY <1>1, AtIs
<1>7. Ack(j) = Ack(input) /\ InFlight(j) = InFlight(input)
  <2>1. j.phase = "data" /\ j.data = input.data  BY <1>5
  <2> QED BY <2>1 DEF Ack, InFlight
<1>8. Core(s, j, app, srv)
  BY <1>1, <1>2, <1>3, <1>5, <1>7, ReceiveMoves
<1> QED BY <1>1, <1>8 DEF Between

\* The return of a callback keeps the invariant.
LEMMA ReturnKeeps == ASSUME Inv, Return PROVE Inv'
<1> DEFINE s == Returned(Cur)
           r == IF input.fin /\ s.p.state = "CLOSING" THEN Because(s, FinAtAccept) ELSE s
           q == TakenIn(s.p)
           t == IF input.phase # "receive" \/ s.p.state = "freed" THEN s
                ELSE [r EXCEPT !.p = q]
           phase == IF input.phase = "receive" THEN "data" ELSE input.phase
<1>1. cb # "none" /\ UNCHANGED <<app, srv>> /\ Continue(phase, t)
  BY Zenon DEF Return, FinAtAccept, TakenIn
<1>2. /\ Core(s, input, app, srv) /\ Callbacks(s.c, s.k, s.p) /\ Receives(s.c, s.k)
      /\ s.h = Cur.h /\ s.p = Cur.p
      /\ SameFields(Cur.c, s.c) /\ s.k.state # "NONE" /\ input \in InputT
      /\ input.phase \in {"receive", "data", "fin", "end"}
      /\ s.c.dead # "frame" /\ (s.c.dead = "stale" => s.c.aborted \/ ~s.c.alive)
  BY <1>1, ReturnedIs
<1>3. CASE input.phase # "receive"
  <2>1. t = s /\ phase = input.phase /\ phase \in {"data", "fin", "end"}  BY <1>2, <1>3
  <2>2. input = At(input.phase)  BY <1>2 DEF At, InputT
  <2>3. s.c.client_closed => \/ s.p.state \in {"CLOSING", "TIME_WAIT", "freed"}
                             \/ s.p.closed \/ FinAtAccept \in s.h
    BY <1>2 DEF Inv, Good, Base, LetGo, SameFields
  <2> HIDE DEF s, t, phase
  <2>4. Between(s, input)
    BY <1>2, <2>3 DEF Between
  <2>5. Between(t, At(phase))  BY <2>1, <2>2, <2>4
  <2> QED BY <1>1, <1>2, <2>1, <2>5, ContinueKeeps
<1>4. CASE input.phase = "receive" /\ s.p.state = "freed"
  <2>1. Between(s, At("data"))
    BY <1>1, <1>4, AcceptAborted
  <2>2. t = s /\ phase = "data"  BY <1>4
  <2> HIDE DEF s, t, phase
  <2> QED BY <1>1, <1>2, <2>1, <2>2, ContinueKeeps
<1>5. CASE input.phase = "receive" /\ s.p.state # "freed"
  <2>1. t = [r EXCEPT !.p = q] /\ phase = "data"  BY <1>5
  <2>2. s \in State /\ s.p \in PcbT /\ FinAtAccept \in Causes
    <3>1. s \in State /\ s.p \in PcbT  BY <1>2 DEF Core, State
    <3>2. FinAtAccept \in Causes  BY DEF Causes, FinAtAccept
    <3> QED BY <3>1, <3>2
  <2>3. q \in PcbT
    <3>1. Size(input.data) + Fin(input) <= TCP_WND /\ s.p.rcv_wnd = TCP_WND
      BY <1>2, <1>5, ReceivingIs
    <3> QED BY <1>2, <2>2, <3>1, TakenInIs
  <2>4. /\ r \in State /\ r.c = s.c /\ r.k = s.k
        /\ r.h = (IF input.fin /\ s.p.state = "CLOSING" THEN s.h \cup {FinAtAccept} ELSE s.h)
    BY <2>2, BecauseIs, ZenonT(30)
  <2> HIDE DEF r, q, t
  <2>5. t \in State /\ t.c = s.c /\ t.k = s.k /\ t.p = q
        /\ t.h = (IF input.fin /\ s.p.state = "CLOSING" THEN s.h \cup {FinAtAccept} ELSE s.h)
    BY <2>1, <2>3, <2>4 DEF State
  <2>6. q = TakenIn(s.p)  BY DEF q
  <2>7. Between(t, At("data"))
    BY <1>1, <1>5, <2>5, <2>6, ReceiveKeeps
  <2> HIDE DEF s, phase
  <2> QED BY <1>1, <1>2, <2>1, <2>7, ContinueKeeps
<1> QED BY <1>3, <1>4, <1>5

-----------------------------------------------------------------------------
(* The accept callback.                                                    *)

\* What holds when the accept callback is called.
LEMMA AcceptingIs ==
    ASSUME Inv, cb = "none", input.phase = "accept"
    PROVE  /\ Core(Cur, input, app, srv) /\ Callbacks(Cur.c, Cur.k, Cur.p) /\ Cur \in State
           /\ Receives(Cur.c, Cur.k) /\ Cur.k.state = "NONE" /\ input \in InputT
           /\ Cur.p.state = "SYN_RCVD" /\ input.ack = 0
           /\ Size(input.data) + Fin(input) <= TCP_WND
<1>1. /\ Core(Cur, input, app, srv) /\ Callbacks(Cur.c, Cur.k, Cur.p)
      /\ Receives(Cur.c, Cur.k) /\ Flow(Cur.c, Cur.k, Cur.p, input, cb)
  BY DEF Inv, Good, Base
<1>2. /\ Cur.p.state = "SYN_RCVD" /\ input.ack = 0 /\ Size(input.data) + Fin(input) <= TCP_WND
  BY <1>1 DEF Flow
<1>3. Cur.k.state = "NONE" /\ input \in InputT /\ Cur \in State
  BY <1>1, <1>2 DEF Core, Life, World
<1> QED BY <1>1, <1>2, <1>3

\* No memory for the client: lwIP gives the connection up.
LEMMA AcceptFails ==
    ASSUME Inv, cb = "none", input.phase = "accept", NEW t, t = FreePcb(Cur),
           NEW j, j = NoSegment, NEW b, b = "none"
    PROVE  Good(t, j, b, app, srv)
<1>1. /\ Core(Cur, input, app, srv) /\ Callbacks(Cur.c, Cur.k, Cur.p) /\ Cur \in State
      /\ Receives(Cur.c, Cur.k) /\ Cur.k.state = "NONE"
  BY AcceptingIs
<1>2. /\ t \in State /\ t.c = Cur.c /\ t.k = Cur.k /\ t.h = Cur.h /\ t.f = Cur.f
      /\ SameWindow(Cur.p, t.p) /\ t.p.state = "freed" /\ t.p.cbs = {} /\ t.p.sndq = <<>>
      /\ (t.p.closed <=> Cur.p.closed) /\ (t.p.rxclosed <=> Cur.p.rxclosed)
  BY <1>1, FreePcbIs
<1>3. j \in InputT /\ j.phase = "idle" /\ j.data = <<>> /\ j.ack = 0 /\ ~j.fin
  BY NoSegmentIs
<1>4. World(j, app, srv)  BY <1>1, <1>3 DEF Core, World
<1>5. /\ ~Cur.c.client_closed /\ ~Cur.c.socks_closed /\ ~Cur.c.socks_up /\ Cur.p.sndq = <<>>
      /\ Cur.c.dead = "null" /\ Cur.c.pending = 0 /\ ~Cur.c.aborted
  BY <1>1 DEF Core, Life
<1>6. Life(t.c, t.k, t.p)
  BY <1>1, <1>2 DEF Core, Life, SameWindow
<1>7. Sends(t.c, t.k) /\ Receives(t.c, t.k) /\ (t.k.state = "FREE" => t.k = Freed)
  BY <1>1, <1>2 DEF Core
<1>8. Queues(t.c, t.k, t.p, j)
  <2>1. Size(t.p.sndq) = 0 /\ Ack(j) = 0
    BY <1>2, <1>3, SizeNat DEF Ack
  <2>2. t.p.refused = <<>>
    BY <1>1, <1>2 DEF Core, Queues, SameWindow
  <2> QED BY <1>1, <1>2, <2>1, <2>2, SizesAssumption DEF Queues
<1>9. Up(t.c, t.p, j, t.h, app, srv)
  <2>1. InFlight(j) = 0  BY <1>3 DEF InFlight
  <2>2. /\ Size(srv.got) \in Nat /\ Size(Cur.c.buf) \in Nat /\ InFlight(input) \in Nat /\ app.sent \in Nat
    BY <1>1, Numbers DEF Core
  <2>3. /\ Size(srv.got) + (IF Cur.c.socks_closed THEN 0 ELSE Size(Cur.c.buf)) + InFlight(input)
             <= app.sent
        /\ Counts(srv.got, 0) /\ Counts(Cur.c.buf, Size(srv.got))
    BY <1>1, <1>5 DEF Core, Up
  <2>4. Size(srv.got) + (IF t.c.socks_closed THEN 0 ELSE Size(t.c.buf)) + InFlight(j) <= app.sent
    BY <1>2, <2>1, <2>2, <2>3
  <2> QED BY <1>2, <1>3, <1>5, <2>1, <2>3, <2>4 DEF Up
<1>10. Down(t.c, t.k, t.p, t.h, app, srv)
  BY <1>1, <1>2, <1>5 DEF Core, Down
<1>11. Flow(t.c, t.k, t.p, j, b)  BY <1>3 DEF Flow
<1>12. Frame(t.c, t.p, b, t.f)  BY <1>2, <1>5 DEF Frame
<1>13. LetGo(t.c, t.p, j, b, t.h)  BY <1>2, <1>5 DEF LetGo
<1>14. Callbacks(t.c, t.k, t.p)  BY <1>1, <1>2, <1>5 DEF Callbacks
<1> QED
  BY <1>2, <1>4, <1>6, <1>7, <1>8, <1>9, <1>10, <1>11, <1>12, <1>13, <1>14
  DEF Good, Base, Core, CbT

\* The state in which the accept callback runs its jobs.
AcceptedClient(c) == [c EXCEPT !.alive = TRUE, !.dead = "frame"]
AcceptedPcb(p) == [p EXCEPT !.state = "ESTABLISHED", !.cbs = {"err", "recv"}]
Accepted(s) == [s EXCEPT !.c = AcceptedClient(s.c), !.k = [s.k EXCEPT !.state = "CONNECTING"],
                         !.p = AcceptedPcb(s.p), !.f = 0]

\* The fields of an accepted client.
LEMMA AcceptedIs ==
    ASSUME NEW s \in State, NEW t, t = Accepted(s)
    PROVE  /\ t \in State /\ t.h = s.h /\ t.f = 0
           /\ t.c.alive /\ t.c.dead = "frame" /\ (t.c.client_closed <=> s.c.client_closed)
           /\ (t.c.socks_closed <=> s.c.socks_closed) /\ (t.c.socks_up <=> s.c.socks_up)
           /\ (t.c.aborted <=> s.c.aborted) /\ t.c.buf = s.c.buf /\ t.c.rbuf = s.c.rbuf
           /\ t.c.rsent = s.c.rsent /\ t.c.waiting = s.c.waiting /\ t.c.pending = s.c.pending
           /\ t.k.state = "CONNECTING" /\ t.k.send = s.k.send /\ (t.k.recv <=> s.k.recv)
           /\ t.p.state = "ESTABLISHED" /\ t.p.cbs = {"err", "recv"} /\ t.p.sndq = s.p.sndq
           /\ SameWindow(s.p, t.p) /\ (t.p.closed <=> s.p.closed)
           /\ (t.p.rxclosed <=> s.p.rxclosed)
<1> DEFINE c == AcceptedClient(s.c)
           k == [s.k EXCEPT !.state = "CONNECTING"]
           p == AcceptedPcb(s.p)
<1>1. /\ c \in ClientT /\ c.alive /\ c.dead = "frame" /\ (c.client_closed <=> s.c.client_closed)
      /\ (c.socks_closed <=> s.c.socks_closed) /\ (c.socks_up <=> s.c.socks_up)
      /\ (c.aborted <=> s.c.aborted) /\ c.buf = s.c.buf /\ c.rbuf = s.c.rbuf
      /\ c.rsent = s.c.rsent /\ c.waiting = s.c.waiting /\ c.pending = s.c.pending
  BY DEF State, ClientT, AcceptedClient
<1>2. k \in SocksT /\ k.state = "CONNECTING" /\ k.send = s.k.send /\ (k.recv <=> s.k.recv)
  BY StateNames DEF State, SocksT
<1>3. /\ p \in PcbT /\ p.state = "ESTABLISHED" /\ p.cbs = {"err", "recv"} /\ p.sndq = s.p.sndq
      /\ SameWindow(s.p, p) /\ (p.closed <=> s.p.closed) /\ (p.rxclosed <=> s.p.rxclosed)
  BY DEF State, PcbT, PcbStates, SameWindow, AcceptedPcb
<1>4. t = [s EXCEPT !.c = c, !.k = k, !.p = p, !.f = 0]  BY DEF Accepted
<1> HIDE DEF c, k, p
<1>5. t \in State /\ t.c = c /\ t.k = k /\ t.p = p /\ t.f = 0 /\ t.h = s.h
  BY <1>1, <1>2, <1>3, <1>4 DEF State
<1> QED BY <1>1, <1>2, <1>3, <1>5

\* An accepted client satisfies the invariant.
LEMMA AcceptSucceeds ==
    ASSUME Inv, cb = "none", input.phase = "accept", NEW t, t = Accepted(Cur),
           NEW j, j = At("receive"), NEW b, b = "accept"
    PROVE  Good(t, j, b, app, srv)
<1>1. /\ Core(Cur, input, app, srv) /\ Callbacks(Cur.c, Cur.k, Cur.p) /\ Cur \in State
      /\ Receives(Cur.c, Cur.k) /\ Cur.k.state = "NONE" /\ input \in InputT
      /\ Cur.p.state = "SYN_RCVD" /\ input.ack = 0 /\ Size(input.data) + Fin(input) <= TCP_WND
  BY AcceptingIs
<1>2. /\ t \in State /\ t.h = Cur.h /\ t.f = 0
      /\ t.c.alive /\ t.c.dead = "frame" /\ (t.c.client_closed <=> Cur.c.client_closed)
      /\ (t.c.socks_closed <=> Cur.c.socks_closed) /\ (t.c.socks_up <=> Cur.c.socks_up)
      /\ (t.c.aborted <=> Cur.c.aborted) /\ t.c.buf = Cur.c.buf /\ t.c.rbuf = Cur.c.rbuf
      /\ t.c.rsent = Cur.c.rsent /\ t.c.waiting = Cur.c.waiting /\ t.c.pending = Cur.c.pending
      /\ t.k.state = "CONNECTING" /\ t.k.send = Cur.k.send /\ (t.k.recv <=> Cur.k.recv)
      /\ t.p.state = "ESTABLISHED" /\ t.p.cbs = {"err", "recv"} /\ t.p.sndq = Cur.p.sndq
      /\ SameWindow(Cur.p, t.p) /\ (t.p.closed <=> Cur.p.closed)
      /\ (t.p.rxclosed <=> Cur.p.rxclosed)
  BY <1>1, AcceptedIs
<1>3. j \in InputT /\ j.phase = "receive" /\ j.data = input.data /\ j.ack = 0 /\ (j.fin <=> input.fin)
  BY <1>1, AtIs
<1>4. World(j, app, srv)  BY <1>1, <1>3 DEF Core, World
<1>5. /\ ~Cur.c.client_closed /\ ~Cur.c.socks_closed /\ ~Cur.c.socks_up /\ Cur.p.sndq = <<>>
      /\ Cur.c.pending = 0 /\ ~Cur.c.aborted /\ Cur.c.buf = <<>> /\ Cur.c.rbuf = <<>>
      /\ Cur.c.rsent = 0 /\ Cur.p.rcv_wnd = TCP_WND /\ ~Cur.p.rxclosed /\ ~Cur.p.closed
  BY <1>1 DEF Core, Life
<1>6. Life(t.c, t.k, t.p)
  BY <1>2, <1>5 DEF Life
<1>7. Sends(t.c, t.k)
  BY <1>1, <1>2 DEF Core, Sends
<1>8. Receives(t.c, t.k)
  BY <1>2, <1>5 DEF Receives
<1>a. /\ InFlight(j) = InFlight(input) /\ Ack(j) = 0 /\ Ack(input) = 0 /\ Left(j) = 0
      /\ Fin(j) = Fin(input) /\ Size(<<>>) = 0
  <2>1. j.phase = "receive" /\ j.data = input.data /\ (j.fin <=> input.fin)  BY <1>3
  <2> QED BY <2>1, SizeNat DEF InFlight, Ack, Left, Fin
<1>9. Queues(t.c, t.k, t.p, j)
  <2>1. t.p.refused = <<>> /\ Size(t.p.sndq) = 0 /\ Size(t.c.buf) = 0 /\ t.p.rcv_wnd = TCP_WND
    BY <1>1, <1>2, <1>5, <1>a DEF Core, Queues, SameWindow
  <2>2. TCP_WND = TCP_WND + 0 + 0 + 0  BY SizesAssumption
  <2> QED BY <1>2, <1>3, <1>5, <1>a, <2>1, <2>2, SizesAssumption DEF Queues
<1>10. Up(t.c, t.p, j, t.h, app, srv)
  BY <1>1, <1>2, <1>3, <1>5, <1>a DEF Core, Up
<1>11. Down(t.c, t.k, t.p, t.h, app, srv)
  BY <1>1, <1>2, <1>5 DEF Core, Down
<1>12. Flow(t.c, t.k, t.p, j, b)
  <2>1. t.p.rcv_wnd = TCP_WND /\ t.c.buf = <<>> /\ Size(j.data) + Fin(j) <= TCP_WND
    BY <1>1, <1>2, <1>3, <1>5, <1>a DEF SameWindow
  <2> QED BY <1>2, <1>3, <2>1 DEF Flow
<1>13. Frame(t.c, t.p, b, t.f)
  <2>1. t.f # 1 /\ t.f # -1  BY <1>2
  <2> QED BY <1>2, <1>5, <2>1 DEF Frame
<1>14. LetGo(t.c, t.p, j, b, t.h)  BY <1>2, <1>5 DEF LetGo
<1>15. Callbacks(t.c, t.k, t.p)  BY <1>2, <1>5 DEF Callbacks
<1>16. t.k.state # "FREE" /\ b \in CbT  BY <1>2 DEF CbT
<1> QED
  BY <1>2, <1>4, <1>6, <1>7, <1>8, <1>9, <1>10, <1>11, <1>12, <1>13, <1>14, <1>15, <1>16
  DEF Good, Base, Core

\* The state listener_accept_func reaches is that of an accepted client.
LEMMA AcceptedForm ==
    ASSUME NEW s \in State, NEW e, e = Entered(s),
           NEW t, t = [e EXCEPT !.c.alive = TRUE, !.k.state = "CONNECTING",
                         !.p.state = "ESTABLISHED", !.p.cbs = {"err", "recv"}]
    PROVE  t = Accepted(s)
<1> DEFINE d == [s.c EXCEPT !.dead = "frame"]
           c == [d EXCEPT !.alive = TRUE]
           k == [s.k EXCEPT !.state = "CONNECTING"]
           p == AcceptedPcb(s.p)
<1>1. s = [c |-> s.c, k |-> s.k, p |-> s.p, f |-> s.f, x |-> s.x, h |-> s.h]
  BY DEF State
<1>2. s.c \in ClientT  BY DEF State
<1>3. c = AcceptedClient(s.c)  BY DEF AcceptedClient
<1>4. e = [s EXCEPT !.c = d, !.f = 0]  BY DEF Entered
<1> HIDE DEF d
<1>5. e = [c |-> d, k |-> s.k, p |-> s.p, f |-> 0, x |-> s.x, h |-> s.h]
  BY <1>1, <1>4
<1>6. e.c = d /\ e.k = s.k /\ e.p = s.p  BY <1>5
<1>7. t = [[[e EXCEPT !.c = [e.c EXCEPT !.alive = TRUE]]
              EXCEPT !.k = [e.k EXCEPT !.state = "CONNECTING"]]
              EXCEPT !.p = [e.p EXCEPT !.state = "ESTABLISHED", !.cbs = {"err", "recv"}]]
  BY <1>5
<1>8. t = [[[e EXCEPT !.c = c] EXCEPT !.k = k] EXCEPT !.p = p]
  BY <1>6, <1>7 DEF AcceptedPcb
<1>9. Accepted(s) = [s EXCEPT !.c = c, !.k = k, !.p = p, !.f = 0]
  BY <1>3 DEF Accepted
<1> HIDE DEF c, k, p
<1>10. t = [c |-> c, k |-> k, p |-> p, f |-> 0, x |-> s.x, h |-> s.h]
  <2> DEFINE e1 == [e EXCEPT !.c = c]
             e2 == [e1 EXCEPT !.k = k]
  <2>1. e1 = [c |-> c, k |-> s.k, p |-> s.p, f |-> 0, x |-> s.x, h |-> s.h]
    BY <1>5
  <2>2. t = [e2 EXCEPT !.p = p]  BY <1>8
  <2> HIDE DEF e1
  <2>3. e2 = [c |-> c, k |-> k, p |-> s.p, f |-> 0, x |-> s.x, h |-> s.h]
    BY <2>1
  <2> HIDE DEF e2
  <2> QED BY <2>2, <2>3
<1>11. Accepted(s) = [c |-> c, k |-> k, p |-> p, f |-> 0, x |-> s.x, h |-> s.h]
  BY <1>1, <1>9
<1> QED BY <1>10, <1>11

\* The accept callback keeps the invariant.
LEMMA AcceptKeeps == ASSUME Inv, listener_accept_func PROVE Inv'
<1>0. Cur \in State  BY DEF Inv, Good, Base, Core
<1>1. input.phase = "accept" /\ cb = "none" /\ UNCHANGED <<app, srv>>
  BY DEF listener_accept_func
<1>2. CASE Become(FreePcb(Cur)) /\ input' = NoSegment /\ cb' = "none"
  <2>1. Good(FreePcb(Cur), NoSegment, "none", app, srv)
    BY <1>1, AcceptFails
  <2> QED BY <1>1, <1>2, <2>1, InvNext
<1> DEFINE t == [Entered(Cur) EXCEPT !.c.alive = TRUE, !.k.state = "CONNECTING",
                   !.p.state = "ESTABLISHED", !.p.cbs = {"err", "recv"}]
<1>3. CASE Enter("accept", "receive", t)
  <2>1. t = Accepted(Cur)
    BY <1>0, AcceptedForm
  <2> HIDE DEF t
  <2>2. Good(t, At("receive"), "accept", app, srv)
    BY <1>1, <2>1, AcceptSucceeds
  <2>3. Become(t) /\ cb' = "accept" /\ input' = At("receive")
    BY <1>3 DEF Enter, At
  <2> QED BY <1>1, <2>2, <2>3, InvNext
<1> QED BY <1>2, <1>3 DEF listener_accept_func

-----------------------------------------------------------------------------
(* Handing data from the proxy to lwIP.                                    *)

\* The receive buffer holds what was read and lwIP has not taken.
RbufFits(c, p, a, v) ==
    /\ c.rbuf = <<>> => c.rsent = 0
    /\ c.rsent <= Size(c.rbuf) /\ Size(c.rbuf) <= RecvBufSize
    /\ Counts(c.rbuf, v.read - Size(c.rbuf))
    /\ Size(a.got) + Size(p.sndq) + Size(c.rbuf) - c.rsent = v.read
Grows(v, u) == u \in SrvT /\ u.got = v.got /\ v.read <= u.read /\ Behind(u)
               /\ (AllRead(v) => AllRead(u))
HasMore(c) == c.rsent < Size(c.rbuf)
Pends(c) == c.pending # 0

\* Changing what is buffered for the application leaves the rest alone.
LEMMA RbufKeeps ==
    ASSUME NEW s, NEW i, NEW b, NEW a, NEW v, Ctl(s, i, b), Data(s, i, a, v),
           s.c.socks_up, ~s.c.client_closed,
           NEW t \in State, SameFields(s.c, t.c), t.c.dead = s.c.dead, t.c.buf = s.c.buf,
           t.c.pending = s.c.pending, t.p = s.p, t.f = s.f, t.h = s.h,
           t.k.state = s.k.state, t.k.send = s.k.send, s.k.state = "FREE" => t.k = s.k,
           NEW u, Grows(v, u), RbufFits(t.c, t.p, a, u)
    PROVE  Ctl(t, i, b) /\ Data(t, i, a, u)
<1>1. s \in State /\ Life(s.c, s.k, s.p) /\ World(i, a, v) /\ s.k.state \in {"UP", "FREE"}
  BY DEF Ctl, Data, Life
<1>2. Ctl(t, i, b)
  <2>1. SamePcb(s.p, t.p)  BY DEF SamePcb
  <2> QED BY <1>1, <2>1, CtlKeeps
<1>3. World(i, a, u)  BY <1>1 DEF World, Grows
<1>4. Sends(t.c, t.k)
  <2>1. s.k.state = "FREE" => ~t.k.recv  BY <1>1 DEF Data, Sends
  <2> QED BY <1>1, <2>1 DEF Data, Sends, SameFields, RbufFits
<1>5. Queues(t.c, t.k, t.p, i)
  BY DEF Data, Queues, SameFields
<1>6. Up(t.c, t.p, i, t.h, a, u)
  BY DEF Data, Up, SameFields, Grows
<1>7. Down(t.c, t.k, t.p, t.h, a, u)
  <2>1. Size(a.got) \in Nat /\ Size(t.p.sndq) \in Nat /\ v.read \in Nat /\ u.read \in Nat
    BY <1>1, <1>3, Numbers
  <2>2. Size(a.got) + Size(t.p.sndq) <= u.read
    <3>1. Size(a.got) + Size(t.p.sndq) <= v.read  BY DEF Data, Down
    <3>2. v.read <= u.read  BY DEF Grows
    <3> QED BY <2>1, <3>1, <3>2
  <2>3. ~t.c.client_closed /\ t.c.socks_up /\ Counts(a.got, 0) /\ Counts(t.p.sndq, Size(a.got))
    BY DEF Data, Down, SameFields
  <2>4. t.c.socks_closed => t.h \cap DownLost # {} \/ SocksFailed \in t.h \/ AllRead(u)
    BY DEF Data, Down, SameFields, Grows
  <2>5. Behind(u)  BY DEF Grows
  <2> QED BY <2>2, <2>3, <2>4, <2>5 DEF Down, RbufFits
<1> QED BY <1>2, <1>3, <1>4, <1>5, <1>6, <1>7 DEF Data

\* tcp_write() of part of the receive buffer.
Wrote(s, q, x, y) == [s EXCEPT !.p.sndq = q, !.c.rsent = x, !.c.pending = y]

\* The fields after a tcp_write().
LEMMA WroteIs ==
    ASSUME NEW s \in State, NEW q \in Seq(1..MaxDown), NEW x \in 0..RecvBufSize,
           NEW y \in 0..TCP_SND_BUF, NEW t, t = Wrote(s, q, x, y)
    PROVE  /\ t \in State /\ t.k = s.k /\ t.f = s.f /\ t.h = s.h
           /\ SameFields(s.c, t.c) /\ t.c.dead = s.c.dead /\ t.c.buf = s.c.buf
           /\ t.c.rbuf = s.c.rbuf /\ t.c.waiting = s.c.waiting
           /\ t.c.rsent = x /\ t.c.pending = y
           /\ SamePcb(s.p, t.p) /\ t.p.rcv_wnd = s.p.rcv_wnd /\ t.p.sndq = q
<1> DEFINE d == [s.c EXCEPT !.rsent = x, !.pending = y]
           p == [s.p EXCEPT !.sndq = q]
<1>1. /\ d \in ClientT /\ SameFields(s.c, d) /\ d.dead = s.c.dead /\ d.buf = s.c.buf
      /\ d.rbuf = s.c.rbuf /\ d.waiting = s.c.waiting /\ d.rsent = x /\ d.pending = y
  BY DEF State, ClientT, SameFields
<1>2. p \in PcbT /\ SamePcb(s.p, p) /\ p.rcv_wnd = s.p.rcv_wnd /\ p.sndq = q
  BY DEF State, PcbT, SamePcb
<1>3. t = [s EXCEPT !.p = p, !.c = d]  BY DEF Wrote
<1> HIDE DEF d, p
<1>4. t \in State /\ t.c = d /\ t.k = s.k /\ t.p = p /\ t.f = s.f /\ t.h = s.h
  BY <1>1, <1>2, <1>3 DEF State
<1> QED BY <1>1, <1>2, <1>4

\* tcp_write() moves the next bytes of the receive buffer into the send queue:
\* they stay consecutive, and each is counted once.
LEMMA WroteKeeps ==
    ASSUME NEW s, NEW i, NEW b, NEW a, NEW v, Ctl(s, i, b), Data(s, i, a, v), Ack(i) = 0,
           ~s.c.client_closed, s.c.socks_up,
           NEW n \in Nat, s.c.rsent + n <= Size(s.c.rbuf), Size(s.p.sndq) + n <= TCP_SND_BUF,
           NEW q, q = Cat(s.p.sndq, Part(s.c.rbuf, s.c.rsent, n)),
           NEW x, x = s.c.rsent + n, NEW y, y = s.c.pending + n,
           NEW t, t = Wrote(s, q, x, y)
    PROVE  /\ Ctl(t, i, b) /\ Data(t, i, a, v) /\ t.k = s.k
           /\ SameFields(s.c, t.c) /\ t.c.rbuf = s.c.rbuf
           /\ t.c.rsent = x /\ t.c.pending = y
<1>1. /\ s \in State /\ Life(s.c, s.k, s.p) /\ World(i, a, v) /\ s.k.state \in {"UP", "FREE"}
      /\ Sends(s.c, s.k) /\ Queues(s.c, s.k, s.p, i) /\ Down(s.c, s.k, s.p, s.h, a, v)
      /\ Up(s.c, s.p, i, s.h, a, v)
  BY DEF Ctl, Data, Life
<1>2. /\ Size(a.got) \in Nat /\ Size(s.p.sndq) \in Nat /\ v.read \in Nat /\ Size(s.c.rbuf) \in Nat
      /\ s.c.rsent \in Nat /\ s.c.pending \in Nat /\ TCP_SND_BUF \in Nat /\ RecvBufSize \in Nat
  BY <1>1, Numbers, SizesAssumption
<1>3. s.c.rbuf \in Seq(1..MaxDown) /\ s.p.sndq \in Seq(1..MaxDown)
  BY <1>1 DEF State, ClientT, PcbT
<1>4. Size(s.c.rbuf) <= RecvBufSize /\ s.c.pending = Size(s.p.sndq)
  BY <1>1, <1>2 DEF Sends, Queues
<1>5. x \in 0..RecvBufSize /\ y \in 0..TCP_SND_BUF
  BY <1>2, <1>4
<1>6. /\ Counts(s.c.rbuf, v.read - Size(s.c.rbuf)) /\ Counts(s.p.sndq, Size(a.got))
      /\ Size(a.got) + Size(s.p.sndq) + Size(s.c.rbuf) - s.c.rsent = v.read
  BY <1>1 DEF Down
<1> DEFINE m == v.read - Size(s.c.rbuf)
           g == Size(a.got)
           l == Part(s.c.rbuf, s.c.rsent, n)
<1>7. m \in Int /\ m + s.c.rsent = g + Size(s.p.sndq) /\ g \in Int
  BY <1>2, <1>6
<1>8. Counts(s.c.rbuf, m) /\ Counts(s.p.sndq, g)  BY <1>6
<1>9. l \in Seq(1..MaxDown) /\ Size(l) = n /\ Counts(l, m + s.c.rsent)
  <2> DEFINE r == s.c.rbuf
             z == s.c.rsent
  <2>1. /\ l = Part(r, z, n) /\ r \in Seq(1..MaxDown) /\ z \in Nat /\ z + n <= Size(r)
        /\ m \in Int /\ Counts(r, m)
    BY <1>2, <1>3, <1>7, <1>8
  <2> HIDE DEF m, l, r, z
  <2>2. l \in Seq(1..MaxDown) /\ Size(l) = n /\ Counts(l, m + z)
    BY <2>1, CountsSub
  <2> QED BY <2>2 DEF z
<1>10. Counts(l, g + Size(s.p.sndq))
  <2> HIDE DEF m, g, l
  <2> QED BY <1>7, <1>9
<1>11. q \in Seq(1..MaxDown) /\ Size(q) = Size(s.p.sndq) + n /\ Counts(q, g)
  <2>1. q = Cat(s.p.sndq, l)  OBVIOUS
  <2> HIDE DEF l, g, m
  <2>2. q \in Seq(1..MaxDown) /\ Size(q) = Size(s.p.sndq) + Size(l) /\ Counts(q, g)
    BY <1>3, <1>7, <1>8, <1>9, <1>10, <2>1, CountsCat
  <2> QED BY <1>9, <2>2
<1>12. /\ t \in State /\ t.k = s.k /\ t.f = s.f /\ t.h = s.h
       /\ SameFields(s.c, t.c) /\ t.c.dead = s.c.dead /\ t.c.buf = s.c.buf
       /\ t.c.rbuf = s.c.rbuf /\ t.c.waiting = s.c.waiting
       /\ t.c.rsent = x /\ t.c.pending = y
       /\ SamePcb(s.p, t.p) /\ t.p.rcv_wnd = s.p.rcv_wnd /\ t.p.sndq = q
  <2>1. q \in Seq(1..MaxDown)  BY <1>11
  <2> QED BY <1>1, <1>5, <2>1, WroteIs, SMTT(30)
<1>13. Ctl(t, i, b)
  BY <1>1, <1>12, CtlKeeps
<1>14. Sends(t.c, t.k)
  <2>1. x <= Size(t.c.rbuf)  BY <1>12
  <2>2. t.c.rbuf = <<>> => x = 0
    <3>1. t.c.rbuf = <<>> => Size(s.c.rbuf) = 0  BY <1>12, SizeNat
    <3> QED BY <1>2, <1>12, <3>1, SMTT(30)
  <2> QED BY <1>1, <1>12, <2>1, <2>2, ZenonT(30) DEF Sends, SameFields
<1>15. Queues(t.c, t.k, t.p, i)
  <2>1. Size(q) + Ack(i) <= TCP_SND_BUF /\ y = Size(q) + Ack(i)
    BY <1>2, <1>4, <1>11
  <2> HIDE DEF m, g, l
  <2>2. /\ t.p.refused = s.p.refused /\ t.p.cbs = s.p.cbs /\ t.p.sndq = q
        /\ (t.c.client_closed <=> s.c.client_closed)
    BY ONLY <1>12 DEF SameFields, SamePcb
  <2>3. s.p.refused = <<>> /\ Queues(s.c, s.k, s.p, i)  BY ONLY <1>1 DEF Queues
  <2> QED BY ONLY <1>12, <2>1, <2>2, <2>3 DEF Queues
<1>16. Up(t.c, t.p, i, t.h, a, v)
  BY <1>1, <1>12, ZenonT(30) DEF Up, SameFields, SamePcb
<1>17. Down(t.c, t.k, t.p, t.h, a, v)
  <2>1. Size(a.got) + Size(q) <= v.read /\ Size(a.got) + Size(q) + Size(s.c.rbuf) - x = v.read
    <3>1. Size(q) = Size(s.p.sndq) + n  BY <1>11
    <3>2. Size(a.got) + Size(s.p.sndq) + Size(s.c.rbuf) - s.c.rsent = v.read  BY <1>6
    <3> QED BY <1>2, <3>1, <3>2
  <2>2. Counts(q, Size(a.got))  BY <1>11
  <2> HIDE DEF g, m, l
  <2>3. ~t.c.client_closed /\ t.c.socks_up  BY <1>12 DEF SameFields
  <2>4. /\ Counts(a.got, 0) /\ Behind(v)
        /\ s.c.socks_closed => s.h \cap DownLost # {} \/ SocksFailed \in s.h \/ AllRead(v)
    BY <1>1 DEF Down
  <2>5. (t.c.socks_closed <=> s.c.socks_closed) /\ t.h = s.h  BY <1>12 DEF SameFields
  <2> QED BY <1>6, <1>12, <2>1, <2>2, <2>3, <2>4, <2>5 DEF Down
<1> QED BY <1>1, <1>12, <1>13, <1>14, <1>15, <1>16, <1>17 DEF Data

\* client_socks_recv_send_out() waits, or sets the receive buffer.
SetWaiting(s) == [s EXCEPT !.c.waiting = TRUE]
SetRbuf(s, d, x) == [s EXCEPT !.c.rbuf = d, !.c.rsent = x]

\* Waiting for a confirmation changes nothing else.
LEMMA SetWaitingIs ==
    ASSUME NEW s \in State, NEW t, t = SetWaiting(s)
    PROVE  /\ t \in State /\ t.k = s.k /\ t.p = s.p /\ t.f = s.f /\ t.h = s.h
           /\ SameFields(s.c, t.c) /\ t.c.dead = s.c.dead /\ t.c.buf = s.c.buf
           /\ t.c.rbuf = s.c.rbuf /\ t.c.rsent = s.c.rsent /\ t.c.waiting
           /\ t.c.pending = s.c.pending
<1> DEFINE d == [s.c EXCEPT !.waiting = TRUE]
<1>1. /\ d \in ClientT /\ SameFields(s.c, d) /\ d.dead = s.c.dead /\ d.buf = s.c.buf
      /\ d.rbuf = s.c.rbuf /\ d.rsent = s.c.rsent /\ d.waiting
      /\ d.pending = s.c.pending
  BY DEF State, ClientT, SameFields
<1>2. t = [s EXCEPT !.c = d]  BY DEF SetWaiting
<1> HIDE DEF d
<1>3. t \in State /\ t.c = d /\ t.k = s.k /\ t.p = s.p /\ t.f = s.f /\ t.h = s.h
  BY <1>1, <1>2 DEF State
<1> QED BY <1>1, <1>3

\* The fields after the receive buffer is replaced.
LEMMA SetRbufIs ==
    ASSUME NEW s \in State, NEW d \in Seq(1..MaxDown), NEW x \in 0..RecvBufSize,
           NEW t, t = SetRbuf(s, d, x)
    PROVE  /\ t \in State /\ t.k = s.k /\ t.p = s.p /\ t.f = s.f /\ t.h = s.h
           /\ SameFields(s.c, t.c) /\ t.c.dead = s.c.dead /\ t.c.buf = s.c.buf
           /\ t.c.rbuf = d /\ t.c.rsent = x /\ t.c.waiting = s.c.waiting
           /\ t.c.pending = s.c.pending
<1> DEFINE e == [s.c EXCEPT !.rbuf = d, !.rsent = x]
<1>1. /\ e \in ClientT /\ SameFields(s.c, e) /\ e.dead = s.c.dead /\ e.buf = s.c.buf
      /\ e.rbuf = d /\ e.rsent = x /\ e.waiting = s.c.waiting
      /\ e.pending = s.c.pending
  BY DEF State, ClientT, SameFields
<1>2. t = [s EXCEPT !.c = e]  BY DEF SetRbuf
<1> HIDE DEF e
<1>3. t \in State /\ t.c = e /\ t.k = s.k /\ t.p = s.p /\ t.f = s.f /\ t.h = s.h
  BY <1>1, <1>2 DEF State
<1> QED BY <1>1, <1>3

\* How client_socks_recv_send_out() ends.
SentOut(s, t) ==
    /\ ~t.c.aborted /\ t.k = s.k /\ ~t.c.client_closed /\ t.c.socks_up
    /\ (t.c.socks_closed <=> s.c.socks_closed) /\ Pends(t.c)
    /\ t.c.rbuf # <<>> => t.c.waiting /\ HasMore(t.c)

\* client_socks_recv_send_out() that could not write everything waits, with bytes
\* pending.
LEMMA SendOutWaits ==
    ASSUME NEW s, NEW i, NEW b, NEW a, NEW v, Ctl(s, i, b), Data(s, i, a, v),
           ~s.c.client_closed, s.c.socks_up,
           HasMore(s.c), Pends(s.c),
           NEW t, t = SetWaiting(s)
    PROVE  Ctl(t, i, b) /\ Data(t, i, a, v) /\ SentOut(s, t)
<1>1. /\ s \in State /\ Life(s.c, s.k, s.p) /\ World(i, a, v)
      /\ Sends(s.c, s.k) /\ Down(s.c, s.k, s.p, s.h, a, v) /\ s.k.state # "NONE"
  BY DEF Ctl, Data, Life
<1>2. /\ Size(a.got) \in Nat /\ v.read \in Nat /\ Size(s.c.rbuf) \in Nat
      /\ s.c.rsent \in Nat /\ s.c.pending \in Nat
  BY <1>1, Numbers
<1>3. /\ t \in State /\ t.k = s.k /\ t.p = s.p /\ t.f = s.f /\ t.h = s.h
      /\ SameFields(s.c, t.c) /\ t.c.dead = s.c.dead /\ t.c.buf = s.c.buf
      /\ t.c.rbuf = s.c.rbuf /\ t.c.rsent = s.c.rsent /\ t.c.waiting
      /\ t.c.pending = s.c.pending
  BY <1>1, SetWaitingIs
<1>4. RbufFits(t.c, t.p, a, v)
  BY <1>1, <1>3 DEF Sends, Down, RbufFits
<1>5. Grows(v, v)  BY <1>1, <1>2 DEF Grows, World, Data, Down
<1>6. Ctl(t, i, b) /\ Data(t, i, a, v)
  BY <1>3, <1>4, <1>5, RbufKeeps
<1>7. ~s.c.aborted  BY <1>1 DEF Life
<1> QED BY <1>3, <1>6, <1>7 DEF SentOut, SameFields, Pends, HasMore

\* client_socks_recv_send_out() that has written everything empties the buffer.
LEMMA SendOutDone ==
    ASSUME NEW s, NEW i, NEW b, NEW a, NEW v, Ctl(s, i, b), Data(s, i, a, v),
           ~s.c.client_closed, s.c.socks_up,
           ~HasMore(s.c), Pends(s.c),
           NEW d, d = <<>>, NEW x, x = 0, NEW t, t = SetRbuf(s, d, x)
    PROVE  Ctl(t, i, b) /\ Data(t, i, a, v) /\ SentOut(s, t)
<1>1. /\ s \in State /\ Life(s.c, s.k, s.p) /\ World(i, a, v)
      /\ Sends(s.c, s.k) /\ Down(s.c, s.k, s.p, s.h, a, v) /\ s.k.state # "NONE"
  BY DEF Ctl, Data, Life
<1>2. /\ Size(a.got) \in Nat /\ v.read \in Nat /\ Size(s.c.rbuf) \in Nat /\ Size(s.p.sndq) \in Nat
      /\ s.c.rsent \in Nat /\ s.c.pending \in Nat /\ RecvBufSize \in Nat
  BY <1>1, Numbers, SizesAssumption
<1>3. /\ t \in State /\ t.k = s.k /\ t.p = s.p /\ t.f = s.f /\ t.h = s.h
      /\ SameFields(s.c, t.c) /\ t.c.dead = s.c.dead /\ t.c.buf = s.c.buf
      /\ t.c.rbuf = <<>> /\ t.c.rsent = 0
      /\ t.c.pending = s.c.pending
  <2>1. d \in Seq(1..MaxDown) /\ x \in 0..RecvBufSize  BY <1>2, EmptySeq
  <2>2. /\ t \in State /\ t.k = s.k /\ t.p = s.p /\ t.f = s.f /\ t.h = s.h
        /\ SameFields(s.c, t.c) /\ t.c.dead = s.c.dead /\ t.c.buf = s.c.buf
        /\ t.c.rbuf = d /\ t.c.rsent = x /\ t.c.pending = s.c.pending
    BY ONLY <1>1, <2>1, SetRbufIs, t = SetRbuf(s, d, x)
  <2> QED BY <2>2
<1>a. Size(t.c.rbuf) = 0  BY <1>3, SizeNat
<1>b. Counts(t.c.rbuf, v.read - Size(t.c.rbuf))  BY <1>a DEF Counts
<1>c. /\ Size(a.got) + Size(s.p.sndq) + Size(s.c.rbuf) - s.c.rsent = v.read
      /\ s.c.rsent <= Size(s.c.rbuf) /\ ~(s.c.rsent < Size(s.c.rbuf))
  BY <1>1 DEF Sends, Down, HasMore
<1>d. Size(a.got) + Size(s.p.sndq) = v.read
  BY <1>2, <1>c
<1>4. RbufFits(t.c, t.p, a, v)
  BY <1>2, <1>3, <1>a, <1>b, <1>d DEF RbufFits
<1>5. Grows(v, v)  BY <1>1, <1>2 DEF Grows, World, Data, Down
<1>6. Ctl(t, i, b) /\ Data(t, i, a, v)
  BY <1>3, <1>4, <1>5, RbufKeeps
<1>7. ~s.c.aborted  BY <1>1 DEF Life
<1> QED BY <1>3, <1>6, <1>7 DEF SentOut, SameFields, Pends

\* client_socks_recv_send_out() that fails aborts the client.
LEMMA SendOutAborts ==
    ASSUME NEW s, NEW i, NEW b, NEW a, NEW v, Ctl(s, i, b), Data(s, i, a, v),
           ~s.c.client_closed, s.c.socks_up,
           b = "none" <=> i.phase = "idle", b = "none" <=> input.phase = "idle",
           NEW t, t = client_abort_client(s)
    PROVE  t.c.aborted /\ Good(t, i, b, a, v)
<1>1. Base(s, i, b, a, v)  BY Parts
<1>2. s.k.state # "NONE"  BY DEF Ctl, Life
<1>3. PreClose(s)  BY <1>1, <1>2, MayClose
<1>4. Closing(s, t, TRUE, Stays(s))  BY <1>3, AbortClientIs
<1>5. UpTold(s, t, TRUE, a, v) /\ DownTold(s, TRUE, a, v) /\ Stays(s) \in BOOLEAN
  BY DEF UpTold, DownTold, Stays
<1>6. Good(t, i, b, a, v)
  BY <1>1, <1>2, <1>4, <1>5, ClosingKeeps
<1> QED BY <1>4, <1>6 DEF Closing

\* client_socks_recv_send_out(s, w, o) past its ASSERTs.
Room(s) == Min2(Size(s.c.rbuf) - s.c.rsent, TCP_SND_BUF - Size(s.p.sndq))
Written(s, n) == Wrote(s, Cat(s.p.sndq, Part(s.c.rbuf, s.c.rsent, n)),
                       s.c.rsent + n, s.c.pending + n)
Outcome(m, t) ==
    \/ t = client_abort_client(m)
    \/ HasMore(m.c) /\ Pends(m.c) /\ t = SetWaiting(m)
    \/ ~HasMore(m.c) /\ t = SetRbuf(m, <<>>, 0)
SendOut(r, s, w, o) ==
    LET n  == Min2(Len(s.c.rbuf) - s.c.rsent, TCP_SND_BUF - Len(s.p.sndq))
        e  == IF n = 0 THEN "mem" ELSE tcp_write(s, n, w)
        t  == IF e # "ok" THEN r ELSE handed_out(r, n)
        more == t.c.rsent < Len(t.c.rbuf)
    IN  IF e = "conn" \/ ~o \/ (more /\ t.c.pending = 0) THEN client_abort_client(t)
        ELSE IF more THEN [t EXCEPT !.c.waiting = TRUE]
        ELSE [t EXCEPT !.c.rbuf = <<>>, !.c.rsent = 0]

\* client_socks_recv_send_out() called in turn passes its assertions.
LEMMA SendOutIs ==
    ASSUME NEW s, ~s.c.client_closed, s.c.socks_up, ~s.c.waiting, HasMore(s.c),
           s.p.state # "freed", NEW w, NEW o
    PROVE  client_socks_recv_send_out(s, w, o) = SendOut(s, s, w, o)
<1> DEFINE ok == ~s.c.client_closed /\ s.c.socks_up /\ ~s.c.waiting
                  /\ s.c.rsent < Len(s.c.rbuf)
           r == Touch(Check(s, ok, "send out of turn"))
<1>1. ok  BY DEF HasMore, Size
<1>2. Check(s, ok, "send out of turn") = s  BY <1>1, CheckIs
<1>3. Touch(s) = s  BY TouchIs
<1>4. r = s  BY <1>2, <1>3, Zenon
<1>5. client_socks_recv_send_out(s, w, o) = SendOut(r, s, w, o)
  BY Zenon DEF client_socks_recv_send_out, SendOut
<1> QED BY <1>4, <1>5, Zenon

\* The outcomes of client_socks_recv_send_out().
LEMMA SendOutForm ==
    ASSUME NEW s, s.p.state \in {"ESTABLISHED", "CLOSE_WAIT"}, NEW w \in BOOLEAN, NEW o \in BOOLEAN,
           NEW t, t = SendOut(s, s, w, o)
    PROVE  \E m : /\ m = s \/ (m = Written(s, Room(s)) /\ Room(s) # 0)
                  /\ Outcome(m, t)
<1> DEFINE n == Min2(Len(s.c.rbuf) - s.c.rsent, TCP_SND_BUF - Len(s.p.sndq))
           e == IF n = 0 THEN "mem" ELSE tcp_write(s, n, w)
           m == IF e # "ok" THEN s ELSE handed_out(s, n)
           more == m.c.rsent < Len(m.c.rbuf)
<1>1. t = IF e = "conn" \/ ~o \/ (more /\ m.c.pending = 0) THEN client_abort_client(m)
          ELSE IF more THEN [m EXCEPT !.c.waiting = TRUE]
          ELSE [m EXCEPT !.c.rbuf = <<>>, !.c.rsent = 0]
  BY Zenon DEF SendOut
<1>2. n = Room(s)  BY DEF Room, Size
<1>3. e = "ok" => n # 0  OBVIOUS
<1>4. m = IF e # "ok" THEN s ELSE Written(s, n)
  <2> HIDE DEF n, e
  <2> QED BY DEF handed_out, Written, Wrote, Cat, Part
<1> HIDE DEF n, e, m
<1>5. more <=> HasMore(m.c)  BY DEF HasMore, Size
<1> HIDE DEF more
<1>6. Outcome(m, t)
  BY <1>1, <1>5 DEF Outcome, Pends, SetWaiting, SetRbuf
<1> QED BY <1>2, <1>3, <1>4, <1>6

\* client_socks_recv_send_out() aborts the client, or leaves bytes pending.
LEMMA SendOutKeeps ==
    ASSUME NEW s, NEW i, NEW b, NEW a, NEW v, Ctl(s, i, b), Data(s, i, a, v),
           ~s.c.client_closed, s.c.socks_up, ~s.c.waiting, HasMore(s.c),
           b = "none" <=> i.phase = "idle", b = "none" <=> input.phase = "idle",
           NEW w \in BOOLEAN, NEW o \in BOOLEAN, NEW t, t = client_socks_recv_send_out(s, w, o)
    PROVE  \/ t.c.aborted /\ Good(t, i, b, a, v)
           \/ Ctl(t, i, b) /\ Data(t, i, a, v) /\ SentOut(s, t)
<1>1. /\ s \in State /\ World(i, a, v) /\ s.k.state # "NONE" /\ Sends(s.c, s.k)
      /\ Queues(s.c, s.k, s.p, i) /\ s.p.state \in {"ESTABLISHED", "CLOSE_WAIT"}
  BY DEF Ctl, Data, Life
<1>2. t = SendOut(s, s, w, o)
  BY <1>1, SendOutIs
<1>3. PICK m : /\ m = s \/ (m = Written(s, Room(s)) /\ Room(s) # 0)
               /\ Outcome(m, t)
  BY <1>1, <1>2, SendOutForm
<1>4. /\ Ctl(m, i, b) /\ Data(m, i, a, v) /\ m.k = s.k /\ SameFields(s.c, m.c)
      /\ HasMore(m.c) \/ Pends(m.c)
  <2>1. CASE m = s  BY <2>1 DEF SameFields
  <2>2. CASE m = Written(s, Room(s)) /\ Room(s) # 0
    <3> DEFINE n == Room(s)
    <3>1. /\ Size(s.c.rbuf) \in Nat /\ Size(s.p.sndq) \in Nat /\ s.c.rsent \in Nat
          /\ s.c.pending \in Nat /\ TCP_SND_BUF \in Nat /\ Ack(i) \in Nat
      BY <1>1, Numbers, SizesAssumption
    <3>2. Ack(i) = 0
      <4>1. i.phase # "sent"  BY DEF Ctl, Flow, CbT
      <4> QED BY <4>1 DEF Ack
    <3>3. s.c.rsent <= Size(s.c.rbuf) /\ Size(s.p.sndq) + Ack(i) <= TCP_SND_BUF
      BY <1>1 DEF Sends, Queues
    <3>4. /\ n \in Nat /\ s.c.rsent + n <= Size(s.c.rbuf) /\ Size(s.p.sndq) + n <= TCP_SND_BUF
      <4> DEFINE x == Size(s.c.rbuf) - s.c.rsent
                 y == TCP_SND_BUF - Size(s.p.sndq)
      <4>1. x \in Nat /\ y \in Nat  BY <3>1, <3>2, <3>3
      <4>2. n \in Nat /\ n <= x /\ n <= y  BY <4>1 DEF Room, Min2
      <4> HIDE DEF n
      <4> QED BY <3>1, <4>1, <4>2
    <3> HIDE DEF n
    <3> DEFINE q == Cat(s.p.sndq, Part(s.c.rbuf, s.c.rsent, n))
               x == s.c.rsent + n
               y == s.c.pending + n
    <3>5. m = Wrote(s, q, x, y)  BY <2>2 DEF Written, n
    <3>6. /\ Ctl(m, i, b) /\ Data(m, i, a, v) /\ m.k = s.k
          /\ SameFields(s.c, m.c) /\ m.c.pending = y
      BY ONLY Ctl(s, i, b), Data(s, i, a, v), ~s.c.client_closed, s.c.socks_up,
         <3>2, <3>4, <3>5, WroteKeeps
    <3>7. n # 0  BY <2>2 DEF n
    <3>8. y # 0  BY <3>1, <3>4, <3>7
    <3> HIDE DEF q, x, y
    <3> QED BY <3>6, <3>8 DEF Pends
  <2> QED BY <1>3, <2>1, <2>2
<1>5. ~m.c.client_closed /\ m.c.socks_up /\ (m.c.socks_closed <=> s.c.socks_closed)
  BY <1>4 DEF SameFields
<1>6. CASE t = client_abort_client(m)
  BY <1>4, <1>5, <1>6, SendOutAborts
<1>7. CASE HasMore(m.c) /\ Pends(m.c) /\ t = SetWaiting(m)
  <2>1. Ctl(t, i, b) /\ Data(t, i, a, v) /\ SentOut(m, t)
    BY <1>4, <1>5, <1>7, SendOutWaits
  <2> QED BY <1>4, <1>5, <2>1 DEF SentOut
<1>8. CASE ~HasMore(m.c) /\ t = SetRbuf(m, <<>>, 0)
  <2>1. Ctl(t, i, b) /\ Data(t, i, a, v) /\ SentOut(m, t)
    BY <1>4, <1>5, <1>8, SendOutDone
  <2> QED BY <1>4, <1>5, <2>1 DEF SentOut
<1> QED BY <1>3, <1>6, <1>7, <1>8 DEF Outcome

\* After client_socks_recv_send_out() the next receive is started when the
\* buffer is empty and SOCKS is still there.
LEMMA AfterSendOut ==
    ASSUME NEW s, NEW t, NEW i, NEW b, NEW a, NEW v, Ctl(t, i, b), Data(t, i, a, v),
           SentOut(s, t), s.k.state = "UP" => ~s.k.recv,
           NEW z, z = IF t.c.rbuf = <<>> /\ ~t.c.socks_closed
                        THEN client_socks_recv_initiate(t) ELSE t
    PROVE  Good(z, i, b, a, v)
<1>1. /\ t \in State /\ Life(t.c, t.k, t.p) /\ World(i, a, v) /\ t.k = s.k
      /\ ~t.c.client_closed /\ t.c.socks_up
      /\ (t.c.rbuf # <<>> => t.c.waiting /\ t.c.rsent < Size(t.c.rbuf))
      /\ t.c.pending # 0 /\ ~t.c.aborted
  BY DEF Ctl, Data, SentOut, Pends, HasMore
<1>2. t.c.pending > 0
  <2>1. t.c.pending \in Nat  BY <1>1, Numbers
  <2> QED BY <1>1, <2>1
<1>3. t.k.state = "UP" => ~t.k.recv /\ ~t.c.socks_closed
  BY <1>1 DEF Life
<1>4. CASE ~(t.c.rbuf = <<>> /\ ~t.c.socks_closed)
  <2>1. z = t  BY <1>4
  <2>2. Receives(t.c, t.k)
    BY <1>1, <1>2, <1>3, <1>4 DEF Receives
  <2> QED BY <2>1, <2>2, Parts
<1>5. CASE t.c.rbuf = <<>> /\ ~t.c.socks_closed
  <2>1. z = client_socks_recv_initiate(t)  BY <1>5
  <2>2. t.k.state = "UP"  BY <1>1, <1>5 DEF Life
  <2>3. /\ z \in State /\ z.c = t.c /\ z.p = t.p /\ z.f = t.f /\ z.h = t.h
        /\ z.k.state = t.k.state /\ z.k.recv /\ z.k.send = t.k.send
    BY <1>1, <1>3, <1>5, <2>1, <2>2, RecvInitiateIs
  <2>4. RbufFits(z.c, z.p, a, v)
    BY <1>1, <2>3 DEF Data, Sends, Down, RbufFits
  <2>5. v.read \in Nat  BY <1>1, Numbers
  <2>6. Grows(v, v)  BY <1>1, <2>5 DEF Grows, World, Data, Down
  <2>7. SameFields(t.c, z.c) /\ z.c.dead = t.c.dead /\ z.c.buf = t.c.buf
        /\ z.c.pending = t.c.pending /\ z.k.state # "FREE"
    BY <2>2, <2>3 DEF SameFields
  <2>8. Ctl(z, i, b) /\ Data(z, i, a, v)
    BY <1>1, <2>2, <2>3, <2>4, <2>6, <2>7, RbufKeeps
  <2>9. Receives(z.c, z.k)
    BY <1>1, <1>5, <2>3 DEF Receives
  <2> QED BY <2>8, <2>9, Parts
<1> QED BY <1>4, <1>5

-----------------------------------------------------------------------------
(* The sent callback.                                                      *)

\* client_sent_func()
Confirmed(s, y) == [s EXCEPT !.c.pending = y]
Unwait(s) == [s EXCEPT !.c.waiting = FALSE]

\* Ending the wait changes nothing else.
LEMMA UnwaitIs ==
    ASSUME NEW s \in State, NEW t, t = Unwait(s)
    PROVE  /\ t \in State /\ t.k = s.k /\ t.p = s.p /\ t.f = s.f /\ t.h = s.h
           /\ SameFields(s.c, t.c) /\ t.c.dead = s.c.dead /\ t.c.buf = s.c.buf
           /\ t.c.rbuf = s.c.rbuf /\ t.c.rsent = s.c.rsent /\ ~t.c.waiting
           /\ t.c.pending = s.c.pending
<1> DEFINE d == [s.c EXCEPT !.waiting = FALSE]
<1>1. /\ d \in ClientT /\ SameFields(s.c, d) /\ d.dead = s.c.dead /\ d.buf = s.c.buf
      /\ d.rbuf = s.c.rbuf /\ d.rsent = s.c.rsent /\ ~d.waiting
      /\ d.pending = s.c.pending
  BY DEF State, ClientT, SameFields
<1>2. t = [s EXCEPT !.c = d]  BY DEF Unwait
<1> HIDE DEF d
<1>3. t \in State /\ t.c = d /\ t.k = s.k /\ t.p = s.p /\ t.f = s.f /\ t.h = s.h
  BY <1>1, <1>2 DEF State
<1> QED BY <1>1, <1>3

\* Ending the wait keeps both parts of the invariant.
LEMMA UnwaitKeeps ==
    ASSUME NEW s, NEW i, NEW b, NEW a, NEW v, Ctl(s, i, b), Data(s, i, a, v),
           s.c.socks_up, ~s.c.client_closed, NEW t, t = Unwait(s)
    PROVE  Ctl(t, i, b) /\ Data(t, i, a, v)
<1>1. s \in State /\ World(i, a, v)  BY DEF Ctl, Data
<1>2. /\ t \in State /\ t.k = s.k /\ t.p = s.p /\ t.f = s.f /\ t.h = s.h
      /\ SameFields(s.c, t.c) /\ t.c.dead = s.c.dead /\ t.c.buf = s.c.buf
      /\ t.c.rbuf = s.c.rbuf /\ t.c.rsent = s.c.rsent /\ t.c.pending = s.c.pending
  BY <1>1, UnwaitIs
<1>3. RbufFits(t.c, t.p, a, v)
  BY <1>2 DEF Data, Sends, Down, RbufFits
<1>4. v.read \in Nat  BY <1>1, Numbers
<1>5. Grows(v, v)  BY <1>1, <1>4 DEF Grows, World, Data, Down
<1> QED BY <1>2, <1>3, <1>5, RbufKeeps

\* The fields after a confirmation is counted.
LEMMA ConfirmedIs ==
    ASSUME NEW s \in State, NEW y \in 0..TCP_SND_BUF, NEW t, t = Confirmed(s, y)
    PROVE  /\ t \in State /\ t.k = s.k /\ t.p = s.p /\ t.f = s.f /\ t.h = s.h
           /\ SameFields(s.c, t.c) /\ t.c.dead = s.c.dead /\ t.c.buf = s.c.buf
           /\ t.c.rbuf = s.c.rbuf /\ t.c.rsent = s.c.rsent /\ t.c.waiting = s.c.waiting
           /\ t.c.pending = y
<1> DEFINE d == [s.c EXCEPT !.pending = y]
<1>1. /\ d \in ClientT /\ SameFields(s.c, d) /\ d.dead = s.c.dead /\ d.buf = s.c.buf
      /\ d.rbuf = s.c.rbuf /\ d.rsent = s.c.rsent /\ d.waiting = s.c.waiting
      /\ d.pending = y
  BY DEF State, ClientT, SameFields
<1>2. t = [s EXCEPT !.c = d]  BY DEF Confirmed
<1> HIDE DEF d
<1>3. t \in State /\ t.c = d /\ t.k = s.k /\ t.p = s.p /\ t.f = s.f /\ t.h = s.h
  BY <1>1, <1>2 DEF State
<1> QED BY <1>1, <1>3

\* lwIP confirms what the segment acknowledges.
LEMMA ConfirmedKeeps ==
    ASSUME NEW s, NEW i, NEW j, NEW b, NEW a, NEW v, Ctl(s, j, b), Data(s, i, a, v),
           ~s.c.client_closed, s.c.socks_up, i.phase = "sent",
           j \in InputT, j.phase = "data", j.data = i.data, j.fin <=> i.fin,
           NEW y, y = s.c.pending - i.ack, NEW t, t = Confirmed(s, y)
    PROVE  /\ Ctl(t, j, b) /\ Data(t, j, a, v) /\ y \in Nat /\ y = Size(s.p.sndq)
           /\ t.k = s.k /\ t.p = s.p /\ SameFields(s.c, t.c)
           /\ t.c.rbuf = s.c.rbuf /\ t.c.rsent = s.c.rsent /\ t.c.waiting = s.c.waiting
           /\ t.c.pending = y
<1>1. /\ s \in State /\ World(i, a, v) /\ World(j, a, v) /\ s.k.state # "NONE"
      /\ Sends(s.c, s.k) /\ Queues(s.c, s.k, s.p, i) /\ Up(s.c, s.p, i, s.h, a, v)
      /\ Down(s.c, s.k, s.p, s.h, a, v)
  BY DEF Ctl, Data, Life, World
<1>2. /\ Ack(i) = i.ack /\ Ack(j) = 0 /\ InFlight(j) = InFlight(i) /\ Fin(j) = Fin(i)
  BY DEF Ack, InFlight, Fin
<1>3. /\ Size(s.p.sndq) \in Nat /\ s.c.pending \in Nat /\ TCP_SND_BUF \in Nat /\ Ack(i) \in Nat
  BY <1>1, Numbers, SizesAssumption
<1>4. s.c.pending = Size(s.p.sndq) + Ack(i) /\ Size(s.p.sndq) + Ack(i) <= TCP_SND_BUF
  BY <1>1 DEF Queues
<1>5. y = Size(s.p.sndq) /\ y \in 0..TCP_SND_BUF /\ y \in Nat
      /\ Size(s.p.sndq) + Ack(j) <= TCP_SND_BUF /\ y = Size(s.p.sndq) + Ack(j)
  BY <1>2, <1>3, <1>4
<1>6. /\ t \in State /\ t.k = s.k /\ t.p = s.p /\ t.f = s.f /\ t.h = s.h
      /\ SameFields(s.c, t.c) /\ t.c.dead = s.c.dead /\ t.c.buf = s.c.buf
      /\ t.c.rbuf = s.c.rbuf /\ t.c.rsent = s.c.rsent /\ t.c.waiting = s.c.waiting
      /\ t.c.pending = y
  BY ONLY <1>1, <1>5, t = Confirmed(s, y), ConfirmedIs
<1>7. Ctl(t, j, b)
  <2>1. SamePcb(s.p, t.p)  BY <1>6 DEF SamePcb
  <2> QED BY ONLY <1>1, <1>6, <2>1, Ctl(s, j, b), j.phase = "data", CtlKeeps
<1>8. Sends(t.c, t.k)
  BY <1>1, <1>6 DEF Sends, SameFields
<1>9. Queues(t.c, t.k, t.p, j)
  BY <1>1, <1>2, <1>5, <1>6 DEF Queues, SameFields
<1>10. Up(t.c, t.p, j, t.h, a, v)
  BY <1>1, <1>2, <1>6 DEF Up, SameFields
<1>11. Down(t.c, t.k, t.p, t.h, a, v)
  BY <1>1, <1>6 DEF Down, SameFields
<1> QED BY <1>1, <1>5, <1>6, <1>7, <1>8, <1>9, <1>10, <1>11 DEF Data

\* client_sent_func(s, len, w, ok) past its ASSERTs: r after the count, t
\* after the next bytes are sent out, u the same as t.
SentTail(r, t, u, ok) ==
    IF r.c.rbuf # <<>>
      THEN IF t.c.aborted THEN t
           ELSE IF u.c.rbuf = <<>> /\ ~u.c.socks_closed THEN client_socks_recv_initiate(u) ELSE u
    ELSE IF r.c.socks_closed /\ r.c.pending = 0 THEN client_free_client(r, ok)
    ELSE r
SentChecked(r, t) == Check(Check(t, r.c.waiting, "buffer without waiting"),
                           t.c.pending > 0, "nothing pending")
SentOn(r, w) == client_socks_recv_send_out(Unwait(r), w, TRUE)

\* client_sent_func() called in turn passes its first assertion.
LEMMA SentFuncIs ==
    ASSUME NEW s, ~s.c.client_closed, s.c.socks_up, NEW n, n <= s.c.pending,
           NEW w, NEW ok, NEW r, r = Confirmed(s, s.c.pending - n)
    PROVE  client_sent_func(s, n, w, ok)
             = SentTail(r, SentOn(r, w), SentChecked(r, SentOn(r, w)), ok)
<1> DEFINE q == ~s.c.client_closed /\ s.c.socks_up /\ n <= s.c.pending
           x == [Check(s, q, "confirmation out of turn") EXCEPT !.c.pending = @ - n]
<1>1. q  OBVIOUS
<1>2. Check(s, q, "confirmation out of turn") = s  BY <1>1, CheckIs
<1>3. x = [s EXCEPT !.c.pending = @ - n]  BY <1>2, Zenon
<1>4. x = r  BY <1>3, Zenon DEF Confirmed
<1>5. client_sent_func(s, n, w, ok)
        = SentTail(x, SentOn(x, w), SentChecked(x, SentOn(x, w)), ok)
  BY Zenon DEF client_sent_func, SentTail, SentOn, SentChecked, Unwait
<1> QED BY <1>4, <1>5, Zenon

\* lwIP has confirmed bytes, and there are more in the receive buffer.
LEMMA SentMore ==
    ASSUME NEW r, NEW j, NEW b, NEW a, NEW v, Ctl(r, j, b), Data(r, j, a, v),
           ~r.c.client_closed, r.c.socks_up, r.c.rbuf # <<>>, r.c.waiting, HasMore(r.c),
           r.k.state = "UP" => ~r.k.recv,
           b = "none" <=> j.phase = "idle", b = "none" <=> input.phase = "idle",
           NEW w \in BOOLEAN, NEW t, t = SentOn(r, w), NEW ok,
           NEW z, z = SentTail(r, t, SentChecked(r, t), ok)
    PROVE  Good(z, j, b, a, v)
<1> DEFINE u == Unwait(r)
<1>1. r \in State /\ World(j, a, v)  BY DEF Ctl, Data
<1>2. /\ u.k = r.k /\ SameFields(r.c, u.c) /\ ~u.c.waiting /\ u.c.rbuf = r.c.rbuf
      /\ u.c.rsent = r.c.rsent
  BY <1>1, UnwaitIs
<1>3. Ctl(u, j, b) /\ Data(u, j, a, v)
  BY UnwaitKeeps
<1>4. t = client_socks_recv_send_out(u, w, TRUE)  BY DEF SentOn
<1> HIDE DEF u
<1>5. ~u.c.client_closed /\ u.c.socks_up /\ HasMore(u.c)
  BY <1>2 DEF SameFields, HasMore
<1>6. \/ t.c.aborted /\ Good(t, j, b, a, v)
      \/ Ctl(t, j, b) /\ Data(t, j, a, v) /\ SentOut(u, t)
  BY <1>2, <1>3, <1>4, <1>5, SendOutKeeps
<1>7. CASE t.c.aborted /\ Good(t, j, b, a, v)
  BY <1>7 DEF SentTail
<1>8. CASE Ctl(t, j, b) /\ Data(t, j, a, v) /\ SentOut(u, t)
  <2>1. t \in State /\ ~t.c.aborted /\ t.c.pending # 0
    BY <1>8 DEF Ctl, SentOut, Pends
  <2>2. t.c.pending > 0
    <3>1. t.c.pending \in Nat  BY <1>1, <2>1, Numbers
    <3> QED BY <2>1, <3>1
  <2>3. SentChecked(r, t) = t
    BY <2>2, CheckIs, Zenon DEF SentChecked
  <2>4. z = IF t.c.rbuf = <<>> /\ ~t.c.socks_closed
              THEN client_socks_recv_initiate(t) ELSE t
    BY <2>1, <2>3 DEF SentTail
  <2>5. u.k.state = "UP" => ~u.k.recv  BY <1>2
  <2> QED BY <1>8, <2>4, <2>5, AfterSendOut
<1> QED BY <1>6, <1>7, <1>8

\* Everything is confirmed: the client ends when SOCKS has, and waits if not.
LEMMA SentAll ==
    ASSUME NEW r, NEW j, NEW b, NEW a, NEW v, Ctl(r, j, b), Data(r, j, a, v),
           ~r.c.client_closed, r.c.socks_up, r.c.rbuf = <<>>,
           r.k.state = "UP" => r.k.recv, NEW y \in Nat, r.c.pending = y, y = Size(r.p.sndq),
           b = "none" <=> j.phase = "idle", b = "none" <=> input.phase = "idle",
           NEW t, NEW u, NEW ok \in BOOLEAN,
           NEW z, z = SentTail(r, t, u, ok)
    PROVE  Good(z, j, b, a, v)
<1>1. r \in State /\ World(j, a, v) /\ r.k.state # "NONE"  BY DEF Ctl, Data, Life
<1>2. CASE r.c.socks_closed /\ r.c.pending = 0
  <2>1. z = client_free_client(r, ok)  BY <1>2 DEF SentTail
  <2>2. Base(r, j, b, a, v)  BY Parts
  <2>3. PreClose(r)  BY <1>1, <2>2, MayClose
  <2>4. Closing(r, z, ~ok, Stays(r))  BY <2>1, <2>3, FreeClientIs
  <2>5. UpTold(r, z, ~ok, a, v)  BY <1>2 DEF UpTold
  <2>6. Size(a.got) = v.read
    <3>1. Size(a.got) \in Nat /\ v.read \in Nat  BY <1>1, Numbers
    <3>2. Size(r.c.rbuf) = 0 /\ Size(r.p.sndq) = 0 /\ r.c.rsent = 0
      BY <1>2, SizeNat DEF Data, Sends
    <3>3. Size(a.got) + Size(r.p.sndq) + Size(r.c.rbuf) - r.c.rsent = v.read
      BY DEF Data, Down
    <3> QED BY <3>1, <3>2, <3>3
  <2>7. DownTold(r, ~ok, a, v)  BY <1>2, <2>6 DEF DownTold
  <2>8. Stays(r) \in BOOLEAN /\ (~ok) \in BOOLEAN  BY DEF Stays
  <2> QED BY <1>1, <2>2, <2>4, <2>5, <2>7, <2>8, ClosingKeeps
<1>3. CASE ~(r.c.socks_closed /\ r.c.pending = 0)
  <2>1. z = r  BY <1>3 DEF SentTail
  <2>2. r.c.socks_closed => r.c.pending > 0
    BY <1>3
  <2>3. Receives(r.c, r.k)
    BY <2>2 DEF Receives
  <2> QED BY <2>1, <2>3, Parts
<1> QED BY <1>2, <1>3

\* The sent callback keeps the invariant.
LEMMA SentKeeps ==
    ASSUME Inv, cb = "none", input.phase = "sent", "sent" \in Cur.p.cbs,
           NEW w \in BOOLEAN, NEW ok \in BOOLEAN,
           NEW e, e = Entered(Cur), NEW z, z = client_sent_func(e, input.ack, w, ok),
           NEW j, j = At("data"), NEW b, b = "sent"
    PROVE  Good(z, j, b, app, srv)
<1>1. /\ Core(Cur, input, app, srv) /\ Callbacks(Cur.c, Cur.k, Cur.p)
      /\ Receives(Cur.c, Cur.k) /\ Cur.k.state # "NONE" /\ input \in InputT
  BY Ongoing
<1>2. ~Cur.c.client_closed /\ Cur.c.socks_up  BY <1>1 DEF Callbacks
<1>3. /\ j.phase = "data" /\ j.data = input.data /\ (j.fin <=> input.fin) /\ j \in InputT
  BY <1>1, AtIs
<1>4. /\ e.k = Cur.k /\ e.p = Cur.p /\ e.h = Cur.h /\ SameFields(Cur.c, e.c)
      /\ Ctl(e, j, b) /\ Data(e, input, app, srv) /\ Receives(e.c, e.k)
  BY <1>1, <1>2, <1>3, EnteredKeeps
<1>5. ~e.c.client_closed /\ e.c.socks_up  BY <1>2, <1>4 DEF SameFields
<1> DEFINE y == e.c.pending - input.ack
           r == Confirmed(e, y)
<1>6. /\ Ctl(r, j, b) /\ Data(r, j, app, srv) /\ y \in Nat /\ y = Size(e.p.sndq)
      /\ r.k = e.k /\ r.p = e.p /\ SameFields(e.c, r.c)
      /\ r.c.rbuf = e.c.rbuf /\ r.c.rsent = e.c.rsent /\ r.c.waiting = e.c.waiting
      /\ r.c.pending = y
  BY <1>3, <1>4, <1>5, ConfirmedKeeps
<1>7. input.ack <= e.c.pending
  <2>1. e \in State /\ World(input, app, srv)  BY <1>4 DEF Ctl, Data
  <2>2. input.ack \in Int /\ e.c.pending \in Int  BY <2>1, SizesAssumption DEF World, InputT, State, ClientT
  <2> QED BY <1>6, <2>2
<1>8. z = SentTail(r, SentOn(r, w), SentChecked(r, SentOn(r, w)), ok)
  BY <1>5, <1>7, SentFuncIs
<1> HIDE DEF y, r
<1>9. ~r.c.client_closed /\ r.c.socks_up  BY <1>5, <1>6 DEF SameFields
<1>10. b # "none" /\ j.phase # "idle" /\ input.phase # "idle"  BY <1>3
<1>11. CASE r.c.rbuf # <<>>
  <2>1. r.c.waiting /\ HasMore(r.c) /\ (r.k.state = "UP" => ~r.k.recv)
    BY <1>4, <1>5, <1>6, <1>11 DEF Receives, HasMore
  <2> QED BY <1>6, <1>8, <1>9, <1>10, <1>11, <2>1, SentMore
<1>12. CASE r.c.rbuf = <<>>
  <2>1. r.k.state = "UP" => r.k.recv
    BY <1>4, <1>5, <1>6, <1>12 DEF Receives
  <2>2. y = Size(r.p.sndq)  BY <1>6
  <2> QED BY <1>6, <1>8, <1>9, <1>10, <1>12, <2>1, <2>2, SentAll
<1> QED BY <1>11, <1>12

\* A segment that confirms nothing, or of which nobody is told.
LEMMA NotSent ==
    ASSUME Inv, cb = "none", input.phase = "sent",
           ~(input.ack > 0 /\ "sent" \in Cur.p.cbs), NEW j, j = At("data")
    PROVE  Between(Cur, j)
<1>1. /\ Core(Cur, input, app, srv) /\ Callbacks(Cur.c, Cur.k, Cur.p)
      /\ Receives(Cur.c, Cur.k) /\ Cur.k.state # "NONE" /\ input \in InputT
      /\ Cur.c.dead # "frame"
      /\ Cur.c.dead = "stale" => Cur.c.aborted \/ ~Cur.c.alive
      /\ Cur.c.client_closed => \/ Cur.p.state \in {"CLOSING", "TIME_WAIT", "freed"}
                                \/ FinAtAccept \in Cur.h
  BY Ongoing
<1>2. /\ j.phase = "data" /\ j.data = input.data /\ (j.fin <=> input.fin) /\ j \in InputT
  BY <1>1, AtIs
<1>3. /\ Cur \in State /\ World(input, app, srv) /\ World(j, app, srv)
      /\ Queues(Cur.c, Cur.k, Cur.p, input) /\ Up(Cur.c, Cur.p, input, Cur.h, app, srv)
      /\ Sends(Cur.c, Cur.k)
  BY <1>1, <1>2 DEF Core, World
<1>4. /\ Ack(input) = input.ack /\ Ack(j) = 0 /\ InFlight(j) = InFlight(input)
      /\ Fin(j) = Fin(input)
  <2>1. j.phase = "data" /\ j.data = input.data /\ (j.fin <=> input.fin)  BY <1>2
  <2> QED BY <2>1 DEF Ack, InFlight, Fin
<1>5. /\ Size(Cur.p.sndq) \in Nat /\ Cur.c.pending \in Nat /\ TCP_SND_BUF \in Nat
      /\ Ack(input) \in Nat
  BY <1>3, Numbers, SizesAssumption
<1>6. Cur.c.client_closed \/ input.ack = 0
  <2>1. CASE input.ack > 0
    <3>1. "sent" \notin Cur.p.cbs  BY <2>1
    <3>2. CASE ~Cur.c.client_closed
      <4>1. ~Cur.c.socks_up  BY <1>1, <3>1, <3>2 DEF Callbacks
      <4>2. Cur.c.pending = 0  BY <1>3, <1>5, <4>1 DEF Sends
      <4>3. Cur.c.pending = Size(Cur.p.sndq) + Ack(input)  BY <1>1, <1>3, <3>2 DEF Queues
      <4> QED BY <1>4, <1>5, <4>2, <4>3
    <3> QED BY <3>2
  <2>2. CASE ~(input.ack > 0)
    BY <1>4, <1>5, <2>2
  <2> QED BY <2>1, <2>2
<1>7. Queues(Cur.c, Cur.k, Cur.p, j)
  <2>1. Size(Cur.p.sndq) + Ack(input) <= TCP_SND_BUF  BY <1>3 DEF Queues
  <2>2. Size(Cur.p.sndq) + Ack(j) <= TCP_SND_BUF  BY <1>4, <1>5, <2>1
  <2>3. ~Cur.c.client_closed => Ack(j) = Ack(input)  BY <1>4, <1>6
  <2> QED BY <1>2, <1>3, <1>4, <2>2, <2>3 DEF Queues
<1>8. Up(Cur.c, Cur.p, j, Cur.h, app, srv)
  BY <1>2, <1>3, <1>4 DEF Up
<1>9. Core(Cur, j, app, srv)  BY <1>1, <1>3, <1>7, <1>8 DEF Core
<1> QED BY <1>1, <1>9 DEF Between

\* The step for what a segment acknowledges keeps the invariant.
LEMMA InputSentKeeps == ASSUME Inv, InputSent PROVE Inv'
<1>1. input.phase = "sent" /\ cb = "none" /\ UNCHANGED <<app, srv>>
  BY DEF InputSent
<1>2. input \in InputT  BY DEF Inv, Good, Base, Core, World
<1>3. CASE input.ack > 0 /\ "sent" \in pcb.cbs
  <2>1. PICK w \in BOOLEAN, ok \in Closes :
           Enter("sent", "data", client_sent_func(Entered(Cur), input.ack, w, ok))
    BY <1>3 DEF InputSent
  <2> DEFINE t == client_sent_func(Entered(Cur), input.ack, w, ok)
             j == At("data")
  <2>2. Become(t) /\ cb' = "sent" /\ input' = j
    BY <2>1 DEF Enter, At
  <2>3. "sent" \in Cur.p.cbs  BY <1>3, CurIs
  <2>4. Good(t, j, "sent", app, srv)
    BY <1>1, <2>3, ClosesBoolean, SentKeeps
  <2> HIDE DEF t, j
  <2> QED BY <1>1, <2>2, <2>4, InvNext
<1>4. CASE ~(input.ack > 0 /\ "sent" \in pcb.cbs)
  <2>1. Continue("data", Cur)  BY <1>4 DEF InputSent
  <2>2. ~(input.ack > 0 /\ "sent" \in Cur.p.cbs)  BY <1>4, CurIs
  <2>3. Between(Cur, At("data"))  BY <1>1, <2>2, NotSent
  <2> QED BY <1>1, <1>2, <2>1, <2>3, ContinueKeeps
<1> QED BY <1>3, <1>4

(* The SOCKS handshake.                                                    *)
-----------------------------------------------------------------------------
(* The SOCKS handshake.                                                    *)

\* The states of the SOCKS handshake, and going on to one of them.
Greeting == {"CONNECTING", "CONNECTED_HANDLER", "SENDING_HELLO", "SENT_HELLO",
             "SENDING_REQUEST", "SENT_REQUEST", "RECEIVED_REPLY_HEADER"}
Advance(s, x) == [s EXCEPT !.k.state = x]

\* The states of the SOCKS handshake by name.
LEMMA HandshakeNames ==
    /\ \A n \in 1..7 : Handshake[n] \in Greeting
    /\ \A n \in 1..7 : n # 7 => n + 1 \in 1..7
  BY DEF Handshake, Greeting

\* A step of the SOCKS handshake before the last keeps the invariant.
LEMMA AdvanceKeeps ==
    ASSUME NEW s, NEW i, NEW b, NEW a, NEW v, Good(s, i, b, a, v), s.k.state \in Greeting,
           NEW x \in Greeting, NEW t, t = Advance(s, x)
    PROVE  Good(t, i, b, a, v)
<1>1. /\ s \in State /\ Core(s, i, a, v) /\ Receives(s.c, s.k) /\ Callbacks(s.c, s.k, s.p)
      /\ b \in CbT /\ Flow(s.c, s.k, s.p, i, b) /\ Frame(s.c, s.p, b, s.f)
      /\ LetGo(s.c, s.p, i, b, s.h) /\ World(i, a, v)
      /\ s.k.state \notin {"NONE", "FREE", "UP"} /\ x \notin {"NONE", "FREE", "UP"}
  BY DEF Good, Base, Core, Greeting
<1> DEFINE l == [s.k EXCEPT !.state = x]
<1>2. l \in SocksT /\ l.state = x /\ l.send = s.k.send /\ (l.recv <=> s.k.recv)
  BY <1>1, StateNames DEF State, SocksT, Greeting
<1>3. t = [s EXCEPT !.k = l]  BY DEF Advance
<1> HIDE DEF l
<1>4. t \in State /\ t.c = s.c /\ t.p = s.p /\ t.f = s.f /\ t.h = s.h /\ t.k = l
  BY <1>1, <1>2, <1>3 DEF State
<1>5. Life(t.c, t.k, t.p)  BY <1>1, <1>2, <1>4 DEF Core, Life
<1>6. Callbacks(t.c, t.k, t.p)  BY <1>1, <1>2, <1>4 DEF Callbacks
<1>7. Sends(t.c, t.k)  BY <1>1, <1>2, <1>4 DEF Core, Sends
<1>8. Receives(t.c, t.k)  BY <1>1, <1>2, <1>4 DEF Receives
<1>9. Queues(t.c, t.k, t.p, i)  BY <1>1, <1>2, <1>4 DEF Core, Queues
<1>10. Up(t.c, t.p, i, t.h, a, v) /\ Down(t.c, t.k, t.p, t.h, a, v)
  BY <1>1, <1>4 DEF Core, Down
<1>11. Flow(t.c, t.k, t.p, i, b)  BY <1>1, <1>2, <1>4 DEF Flow
<1>12. Frame(t.c, t.p, b, t.f) /\ LetGo(t.c, t.p, i, b, t.h)  BY <1>1, <1>4
<1>13. t.k.state # "FREE"  BY <1>1, <1>2, <1>4
<1> QED
  BY <1>1, <1>4, <1>5, <1>6, <1>7, <1>8, <1>9, <1>10, <1>11, <1>12, <1>13 DEF Good, Base, Core

\* client_socks_up(): the callback is set, what waited is sent and a receive
\* started.
WithSent(s) == [s EXCEPT !.p.cbs = @ \cup {"sent"}]
WentUp(s) == [s EXCEPT !.c.socks_up = TRUE, !.k.state = "UP"]

\* A SOCKS connection that is up sends what was buffered, and an open client
\* receives.
LEMMA UpKeeps ==
    ASSUME NEW s, NEW i, NEW b, NEW a, NEW v, Good(s, i, b, a, v), s.k.state \in Greeting,
           NEW z \in State, z.c.alive <=> s.c.alive, z.c.client_closed <=> s.c.client_closed,
           z.c.socks_closed <=> s.c.socks_closed, z.c.aborted <=> s.c.aborted,
           z.c.socks_up, z.c.buf = s.c.buf, z.c.rbuf = s.c.rbuf, z.c.rsent = s.c.rsent,
           z.c.waiting = s.c.waiting, z.c.pending = s.c.pending, z.c.dead = s.c.dead,
           z.k.state = "UP", z.k.send = Size(s.c.buf), z.k.recv <=> ~s.c.client_closed,
           z.p.state = s.p.state, z.p.rxclosed <=> s.p.rxclosed, z.p.closed <=> s.p.closed,
           SameWindow(s.p, z.p), z.p.sndq = s.p.sndq,
           z.p.cbs = (IF s.c.client_closed THEN s.p.cbs ELSE s.p.cbs \cup {"sent"}),
           z.f = s.f, z.h = s.h
    PROVE  Good(z, i, b, a, v)
<1>1. /\ s \in State /\ Core(s, i, a, v) /\ Receives(s.c, s.k) /\ Callbacks(s.c, s.k, s.p)
      /\ b \in CbT /\ Flow(s.c, s.k, s.p, i, b) /\ Frame(s.c, s.p, b, s.f)
      /\ LetGo(s.c, s.p, i, b, s.h) /\ World(i, a, v) /\ Life(s.c, s.k, s.p)
      /\ Queues(s.c, s.k, s.p, i) /\ Sends(s.c, s.k)
      /\ s.k.state \notin {"NONE", "FREE", "UP"}
  BY DEF Good, Base, Core, Greeting
<1>2. ~s.c.socks_closed /\ ~s.c.socks_up  BY <1>1 DEF Life
<1>3. Size(s.c.buf) \in Nat /\ (Size(s.c.buf) = 0 <=> s.c.buf = <<>>)
  BY <1>1, SizeNat DEF State, ClientT
<1>4. Life(z.c, z.k, z.p)
  BY <1>1, <1>2 DEF Life
<1>5. Callbacks(z.c, z.k, z.p)
  BY <1>1, <1>2 DEF Callbacks
<1>6. Sends(z.c, z.k)
  <2>1. z.k.send <= Size(z.c.buf) /\ (z.k.send > 0 <=> z.c.buf # <<>>)
    BY <1>3
  <2> QED BY <1>1, <2>1 DEF Sends
<1>7. ~s.c.client_closed => s.c.rbuf = <<>>
  BY <1>1, <1>2 DEF Sends, Receives
<1>8. Receives(z.c, z.k)
  BY <1>1, <1>2, <1>7 DEF Receives
<1>9. "recv" \in z.p.cbs <=> "recv" \in s.p.cbs  OBVIOUS
<1>10. Queues(z.c, z.k, z.p, i)
  BY <1>1, <1>9 DEF Queues, SameWindow
<1>11. Up(z.c, z.p, i, z.h, a, v)
  BY <1>1, <1>9 DEF Core, Up
<1>12. Down(z.c, z.k, z.p, z.h, a, v)
  BY <1>1 DEF Core, Down
<1>13. Flow(z.c, z.k, z.p, i, b)
  BY <1>1 DEF Flow, SameWindow
<1>14. Frame(z.c, z.p, b, z.f)
  BY <1>1 DEF Frame
<1>15. LetGo(z.c, z.p, i, b, z.h)
  BY <1>1 DEF LetGo
<1> QED
  BY <1>1, <1>4, <1>5, <1>6, <1>8, <1>10, <1>11, <1>12, <1>13, <1>14, <1>15 DEF Good, Base, Core

\* What client_socks_handler() does once the connection is up.
UpTail(t) ==
    LET u == IF t.c.buf # <<>> THEN client_send_to_socks(t) ELSE t
    IN  IF u.c.client_closed THEN u ELSE client_socks_recv_initiate(u)

\* client_socks_handler() called for the first UP passes its assertions.
LEMMA SocksUpIs ==
    ASSUME NEW s, s.c.client_closed \/ s.p.state # "freed", ~s.c.socks_closed, ~s.c.socks_up
    PROVE  client_socks_up(s) = UpTail(WentUp(IF s.c.client_closed THEN s ELSE WithSent(s)))
<1> DEFINE r == IF s.c.client_closed THEN s ELSE [Touch(s) EXCEPT !.p.cbs = @ \cup {"sent"}]
           q == ~s.c.socks_closed /\ ~s.c.socks_up
           x == Check(r, q, "up twice")
           m == IF s.c.client_closed THEN s ELSE WithSent(s)
<1>1. ~s.c.client_closed => Touch(s) = s  BY TouchIs
<1>2. r = m
  <2>1. CASE s.c.client_closed  BY <2>1, Zenon
  <2>2. CASE ~s.c.client_closed
    <3>1. Touch(s) = s  BY <1>1, <2>2
    <3> QED BY <2>2, <3>1, Zenon DEF WithSent
  <2> QED BY <2>1, <2>2, Zenon
<1>3. q  OBVIOUS
<1>4. x = r  BY <1>3, CheckIs
<1>5. client_socks_up(s) = UpTail(WentUp(x))
  BY Zenon DEF client_socks_up, UpTail, WentUp
<1> QED BY <1>2, <1>4, <1>5, Zenon

\* client_socks_handler(), BSOCKSCLIENT_EVENT_UP, keeps the invariant.
LEMMA SocksUpKeeps ==
    ASSUME NEW s, NEW i, NEW b, NEW a, NEW v, Good(s, i, b, a, v), s.k.state \in Greeting,
           NEW z, z = client_socks_up(s)
    PROVE  Good(z, i, b, a, v)
<1>1. /\ s \in State /\ ~s.c.socks_closed /\ ~s.c.socks_up /\ s.k.send = 0 /\ ~s.k.recv
      /\ Size(s.c.buf) <= TCP_WND /\ (s.c.client_closed \/ s.p.state # "freed")
      /\ (~s.c.client_closed => s.c.rbuf = <<>>)
  BY DEF Good, Base, Core, Life, Sends, Receives, Greeting
<1> DEFINE m == IF s.c.client_closed THEN s ELSE WithSent(s)
           t == WentUp(m)
           u == IF t.c.buf # <<>> THEN client_send_to_socks(t) ELSE t
<1>2. z = UpTail(t)  BY <1>1, SocksUpIs
<1>3. z = IF u.c.client_closed THEN u ELSE client_socks_recv_initiate(u)
  BY <1>2 DEF UpTail
<1>4. /\ m \in State /\ m.c = s.c /\ m.k = s.k /\ m.f = s.f /\ m.h = s.h
      /\ m.p.state = s.p.state /\ (m.p.rxclosed <=> s.p.rxclosed) /\ (m.p.closed <=> s.p.closed)
      /\ SameWindow(s.p, m.p) /\ m.p.sndq = s.p.sndq
      /\ m.p.cbs = (IF s.c.client_closed THEN s.p.cbs ELSE s.p.cbs \cup {"sent"})
  <2>1. CASE s.c.client_closed
    BY <1>1, <2>1 DEF SameWindow
  <2>2. CASE ~s.c.client_closed
    <3> DEFINE q == [s.p EXCEPT !.cbs = @ \cup {"sent"}]
    <3>1. /\ q \in PcbT /\ q.state = s.p.state /\ (q.rxclosed <=> s.p.rxclosed)
          /\ (q.closed <=> s.p.closed) /\ SameWindow(s.p, q) /\ q.sndq = s.p.sndq
          /\ q.cbs = s.p.cbs \cup {"sent"}
      BY <1>1 DEF State, PcbT, SameWindow
    <3>2. m = [s EXCEPT !.p = q]  BY <2>2 DEF WithSent
    <3> HIDE DEF q, m
    <3>3. m \in State /\ m.c = s.c /\ m.k = s.k /\ m.f = s.f /\ m.h = s.h /\ m.p = q
      BY <1>1, <3>1, <3>2 DEF State
    <3> QED BY <2>2, <3>1, <3>3
  <2> QED BY <2>1, <2>2
<1> HIDE DEF m
<1>5. /\ t \in State /\ t.p = m.p /\ t.f = s.f /\ t.h = s.h
      /\ (t.c.alive <=> s.c.alive) /\ (t.c.client_closed <=> s.c.client_closed)
      /\ (t.c.socks_closed <=> s.c.socks_closed) /\ (t.c.aborted <=> s.c.aborted)
      /\ t.c.socks_up /\ t.c.buf = s.c.buf /\ t.c.rbuf = s.c.rbuf /\ t.c.rsent = s.c.rsent
      /\ t.c.waiting = s.c.waiting /\ t.c.pending = s.c.pending /\ t.c.dead = s.c.dead
      /\ t.k.state = "UP" /\ t.k.send = s.k.send /\ (t.k.recv <=> s.k.recv)
  <2> DEFINE d == [m.c EXCEPT !.socks_up = TRUE]
             l == [m.k EXCEPT !.state = "UP"]
  <2>1. /\ d \in ClientT /\ (d.alive <=> s.c.alive) /\ (d.client_closed <=> s.c.client_closed)
        /\ (d.socks_closed <=> s.c.socks_closed) /\ (d.aborted <=> s.c.aborted)
        /\ d.socks_up /\ d.buf = s.c.buf /\ d.rbuf = s.c.rbuf /\ d.rsent = s.c.rsent
        /\ d.waiting = s.c.waiting /\ d.pending = s.c.pending /\ d.dead = s.c.dead
    BY <1>4 DEF State, ClientT
  <2>2. l \in SocksT /\ l.state = "UP" /\ l.send = s.k.send /\ (l.recv <=> s.k.recv)
    BY <1>4, StateNames DEF State, SocksT
  <2>3. t = [m EXCEPT !.c = d, !.k = l]  BY DEF WentUp
  <2> HIDE DEF d, l, t
  <2>4. t \in State /\ t.c = d /\ t.k = l /\ t.p = m.p /\ t.f = m.f /\ t.h = m.h
    BY <1>4, <2>1, <2>2, <2>3 DEF State
  <2> QED BY <1>4, <2>1, <2>2, <2>4
<1> HIDE DEF t
<1> DEFINE n == Size(s.c.buf)
<1>6. n \in 0..TCP_WND /\ n = Size(t.c.buf) /\ (s.c.buf = <<>> => n = 0)
  <2>1. n \in Nat /\ (s.c.buf = <<>> => n = 0)  BY <1>1, SizeNat DEF State, ClientT
  <2> QED BY <1>1, <1>5, <2>1, SizesAssumption
<1> HIDE DEF n
<1>7. /\ u \in State /\ u.c = t.c /\ u.p = t.p /\ u.f = t.f /\ u.h = t.h
      /\ u.k.state = "UP" /\ (u.k.recv <=> t.k.recv) /\ u.k.send = n
  <2>1. CASE t.c.buf # <<>>
    <3>1. u = client_send_to_socks(t)  BY <2>1
    <3>2. ~t.c.socks_closed /\ t.k.send = 0  BY <1>1, <1>5
    <3> HIDE DEF u
    <3> QED BY <1>5, <1>6, <2>1, <3>1, <3>2, SendToSocksIs
  <2>2. CASE t.c.buf = <<>>
    <3>1. u = t  BY <2>2
    <3> HIDE DEF u
    <3> QED BY <1>1, <1>5, <1>6, <2>2, <3>1
  <2> QED BY <2>1, <2>2
<1> HIDE DEF u
<1>8. /\ z \in State /\ z.c = t.c /\ z.p = t.p /\ z.f = t.f /\ z.h = t.h
      /\ z.k.state = "UP" /\ (z.k.recv <=> ~s.c.client_closed) /\ z.k.send = n
  <2>1. CASE s.c.client_closed
    <3>1. z = u  BY <1>3, <1>5, <1>7, <2>1
    <3> QED BY <1>1, <1>5, <1>7, <2>1, <3>1
  <2>2. CASE ~s.c.client_closed
    <3>1. z = client_socks_recv_initiate(u)  BY <1>3, <1>5, <1>7, <2>2
    <3>2. /\ ~u.c.client_closed /\ ~u.c.socks_closed /\ u.c.socks_up
          /\ u.c.rbuf = <<>> /\ ~u.k.recv
      BY <1>1, <1>5, <1>7, <2>2
    <3> QED BY <1>7, <2>2, <3>1, <3>2, RecvInitiateIs
  <2> QED BY <2>1, <2>2
<1>9. z.k.send = Size(s.c.buf)  BY <1>8 DEF n
<1> QED BY <1>4, <1>5, <1>8, <1>9, UpKeeps

\* The SOCKS handshake keeps the invariant.
LEMMA SocksStepKeeps == ASSUME Inv, SocksStep PROVE Inv'
<1>1. PICK n \in 1..7 : /\ socks.state = Handshake[n]
                        /\ Become(IF n = 7 THEN client_socks_up(Cur)
                                  ELSE [Cur EXCEPT !.k.state = Handshake[n + 1]])
  BY DEF SocksStep
<1>2. UNCHANGED <<input, cb, app, srv>>  BY DEF SocksStep
<1>3. Cur.k.state \in Greeting  BY <1>1, HandshakeNames, CurIs
<1>4. CASE n = 7
  <2> DEFINE t == client_socks_up(Cur)
  <2>1. Become(t)  BY <1>1, <1>4
  <2>2. Good(t, input, cb, app, srv)  BY <1>3, SocksUpKeeps DEF Inv
  <2> HIDE DEF t
  <2> QED BY <1>2, <2>1, <2>2, InvNext
<1>5. CASE n # 7
  <2> DEFINE x == Handshake[n + 1]
             t == Advance(Cur, x)
  <2>1. Become(t)  BY <1>1, <1>5 DEF Advance
  <2>2. x \in Greeting  BY <1>5, HandshakeNames
  <2> HIDE DEF x
  <2>3. Good(t, input, cb, app, srv)  BY <1>3, <2>2, AdvanceKeeps DEF Inv
  <2> HIDE DEF t
  <2> QED BY <1>2, <2>1, <2>3, InvNext
<1> QED BY <1>4, <1>5

-----------------------------------------------------------------------------
(* A send to SOCKS ends.                                                   *)

\* The proxy has taken n more bytes of what the client has buffered.
Taken(v, q, n) == [v EXCEPT !.got = Cat(v.got, Take(q, n))]

\* Bytes the proxy takes continue those it has; the rest continue these.
LEMMA TakenIs ==
    ASSUME NEW q \in Seq(1..MaxUp), NEW v \in SrvT, Counts(v.got, 0), Counts(q, Size(v.got)),
           NEW n \in 0..Size(q), NEW d, d = Drop(q, n), NEW u, u = Taken(v, q, n)
    PROVE  /\ u \in SrvT /\ u.read = v.read /\ u.sent = v.sent /\ d \in Seq(1..MaxUp)
           /\ Counts(u.got, 0) /\ Counts(d, Size(u.got))
           /\ Size(u.got) = Size(v.got) + n /\ Size(d) = Size(q) - n
<1> DEFINE y == Size(v.got)
           z == 0
           e == Take(q, n)
           g == Cat(v.got, e)
<1>1. y \in Nat /\ y \in Int /\ Size(q) \in Nat  BY SizeNat DEF SrvT
<1>2. v.got \in Seq(1..MaxUp)  BY DEF SrvT
<1>3. z + y = y /\ z \in Int /\ Counts(v.got, z)  BY <1>1
<1> HIDE DEF z
<1>4. Counts(q, y)  OBVIOUS
<1>5. Counts(e, y) /\ Size(e) = n /\ e \in Seq(1..MaxUp)
  <2> HIDE DEF y
  <2> QED BY <1>1, <1>4, CountsTake
<1>6. Counts(d, y + n) /\ Size(d) = Size(q) - n /\ d \in Seq(1..MaxUp)
  <2> HIDE DEF y
  <2> QED BY <1>1, <1>4, CountsDrop
<1>7. Counts(e, z + Size(v.got))  BY <1>3, <1>5
<1>8. g \in Seq(1..MaxUp) /\ Size(g) = y + n /\ Counts(g, z)
  <2> HIDE DEF e
  <2> QED BY <1>2, <1>3, <1>5, <1>7, CountsCat
<1>9. u \in SrvT /\ u.got = g /\ u.read = v.read /\ u.sent = v.sent
  <2> HIDE DEF g
  <2>1. u = [v EXCEPT !.got = g]  BY DEF Taken, g, e
  <2> QED BY <1>8, <2>1 DEF SrvT
<1> HIDE DEF g, e
<1> QED BY <1>6, <1>8, <1>9 DEF z

\* Taking n bytes from the buffer keeps both parts of the invariant, when the
\* window of an open client grows by n.
LEMMA DrainedKeeps ==
    ASSUME NEW s, NEW i, NEW b, NEW a, NEW v, Good(s, i, b, a, v), s.k.state = "UP",
           NEW n \in 1..s.k.send, NEW d, d = Drop(s.c.buf, n), NEW u, u = Taken(v, s.c.buf, n),
           NEW t \in State, SameFields(s.c, t.c), t.c.dead = s.c.dead, t.c.buf = d,
           t.c.rbuf = s.c.rbuf, t.c.rsent = s.c.rsent, t.c.waiting = s.c.waiting,
           t.c.pending = s.c.pending, t.k.state = "UP", t.k.send = Size(d),
           t.k.recv <=> s.k.recv, t.f = s.f, t.h = s.h, SamePcb(s.p, t.p), t.p.sndq = s.p.sndq,
           "recv" \in s.p.cbs => t.p.rcv_wnd = s.p.rcv_wnd + n
    PROVE  /\ Ctl(t, i, b) /\ Data(t, i, a, u)
           /\ ~t.c.client_closed \/ d # <<>> => Receives(t.c, t.k)
<1>1. Ctl(s, i, b) /\ Data(s, i, a, v) /\ Receives(s.c, s.k)  BY Parts
<1>2. /\ s \in State /\ World(i, a, v) /\ Sends(s.c, s.k) /\ Queues(s.c, s.k, s.p, i)
      /\ Up(s.c, s.p, i, s.h, a, v) /\ Down(s.c, s.k, s.p, s.h, a, v)
      /\ Life(s.c, s.k, s.p) /\ Flow(s.c, s.k, s.p, i, b)
  BY <1>1 DEF Ctl, Data
<1>3. /\ Size(s.c.buf) \in Nat /\ Size(v.got) \in Nat /\ InFlight(i) \in Nat /\ a.sent \in Nat
      /\ s.p.rcv_wnd \in Nat /\ s.k.send \in Nat
  BY <1>2, Numbers
<1>4. ~s.c.socks_closed /\ s.c.socks_up  BY <1>2 DEF Life
<1>5. s.k.send <= Size(s.c.buf) /\ Size(s.c.buf) <= TCP_WND  BY <1>2 DEF Sends
<1>6. n \in 0..Size(s.c.buf) /\ n \in Nat  BY <1>3, <1>5
<1>7. s.c.buf \in Seq(1..MaxUp) /\ v \in SrvT  BY <1>2 DEF State, ClientT, World
<1>8. Counts(v.got, 0) /\ Counts(s.c.buf, Size(v.got))  BY <1>2, <1>4 DEF Up
<1>9. /\ u \in SrvT /\ u.read = v.read /\ u.sent = v.sent /\ d \in Seq(1..MaxUp)
      /\ Counts(u.got, 0) /\ Counts(d, Size(u.got))
      /\ Size(u.got) = Size(v.got) + n /\ Size(d) = Size(s.c.buf) - n
  <2> DEFINE q == s.c.buf
  <2>1. /\ q \in Seq(1..MaxUp) /\ Counts(q, Size(v.got)) /\ n \in 0..Size(q)
        /\ d = Drop(q, n) /\ u = Taken(v, q, n)
    BY <1>6, <1>7, <1>8
  <2>2. Size(d) = Size(q) - n /\ u \in SrvT /\ u.read = v.read /\ u.sent = v.sent /\ d \in Seq(1..MaxUp)
        /\ Counts(u.got, 0) /\ Counts(d, Size(u.got))
        /\ Size(u.got) = Size(v.got) + n
    <3> HIDE DEF q
    <3> QED BY <1>7, <1>8, <2>1, TakenIs
  <2> QED BY <2>2
<1>10. Size(d) \in Nat /\ (Size(d) = 0 <=> d = <<>>) /\ (Size(s.c.buf) = 0 <=> s.c.buf = <<>>)
  BY <1>7, <1>9, SizeNat
<1>11. i.phase # "receive"
  <2>1. Size(s.c.buf) # 0  BY <1>3, <1>5
  <2> QED BY <1>2, <1>10, <2>1 DEF Flow
<1>12. Ctl(t, i, b)
  BY <1>1, <1>11, CtlKeeps
<1>13. World(i, a, u)  BY <1>2, <1>9 DEF World
<1>14. Sends(t.c, t.k)
  <2>1. Size(d) <= TCP_WND /\ (Size(d) > 0 <=> d # <<>>)
    BY <1>3, <1>5, <1>6, <1>9, <1>10, SizesAssumption, SMTT(30)
  <2>2. t.c.pending > 0 => t.c.socks_up  BY <1>4 DEF SameFields
  <2> QED BY <1>2, <2>1, <2>2, <1>10 DEF Sends
<1>15. Queues(t.c, t.k, t.p, i)
  <2>1. "recv" \in t.p.cbs =>
            TCP_WND = t.p.rcv_wnd + Size(t.c.buf)
                   + (IF i.phase \in {"sent", "data"} THEN Size(i.data) ELSE 0)
                   + (IF i.phase \in {"sent", "data", "fin"} THEN Fin(i) ELSE 0)
    <3> SUFFICES ASSUME "recv" \in s.p.cbs
                 PROVE  TCP_WND = t.p.rcv_wnd + Size(t.c.buf)
                   + (IF i.phase \in {"sent", "data"} THEN Size(i.data) ELSE 0)
                   + (IF i.phase \in {"sent", "data", "fin"} THEN Fin(i) ELSE 0)
      BY DEF SamePcb
    <3> DEFINE l1 == IF i.phase \in {"sent", "data"} THEN Size(i.data) ELSE 0
               l2 == IF i.phase \in {"sent", "data", "fin"} THEN Fin(i) ELSE 0
    <3>1. l1 \in Nat /\ l2 \in Nat  BY <1>2, LeftIs DEF World
    <3>2. TCP_WND = s.p.rcv_wnd + Size(s.c.buf) + l1 + l2  BY <1>2 DEF Queues
    <3>3. t.p.rcv_wnd = s.p.rcv_wnd + n /\ Size(t.c.buf) = Size(s.c.buf) - n  BY <1>9
    <3> HIDE DEF l1, l2
    <3>4. TCP_WND = t.p.rcv_wnd + Size(t.c.buf) + l1 + l2
      BY <1>3, <1>6, <3>1, <3>2, <3>3, SizesAssumption
    <3> QED BY <3>4 DEF l1, l2
  <2> QED BY <1>2, <2>1 DEF Queues, SameFields, SamePcb
<1>16. Up(t.c, t.p, i, t.h, a, u)
  <2>1. Size(u.got) + Size(d) = Size(v.got) + Size(s.c.buf)
    BY <1>3, <1>6, <1>9
  <2>2. Size(u.got) + Size(d) + InFlight(i) = Size(v.got) + Size(s.c.buf) + InFlight(i)
    BY <2>1
  <2>3. Size(v.got) + Size(s.c.buf) + InFlight(i) <= a.sent  BY <1>2, <1>4 DEF Up
  <2>4. ~t.c.socks_closed /\ (t.c.aborted <=> s.c.aborted) /\ (t.c.client_closed <=> s.c.client_closed)
    BY <1>4 DEF SameFields
  <2>5. t.p.state = s.p.state /\ t.p.cbs = s.p.cbs  BY DEF SamePcb
  <2>6. Size(u.got) + Size(d) + InFlight(i) <= a.sent  BY <2>2, <2>3
  <2>7. (t.p.state = "SYN_RCVD" \/ "recv" \in t.p.cbs) =>
           Size(u.got) + Size(t.c.buf) + InFlight(i) = a.sent
    <3>1. (s.p.state = "SYN_RCVD" \/ "recv" \in s.p.cbs) =>
           Size(v.got) + Size(s.c.buf) + InFlight(i) = a.sent
      BY <1>2 DEF Up
    <3> QED BY <2>2, <2>5, <3>1
  <2>8. (t.c.client_closed /\ ~t.c.socks_closed /\ "aborted" \notin t.h) =>
           /\ Size(u.got) + Size(t.c.buf) = a.sent /\ (a.fin \/ t.p.state = "freed")
    <3>1. (s.c.client_closed /\ ~s.c.socks_closed /\ "aborted" \notin s.h) =>
           /\ Size(v.got) + Size(s.c.buf) = a.sent /\ (a.fin \/ s.p.state = "freed")
      BY <1>2 DEF Up
    <3> QED BY <1>4, <2>1, <2>4, <2>5, <3>1
  <2>9. /\ InFlight(i) > 0 => Counts(i.data, a.sent - Size(i.data))
        /\ i.fin => a.fin
        /\ t.c.aborted => "aborted" \in t.h
    BY <1>2, <2>4 DEF Up
  <2> QED BY <1>9, <2>4, <2>6, <2>7, <2>8, <2>9 DEF Up
<1>17. Down(t.c, t.k, t.p, t.h, a, u)
  <2>1. (t.c.client_closed <=> s.c.client_closed) /\ (t.c.socks_closed <=> s.c.socks_closed)
        /\ (t.c.socks_up <=> s.c.socks_up)
    BY DEF SameFields
  <2>2. Behind(u)  BY <1>2, <1>9 DEF Down, Behind
  <2> QED BY <1>2, <1>4, <1>9, <2>1, <2>2 DEF Down
<1>18. ~t.c.client_closed \/ d # <<>> => Receives(t.c, t.k)
  BY <1>1 DEF Receives, SameFields
<1> QED BY <1>12, <1>13, <1>14, <1>15, <1>16, <1>17, <1>18 DEF Data

\* Moving the window changes nothing else.
LEMMA MoveWindowIs ==
    ASSUME NEW s \in State, NEW w \in 0..TCP_WND, NEW t, t = MoveWindow(s, w)
    PROVE  /\ t \in State /\ t.c = s.c /\ t.k = s.k /\ t.f = s.f /\ t.h = s.h
           /\ SamePcb(s.p, t.p) /\ t.p.sndq = s.p.sndq /\ t.p.rcv_wnd = w
<1> DEFINE q == [s.p EXCEPT !.rcv_wnd = w]
<1>1. q \in PcbT /\ SamePcb(s.p, q) /\ q.sndq = s.p.sndq /\ q.rcv_wnd = w
  BY DEF State, PcbT, SamePcb
<1>2. t = [s EXCEPT !.p = q]  BY DEF MoveWindow
<1> HIDE DEF q
<1>3. t \in State /\ t.c = s.c /\ t.k = s.k /\ t.f = s.f /\ t.h = s.h /\ t.p = q
  BY <1>1, <1>2 DEF State
<1> QED BY <1>1, <1>3

\* client_socks_send_handler_done(): the send has ended, d is left.
Emptied(s, d) == [s EXCEPT !.c.buf = d, !.k.send = 0]

\* The fields after a send to SOCKS has ended.
LEMMA EmptiedIs ==
    ASSUME NEW s \in State, NEW d \in Seq(1..MaxUp), NEW t, t = Emptied(s, d)
    PROVE  /\ t \in State /\ t.p = s.p /\ t.f = s.f /\ t.h = s.h
           /\ SameFields(s.c, t.c) /\ t.c.dead = s.c.dead /\ t.c.buf = d
           /\ t.c.rbuf = s.c.rbuf /\ t.c.rsent = s.c.rsent /\ t.c.waiting = s.c.waiting
           /\ t.c.pending = s.c.pending
           /\ t.k.state = s.k.state /\ t.k.send = 0 /\ (t.k.recv <=> s.k.recv)
<1> DEFINE e == [s.c EXCEPT !.buf = d]
           l == [s.k EXCEPT !.send = 0]
<1>1. /\ e \in ClientT /\ SameFields(s.c, e) /\ e.dead = s.c.dead /\ e.buf = d
      /\ e.rbuf = s.c.rbuf /\ e.rsent = s.c.rsent /\ e.waiting = s.c.waiting
      /\ e.pending = s.c.pending
  BY DEF State, ClientT, SameFields
<1>2. l \in SocksT /\ l.state = s.k.state /\ l.send = 0 /\ (l.recv <=> s.k.recv)
  <2>1. 0 \in 0..TCP_WND  BY SizesAssumption
  <2>2. s.k \in SocksT  BY DEF State
  <2> QED BY <2>1, <2>2 DEF SocksT
<1>3. t = [s EXCEPT !.c = e, !.k = l]  BY DEF Emptied
<1> HIDE DEF e, l
<1>4. t \in State /\ t.c = e /\ t.k = l /\ t.p = s.p /\ t.f = s.f /\ t.h = s.h
  BY <1>1, <1>2, <1>3 DEF State
<1> QED BY <1>1, <1>2, <1>4

\* The rest of client_socks_send_handler_done(), and its tcp_recved().
DoneTail(t, ok) ==
    IF t.c.buf # <<>> THEN client_send_to_socks(t)
    ELSE IF t.c.client_closed THEN client_free_socks(t, ok) ELSE t
Reopened(r, n) == IF r.c.client_closed THEN r ELSE tcp_recved(r, n)

\* client_socks_send_handler_done() passes its assertion.
LEMMA SendDoneIs ==
    ASSUME NEW s, ~s.c.socks_closed, s.c.socks_up, NEW n, n <= Len(s.c.buf), NEW ok,
           NEW r, r = Emptied(s, Drop(s.c.buf, n))
    PROVE  client_socks_send_handler_done(s, n, ok) = DoneTail(Reopened(r, n), ok)
<1> DEFINE q == ~s.c.socks_closed /\ s.c.socks_up /\ n <= Len(s.c.buf)
           x == [Check(s, q, "sent too much") EXCEPT !.c.buf = Drop(@, n), !.k.send = 0]
<1>1. q  OBVIOUS
<1>2. Check(s, q, "sent too much") = s  BY <1>1, CheckIs
<1>3. x = [s EXCEPT !.c.buf = Drop(@, n), !.k.send = 0]  BY <1>2, Zenon
<1>4. x = r  BY <1>3, Zenon DEF Emptied
<1>5. client_socks_send_handler_done(s, n, ok) = DoneTail(Reopened(x, n), ok)
  BY Zenon DEF client_socks_send_handler_done, DoneTail, Reopened
<1> QED BY <1>4, <1>5, Zenon

\* client_socks_send_handler_done() keeps the invariant: it sends on, finishes a
\* client whose application is gone, or waits for data.
LEMMA SendDoneKeeps ==
    ASSUME NEW s, NEW i, NEW b, NEW a, NEW v, Good(s, i, b, a, v), s.k.state = "UP",
           NEW n \in 1..s.k.send, NEW ok \in BOOLEAN, NEW u, u = Taken(v, s.c.buf, n),
           NEW z, z = client_socks_send_handler_done(s, n, ok)
    PROVE  Good(z, i, b, a, u)
<1> DEFINE d == Drop(s.c.buf, n)
           r == Emptied(s, d)
           t == Reopened(r, n)
<1>1. /\ s \in State /\ World(i, a, v) /\ Sends(s.c, s.k) /\ Queues(s.c, s.k, s.p, i)
      /\ Up(s.c, s.p, i, s.h, a, v) /\ Life(s.c, s.k, s.p) /\ Callbacks(s.c, s.k, s.p)
  BY DEF Good, Base, Core
<1>2. ~s.c.socks_closed /\ s.c.socks_up  BY <1>1 DEF Life
<1>3. s.k.send <= Size(s.c.buf) /\ Size(s.c.buf) <= TCP_WND  BY <1>1 DEF Sends
<1>4. /\ Size(s.c.buf) \in Nat /\ s.k.send \in Nat /\ s.p.rcv_wnd \in Nat
  BY <1>1, Numbers
<1>5. n \in 0..Size(s.c.buf) /\ n \in Nat /\ n <= Size(s.c.buf)  BY <1>3, <1>4
<1>6. n <= Len(s.c.buf)  BY <1>5 DEF Size
<1>7. d \in Seq(1..MaxUp) /\ Size(d) = Size(s.c.buf) - n
  <2> DEFINE q == s.c.buf
             y == Size(v.got)
  <2>1. q \in Seq(1..MaxUp) /\ n \in 0..Size(q)  BY <1>1, <1>5 DEF State, ClientT
  <2>2. Counts(q, y)  BY <1>1, <1>2 DEF Up
  <2>3. y \in Int  BY <1>1, Numbers
  <2>4. d = Drop(q, n)  OBVIOUS
  <2>5. d \in Seq(1..MaxUp) /\ Size(d) = Size(q) - n
    <3> HIDE DEF q, d, y
    <3> QED BY <2>1, <2>2, <2>3, <2>4, CountsDrop
  <2> QED BY <2>5
<1>8. Size(d) \in 0..TCP_WND /\ (Size(d) = 0 <=> d = <<>>)
  <2>1. Size(d) \in Nat /\ (Size(d) = 0 <=> d = <<>>)  BY <1>7, SizeNat
  <2>2. Size(d) <= TCP_WND
    <3> HIDE DEF d
    <3> QED BY <1>3, <1>4, <1>5, <1>7, <2>1, SizesAssumption
  <2> HIDE DEF d
  <2> QED BY <2>1, <2>2, SizesAssumption
<1>9. z = DoneTail(t, ok)
  BY <1>2, <1>6, SendDoneIs, Zenon
<1>d. d = Drop(s.c.buf, n)  OBVIOUS
<1> HIDE DEF d
<1>10. /\ r \in State /\ r.p = s.p /\ r.f = s.f /\ r.h = s.h
       /\ SameFields(s.c, r.c) /\ r.c.dead = s.c.dead /\ r.c.buf = d
       /\ r.c.rbuf = s.c.rbuf /\ r.c.rsent = s.c.rsent /\ r.c.waiting = s.c.waiting
       /\ r.c.pending = s.c.pending
       /\ r.k.state = s.k.state /\ r.k.send = 0 /\ (r.k.recv <=> s.k.recv)
  BY <1>1, <1>7, EmptiedIs
<1> HIDE DEF r
<1>11. /\ t \in State /\ t.c = r.c /\ t.k = r.k /\ t.f = s.f /\ t.h = s.h
       /\ SamePcb(s.p, t.p) /\ t.p.sndq = s.p.sndq
       /\ "recv" \in s.p.cbs => t.p.rcv_wnd = s.p.rcv_wnd + n
  <2>1. CASE s.c.client_closed
    <3>1. t = r  BY <1>10, <2>1 DEF Reopened, SameFields
    <3>2. "recv" \notin s.p.cbs  BY <1>1, <2>1 DEF Callbacks
    <3> HIDE DEF t
    <3> QED BY <1>10, <3>1, <3>2 DEF SamePcb
  <2>2. CASE ~s.c.client_closed
    <3> DEFINE w == Opened(r.p, n)
    <3>1. r.p.state # "freed"  BY <1>1, <1>10, <2>2 DEF Life
    <3>2. t = MoveWindow(r, w)
      <4>1. t = tcp_recved(r, n)  BY <1>10, <2>2 DEF Reopened, SameFields
      <4> HIDE DEF t
      <4> QED BY <3>1, <4>1, TcpRecvedIs
    <3>3. "recv" \in s.p.cbs  BY <1>1, <1>2, <2>2 DEF Callbacks
    <3>4. TCP_WND = s.p.rcv_wnd + Size(s.c.buf) + Left(i)  BY <1>1, <3>3, WindowIs
    <3>5. Left(i) \in Nat  BY <1>1, LeftIs DEF World
    <3>6. s.p.rcv_wnd + n <= TCP_WND  BY <1>4, <1>5, <3>4, <3>5
    <3>7. w \in 0..TCP_WND /\ w = s.p.rcv_wnd + n
      BY <1>5, <1>10, <3>6, OpenedIs
    <3> HIDE DEF t, w
    <3>8. /\ t \in State /\ t.c = r.c /\ t.k = r.k /\ t.f = r.f /\ t.h = r.h
          /\ SamePcb(r.p, t.p) /\ t.p.sndq = r.p.sndq /\ t.p.rcv_wnd = w
      BY <1>10, <3>2, <3>7, MoveWindowIs
    <3> QED BY <1>10, <3>7, <3>8
  <2> QED BY <2>1, <2>2
<1> HIDE DEF t
<1>12. CASE d # <<>>
  <2> DEFINE y == Size(d)
  <2>1. z = client_send_to_socks(t)  BY <1>9, <1>10, <1>11, <1>12 DEF DoneTail
  <2>2. ~t.c.socks_closed /\ t.c.socks_up /\ t.c.buf # <<>> /\ t.k.send = 0
    BY <1>2, <1>10, <1>11, <1>12 DEF SameFields
  <2>3. y \in 0..TCP_WND /\ y = Size(t.c.buf)  BY <1>8, <1>10, <1>11
  <2> HIDE DEF y
  <2>4. /\ z \in State /\ z.c = t.c /\ z.p = t.p /\ z.f = t.f /\ z.h = t.h
        /\ z.k.state = t.k.state /\ (z.k.recv <=> t.k.recv) /\ z.k.send = y
    BY <1>11, <2>1, <2>2, <2>3, SendToSocksIs
  <2>5. z.k.send = Size(d)  BY <2>4 DEF y
  <2>6. Ctl(z, i, b) /\ Data(z, i, a, u) /\ Receives(z.c, z.k)
    BY <1>d, <1>10, <1>11, <1>12, <2>4, <2>5, DrainedKeeps
  <2> QED BY <2>6, Parts
<1>13. CASE d = <<>>
  <2>1. t.k.send = Size(d)  BY <1>8, <1>10, <1>11, <1>13
  <2>2. /\ Ctl(t, i, b) /\ Data(t, i, a, u)
        /\ ~t.c.client_closed => Receives(t.c, t.k)
    BY <1>d, <1>10, <1>11, <2>1, DrainedKeeps
  <2>3. CASE t.c.client_closed
    <3>1. z = client_free_socks(t, ok)  BY <1>9, <1>10, <1>11, <1>13, <2>3 DEF DoneTail
    <3>2. ~t.c.socks_closed /\ t.c.buf = <<>> /\ t.k.state # "FREE"
      BY <1>2, <1>10, <1>11, <1>13 DEF SameFields
    <3>3. SocksClosed(t).c.client_closed
      BY <1>11, <2>3, <3>2, SocksClosedIs
    <3>4. z = client_dealloc(SocksClosed(t))
      BY <2>3, <3>1, <3>2, <3>3 DEF client_free_socks, Check
    <3>5. Base(t, i, b, a, u)  BY <2>2, Parts
    <3>6. t.p.cbs = {}  BY <1>11, <2>2, <2>3, NoneLeft DEF Ctl
    <3> QED BY <2>3, <3>2, <3>4, <3>5, <3>6, FinishKeeps
  <2>4. CASE ~t.c.client_closed
    <3>1. z = t  BY <1>9, <1>10, <1>11, <1>13, <2>4 DEF DoneTail
    <3> QED BY <2>2, <2>4, <3>1, Parts
  <2> QED BY <2>3, <2>4
<1> QED BY <1>12, <1>13

\* The end of a send to SOCKS keeps the invariant.
LEMMA SocksSendDoneKeeps == ASSUME Inv, SocksSendDone PROVE Inv'
<1>1. PICK n \in 1..socks.send, ok \in Closes :
         /\ srv' = [srv EXCEPT !.got = @ \o Take(client.buf, n)]
         /\ Become(client_socks_send_handler_done(Cur, n, ok))
  BY DEF SocksSendDone
<1>2. UNCHANGED <<input, cb, app>>  BY DEF SocksSendDone
<1> DEFINE t == client_socks_send_handler_done(Cur, n, ok)
           u == Taken(srv, Cur.c.buf, n)
<1>3. ok \in BOOLEAN  BY ClosesBoolean
<1>4. n \in 1..Cur.k.send  BY CurIs
<1>5. srv' = u  BY <1>1, CurIs DEF Taken, Cat
<1>6. Cur.k.state = "UP"
  <2>1. Sends(Cur.c, Cur.k) /\ Cur \in State  BY DEF Inv, Good, Base, Core
  <2> QED BY <1>4, <2>1 DEF Sends
<1>7. Good(t, input, cb, app, u)  BY <1>3, <1>4, <1>6, SendDoneKeeps DEF Inv
<1>8. Become(t)  BY <1>1
<1> HIDE DEF t, u
<1> QED BY <1>2, <1>5, <1>7, <1>8, InvNext

-----------------------------------------------------------------------------
(* Data from the proxy.                                                    *)

\* client_socks_recv_handler_done(): the receive has ended, the buffer is filled.
NoRecv(s) == [s EXCEPT !.k.recv = FALSE]
Filled(s, d) == [s EXCEPT !.c.rbuf = d, !.c.rsent = 0, !.c.waiting = FALSE]
Ahead(v, n) == [v EXCEPT !.read = @ + n]

\* A receive has ended.
LEMMA NoRecvIs ==
    ASSUME NEW s \in State, NEW t, t = NoRecv(s)
    PROVE  /\ t \in State /\ t.c = s.c /\ t.p = s.p /\ t.f = s.f /\ t.h = s.h
           /\ t.k.state = s.k.state /\ t.k.send = s.k.send /\ ~t.k.recv
<1> DEFINE l == [s.k EXCEPT !.recv = FALSE]
<1>1. s.k \in SocksT  BY DEF State
<1>2. l \in SocksT /\ l.state = s.k.state /\ l.send = s.k.send /\ ~l.recv
  BY <1>1 DEF SocksT
<1>3. t = [s EXCEPT !.k = l]  BY DEF NoRecv
<1> HIDE DEF l
<1>4. t \in State /\ t.k = l /\ t.c = s.c /\ t.p = s.p /\ t.f = s.f /\ t.h = s.h
  BY <1>2, <1>3 DEF State
<1> QED BY <1>2, <1>4

\* The fields after the receive buffer is filled.
LEMMA FilledIs ==
    ASSUME NEW s \in State, NEW d \in Seq(1..MaxDown), NEW t, t = Filled(s, d)
    PROVE  /\ t \in State /\ t.k = s.k /\ t.p = s.p /\ t.f = s.f /\ t.h = s.h
           /\ SameFields(s.c, t.c) /\ t.c.dead = s.c.dead /\ t.c.buf = s.c.buf
           /\ t.c.rbuf = d /\ t.c.rsent = 0 /\ ~t.c.waiting /\ t.c.pending = s.c.pending
<1> DEFINE e == [s.c EXCEPT !.rbuf = d, !.rsent = 0, !.waiting = FALSE]
<1>1. s.c \in ClientT /\ 0 \in 0..RecvBufSize  BY SizesAssumption DEF State
<1>2. /\ e \in ClientT /\ SameFields(s.c, e) /\ e.dead = s.c.dead /\ e.buf = s.c.buf
      /\ e.rbuf = d /\ e.rsent = 0 /\ ~e.waiting /\ e.pending = s.c.pending
  BY <1>1 DEF ClientT, SameFields
<1>3. t = [s EXCEPT !.c = e]  BY DEF Filled
<1> HIDE DEF e
<1>4. t \in State /\ t.c = e /\ t.k = s.k /\ t.p = s.p /\ t.f = s.f /\ t.h = s.h
  BY <1>2, <1>3 DEF State
<1> QED BY <1>2, <1>4

\* n more bytes of what the proxy has sent were read.
LEMMA AheadIs ==
    ASSUME NEW v \in SrvT, NEW n \in Nat, n > 0, v.read + n <= v.sent, NEW u, u = Ahead(v, n)
    PROVE  Grows(v, u) /\ u.read = v.read + n
<1>1. v.read \in Nat /\ v.sent \in Nat /\ v.sent <= MaxDown  BY SizesAssumption DEF SrvT
<1>2. v.read + n \in 0..MaxDown  BY <1>1, SizesAssumption
<1>3. u \in SrvT /\ u.got = v.got /\ u.read = v.read + n /\ u.sent = v.sent
  BY <1>2 DEF Ahead, SrvT
<1>4. v.read <= u.read /\ Behind(u)  BY <1>1, <1>3 DEF Behind
<1>5. ~AllRead(v)  BY <1>1 DEF AllRead
<1> QED BY <1>3, <1>4, <1>5 DEF Grows

\* What the proxy sends after the application is gone is dropped.
LEMMA RecvDropped ==
    ASSUME NEW s, NEW i, NEW b, NEW a, NEW v, Good(s, i, b, a, v), s.k.state = "UP",
           s.c.client_closed, NEW u, Grows(v, u), NEW z, z = NoRecv(s)
    PROVE  Good(z, i, b, a, u)
<1>1. Ctl(s, i, b) /\ Data(s, i, a, v) /\ Receives(s.c, s.k)  BY Parts
<1>2. /\ s \in State /\ World(i, a, v) /\ Sends(s.c, s.k) /\ Queues(s.c, s.k, s.p, i)
      /\ Up(s.c, s.p, i, s.h, a, v) /\ Down(s.c, s.k, s.p, s.h, a, v) /\ Life(s.c, s.k, s.p)
  BY <1>1 DEF Ctl, Data
<1>3. /\ z \in State /\ z.c = s.c /\ z.p = s.p /\ z.f = s.f /\ z.h = s.h
      /\ z.k.state = s.k.state /\ z.k.send = s.k.send /\ ~z.k.recv
  BY <1>2, NoRecvIs
<1>4. SameFields(s.c, z.c) /\ SamePcb(s.p, z.p)  BY <1>3 DEF SameFields, SamePcb
<1>5. Ctl(z, i, b)  BY <1>1, <1>3, <1>4, CtlKeeps
<1>6. ~s.c.socks_closed /\ s.c.socks_up  BY <1>2 DEF Life
<1>7. World(i, a, u)  BY <1>2 DEF World, Grows
<1>8. Sends(z.c, z.k)  BY <1>2, <1>3 DEF Sends
<1>9. Queues(z.c, z.k, z.p, i)  BY <1>2, <1>3 DEF Queues
<1>10. Up(z.c, z.p, i, z.h, a, u)  BY <1>2, <1>3 DEF Up, Grows
<1>11. Size(a.got) + Size(s.p.sndq) <= u.read
  <2>1. Size(a.got) + Size(s.p.sndq) <= v.read /\ v.read <= u.read  BY <1>2 DEF Down, Grows
  <2>2. Size(a.got) \in Nat /\ Size(s.p.sndq) \in Nat /\ v.read \in Nat  BY <1>2, Numbers
  <2>3. u.read \in Nat  BY SizesAssumption DEF Grows, SrvT
  <2> QED BY <2>1, <2>2, <2>3
<1>12. Down(z.c, z.k, z.p, z.h, a, u)
  <2>1. Behind(u)  BY DEF Grows
  <2> QED BY <1>2, <1>3, <1>6, <1>11, <2>1 DEF Down
<1>13. Receives(z.c, z.k)  BY <1>1, <1>3 DEF Receives
<1>14. Data(z, i, a, u)  BY <1>7, <1>8, <1>9, <1>10, <1>12 DEF Data
<1> QED BY <1>5, <1>13, <1>14, Parts

\* What the proxy sends to an open client fills its empty receive buffer.
LEMMA RecvFilled ==
    ASSUME NEW s, NEW i, NEW b, NEW a, NEW v, Good(s, i, b, a, v), s.k.state = "UP", s.k.recv,
           ~s.c.client_closed, NEW n \in 1..RecvBufSize, NEW d \in Seq(1..MaxDown),
           Size(d) = n, Counts(d, v.read),
           NEW u, Grows(v, u), u.read = v.read + n, NEW t, t = Filled(NoRecv(s), d)
    PROVE  /\ Ctl(t, i, b) /\ Data(t, i, a, u) /\ ~t.k.recv /\ HasMore(t.c) /\ ~t.c.waiting
           /\ ~t.c.client_closed /\ t.c.socks_up /\ ~t.c.socks_closed
<1>1. Ctl(s, i, b) /\ Data(s, i, a, v) /\ Receives(s.c, s.k)  BY Parts
<1>2. /\ s \in State /\ World(i, a, v) /\ Sends(s.c, s.k)
      /\ Down(s.c, s.k, s.p, s.h, a, v) /\ Life(s.c, s.k, s.p)
  BY <1>1 DEF Ctl, Data
<1>3. ~s.c.socks_closed /\ s.c.socks_up  BY <1>2 DEF Life
<1>4. s.c.rbuf = <<>> /\ s.c.rsent = 0  BY <1>1, <1>2 DEF Receives, Sends
<1> DEFINE r == NoRecv(s)
<1>5. /\ r \in State /\ r.c = s.c /\ r.p = s.p /\ r.f = s.f /\ r.h = s.h
      /\ r.k.state = s.k.state /\ r.k.send = s.k.send /\ ~r.k.recv
  BY <1>2, NoRecvIs
<1> HIDE DEF r
<1>6. t = Filled(r, d)  BY DEF r
<1>7. /\ t \in State /\ t.k = r.k /\ t.p = r.p /\ t.f = r.f /\ t.h = r.h
      /\ SameFields(r.c, t.c) /\ t.c.dead = r.c.dead /\ t.c.buf = r.c.buf
      /\ t.c.rbuf = d /\ t.c.rsent = 0 /\ ~t.c.waiting /\ t.c.pending = r.c.pending
  BY <1>5, <1>6, FilledIs
<1>8. Size(a.got) \in Nat /\ Size(s.p.sndq) \in Nat /\ v.read \in Nat  BY <1>2, Numbers
<1>9. Size(a.got) + Size(s.p.sndq) = v.read
  <2>1. Size(a.got) + Size(s.p.sndq) + Size(s.c.rbuf) - s.c.rsent = v.read  BY <1>2 DEF Down
  <2>2. Size(s.c.rbuf) = 0  BY <1>4, SizeNat
  <2> QED BY <1>4, <1>8, <2>1, <2>2
<1>10. RbufFits(t.c, t.p, a, u)
  <2>1. n \in Nat /\ n > 0 /\ n <= RecvBufSize  BY SizesAssumption
  <2>2. v.read = u.read - Size(t.c.rbuf)  BY <1>7, <1>8, <2>1
  <2>3. Counts(t.c.rbuf, u.read - Size(t.c.rbuf))
    <3>1. Counts(t.c.rbuf, v.read)  BY <1>7
    <3> QED BY <2>2, <3>1
  <2>4. Size(a.got) + Size(t.p.sndq) + Size(t.c.rbuf) - t.c.rsent = u.read
    BY <1>5, <1>7, <1>8, <1>9, <2>1
  <2>5. t.c.rsent <= Size(t.c.rbuf) /\ Size(t.c.rbuf) <= RecvBufSize
    BY <1>7, <2>1
  <2> QED BY <1>7, <2>3, <2>4, <2>5 DEF RbufFits
<1>11. Ctl(t, i, b) /\ Data(t, i, a, u)
  BY <1>1, <1>3, <1>5, <1>7, <1>10, RbufKeeps
<1>12. HasMore(t.c)
  <2>1. n \in Nat /\ n > 0  BY SizesAssumption
  <2> QED BY <1>7, <2>1 DEF HasMore
<1> QED BY <1>3, <1>5, <1>7, <1>11, <1>12 DEF SameFields

\* client_socks_recv_handler_done() keeps the invariant.
LEMMA RecvDoneKeeps ==
    ASSUME NEW s, NEW i, NEW b, NEW a, NEW v, Good(s, i, b, a, v), s.k.state = "UP", s.k.recv,
           b = "none" <=> i.phase = "idle", b = "none" <=> input.phase = "idle",
           NEW n \in 1..RecvBufSize, NEW d \in Seq(1..MaxDown),
           Size(d) = n, Counts(d, v.read), NEW w \in BOOLEAN, NEW o \in BOOLEAN,
           NEW u, Grows(v, u), u.read = v.read + n,
           NEW z, z = client_socks_recv_handler_done(s, d, w, o)
    PROVE  Good(z, i, b, a, u)
<1> DEFINE r == NoRecv(s)
           f == Filled(r, d)
           t == client_socks_recv_send_out(f, w, o)
<1>1. z = IF r.c.client_closed THEN r
          ELSE IF ~t.c.aborted /\ t.c.rbuf = <<>> THEN client_socks_recv_initiate(t)
          ELSE t
  BY Zenon DEF client_socks_recv_handler_done, NoRecv, Filled
<1>2. s \in State  BY DEF Good, Base, Core
<1>3. r.c = s.c  BY <1>2, NoRecvIs
<1>4. CASE s.c.client_closed
  <2>1. z = r  BY <1>1, <1>3, <1>4, Zenon
  <2> QED BY <1>4, <2>1, RecvDropped
<1>5. CASE ~s.c.client_closed
  <2>1. z = IF ~t.c.aborted /\ t.c.rbuf = <<>> THEN client_socks_recv_initiate(t)
            ELSE t
    BY <1>1, <1>3, <1>5, Zenon
  <2>2. /\ Ctl(f, i, b) /\ Data(f, i, a, u) /\ ~f.k.recv /\ HasMore(f.c) /\ ~f.c.waiting
        /\ ~f.c.client_closed /\ f.c.socks_up /\ ~f.c.socks_closed
    BY <1>5, RecvFilled
  <2> HIDE DEF f
  <2>3. \/ t.c.aborted /\ Good(t, i, b, a, u)
        \/ Ctl(t, i, b) /\ Data(t, i, a, u) /\ SentOut(f, t)
    BY <2>2, SendOutKeeps
  <2> HIDE DEF t
  <2>4. CASE t.c.aborted /\ Good(t, i, b, a, u)
    BY <2>1, <2>4
  <2>5. CASE Ctl(t, i, b) /\ Data(t, i, a, u) /\ SentOut(f, t)
    <3>1. ~t.c.aborted /\ ~t.c.socks_closed  BY <2>2, <2>5 DEF SentOut
    <3>2. z = IF t.c.rbuf = <<>> /\ ~t.c.socks_closed
                THEN client_socks_recv_initiate(t) ELSE t
      BY <2>1, <3>1
    <3>3. f.k.state = "UP" => ~f.k.recv  BY <2>2
    <3> QED BY <2>5, <3>2, <3>3, AfterSendOut
  <2> QED BY <2>3, <2>4, <2>5
<1> QED BY <1>4, <1>5

\* Data from the proxy keeps the invariant.
LEMMA SocksRecvDoneKeeps == ASSUME Inv, SocksRecvDone PROVE Inv'
<1>1. PICK n \in 1..RecvBufSize, w \in BOOLEAN, o \in OutputWorks :
         /\ srv.read + n <= srv.sent
         /\ srv' = [srv EXCEPT !.read = @ + n]
         /\ Become(client_socks_recv_handler_done(
               Cur, SubSeq(Bytes(MaxDown), srv.read + 1, srv.read + n), w, o))
  BY DEF SocksRecvDone
<1>2. UNCHANGED <<input, cb, app>> /\ Cur.k.recv  BY CurIs DEF SocksRecvDone
<1> DEFINE u == Ahead(srv, n)
           d == Part(Bytes(MaxDown), srv.read, n)
           t == client_socks_recv_handler_done(Cur, d, w, o)
<1>3. o \in BOOLEAN  BY DEF OutputWorks
<1>4. cb = "none" <=> input.phase = "idle"
  <2>1. Idle \/ cb \in {"accept", "sent", "recv", "fin"}
    BY DEF SocksRecvDone, During
  <2> QED BY <2>1, InCallback
<1>5. /\ srv \in SrvT /\ srv.read \in Nat /\ n \in Nat /\ n > 0
      /\ srv.sent \in Nat /\ srv.sent <= MaxDown
  BY SizesAssumption DEF Inv, Good, Base, Core, World, SrvT
<1>6. Grows(srv, u) /\ u.read = srv.read + n  BY <1>1, <1>5, AheadIs
<1>7. d \in Seq(1..MaxDown) /\ Size(d) = n /\ Counts(d, srv.read)
  <2> DEFINE m == srv.read
  <2>1. m \in Nat /\ m + n <= MaxDown /\ d = Part(Bytes(MaxDown), m, n) /\ MaxDown \in Nat
    BY <1>1, <1>5, SizesAssumption
  <2>2. d \in Seq(1..MaxDown) /\ Size(d) = n /\ Counts(d, m)
    <3> HIDE DEF m, d
    <3> QED BY <1>5, <2>1, CountsSlice
  <2> QED BY <2>2
<1>8. Become(t)  BY <1>1, Zenon DEF Part
<1>9. Cur.k.state = "UP"
  <2>1. Sends(Cur.c, Cur.k)  BY DEF Inv, Good, Base, Core
  <2> QED BY <1>2, <2>1 DEF Sends
<1>10. srv' = u  BY <1>1 DEF Ahead
<1> HIDE DEF d, u
<1>11. Good(t, input, cb, app, u)
  BY <1>2, <1>3, <1>4, <1>6, <1>7, <1>9, RecvDoneKeeps DEF Inv
<1> HIDE DEF t
<1> QED BY <1>2, <1>8, <1>10, <1>11, InvNext

-----------------------------------------------------------------------------
(* What the proxy does to its end of the socket.                           *)

\* What the proxy sends, and its end of file, wait to be read: the invariant
\* speaks of neither until then.
LEMMA QueuedKeeps ==
    ASSUME NEW s, NEW i, NEW b, NEW a, NEW v, Good(s, i, b, a, v), ~v.eof,
           NEW u \in SrvT, u.read = v.read, u.got = v.got, Behind(u)
    PROVE  Good(s, i, b, a, u)
<1>1. /\ Base(s, i, b, a, v) /\ Core(s, i, a, v)
      /\ Up(s.c, s.p, i, s.h, a, v) /\ Down(s.c, s.k, s.p, s.h, a, v) /\ World(i, a, v)
  BY DEF Good, Base, Core
<1>2. World(i, a, u)  BY <1>1 DEF World
<1>3. Up(s.c, s.p, i, s.h, a, u)  BY <1>1 DEF Up
<1>4. Down(s.c, s.k, s.p, s.h, a, u)
  <2>1. ~AllRead(v)  BY DEF AllRead
  <2> QED BY <1>1, <2>1 DEF Down
<1>5. Core(s, i, a, u)  BY <1>1, <1>2, <1>3, <1>4 DEF Core
<1>6. Base(s, i, b, a, u)  BY <1>1, <1>5 DEF Base
<1> QED BY <1>6 DEF Good

\* A step of the proxy alone leaves the state record as it is.
LEMMA ProxyKeeps ==
    ASSUME Inv, ~srv.eof, UNCHANGED <<client, socks, pcb, input, cb, frame, faults, app, causes>>,
           NEW u \in SrvT, u.read = srv.read, u.got = srv.got, Behind(u), srv' = u
    PROVE  Inv'
<1>1. Good(Cur, input, cb, app, u)  BY QueuedKeeps DEF Inv
<1>2. Become(Cur)  BY CurIs DEF Become
<1> QED BY <1>1, <1>2, InvNext

\* The numbers of the proxy's end.
LEMMA SrvNumbers ==
    ASSUME Inv
    PROVE  /\ srv \in SrvT /\ srv.sent \in Nat /\ srv.read \in Nat /\ srv.sent <= MaxDown
           /\ srv.read <= srv.sent
<1>1. srv \in SrvT /\ Behind(srv)  BY DEF Inv, Good, Base, Core, World, Down
<1> QED BY <1>1, SizesAssumption DEF SrvT, Behind

\* Bytes from the proxy keep the invariant.
LEMMA ProxySendsKeeps == ASSUME Inv, ProxySends PROVE Inv'
<1>1. PICK n \in 1..(MaxDown - srv.sent) : srv' = [srv EXCEPT !.sent = @ + n]
  BY DEF ProxySends
<1>2. ~srv.eof /\ UNCHANGED <<client, socks, pcb, input, cb, frame, faults, app, causes>>
  BY DEF ProxySends
<1> DEFINE u == [srv EXCEPT !.sent = @ + n]
<1>3. /\ srv \in SrvT /\ srv.sent \in Nat /\ srv.read \in Nat /\ srv.read <= srv.sent
  BY SrvNumbers
<1>4. srv.sent + n \in 0..MaxDown /\ srv.read <= srv.sent + n  BY <1>3, SizesAssumption
<1>5. u \in SrvT /\ u.read = srv.read /\ u.got = srv.got /\ u.sent = srv.sent + n
  BY <1>3, <1>4 DEF SrvT
<1>6. srv' = u  BY <1>1
<1> HIDE DEF u
<1>7. Behind(u)  BY <1>4, <1>5 DEF Behind
<1> QED BY <1>2, <1>5, <1>6, <1>7, ProxyKeeps

\* The proxy's end of file keeps the invariant.
LEMMA ProxyClosesKeeps == ASSUME Inv, ProxyCloses PROVE Inv'
<1>1. /\ srv' = [srv EXCEPT !.eof = TRUE] /\ ~srv.eof
      /\ UNCHANGED <<client, socks, pcb, input, cb, frame, faults, app, causes>>
  BY DEF ProxyCloses
<1> DEFINE u == [srv EXCEPT !.eof = TRUE]
<1>2. srv \in SrvT /\ srv.read <= srv.sent  BY SrvNumbers
<1>3. u \in SrvT /\ u.read = srv.read /\ u.got = srv.got /\ u.sent = srv.sent
  BY <1>2 DEF SrvT
<1>4. srv' = u  BY <1>1
<1> HIDE DEF u
<1>5. Behind(u)  BY <1>2, <1>3 DEF Behind
<1> QED BY <1>1, <1>3, <1>4, <1>5, ProxyKeeps

-----------------------------------------------------------------------------
(* The theorems.                                                           *)

\* The client and the pcb before the handshake.
FirstClient == [alive |-> FALSE, client_closed |-> FALSE, socks_closed |-> FALSE,
                socks_up |-> FALSE, buf |-> <<>>, rbuf |-> <<>>, rsent |-> 0,
                waiting |-> FALSE, pending |-> 0, aborted |-> FALSE, dead |-> "null"]
FirstPcb == [state |-> "SYN_RCVD", rcv_wnd |-> TCP_WND, cbs |-> {}, rxclosed |-> FALSE,
             closed |-> FALSE, sndq |-> <<>>, refused |-> <<>>]

\* The invariant holds before the first segment.
LEMMA InitGood == ASSUME Init PROVE Inv
<1> DEFINE s == Cur
<1>1. /\ s.c = FirstClient /\ s.k = [state |-> "NONE", send |-> 0, recv |-> FALSE]
      /\ s.p = FirstPcb /\ s.f = 0 /\ s.x = {} /\ s.h = {}
      /\ input = NoSegment /\ cb = "none"
      /\ app = [sent |-> 0, got |-> <<>>, fin |-> FALSE] /\ srv = [sent |-> 0, eof |-> FALSE, read |-> 0, got |-> <<>>]
  BY CurIs DEF Init, FirstClient, FirstPcb
<1>2. <<>> \in Seq(1..MaxUp) /\ <<>> \in Seq(1..MaxDown)  BY EmptySeq
<1>3. 0 \in 0..RecvBufSize /\ 0 \in 0..TCP_SND_BUF /\ 0 \in 0..TCP_WND /\ TCP_WND \in 0..TCP_WND
      /\ 0 \in 0..MaxUp /\ 0 \in 0..MaxDown
  BY SizesAssumption
<1>4. s.c \in ClientT  BY <1>1, <1>2, <1>3 DEF FirstClient, ClientT
<1>5. s.k \in SocksT  BY <1>1, <1>3, StateNames DEF SocksT
<1>6. s.p \in PcbT  BY <1>1, <1>2, <1>3 DEF FirstPcb, PcbT, PcbStates
<1>7. s = [c |-> s.c, k |-> s.k, p |-> s.p, f |-> s.f, x |-> s.x, h |-> s.h]
  BY CurIs DEF Cur
<1> HIDE DEF s
<1>8. s \in State  BY <1>1, <1>4, <1>5, <1>6, <1>7 DEF State
<1>9. World(input, app, srv)
  BY <1>1, <1>2, <1>3, NoSegmentIs DEF World, AppT, SrvT
<1>10. /\ ~s.c.alive /\ ~s.c.client_closed /\ ~s.c.socks_closed /\ ~s.c.socks_up
       /\ s.c.buf = <<>> /\ s.c.rbuf = <<>> /\ s.c.rsent = 0 /\ ~s.c.waiting /\ s.c.pending = 0
       /\ ~s.c.aborted /\ s.c.dead = "null"
       /\ s.k.state = "NONE" /\ s.k.send = 0 /\ ~s.k.recv
       /\ s.p.state = "SYN_RCVD" /\ s.p.rcv_wnd = TCP_WND /\ s.p.cbs = {} /\ ~s.p.rxclosed
       /\ ~s.p.closed /\ s.p.sndq = <<>> /\ s.p.refused = <<>>
  BY <1>1 DEF FirstClient, FirstPcb
<1>11. /\ input.phase = "idle" /\ input.data = <<>> /\ input.ack = 0 /\ ~input.fin
       /\ Ack(input) = 0 /\ InFlight(input) = 0
  BY <1>1, NoSegmentIs DEF Ack, InFlight
<1>12. app.sent = 0 /\ app.got = <<>> /\ srv.read = 0 /\ srv.got = <<>> /\ Behind(srv)
  BY <1>1 DEF Behind
<1>13. Size(<<>>) = 0 /\ \A m \in Int : Counts(<<>>, m)  BY SizeNat DEF Counts
<1>14. Life(s.c, s.k, s.p)  BY <1>10 DEF Life
<1>15. Callbacks(s.c, s.k, s.p)  BY <1>10 DEF Callbacks
<1>16. Sends(s.c, s.k)  BY <1>10, <1>13, SizesAssumption DEF Sends
<1>17. Receives(s.c, s.k)  BY <1>10 DEF Receives
<1>18. Flow(s.c, s.k, s.p, input, cb)  BY <1>1, <1>10, <1>11 DEF Flow
<1>19. Frame(s.c, s.p, cb, s.f)  BY <1>1, <1>10 DEF Frame
<1>20. Queues(s.c, s.k, s.p, input)  BY <1>10, <1>11, <1>13, SizesAssumption DEF Queues
<1>21. LetGo(s.c, s.p, input, cb, s.h)  BY <1>10 DEF LetGo
<1>22. Up(s.c, s.p, input, s.h, app, srv)
  BY <1>10, <1>11, <1>12, <1>13 DEF Up
<1>23. Down(s.c, s.k, s.p, s.h, app, srv)
  BY <1>10, <1>12, <1>13 DEF Down
<1>24. cb \in CbT  BY <1>1 DEF CbT
<1>25. Good(s, input, cb, app, srv)
  BY <1>8, <1>9, <1>10, <1>14, <1>15, <1>16, <1>17, <1>18, <1>19, <1>20, <1>21, <1>22, <1>23,
     <1>24 DEF Good, Base, Core
<1> QED BY <1>25 DEF Inv, s

\* A stuttering step keeps the invariant.
LEMMA StutterKeeps == ASSUME Inv, UNCHANGED vars PROVE Inv'
<1>1. Cur' = Cur  BY DEF vars, Cur
<1>2. /\ input' = input /\ cb' = cb /\ app' = app /\ srv' = srv  BY DEF vars
<1>3. Become(Cur)  BY CurIs DEF vars, Become
<1>4. Good(Cur, input, cb, app, srv)  BY DEF Inv
<1> QED BY <1>2, <1>3, <1>4, InvNext

\* Every step keeps the invariant.
LEMMA NextKeeps == ASSUME Inv, [Next]_vars PROVE Inv'
<1>1. CASE HandshakeAck  BY <1>1, HandshakeAckKeeps
<1>2. CASE TcpInput  BY <1>2, TcpInputKeeps
<1>3. CASE listener_accept_func  BY <1>3, AcceptKeeps
<1>4. CASE InputSent  BY <1>4, InputSentKeeps
<1>5. CASE InputData  BY <1>5, InputDataKeeps
<1>6. CASE InputFin  BY <1>6, InputFinKeeps
<1>7. CASE Return  BY <1>7, ReturnKeeps
<1>8. CASE TcpReset  BY <1>8, TcpResetKeeps
<1>9. CASE tcp_slowtmr  BY <1>9, SlowtmrKeeps
<1>10. CASE SocksStep  BY <1>10, SocksStepKeeps
<1>11. CASE SocksSendDone  BY <1>11, SocksSendDoneKeeps
<1>12. CASE SocksRecvDone  BY <1>12, SocksRecvDoneKeeps
<1>13. CASE SocksRecvClosed  BY <1>13, SocksRecvClosedKeeps
<1>14. CASE SocksError  BY <1>14, SocksErrorKeeps
<1>15. CASE Teardown  BY <1>15, TeardownKeeps
<1>16. CASE UNCHANGED vars  BY <1>16, StutterKeeps
<1>17. CASE ProxySends  BY <1>17, ProxySendsKeeps
<1>18. CASE ProxyCloses  BY <1>18, ProxyClosesKeeps
<1> QED
  BY <1>1, <1>2, <1>3, <1>4, <1>5, <1>6, <1>7, <1>8, <1>9, <1>10, <1>11, <1>12, <1>13, <1>14,
     <1>15, <1>16, <1>17, <1>18 DEF Next

\* The inductive invariant holds in every state of tun2socks handling a
\* connection, for all sizes of the buffers and amounts of data.
THEOREM Invariance == Spec => []Inv
<1>1. Init => Inv  BY InitGood
<1>2. Inv /\ [Next]_vars => Inv'  BY NextKeeps
<1> QED BY <1>1, <1>2, PTL DEF Spec

\* The conjuncts of the invariant, in terms of the variables.
LEMMA InvParts ==
    ASSUME Inv
    PROVE  /\ Cur \in State /\ World(input, app, srv) /\ Life(client, socks, pcb)
           /\ Callbacks(client, socks, pcb) /\ Sends(client, socks) /\ Receives(client, socks)
           /\ cb \in CbT /\ Flow(client, socks, pcb, input, cb)
           /\ Queues(client, socks, pcb, input) /\ LetGo(client, pcb, input, cb, causes)
           /\ Up(client, pcb, input, causes, app, srv)
           /\ Down(client, socks, pcb, causes, app, srv)
  BY CurIs DEF Inv, Good, Base, Core

\* Consecutive bytes from the first on are the bytes of a stream.
LEMMA CountsBytes ==
    ASSUME NEW S, NEW q \in Seq(S), Counts(q, 0), NEW n \in Nat, Size(q) = n
    PROVE  q = Bytes(n)
<1>1. DOMAIN q = 1..n /\ q = [j \in DOMAIN q |-> q[j]]  BY LenProperties DEF Size
<1>2. \A j \in 1..n : q[j] = j  BY DEF Counts
<1> QED BY <1>1, <1>2 DEF Bytes

\* Consecutive bytes from the first on are a prefix of the stream.
LEMMA PrefixIs ==
    ASSUME NEW S, NEW q \in Seq(S), Counts(q, 0), NEW n \in Nat, Size(q) <= n
    PROVE  Prefix(q, n)
<1> DEFINE m == Size(q)
<1>1. m \in Nat  BY LenProperties DEF Size
<1>2. q = Bytes(m)
  <2> HIDE DEF m
  <2> QED BY <1>1, CountsBytes DEF m
<1> QED BY <1>2 DEF Prefix, Size

\* The handlers of tun2socks.c keep every field within its type, and with it
\* client->buf, the receive buffer and socks_recv_tcp_pending within their bounds.
THEOREM TypeCorrect == Spec => []TypeOK
<1>1. Inv => TypeOK
  <2> SUFFICES ASSUME Inv PROVE TypeOK  OBVIOUS
  <2>1. /\ client \in ClientT /\ socks \in SocksT /\ pcb \in PcbT /\ frame \in {-1, 0, 1}
        /\ causes \subseteq Causes
    BY InvParts, CurIs DEF State
  <2>2. input \in InputT /\ app \in AppT /\ srv \in SrvT /\ cb \in CbT
    BY InvParts DEF World
  <2>3. app.sent \in 0..MaxUp /\ app.got \in Seq(1..MaxDown) /\ app.fin \in BOOLEAN
    BY <2>2 DEF AppT
  <2> QED BY <2>1, <2>2, <2>3, Zenon DEF TypeOK, ClientT, SocksT, PcbT, InputT, SrvT, CbT
<1> QED BY <1>1, Invariance, PTL

\* No ASSERT of the handlers of tun2socks.c fails, none uses a pcb or client that was
\* freed, and each callback answers ERR_ABRT exactly when tcp_abort() was called.
THEOREM Sound == Spec => []HandlersSound
<1>1. Inv => HandlersSound
  BY InvParts, CurIs DEF State, HandlersSound
<1> QED BY <1>1, Invariance, PTL

\* Every byte of lwIP's receive window is free, in the segment being handled or in
\* client->buf, so client_recv_func never meets "no buffer for data !?!".
THEOREM Accounted == Spec => []WindowAccounted
<1>1. Inv => WindowAccounted
  <2> SUFFICES ASSUME Inv PROVE WindowAccounted  OBVIOUS
  <2>1. Queues(client, socks, pcb, input) /\ input \in InputT  BY InvParts DEF World
  <2>2. (IF input.phase \in {"sent", "data", "fin"} THEN Fin(input) ELSE 0)
          = (IF input.phase \in {"sent", "data", "fin"} /\ input.fin THEN 1 ELSE 0)
    BY DEF Fin
  <2> QED BY <2>1, <2>2 DEF Queues, WindowAccounted, Size
<1> QED BY <1>1, Invariance, PTL

\* Between events, whatever a client has buffered has an event pending that will
\* move it, and a half-closed client waits for something to drain.
THEOREM NeverStalls == Spec => []NoStall
<1>1. Inv => NoStall
  <2> SUFFICES ASSUME Inv, client.alive, Idle
               PROVE  /\ (client.socks_up /\ ~client.socks_closed)
                           => (client.buf # <<>>) = (socks.send > 0)
                      /\ client.client_closed \/ client.pending = Len(pcb.sndq)
                      /\ (~client.client_closed /\ client.rbuf # <<>>) =>
                            client.waiting /\ client.pending > 0 /\ "sent" \in pcb.cbs
                      /\ (client.socks_up /\ ~client.client_closed /\ ~client.socks_closed) =>
                            (client.rbuf = <<>>) = socks.recv
                      /\ client.client_closed => client.buf # <<>>
                      /\ client.socks_closed => client.pending > 0
    BY DEF NoStall
  <2>1. /\ Life(client, socks, pcb) /\ Callbacks(client, socks, pcb) /\ Sends(client, socks)
        /\ Receives(client, socks) /\ Queues(client, socks, pcb, input)
    BY InvParts
  <2>2. /\ Cur \in State /\ socks.recv \in BOOLEAN /\ World(input, app, srv)
        /\ Size(pcb.sndq) \in Nat
    <3>1. Cur \in State /\ World(input, app, srv)  BY InvParts
    <3>2. Size(Cur.p.sndq) \in Nat  BY <3>1, Numbers
    <3>3. Cur.k.recv \in BOOLEAN  BY <3>1 DEF State, SocksT
    <3> QED BY <3>1, <3>2, <3>3, CurIs
  <2>3. socks.state # "NONE" /\ ~(client.client_closed /\ client.socks_closed)
        /\ ((client.socks_up /\ ~client.socks_closed) => socks.state = "UP")
    BY <2>1 DEF Life
  <2>4. Ack(input) = 0  BY DEF Idle, Ack
  <2>5. ~client.client_closed => client.pending = Size(pcb.sndq)
    <3>1. ~client.client_closed => client.pending = Size(pcb.sndq) + 0
      BY <2>1, <2>3, <2>4 DEF Queues
    <3> QED BY <2>2, <3>1
  <2>6. ~client.client_closed => client.pending = Len(pcb.sndq)  BY <2>5 DEF Size
  <2>7. (client.socks_up /\ ~client.socks_closed) => (client.buf # <<>>) = (socks.send > 0)
    BY <2>1, <2>3 DEF Sends
  <2>8. (~client.client_closed /\ client.rbuf # <<>>) =>
            client.waiting /\ client.pending > 0 /\ "sent" \in pcb.cbs
    BY <2>1 DEF Receives, Sends, Callbacks
  <2>9. (client.socks_up /\ ~client.client_closed /\ ~client.socks_closed) =>
            (client.rbuf = <<>>) = socks.recv
    BY <2>1, <2>2, <2>3 DEF Receives
  <2>10. (client.client_closed => client.buf # <<>>) /\ (client.socks_closed => client.pending > 0)
    BY <2>1, <2>3 DEF Receives
  <2> QED BY <2>6, <2>7, <2>8, <2>9, <2>10, Zenon
<1> QED BY <1>1, Invariance, PTL

\* The proxy gets the application's bytes in order, and all of them when the
\* application ended the connection: client_handle_freed_client() sends them first.
THEOREM UpstreamWhole == Spec => []UpstreamIntact
<1>1. Inv => UpstreamIntact
  <2> SUFFICES ASSUME Inv PROVE UpstreamIntact  OBVIOUS
  <2>1. /\ Up(client, pcb, input, causes, app, srv) /\ Life(client, socks, pcb)
        /\ World(input, app, srv) /\ Cur \in State
    BY InvParts
  <2>2. srv.got \in Seq(1..MaxUp) /\ Counts(srv.got, 0)  BY <2>1 DEF World, SrvT, Up
  <2>3. Size(srv.got) \in Nat /\ app.sent \in Nat /\ InFlight(input) \in Nat /\ Size(client.buf) \in Nat
    BY <2>1, Numbers, CurIs
  <2>4. Size(srv.got) <= app.sent
    <3>1. Size(srv.got) + (IF client.socks_closed THEN 0 ELSE Size(client.buf)) + InFlight(input)
            <= app.sent
      BY <2>1 DEF Up
    <3> QED BY <2>3, <3>1
  <2>5. Prefix(srv.got, app.sent)  BY <2>2, <2>3, <2>4, PrefixIs
  <2>6. ASSUME socks.state = "FREE", causes \cap UpLost = {} PROVE srv.got = Bytes(app.sent)
    <3>1. Size(srv.got) = app.sent  BY <2>1, <2>6 DEF Up, Life
    <3> QED BY <2>2, <2>3, <3>1, CountsBytes
  <2> QED BY <2>5, <2>6, Zenon DEF UpstreamIntact, UpLost
<1> QED BY <1>1, Invariance, PTL

\* The application gets the proxy's bytes in order.  When the SOCKS side ended it
\* gets all that was read, as client_free_socks() waits for what lwIP has not
\* confirmed, and all the proxy has sent unless the SOCKS connection failed.
THEOREM DownstreamWhole == Spec => []DownstreamIntact
<1>1. Inv => DownstreamIntact
  <2> SUFFICES ASSUME Inv PROVE DownstreamIntact  OBVIOUS
  <2>1. /\ Down(client, socks, pcb, causes, app, srv) /\ Life(client, socks, pcb)
        /\ World(input, app, srv) /\ Cur \in State
    BY InvParts
  <2>2. app.got \in Seq(1..MaxDown) /\ Counts(app.got, 0)  BY <2>1 DEF World, AppT, Down
  <2>3. Size(app.got) \in Nat /\ srv.read \in Nat /\ Size(pcb.sndq) \in Nat
    BY <2>1, Numbers, CurIs
  <2>4. Size(app.got) <= srv.read
    <3>1. Size(app.got) + Size(pcb.sndq) <= srv.read  BY <2>1 DEF Down
    <3> QED BY <2>3, <3>1
  <2>5. Prefix(app.got, srv.read)  BY <2>2, <2>3, <2>4, PrefixIs
  <2>6. ASSUME socks.state = "FREE", ~client.alive, causes \cap DownLost = {}
        PROVE  /\ app.got = Bytes(srv.read)
               /\ SocksFailed \notin causes => srv.read = srv.sent
    <3>1. Size(app.got) = srv.read  BY <2>1, <2>6 DEF Down, Life
    <3>2. SocksFailed \notin causes => srv.read = srv.sent
      BY <2>1, <2>6 DEF Down, Life, AllRead
    <3> QED BY <2>2, <2>3, <3>1, <3>2, CountsBytes
  <2>7. srv.read <= srv.sent  BY <2>1 DEF Down, Behind
  <2> QED BY <2>5, <2>6, <2>7, Zenon DEF DownstreamIntact, DownLost, SocksFailed
<1> QED BY <1>1, Invariance, PTL

\* When client and SOCKS connection are gone, so is the pcb, or lwIP's timer ends
\* it, unless a FIN came with the last segment of the TCP handshake.
THEOREM LetsGo == Spec => []PcbLetGo
<1>1. Inv => PcbLetGo
  <2> SUFFICES ASSUME Inv, socks.state = "FREE", ~client.alive, Idle
               PROVE  pcb.state \in {"CLOSING", "TIME_WAIT", "freed"} \/ FinAtAccept \in causes
    BY Zenon DEF PcbLetGo, FinAtAccept
  <2>1. LetGo(client, pcb, input, cb, causes) /\ Life(client, socks, pcb)  BY InvParts
  <2>2. client.client_closed /\ cb = "none"  BY <2>1 DEF Life, Idle
  <2> QED BY <2>1, <2>2 DEF LetGo
<1> QED BY <1>1, Invariance, PTL

=============================================================================
