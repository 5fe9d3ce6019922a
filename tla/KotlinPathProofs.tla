-------------------------- MODULE KotlinPathProofs --------------------------
(***************************************************************************)
(* The Kotlin data path, for every set of packets, configurations and      *)
(* hosts: what it writes is accepted, it is the packet's own stream, and a *)
(* query gets its own fresh answer.                                        *)
(*                                                                         *)
(* The first half is about the algorithms: a checksum computed and put in  *)
(* makes the words add up to a multiple of 65535 for every datagram, and   *)
(* splitting a segment gives its bytes the sequence numbers they had, the  *)
(* wrap at 2^32 included.  Both need induction over the bytes, which is    *)
(* done over sets of numbers (SetInduction), and the existence of the      *)
(* recursive functions of the model (Recursion).  The second half is the   *)
(* inductive invariant: what the task has written and is going to write    *)
(* (Writing), how old the addresses of a lookup and of the cache can be    *)
(* (Recent, Unexpired).                                                    *)
(***************************************************************************)
EXTENDS KotlinPath, WellFoundedInduction, FiniteSetTheorems, SequenceTheorems, TLAPS

-----------------------------------------------------------------------------
(* Induction, in the form the provers can use: over a set of numbers.      *)

\* A non-empty set of natural numbers has a least member.
LEMMA LeastNat ==
  ASSUME NEW T \in SUBSET Nat, T # {}
  PROVE  \E x \in T : \A y \in T : x <= y
<1> DEFINE R == OpToRel(<, Nat)
<1>1. IsWellFoundedOn(R, Nat)
  BY NatLessThanWellFounded, Zenon
<1> HIDE DEF R
<1>2. PICK x \in T : \A y \in T : ~(<<y, x>> \in R)
  BY <1>1, WFMin
<1>3. \A y \in T : ~(y < x)
  <2> SUFFICES ASSUME NEW y \in T, y < x PROVE FALSE
    OBVIOUS
  <2>1. <<y, x>> \in Nat \X Nat
    OBVIOUS
  <2>2. <<y, x>> \in R
    BY <2>1 DEF R, OpToRel
  <2> QED BY <2>2, <1>2
<1> QED BY <1>3

\* What holds of 0, and of n + 1 if of n, holds of every natural number.
LEMMA SetInduction ==
  ASSUME NEW T \in SUBSET Nat, 0 \in T, \A n \in T : n + 1 \in T
  PROVE  T = Nat
<1> SUFFICES ASSUME Nat \ T # {} PROVE FALSE
  OBVIOUS
<1>1. PICK x \in Nat \ T : \A y \in Nat \ T : x <= y
  BY LeastNat
<1>2. x # 0 /\ x - 1 \in Nat
  BY <1>1
<1>3. x - 1 \in T
  BY <1>1, <1>2
<1> QED BY <1>1, <1>2, <1>3

\* The same up to a bound.
LEMMA BoundedInduction ==
  ASSUME NEW n \in Nat, NEW T, 0 \in T, \A i \in 0..(n - 1) : i \in T => i + 1 \in T
  PROVE  \A i \in 0..n : i \in T
<1> DEFINE U == {i \in Nat : i <= n => i \in T}
<1>1. U \in SUBSET Nat /\ 0 \in U
  OBVIOUS
<1>2. \A i \in U : i + 1 \in U
  OBVIOUS
<1> HIDE DEF U
<1>3. U = Nat
  BY <1>1, <1>2, SetInduction
<1> QED BY <1>3 DEF U

\* g is what the recursion with first value c and step F computes.
Recurs(g, m, n, c, F) ==
    \A i \in m..n : g[i] = IF i = m THEN c ELSE F[<<g[i - 1], i>>]

\* There is such a function for every step F.
LEMMA Recursion ==
  ASSUME NEW V, NEW c \in V, NEW F \in [V \X Nat -> V], NEW m \in {0, 1}, NEW n \in Nat
  PROVE  \E g \in [m..n -> V] : Recurs(g, m, n, c, F)
<1> DEFINE T == {k \in Nat : \E g \in [m..k -> V] : Recurs(g, m, k, c, F)}
<1>1. T \in SUBSET Nat
  OBVIOUS
<1>2. 0 \in T
  <2> DEFINE g == [i \in m..0 |-> c]
  <2>1. g \in [m..0 -> V]
    OBVIOUS
  <2>2. Recurs(g, m, 0, c, F)
    BY DEF Recurs
  <2> QED BY <2>1, <2>2
<1>3. ASSUME NEW k \in T PROVE k + 1 \in T
  <2>1. PICK g \in [m..k -> V] : Recurs(g, m, k, c, F)
    OBVIOUS
  <2>k. k \in Nat /\ k + 1 \in Nat
    OBVIOUS
  <2> DEFINE v == IF k + 1 = m THEN c ELSE F[<<g[k], k + 1>>]
             h == [i \in m..(k + 1) |-> IF i = k + 1 THEN v ELSE g[i]]
  <2>2. v \in V
    <3>1. CASE k + 1 = m
      BY <3>1
    <3>2. CASE k + 1 # m
      <4>1. g[k] \in V
        BY <3>2, <2>1, <2>k
      <4>2. <<g[k], k + 1>> \in V \X Nat
        BY <4>1, <2>k
      <4> QED BY <3>2, <4>2
    <3> QED BY <3>1, <3>2
  <2>3. h \in [m..(k + 1) -> V]
    BY <2>2, <2>1, <2>k
  <2>4. Recurs(h, m, k + 1, c, F)
    <3> SUFFICES ASSUME NEW i \in m..(k + 1)
                 PROVE  h[i] = IF i = m THEN c ELSE F[<<h[i - 1], i>>]
      BY DEF Recurs
    <3>1. CASE i = k + 1
      <4>1. i # m => h[i - 1] = g[k]
        BY <3>1, <2>k
      <4> QED BY <4>1, <3>1
    <3>2. CASE i # k + 1
      <4>1. i \in m..k /\ h[i] = g[i]
        BY <3>2, <2>k
      <4>2. i # m => h[i - 1] = g[i - 1]
        BY <3>2, <2>k
      <4> QED BY <4>1, <4>2, <2>1 DEF Recurs
    <3> QED BY <3>1, <3>2
  <2> HIDE DEF h
  <2> QED BY <2>3, <2>4, <2>k
<1> HIDE DEF T
<1>4. T = Nat
  BY <1>1, <1>2, <1>3, SetInduction
<1> QED BY <1>4 DEF T
-----------------------------------------------------------------------------
(* The sums.                                                               *)

\* The sum of the first i bytes, each weighted by its place in a word.
IsTotal(t, b) ==
    t = [i \in 0..Len(b) |->
           IF i = 0 THEN 0 ELSE t[i - 1] + IF i % 2 = 1 THEN 256 * b[i] ELSE b[i]]

\* The weight of one byte.
Weighted(b, i) == IF i % 2 = 1 THEN 256 * b[i] ELSE b[i]

\* Total() is the last of the partial sums.
LEMMA TotalIs ==
  ASSUME NEW b \in Seq(Nat)
  PROVE  \E t \in [0..Len(b) -> Nat] :
            /\ t[0] = 0
            /\ \A i \in 1..Len(b) : t[i] = t[i - 1] + Weighted(b, i)
            /\ Total(b) = t[Len(b)]
<1> DEFINE n == Len(b)
           F == [x \in Nat \X Nat |->
                   x[1] + IF x[2] \in 1..n THEN Weighted(b, x[2]) ELSE 0]
<1>n. n \in Nat
  OBVIOUS
<1>w. \A i \in 1..n : Weighted(b, i) \in Nat
  BY DEF Weighted
<1>1. F \in [Nat \X Nat -> Nat]
  BY <1>w
<1>F. \A v, i \in Nat : F[<<v, i>>] = v + IF i \in 1..n THEN Weighted(b, i) ELSE 0
  OBVIOUS
<1> HIDE DEF F
<1>2. PICK g \in [0..n -> Nat] : Recurs(g, 0, n, 0, F)
  BY <1>n, <1>1, Recursion
<1>3. \A i \in 0..n : g[i] = IF i = 0 THEN 0 ELSE g[i - 1] + Weighted(b, i)
  <2> SUFFICES ASSUME NEW i \in 0..n, i # 0
               PROVE  g[i] = g[i - 1] + Weighted(b, i)
    BY <1>2 DEF Recurs
  <2>1. g[i] = F[<<g[i - 1], i>>]
    BY <1>2 DEF Recurs
  <2>2. g[i - 1] \in Nat /\ i \in 1..n
    BY <1>2, <1>n
  <2> QED BY <2>1, <2>2, <1>F
<1>4. IsTotal(g, b)
  BY <1>3, <1>2, Zenon DEF IsTotal, Weighted
<1> DEFINE t == CHOOSE s : IsTotal(s, b)
<1>5. IsTotal(t, b)
  BY <1>4
<1>6. Total(b) = t[Len(b)]
  BY Zenon DEF Total, IsTotal
<1> HIDE DEF t
<1>7. t[0] = 0 /\ \A i \in 1..n : t[i] = t[i - 1] + Weighted(b, i)
  BY <1>5, <1>n DEF IsTotal, Weighted
<1>8. \A i \in 0..n : i \in {j \in 0..n : t[j] \in Nat}
  <2> DEFINE T == {j \in 0..n : t[j] \in Nat}
  <2>1. 0 \in T
    BY <1>7, <1>n
  <2>2. \A i \in 0..(n - 1) : i \in T => i + 1 \in T
    <3> SUFFICES ASSUME NEW i \in 0..(n - 1), t[i] \in Nat PROVE t[i + 1] \in Nat
      BY <1>n
    <3>1. i + 1 \in 1..n /\ (i + 1) - 1 = i
      BY <1>n
    <3>2. t[i + 1] = t[i] + Weighted(b, i + 1)
      BY <3>1, <1>7
    <3> QED BY <3>1, <3>2, <1>w
  <2> HIDE DEF T
  <2>3. \A i \in 0..n : i \in T
    BY <2>1, <2>2, <1>n, BoundedInduction
  <2> QED BY <2>3 DEF T
<1>9. t \in [0..n -> Nat]
  BY <1>8, <1>5 DEF IsTotal
<1> QED BY <1>6, <1>7, <1>9

\* A number is twice its half, and the rest.
LEMMA HalfIs ==
  ASSUME NEW n \in Nat
  PROVE  /\ n \div 2 \in Nat /\ 2 * (n \div 2) <= n
         /\ n = 2 * (n \div 2) + (n % 2) /\ n % 2 \in {0, 1}
<1>1. n \div 2 \in Nat
  OBVIOUS
<1>2. n % 2 \in {0, 1}
  OBVIOUS
<1>3. n = 2 * (n \div 2) + (n % 2)
  OBVIOUS
<1>4. 2 * (n \div 2) <= n
  OBVIOUS
<1> QED BY <1>1, <1>2, <1>3, <1>4

\* s holds the sums of Sum16(), word by word.
IsSum16(s, b) ==
    s = [i \in 0..(Len(b) \div 2) |->
           IF i = 0 THEN 0 ELSE s[i - 1] + 256 * b[2 * i - 1] + b[2 * i]]

\* The sum of the words is the sum that the receiver forms.
LEMMA Sum16Is ==
  ASSUME NEW b \in Seq(Nat)
  PROVE  Sum16(b) = Total(b) /\ Sum16(b) \in Nat
<1> DEFINE n == Len(b)
           h == n \div 2
<1>l. n \in Nat
  OBVIOUS
<1>n. n \in Nat /\ h \in Nat /\ 2 * h <= n /\ n = 2 * h + (n % 2) /\ n % 2 \in {0, 1}
  BY <1>l, HalfIs
<1>1. PICK t \in [0..n -> Nat] :
            /\ t[0] = 0
            /\ \A i \in 1..n : t[i] = t[i - 1] + Weighted(b, i)
            /\ Total(b) = t[n]
  BY TotalIs
<1>h. h \in Nat /\ 2 * h <= n
  BY <1>n
<1>b. \A i \in 1..n : b[i] \in Nat
  OBVIOUS
<1>2. ASSUME NEW i \in 1..h
      PROVE  /\ 2 * i \in 1..n /\ 2 * i - 1 \in 1..n
             /\ t[2 * i] = t[2 * i - 2] + 256 * b[2 * i - 1] + b[2 * i]
  <2>1. 2 * i \in 1..n /\ 2 * i - 1 \in 1..n /\ (2 * i) % 2 = 0 /\ (2 * i - 1) % 2 = 1
        /\ 2 * i - 2 \in 0..n
    BY <1>n
  <2>2. t[2 * i] = t[2 * i - 1] + b[2 * i]
    BY <2>1, <1>1 DEF Weighted
  <2>3. t[2 * i - 1] = t[(2 * i - 1) - 1] + 256 * b[2 * i - 1]
    BY <2>1, <1>1 DEF Weighted
  <2>4. (2 * i - 1) - 1 = 2 * i - 2
    OBVIOUS
  <2>5. t[2 * i] \in Nat /\ t[2 * i - 1] \in Nat /\ t[2 * i - 2] \in Nat
        /\ b[2 * i - 1] \in Nat /\ b[2 * i] \in Nat
    <3>1. \A j \in 0..n : t[j] \in Nat
      BY <1>1
    <3>2. 2 * i \in 0..n /\ 2 * i - 1 \in 0..n
      BY <2>1, <1>l
    <3> QED BY <2>1, <3>1, <3>2, <1>b
  <2> QED BY <2>1, <2>2, <2>3, <2>4, <2>5
<1> DEFINE g == [i \in 0..h |-> t[2 * i]]
<1>3. IsSum16(g, b)
  <2>1. \A i \in 0..h : t[2 * i] = IF i = 0 THEN 0 ELSE g[i - 1] + 256 * b[2 * i - 1] + b[2 * i]
    <3> SUFFICES ASSUME NEW i \in 0..h, i # 0
                 PROVE  t[2 * i] = g[i - 1] + 256 * b[2 * i - 1] + b[2 * i]
      <4>1. 2 * 0 = 0
        OBVIOUS
      <4> QED BY <1>1, <4>1
    <3>1. i \in 1..h /\ i - 1 \in 0..h /\ 2 * (i - 1) = 2 * i - 2
      BY <1>n
    <3>2. g[i - 1] = t[2 * i - 2]
      BY <3>1
    <3> QED BY <3>1, <3>2, <1>2
  <2>2. g = [i \in 0..h |-> IF i = 0 THEN 0 ELSE g[i - 1] + 256 * b[2 * i - 1] + b[2 * i]]
    BY <2>1
  <2> QED BY <2>2 DEF IsSum16
<1> DEFINE s == CHOOSE f : IsSum16(f, b)
<1>4. IsSum16(s, b)
  BY <1>3
<1>5. Sum16(b) = s[h] + OddTail(b)
  BY Zenon DEF Sum16, IsSum16
<1> HIDE DEF s, g
<1>6. s[0] = 0 /\ \A i \in 1..h : s[i] = s[i - 1] + 256 * b[2 * i - 1] + b[2 * i]
  <2>1. s = [i \in 0..h |-> IF i = 0 THEN 0 ELSE s[i - 1] + 256 * b[2 * i - 1] + b[2 * i]]
    BY <1>4 DEF IsSum16
  <2>2. \A i \in 0..h : s[i] = IF i = 0 THEN 0 ELSE s[i - 1] + 256 * b[2 * i - 1] + b[2 * i]
    BY <2>1, Zenon
  <2>3. 0 \in 0..h /\ \A i \in 1..h : i \in 0..h /\ i # 0
    BY <1>n
  <2> QED BY <2>2, <2>3, Zenon
<1>7. s[h] = t[2 * h]
  <2> DEFINE T == {j \in 0..h : s[j] = t[2 * j]}
  <2>1. 0 \in T
    BY <1>6, <1>1, <1>n
  <2>2. \A i \in 0..(h - 1) : i \in T => i + 1 \in T
    <3> SUFFICES ASSUME NEW i \in 0..(h - 1), s[i] = t[2 * i] PROVE s[i + 1] = t[2 * (i + 1)]
      BY <1>n
    <3>1. i + 1 \in 1..h /\ (i + 1) - 1 = i /\ 2 * (i + 1) - 2 = 2 * i
      BY <1>n
    <3> DEFINE j == i + 1
    <3>2. s[j] = s[j - 1] + 256 * b[2 * j - 1] + b[2 * j]
      BY <3>1, <1>6
    <3>3. t[2 * j] = t[2 * j - 2] + 256 * b[2 * j - 1] + b[2 * j]
      BY <3>1, <1>2
    <3> QED BY <3>1, <3>2, <3>3
  <2> HIDE DEF T
  <2>3. \A i \in 0..h : i \in T
    BY <2>1, <2>2, <1>n, BoundedInduction
  <2> QED BY <2>3, <1>n DEF T
<1>8. Total(b) = t[2 * h] + OddTail(b) /\ OddTail(b) \in Nat /\ t[2 * h] \in Nat
  <2>1. CASE n % 2 = 0
    BY <2>1, <1>n, <1>1 DEF OddTail
  <2>2. CASE n % 2 = 1
    <3>1. n = 2 * h + 1 /\ n \in 1..n /\ 2 * h \in 0..n /\ n - 1 = 2 * h
      BY <2>2, <1>n
    <3>2. t[n] = t[n - 1] + Weighted(b, n)
      BY <3>1, <1>1
    <3>3. b[n] \in Nat
      BY <3>1
    <3>4. Weighted(b, n) = 256 * b[n] /\ OddTail(b) = b[n] * 256
      BY <2>2 DEF OddTail, Weighted
    <3>5. t[2 * h] \in Nat
      BY <3>1, <1>1
    <3>6. Total(b) = t[2 * h] + 256 * b[n]
      BY <3>1, <3>2, <3>4, <1>1
    <3> QED BY <3>3, <3>4, <3>5, <3>6
  <2> QED BY <2>1, <2>2, <1>n
<1> QED BY <1>5, <1>7, <1>8

\* Folding keeps a sum's class modulo 65535, and only zero folds to zero.
FoldedFcn == [n \in Nat |-> IF n = 0 THEN 0 ELSE ((n - 1) % 65535) + 1]

\* One step of Folded().
LEMMA FoldedStep ==
  ASSUME NEW n \in Nat, n \notin U16
  PROVE  FoldOnce(n) \in Nat /\ FoldOnce(n) < n /\ FoldedFcn[n] = FoldedFcn[FoldOnce(n)]
<1> DEFINE q == n \div 65536
           r == n % 65536
<1>0. n >= 65536
  BY SMT DEF U16
<1>1. q \in Nat /\ r \in 0..65535 /\ n = 65536 * q + r /\ q >= 1
  BY <1>0, SMT
<1>f. FoldOnce(n) = r + q
  BY DEF FoldOnce
<1> HIDE DEF q, r
<1>2. r + q \in Nat /\ r + q >= 1 /\ r + q < n
  BY <1>1, SMT
<1>3. n - 1 = 65535 * q + ((r + q) - 1)
  BY <1>1, SMT
<1>4. (n - 1) % 65535 = ((r + q) - 1) % 65535
  BY <1>1, <1>2, <1>3, SMT
<1>5. FoldedFcn[n] = FoldedFcn[r + q]
  BY <1>1, <1>2, <1>4, SMT DEF FoldedFcn
<1> QED BY <1>2, <1>5, <1>f

\* f is the function Folded() applies.
IsFolded(f) == f = [n \in Nat |-> IF n \in U16 THEN n ELSE f[FoldOnce(n)]]

\* Folded() is the closed form.
LEMMA FoldedIs ==
  ASSUME NEW m \in Nat
  PROVE  Folded(m) = FoldedFcn[m]
<1>1. IsFolded(FoldedFcn)
  <2>1. ASSUME NEW n \in Nat
        PROVE  FoldedFcn[n] = IF n \in U16 THEN n ELSE FoldedFcn[FoldOnce(n)]
    <3>1. CASE n \in U16
      <4>0. n <= 65535
        BY <3>1, SMT DEF U16
      <4>1. n # 0 => (n - 1) % 65535 = n - 1
        BY <4>0, SMT
      <4>2. FoldedFcn[n] = n
        BY <4>1, SMT DEF FoldedFcn
      <4> QED BY <3>1, <4>2
    <3>2. CASE n \notin U16
      BY <3>2, FoldedStep
    <3> QED BY <3>1, <3>2
  <2>2. FoldedFcn = [n \in Nat |-> FoldedFcn[n]]
    BY DEF FoldedFcn
  <2> QED BY <2>1, <2>2, Zenon DEF IsFolded
<1> DEFINE f == CHOOSE g : IsFolded(g)
<1>2. IsFolded(f)
  BY <1>1
<1>3. Folded(m) = f[m]
  BY Zenon DEF Folded, IsFolded
<1> HIDE DEF f
<1>4. \A n \in Nat : f[n] = IF n \in U16 THEN n ELSE f[FoldOnce(n)]
  BY <1>2, Zenon DEF IsFolded
<1>5. \A n \in Nat : FoldedFcn[n] = IF n \in U16 THEN n ELSE FoldedFcn[FoldOnce(n)]
  BY <1>1, Zenon DEF IsFolded
<1>6. ASSUME NEW T, T = {n \in Nat : f[n] # FoldedFcn[n]}, T # {} PROVE FALSE
  <2>1. PICK x \in T : \A y \in T : x <= y
    BY <1>6, LeastNat
  <2>2. x \in Nat /\ f[x] # FoldedFcn[x]
    BY <1>6, <2>1
  <2>3. x \notin U16
    BY <2>2, <1>4, <1>5
  <2> DEFINE y == FoldOnce(x)
  <2>4. y \in Nat /\ y < x
    BY <2>2, <2>3, FoldedStep
  <2>5. f[x] = f[y] /\ FoldedFcn[x] = FoldedFcn[y]
    BY <2>2, <2>3, <1>4, <1>5
  <2> HIDE DEF y
  <2>6. y \in T
    BY <2>2, <2>4, <2>5, <1>6
  <2> QED BY <2>1, <2>2, <2>4, <2>6
<1> QED BY <1>3, <1>6

\* Division by 65535.
LEMMA DivModIs ==
  ASSUME NEW n \in Nat
  PROVE  /\ n \div 65535 \in Nat /\ n % 65535 \in Nat /\ n % 65535 <= 65534
         /\ n = 65535 * (n \div 65535) + (n % 65535)
<1>1. n \div 65535 \in Nat
  BY SMT
<1>2. n % 65535 \in Nat /\ n % 65535 <= 65534
  BY SMT
<1>3. n = 65535 * (n \div 65535) + (n % 65535)
  BY SMT
<1> QED BY <1>1, <1>2, <1>3, SMT

\* With the checksum added the words come to a multiple of 65535
\* (internetChecksum()).
THEOREM ChecksumIs ==
  ASSUME NEW b \in Seq(Nat)
  PROVE  /\ internetChecksum(b) \in Nat /\ internetChecksum(b) <= 65535
         /\ (Total(b) + internetChecksum(b)) % 65535 = 0
         /\ (internetChecksum(b) = 0 => (Total(b) + 65535) % 65535 = 0)
<1> DEFINE s == Sum16(b)
           f == Folded(s)
<1>1. s \in Nat /\ s = Total(b)
  BY Sum16Is
<1>2. f = FoldedFcn[s]
  BY <1>1, FoldedIs
<1>c. internetChecksum(b) = (65535 - f) % 65536
  BY DEF internetChecksum
<1> HIDE DEF s, f
<1>3. s # 0 => f = ((s - 1) % 65535) + 1
  BY <1>1, <1>2, SMT DEF FoldedFcn
<1>z. s = 0 => f = 0
  BY <1>1, <1>2, SMT DEF FoldedFcn
<1> DEFINE r == (s - 1) % 65535
           q == (s - 1) \div 65535
<1>r. s # 0 => q \in Nat /\ r \in Nat /\ r <= 65534 /\ s - 1 = 65535 * q + r
  <2> SUFFICES ASSUME s # 0 PROVE q \in Nat /\ r \in Nat /\ r <= 65534 /\ s - 1 = 65535 * q + r
    OBVIOUS
  <2> DEFINE n == s - 1
  <2>1. n \in Nat
    BY <1>1, SMT
  <2> HIDE DEF n
  <2>2. n \div 65535 \in Nat /\ n % 65535 \in Nat /\ n % 65535 <= 65534
         /\ n = 65535 * (n \div 65535) + (n % 65535)
    BY <2>1, DivModIs
  <2> QED BY <2>2 DEF n
<1>s. s # 0 => f = r + 1
  BY <1>3
<1> HIDE DEF q, r
<1>f. f \in Nat /\ f <= 65535
  BY <1>1, <1>z, <1>r, <1>s, SMT
<1>4. internetChecksum(b) = 65535 - f
  BY <1>f, <1>c, SMT
<1>5. (s + (65535 - f)) % 65535 = 0
  <2>1. CASE s = 0
    BY <2>1, <1>z, SMT
  <2>2. CASE s # 0
    <3>1. q \in Nat /\ r \in Nat /\ s - 1 = 65535 * q + r /\ f = r + 1
      BY <2>2, <1>r, <1>s
    <3>2. s = 65535 * q + r + 1
      BY <3>1, <1>1, SMT
    <3>3. s + (65535 - f) = 65535 * (q + 1)
      BY <3>1, <3>2, SMT
    <3>4. (65535 * (q + 1)) % 65535 = 0
      BY <2>2, <1>r, SMT
    <3> QED BY <3>3, <3>4, SMT
  <2> QED BY <2>1, <2>2
<1>6. 65535 - f = 0 => (s + 65535) % 65535 = 0
  <2> SUFFICES ASSUME f = 65535 PROVE (s + 65535) % 65535 = 0
    BY <1>f, SMT
  <2>2. s % 65535 = 0
    BY <1>5, <1>1, SMT
  <2> QED BY <2>2, <1>1, SMT
<1>7. internetChecksum(b) \in Nat /\ internetChecksum(b) <= 65535
  BY <1>4, <1>f, SMT
<1> HIDE DEF s, f
<1>8. (Total(b) + internetChecksum(b)) % 65535 = 0
  BY <1>1, <1>4, <1>5, SMT
<1> QED BY <1>1, <1>4, <1>6, <1>7, <1>8, SMT
-----------------------------------------------------------------------------
(* The bytes of words.                                                     *)

\* f holds the concatenations of the first parts of s.
IsFlat(f, s) == f = [i \in 1..Len(s) |-> IF i = 1 THEN s[i] ELSE f[i - 1] \o s[i]]

\* FlattenSeq() is the last of the partial concatenations.
LEMMA FlattenIs ==
  ASSUME NEW s \in Seq(Seq(Nat)), Len(s) # 0
  PROVE  \E f \in [1..Len(s) -> Seq(Nat)] :
            /\ f[1] = s[1]
            /\ \A i \in 2..Len(s) : f[i] = f[i - 1] \o s[i]
            /\ FlattenSeq(s) = f[Len(s)]
<1> DEFINE n == Len(s)
           V == Seq(Nat)
           F == [x \in V \X Nat |-> IF x[2] \in 1..n THEN x[1] \o s[x[2]] ELSE x[1]]
<1>n. n \in Nat /\ n # 0 /\ 1 \in 1..n /\ \A i \in 1..n : s[i] \in V
  OBVIOUS
<1>v. \A v, w \in V : v \o w \in V
  OBVIOUS
<1> HIDE DEF V
<1>1. F \in [V \X Nat -> V]
  BY <1>n, <1>v
<1>F. \A v \in V, i \in Nat : F[<<v, i>>] = IF i \in 1..n THEN v \o s[i] ELSE v
  OBVIOUS
<1> HIDE DEF F
<1>2. PICK g \in [1..n -> V] : Recurs(g, 1, n, s[1], F)
  BY <1>n, <1>1, Recursion
<1>3. \A i \in 1..n : g[i] = IF i = 1 THEN s[i] ELSE g[i - 1] \o s[i]
  <2> SUFFICES ASSUME NEW i \in 1..n, i # 1
               PROVE  g[i] = g[i - 1] \o s[i]
    BY <1>2 DEF Recurs
  <2>1. g[i] = F[<<g[i - 1], i>>]
    BY <1>2 DEF Recurs
  <2>2. i - 1 \in 1..n /\ i \in Nat
    BY <1>n
  <2>3. g[i - 1] \in V
    BY <2>2, <1>2
  <2> QED BY <2>1, <2>2, <2>3, <1>F
<1>4. IsFlat(g, s)
  BY <1>3, <1>2, Zenon DEF IsFlat
<1> DEFINE f == CHOOSE h : IsFlat(h, s)
<1>5. IsFlat(f, s)
  BY <1>4
<1>6. FlattenSeq(s) = f[Len(s)]
  BY <1>n, Zenon DEF FlattenSeq, IsFlat
<1> HIDE DEF f
<1>7. \A i \in 1..n : f[i] = IF i = 1 THEN s[i] ELSE f[i - 1] \o s[i]
  BY <1>5, Zenon DEF IsFlat
<1>8. \A i \in 0..(n - 1) : i \in {j \in 0..(n - 1) : f[j + 1] \in V}
  <2> DEFINE T == {j \in 0..(n - 1) : f[j + 1] \in V}
  <2>1. 0 \in T
    BY <1>7, <1>n
  <2>2. \A i \in 0..((n - 1) - 1) : i \in T => i + 1 \in T
    <3> SUFFICES ASSUME NEW i \in 0..((n - 1) - 1), f[i + 1] \in V
                 PROVE  f[(i + 1) + 1] \in V
      <4>1. \A i \in 0..((n - 1) - 1) : i + 1 \in 0..(n - 1)
        BY <1>n
      <4> QED BY <4>1
    <3> DEFINE k == (i + 1) + 1
    <3>1. k \in 1..n /\ k # 1 /\ k - 1 = i + 1
      BY <1>n
    <3> HIDE DEF k
    <3>2. f[k] = f[k - 1] \o s[k]
      BY <3>1, <1>7
    <3>3. f[k] \in V
      BY <3>1, <3>2, <1>n, <1>v
    <3> QED BY <3>3 DEF k
  <2>3. n - 1 \in Nat
    BY <1>n
  <2> HIDE DEF T
  <2>4. \A i \in 0..(n - 1) : i \in T
    BY <2>1, <2>2, <2>3, BoundedInduction
  <2> QED BY <2>4 DEF T
<1>9. \A i \in 1..n : f[i] \in V
  <2> SUFFICES ASSUME NEW i \in 1..n PROVE f[i] \in V
    OBVIOUS
  <2>1. i - 1 \in 0..(n - 1) /\ (i - 1) + 1 = i
    BY <1>n
  <2> QED BY <2>1, <1>8
<1>10. f \in [1..n -> V]
  BY <1>9, <1>5 DEF IsFlat
<1>11. \A i \in 2..n : i \in 1..n /\ i # 1
  BY <1>n
<1>12. f[1] = s[1] /\ \A i \in 2..n : f[i] = f[i - 1] \o s[i]
  BY <1>7, <1>11, <1>n
<1> QED BY <1>6, <1>10, <1>12 DEF V

\* A list of lists of numbers flattens to a list of numbers.
LEMMA FlattenType ==
  ASSUME NEW s \in Seq(Seq(Nat))
  PROVE  FlattenSeq(s) \in Seq(Nat)
<1>1. CASE Len(s) = 0
  <2>1. s = <<>>
    BY <1>1
  <2> QED BY <2>1 DEF FlattenSeq
<1>2. CASE Len(s) # 0
  <2>1. PICK f \in [1..Len(s) -> Seq(Nat)] : FlattenSeq(s) = f[Len(s)]
    BY <1>2, FlattenIs
  <2>2. Len(s) \in 1..Len(s)
    BY <1>2
  <2> QED BY <2>1, <2>2
<1> QED BY <1>1, <1>2

\* A word is two bytes.
LEMMA WordIs ==
  ASSUME NEW w \in Nat
  PROVE  /\ Word(w) \in Seq(Nat) /\ Len(Word(w)) = 2
         /\ Word(w)[1] = w \div 256 /\ Word(w)[2] = w % 256
         /\ 256 * (w \div 256) + (w % 256) = w
         /\ w \div 256 \in Nat /\ w % 256 \in Nat
<1>1. w \div 256 \in Nat
  BY SMT
<1>2. w % 256 \in Nat
  BY SMT
<1>3. 256 * (w \div 256) + (w % 256) = w
  BY SMT
<1>4. Word(w) = <<w \div 256, w % 256>>
  BY DEF Word
<1> DEFINE a == w \div 256
           b == w % 256
<1> HIDE DEF a, b
<1>5. a \in Nat /\ b \in Nat /\ Word(w) = <<a, b>>
  BY <1>1, <1>2, <1>4 DEF a, b
<1>6. Word(w) \in Seq(Nat) /\ Len(Word(w)) = 2 /\ Word(w)[1] = a /\ Word(w)[2] = b
  BY <1>5
<1> QED BY <1>1, <1>2, <1>3, <1>6 DEF a, b

\* Concatenation.
LEMMA CatIs ==
  ASSUME NEW q \in Seq(Nat), NEW v \in Seq(Nat), NEW r, r = q \o v
  PROVE  /\ r \in Seq(Nat) /\ Len(r) = Len(q) + Len(v)
         /\ \A j \in 1..Len(q) : r[j] = q[j]
         /\ \A j \in 1..Len(v) : r[Len(q) + j] = v[j]
<1>1. r \in Seq(Nat) /\ Len(r) = Len(q) + Len(v)
  OBVIOUS
<1>2. \A j \in 1..Len(q) : r[j] = q[j]
  OBVIOUS
<1>3. ASSUME NEW j \in 1..Len(v) PROVE r[Len(q) + j] = v[j]
  <2>1. Len(q) \in Nat /\ Len(v) \in Nat
    OBVIOUS
  <2>2. Len(q) + j \in 1..(Len(q) + Len(v)) /\ ~(Len(q) + j <= Len(q))
        /\ (Len(q) + j) - Len(q) = j
    BY <2>1
  <2> QED BY <2>1, <2>2
<1> QED BY <1>1, <1>2, <1>3

\* q is the bytes of the first i words of ws.
WordsUpTo(q, ws, i) ==
    /\ q \in Seq(Nat) /\ Len(q) = 2 * i
    /\ \A j \in 1..i : q[2 * j - 1] = ws[j] \div 256 /\ q[2 * j] = ws[j] % 256

\* Another word follows.
LEMMA WordsGrow ==
  ASSUME NEW ws, NEW k \in Nat, NEW m, m = k + 1, NEW q, WordsUpTo(q, ws, k), ws[m] \in Nat,
         NEW r, r = q \o Word(ws[m])
  PROVE  WordsUpTo(r, ws, m)
<1> DEFINE v == Word(ws[m])
           a == ws[m] \div 256
           b == ws[m] % 256
<1>1. v \in Seq(Nat) /\ Len(v) = 2 /\ v[1] = a /\ v[2] = b
  BY WordIs
<1>2. q \in Seq(Nat) /\ Len(q) = 2 * k
  BY DEF WordsUpTo
<1> HIDE DEF v, a, b
<1>3. r = q \o v
  BY DEF v
<1>c. /\ r \in Seq(Nat) /\ Len(r) = Len(q) + Len(v)
      /\ \A j \in 1..Len(q) : r[j] = q[j]
      /\ \A j \in 1..Len(v) : r[Len(q) + j] = v[j]
  <2>1. q \in Seq(Nat) /\ v \in Seq(Nat) /\ r = q \o v
    BY <1>1, <1>2, <1>3
  <2> QED BY <2>1, CatIs
<1>4. r \in Seq(Nat) /\ Len(r) = 2 * k + 2
  BY <1>1, <1>2, <1>c
<1>5. \A j \in 1..(2 * k) : r[j] = q[j]
  BY <1>2, <1>c
<1>6. r[2 * k + 1] = a /\ r[2 * k + 2] = b
  <2>1. 1 \in 1..Len(v) /\ 2 \in 1..Len(v)
    BY <1>1
  <2>2. r[Len(q) + 1] = v[1] /\ r[Len(q) + 2] = v[2]
    BY <2>1, <1>c
  <2> QED BY <2>2, <1>1, <1>2
<1>7. Len(r) = 2 * m /\ m \in Nat
  BY <1>4
<1>8. ASSUME NEW j \in 1..m
      PROVE  r[2 * j - 1] = ws[j] \div 256 /\ r[2 * j] = ws[j] % 256
  <2>1. CASE j = m
    <3>1. 2 * j - 1 = 2 * k + 1 /\ 2 * j = 2 * k + 2
      BY <2>1
    <3> QED BY <3>1, <2>1, <1>6 DEF a, b
  <2>2. CASE j # m
    <3>1. j \in 1..k /\ 2 * j - 1 \in 1..(2 * k) /\ 2 * j \in 1..(2 * k)
      BY <2>2
    <3>2. q[2 * j - 1] = ws[j] \div 256 /\ q[2 * j] = ws[j] % 256
      BY <3>1 DEF WordsUpTo
    <3> QED BY <3>1, <3>2, <1>5
  <2> QED BY <2>1, <2>2
<1> QED BY <1>4, <1>7, <1>8 DEF WordsUpTo

\* The bytes of a list of words.
LEMMA WordsIs ==
  ASSUME NEW ws \in Seq(Nat)
  PROVE  /\ Words(ws) \in Seq(Nat) /\ Len(Words(ws)) = 2 * Len(ws)
         /\ \A i \in 1..Len(ws) : /\ Words(ws)[2 * i - 1] = ws[i] \div 256
                                  /\ Words(ws)[2 * i] = ws[i] % 256
<1> DEFINE n == Len(ws)
           s == [i \in 1..n |-> Word(ws[i])]
<1>n. n \in Nat /\ \A i \in 1..n : ws[i] \in Nat
  OBVIOUS
<1>w. \A i \in 1..n : s[i] = Word(ws[i]) /\ s[i] \in Seq(Nat)
  BY <1>n, WordIs
<1>1. s \in Seq(Seq(Nat)) /\ Len(s) = n
  BY <1>w, <1>n, IsASeq
<1>2. Words(ws) = FlattenSeq(s)
  BY DEF Words
<1> HIDE DEF s
<1>3. CASE n = 0
  <2>1. s = <<>> /\ FlattenSeq(s) = s
    BY <1>1, <1>3 DEF FlattenSeq
  <2> QED BY <2>1, <1>2, <1>3
<1>4. CASE n # 0
  <2>1. PICK f \in [1..n -> Seq(Nat)] :
            /\ f[1] = s[1]
            /\ \A i \in 2..n : f[i] = f[i - 1] \o s[i]
            /\ FlattenSeq(s) = f[n]
    BY <1>1, <1>4, FlattenIs
  <2> DEFINE T == {i \in 0..(n - 1) : WordsUpTo(f[i + 1], ws, i + 1)}
  <2>2. 0 \in T
    <3>1. f[1] = Word(ws[1]) /\ ws[1] \in Nat /\ 0 + 1 = 1
      BY <2>1, <1>w, <1>n, <1>4
    <3>2. f[1] = <<>> \o Word(ws[1])
      BY <3>1, WordIs
    <3>3. WordsUpTo(<<>>, ws, 0)
      BY DEF WordsUpTo
    <3> DEFINE o == 0
               e == <<>>
    <3>o. o \in Nat /\ 1 = o + 1 /\ WordsUpTo(e, ws, o) /\ f[1] = e \o Word(ws[1])
      BY <3>2, <3>3
    <3> HIDE DEF o, e
    <3>4. WordsUpTo(f[1], ws, 1)
      BY <3>1, <3>o, WordsGrow
    <3> QED BY <3>1, <3>4, <1>n, <1>4
  <2>3. ASSUME NEW i \in 0..((n - 1) - 1), i \in T PROVE i + 1 \in T
    <3> DEFINE k == i + 1
               m == k + 1
    <3>1. k \in Nat /\ k \in 1..n /\ m \in 2..n /\ m \in 1..n /\ m - 1 = k /\ k \in 0..(n - 1)
      BY <1>n
    <3>2. WordsUpTo(f[k], ws, k)
      BY <2>3
    <3>3. f[m] = f[k] \o Word(ws[m]) /\ ws[m] \in Nat
      BY <3>1, <2>1, <1>w, <1>n
    <3>m. m = k + 1 /\ k = i + 1
      OBVIOUS
    <3> HIDE DEF k, m
    <3>4. WordsUpTo(f[m], ws, m)
      BY <3>1, <3>2, <3>3, <3>m, WordsGrow
    <3> QED BY <3>1, <3>4, <3>m
  <2>4. n - 1 \in Nat
    BY <1>n, <1>4
  <2> HIDE DEF T
  <2>5. \A i \in 0..(n - 1) : i \in T
    BY <2>2, <2>3, <2>4, BoundedInduction
  <2>6. n - 1 \in 0..(n - 1) /\ (n - 1) + 1 = n
    BY <2>4, <1>n
  <2>7. WordsUpTo(f[n], ws, n)
    BY <2>5, <2>6 DEF T
  <2> QED BY <2>7, <2>1, <1>2 DEF WordsUpTo
<1> QED BY <1>3, <1>4

\* Words() has two bytes for each word, the high one first.
LEMMA WordsAre ==
  ASSUME NEW ws \in Seq(Nat)
  PROVE  WordsUpTo(Words(ws), ws, Len(ws))
BY WordsIs DEF WordsUpTo
-----------------------------------------------------------------------------
(* A checksum put into its word.                                           *)

\* What the sum of the first i bytes gains.
Gain(i, j, w) == IF i < 2 * j - 1 THEN 0 ELSE IF i = 2 * j - 1 THEN 256 * (w \div 256) ELSE w

\* b is a with w in its word j, which was zero.
PutIn(a, b, j, w) ==
    /\ Len(a) = Len(b) /\ 1 <= j /\ 2 * j <= Len(a)
    /\ a[2 * j - 1] = 0 /\ a[2 * j] = 0
    /\ b[2 * j - 1] = w \div 256 /\ b[2 * j] = w % 256
    /\ \A i \in 1..Len(a) : i # 2 * j - 1 /\ i # 2 * j => b[i] = a[i]

\* One more byte adds the same to both sums, but for the bytes of the word.
LEMMA PutWeighs ==
  ASSUME NEW a \in Seq(Nat), NEW b \in Seq(Nat), NEW j \in Nat, NEW w \in Nat, PutIn(a, b, j, w),
         NEW i \in 0..(Len(a) - 1), NEW x \in Nat, NEW y \in Nat, y = x + Gain(i, j, w)
  PROVE  y + Weighted(b, i + 1) = (x + Weighted(a, i + 1)) + Gain(i + 1, j, w)
<1> DEFINE k == i + 1
           h == w \div 256
           r == w % 256
<1>k. k \in 1..Len(a) /\ k = i + 1 /\ i \in Nat /\ k \in Nat
  OBVIOUS
<1>w. h \in Nat /\ r \in Nat /\ 256 * h + r = w
  BY WordIs
<1>l. Len(a) = Len(b)
  BY DEF PutIn
<1>ab. a[k] \in Nat /\ b[k] \in Nat
  <2>1. k \in 1..Len(b)
    BY <1>k, <1>l
  <2> QED BY <1>k, <2>1, ElementOfSeq
<1>g. Gain(i, j, w) = (IF i < 2 * j - 1 THEN 0 ELSE IF i = 2 * j - 1 THEN 256 * h ELSE w)
      /\ Gain(k, j, w) = (IF k < 2 * j - 1 THEN 0 ELSE IF k = 2 * j - 1 THEN 256 * h ELSE w)
  BY DEF Gain
<1>p. /\ k = 2 * j - 1 => a[k] = 0 /\ b[k] = h
      /\ k = 2 * j => a[k] = 0 /\ b[k] = r
      /\ k # 2 * j - 1 /\ k # 2 * j => b[k] = a[k]
  BY <1>k DEF PutIn
<1> HIDE DEF k, h, r
<1> SUFFICES y + Weighted(b, k) = (x + Weighted(a, k)) + Gain(k, j, w)
  BY DEF k
<1>1. CASE k = 2 * j - 1
  <2>1. k % 2 = 1 /\ Gain(i, j, w) = 0 /\ Gain(k, j, w) = 256 * h
    BY <1>1, <1>k, <1>g
  <2>2. Weighted(b, k) = 256 * h /\ Weighted(a, k) = 256 * 0
    BY <2>1, <1>1, <1>p DEF Weighted
  <2> QED BY <2>1, <2>2, <1>w
<1>2. CASE k = 2 * j
  <2>1. k % 2 = 0 /\ Gain(i, j, w) = 256 * h /\ Gain(k, j, w) = w
    BY <1>2, <1>k, <1>g
  <2>2. Weighted(b, k) = r /\ Weighted(a, k) = 0
    BY <2>1, <1>2, <1>p DEF Weighted
  <2> QED BY <2>1, <2>2, <1>w
<1>3. CASE k # 2 * j - 1 /\ k # 2 * j
  <2>1. Gain(i, j, w) = Gain(k, j, w) /\ Gain(k, j, w) \in Nat
    BY <1>3, <1>k, <1>g, <1>w
  <2>2. Weighted(b, k) = Weighted(a, k) /\ Weighted(a, k) \in Nat
    <3>1. b[k] = a[k]
      BY <1>3, <1>p
    <3>2. 256 * a[k] \in Nat
      <4> DEFINE z == a[k]
      <4>1. z \in Nat
        BY <1>ab
      <4> HIDE DEF z
      <4>2. 256 * z \in Nat
        BY <4>1
      <4> QED BY <4>2 DEF z
    <3> QED BY <3>1, <3>2, <1>ab DEF Weighted
  <2> QED BY <2>1, <2>2
<1> QED BY <1>1, <1>2, <1>3

\* The total grows by what is put in.
LEMMA PutTotal ==
  ASSUME NEW a \in Seq(Nat), NEW b \in Seq(Nat), NEW j \in Nat, NEW w \in Nat, PutIn(a, b, j, w)
  PROVE  Total(b) = Total(a) + w
<1> DEFINE n == Len(a)
<1>n. n \in Nat /\ Len(b) = n /\ 1 <= j /\ 2 * j <= n
  BY DEF PutIn
<1>1. PICK t \in [0..n -> Nat] :
            /\ t[0] = 0
            /\ \A i \in 1..n : t[i] = t[i - 1] + Weighted(a, i)
            /\ Total(a) = t[n]
  BY TotalIs
<1>2. PICK u \in [0..n -> Nat] :
            /\ u[0] = 0
            /\ \A i \in 1..n : u[i] = u[i - 1] + Weighted(b, i)
            /\ Total(b) = u[n]
  BY TotalIs, <1>n
<1> DEFINE T == {i \in 0..n : u[i] = t[i] + Gain(i, j, w)}
<1>3. 0 \in T
  <2>1. Gain(0, j, w) = 0
    BY <1>n DEF Gain
  <2> QED BY <2>1, <1>1, <1>2, <1>n
<1>4. ASSUME NEW i \in 0..(n - 1), i \in T PROVE i + 1 \in T
  <2>1. i + 1 \in 1..n /\ i + 1 \in 0..n /\ (i + 1) - 1 = i /\ i \in 0..n
    BY <1>n
  <2>2. t[i] \in Nat /\ u[i] \in Nat
    BY <2>1
  <2>3. t[i + 1] = t[i] + Weighted(a, i + 1)
    BY <2>1, <1>1
  <2>4. u[i + 1] = u[i] + Weighted(b, i + 1)
    BY <2>1, <1>2
  <2>5. u[i] = t[i] + Gain(i, j, w)
    BY <1>4
  <2>6. u[i] + Weighted(b, i + 1) = (t[i] + Weighted(a, i + 1)) + Gain(i + 1, j, w)
    BY <2>2, <2>5, PutWeighs
  <2>7. u[i + 1] = t[i + 1] + Gain(i + 1, j, w)
    BY <2>3, <2>4, <2>6
  <2> QED BY <2>1, <2>7
<1> HIDE DEF T
<1>5. \A i \in 0..n : i \in T
  BY <1>3, <1>4, <1>n, BoundedInduction
<1>6. u[n] = t[n] + Gain(n, j, w)
  BY <1>5, <1>n DEF T
<1>7. Gain(n, j, w) = w
  BY <1>n DEF Gain
<1> QED BY <1>1, <1>2, <1>6, <1>7

\* The word lists ws, which has a zero at j, and vs are otherwise the same.
FilledIn(ws, vs, j) ==
    /\ j \in 1..Len(ws) /\ Len(vs) = Len(ws) /\ ws[j] = 0
    /\ \A i \in 1..Len(ws) : i # j => vs[i] = ws[i]

\* A header of words, and data.
Datagram(ws, d) == Words(ws) \o d

\* The same for a word of a header that is followed by data.
LEMMA PutHeader ==
  ASSUME NEW ws \in Seq(Nat), NEW vs \in Seq(Nat), NEW d \in Seq(Nat), NEW j,
         FilledIn(ws, vs, j), NEW a, a = Datagram(ws, d), NEW b, b = Datagram(vs, d)
  PROVE  a \in Seq(Nat) /\ b \in Seq(Nat) /\ Total(b) = Total(a) + vs[j]
<1> DEFINE n == Len(ws)
           x == Words(ws)
           y == Words(vs)
           w == vs[j]
<1>n. n \in Nat /\ j \in Nat /\ w \in Nat /\ 1 <= j /\ j <= n
  BY DEF FilledIn
<1>m. n = Len(vs) /\ ws[j] = 0 /\ \A i \in 1..n : i # j => vs[i] = ws[i]
  BY DEF FilledIn
<1>1. WordsUpTo(x, ws, n)
  BY WordsAre
<1>2. WordsUpTo(y, vs, n)
  <2>1. WordsUpTo(y, vs, Len(vs))
    BY WordsAre
  <2> QED BY <2>1, <1>m
<1>3. a = x \o d /\ b = y \o d
  BY DEF Datagram
<1> HIDE DEF x, y, n, w
<1>x. x \in Seq(Nat) /\ Len(x) = 2 * n
  BY <1>1 DEF WordsUpTo
<1>y. y \in Seq(Nat) /\ Len(y) = 2 * n
  BY <1>2 DEF WordsUpTo
<1>4. /\ a \in Seq(Nat) /\ Len(a) = Len(x) + Len(d)
      /\ \A i \in 1..Len(x) : a[i] = x[i]
      /\ \A i \in 1..Len(d) : a[Len(x) + i] = d[i]
  <2>1. a = x \o d /\ x \in Seq(Nat) /\ d \in Seq(Nat)
    BY <1>x, <1>3
  <2> QED BY ONLY <2>1, CatIs
<1>5. /\ b \in Seq(Nat) /\ Len(b) = Len(y) + Len(d)
      /\ \A i \in 1..Len(y) : b[i] = y[i]
      /\ \A i \in 1..Len(d) : b[Len(y) + i] = d[i]
  <2>1. b = y \o d /\ y \in Seq(Nat) /\ d \in Seq(Nat)
    BY <1>y, <1>3
  <2> QED BY ONLY <2>1, CatIs
<1>d. Len(d) \in Nat
  OBVIOUS
<1>6. PutIn(a, b, j, w)
  <2>1. Len(a) = Len(b) /\ 2 * j <= Len(a)
    BY <1>x, <1>y, <1>4, <1>5, <1>n, <1>d
  <2>j. 2 * j - 1 \in 1..Len(x) /\ 2 * j \in 1..Len(x) /\ Len(y) = Len(x)
    BY <1>x, <1>y, <1>n
  <2>i. j \in 1..n /\ w = vs[j]
    BY <1>n DEF w
  <2>2. a[2 * j - 1] = ws[j] \div 256 /\ a[2 * j] = ws[j] % 256
    <3>1. x[2 * j - 1] = ws[j] \div 256 /\ x[2 * j] = ws[j] % 256
      BY <2>i, <1>1 DEF WordsUpTo
    <3> QED BY <2>j, <3>1, <1>4
  <2>3. b[2 * j - 1] = w \div 256 /\ b[2 * j] = w % 256
    <3>1. y[2 * j - 1] = w \div 256 /\ y[2 * j] = w % 256
      BY <2>i, <1>2 DEF WordsUpTo
    <3> QED BY <2>j, <3>1, <1>5
  <2>4. 0 \div 256 = 0 /\ 0 % 256 = 0
    BY SMT
  <2>5. ASSUME NEW i \in 1..Len(a), i # 2 * j - 1, i # 2 * j PROVE b[i] = a[i]
    <3>1. CASE i > 2 * n
      <4> DEFINE k == i - 2 * n
      <4>1. k \in 1..Len(d) /\ Len(x) + k = i /\ Len(y) + k = i
        BY <3>1, <1>x, <1>y, <1>4, <1>n, <1>d
      <4> HIDE DEF k
      <4>2. a[Len(x) + k] = d[k] /\ b[Len(y) + k] = d[k]
        BY <4>1, <1>4, <1>5
      <4> QED BY <4>1, <4>2
    <3>2. CASE i <= 2 * n
      <4> DEFINE h == (i + 1) \div 2
      <4>1. h \in Nat /\ (i = 2 * h \/ i = 2 * h - 1)
        <5>1. i \in Nat /\ i + 1 \in Nat
          BY <1>d, <1>n, <1>x, <1>4
        <5>2. h \in Nat /\ i + 1 = 2 * h + ((i + 1) % 2) /\ (i + 1) % 2 \in {0, 1}
          BY <5>1, HalfIs
        <5> HIDE DEF h
        <5> QED BY <5>1, <5>2
      <4>h. i \in Nat /\ i >= 1
        BY <1>d, <1>n, <1>x, <1>4
      <4> HIDE DEF h
      <4>2. h \in 1..n /\ h # j
        BY <4>1, <4>h, <3>2, <2>5, <1>n
      <4>3. vs[h] = ws[h]
        BY <4>2, <1>m
      <4>4. x[2 * h - 1] = y[2 * h - 1] /\ x[2 * h] = y[2 * h]
        <5>1. x[2 * h - 1] = ws[h] \div 256 /\ x[2 * h] = ws[h] % 256
          BY <4>2, <1>1 DEF WordsUpTo
        <5>2. y[2 * h - 1] = vs[h] \div 256 /\ y[2 * h] = vs[h] % 256
          BY <4>2, <1>2 DEF WordsUpTo
        <5> QED BY <5>1, <5>2, <4>3
      <4>5. i \in 1..Len(x) /\ i \in 1..Len(y)
        BY <3>2, <4>h, <1>x, <1>y
      <4>6. x[i] = y[i]
        BY <4>1, <4>4
      <4> QED BY <4>5, <4>6, <1>4, <1>5
    <3>3. i \in Int /\ 2 * n \in Int
      BY <1>n, <1>x, <1>4, <1>d
    <3>4. i > 2 * n \/ i <= 2 * n
      BY <3>3
    <3> QED BY <3>1, <3>2, <3>4, Zenon
  <2> QED BY <2>1, <2>2, <2>3, <2>4, <2>5, <1>n, <1>m DEF PutIn
<1>7. Total(b) = Total(a) + w
  <2>1. a \in Seq(Nat) /\ b \in Seq(Nat) /\ j \in Nat /\ w \in Nat /\ PutIn(a, b, j, w)
    BY <1>4, <1>5, <1>6, <1>n
  <2> QED BY ONLY <2>1, PutTotal
<1> QED BY <1>4, <1>5, <1>7 DEF w
-----------------------------------------------------------------------------
(* Packets, and what the receiver accepts.                                 *)

\* Packets with numbers of any size in their fields: what is computed is in
\* this set before it is known to fit.
WideQuery == [id : Nat, qr : Nat, host : Seq(Nat), qtype : Nat, addrs : Seq(Seq(Nat))]
Wide == [v6 : BOOLEAN, proto : STRING, src : Nat, dst : Nat, sport : Nat, dport : Nat,
         seq : Nat \X Nat, dns : {<<>>} \cup WideQuery, data : Seq(Nat), len : Nat,
         sum : Nat, ipsum : Nat]

\* A packet of an application is one.
LEMMA WideOf ==
  ASSUME NEW p \in Packets
  PROVE  p \in Wide /\ p \in Packet /\ (p.proto # "udp" => p.dns = <<>>)
<1>1. p \in Packet /\ (p.proto # "udp" => p.dns = <<>>)
  BY PacketsAssumption
<1>2. U16 \subseteq Nat /\ 0..255 \subseteq Nat
  BY DEF U16
<1>3. \A s \in Seq(0..255) : s \in Seq(Nat)
  BY <1>2, SeqMonotonic
<1>4. U16 \X U16 \subseteq Nat \X Nat
  BY <1>2
<1>5. DnsQuery \subseteq WideQuery
  <2> SUFFICES ASSUME NEW d \in DnsQuery PROVE d \in WideQuery
    OBVIOUS
  <2>1. d.host \in Seq(Nat)
    BY <1>3, PacketsAssumption DEF DnsQuery
  <2>2. d.addrs \in Seq(Seq(Nat))
    <3>1. <<>> \in Seq(Seq(Nat))
      OBVIOUS
    <3>2. d.addrs \in {<<>>}
      BY DEF DnsQuery
    <3> QED BY <3>1, <3>2
  <2>3. d.id \in Nat /\ d.qr \in Nat
    BY <1>2 DEF DnsQuery
  <2> QED BY <2>1, <2>2, <2>3 DEF DnsQuery, WideQuery
<1> HIDE DEF U16
<1>6. p \in Wide
  <2>1. p.dns \in {<<>>} \cup WideQuery
    BY <1>1, <1>5 DEF Packet
  <2>2. p.data \in Seq(Nat)
    BY <1>1, <1>3 DEF Packet
  <2>3. p.seq \in Nat \X Nat
    BY <1>1, <1>4 DEF Packet
  <2> QED BY <1>1, <1>2, <2>1, <2>2, <2>3 DEF Packet, Wide
<1> QED BY <1>1, <1>6

\* The payload is bytes.
LEMMA DataIs ==
  ASSUME NEW p \in Wide
  PROVE  Data(p) \in Seq(Nat) /\ TransportLen(p) \in Nat /\ HeaderLen(p) \in Nat
<1>1. Data(p) \in Seq(Nat)
  <2>1. CASE p.dns = <<>>
    BY <2>1 DEF Data, Wide
  <2>2. CASE p.dns # <<>>
    <3>1. p.dns \in WideQuery
      BY <2>2 DEF Wide
    <3> DEFINE a == Word(p.dns.id)
               b == <<p.dns.qr, Len(p.dns.addrs), p.dns.qtype>>
               c == p.dns.host
               d == FlattenSeq(p.dns.addrs)
    <3>2. a \in Seq(Nat)
      BY <3>1, WordIs DEF WideQuery
    <3>3. b \in Seq(Nat)
      BY <3>1 DEF WideQuery
    <3>4. c \in Seq(Nat) /\ d \in Seq(Nat)
      BY <3>1, FlattenType DEF WideQuery
    <3>5. Data(p) = a \o b \o c \o d
      BY <2>2 DEF Data
    <3> HIDE DEF a, b, c, d
    <3> QED BY <3>2, <3>3, <3>4, <3>5
  <2> QED BY <2>1, <2>2
<1>2. HeaderLen(p) \in Nat
  BY DEF HeaderLen
<1> QED BY <1>1, <1>2 DEF TransportLen

\* The words of a segment's pseudo-header and header.
\* The words before and after the checksum of a segment.
Header(p, sum) == <<p.src, p.dst, ProtoNo(p), TransportLen(p), p.sport, p.dport, sum>>
Trailer(p) == IF p.proto = "tcp" THEN p.seq ELSE <<TransportLen(p)>>

\* The checksum counts as one word of the segment.
LEMMA SegmentIs ==
  ASSUME NEW p \in Wide, NEW w \in Nat
  PROVE  /\ Segment(p, 0) \in Seq(Nat)
         /\ Total(Segment(p, w)) = Total(Segment(p, 0)) + w
<1> DEFINE d == Data(p)
           e == Trailer(p)
           h == Header(p, 0)
           g == Header(p, w)
           ws == h \o e
           vs == g \o e
<1>1. d \in Seq(Nat) /\ TransportLen(p) \in Nat
  BY DataIs
<1>n. ProtoNo(p) \in Nat
  BY DEF ProtoNo
<1>2. e \in Seq(Nat)
  <2>1. p.seq \in Seq(Nat)
    <3>1. p.seq \in Nat \X Nat
      BY DEF Wide
    <3>2. PICK x \in Nat, y \in Nat : p.seq = <<x, y>>
      BY <3>1
    <3> QED BY <3>2
  <2>2. <<TransportLen(p)>> \in Seq(Nat)
    BY <1>1
  <2> QED BY <2>1, <2>2 DEF Trailer
<1>3. /\ h \in Seq(Nat) /\ Len(h) = 7 /\ h[7] = 0
      /\ g \in Seq(Nat) /\ Len(g) = 7 /\ g[7] = w
      /\ \A i \in 1..7 : i # 7 => g[i] = h[i]
  <2>1. p.src \in Nat /\ p.dst \in Nat /\ p.sport \in Nat /\ p.dport \in Nat
    BY DEF Wide
  <2> DEFINE t == TransportLen(p)
             k == ProtoNo(p)
  <2>2. t \in Nat /\ k \in Nat
    BY <1>1, <1>n
  <2> HIDE DEF t, k
  <2>3. h = <<p.src, p.dst, k, t, p.sport, p.dport, 0>>
    BY DEF Header, t, k
  <2>4. g = <<p.src, p.dst, k, t, p.sport, p.dport, w>>
    BY DEF Header, t, k
  <2> HIDE DEF h, g
  <2>5. h \in Seq(Nat) /\ Len(h) = 7 /\ h[7] = 0
    BY <2>1, <2>2, <2>3
  <2>6. g \in Seq(Nat) /\ Len(g) = 7 /\ g[7] = w
    BY <2>1, <2>2, <2>4
  <2>7. g[1] = h[1] /\ g[2] = h[2] /\ g[3] = h[3] /\ g[4] = h[4] /\ g[5] = h[5] /\ g[6] = h[6]
    BY <2>3, <2>4
  <2>8. \A i \in 1..7 : i # 7 => i = 1 \/ i = 2 \/ i = 3 \/ i = 4 \/ i = 5 \/ i = 6
    OBVIOUS
  <2>9. \A i \in 1..7 : i # 7 => g[i] = h[i]
    BY <2>7, <2>8
  <2> QED BY <2>5, <2>6, <2>9
<1>4. Segment(p, 0) = Words(ws) \o d
  BY DEF Segment, Header, Trailer
<1>5. Segment(p, w) = Words(vs) \o d
  BY DEF Segment, Header, Trailer
<1> HIDE DEF d, e, h, g
<1>6. /\ ws \in Seq(Nat) /\ Len(ws) = Len(h) + Len(e)
      /\ \A i \in 1..Len(h) : ws[i] = h[i]
      /\ \A i \in 1..Len(e) : ws[Len(h) + i] = e[i]
  <2>1. ws = h \o e /\ h \in Seq(Nat) /\ e \in Seq(Nat)
    BY <1>2, <1>3
  <2> HIDE DEF ws
  <2> QED BY ONLY <2>1, CatIs
<1>7. /\ vs \in Seq(Nat) /\ Len(vs) = Len(g) + Len(e)
      /\ \A i \in 1..Len(g) : vs[i] = g[i]
      /\ \A i \in 1..Len(e) : vs[Len(g) + i] = e[i]
  <2>1. vs = g \o e /\ g \in Seq(Nat) /\ e \in Seq(Nat)
    BY <1>2, <1>3
  <2> HIDE DEF vs
  <2> QED BY ONLY <2>1, CatIs
<1> HIDE DEF ws, vs
<1>e. Len(e) \in Nat
  BY <1>2
<1>8. 7 \in 1..Len(ws) /\ Len(vs) = Len(ws) /\ ws[7] = 0 /\ vs[7] = w
  <2>1. Len(ws) = 7 + Len(e) /\ Len(vs) = 7 + Len(e)
    BY <1>3, <1>6, <1>7
  <2>2. 7 \in 1..7 /\ 7 \in 1..Len(ws)
    BY <2>1, <1>e
  <2>3. ws[7] = h[7] /\ vs[7] = g[7]
    BY <2>2, <1>3, <1>6, <1>7
  <2> QED BY <2>1, <2>2, <2>3, <1>3
<1>9. ASSUME NEW i \in 1..Len(ws), i # 7 PROVE vs[i] = ws[i]
  <2>1. CASE i <= 7
    <3>1. i \in 1..7
      BY <2>1, <1>3, <1>6, <1>e
    <3> QED BY <3>1, <1>9, <1>3, <1>6, <1>7
  <2>2. CASE ~(i <= 7)
    <3> DEFINE k == i - 7
    <3>1. k \in 1..Len(e) /\ Len(h) + k = i /\ Len(g) + k = i
      BY <2>2, <1>3, <1>6, <1>e
    <3> HIDE DEF k
    <3>2. ws[Len(h) + k] = e[k] /\ vs[Len(g) + k] = e[k]
      BY <3>1, <1>6, <1>7
    <3> QED BY <3>1, <3>2
  <2> QED BY <2>1, <2>2
<1> DEFINE a == Segment(p, 0)
           b == Segment(p, w)
           j == 7
<1>10. /\ ws \in Seq(Nat) /\ vs \in Seq(Nat) /\ d \in Seq(Nat) /\ FilledIn(ws, vs, j)
       /\ a = Datagram(ws, d) /\ b = Datagram(vs, d)
  BY <1>1, <1>4, <1>5, <1>6, <1>7, <1>8, <1>9 DEF FilledIn, Datagram
<1>w. vs[j] = w
  BY <1>8
<1> HIDE DEF a, b, j
<1>11. a \in Seq(Nat) /\ b \in Seq(Nat) /\ Total(b) = Total(a) + vs[j]
  BY ONLY <1>10, PutHeader
<1> QED BY <1>w, <1>11 DEF a, b

\* The same for the header of an IPv4 packet.
LEMMA IpHeaderIs ==
  ASSUME NEW p \in Wide, NEW w \in Nat
  PROVE  /\ IpHeader(p, 0) \in Seq(Nat)
         /\ Total(IpHeader(p, w)) = Total(IpHeader(p, 0)) + w
<1> DEFINE k == ProtoNo(p)
           ws == <<p.len, p.src, p.dst, k, 0>>
           vs == <<p.len, p.src, p.dst, k, w>>
           d == <<>>
           j == 5
           a == IpHeader(p, 0)
           b == IpHeader(p, w)
<1>1. p.src \in Nat /\ p.dst \in Nat /\ p.len \in Nat
  BY DEF Wide
<1>2. k \in Nat
  BY DEF ProtoNo
<1> HIDE DEF k
<1>3. ws \in Seq(Nat) /\ vs \in Seq(Nat) /\ d \in Seq(Nat) /\ vs[j] = w
  BY <1>1, <1>2
<1>4. FilledIn(ws, vs, j)
  <2>1. Len(ws) = 5 /\ Len(vs) = 5 /\ ws[5] = 0
    OBVIOUS
  <2>2. vs[1] = ws[1] /\ vs[2] = ws[2] /\ vs[3] = ws[3] /\ vs[4] = ws[4]
    OBVIOUS
  <2>3. \A i \in 1..5 : i # 5 => i = 1 \/ i = 2 \/ i = 3 \/ i = 4
    OBVIOUS
  <2> HIDE DEF ws, vs
  <2>4. \A i \in 1..Len(ws) : i # 5 => vs[i] = ws[i]
    BY <2>1, <2>2, <2>3
  <2> QED BY <2>1, <2>4 DEF FilledIn
<1>5. a = Words(ws) /\ b = Words(vs)
  BY DEF IpHeader, k
<1> HIDE DEF ws, vs
<1>6. Words(ws) \in Seq(Nat) /\ Words(vs) \in Seq(Nat)
  BY <1>3, WordsIs
<1>7. a = Datagram(ws, d) /\ b = Datagram(vs, d)
  BY <1>5, <1>6 DEF Datagram
<1> HIDE DEF a, b, d, j
<1>8. a \in Seq(Nat) /\ b \in Seq(Nat) /\ Total(b) = Total(a) + vs[j]
  BY ONLY <1>3, <1>4, <1>7, PutHeader
<1> QED BY <1>3, <1>8 DEF a, b

\* q is p but for its length and its checksums.
SameBut(p, q) ==
    /\ q.v6 = p.v6 /\ q.proto = p.proto /\ q.src = p.src /\ q.dst = p.dst
    /\ q.sport = p.sport /\ q.dport = p.dport /\ q.seq = p.seq /\ q.dns = p.dns
    /\ q.data = p.data

\* Packets that differ in length and checksums only have the same segment.
LEMMA SameSegment ==
  ASSUME NEW p, NEW q, SameBut(p, q)
  PROVE  /\ TransportLen(q) = TransportLen(p) /\ \A w : Segment(q, w) = Segment(p, w)
         /\ ProtoNo(q) = ProtoNo(p)
<1>1. Data(q) = Data(p) /\ HeaderLen(q) = HeaderLen(p) /\ ProtoNo(q) = ProtoNo(p)
  BY DEF SameBut, Data, HeaderLen, ProtoNo
<1>2. TransportLen(q) = TransportLen(p)
  BY <1>1 DEF TransportLen
<1> QED BY <1>1, <1>2 DEF SameBut, Segment

\* The length, and the checksum of the IP header.
HeaderSound(q) ==
    /\ q.v6 \/ Total(IpHeader(q, q.ipsum)) % 65535 = 0
    /\ q.len = TransportLen(q) + IF q.v6 THEN 0 ELSE 20

\* SetLength() makes them right and changes nothing else.
LEMMA SetLengthIs ==
  ASSUME NEW p \in Wide, NEW q, q = SetLength(p)
  PROVE  q \in Wide /\ SameBut(p, q) /\ HeaderSound(q)
<1> DEFINE t == TransportLen(p)
<1>t. t \in Nat /\ 20 + t \in Nat /\ 20 + t = t + 20 /\ t + 0 = t
  BY DataIs
<1>v. p.v6 \in BOOLEAN
  BY DEF Wide
<1>1. CASE p.v6
  <2>1. q = [p EXCEPT !.len = t]
    BY <1>1 DEF SetLength
  <2> HIDE DEF t
  <2>2. q \in Wide /\ SameBut(p, q) /\ q.len = t
    BY <2>1, <1>t DEF Wide, SameBut
  <2>3. q.v6 /\ TransportLen(q) = t
    BY <2>2, <1>1, SameSegment DEF SameBut, t
  <2> QED BY <2>2, <2>3, <1>t DEF HeaderSound
<1>2. CASE ~p.v6
  <2> DEFINE u == 20 + t
             r == [p EXCEPT !.len = u]
             c == internetChecksum(IpHeader(r, 0))
  <2>1. q = [r EXCEPT !.ipsum = c]
    BY <1>2 DEF SetLength
  <2>u. u \in Nat /\ u = t + 20
    BY <1>t
  <2> HIDE DEF t, u
  <2>2. r \in Wide /\ SameBut(p, r) /\ r.len = u
    BY <2>u DEF Wide, SameBut
  <2> HIDE DEF r
  <2>3. IpHeader(r, 0) \in Seq(Nat) /\ c \in Nat
    BY <2>2, IpHeaderIs, ChecksumIs
  <2> HIDE DEF c
  <2>4. q \in Wide /\ SameBut(p, q) /\ q.len = u /\ q.ipsum = c
        /\ q.src = r.src /\ q.dst = r.dst /\ q.proto = r.proto /\ q.len = r.len
    BY <2>1, <2>2, <2>3 DEF Wide, SameBut
  <2>5. TransportLen(q) = t /\ ~q.v6
    BY <2>4, <1>2, SameSegment DEF SameBut, t
  <2>6. \A w : IpHeader(q, w) = IpHeader(r, w)
    BY <2>4 DEF IpHeader, ProtoNo
  <2>7. Total(IpHeader(r, c)) = Total(IpHeader(r, 0)) + c
    BY <2>2, <2>3, IpHeaderIs
  <2>8. (Total(IpHeader(r, 0)) + c) % 65535 = 0
    BY <2>3, ChecksumIs DEF c
  <2>9. Total(IpHeader(q, q.ipsum)) % 65535 = 0
    BY <2>4, <2>6, <2>7, <2>8
  <2>10. (IF q.v6 THEN 0 ELSE 20) = 20
    BY <2>5
  <2>11. q.len = TransportLen(q) + IF q.v6 THEN 0 ELSE 20
    BY <2>4, <2>5, <2>10, <2>u
  <2> QED BY <2>4, <2>9, <2>11 DEF HeaderSound
<1> QED BY <1>1, <1>2, <1>v

\* Only the transport checksum changes.
LEMMA SumKeepsHeader ==
  ASSUME NEW p \in Wide, HeaderSound(p), NEW c \in Nat, NEW q, q = [p EXCEPT !.sum = c]
  PROVE  q \in Wide /\ SameBut(p, q) /\ HeaderSound(q) /\ q.sum = c
<1>1. q \in Wide /\ SameBut(p, q) /\ q.sum = c /\ q.len = p.len /\ q.ipsum = p.ipsum
  BY DEF Wide, SameBut
<1>2. \A w : IpHeader(q, w) = IpHeader(p, w)
  BY <1>1 DEF IpHeader, ProtoNo, SameBut
<1>3. TransportLen(q) = TransportLen(p) /\ q.v6 = p.v6
  BY <1>1, SameSegment DEF SameBut
<1> QED BY <1>1, <1>2, <1>3 DEF HeaderSound

\* What recalcTcpChecksum() and recalcUdpChecksum() leave is accepted.
LEMMA TcpAccepted ==
  ASSUME NEW p \in Wide, p.proto = "tcp", NEW q, q = recalcTcpChecksum(SetLength(p))
  PROVE  q \in Wide /\ SameBut(p, q) /\ Accepted(q)
<1> DEFINE r == SetLength(p)
           c == internetChecksum(Segment(r, 0))
<1>1. r \in Wide /\ SameBut(p, r) /\ HeaderSound(r)
  BY SetLengthIs
<1>2. q = [r EXCEPT !.sum = c]
  BY DEF recalcTcpChecksum
<1> HIDE DEF r
<1>3. Segment(r, 0) \in Seq(Nat) /\ c \in Nat
  BY <1>1, SegmentIs, ChecksumIs
<1>4. (Total(Segment(r, 0)) + c) % 65535 = 0
  BY <1>3, ChecksumIs
<1> HIDE DEF c
<1>5. q \in Wide /\ SameBut(r, q) /\ HeaderSound(q) /\ q.sum = c
  BY <1>1, <1>2, <1>3, SumKeepsHeader
<1>6. Segment(q, c) = Segment(r, c)
  BY <1>5, SameSegment
<1>7. Total(Segment(r, c)) = Total(Segment(r, 0)) + c
  BY <1>1, <1>3, SegmentIs
<1>8. Total(Segment(q, q.sum)) % 65535 = 0
  BY <1>4, <1>5, <1>6, <1>7
<1>9. SameBut(p, q) /\ q.proto = "tcp"
  BY <1>1, <1>5 DEF SameBut
<1> QED BY <1>5, <1>8, <1>9 DEF Accepted, HeaderSound

\* The same for UDP, where a checksum of zero is sent as 65535.
LEMMA UdpAccepted ==
  ASSUME NEW p \in Wide, NEW q, q = recalcUdpChecksum(SetLength(p))
  PROVE  q \in Wide /\ SameBut(p, q) /\ Accepted(q)
<1> DEFINE r == SetLength(p)
           s == internetChecksum(Segment(r, 0))
           c == IF s = 0 THEN 65535 ELSE s
<1>1. r \in Wide /\ SameBut(p, r) /\ HeaderSound(r)
  BY SetLengthIs
<1>2. q = [r EXCEPT !.sum = c]
  BY DEF recalcUdpChecksum
<1> HIDE DEF r
<1>3. Segment(r, 0) \in Seq(Nat) /\ s \in Nat
  BY <1>1, SegmentIs, ChecksumIs
<1>4. (Total(Segment(r, 0)) + s) % 65535 = 0
      /\ (s = 0 => (Total(Segment(r, 0)) + 65535) % 65535 = 0)
  BY <1>3, ChecksumIs
<1> HIDE DEF s
<1>c. c \in Nat /\ c # 0 /\ (Total(Segment(r, 0)) + c) % 65535 = 0
  BY <1>3, <1>4
<1> HIDE DEF c
<1>5. q \in Wide /\ SameBut(r, q) /\ HeaderSound(q) /\ q.sum = c
  BY <1>1, <1>2, <1>c, SumKeepsHeader
<1>6. Segment(q, c) = Segment(r, c)
  BY <1>5, SameSegment
<1>7. Total(Segment(r, c)) = Total(Segment(r, 0)) + c
  BY <1>1, <1>c, SegmentIs
<1>8. Total(Segment(q, q.sum)) % 65535 = 0
  BY <1>c, <1>5, <1>6, <1>7
<1>9. SameBut(p, q)
  BY <1>1, <1>5 DEF SameBut
<1> QED BY <1>5, <1>8, <1>9, <1>c DEF Accepted, HeaderSound
-----------------------------------------------------------------------------
(* Sequence numbers and the stream.                                        *)

\* Division by 2^16, with its number kept out of sight of the provers.
Quot(n) == n \div 65536
Rest(n) == n % 65536
Divided(n, q, r) == q \in Nat /\ r \in Nat /\ r <= 65535 /\ n = 65536 * q + r

\* What a 16-bit number is.
LEMMA InU16 ==
  ASSUME NEW n
  PROVE  /\ n \in U16 => n \in Nat /\ n <= 65535
         /\ n \in Nat /\ n <= 65535 => n \in U16
<1>1. ASSUME n \in U16 PROVE n \in Nat /\ n <= 65535
  BY <1>1, SMT DEF U16
<1>2. ASSUME n \in Nat, n <= 65535 PROVE n \in U16
  <2> DEFINE t == 65535
  <2>1. n <= t /\ t \in Nat
    BY <1>2, SMT
  <2> HIDE DEF t
  <2>2. n \in 0..t
    BY <1>2, <2>1, SMT
  <2> QED BY <2>2 DEF U16, t
<1> QED BY <1>1, <1>2

\* Division by 65536.
LEMMA QuotRest ==
  ASSUME NEW n \in Nat
  PROVE  Divided(n, Quot(n), Rest(n)) /\ Quot(n) \in Nat /\ Rest(n) \in Nat /\ Rest(n) \in U16
<1>1. Quot(n) \in Nat
  BY SMT DEF Quot
<1>2. Rest(n) \in Nat /\ Rest(n) <= 65535
  BY SMT DEF Rest
<1>3. n = 65536 * Quot(n) + Rest(n)
  BY SMT DEF Quot, Rest
<1>4. Divided(n, Quot(n), Rest(n))
  BY <1>1, <1>2, <1>3, SMT DEF Divided
<1>5. Rest(n) \in U16
  BY <1>2, InU16, SMT
<1> QED BY <1>1, <1>2, <1>4, <1>5, SMT

\* Quotient and rest are determined.
LEMMA QuotRestUnique ==
  ASSUME NEW q, NEW r, NEW n, Divided(n, q, r)
  PROVE  Quot(n) = q /\ Rest(n) = r
<1>0. q \in Nat /\ r \in Nat /\ r <= 65535 /\ n = 65536 * q + r
  BY SMT DEF Divided
<1>1. Quot(n) = q
  BY <1>0, SMT DEF Quot
<1>2. Rest(n) = r
  BY <1>0, SMT DEF Rest
<1> QED BY <1>1, <1>2

\* A number of 16 bits is its own rest, and the next one overflows.
LEMMA SmallRest ==
  ASSUME NEW n \in U16
  PROVE  Quot(n) = 0 /\ Rest(n) = n
<1> DEFINE z == 0
<1>1. Divided(n, z, n)
  BY InU16, SMT DEF Divided
<1> HIDE DEF z
<1>2. Quot(n) = z /\ Rest(n) = n
  BY ONLY <1>1, QuotRestUnique
<1> QED BY <1>2 DEF z

\* The successor of a 16-bit number overflows at the last one only.
LEMMA NextRest ==
  ASSUME NEW n \in U16
  PROVE  /\ n < 65535 => Quot(n + 1) = 0 /\ Rest(n + 1) = n + 1
         /\ ~(n < 65535) => Quot(n + 1) = 1 /\ Rest(n + 1) = 0
<1>0. n \in Nat /\ n <= 65535
  BY InU16, SMT
<1>1. ASSUME n < 65535 PROVE Quot(n + 1) = 0 /\ Rest(n + 1) = n + 1
  <2>1. n + 1 \in U16
    BY <1>0, <1>1, InU16, SMT
  <2> QED BY <2>1, SmallRest
<1>2. ASSUME ~(n < 65535) PROVE Quot(n + 1) = 1 /\ Rest(n + 1) = 0
  <2> DEFINE q == 1
             r == 0
             m == n + 1
  <2>1. Divided(m, q, r)
    BY <1>0, <1>2, SMT DEF Divided
  <2> HIDE DEF q, r, m
  <2>2. Quot(m) = q /\ Rest(m) = r
    BY ONLY <2>1, QuotRestUnique
  <2> QED BY <2>2 DEF q, r, m
<1> QED BY <1>1, <1>2, SMT

\* The rest of a sum.
LEMMA RestAdds ==
  ASSUME NEW a \in Nat, NEW b \in Nat
  PROVE  Rest(Rest(a) + b) = Rest(a + b) /\ Quot(a + b) = Quot(a) + Quot(Rest(a) + b)
<1> DEFINE q == Quot(a)
           r == Rest(a)
           t == Quot(r + b)
           u == Rest(r + b)
<1>1. q \in Nat /\ r \in Nat /\ Divided(a, q, r)
  BY QuotRest
<1> HIDE DEF q, r
<1>2. r + b \in Nat
  BY <1>1
<1>3. t \in Nat /\ u \in Nat /\ Divided(r + b, t, u)
  BY <1>2, QuotRest
<1> HIDE DEF t, u
<1> DEFINE n == a + b
           m == q + t
<1>4. Divided(n, m, u)
  BY <1>1, <1>3, SMT DEF Divided
<1> HIDE DEF n, m
<1>5. Quot(n) = m /\ Rest(n) = u
  BY ONLY <1>4, QuotRestUnique
<1> QED BY <1>5 DEF n, m, q, r, t, u

\* Sequence numbers as two halves.
SeqPair == U16 \X U16
Advance(s, d) == advanceTcpSeq(s, d)

\* advanceTcpSeq() in terms of quotient and rest.
LEMMA AdvanceIs ==
  ASSUME NEW s \in SeqPair, NEW d \in Nat
  PROVE  /\ s[1] \in U16 /\ s[2] \in U16 /\ s[1] \in Nat /\ s[2] \in Nat
         /\ Advance(s, d) = <<Rest(s[1] + Quot(s[2] + d)), Rest(s[2] + d)>>
         /\ Advance(s, d) \in SeqPair
<1>0. s[1] \in U16 /\ s[2] \in U16
  BY DEF SeqPair
<1>1. s[1] \in Nat /\ s[2] \in Nat
  BY <1>0, InU16
<1>2. Advance(s, d) = <<Rest(s[1] + Quot(s[2] + d)), Rest(s[2] + d)>>
  BY SMT DEF Advance, advanceTcpSeq, Quot, Rest
<1> DEFINE n == s[2] + d
           q == Quot(n)
           m == s[1] + q
<1>3. n \in Nat
  BY <1>1
<1> HIDE DEF n
<1>q. q \in Nat /\ Rest(n) \in U16
  BY <1>3, QuotRest
<1> HIDE DEF q
<1>4. m \in Nat
  BY <1>1, <1>q
<1> HIDE DEF m
<1>5. Rest(m) \in U16
  BY <1>4, QuotRest
<1>6. Advance(s, d) = <<Rest(m), Rest(n)>>
  BY <1>2 DEF m, q, n
<1>7. Advance(s, d) \in SeqPair
  BY <1>5, <1>6, <1>q DEF SeqPair
<1> QED BY <1>0, <1>1, <1>2, <1>7

\* Nothing to advance by.
LEMMA AdvanceZero ==
  ASSUME NEW s \in SeqPair
  PROVE  Advance(s, 0) = s
<1> DEFINE a == s[1]
           b == s[2]
<1>1. a \in U16 /\ b \in U16 /\ a \in Nat /\ b \in Nat
  BY AdvanceIs
<1>2. s = <<a, b>>
  BY DEF SeqPair
<1>3. Advance(s, 0) = <<Rest(a + Quot(b + 0)), Rest(b + 0)>>
  BY AdvanceIs
<1> HIDE DEF a, b
<1>4. b + 0 = b /\ a + 0 = a
  BY <1>1
<1>5. Quot(b) = 0 /\ Rest(b) = b /\ Rest(a) = a
  BY <1>1, SmallRest
<1> QED BY <1>2, <1>3, <1>4, <1>5

\* Advancing twice is advancing by the sum.
LEMMA AdvanceTwice ==
  ASSUME NEW s \in SeqPair, NEW k \in Nat, NEW d \in Nat
  PROVE  Advance(Advance(s, k), d) = Advance(s, k + d)
<1> DEFINE a == s[1]
           b == s[2]
           t == Advance(s, k)
           n == b + k
           q == Quot(n)
           r == Rest(n)
           m == a + q
           v == Quot(r + d)
           j == k + d
<1>1. a \in Nat /\ b \in Nat /\ t = <<Rest(a + Quot(b + k)), Rest(b + k)>> /\ t \in SeqPair
  BY AdvanceIs
<1>2. t[1] = Rest(m) /\ t[2] = r
  BY <1>1
<1>4. j \in Nat
  OBVIOUS
<1> HIDE DEF t, j
<1>3. Advance(t, d) = <<Rest(t[1] + Quot(t[2] + d)), Rest(t[2] + d)>>
  BY <1>1, AdvanceIs
<1>5. Advance(s, j) = <<Rest(a + Quot(b + j)), Rest(b + j)>>
  BY <1>4, AdvanceIs
<1> HIDE DEF a, b
<1>6. n \in Nat /\ b + j = n + d
  BY <1>1 DEF j
<1> HIDE DEF n
<1>7. Rest(r + d) = Rest(n + d) /\ Quot(n + d) = q + v
  BY <1>6, RestAdds
<1>8. q \in Nat /\ r \in Nat
  BY <1>6, QuotRest
<1> HIDE DEF q, r
<1>9. v \in Nat
  <2>1. r + d \in Nat
    BY <1>8
  <2> QED BY <2>1, QuotRest
<1>v. v = Quot(r + d)
  OBVIOUS
<1> HIDE DEF v
<1>10. m \in Nat /\ a + (q + v) = m + v
  BY <1>1, <1>8, <1>9
<1> HIDE DEF m
<1>11. Rest(Rest(m) + v) = Rest(m + v)
  BY <1>9, <1>10, RestAdds
<1>12. Advance(t, d) = <<Rest(Rest(m) + v), Rest(r + d)>>
  BY <1>2, <1>3, <1>v
<1>13. Advance(s, j) = <<Rest(m + v), Rest(n + d)>>
  BY <1>5, <1>6, <1>7, <1>10
<1>14. Advance(t, d) = Advance(s, j)
  BY <1>7, <1>11, <1>12, <1>13
<1> QED BY <1>14 DEF t, j

\* NextSeq() advances by one.
LEMMA AdvanceOne ==
  ASSUME NEW s \in SeqPair
  PROVE  NextSeq(s) = Advance(s, 1)
<1> DEFINE a == s[1]
           b == s[2]
<1>1. /\ a \in U16 /\ b \in U16 /\ a \in Nat /\ b \in Nat
      /\ Advance(s, 1) = <<Rest(a + Quot(b + 1)), Rest(b + 1)>>
  BY AdvanceIs
<1>2. NextSeq(s) = IF b < 65535 THEN <<a, b + 1>> ELSE <<IF a < 65535 THEN a + 1 ELSE 0, 0>>
  BY SMT DEF NextSeq
<1> HIDE DEF a, b
<1>3. CASE b < 65535
  <2>1. Quot(b + 1) = 0 /\ Rest(b + 1) = b + 1
    BY <1>1, <1>3, NextRest, SMT
  <2>2. a + 0 = a /\ Rest(a) = a
    BY <1>1, SmallRest, SMT
  <2>3. Advance(s, 1) = <<a, b + 1>>
    BY <2>1, <2>2, <1>1, SMT
  <2> QED BY <2>3, <1>2, <1>3, SMT
<1>4. CASE ~(b < 65535)
  <2>1. Quot(b + 1) = 1 /\ Rest(b + 1) = 0
    BY <1>1, <1>4, NextRest, SMT
  <2>2. Advance(s, 1) = <<Rest(a + 1), 0>>
    BY <2>1, <1>1, SMT
  <2>3. Rest(a + 1) = IF a < 65535 THEN a + 1 ELSE 0
    BY <1>1, NextRest, SMT
  <2> QED BY <2>2, <2>3, <1>2, <1>4, SMT
<1> QED BY <1>3, <1>4

\* f holds the sequence numbers that follow s.
IsAt(f, s, n) == f = [i \in 1..n |-> IF i = 1 THEN s ELSE NextSeq(f[i - 1])]

\* The bytes of data, from sequence number s on.
Placed(s, data) == {<<Advance(s, i - 1), data[i]>> : i \in DOMAIN data}

\* Stream() puts byte i at the sequence number advanced by i - 1.
LEMMA StreamIs ==
  ASSUME NEW p, NEW s \in SeqPair, p.seq = s, NEW data \in Seq(Nat), p.data = data
  PROVE  Stream(p) = Placed(s, data)
<1> DEFINE n == Len(data)
           g == [i \in 1..n |-> Advance(s, i - 1)]
<1>n. n \in Nat /\ DOMAIN data = 1..n
  OBVIOUS
<1>0. ASSUME NEW i \in 1..n, i # 1 PROVE Advance(s, i - 1) = NextSeq(Advance(s, (i - 1) - 1))
  <2> DEFINE k == (i - 1) - 1
             o == 1
             t == Advance(s, k)
  <2>1. k \in Nat /\ k + o = i - 1 /\ o \in Nat
    BY <1>n, <1>0
  <2> HIDE DEF k, o
  <2>2. t \in SeqPair
    BY <2>1, AdvanceIs
  <2>3. Advance(t, o) = Advance(s, k + o)
    BY <2>1, AdvanceTwice
  <2> HIDE DEF t
  <2>4. NextSeq(t) = Advance(t, o)
    BY <2>2, AdvanceOne DEF o
  <2> QED BY <2>1, <2>3, <2>4 DEF t, k
<1>z. Advance(s, 1 - 1) = s
  <2>1. 1 - 1 = 0
    OBVIOUS
  <2> QED BY <2>1, AdvanceZero
<1>1. IsAt(g, s, n)
  <2>1. ASSUME NEW i \in 1..n PROVE g[i] = IF i = 1 THEN s ELSE NextSeq(g[i - 1])
    <3>1. CASE i = 1
      BY <3>1, <1>z
    <3>2. CASE i # 1
      <4>1. i - 1 \in 1..n
        BY <3>2, <1>n
      <4> QED BY <4>1, <3>2, <1>0
    <3> QED BY <3>1, <3>2
  <2>2. g = [i \in 1..n |-> g[i]]
    OBVIOUS
  <2> HIDE DEF g
  <2> QED BY <2>1, <2>2, Zenon DEF IsAt
<1> DEFINE f == CHOOSE h : IsAt(h, p.seq, Len(p.data))
<1>2. IsAt(f, s, n)
  <2>1. IsAt(g, p.seq, Len(p.data))
    BY <1>1
  <2>2. IsAt(f, p.seq, Len(p.data))
    BY <2>1, Zenon
  <2> QED BY <2>2
<1>3. Stream(p) = {<<f[i], data[i]>> : i \in DOMAIN data}
  <2>1. Stream(p) = {<<f[i], p.data[i]>> : i \in DOMAIN p.data}
    BY Zenon DEF Stream, IsAt
  <2> HIDE DEF f
  <2> QED BY <2>1
<1> HIDE DEF f
<1>4. \A i \in 1..n : f[i] = IF i = 1 THEN s ELSE NextSeq(f[i - 1])
  BY <1>2, Zenon DEF IsAt
<1>5. \A i \in 1..n : f[i] = Advance(s, i - 1)
  <2>1. CASE n = 0
    BY <2>1, <1>n
  <2>2. CASE n # 0
    <3> DEFINE T == {j \in 0..(n - 1) : f[j + 1] = Advance(s, j)}
    <3>1. 0 \in T
      <4>1. 0 + 1 = 1 /\ 1 \in 1..n /\ 0 \in 0..(n - 1)
        BY <2>2, <1>n
      <4>2. f[1] = s
        BY <4>1, <1>4
      <4> QED BY <4>1, <4>2, AdvanceZero
    <3>2. ASSUME NEW i \in 0..((n - 1) - 1), i \in T PROVE i + 1 \in T
      <4> DEFINE k == (i + 1) + 1
      <4>1. k \in 1..n /\ k # 1 /\ k - 1 = i + 1 /\ (k - 1) - 1 = i /\ i + 1 \in 0..(n - 1)
        BY <1>n
      <4>2. f[i + 1] = Advance(s, i)
        BY <3>2
      <4>3. f[k] = NextSeq(f[k - 1])
        BY <4>1, <1>4
      <4>4. Advance(s, k - 1) = NextSeq(Advance(s, (k - 1) - 1))
        BY <4>1, <1>0
      <4>5. f[k] = Advance(s, i + 1)
        BY <4>1, <4>2, <4>3, <4>4
      <4> QED BY <4>1, <4>5
    <3>3. n - 1 \in Nat
      BY <2>2, <1>n
    <3> HIDE DEF T
    <3>4. \A i \in 0..(n - 1) : i \in T
      BY <3>1, <3>2, <3>3, BoundedInduction
    <3> SUFFICES ASSUME NEW i \in 1..n PROVE f[i] = Advance(s, i - 1)
      OBVIOUS
    <3>5. i - 1 \in 0..(n - 1) /\ (i - 1) + 1 = i
      BY <1>n
    <3> QED BY <3>4, <3>5 DEF T
  <2> QED BY <2>1, <2>2
<1> QED BY <1>3, <1>5, <1>n DEF Placed

\* The two parts of what is split at k, the second at the sequence number
\* advanced by k, are the whole.
LEMMA PlacedSplit ==
  ASSUME NEW s \in SeqPair, NEW data \in Seq(Nat), NEW k \in 1..(Len(data) - 1)
  PROVE  /\ SubSeq(data, 1, k) \in Seq(Nat) /\ SubSeq(data, k + 1, Len(data)) \in Seq(Nat)
         /\ Advance(s, k) \in SeqPair
         /\ Placed(s, SubSeq(data, 1, k)) \cup Placed(Advance(s, k), SubSeq(data, k + 1, Len(data)))
              = Placed(s, data)
<1> DEFINE n == Len(data)
           one == SubSeq(data, 1, k)
           two == SubSeq(data, k + 1, n)
           t == Advance(s, k)
<1>n. n \in Nat /\ k \in Nat /\ 1 <= k /\ k <= n /\ DOMAIN data = 1..n
  OBVIOUS
<1>1. one \in Seq(Nat) /\ Len(one) = k /\ \A i \in 1..k : one[i] = data[i]
  <2>1. 1 \in 1..(n + 1) /\ k \in 0..n /\ 1 - 1 <= k
    BY <1>n
  <2> QED BY <1>n, <2>1
<1>2. two \in Seq(Nat) /\ Len(two) = n - k /\ \A i \in 1..(n - k) : two[i] = data[k + i]
  <2>1. two \in Seq(Nat) /\ Len(two) = (n - (k + 1)) + 1
    BY <1>n
  <2>2. \A i \in 1..(n - k) : two[i] = data[(k + 1) + i - 1]
    BY <1>n
  <2>3. (n - (k + 1)) + 1 = n - k /\ \A i \in Int : (k + 1) + i - 1 = k + i
    BY <1>n
  <2> HIDE DEF two
  <2>4. \A i \in 1..(n - k) : two[i] = data[k + i]
    BY <2>2, <2>3
  <2> QED BY <2>1, <2>3, <2>4
<1>3. t \in SeqPair
  BY <1>n, AdvanceIs
<1> HIDE DEF one, two
<1>4. DOMAIN one = 1..k /\ DOMAIN two = 1..(n - k)
  BY <1>1, <1>2
<1>5. \A i \in 1..(n - k) : Advance(t, i - 1) = Advance(s, (k + i) - 1)
  <2> SUFFICES ASSUME NEW i \in 1..(n - k) PROVE Advance(t, i - 1) = Advance(s, (k + i) - 1)
    OBVIOUS
  <2> DEFINE d == i - 1
  <2>1. d \in Nat /\ k + d = (k + i) - 1
    BY <1>n
  <2> HIDE DEF d
  <2>2. Advance(t, d) = Advance(s, k + d)
    BY <1>n, <2>1, AdvanceTwice
  <2> QED BY <2>1, <2>2 DEF d
<1> HIDE DEF t
<1>6. Placed(s, one) \subseteq Placed(s, data)
  <2> SUFFICES ASSUME NEW i \in 1..k PROVE <<Advance(s, i - 1), one[i]>> \in Placed(s, data)
    BY <1>4 DEF Placed
  <2>1. i \in 1..n /\ one[i] = data[i]
    BY <1>1, <1>n
  <2> QED BY <2>1, <1>n DEF Placed
<1>7. Placed(t, two) \subseteq Placed(s, data)
  <2> SUFFICES ASSUME NEW i \in 1..(n - k) PROVE <<Advance(t, i - 1), two[i]>> \in Placed(s, data)
    BY <1>4 DEF Placed
  <2> DEFINE j == k + i
  <2>1. j \in 1..n
    BY <1>n
  <2>2. two[i] = data[j] /\ Advance(t, i - 1) = Advance(s, j - 1)
    BY <1>2, <1>5
  <2> HIDE DEF j
  <2> QED BY <2>1, <2>2, <1>n DEF Placed
<1>8. Placed(s, data) \subseteq Placed(s, one) \cup Placed(t, two)
  <2> SUFFICES ASSUME NEW i \in 1..n
               PROVE  <<Advance(s, i - 1), data[i]>> \in Placed(s, one) \cup Placed(t, two)
    BY <1>n DEF Placed
  <2>1. CASE i <= k
    <3>1. i \in 1..k /\ one[i] = data[i]
      BY <2>1, <1>n, <1>1
    <3> QED BY <3>1, <1>4 DEF Placed
  <2>2. CASE ~(i <= k)
    <3> DEFINE j == i - k
    <3>1. j \in 1..(n - k) /\ k + j = i
      BY <2>2, <1>n
    <3> HIDE DEF j
    <3>2. two[j] = data[i] /\ Advance(t, j - 1) = Advance(s, i - 1)
      BY <3>1, <1>2, <1>5
    <3> QED BY <3>1, <3>2, <1>4 DEF Placed
  <2> QED BY <2>1, <2>2
<1>9. Placed(s, one) \cup Placed(t, two) = Placed(s, data)
  BY <1>6, <1>7, <1>8
<1> QED BY <1>1, <1>2, <1>3, <1>9 DEF one, two, t
-----------------------------------------------------------------------------
(* What the handlers write.                                                *)

\* What may be written for p: p itself or a packet that is accepted, and
\* nothing that is not in p's stream.
Sound(q, p) ==
    /\ q # p => Accepted(q)
    /\ p.proto = "tcp" => Stream(q) \subseteq Stream(p)
\* The packets of Q make up the stream of p.
Whole(Q, p) == p.proto = "tcp" => UNION {Stream(q) : q \in Q} = Stream(p)

\* Two segments with the packet's stream between them.
THEOREM FragmentsSound ==
  ASSUME NEW p \in Packets, p.proto = "tcp", NEW k \in 1..(Len(p.data) - 1)
  PROVE  \E f, g \in Wide :
            /\ Fragments(p, k) = <<f, g>>
            /\ Accepted(f) /\ Accepted(g) /\ Stream(f) \cup Stream(g) = Stream(p)
<1> DEFINE data == p.data
           s == p.seq
           t == advanceTcpSeq(s, k)
           one == SubSeq(data, 1, k)
           two == SubSeq(data, k + 1, Len(data))
           x == [p EXCEPT !.data = one]
           y == [p EXCEPT !.data = two, !.seq = t]
           f == recalcTcpChecksum(SetLength(x))
           g == recalcTcpChecksum(SetLength(y))
<1>p. p \in Wide /\ p.data \in Seq(Nat) /\ p.seq \in SeqPair
  BY WideOf DEF Wide, Packet, SeqPair
<1>1. one \in Seq(Nat) /\ two \in Seq(Nat) /\ t \in SeqPair
      /\ Placed(s, one) \cup Placed(t, two) = Placed(s, data)
  BY <1>p, PlacedSplit DEF Advance
<1>2. Fragments(p, k) = <<f, g>>
  BY DEF Fragments
<1> HIDE DEF one, two, t
<1>t. t \in Nat \X Nat
  <2>1. U16 \subseteq Nat
    BY InU16
  <2> QED BY <1>1, <2>1 DEF SeqPair
<1>3. x \in Wide /\ x.proto = "tcp" /\ x.data = one /\ x.seq = s
  BY <1>p, <1>1 DEF Wide
<1>4. y \in Wide /\ y.proto = "tcp" /\ y.data = two /\ y.seq = t
  BY <1>p, <1>1, <1>t DEF Wide
<1> HIDE DEF x, y
<1>5. f \in Wide /\ SameBut(x, f) /\ Accepted(f)
  BY <1>3, TcpAccepted
<1>6. g \in Wide /\ SameBut(y, g) /\ Accepted(g)
  BY <1>4, TcpAccepted
<1> HIDE DEF f, g
<1>7. f.data = one /\ f.seq = s /\ g.data = two /\ g.seq = t
  BY <1>3, <1>4, <1>5, <1>6 DEF SameBut
<1> HIDE DEF s, data
<1>8. s \in SeqPair /\ data \in Seq(Nat) /\ p.seq = s /\ p.data = data
  BY <1>p DEF s, data
<1>9. Stream(f) = Placed(s, one)
  BY <1>1, <1>7, <1>8, StreamIs
<1>10. Stream(g) = Placed(t, two)
  BY <1>1, <1>7, StreamIs
<1>11. Stream(p) = Placed(s, data)
  BY <1>8, StreamIs
<1>12. Stream(f) \cup Stream(g) = Stream(p)
  BY <1>1, <1>9, <1>10, <1>11
<1> QED BY <1>2, <1>5, <1>6, <1>12

\* A split leaves something on both sides.
LEMMA SplitInside ==
  ASSUME NEW split, NEW n \in Nat, n >= 9
  PROVE  SplitLengths(split, n) \subseteq 1..(n - 1)
<1>1. n \div 2 \in 1..(n - 1)
  <2>1. n \div 2 \in Nat /\ n = 2 * (n \div 2) + (n % 2) /\ n % 2 \in {0, 1}
    BY HalfIs
  <2> DEFINE h == n \div 2
             r == n % 2
  <2> HIDE DEF h, r
  <2>2. h \in Nat /\ n = 2 * h + r /\ r \in {0, 1}
    BY <2>1 DEF h, r
  <2>3. h \in 1..(n - 1)
    BY <2>2
  <2> QED BY <2>3 DEF h
<1>2. n - 1 \in 1..(n - 1)
  OBVIOUS
<1>3. 1..Smaller(5, n - 1) \subseteq 1..(n - 1)
  BY DEF Smaller
<1> DEFINE h == n \div 2
<1> HIDE DEF h
<1>4. h \in 1..(n - 1) /\ h = n \div 2
  BY <1>1 DEF h
<1>5. SplitLengths(split, n) =
         CASE split.base \in 1..(n - 1) -> {split.base}
           [] split.mode = "m" -> {h}
           [] split.mode = "end" -> {n - 1}
           [] split.mode = "r" -> 1..(n - 1)
           [] OTHER -> 1..Smaller(5, n - 1)
  BY <1>4 DEF SplitLengths
<1> QED BY <1>2, <1>3, <1>4, <1>5

\* A list of one or two packets.
LEMMA RangeOfOne ==
  ASSUME NEW a
  PROVE  Range(<<a>>) = {a}
BY DEF Range

\* The same for two.
LEMMA RangeOfTwo ==
  ASSUME NEW a, NEW b
  PROVE  Range(<<a, b>>) = {a, b}
<1>1. DOMAIN <<a, b>> = {1, 2}
  OBVIOUS
<1> QED BY <1>1 DEF Range

\* Whatever list processPacket() chooses, its packets are sound and whole.
LEMMA ProcessSound ==
  ASSUME NEW p \in Packets, NEW cfg, NEW ps \in processPacket(p, cfg)
  PROVE  /\ ps \in Seq(Wide)
         /\ \A q \in Range(ps) : Sound(q, p)
         /\ Whole(Range(ps), p)
<1>p. p \in Wide
  BY WideOf
<1>1. CASE ps = <<p>>
  <2>1. Range(ps) = {p}
    BY <1>1, RangeOfOne
  <2>2. Sound(p, p)
    BY DEF Sound
  <2>3. Whole({p}, p)
    BY DEF Whole
  <2> QED BY <2>1, <2>2, <2>3, <1>1, <1>p
<1>2. CASE ps = <<>> /\ p.proto # "tcp"
  <2>1. Range(ps) = {}
    BY <1>2 DEF Range
  <2> QED BY <2>1, <1>2 DEF Whole
<1>3. ASSUME p.proto = "tcp", ps # <<p>>
      PROVE  \E k \in 1..(Len(p.data) - 1), f, g \in Wide :
                Fragments(p, k) = <<f, g>> /\ (ps = <<f, g>> \/ ps = <<g, f>>)
  <2>1. ps \in handleTcp(p, cfg)
    BY <1>3 DEF processPacket
  <2>n. Len(p.data) \in Nat
    BY <1>p DEF Wide
  <2>2. /\ Len(p.data) >= 9
        /\ \E k \in SplitLengths(cfg.split, Len(p.data)) :
              ps = LET f == Fragments(p, k) IN IF cfg.disorder THEN <<f[2], f[1]>> ELSE f
    BY <2>1, <2>n, <1>3 DEF handleTcp
  <2>3. PICK k \in SplitLengths(cfg.split, Len(p.data)) :
              ps = IF cfg.disorder THEN <<Fragments(p, k)[2], Fragments(p, k)[1]>>
                   ELSE Fragments(p, k)
    BY <2>2
  <2>4. k \in 1..(Len(p.data) - 1)
    BY <2>2, <2>n, SplitInside
  <2>5. PICK f, g \in Wide : Fragments(p, k) = <<f, g>>
    BY <2>4, <1>3, FragmentsSound
  <2>6. ps = <<f, g>> \/ ps = <<g, f>>
    BY <2>3, <2>5
  <2> QED BY <2>4, <2>5, <2>6
<1>4. CASE p.proto = "tcp" /\ ps # <<p>>
  <2>1. PICK k \in 1..(Len(p.data) - 1), f, g \in Wide :
                Fragments(p, k) = <<f, g>> /\ (ps = <<f, g>> \/ ps = <<g, f>>)
    BY <1>3, <1>4
  <2>2. PICK x, y \in Wide :
            /\ Fragments(p, k) = <<x, y>>
            /\ Accepted(x) /\ Accepted(y) /\ Stream(x) \cup Stream(y) = Stream(p)
    BY <1>4, FragmentsSound
  <2>3. f = x /\ g = y
    BY <2>1, <2>2
  <2>4. Range(ps) = {f, g}
    BY <2>1, RangeOfTwo
  <2>5. Sound(f, p) /\ Sound(g, p)
    BY <2>2, <2>3 DEF Sound
  <2>6. UNION {Stream(q) : q \in {f, g}} = Stream(f) \cup Stream(g)
    OBVIOUS
  <2>7. Whole({f, g}, p)
    BY <2>2, <2>3, <2>6 DEF Whole
  <2>8. ps \in Seq(Wide)
    <3>1. <<f, g>> \in Seq(Wide) /\ <<g, f>> \in Seq(Wide)
      OBVIOUS
    <3> QED BY <2>1, <3>1
  <2> QED BY <2>4, <2>5, <2>7, <2>8
<1>5. p.proto # "tcp" => ps = <<p>> \/ ps = <<>>
  <2>1. CASE p.proto = "udp"
    BY <2>1 DEF processPacket, handleUdp
  <2>2. CASE p.proto # "udp" /\ p.proto # "tcp"
    BY <2>2 DEF processPacket
  <2> QED BY <2>1, <2>2
<1> QED BY <1>1, <1>2, <1>4, <1>5

-----------------------------------------------------------------------------
(* The answer to a query.                                                  *)

\* What a lookup finds.
Address == {4, 6} \X Nat

\* SetToSeq() lists members of its set.
LEMMA SetToSeqIs ==
  ASSUME NEW S, IsFiniteSet(S)
  PROVE  SetToSeq(S) \in Seq(S) /\ Range(SetToSeq(S)) \subseteq S
<1>1. PICK n \in Nat : ExistsBijection(1..n, S)
  BY FS_NatBijection
<1>2. Cardinality(S) = n
  BY <1>1, FS_CountingElements
<1>3. \E f \in [1..n -> S] : IsInjective(f)
  BY <1>1, Zenon DEF ExistsBijection, Bijection, Injection
<1>4. SetToSeq(S) \in [1..n -> S]
  BY <1>2, <1>3, Zenon DEF SetToSeq
<1> DEFINE s == SetToSeq(S)
<1> HIDE DEF s
<1>5. s \in [1..n -> S]
  BY <1>4 DEF s
<1>6. s \in Seq(S)
  BY <1>5
<1>7. Range(s) \subseteq S
  BY <1>5 DEF Range
<1> QED BY <1>6, <1>7 DEF s

\* What may be written for a query p that was intercepted.
AnswerTo(a, p, since) ==
    /\ a.sport = 53 /\ a.dport = p.sport /\ a.dst = p.src
    /\ a.dns.id = p.dns.id /\ a.dns.host = p.dns.host
    /\ \A r \in Range(a.dns.addrs) :
          /\ r[1] = IF p.dns.qtype = 1 THEN 4 ELSE 6
          /\ r[2] > since - CACHE_TTL

\* The records of an answer are addresses of the type that was asked for.
LEMMA RecordsAre ==
  ASSUME NEW S \in SUBSET Address, IsFiniteSet(S), NEW qtype, NEW b, b = buildAnswerRecords(S, qtype)
  PROVE  /\ b \in Seq(Seq(Nat))
         /\ \A r \in Range(b) : r \in S /\ r[1] = IF qtype = 1 THEN 4 ELSE 6
<1> DEFINE T == {a \in S : (qtype = 1 /\ a[1] = 4) \/ (qtype = 28 /\ a[1] = 6)}
<1>1. IsFiniteSet(T)
  BY FS_Subset
<1>2. b = SetToSeq(T)
  BY DEF buildAnswerRecords
<1>3. \A r \in T : r \in S /\ r[1] = IF qtype = 1 THEN 4 ELSE 6
  OBVIOUS
<1>4. T \subseteq Seq(Nat)
  <2> SUFFICES ASSUME NEW r \in T PROVE r \in Seq(Nat)
    OBVIOUS
  <2>1. r \in {4, 6} \X Nat
    BY DEF Address
  <2>2. PICK x \in {4, 6}, y \in Nat : r = <<x, y>>
    BY <2>1
  <2>3. x \in Nat
    OBVIOUS
  <2> QED BY <2>2, <2>3
<1> HIDE DEF T
<1>5. b \in Seq(T) /\ Range(b) \subseteq T
  BY <1>1, <1>2, SetToSeqIs
<1>6. b \in Seq(Seq(Nat))
  BY <1>4, <1>5, SeqMonotonic
<1> QED BY <1>3, <1>5, <1>6

\* wrapAsDnsResponse() builds an answer that is accepted.
LEMMA ResponseSound ==
  ASSUME NEW p \in Packets, p.dns # <<>>, NEW S \in SUBSET Address, IsFiniteSet(S),
         NEW since, \A a \in S : a[2] > since - CACHE_TTL,
         NEW w, w = wrapAsDnsResponse(p, S)
  PROVE  w \in Wide /\ Accepted(w) /\ AnswerTo(w, p, since)
<1> DEFINE b == buildAnswerRecords(S, p.dns.qtype)
           dns == [p.dns EXCEPT !.qr = 128, !.addrs = b]
           q == [p EXCEPT !.src = p.dst, !.dst = p.src, !.sport = 53, !.dport = p.sport,
                          !.dns = dns]
<1>p. p \in Wide /\ p.dns \in WideQuery
  BY WideOf DEF Wide
<1>1. /\ b \in Seq(Seq(Nat))
      /\ \A r \in Range(b) : r \in S /\ r[1] = IF p.dns.qtype = 1 THEN 4 ELSE 6
  BY RecordsAre
<1>2. w = recalcUdpChecksum(SetLength(q))
  BY DEF wrapAsDnsResponse
<1> HIDE DEF b
<1>3. dns \in WideQuery /\ dns.id = p.dns.id /\ dns.host = p.dns.host /\ dns.addrs = b
  BY <1>p, <1>1 DEF WideQuery
<1> HIDE DEF dns
<1>4. q \in Wide /\ q.sport = 53 /\ q.dport = p.sport /\ q.dst = p.src /\ q.dns = dns
  BY <1>p, <1>3 DEF Wide
<1> HIDE DEF q
<1>5. w \in Wide /\ SameBut(q, w) /\ Accepted(w)
  BY <1>2, <1>4, UdpAccepted
<1>6. w.sport = 53 /\ w.dport = p.sport /\ w.dst = p.src /\ w.dns = dns
  BY <1>4, <1>5 DEF SameBut
<1>7. AnswerTo(w, p, since)
  BY <1>1, <1>3, <1>6 DEF AnswerTo
<1> QED BY <1>5, <1>7
-----------------------------------------------------------------------------
(* The resolver.                                                           *)

\* A lookup: until it ends it has what the servers answered since it began;
\* from the cache it has what was younger than the lifetime and the time that
\* the lookup before took.
LookupType == [at : {"idle", "A", "AAAA", "system", "found"}, host : Hosts \cup {<<>>},
               provider : Nat, found : SUBSET Address, since : Nat, took : Nat]
Horizon(l) == l.since - l.took
Recent(l, now) ==
    /\ l \in LookupType
    /\ IsFiniteSet(l.found)
    /\ l.since =< now
    /\ \A a \in l.found : a[2] > Horizon(l) - CACHE_TTL
    /\ l.at # "found" => \A a \in l.found : a[2] >= l.since
    /\ l.at # "idle" => l.host \in Hosts

\* A cache entry expires no later than CACHE_TTL, and the time its lookup took,
\* after its oldest address.
EntryType == [addrs : SUBSET Address, expires : Nat, took : Nat]
Unexpired(e) ==
    /\ e \in EntryType
    /\ IsFiniteSet(e.addrs)
    /\ \A a \in e.addrs : e.expires =< a[2] + CACHE_TTL + e.took

\* Both threads that look names up.
Callers == {"task", "monitor"}
\* The resolver's part of the invariant.
ResolverInv ==
    /\ clock \in Nat
    /\ look \in [Callers -> LookupType] /\ \A c \in Callers : Recent(look[c], clock)
    /\ cache \in [Hosts -> EntryType] /\ \A h \in Hosts : Unexpired(cache[h])

-----------------------------------------------------------------------------
(* The task that holds the monitor.                                        *)

\* A task in the monitor.
TaskType == [pkt : Packets, cfg : Configs, at : {"lookup", "write"}, todo : Seq(Wide),
             failed : BOOLEAN]

\* A task that waits for its lookup has written nothing.
Asking(t, o, l) ==
    /\ Intercepts(t.pkt, t.cfg) /\ t.pkt.dns # <<>>
    /\ o = <<>> /\ t.todo = <<>> /\ ~t.failed
    /\ l.at # "idle"

\* What a task has written and what it is going to write: all of the packet
\* as long as no write failed, one answer at most to a query.
Ahead(t, o) == Range(o) \cup Range(t.todo)
Writing(t, o, l) ==
    /\ \A q \in Ahead(t, o) : Sound(q, t.pkt)
    /\ ~t.failed => Whole(Ahead(t, o), t.pkt)
    /\ Intercepts(t.pkt, t.cfg) =>
          /\ Len(o) + Len(t.todo) =< 1
          /\ t.pkt.dns = <<>> => Ahead(t, o) = {}
          /\ t.pkt.dns # <<>> => l.at = "found"
          /\ \A q \in Ahead(t, o) : AnswerTo(q, t.pkt, Horizon(l))

\* The task's part of the invariant.
Busy(t, o, l) ==
    /\ t \in TaskType /\ o \in Seq(Wide)
    /\ t.at = "lookup" => Asking(t, o, l)
    /\ t.at = "write" => Writing(t, o, l)
Idle(t, o) == t = NoTask /\ o = <<>>

TaskInv == Idle(cur, out) \/ Busy(cur, out, look["task"])
QueueInv == queue \in Seq([pkt : Packets, cfg : Configs])

\* The inductive invariant.
PathInv == QueueInv /\ ResolverInv /\ TaskInv

\* Resolve() starts a lookup, or takes it from an entry that is alive.
LEMMA ResolveRecent ==
  ASSUME ResolverInv, NEW h \in Hosts
  PROVE  Recent(Resolve(h), clock) /\ Resolve(h).at # "idle"
<1> DEFINE e == cache[h]
<1>1. clock \in Nat /\ Unexpired(e) /\ h \in Hosts \cup {<<>>} /\ CACHE_TTL \in Nat
  BY KotlinPathAssumption DEF ResolverInv
<1>f. IsFiniteSet({})
  BY FS_EmptySet
<1>2. CASE Alive(e)
  <2> DEFINE l == [at |-> "found", host |-> h, provider |-> 0, found |-> e.addrs,
                   since |-> clock, took |-> e.took]
  <2>1. Resolve(h) = l
    BY <1>2 DEF Resolve, NoLookup
  <2>2. clock < e.expires /\ e.expires \in Nat /\ e.addrs \in SUBSET Address
        /\ e.took \in Nat
    BY <1>1, <1>2 DEF Alive, Unexpired, EntryType
  <2>3. \A a \in e.addrs : a[2] > (clock - e.took) - CACHE_TTL
    <3> SUFFICES ASSUME NEW a \in e.addrs PROVE a[2] > (clock - e.took) - CACHE_TTL
      OBVIOUS
    <3>1. a[2] \in Nat
      BY <2>2 DEF Address
    <3>2. e.expires =< a[2] + CACHE_TTL + e.took
      BY <1>1 DEF Unexpired
    <3> QED BY <1>1, <2>2, <3>1, <3>2
  <2>4. l \in LookupType
    BY <1>1, <2>2 DEF LookupType
  <2>5. IsFiniteSet(e.addrs)
    BY <1>1 DEF Unexpired
  <2>6. Recent(l, clock) /\ l.at # "idle"
    BY <1>1, <2>3, <2>4, <2>5 DEF Recent, Horizon
  <2> QED BY <2>1, <2>6
<1>3. CASE ~Alive(e)
  <2> DEFINE l == [at |-> "A", host |-> h, provider |-> 1, found |-> {},
                   since |-> clock, took |-> 0]
  <2>1. Resolve(h) = l
    BY <1>3 DEF Resolve, NoLookup
  <2>2. l \in LookupType
    BY <1>1 DEF LookupType
  <2>3. Recent(l, clock) /\ l.at # "idle"
    BY <1>1, <1>f, <2>2 DEF Recent
  <2> QED BY <2>1, <2>3
<1> QED BY <1>2, <1>3

\* Going on to another provider forgets what the last one said.
LEMMA NextProviderRecent ==
  ASSUME NEW l, NEW now, Recent(l, now), l.at # "idle"
  PROVE  Recent(NextProvider(l), now) /\ NextProvider(l).at # "idle"
<1>1. l \in LookupType /\ NProviders \in Nat /\ IsFiniteSet({})
  BY KotlinPathAssumption, FS_EmptySet DEF Recent
<1>2. CASE l.provider < NProviders
  <2> DEFINE n == l.provider + 1
             m == [l EXCEPT !.at = "A", !.provider = n, !.found = {}]
  <2>0. n \in Nat
    BY <1>1 DEF LookupType
  <2>3. NextProvider(l) = m
    BY <1>2 DEF NextProvider
  <2> HIDE DEF n
  <2>1. m \in LookupType /\ m.at = "A"
    BY <1>1, <2>0 DEF LookupType
  <2>2. m.found = {} /\ m.since = l.since /\ m.host = l.host
    BY <1>1 DEF LookupType
  <2> HIDE DEF m
  <2> QED BY <1>1, <2>1, <2>2, <2>3 DEF Recent
<1>3. CASE ~(l.provider < NProviders)
  <2> DEFINE m == [l EXCEPT !.at = "system", !.found = {}]
  <2>1. m \in LookupType /\ m.at = "system"
    BY <1>1 DEF LookupType
  <2>2. m.found = {} /\ m.since = l.since /\ m.host = l.host
    BY <1>1 DEF LookupType
  <2>3. NextProvider(l) = m
    BY <1>3 DEF NextProvider
  <2> HIDE DEF m
  <2> QED BY <1>1, <2>1, <2>2, <2>3 DEF Recent
<1> QED BY <1>2, <1>3

\* A lookup that goes on, or ends, with what the servers answered.
FoundNow(l, at, all) == [l EXCEPT !.at = at, !.found = all]

\* What the servers answer now.
LEMMA AnsweredNow ==
  ASSUME NEW now \in Nat, NEW all \in SUBSET {<<4, now>>, <<6, now>>}
  PROVE  /\ all \in SUBSET Address /\ IsFiniteSet(all)
         /\ \A a \in all : a[2] = now
<1>2. \A a \in all : a \in Address /\ a[2] = now
  BY DEF Address
<1>3. IsFiniteSet(all)
  <2>1. IsFiniteSet({<<4, now>>}) /\ IsFiniteSet({<<6, now>>})
    BY FS_Singleton
  <2>2. IsFiniteSet({<<4, now>>} \cup {<<6, now>>})
    BY <2>1, FS_Union
  <2>3. all \subseteq {<<4, now>>} \cup {<<6, now>>}
    OBVIOUS
  <2> QED BY <2>2, <2>3, FS_Subset
<1> QED BY <1>2, <1>3

\* A lookup with addresses that were answered since it began.
LEMMA FoundRecent ==
  ASSUME NEW l, NEW now \in Nat, Recent(l, now), l.at # "idle", NEW at \in {"AAAA", "found"},
         NEW all \in SUBSET Address, IsFiniteSet(all), \A a \in all : a[2] >= l.since
  PROVE  /\ Recent(FoundNow(l, at, all), now)
         /\ FoundNow(l, at, all).at # "idle"
<1> DEFINE m == FoundNow(l, at, all)
<1>1. l \in LookupType /\ CACHE_TTL \in Nat \ {0}
  BY KotlinPathAssumption DEF Recent
<1>2. \A a \in all : a[2] \in Nat
  BY DEF Address
<1>5. m \in LookupType /\ m.at = at /\ m.found = all /\ m.since = l.since
      /\ m.host = l.host /\ m.took = l.took
  BY <1>1 DEF LookupType, FoundNow
<1>6. l.since \in Nat /\ l.since =< now /\ l.host \in Hosts /\ l.took \in Nat
  BY <1>1 DEF Recent, LookupType
<1>7. \A a \in all : a[2] > (l.since - l.took) - CACHE_TTL
  BY <1>1, <1>2, <1>6
<1> HIDE DEF m
<1>8. Recent(m, now)
  BY <1>5, <1>6, <1>7 DEF Recent, Horizon
<1> QED BY <1>5, <1>8 DEF m

\* What a step does to the resolver: caller c's lookup becomes l, and an entry
\* that is written expires in time.
LookStep(c, l) ==
    /\ clock' = clock
    /\ look' = [look EXCEPT ![c] = l]
    /\ \/ cache' = cache
       \/ \E h \in Hosts : \E e : Unexpired(e) /\ cache' = [cache EXCEPT ![h] = e]

\* Such a step keeps the resolver's invariant.
LEMMA LookStepKeeps ==
  ASSUME ResolverInv, NEW c \in Callers, NEW l, Recent(l, clock), LookStep(c, l)
  PROVE  ResolverInv'
<1>1. clock \in Nat /\ look \in [Callers -> LookupType] /\ cache \in [Hosts -> EntryType]
      /\ (\A d \in Callers : Recent(look[d], clock)) /\ (\A h \in Hosts : Unexpired(cache[h]))
  BY DEF ResolverInv
<1>2. clock' = clock /\ look' = [look EXCEPT ![c] = l] /\ l \in LookupType
  BY DEF LookStep, Recent
<1>3. look' \in [Callers -> LookupType] /\ look'[c] = l
      /\ \A d \in Callers : d # c => look'[d] = look[d]
  BY <1>1, <1>2
<1>4. \A d \in Callers : Recent(look'[d], clock')
  BY <1>1, <1>2, <1>3
<1>5. cache' \in [Hosts -> EntryType] /\ \A h \in Hosts : Unexpired(cache'[h])
  <2>1. CASE cache' = cache
    BY <1>1, <2>1
  <2>2. CASE \E h \in Hosts : \E e : Unexpired(e) /\ cache' = [cache EXCEPT ![h] = e]
    <3>0. PICK h \in Hosts : \E e : Unexpired(e) /\ cache' = [cache EXCEPT ![h] = e]
      BY <2>2
    <3>1. PICK e : Unexpired(e) /\ cache' = [cache EXCEPT ![h] = e]
      BY <3>0
    <3>2. e \in EntryType
      BY <3>1 DEF Unexpired
    <3>3. cache' \in [Hosts -> EntryType] /\ cache'[h] = e
          /\ \A g \in Hosts : g # h => cache'[g] = cache[g]
      BY <1>1, <3>1, <3>2
    <3> QED BY <1>1, <3>1, <3>3
  <2> QED BY <2>1, <2>2 DEF LookStep
<1>6. clock' \in Nat
  BY <1>1, <1>2
<1> QED BY <1>3, <1>4, <1>5, <1>6 DEF ResolverInv

\* A task's lookup is left alone unless it is under way, when it stays so.
TaskLookupKept ==
    \/ look'["task"] = look["task"]
    \/ look["task"].at \in {"A", "AAAA", "system"} /\ look'["task"].at # "idle"

\* A step of the monitor's lookup does not touch the task's.
LEMMA LookStepTask ==
  ASSUME ResolverInv, NEW c \in Callers, NEW l, LookStep(c, l),
         c = "task" => look["task"].at \in {"A", "AAAA", "system"} /\ l.at # "idle"
  PROVE  TaskLookupKept
<1>1. look \in [Callers -> LookupType] /\ look' = [look EXCEPT ![c] = l]
  BY DEF ResolverInv, LookStep
<1> QED BY <1>1 DEF TaskLookupKept, Callers

\* The queries and the system's resolver keep the resolver's invariant.
LEMMA QueryStep ==
  ASSUME ResolverInv, NEW c \in DOMAIN look, queryA(c) \/ queryAAAA(c) \/ getAllByName(c)
  PROVE  ResolverInv' /\ TaskLookupKept
<1> DEFINE l == look[c]
<1>1. c \in Callers /\ clock \in Nat /\ Recent(l, clock) /\ l \in LookupType
  BY DEF ResolverInv
<1>2. l.at \in {"A", "AAAA", "system"} /\ l.at # "idle"
  BY DEF queryA, queryAAAA, getAllByName
<1>3. Recent(NextProvider(l), clock) /\ NextProvider(l).at # "idle"
  BY <1>1, <1>2, NextProviderRecent
<1>4. ASSUME NEW m, Recent(m, clock), m.at # "idle", LookStep(c, m)
      PROVE  ResolverInv' /\ TaskLookupKept
  <2>1. ResolverInv'
    BY <1>1, <1>4, LookStepKeeps
  <2>2. TaskLookupKept
    BY <1>1, <1>2, <1>4, LookStepTask
  <2> QED BY <2>1, <2>2
<1>5. ASSUME look' = [look EXCEPT ![c] = NextProvider(@)], clock' = clock, cache' = cache
      PROVE  ResolverInv' /\ TaskLookupKept
  <2>1. LookStep(c, NextProvider(l))
    BY <1>5 DEF LookStep
  <2> QED BY <1>3, <1>4, <2>1
<1>6. ASSUME NEW at \in {"AAAA", "found"}, NEW all \in SUBSET Address, IsFiniteSet(all),
             \A a \in all : a[2] >= l.since, clock' = clock,
             look' = [look EXCEPT ![c].at = at, ![c].found = all],
             \/ cache' = cache
             \/ cache' = [cache EXCEPT ![l.host] =
                            [addrs |-> all, expires |-> clock + CACHE_TTL,
                             took |-> clock - l.since]]
      PROVE  ResolverInv' /\ TaskLookupKept
  <2> DEFINE m == FoundNow(l, at, all)
             e == [addrs |-> all, expires |-> clock + CACHE_TTL, took |-> clock - l.since]
  <2>1. Recent(m, clock) /\ m.at # "idle"
    BY <1>1, <1>2, <1>6, FoundRecent
  <2>2. look' = [look EXCEPT ![c] = m]
    <3>1. look \in [Callers -> LookupType]
      BY DEF ResolverInv
    <3>2. [look EXCEPT ![c].at = at, ![c].found = all]
             = [look EXCEPT ![c] = [l EXCEPT !.at = at, !.found = all]]
      BY <1>1, <3>1
    <3> QED BY <1>6, <3>2 DEF FoundNow
  <2>3. Unexpired(e)
    <3>1. CACHE_TTL \in Nat /\ l.since \in Nat /\ l.since =< clock
      BY <1>1, KotlinPathAssumption DEF Recent, LookupType
    <3>2. clock + CACHE_TTL \in Nat /\ clock - l.since \in Nat
      BY <3>1, <1>1
    <3>3. \A a \in all : clock + CACHE_TTL =< a[2] + CACHE_TTL + (clock - l.since)
      <4>1. \A a \in all : a[2] \in Nat
        BY DEF Address
      <4> QED BY <1>1, <1>6, <3>1, <4>1
    <3>4. e \in EntryType
      BY <3>2 DEF EntryType
    <3> QED BY <1>6, <3>3, <3>4 DEF Unexpired
  <2>4. l.host \in Hosts
    BY <1>1, <1>2 DEF Recent
  <2> HIDE DEF m, e
  <2>5. cache' = cache \/ cache' = [cache EXCEPT ![l.host] = e]
    BY <1>6 DEF e
  <2>6. LookStep(c, m)
    BY <1>6, <2>2, <2>3, <2>4, <2>5 DEF LookStep
  <2> QED BY <1>4, <2>1, <2>6
<1>n. /\ l.since \in Nat /\ l.since =< clock
      /\ l.found \in SUBSET Address /\ IsFiniteSet(l.found)
      /\ \A a \in l.found : a[2] >= l.since
  BY <1>1, <1>2 DEF Recent, LookupType
<1>7. CASE queryA(c)
  <2>1. CASE look' = [look EXCEPT ![c] = NextProvider(@)]
    BY <1>5, <1>7, <2>1 DEF queryA
  <2>2. ASSUME NEW all \in SUBSET {<<4, clock>>},
               look' = [look EXCEPT ![c].at = "AAAA", ![c].found = all]
        PROVE  ResolverInv' /\ TaskLookupKept
    <3>1. all \in SUBSET Address /\ IsFiniteSet(all) /\ \A a \in all : a[2] = clock
      <4>1. all \in SUBSET {<<4, clock>>, <<6, clock>>}
        OBVIOUS
      <4> QED BY <1>1, <4>1, AnsweredNow
    <3>2. clock' = clock /\ cache' = cache
      BY <1>7 DEF queryA
    <3>3. \A a \in all : a[2] >= l.since
      BY <1>1, <1>n, <3>1
    <3> QED BY <1>6, <2>2, <3>1, <3>2, <3>3
  <2> QED BY <1>7, <2>1, <2>2 DEF queryA
<1>8. CASE queryAAAA(c)
  <2>1. CASE look' = [look EXCEPT ![c] = NextProvider(@)] /\ cache' = cache
    BY <1>5, <1>8, <2>1 DEF queryAAAA
  <2>2. ASSUME NEW v6 \in SUBSET {<<6, clock>>}, NEW all, all = l.found \cup v6,
               look' = [look EXCEPT ![c].at = "found", ![c].found = all],
               cache' = [cache EXCEPT ![l.host] =
                           [addrs |-> all, expires |-> clock + CACHE_TTL,
                            took |-> clock - l.since]]
        PROVE  ResolverInv' /\ TaskLookupKept
    <3>1. v6 \in SUBSET Address /\ IsFiniteSet(v6) /\ \A a \in v6 : a[2] = clock
      <4>1. v6 \in SUBSET {<<4, clock>>, <<6, clock>>}
        OBVIOUS
      <4> QED BY <1>1, <4>1, AnsweredNow
    <3>2. clock' = clock
      BY <1>8 DEF queryAAAA
    <3>3. \A a \in v6 : a[2] >= l.since
      BY <1>1, <1>n, <3>1
    <3>4. IsFiniteSet(all)
      BY <1>n, <2>2, <3>1, FS_Union
    <3>5. all \in SUBSET Address /\ \A a \in all : a[2] >= l.since
      BY <1>n, <2>2, <3>1, <3>3
    <3> QED BY <1>6, <2>2, <3>2, <3>4, <3>5
  <2>3. PICK v6 \in SUBSET {<<6, clock>>} :
          \/ look' = [look EXCEPT ![c] = NextProvider(@)] /\ cache' = cache
          \/ /\ look' = [look EXCEPT ![c].at = "found", ![c].found = l.found \cup v6]
             /\ cache' = [cache EXCEPT ![l.host] =
                            [addrs |-> l.found \cup v6, expires |-> clock + CACHE_TTL,
                             took |-> clock - l.since]]
    BY <1>8 DEF queryAAAA
  <2> QED BY <2>1, <2>2, <2>3
<1>9. CASE getAllByName(c)
  <2>1. PICK all \in SUBSET {<<4, clock>>, <<6, clock>>} :
            look' = [look EXCEPT ![c].at = "found", ![c].found = all]
    BY <1>9 DEF getAllByName
  <2>2. all \in SUBSET Address /\ IsFiniteSet(all) /\ \A a \in all : a[2] = clock
    BY <1>1, AnsweredNow
  <2>3. clock' = clock /\ cache' = cache
    BY <1>9 DEF getAllByName
  <2>4. \A a \in all : a[2] >= l.since
    BY <1>1, <1>n, <2>2
  <2> QED BY <1>6, <2>1, <2>2, <2>3, <2>4
<1> QED BY <1>7, <1>8, <1>9

\* A lookup that is over.
LEMMA NoLookupRecent ==
  ASSUME NEW now \in Nat
  PROVE  Recent(NoLookup, now)
<1>1. IsFiniteSet({})
  BY FS_EmptySet
<1>2. NoLookup \in LookupType
  BY DEF NoLookup, LookupType
<1> QED BY <1>1, <1>2 DEF NoLookup, Recent

\* The connectivity monitor keeps the resolver's invariant.
LEMMA MonitorStep ==
  ASSUME ResolverInv, testConnectivity
  PROVE  ResolverInv' /\ TaskLookupKept
<1>1. "monitor" \in Callers /\ clock \in Nat
  BY DEF Callers, ResolverInv
<1>2. ASSUME NEW m, Recent(m, clock), look' = [look EXCEPT !["monitor"] = m]
      PROVE  ResolverInv' /\ TaskLookupKept
  <2>1. LookStep("monitor", m)
    BY <1>2 DEF LookStep, testConnectivity
  <2>2. ResolverInv'
    BY <1>1, <1>2, <2>1, LookStepKeeps
  <2>3. TaskLookupKept
    BY <1>1, <1>2, <2>1, LookStepTask
  <2> QED BY <2>2, <2>3
<1>3. ASSUME NEW h \in Hosts, look' = [look EXCEPT !["monitor"] = Resolve(h)]
      PROVE  ResolverInv' /\ TaskLookupKept
  BY <1>2, <1>3, ResolveRecent
<1>4. CASE look' = [look EXCEPT !["monitor"] = NoLookup]
  BY <1>1, <1>2, <1>4, NoLookupRecent
<1> QED BY <1>3, <1>4 DEF testConnectivity

-----------------------------------------------------------------------------
(* The steps of the task.                                                  *)

\* A step elsewhere leaves the task as it is.
LEMMA TaskKept ==
  ASSUME TaskInv, TaskLookupKept, cur' = cur, out' = out
  PROVE  TaskInv'
<1>1. CASE Idle(cur, out)
  BY <1>1 DEF TaskInv, Idle
<1>2. CASE Busy(cur, out, look["task"])
  <2> DEFINE l == look["task"]
             m == look'["task"]
  <2> HIDE DEF l, m
  <2>1. m = l \/ (l.at \in {"A", "AAAA", "system"} /\ m.at # "idle")
    BY DEF TaskLookupKept, l, m
  <2>2. Busy(cur, out, l)
    BY <1>2 DEF l
  <2>3. Asking(cur, out, l) => Asking(cur, out, m)
    BY <2>1 DEF Asking
  <2>4. Writing(cur, out, l) => Writing(cur, out, m)
    <3>1. CASE m = l
      BY <3>1
    <3>2. CASE l.at # "found"
      BY <3>2 DEF Writing
    <3> QED BY <2>1, <3>1, <3>2
  <2>5. Busy(cur, out, m)
    BY <2>2, <2>3, <2>4 DEF Busy
  <2> QED BY <2>5 DEF TaskInv, m
<1> QED BY <1>1, <1>2 DEF TaskInv

\* An empty list.
LEMMA RangeOfNone == Range(<<>>) = {}
BY DEF Range

\* A task enters with what process() decided.
LEMMA EnterBusy ==
  ASSUME NEW t \in [pkt : Packets, cfg : Configs], NEW at \in {"lookup", "write"},
         NEW todo \in Seq(Wide), Enter(t, at, todo)
  PROVE  /\ cur' \in TaskType
         /\ cur'.pkt = t.pkt /\ cur'.cfg = t.cfg /\ cur'.at = at /\ cur'.todo = todo
         /\ ~cur'.failed
<1>1. FALSE \in BOOLEAN
  OBVIOUS
<1> QED BY <1>1 DEF Enter, TaskType

\* A task enters the monitor: what it is to write is sound and whole, or it asks.
LEMMA ProcessStep ==
  ASSUME PathInv, NEW i \in DOMAIN queue, process(i)
  PROVE  PathInv'
<1> DEFINE t == queue[i]
           p == t.pkt
<1>1. queue \in Seq([pkt : Packets, cfg : Configs]) /\ i \in 1..Len(queue)
  BY DEF PathInv, QueueInv
<1>2. t \in [pkt : Packets, cfg : Configs] /\ p \in Packets
  <2> DEFINE T == [pkt : Packets, cfg : Configs]
  <2> HIDE DEF T
  <2>1. queue[i] \in T
    <3>1. queue \in Seq(T)
      BY <1>1 DEF T
    <3> QED BY <1>1, <3>1
  <2>2. \A x \in T : x.pkt \in Packets
    BY DEF T
  <2> QED BY <2>1, <2>2 DEF T
<1>3. QueueInv'
  <2>1. queue' = RemoveAt(queue, i)
    BY DEF process
  <2> DEFINE T == [pkt : Packets, cfg : Configs]
             a == SubSeq(queue, 1, i - 1)
             b == SubSeq(queue, i + 1, Len(queue))
  <2> HIDE DEF T
  <2>2. queue \in Seq(T) /\ Len(queue) \in Nat
    BY <1>1 DEF T
  <2>3. a \in Seq(T) /\ b \in Seq(T)
    BY <1>1, <2>2
  <2>4. a \o b \in Seq(T)
    BY <2>3
  <2>5. queue' = a \o b
    BY <2>1 DEF RemoveAt
  <2> QED BY <2>4, <2>5 DEF QueueInv, T
<1>i. cur.at = "idle" /\ out' = out
  BY DEF process
<1>4. out = <<>> /\ out' = <<>> /\ out' \in Seq(Wide) /\ <<>> \in Seq(Wide)
  <2>1. Idle(cur, out) \/ cur \in TaskType
    BY DEF PathInv, TaskInv, Busy
  <2>2. \A x \in TaskType : x.at # "idle"
    BY DEF TaskType
  <2>3. out = <<>> /\ out' = <<>>
    BY <1>i, <2>1, <2>2 DEF Idle
  <2> QED BY <2>3
<1>5. ASSUME look' = look
      PROVE  ResolverInv'
  BY <1>5 DEF PathInv, ResolverInv, process
<1>6. CASE ~Intercepts(p, t.cfg)
  <2>1. PICK ps \in processPacket(p, t.cfg) : Enter(t, "write", ps)
    BY <1>6 DEF process
  <2>2. ps \in Seq(Wide) /\ (\A q \in Range(ps) : Sound(q, p)) /\ Whole(Range(ps), p)
    BY <1>2, ProcessSound
  <2>3. /\ cur' \in TaskType
        /\ cur'.pkt = p /\ cur'.cfg = t.cfg /\ cur'.at = "write" /\ cur'.todo = ps
        /\ ~cur'.failed
    BY <1>2, <2>1, <2>2, EnterBusy
  <2>4. Ahead(cur', out') = Range(ps)
    BY <1>4, <2>3, RangeOfNone DEF Ahead
  <2>5. Writing(cur', out', look'["task"])
    BY <1>6, <2>2, <2>3, <2>4 DEF Writing
  <2>6. Busy(cur', out', look'["task"])
    BY <1>4, <2>3, <2>5 DEF Busy
  <2>7. look' = look
    BY <1>6 DEF process
  <2> QED BY <1>3, <1>5, <2>6, <2>7 DEF PathInv, TaskInv
<1>7. CASE Intercepts(p, t.cfg) /\ p.dns = <<>>
  <2>1. Enter(t, "write", <<>>) /\ look' = look
    BY <1>7 DEF process
  <2> DEFINE none == <<>>
  <2>n. none \in Seq(Wide) /\ Enter(t, "write", none) /\ Range(none) = {} /\ Len(none) = 0
        /\ out' = none
    BY <2>1, <1>4, RangeOfNone
  <2> HIDE DEF none
  <2>3. /\ cur' \in TaskType
        /\ cur'.pkt = p /\ cur'.cfg = t.cfg /\ cur'.at = "write" /\ cur'.todo = none
        /\ ~cur'.failed
    BY <1>2, <2>n, EnterBusy
  <2>4. Ahead(cur', out') = {}
    BY <2>n, <2>3 DEF Ahead
  <2>w. Whole({}, p)
    BY <1>7 DEF Whole, Intercepts
  <2>5. Writing(cur', out', look'["task"])
    BY <1>7, <2>w, <2>n, <2>3, <2>4 DEF Writing
  <2>6. Busy(cur', out', look'["task"])
    BY <1>4, <2>3, <2>5 DEF Busy
  <2> QED BY <1>3, <1>5, <2>1, <2>6 DEF PathInv, TaskInv
<1>8. CASE Intercepts(p, t.cfg) /\ p.dns # <<>>
  <2>1. Enter(t, "lookup", <<>>) /\ look' = [look EXCEPT !["task"] = Resolve(p.dns.host)]
    BY <1>8 DEF process
  <2>h. p.dns.host \in Hosts
    BY <1>2, <1>8, WideOf DEF Packet, DnsQuery
  <2>r. ResolverInv /\ "task" \in Callers
    BY DEF PathInv, Callers
  <2> DEFINE l == Resolve(p.dns.host)
  <2>l. Recent(l, clock) /\ l.at # "idle"
    BY <2>h, <2>r, ResolveRecent
  <2> HIDE DEF l
  <2>2. LookStep("task", l)
    BY <2>1 DEF LookStep, process, l
  <2>k. ResolverInv'
    BY <2>l, <2>r, <2>2, LookStepKeeps
  <2>m. look'["task"] = l
    BY <2>r, <2>1 DEF ResolverInv, l
  <2> DEFINE none == <<>>
  <2>n. none \in Seq(Wide) /\ Enter(t, "lookup", none) /\ out' = none
    BY <2>1, <1>4
  <2> HIDE DEF none
  <2>3. /\ cur' \in TaskType
        /\ cur'.pkt = p /\ cur'.cfg = t.cfg /\ cur'.at = "lookup" /\ cur'.todo = none
        /\ ~cur'.failed
    BY <1>2, <2>n, EnterBusy
  <2>5. Asking(cur', out', look'["task"])
    BY <1>4, <1>8, <2>l, <2>m, <2>3 DEF Asking, none
  <2>6. Busy(cur', out', look'["task"])
    BY <1>4, <2>3, <2>5 DEF Busy
  <2> QED BY <1>3, <2>k, <2>6 DEF PathInv, TaskInv
<1> QED BY <1>6, <1>7, <1>8 DEF process

\* The answer to a query is sound, and the only packet.
LEMMA AnswerStep ==
  ASSUME PathInv, answer
  PROVE  PathInv'
<1> DEFINE l == look["task"]
           p == cur.pkt
           w == wrapAsDnsResponse(p, l.found)
<1>1. cur.at = "lookup" /\ l.at = "found" /\ look' = look /\ out' = out
      /\ cur' = [cur EXCEPT !.at = "write", !.todo = <<w>>]
  BY DEF answer
<1>2. Busy(cur, out, l)
  BY <1>1 DEF PathInv, TaskInv, Idle, NoTask
<1>3. cur \in TaskType /\ out = <<>> /\ Intercepts(p, cur.cfg) /\ p.dns # <<>> /\ ~cur.failed
  BY <1>1, <1>2 DEF Busy, Asking
<1>4. p \in Packets
  BY <1>3 DEF TaskType
<1>5. Recent(l, clock)
  BY DEF PathInv, ResolverInv, Callers
<1>6. w \in Wide /\ Accepted(w) /\ AnswerTo(w, p, Horizon(l))
  <2> DEFINE S == l.found
             since == Horizon(l)
  <2>1. S \in SUBSET Address /\ IsFiniteSet(S) /\ \A a \in S : a[2] > since - CACHE_TTL
    BY <1>5 DEF Recent, LookupType
  <2>2. w = wrapAsDnsResponse(p, S)
    OBVIOUS
  <2> HIDE DEF S, since, w, p
  <2>3. w \in Wide /\ Accepted(w) /\ AnswerTo(w, p, since)
    BY <1>3, <1>4, <2>1, <2>2, ResponseSound
  <2> QED BY <2>3 DEF since
<1> HIDE DEF w
<1>7. cur' \in TaskType /\ cur'.pkt = p /\ cur'.cfg = cur.cfg /\ cur'.at = "write"
      /\ cur'.todo = <<w>> /\ cur'.failed = cur.failed
  <2>1. <<w>> \in Seq(Wide)
    BY <1>6
  <2> DEFINE one == <<w>>
  <2> HIDE DEF one
  <2>2. one \in Seq(Wide) /\ cur' = [cur EXCEPT !.at = "write", !.todo = one]
    BY <1>1, <2>1 DEF one
  <2>3. cur' \in TaskType /\ cur'.pkt = p /\ cur'.cfg = cur.cfg /\ cur'.at = "write"
        /\ cur'.todo = one /\ cur'.failed = cur.failed
    BY <1>3, <2>2 DEF TaskType
  <2> QED BY <2>3 DEF one
<1>8. Ahead(cur', out') = {w}
  BY <1>1, <1>3, <1>7, RangeOfNone, RangeOfOne DEF Ahead
<1>9. Sound(w, p) /\ Whole({w}, p)
  BY <1>3, <1>6 DEF Sound, Whole, Intercepts
<1>10. Len(out') + Len(cur'.todo) =< 1
  <2>1. Len(out') = 0 /\ Len(cur'.todo) = 1
    BY <1>1, <1>3, <1>7
  <2> QED BY <2>1
<1>11. Writing(cur', out', l)
  BY <1>1, <1>3, <1>6, <1>7, <1>8, <1>9, <1>10 DEF Writing
<1>12. out' \in Seq(Wide)
  BY <1>1, <1>2 DEF Busy
<1>13. Busy(cur', out', look'["task"])
  BY <1>1, <1>7, <1>11, <1>12 DEF Busy
<1>14. ResolverInv' /\ QueueInv'
  BY DEF PathInv, ResolverInv, QueueInv, answer
<1> QED BY <1>13, <1>14 DEF PathInv, TaskInv

\* Moving the head of one list to the end of the other.
LEMMA MoveHead ==
  ASSUME NEW S, NEW a \in Seq(S), NEW b \in Seq(S), b # <<>>
  PROVE  /\ Append(a, Head(b)) \in Seq(S) /\ Tail(b) \in Seq(S)
         /\ Len(Append(a, Head(b))) + Len(Tail(b)) = Len(a) + Len(b)
         /\ Range(Append(a, Head(b))) \cup Range(Tail(b)) = Range(a) \cup Range(b)
<1> DEFINE m == Append(a, Head(b))
           n == Tail(b)
<1>1. m \in Seq(S) /\ n \in Seq(S) /\ Len(m) = Len(a) + 1 /\ Len(n) = Len(b) - 1
      /\ Len(a) \in Nat /\ Len(b) \in Nat /\ Len(b) >= 1
  OBVIOUS
<1>2. /\ \A i \in 1..Len(a) : m[i] = a[i]
      /\ m[Len(a) + 1] = b[1]
      /\ \A i \in 1..Len(b) - 1 : n[i] = b[i + 1]
  OBVIOUS
<1>3. DOMAIN a = 1..Len(a) /\ DOMAIN b = 1..Len(b) /\ DOMAIN m = 1..Len(a) + 1
      /\ DOMAIN n = 1..Len(b) - 1
  BY <1>1
<1> HIDE DEF m, n
<1>4. Range(m) = Range(a) \cup {b[1]}
  <2>1. \A i \in DOMAIN m : m[i] \in Range(a) \cup {b[1]}
    BY <1>1, <1>2, <1>3 DEF Range
  <2>2. \A i \in DOMAIN a : a[i] \in Range(m)
    <3> SUFFICES ASSUME NEW i \in DOMAIN a PROVE a[i] \in Range(m)
      OBVIOUS
    <3>1. i \in DOMAIN m /\ m[i] = a[i]
      BY <1>1, <1>2, <1>3
    <3> QED BY <3>1 DEF Range
  <2>3. b[1] \in Range(m)
    <3>1. Len(a) + 1 \in DOMAIN m
      BY <1>1, <1>3
    <3> QED BY <3>1, <1>2 DEF Range
  <2> QED BY <2>1, <2>2, <2>3 DEF Range
<1>5. {b[1]} \cup Range(n) = Range(b)
  <2>1. \A i \in DOMAIN n : n[i] \in Range(b)
    <3> SUFFICES ASSUME NEW i \in DOMAIN n PROVE n[i] \in Range(b)
      OBVIOUS
    <3>1. i + 1 \in DOMAIN b /\ n[i] = b[i + 1]
      BY <1>1, <1>2, <1>3
    <3> QED BY <3>1 DEF Range
  <2>2. \A i \in DOMAIN b : b[i] \in {b[1]} \cup Range(n)
    <3> SUFFICES ASSUME NEW i \in DOMAIN b, i # 1 PROVE b[i] \in Range(n)
      OBVIOUS
    <3>1. i - 1 \in DOMAIN n /\ (i - 1) + 1 = i
      BY <1>1, <1>3
    <3>2. n[i - 1] = b[i]
      BY <1>2, <1>3, <3>1
    <3> QED BY <3>1, <3>2 DEF Range
  <2>3. b[1] \in Range(b)
    <3>1. 1 \in DOMAIN b
      BY <1>1, <1>3
    <3> QED BY <3>1 DEF Range
  <2> QED BY <2>1, <2>2, <2>3 DEF Range
<1>6. Len(m) + Len(n) = Len(a) + Len(b)
  BY <1>1
<1>7. Range(m) \cup Range(n) = Range(a) \cup Range(b)
  BY <1>4, <1>5
<1> QED BY <1>1, <1>6, <1>7 DEF m, n

\* A write moves a packet from what is to come to what is done; a failed one
\* leaves at most the packet as it came, and nothing of a query.
LEMMA WriteStep ==
  ASSUME PathInv, write
  PROVE  PathInv'
<1> DEFINE l == look["task"]
           p == cur.pkt
           todo == cur.todo
<1>1. cur.at = "write" /\ todo # <<>> /\ look' = look
  BY DEF write
<1>2. Busy(cur, out, l)
  BY <1>1 DEF PathInv, TaskInv, Idle, NoTask
<1>3. cur \in TaskType /\ out \in Seq(Wide) /\ Writing(cur, out, l)
  BY <1>1, <1>2 DEF Busy
<1>4. p \in Packets /\ p \in Wide /\ todo \in Seq(Wide) /\ cur.failed \in BOOLEAN
      /\ cur.cfg \in Configs
  <2>1. p \in Packets /\ todo \in Seq(Wide) /\ cur.failed \in BOOLEAN /\ cur.cfg \in Configs
    BY <1>3 DEF TaskType
  <2> QED BY <2>1, WideOf
<1>5. ResolverInv' /\ QueueInv'
  BY DEF PathInv, ResolverInv, QueueInv, write
<1>6. ASSUME NEW t, cur' = t, t \in TaskType, t.at = "write", out' \in Seq(Wide),
             Writing(t, out', l)
      PROVE  PathInv'
  <2>1. Busy(cur', out', look'["task"])
    BY <1>1, <1>6 DEF Busy
  <2> QED BY <1>5, <2>1 DEF PathInv, TaskInv
<1>7. CASE out' = Append(out, Head(todo)) /\ cur' = [cur EXCEPT !.todo = Tail(@)]
  <2> DEFINE n == Tail(todo)
             m == Append(out, Head(todo))
             t == [cur EXCEPT !.todo = n]
  <2>1. /\ m \in Seq(Wide) /\ n \in Seq(Wide)
        /\ Len(m) + Len(n) = Len(out) + Len(todo)
        /\ Range(m) \cup Range(n) = Range(out) \cup Range(todo)
    <3> HIDE DEF todo
    <3> QED BY <1>1, <1>3, <1>4, MoveHead
  <2>2. cur' = t /\ out' = m
    BY <1>7
  <2> HIDE DEF n, m
  <2>3. t \in TaskType /\ t.pkt = p /\ t.cfg = cur.cfg /\ t.at = "write" /\ t.todo = n
        /\ t.failed = cur.failed
    BY <1>1, <1>3, <2>1 DEF TaskType
  <2> HIDE DEF t
  <2>4. Ahead(t, m) = Ahead(cur, out)
    BY <2>1, <2>3 DEF Ahead
  <2>5. Len(m) + Len(t.todo) = Len(out) + Len(cur.todo)
    BY <2>1, <2>3
  <2>6. Writing(t, m, l)
    BY <1>3, <2>3, <2>4, <2>5 DEF Writing
  <2> QED BY <1>6, <2>1, <2>2, <2>3, <2>6
<1>8. CASE /\ out' = out
           /\ cur' = [cur EXCEPT !.failed = TRUE, !.todo = IF cur.failed THEN <<>> ELSE Retry]
  <2> DEFINE n == IF cur.failed THEN <<>> ELSE Retry
             t == [cur EXCEPT !.failed = TRUE, !.todo = n]
  <2>1. n = <<>> \/ (n = <<p>> /\ l.at # "found")
    BY DEF Retry
  <2>2. n \in Seq(Wide) /\ Range(n) \subseteq {p} /\ (Range(n) # {} => l.at # "found")
    <3> HIDE DEF n, p, l
    <3>1. CASE n = <<>>
      BY <3>1, RangeOfNone
    <3>2. CASE n = <<p>> /\ l.at # "found"
      <4>1. Range(n) = {p}
        BY <3>2, RangeOfOne
      <4>2. n \in Seq(Wide)
        BY <1>4, <3>2
      <4> QED BY <4>1, <4>2, <3>2
    <3> QED BY <2>1, <3>1, <3>2
  <2>3. cur' = t
    BY <1>8
  <2>i. n = <<>> => Len(n) = 0
    OBVIOUS
  <2> HIDE DEF n
  <2>4. t \in TaskType /\ t.pkt = p /\ t.cfg = cur.cfg /\ t.at = "write" /\ t.todo = n
        /\ t.failed
    BY <1>1, <1>3, <2>2 DEF TaskType
  <2> HIDE DEF t
  <2>5. Ahead(t, out) \subseteq Range(out) \cup {p}
    BY <2>2, <2>4 DEF Ahead
  <2>6. \A q \in Ahead(t, out) : Sound(q, p)
    <3>1. Sound(p, p)
      BY DEF Sound
    <3>2. \A q \in Range(out) : Sound(q, p)
      BY <1>3 DEF Writing, Ahead
    <3> QED BY <2>5, <3>1, <3>2
  <2>7. ASSUME Intercepts(p, cur.cfg)
        PROVE  /\ Len(out) + Len(n) =< 1
               /\ p.dns = <<>> => Ahead(t, out) = {}
               /\ p.dns # <<>> => l.at = "found"
               /\ \A q \in Ahead(t, out) : AnswerTo(q, p, Horizon(l))
    <3>1. p.dns # <<>>
      <4>1. Len(todo) \in Nat /\ Len(todo) >= 1
        BY <1>1, <1>4
      <4>2. Head(todo) \in Range(todo)
        BY <1>1, <1>4, <4>1 DEF Range
      <4>3. Ahead(cur, out) # {}
        BY <4>2 DEF Ahead
      <4> QED BY <1>3, <2>7, <4>3 DEF Writing
    <3>2. l.at = "found" /\ Len(out) + Len(todo) =< 1
          /\ \A q \in Ahead(cur, out) : AnswerTo(q, p, Horizon(l))
      BY <1>3, <2>7, <3>1 DEF Writing
    <3>3. n = <<>> /\ Len(n) = 0 /\ Range(n) = {}
      BY <2>1, <2>i, <2>2, <3>2
    <3>4. Ahead(t, out) \subseteq Ahead(cur, out)
      BY <2>4, <3>3 DEF Ahead
    <3>5. Len(out) + Len(n) =< 1
      <4>1. Len(out) \in Nat /\ Len(todo) \in Nat
        BY <1>3, <1>4
      <4> QED BY <3>2, <3>3, <4>1
    <3> QED BY <3>1, <3>2, <3>4, <3>5
  <2>8. Writing(t, out, l)
    BY <2>4, <2>6, <2>7 DEF Writing
  <2> QED BY <1>3, <1>6, <1>8, <2>3, <2>4, <2>8
<1> QED BY <1>7, <1>8 DEF write

\* The next task finds nothing of this one.
LEMMA LeaveStep ==
  ASSUME PathInv, leave
  PROVE  PathInv'
<1>1. ResolverInv /\ QueueInv /\ "task" \in Callers /\ clock \in Nat
  BY DEF PathInv, ResolverInv, Callers
<1>2. LookStep("task", NoLookup)
  BY DEF leave, LookStep
<1>3. Recent(NoLookup, clock)
  BY <1>1, NoLookupRecent
<1>4. ResolverInv'
  BY <1>1, <1>2, <1>3, LookStepKeeps
<1>5. QueueInv'
  BY <1>1 DEF QueueInv, leave
<1>6. Idle(cur', out')
  BY DEF leave, Idle
<1> QED BY <1>4, <1>5, <1>6 DEF PathInv, TaskInv

-----------------------------------------------------------------------------
(* The invariant, and what it says.                                        *)

\* The inductive invariant holds from the start.
LEMMA PathInit == Init => PathInv
<1> SUFFICES ASSUME Init PROVE PathInv
  OBVIOUS
<1>1. QueueInv
  BY DEF Init, QueueInv
<1>2. Idle(cur, out)
  BY DEF Init, Idle
<1>3. clock \in Nat
  BY DEF Init
<1>4. Recent(NoLookup, clock)
  BY <1>3, NoLookupRecent
<1>5. look \in [Callers -> LookupType] /\ \A c \in Callers : Recent(look[c], clock)
  <2>1. look = [c \in Callers |-> NoLookup] /\ NoLookup \in LookupType
    BY <1>4 DEF Init, Callers, Recent
  <2> QED BY <1>4, <2>1
<1>6. cache \in [Hosts -> EntryType] /\ \A h \in Hosts : Unexpired(cache[h])
  <2> DEFINE e == [addrs |-> {}, expires |-> 0, took |-> 0]
  <2>1. e \in EntryType /\ e.addrs = {}
    BY DEF EntryType
  <2>2. cache = [h \in Hosts |-> e]
    BY DEF Init
  <2> HIDE DEF e
  <2>3. Unexpired(e)
    BY <2>1, FS_EmptySet DEF Unexpired
  <2> QED BY <2>1, <2>2, <2>3
<1> QED BY <1>1, <1>2, <1>3, <1>5, <1>6 DEF PathInv, ResolverInv, TaskInv

\* Every step keeps it.
LEMMA PathNext == PathInv /\ [Next]_vars => PathInv'
<1> SUFFICES ASSUME PathInv, [Next]_vars PROVE PathInv'
  OBVIOUS
<1>i. QueueInv /\ ResolverInv /\ TaskInv
  BY DEF PathInv
<1>1. ASSUME ResolverInv', TaskLookupKept, cur' = cur, out' = out, QueueInv'
      PROVE  PathInv'
  BY <1>i, <1>1, TaskKept DEF PathInv
<1>2. ASSUME look' = look, cache' = cache, clock' = clock
      PROVE  ResolverInv' /\ TaskLookupKept
  BY <1>i, <1>2 DEF ResolverInv, TaskLookupKept
<1>3. queue' = queue => QueueInv'
  BY <1>i DEF QueueInv
<1>4. CASE read
  <2>1. PICK p \in Packets, cfg \in Configs : queue' = Append(queue, [pkt |-> p, cfg |-> cfg])
    BY <1>4 DEF read
  <2> DEFINE T == [pkt : Packets, cfg : Configs]
             t == [pkt |-> p, cfg |-> cfg]
  <2>2. t \in T /\ queue \in Seq(T) /\ queue' = Append(queue, t)
    BY <1>i, <2>1 DEF QueueInv
  <2> HIDE DEF T, t
  <2>3. queue' \in Seq(T)
    BY <2>2
  <2>4. QueueInv'
    BY <2>3 DEF QueueInv, T
  <2> QED BY <1>1, <1>2, <1>4, <2>4 DEF read
<1>5. CASE stopVpn
  BY <1>1, <1>2, <1>3, <1>5 DEF stopVpn
<1>6. CASE tick
  <2>1. clock \in Nat /\ clock' = clock + 1 /\ look' = look /\ cache' = cache
    BY <1>i, <1>6 DEF tick, ResolverInv
  <2>2. \A c \in Callers : Recent(look[c], clock')
    <3> SUFFICES ASSUME NEW c \in Callers PROVE Recent(look[c], clock')
      OBVIOUS
    <3>1. Recent(look[c], clock)
      BY <1>i DEF ResolverInv
    <3>2. look[c].since \in Nat /\ look[c].since =< clock
      BY <3>1 DEF Recent, LookupType
    <3>3. look[c].since =< clock'
      BY <2>1, <3>2
    <3> QED BY <3>1, <3>3 DEF Recent
  <2>3. ResolverInv'
    <3>1. clock' \in Nat
      BY <2>1
    <3> QED BY <1>i, <2>1, <2>2, <3>1 DEF ResolverInv
  <2>4. TaskLookupKept
    BY <2>1 DEF TaskLookupKept
  <2> QED BY <1>1, <1>3, <1>6, <2>3, <2>4 DEF tick
<1>7. CASE testConnectivity
  <2>1. ResolverInv' /\ TaskLookupKept
    BY <1>i, <1>7, MonitorStep
  <2> QED BY <1>1, <1>3, <1>7, <2>1 DEF testConnectivity
<1>8. CASE \E i \in DOMAIN queue : process(i)
  BY <1>8, ProcessStep
<1>9. CASE answer
  BY <1>9, AnswerStep
<1>10. CASE write
  BY <1>10, WriteStep
<1>11. CASE leave
  BY <1>11, LeaveStep
<1>12. ASSUME NEW c \in DOMAIN look, queryA(c) \/ queryAAAA(c) \/ getAllByName(c)
       PROVE  PathInv'
  <2>1. ResolverInv' /\ TaskLookupKept
    BY <1>i, <1>12, QueryStep
  <2>2. cur' = cur /\ out' = out /\ queue' = queue
    BY <1>12 DEF queryA, queryAAAA, getAllByName
  <2> QED BY <1>1, <1>3, <2>1, <2>2
<1>13. CASE UNCHANGED vars
  <2>1. look' = look /\ cache' = cache /\ clock' = clock /\ cur' = cur /\ out' = out
        /\ queue' = queue
    BY <1>13 DEF vars
  <2> QED BY <1>1, <1>2, <1>3, <2>1
<1> QED BY <1>4, <1>5, <1>6, <1>7, <1>8, <1>9, <1>10, <1>11, <1>12, <1>13 DEF Next

\* The invariant is one of the specification.
THEOREM PathInvariant == Spec => []PathInv
BY PathInit, PathNext, PTL DEF Spec

\* The packets of the invariant are those of SegmentsSound.
LEMMA PathSegments == PathInv => SegmentsSound
<1> SUFFICES ASSUME PathInv PROVE SegmentsSound
  OBVIOUS
<1>1. CASE Idle(cur, out)
  <2>1. cur.at = "idle" /\ Range(out) = {}
    BY <1>1, RangeOfNone DEF Idle, NoTask
  <2> QED BY <2>1 DEF SegmentsSound
<1>2. CASE Busy(cur, out, look["task"])
  <2>1. CASE cur.at = "lookup"
    <3>1. Range(out) = {} /\ cur.pkt.proto = "udp"
      BY <1>2, <2>1, RangeOfNone DEF Busy, Asking, Intercepts
    <3> QED BY <3>1 DEF SegmentsSound
  <2>2. CASE cur.at = "write"
    <3>1. Writing(cur, out, look["task"])
      BY <1>2, <2>2 DEF Busy
    <3>2. \A q \in Range(out) : Sound(q, cur.pkt)
      BY <3>1 DEF Writing, Ahead
    <3>3. \A q \in Range(out) : q # cur.pkt => Accepted(q)
      BY <3>2 DEF Sound
    <3>4. ASSUME cur.pkt.proto = "tcp"
          PROVE  \A q \in Range(out) : Stream(q) \subseteq Stream(cur.pkt)
      BY <3>2, <3>4 DEF Sound
    <3>5. ASSUME cur.pkt.proto = "tcp", cur.todo = <<>>, ~cur.failed
          PROVE  UNION {Stream(q) : q \in Range(out)} = Stream(cur.pkt)
      <4>1. Ahead(cur, out) = Range(out)
        BY <3>5, RangeOfNone DEF Ahead
      <4>2. Whole(Range(out), cur.pkt)
        BY <3>1, <3>5, <4>1 DEF Writing
      <4> QED BY <3>5, <4>2 DEF Whole
    <3> QED BY <3>3, <3>4, <3>5 DEF SegmentsSound
  <2> QED BY <1>2, <2>1, <2>2 DEF Busy, TaskType
<1> QED BY <1>1, <1>2 DEF PathInv, TaskInv

\* The answers of the invariant are those of NamesAnswered.
LEMMA PathNames == PathInv => NamesAnswered
<1> SUFFICES ASSUME PathInv, cur.at # "idle", Intercepts(cur.pkt, cur.cfg)
             PROVE  /\ Len(out) =< 1
                    /\ \A a \in Range(out) : AnswerTo(a, cur.pkt, Horizon(look["task"]))
  BY DEF NamesAnswered, AnswerTo, Horizon
<1>1. Busy(cur, out, look["task"])
  BY DEF PathInv, TaskInv, Idle, NoTask
<1>2. CASE cur.at = "lookup"
  <2>1. out = <<>>
    BY <1>1, <1>2 DEF Busy, Asking
  <2>2. Range(out) = {} /\ Len(out) = 0
    BY <2>1, RangeOfNone
  <2> QED BY <2>2
<1>3. CASE cur.at = "write"
  <2>1. Writing(cur, out, look["task"])
    BY <1>1, <1>3 DEF Busy
  <2>2. \A a \in Range(out) : AnswerTo(a, cur.pkt, Horizon(look["task"]))
    BY <2>1 DEF Writing, Ahead
  <2>3. Len(out) \in Nat /\ Len(cur.todo) \in Nat
    BY <1>1 DEF Busy, TaskType
  <2>4. Len(out) + Len(cur.todo) =< 1
    BY <2>1 DEF Writing
  <2>5. Len(out) =< 1
    BY <2>3, <2>4
  <2> QED BY <2>2, <2>5
<1> QED BY <1>1, <1>2, <1>3 DEF Busy, TaskType

\* The receiver accepts what the path writes, and the stream is the packet's,
\* for every packet an application may send, every configuration and any
\* number of tasks, whichever of their writes fail (handleTcp(),
\* internetChecksum(), processPacket()).
THEOREM PathSegmentsSound == Spec => []SegmentsSound
BY PathInvariant, PathSegments, PTL

\* A query that is intercepted gets at most one packet, its answer, with
\* addresses no older than the cache's lifetime and the time the lookup that
\* found them took, for any number of hosts, providers, lookups and ticks of
\* the clock (tryIntercept(), resolve()).
THEOREM PathNamesAnswered == Spec => []NamesAnswered
BY PathInvariant, PathNames, PTL
=============================================================================
