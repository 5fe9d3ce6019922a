------------------------ MODULE ProtectBridgeProofs ------------------------
(***************************************************************************)
(* Proofs about ProtectBridge, for any number of requests, of starts of    *)
(* the server and of threads in its pool.  The properties are not          *)
(* inductive: they rest on where the fields of ProtectSocketServer stand   *)
(* while start() and stop() run, on every connection being in one place    *)
(* only, and on ciadpi having one request under way.                       *)
(***************************************************************************)
EXTENDS ProtectBridge, FiniteSetTheorems, SequenceTheorems, TLAPS

-----------------------------------------------------------------------------
(* The inductive invariant.                                                *)

\* Between calls the fields say whether the server is up; inside one they
\* name the server that is being started or stopped.  A pool that is shut
\* down is in the field only until stop() clears it.
Fields ==
    /\ running => ctl = "idle" /\ started \in open
    /\ executor = IF ctl = "idle" /\ ~running THEN None ELSE started
    /\ ctl # "idle" \/ running => started # 0
    /\ ctl = "run" => started \in open
    /\ \A g \in shut : g <= started
    /\ executor \in shut => ctl = "null"
    /\ conn # "idle" => running

\* A thread that has not started is that of a server to come; only a thread
\* on its way to execute() holds a connection.
Threads ==
    /\ \A g \in Server : accept[g] = "none"
         <=> g > started \/ (g = started /\ ctl = "run")
    /\ \A g \in Server : accept[g] = "execute" <=> client[g] # None
    /\ running /\ ~broken /\ ~crashed
         => accept[started] \in {"loop", "accept", "execute"}

Pending(g) == 1..Len(backlog[g])

\* A connection is in one backlog, or in the hands of one accept thread, or
\* has been handed to the pool.
OnePlace ==
    /\ \A g \in Server : \A i \in Pending(g) :
         handler[backlog[g][i]] = "none" /\ backlog[g][i] <= cur
    /\ \A g \in Server : client[g] # None
         => handler[client[g]] = "none" /\ client[g] <= cur
    /\ \A g, h \in Server : \A i \in Pending(g), j \in Pending(h) :
         backlog[g][i] = backlog[h][j] => g = h /\ i = j
    /\ \A g, h \in Server : \A i \in Pending(g) : backlog[g][i] # client[h]
    /\ \A g, h \in Server : client[g] = client[h] /\ client[g] # None => g = h

\* protect() has returned for every request but the one under way.
OneRequest ==
    /\ conn # "idle" => cur # 0
    /\ \A q \in Request :
         result[q] = "none" <=> q > cur \/ (q = cur /\ conn # "idle")

\* VpnService.protect() has returned for the copy of the request's socket, or
\* the handler had nothing to call it with.
Decided(q) ==
    \/ verdict[q] \in {"yes", "no"} /\ q \in copies
    \/ verdict[q] = "skip"

\* How far the handler of a request has come bounds what there is of it.
ProgressOf(q) ==
    /\ q > cur => handler[q] = "none" /\ q \notin sent
    /\ q = cur /\ conn = "send" => q \notin sent
    /\ handler[q] \in {"protect", "answer"} => q \in sent
    /\ handler[q] = "protect" => q \in copies
    /\ handler[q] = "answer" => Decided(q)
    /\ reply[q] # "none" => /\ handler[q] \in {"close", "done"}
                            /\ Decided(q) /\ q \in sent
    /\ result[q] = "used" => reply[q] # "none"

Progress == \A q \in Request : ProgressOf(q)

IInv ==
    /\ TypeOK
    /\ Fields
    /\ Threads
    /\ OnePlace
    /\ OneRequest
    /\ Progress
    /\ CrashOnlyAfterTimeout

-----------------------------------------------------------------------------
(* The backlog of a listener.                                              *)

\* The connections in a backlog are requests of the C side.
LEMMA PendingTyped ==
    ASSUME backlog \in [Server -> Seq(Request)], NEW g \in Server
    PROVE  /\ Len(backlog[g]) \in Nat
           /\ \A i \in Pending(g) : backlog[g][i] \in Request
  BY ElementOfSeq, LenProperties DEF Pending

\* accept() takes the first connection out of the backlog of its own listener
\* (AcceptTake).
LEMMA TakeMoves ==
    ASSUME backlog \in [Server -> Seq(Request)],
           client \in [Server -> Request \cup {None}],
           NEW g \in Server, AcceptTake(g)
    PROVE  /\ backlog' \in [Server -> Seq(Request)]
           /\ client' \in [Server -> Request \cup {None}]
           /\ \A h \in Server \ {g} :
                backlog'[h] = backlog[h] /\ client'[h] = client[h]
           /\ 1 \in Pending(g) /\ client'[g] = backlog[g][1]
           /\ client'[g] \in Request
           /\ \A i \in Pending(g)' :
                i + 1 \in Pending(g) /\ backlog'[g][i] = backlog[g][i + 1]
<1> DEFINE s == backlog[g]
<1>1. s \in Seq(Request) /\ s # <<>>
  BY DEF AcceptTake
<1>2. Len(s) \in Nat \ {0}
  BY <1>1, EmptySeq
<1>3. /\ Head(s) \in Request /\ Tail(s) \in Seq(Request)
      /\ Len(Tail(s)) = Len(s) - 1
      /\ \A i \in 1..Len(Tail(s)) : Tail(s)[i] = s[i + 1]
  BY <1>1, HeadTailProperties
<1>4. Head(s) = s[1]
  BY <1>1
<1>5. /\ backlog' = [backlog EXCEPT ![g] = Tail(s)]
      /\ client' = [client EXCEPT ![g] = Head(s)]
  BY DEF AcceptTake
<1> HIDE DEF s
<1>6. /\ backlog' \in [Server -> Seq(Request)] /\ backlog'[g] = Tail(s)
      /\ client' \in [Server -> Request \cup {None}] /\ client'[g] = Head(s)
      /\ \A h \in Server \ {g} :
           backlog'[h] = backlog[h] /\ client'[h] = client[h]
  BY <1>3, <1>5
<1>7. Pending(g) = 1..Len(s) /\ Pending(g)' = 1..(Len(s) - 1)
  BY <1>3, <1>6 DEF Pending, s
<1>8. backlog[g] = s
  BY DEF s
<1>9. \A i \in Pending(g)' :
        i + 1 \in Pending(g) /\ backlog'[g][i] = s[i + 1]
  BY <1>2, <1>3, <1>6, <1>7
<1>10. 1 \in Pending(g)
  BY <1>2, <1>7
<1>11. QED
  BY <1>3, <1>4, <1>6, <1>8, <1>9, <1>10

\* connect() appends to the backlog of the listener the path names (Connect).
LEMMA ConnectAppends ==
    ASSUME backlog \in [Server -> Seq(Request)], started \in Server,
           cur' \in Request,
           backlog' = [backlog EXCEPT ![started] = Append(@, cur')]
    PROVE  /\ backlog' \in [Server -> Seq(Request)]
           /\ \A g \in Server : \A i \in Pending(g)' :
                \/ i \in Pending(g) /\ backlog'[g][i] = backlog[g][i]
                \/ /\ g = started /\ i = Len(backlog[g]) + 1
                   /\ backlog'[g][i] = cur'
<1> DEFINE s == backlog[started]
<1>1. s \in Seq(Request) /\ Len(s) \in Nat
  BY LenProperties
<1>2. /\ Append(s, cur') \in Seq(Request)
      /\ Len(Append(s, cur')) = Len(s) + 1
      /\ \A i \in 1..Len(s) : Append(s, cur')[i] = s[i]
      /\ Append(s, cur')[Len(s) + 1] = cur'
  BY <1>1, AppendProperties
<1>3. /\ backlog' \in [Server -> Seq(Request)]
      /\ backlog'[started] = Append(s, cur')
      /\ \A g \in Server \ {started} : backlog'[g] = backlog[g]
  BY <1>2
<1>4. ASSUME NEW g \in Server \ {started}, NEW i \in Pending(g)'
      PROVE  i \in Pending(g) /\ backlog'[g][i] = backlog[g][i]
  BY <1>3, <1>4 DEF Pending
<1>5. ASSUME NEW g \in {started}, NEW i \in Pending(g)'
      PROVE  \/ i \in Pending(g) /\ backlog'[g][i] = backlog[g][i]
             \/ i = Len(backlog[g]) + 1 /\ backlog'[g][i] = cur'
  <2>1. i \in 1..(Len(s) + 1)
    BY <1>2, <1>3, <1>5 DEF Pending
  <2>2. i \in 1..Len(s) \/ i = Len(s) + 1
    BY <1>1, <2>1
  <2>3. QED
    BY <1>2, <1>3, <2>2 DEF Pending
<1>6. QED
  BY <1>3, <1>4, <1>5

-----------------------------------------------------------------------------
(* Every step keeps the inductive invariant.                               *)

\* A step keeps the types.  execute() is given the connection the thread has
\* accepted, the pool that stop() shuts down is one that start() has made, and
\* protect() works on a request it has begun.
LEMMA NextTyped == IInv /\ [Next]_vars => TypeOK'
<1> SUFFICES ASSUME IInv, [Next]_vars PROVE TypeOK'
  OBVIOUS
<1>1. CASE StartBind
  BY <1>1, BoundsAssumption DEF StartBind, Control, serverVars, acceptVars,
    handleVars, clientVars, IInv, TypeOK, Server
<1>2. CASE StartRun
  BY <1>2, BoundsAssumption DEF StartRun, Control, serverVars, acceptVars,
    handleVars, clientVars, IInv, TypeOK, Fields, Server
<1>3. CASE StopFlag
  BY <1>3 DEF StopFlag, Control, serverVars, acceptVars, handleVars,
    clientVars, IInv, TypeOK
<1>4. CASE StopClose
  BY <1>4 DEF StopClose, Control, serverVars, acceptVars, handleVars,
    clientVars, IInv, TypeOK
<1>5. CASE StopShutdown
  BY <1>5, BoundsAssumption DEF StopShutdown, Control, serverVars, acceptVars,
    handleVars, clientVars, IInv, TypeOK, Fields, Server
<1>6. CASE StopNull
  BY <1>6 DEF StopNull, Control, serverVars, acceptVars, handleVars,
    clientVars, IInv, TypeOK
<1>7. ASSUME NEW g \in Server, AcceptEnter(g) PROVE TypeOK'
  BY <1>7 DEF AcceptEnter, Thread, serverVars, acceptVars, handleVars,
    clientVars, IInv, TypeOK
<1>8. ASSUME NEW g \in Server, AcceptTake(g) PROVE TypeOK'
  <2>1. backlog \in [Server -> Seq(Request)]
        /\ client \in [Server -> Request \cup {None}]
    BY DEF IInv, TypeOK
  <2>2. backlog' \in [Server -> Seq(Request)]
        /\ client' \in [Server -> Request \cup {None}]
    BY <1>8, <2>1, TakeMoves
  <2>3. QED
    BY <1>8, <2>2 DEF AcceptTake, Thread, serverVars, acceptVars, handleVars,
      clientVars, IInv, TypeOK
<1>9. ASSUME NEW g \in Server, AcceptThrows(g) PROVE TypeOK'
  BY <1>9 DEF AcceptThrows, Thread, serverVars, acceptVars, handleVars,
    clientVars, IInv, TypeOK
<1>10. ASSUME NEW g \in Server, AcceptExecute(g) PROVE TypeOK'
  BY <1>10 DEF AcceptExecute, Thread, serverVars, acceptVars, handleVars,
    clientVars, IInv, TypeOK, Threads, None
<1>11. ASSUME NEW q \in Request, Begin(q) PROVE TypeOK'
  BY <1>11 DEF Begin, Handle, serverVars, acceptVars, handleVars, clientVars,
    IInv, TypeOK
<1>12. ASSUME NEW q \in Request, Read(q) PROVE TypeOK'
  BY <1>12 DEF Read, Handle, serverVars, acceptVars, handleVars, clientVars,
    IInv, TypeOK
<1>12a. ASSUME NEW q \in Request, ReadNoFd(q) \/ ReadEnd(q) PROVE TypeOK'
  BY <1>12a DEF ReadNoFd, ReadEnd, Handle, serverVars, acceptVars, handleVars,
    clientVars, IInv, TypeOK
<1>13. ASSUME NEW q \in Request, Protect(q) PROVE TypeOK'
  BY <1>13 DEF Protect, Handle, serverVars, acceptVars, handleVars,
    clientVars, IInv, TypeOK
<1>14. ASSUME NEW q \in Request, Answer(q) PROVE TypeOK'
  BY <1>14 DEF Answer, Handle, serverVars, acceptVars, handleVars, clientVars,
    IInv, TypeOK
<1>15. ASSUME NEW q \in Request, Close(q) PROVE TypeOK'
  BY <1>15 DEF Close, Handle, serverVars, acceptVars, handleVars, clientVars,
    IInv, TypeOK
<1>16. CASE Connect
  <2>1. cur' \in Request /\ cur' = cur + 1 /\ started \in Server
    BY <1>16, BoundsAssumption DEF Connect, Request, Server, IInv, TypeOK,
      Fields
  <2>2. backlog' \in [Server -> Seq(Request)]
    BY <1>16, <2>1, ConnectAppends DEF Connect, IInv, TypeOK
  <2>3. result' \in [Request -> {"none", "used", "failed"}]
        /\ conn' \in {"idle", "send", "recv"}
    BY <1>16, <2>1 DEF Connect, IInv, TypeOK
  <2>4. cur' \in 0..MaxRequests
    BY <2>1, BoundsAssumption DEF Request
  <2>5. QED
    BY <1>16, <2>2, <2>3, <2>4 DEF Connect, serverVars, acceptVars,
      handleVars, clientVars, IInv, TypeOK
<1>17. CASE Send
  <2>1. cur \in Request
    BY <1>17, BoundsAssumption DEF Send, Request, IInv, TypeOK, OneRequest
  <2>2. sent' \subseteq Request
        /\ result' \in [Request -> {"none", "used", "failed"}]
        /\ conn' \in {"idle", "send", "recv"}
    BY <1>17, <2>1 DEF Send, IInv, TypeOK
  <2>3. QED
    BY <1>17, <2>2 DEF Send, serverVars, acceptVars, handleVars, clientVars,
      IInv, TypeOK
<1>18. CASE Recv
  BY <1>18, BoundsAssumption DEF Recv, serverVars, acceptVars, handleVars,
    clientVars, IInv, TypeOK, OneRequest, Request
<1>19. CASE UNCHANGED vars
  BY <1>19 DEF vars, serverVars, acceptVars, handleVars, clientVars, IInv,
    TypeOK
<1>20. QED
  BY <1>1, <1>2, <1>3, <1>4, <1>5, <1>6, <1>7, <1>8, <1>9, <1>10, <1>11,
    <1>12, <1>12a, <1>13, <1>14, <1>15, <1>16, <1>17, <1>18, <1>19 DEF Next,
    ControlStep, AcceptStep, HandlerStep

\* start() and stop() leave running, executor and the listener as Fields says,
\* at every step; a new pool is not among those shut down.
LEMMA NextFields == IInv /\ [Next]_vars => Fields'
<1> SUFFICES ASSUME IInv, [Next]_vars PROVE Fields'
  OBVIOUS
<1> USE DEF IInv, TypeOK, Fields, Threads, Request, Server, None
<1>1. ASSUME UNCHANGED <<running, executor, ctl, started, open, shut, conn>>
      PROVE  Fields'
  BY <1>1
<1>2. ASSUME NEW g \in Server,
             AcceptEnter(g) \/ AcceptTake(g) \/ AcceptThrows(g) \/
               AcceptExecute(g)
      PROVE  Fields'
  BY <1>1, <1>2 DEF AcceptEnter, AcceptTake, AcceptThrows, AcceptExecute,
    Thread, serverVars, acceptVars, handleVars, clientVars
<1>3. ASSUME NEW q \in Request, HandlerStep(q)
      PROVE  Fields'
  BY <1>1, <1>3 DEF HandlerStep, Begin, Read, ReadNoFd, ReadEnd, Protect,
    Answer, Close, Handle, serverVars, acceptVars, handleVars, clientVars
<1>4. CASE StartBind
  BY <1>4, BoundsAssumption DEF StartBind, Control, serverVars, acceptVars,
    handleVars, clientVars
<1>5. CASE StartRun
  BY <1>5, BoundsAssumption DEF StartRun, Control, serverVars, acceptVars,
    handleVars, clientVars
<1>6. CASE StopFlag
  BY <1>6, BoundsAssumption DEF StopFlag, Control, serverVars, acceptVars,
    handleVars, clientVars
<1>7. CASE StopClose
  BY <1>7, BoundsAssumption DEF StopClose, Control, serverVars, acceptVars,
    handleVars, clientVars
<1>8. CASE StopShutdown
  BY <1>8, BoundsAssumption DEF StopShutdown, Control, serverVars, acceptVars,
    handleVars, clientVars
<1>9. CASE StopNull
  BY <1>9, BoundsAssumption DEF StopNull, Control, serverVars, acceptVars,
    handleVars, clientVars
<1>10. CASE Connect
  BY <1>10, BoundsAssumption DEF Connect, serverVars, acceptVars, handleVars,
    clientVars
<1>11. CASE Send
  BY <1>11, BoundsAssumption DEF Send, serverVars, acceptVars, handleVars,
    clientVars
<1>12. CASE Recv
  BY <1>12, BoundsAssumption DEF Recv, serverVars, acceptVars, handleVars,
    clientVars
<1>13. CASE UNCHANGED vars
  BY <1>1, <1>13 DEF vars, serverVars, acceptVars, handleVars, clientVars
<1>14. QED
  BY <1>2, <1>3, <1>4, <1>5, <1>6, <1>7, <1>8, <1>9, <1>10, <1>11, <1>12,
    <1>13 DEF Next, ControlStep, AcceptStep, HandlerStep

\* The accept thread of the running server ends only by a failed accept() or a
\* crash: the listener is open and its pool is not shut down.
LEMMA NextThreads == IInv /\ [Next]_vars => Threads'
<1> SUFFICES ASSUME IInv, [Next]_vars PROVE Threads'
  OBVIOUS
<1> USE DEF IInv, TypeOK, Fields, Threads, Request, Server, None
<1>1. ASSUME UNCHANGED <<running, ctl, started, accept, client, broken, crashed>>
      PROVE  Threads'
  BY <1>1
<1>2. ASSUME NEW q \in Request, HandlerStep(q)
      PROVE  Threads'
  BY <1>1, <1>2 DEF HandlerStep, Begin, Read, ReadNoFd, ReadEnd, Protect,
    Answer, Close, Handle, serverVars, acceptVars, handleVars, clientVars
<1>3. CASE Connect \/ Send \/ Recv
  BY <1>1, <1>3 DEF Connect, Send, Recv, serverVars, acceptVars, handleVars,
    clientVars
<1>4. CASE StartBind
  BY <1>4, BoundsAssumption DEF StartBind, Control, serverVars, acceptVars,
    handleVars, clientVars
<1>5. CASE StartRun
  <2>1. /\ ctl = "run" /\ ctl' = "idle" /\ started \in Server /\ started # 0
        /\ accept' = [accept EXCEPT ![started] = "loop"]
        /\ UNCHANGED <<started, client, broken, crashed>>
    BY <1>5, BoundsAssumption DEF StartRun, Control
  <2>2. /\ \A g \in Server : accept[g] = "none" <=> g >= started
        /\ \A g \in Server : accept[g] = "execute" <=> client[g] # None
        /\ accept \in [Server -> {"none", "loop", "accept", "execute", "dead"}]
    BY <2>1
  <2>3. \A g \in Server : accept'[g] = IF g = started THEN "loop" ELSE accept[g]
    BY <2>1, <2>2
  <2>4. \A g \in Server : accept'[g] = "none" <=> g > started
    BY <2>1, <2>2, <2>3
  <2>5. QED
    BY <2>1, <2>2, <2>3, <2>4
<1>6. CASE StopFlag
  BY <1>6, BoundsAssumption DEF StopFlag, Control, serverVars, acceptVars,
    handleVars, clientVars
<1>7. CASE StopClose
  BY <1>7, BoundsAssumption DEF StopClose, Control, serverVars, acceptVars,
    handleVars, clientVars
<1>8. CASE StopShutdown
  BY <1>8, BoundsAssumption DEF StopShutdown, Control, serverVars, acceptVars,
    handleVars, clientVars
<1>9. CASE StopNull
  BY <1>9, BoundsAssumption DEF StopNull, Control, serverVars, acceptVars,
    handleVars, clientVars
<1>10. ASSUME NEW g \in Server, AcceptEnter(g) PROVE Threads'
  BY <1>10, BoundsAssumption DEF AcceptEnter, Thread, serverVars, acceptVars,
    handleVars, clientVars
<1>11. ASSUME NEW g \in Server, AcceptTake(g) PROVE Threads'
  BY <1>11, BoundsAssumption DEF AcceptTake, Thread, serverVars, acceptVars,
    handleVars, clientVars
<1>12. ASSUME NEW g \in Server, AcceptThrows(g) PROVE Threads'
  BY <1>12, BoundsAssumption DEF AcceptThrows, Thread, serverVars, acceptVars,
    handleVars, clientVars
<1>13. ASSUME NEW g \in Server, AcceptExecute(g) PROVE Threads'
  BY <1>13, BoundsAssumption DEF AcceptExecute, Thread, serverVars,
    acceptVars, handleVars, clientVars
<1>14. CASE UNCHANGED vars
  BY <1>1, <1>14 DEF vars, serverVars, acceptVars, handleVars, clientVars
<1>15. QED
  BY <1>2, <1>3, <1>4, <1>5, <1>6, <1>7, <1>8, <1>9, <1>10, <1>11, <1>12,
    <1>13, <1>14 DEF Next, ControlStep, AcceptStep, HandlerStep

\* A connection moves from the backlog to the accept thread and from there to
\* the pool, and is never copied on the way.
LEMMA NextOnePlace == IInv /\ [Next]_vars => OnePlace'
<1> SUFFICES ASSUME IInv, [Next]_vars PROVE OnePlace'
  OBVIOUS
<1> USE DEF IInv
<1>t. /\ backlog \in [Server -> Seq(Request)]
      /\ client \in [Server -> Request \cup {None}]
      /\ \A g \in Server : \A i \in Pending(g) : backlog[g][i] \in Request
  BY PendingTyped DEF TypeOK
<1>1. ASSUME UNCHANGED <<backlog, client>>, cur' >= cur,
             \A q \in Request : handler[q] = "none" => handler'[q] = "none"
      PROVE  OnePlace'
  <2>1. \A q \in Request : q <= cur => q <= cur'
    BY <1>1, NextTyped DEF TypeOK, Request
  <2>2. QED
    BY <1>1, <1>t, <2>1 DEF OnePlace, Pending
<1>2. CASE ControlStep
  <2>1. UNCHANGED <<backlog, client, cur>>
    BY <1>2 DEF ControlStep, StartBind, StartRun, StopFlag, StopClose,
      StopShutdown, StopNull, acceptVars, clientVars
  <2>2. \A q \in Request : handler[q] = "none" => handler'[q] = "none"
    BY <1>2 DEF ControlStep, StartBind, StartRun, StopFlag, StopClose,
      StopShutdown, StopNull, handleVars
  <2>3. QED
    BY <1>1, <2>1, <2>2 DEF TypeOK
<1>3. ASSUME NEW g \in Server, AcceptEnter(g) \/ AcceptThrows(g)
      PROVE  OnePlace'
  BY <1>1, <1>3 DEF AcceptEnter, AcceptThrows, handleVars, clientVars, TypeOK
<1>4. ASSUME NEW g \in Server, AcceptTake(g) PROVE OnePlace'
  <2>1. /\ \A h \in Server \ {g} :
             backlog'[h] = backlog[h] /\ client'[h] = client[h]
        /\ 1 \in Pending(g) /\ client'[g] = backlog[g][1]
        /\ client'[g] \in Request
        /\ \A i \in Pending(g)' :
             i + 1 \in Pending(g) /\ backlog'[g][i] = backlog[g][i + 1]
    BY <1>4, <1>t, TakeMoves
  <2>2. UNCHANGED <<handler, cur>> /\ accept[g] = "accept"
    BY <1>4 DEF AcceptTake, Thread, handleVars, clientVars
  <2>3. client[g] = None
    BY <2>2 DEF Threads
  <2>4. ASSUME NEW h \in Server, NEW i \in Pending(h)'
        PROVE  \E k \in Pending(h) :
                 /\ backlog'[h][i] = backlog[h][k]
                 /\ k = IF h = g THEN i + 1 ELSE i
                 /\ h = g => k # 1
    <3>1. CASE h = g
      <4>1. i \in Nat \ {0}
        BY <1>t, <3>1, <2>4, NextTyped, PendingTyped DEF Pending, TypeOK
      <4>2. QED
        BY <2>1, <3>1, <4>1
    <3>2. CASE h # g
      BY <2>1, <3>2 DEF Pending
    <3>3. QED
      BY <3>1, <3>2
  <2>5. \A h \in Server : \A i \in Pending(h)' :
          handler'[backlog'[h][i]] = "none" /\ backlog'[h][i] <= cur'
    BY <2>2, <2>4 DEF OnePlace
  <2>6. \A h \in Server : client'[h] # None
          => handler'[client'[h]] = "none" /\ client'[h] <= cur'
    BY <2>1, <2>2 DEF OnePlace
  <2>7. ASSUME NEW h \in Server, NEW k \in Server,
               NEW i \in Pending(h)', NEW j \in Pending(k)',
               backlog'[h][i] = backlog'[k][j]
        PROVE  h = k /\ i = j
    <3>1. PICK m \in Pending(h) : backlog'[h][i] = backlog[h][m]
                                  /\ m = IF h = g THEN i + 1 ELSE i
      BY <2>4
    <3>2. PICK n \in Pending(k) : backlog'[k][j] = backlog[k][n]
                                  /\ n = IF k = g THEN j + 1 ELSE j
      BY <2>4
    <3>3. backlog[h][m] = backlog[k][n]
      BY <2>7, <3>1, <3>2
    <3>4. h = k /\ m = n
      BY <3>3 DEF OnePlace
    <3>5. i \in Int /\ j \in Int
      BY DEF Pending
    <3>6. QED
      BY <3>1, <3>2, <3>4, <3>5
  <2>8. ASSUME NEW h \in Server, NEW k \in Server, NEW i \in Pending(h)'
        PROVE  backlog'[h][i] # client'[k]
    <3>1. PICK m \in Pending(h) : backlog'[h][i] = backlog[h][m]
                                  /\ (h = g => m # 1)
      BY <2>4
    <3>2. CASE k = g
      BY <2>1, <3>1, <3>2 DEF OnePlace
    <3>3. CASE k # g
      BY <2>1, <3>1, <3>3 DEF OnePlace
    <3>4. QED
      BY <3>2, <3>3
  <2>9. \A h, k \in Server :
          client'[h] = client'[k] /\ client'[h] # None => h = k
    BY <2>1 DEF OnePlace
  <2>10. QED
    BY <2>5, <2>6, <2>7, <2>8, <2>9 DEF OnePlace
<1>5. ASSUME NEW g \in Server, AcceptExecute(g) PROVE OnePlace'
  <2>1. client[g] # None /\ client[g] \in Request
    BY <1>5, <1>t DEF AcceptExecute, Thread, Threads
  <2>2. UNCHANGED <<backlog, cur>> /\ client' = [client EXCEPT ![g] = None]
        /\ \A q \in Request \ {client[g]} : handler'[q] = handler[q]
    BY <1>5 DEF AcceptExecute, clientVars, TypeOK
  <2>3. \A h \in Server : \A i \in Pending(h) :
          backlog[h][i] \in Request \ {client[g]}
    BY <1>t, <2>1 DEF OnePlace
  <2>4. client'[g] = None /\ \A h \in Server \ {g} :
          client'[h] = client[h] /\ client[h] \in Request \cup {None}
          /\ client[h] # client[g]
    BY <1>t, <2>1, <2>2 DEF OnePlace
  <2>5. \A h \in Server : Pending(h)' = Pending(h)
    BY <2>2 DEF Pending
  <2>6. None \notin Request
    BY DEF None, Request
  <2>7. \A h \in Server : \A i \in Pending(h)' :
          handler'[backlog'[h][i]] = "none" /\ backlog'[h][i] <= cur'
    BY <2>2, <2>3, <2>5 DEF OnePlace
  <2>8. \A h \in Server : client'[h] # None
          => handler'[client'[h]] = "none" /\ client'[h] <= cur'
    BY <2>2, <2>4 DEF OnePlace
  <2>9. \A h, k \in Server : \A i \in Pending(h)' : backlog'[h][i] # client'[k]
    BY <2>2, <2>3, <2>4, <2>5, <2>6 DEF OnePlace
  <2>10. QED
    BY <2>2, <2>4, <2>5, <2>7, <2>8, <2>9 DEF OnePlace
<1>6. ASSUME NEW q \in Request, HandlerStep(q) PROVE OnePlace'
  <2>1. UNCHANGED <<backlog, client, cur>>
        /\ handler[q] # "none" /\ \E s : handler' = [handler EXCEPT ![q] = s]
    BY <1>6 DEF HandlerStep, Begin, Read, ReadNoFd, ReadEnd, Protect,
      Answer, Close, Handle,
      acceptVars, clientVars
  <2>2. QED
    BY <1>1, <2>1 DEF TypeOK
<1>7. CASE Connect
  <2>1. cur' = cur + 1 /\ cur' \in Request /\ cur \in Nat /\ started \in Server
        /\ UNCHANGED <<client, handler>>
    BY <1>7, BoundsAssumption
    DEF Connect, handleVars, Request, Server, TypeOK, Fields
  <2>2. /\ handler[cur'] = "none"
        /\ \A g \in Server : client[g] # cur'
        /\ \A g \in Server : \A i \in Pending(g) : backlog[g][i] # cur'
    <3>1. handler[cur'] = "none" /\ cur' # None /\ ~(cur' <= cur)
      BY <2>1 DEF Progress, ProgressOf, None
    <3>2. QED
      BY <3>1 DEF OnePlace
  <2>3. CASE UNCHANGED backlog
    BY <1>1, <2>1, <2>3
  <2>4. CASE backlog' = [backlog EXCEPT ![started] = Append(@, cur')]
    <3>1. \A g \in Server : \A i \in Pending(g)' :
            \/ i \in Pending(g) /\ backlog'[g][i] = backlog[g][i]
            \/ /\ g = started /\ i = Len(backlog[g]) + 1
               /\ backlog'[g][i] = cur'
      BY <1>t, <2>1, <2>4, ConnectAppends
    <3>2. cur' <= cur' /\ \A q \in Request : q <= cur => q <= cur'
      BY <2>1 DEF Request
    <3>3. \A g \in Server : \A i \in Pending(g)' :
            handler'[backlog'[g][i]] = "none" /\ backlog'[g][i] <= cur'
      <4>1. ASSUME NEW g \in Server, NEW i \in Pending(g)'
            PROVE  handler'[backlog'[g][i]] = "none" /\ backlog'[g][i] <= cur'
        <5>1. CASE backlog'[g][i] = cur'
          BY <2>1, <2>2, <3>2, <5>1
        <5>2. CASE i \in Pending(g) /\ backlog'[g][i] = backlog[g][i]
          <6>1. handler[backlog[g][i]] = "none" /\ backlog[g][i] <= cur
            BY <5>2 DEF OnePlace
          <6>2. QED
            BY <1>t, <2>1, <3>2, <5>2, <6>1
        <5>3. QED
          BY <3>1, <5>1, <5>2
      <4>2. QED
        BY <4>1
    <3>4. \A g \in Server : client'[g] # None
            => handler'[client'[g]] = "none" /\ client'[g] <= cur'
      BY <1>t, <2>1, <3>2 DEF OnePlace
    <3>5. \A g, h \in Server : \A i \in Pending(g)', j \in Pending(h)' :
            backlog'[g][i] = backlog'[h][j] => g = h /\ i = j
      BY <2>2, <3>1 DEF OnePlace
    <3>6. \A g, h \in Server : \A i \in Pending(g)' :
            backlog'[g][i] # client'[h]
      BY <2>1, <2>2, <3>1 DEF OnePlace
    <3>7. QED
      BY <2>1, <3>3, <3>4, <3>5, <3>6 DEF OnePlace
  <2>5. QED
    BY <1>7, <2>3, <2>4 DEF Connect
<1>8. CASE Send \/ Recv \/ UNCHANGED vars
  BY <1>1, <1>8 DEF Send, Recv, vars, acceptVars, handleVars, clientVars,
    TypeOK
<1>9. QED
  BY <1>2, <1>3, <1>4, <1>5, <1>6, <1>7, <1>8 DEF Next, AcceptStep

\* ciadpi begins a request only when the one before has returned.
LEMMA NextOneRequest == IInv /\ [Next]_vars => OneRequest'
<1> SUFFICES ASSUME IInv, [Next]_vars PROVE OneRequest'
  OBVIOUS
<1> USE DEF IInv, TypeOK, Fields, Threads, Request, Server, None, OneRequest
<1>1. ASSUME UNCHANGED <<cur, conn, result>> PROVE OneRequest'
  BY <1>1
<1>2. CASE StartBind \/ StartRun \/ StopFlag \/ StopClose \/ StopShutdown \/
  StopNull
  BY <1>1, <1>2 DEF StartBind, StartRun, StopFlag, StopClose, StopShutdown,
    StopNull, Control, serverVars, acceptVars, handleVars, clientVars
<1>3. ASSUME NEW g \in Server,
             AcceptEnter(g) \/ AcceptTake(g) \/ AcceptThrows(g) \/
               AcceptExecute(g)
      PROVE  OneRequest'
  BY <1>1, <1>3 DEF AcceptEnter, AcceptTake, AcceptThrows, AcceptExecute,
    Thread, serverVars, acceptVars, handleVars, clientVars
<1>4. ASSUME NEW q \in Request, HandlerStep(q)
      PROVE  OneRequest'
  BY <1>1, <1>4 DEF HandlerStep, Begin, Read, ReadNoFd, ReadEnd, Protect,
    Answer, Close, Handle, serverVars, acceptVars, handleVars, clientVars
<1>5. CASE Connect
  BY <1>5, BoundsAssumption DEF Connect, serverVars, acceptVars, handleVars,
    clientVars
<1>6. CASE Send
  BY <1>6, BoundsAssumption DEF Send, serverVars, acceptVars, handleVars,
    clientVars
<1>7. CASE Recv
  BY <1>7, BoundsAssumption DEF Recv, serverVars, acceptVars, handleVars,
    clientVars
<1>8. CASE UNCHANGED vars
  BY <1>1, <1>8 DEF vars, serverVars, acceptVars, handleVars, clientVars
<1>9. QED
  BY <1>2, <1>3, <1>4, <1>5, <1>6, <1>7, <1>8 DEF Next, ControlStep,
    AcceptStep, HandlerStep

\* A handler goes through its stages in order, and only a request that is
\* still waiting is answered; what it had is kept to the end.
LEMMA NextProgress == IInv /\ [Next]_vars => Progress'
<1> SUFFICES ASSUME IInv, [Next]_vars, NEW u \in Request PROVE ProgressOf(u)'
  BY DEF Progress
<1>t. TypeOK /\ ProgressOf(u)
  BY DEF IInv, Progress
<1>i. cur \in Int /\ u \in Int
  BY DEF IInv, TypeOK, Request
<1>1. ASSUME UNCHANGED <<handler, verdict, copies, cur, conn, sent, reply,
                         result>>
      PROVE  ProgressOf(u)'
  BY <1>t, <1>1 DEF ProgressOf, Decided
<1>2. CASE StartBind \/ StartRun \/ StopFlag \/ StopClose \/ StopNull
  BY <1>1, <1>2 DEF StartBind, StartRun, StopFlag, StopClose, StopNull,
    handleVars, clientVars
<1>3. CASE StopShutdown
  <2>1. \/ handler'[u] = handler[u]
        \/ handler[u] = "queued" /\ handler'[u] = "dropped"
    BY <1>3 DEF StopShutdown
  <2>2. UNCHANGED <<verdict, copies, cur, conn, sent, reply, result>>
    BY <1>3 DEF StopShutdown, clientVars
  <2>3. QED
    BY <1>t, <2>1, <2>2 DEF ProgressOf, Decided
<1>4. ASSUME NEW g \in Server,
             AcceptEnter(g) \/ AcceptTake(g) \/ AcceptThrows(g)
      PROVE  ProgressOf(u)'
  BY <1>1, <1>4 DEF AcceptEnter, AcceptTake, AcceptThrows, handleVars,
    clientVars
<1>5. ASSUME NEW g \in Server, AcceptExecute(g) PROVE ProgressOf(u)'
  <2>1. client[g] \in Request /\ handler[client[g]] = "none" /\ client[g] <= cur
    BY <1>5 DEF AcceptExecute, Thread, IInv, TypeOK, Threads, OnePlace
  <2>2. UNCHANGED <<verdict, copies, cur, conn, sent, reply, result>>
    BY <1>5 DEF AcceptExecute, clientVars
  <2>3. \/ u # client[g] /\ handler'[u] = handler[u]
        \/ u = client[g] /\ handler'[u] \in {"queued", "dropped"}
    BY <1>t, <1>5 DEF AcceptExecute, TypeOK
  <2>4. QED
    BY <1>t, <1>i, <2>1, <2>2, <2>3 DEF ProgressOf, Decided
<1>6. ASSUME NEW q \in Request, HandlerStep(q), q # u PROVE ProgressOf(u)'
  <2>1. UNCHANGED <<cur, conn, sent, result>> /\ handler'[u] = handler[u]
        /\ verdict'[u] = verdict[u] /\ reply'[u] = reply[u]
        /\ (u \in copies' <=> u \in copies)
    BY <1>t, <1>6 DEF HandlerStep, Begin, Read, ReadNoFd, ReadEnd, Protect,
      Answer, Close, Handle, clientVars, TypeOK
  <2>2. QED
    BY <1>t, <2>1 DEF ProgressOf, Decided
<1>7. CASE HandlerStep(u)
  <2>1. UNCHANGED <<cur, conn, sent, result>>
    BY <1>7 DEF HandlerStep, Begin, Read, ReadNoFd, ReadEnd, Protect, Answer,
      Close, clientVars
  <2>2. CASE Begin(u) \/ ReadEnd(u) \/ Close(u)
    <3>1. /\ UNCHANGED <<verdict, copies, reply>>
          /\ \/ handler[u] = "queued" /\ handler'[u] = "read"
             \/ handler[u] = "read" /\ handler'[u] = "close"
             \/ handler[u] = "close" /\ handler'[u] = "done"
      BY <1>t, <2>2 DEF Begin, ReadEnd, Close, Handle, TypeOK
    <3>2. QED
      BY <1>t, <2>1, <3>1 DEF ProgressOf, Decided
  <2>2a. CASE Read(u)
    <3>1. /\ UNCHANGED <<verdict, reply>> /\ u \in sent
          /\ handler[u] = "read" /\ handler'[u] = "protect" /\ u \in copies'
      BY <1>t, <2>2a DEF Read, Handle, TypeOK
    <3>2. QED
      BY <1>t, <2>1, <3>1 DEF ProgressOf, Decided
  <2>2b. CASE ReadNoFd(u)
    <3>1. /\ UNCHANGED <<copies, reply>> /\ u \in sent
          /\ handler[u] = "read" /\ handler'[u] = "answer"
          /\ verdict'[u] = "skip"
      BY <1>t, <2>2b DEF ReadNoFd, Handle, TypeOK
    <3>2. QED
      BY <1>t, <2>1, <3>1 DEF ProgressOf, Decided
  <2>3. CASE Protect(u)
    <3>1. handler[u] = "protect" /\ handler'[u] = "answer"
          /\ verdict'[u] \in {"yes", "no", "skip"}
          /\ UNCHANGED <<copies, reply>>
      BY <1>t, <2>3 DEF Protect, Handle, TypeOK
    <3>2. QED
      BY <1>t, <2>1, <3>1 DEF ProgressOf, Decided
  <2>4. CASE Answer(u)
    <3>1. /\ handler[u] = "answer" /\ handler'[u] = "close"
          /\ UNCHANGED <<verdict, copies>>
          /\ reply'[u] # "none" => result[u] = "none"
      BY <1>t, <2>4 DEF Answer, Handle, TypeOK
    <3>2. QED
      BY <1>t, <2>1, <3>1 DEF ProgressOf, Decided
  <2>5. QED
    BY <1>7, <2>2, <2>2a, <2>2b, <2>3, <2>4 DEF HandlerStep
<1>8. CASE Connect
  <2>1. cur' = cur + 1 /\ conn = "idle"
        /\ UNCHANGED <<handler, verdict, copies, sent, reply>>
        /\ (result'[u] = result[u] \/ result'[u] = "failed")
    BY <1>t, <1>8 DEF Connect, handleVars, TypeOK
  <2>2. QED
    BY <1>t, <1>i, <2>1 DEF ProgressOf, Decided
<1>9. CASE Send \/ Recv
  <2>1. UNCHANGED <<handler, verdict, copies, cur, reply>> /\ conn' # "send"
        /\ (u \in sent => u \in sent') /\ (u \in sent' => u \in sent \/ u = cur)
    BY <1>9 DEF Send, Recv, handleVars
  <2>2. \/ result'[u] = result[u]
        \/ result'[u] = "failed"
        \/ reply[u] # "none"
    BY <1>t, <1>9 DEF Send, Recv, TypeOK
  <2>3. QED
    BY <1>t, <1>i, <2>1, <2>2 DEF ProgressOf, Decided
<1>10. CASE UNCHANGED vars
  BY <1>1, <1>10 DEF vars, handleVars, clientVars
<1>11. QED
  BY <1>2, <1>3, <1>4, <1>5, <1>6, <1>7, <1>8, <1>9, <1>10
  DEF Next, ControlStep, AcceptStep

\* A request that has no answer yet, or never got one, was not a success.
LEMMA UnansweredNotUsed ==
    ASSUME IInv, NEW q \in Request, handler[q] \notin {"close", "done"}
    PROVE  result[q] \in {"none", "failed"}
  BY DEF IInv, TypeOK, Progress, ProgressOf

\* execute() throws only between shutdownNow() and executor = null, when
\* ciadpi has ended: protect() has returned for the connection at hand.
LEMMA NextCrash == IInv /\ [Next]_vars => CrashOnlyAfterTimeout'
<1> SUFFICES ASSUME IInv, [Next]_vars, crashed' PROVE CrashOnlyAfterTimeout'
  BY DEF CrashOnlyAfterTimeout
<1>1. CASE crashed
  <2>1. UNCHANGED vars
    BY <1>1 DEF Next, ControlStep, StartBind, StartRun, StopFlag, StopClose,
      StopShutdown, StopNull, Control, AcceptStep, AcceptEnter, AcceptTake,
      AcceptThrows, AcceptExecute, Thread, HandlerStep, Begin, Read, ReadNoFd,
      ReadEnd, Protect,
      Answer, Close, Handle, Connect, Send, Recv
  <2>2. QED
    BY <1>1, <2>1 DEF IInv, CrashOnlyAfterTimeout, vars, handleVars,
      clientVars
<1>2. CASE ~crashed
  <2>1. PICK g \in Server : AcceptExecute(g)
    BY <1>2 DEF Next, ControlStep, StartBind, StartRun, StopFlag, StopClose,
      StopShutdown, StopNull, AcceptStep, AcceptEnter, AcceptTake,
      AcceptThrows, HandlerStep, Begin, Read, ReadNoFd, ReadEnd, Protect,
      Answer, Close,
      Connect, Send, Recv, vars, acceptVars
  <2>2. executor \in shut
    BY <1>2, <2>1 DEF AcceptExecute
  <2>3. conn = "idle"
    BY <2>2 DEF IInv, Fields
  <2> DEFINE q == client[g]
  <2>4. q \in Request /\ handler[q] = "none" /\ q <= cur
    BY <2>1 DEF AcceptExecute, Thread, IInv, TypeOK, Threads, OnePlace
  <2>5. result[q] # "none"
    BY <2>3, <2>4 DEF IInv, OneRequest, Request, TypeOK
  <2>6. result[q] = "failed"
    BY <2>4, <2>5, UnansweredNotUsed
  <2>7. result'[q] = "failed" /\ handler'[q] = "dropped"
    BY <2>1, <2>2, <2>4, <2>6 DEF AcceptExecute, clientVars, IInv, TypeOK
  <2>8. QED
    BY <2>4, <2>7 DEF CrashOnlyAfterTimeout
<1>3. QED
  BY <1>1, <1>2

-----------------------------------------------------------------------------
(* The theorems.                                                           *)

\* Before the first start() there is no server, no connection and no request.
LEMMA InitIInv == Init => IInv
<1> SUFFICES ASSUME Init PROVE IInv
  OBVIOUS
<1> USE DEF Init, None
<1>1. TypeOK
  <2>1. backlog \in [Server -> Seq(Request)]
    BY EmptySeq
  <2>2. started \in 0..MaxStarts /\ cur \in 0..MaxRequests
    BY BoundsAssumption
  <2>3. QED
    BY <2>1, <2>2 DEF TypeOK
<1>2. Fields
  BY DEF Fields
<1>3. Threads
  BY DEF Threads, Server
<1>4. \A g \in Server : Pending(g) = {}
  BY DEF Pending
<1>5. OnePlace
  BY <1>4 DEF OnePlace
<1>6. OneRequest /\ Progress
  BY DEF OneRequest, Progress, ProgressOf, Request
<1>7. CrashOnlyAfterTimeout
  BY DEF CrashOnlyAfterTimeout
<1>8. QED
  BY <1>1, <1>2, <1>3, <1>5, <1>6, <1>7 DEF IInv

\* Every step of the server, of its threads and of ciadpi keeps IInv.
LEMMA NextIInv == IInv /\ [Next]_vars => IInv'
  BY NextTyped, NextFields, NextThreads, NextOnePlace, NextOneRequest,
    NextProgress, NextCrash DEF IInv

\* IInv holds in every reachable state of the bridge.
THEOREM Invariance == Spec => []IInv
  BY InitIInv, NextIInv, PTL DEF Spec

\* Type correctness, for any number of requests, starts and threads.
THEOREM TypeCorrect == Spec => []TypeOK
<1>1. IInv => TypeOK
  BY DEF IInv
<1>2. QED
  BY <1>1, Invariance, PTL

\* A socket is connected only after the server has dealt with it: after
\* VpnService.protect() has returned for its copy, unless there was none.
THEOREM Answered == Spec => []UsedAnswered
<1>1. IInv => UsedAnswered
  BY DEF IInv, Progress, ProgressOf, Decided, UsedAnswered
<1>2. QED
  BY <1>1, Invariance, PTL

\* The uncaught exception of execute() needs a request that timed out.
THEOREM CrashNeedsTimeout == Spec => []CrashOnlyAfterTimeout
<1>1. IInv => CrashOnlyAfterTimeout
  BY DEF IInv
<1>2. QED
  BY <1>1, Invariance, PTL

\* While the server is up, the thread that accepts for the path is alive.
THEOREM Serves == Spec => []ServesWhileRunning
<1>1. IInv => ServesWhileRunning
  BY DEF IInv, Fields, Threads, ServesWhileRunning
<1>2. QED
  BY <1>1, Invariance, PTL

\* All but one of the requests that fill the pool, and wait for it, have
\* failed: ciadpi waits for no more than one of them.
LEMMA FullPool ==
    ASSUME IInv, NEW q \in Request, handler[q] = "queued",
           Cardinality(Stuck(pool[q])) = PoolSize
    PROVE  Cardinality({u \in Request : result[u] = "failed"}) >= PoolSize
<1> DEFINE S == Stuck(pool[q])
           W == S \cup {q}
           F == {u \in Request : result[u] = "failed"}
<1>1. IsFiniteSet(Request)
  BY FS_Interval, BoundsAssumption DEF Request
<1>2. S \subseteq Request /\ F \subseteq Request /\ q \notin S
  BY DEF Stuck, Busy
<1>3. IsFiniteSet(S) /\ IsFiniteSet(F) /\ Cardinality(F) \in Nat
  BY <1>1, <1>2, FS_Subset, FS_CardinalityType
<1>4. IsFiniteSet(W) /\ Cardinality(W) = PoolSize + 1
  BY <1>2, <1>3, FS_AddElement
<1>5. IsFiniteSet(W \ {cur}) /\ Cardinality(W \ {cur}) >= PoolSize
  <2>1. IsFiniteSet(W \ {cur})
        /\ Cardinality(W \ {cur}) =
             IF cur \in W THEN Cardinality(W) - 1 ELSE Cardinality(W)
    BY <1>4, FS_RemoveElement
  <2>2. QED
    BY <1>4, <2>1, BoundsAssumption
<1>6. ASSUME NEW u \in W \ {cur} PROVE u \in F
  <2>1. u \in Request
        /\ handler[u] \in {"queued", "read", "protect", "answer"}
    BY <1>2 DEF Stuck
  <2>2. u <= cur
    BY <2>1 DEF IInv, TypeOK, Progress, ProgressOf, Request
  <2>3. result[u] # "none"
    BY <2>1, <2>2 DEF IInv, TypeOK, OneRequest, Request
  <2>4. QED
    BY <2>1, <2>3, UnansweredNotUsed
<1>7. Cardinality(W \ {cur}) <= Cardinality(F)
  BY <1>3, <1>6, FS_Subset
<1>8. Cardinality(W \ {cur}) \in Nat
  BY <1>5, FS_CardinalityType
<1>9. QED
  BY <1>3, <1>5, <1>7, <1>8, BoundsAssumption

\* A request waits for a thread of the pool only after as many requests as the
\* pool has threads have failed.
THEOREM QueueNeedsTimeouts == Spec => []QueueOnlyAfterTimeout
<1>1. IInv => QueueOnlyAfterTimeout
  BY FullPool DEF QueueOnlyAfterTimeout
<1>2. QED
  BY <1>1, Invariance, PTL

=============================================================================
