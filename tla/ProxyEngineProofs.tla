-------------------------- MODULE ProxyEngineProofs --------------------------
(***************************************************************************)
(* Proofs about ProxyEngine, for any set of callers and any number of      *)
(* pthreads.  None of the safety properties is inductive: each needs to    *)
(* know what the handles, flags and joins of the calls in progress say     *)
(* about the pthreads that are alive.  IInv collects that knowledge, in    *)
(* layers: always; while no start() has met another call; while no two     *)
(* calls have met.                                                         *)
(***************************************************************************)
EXTENDS ProxyEngine, TLAPS

Starting(k, c) == op[k] = "start" /\ on[k] = c

\* pthread handles are given out in order, and only handles given out are
\* joined or bridged.
Handles ==
    /\ \A c \in Comp, t \in ThreadId : phase[c][t] # "none" <=> t <= g_thread[c]
    /\ \A c \in Comp : \A t \in joined[c] : t <= g_thread[c]
    /\ \A t \in bridged : t <= g_thread["ciadpi"]

-----------------------------------------------------------------------------
(* While no start() has met another call.                                  *)

\* A start(), its failure path included, is the only call in progress.
SoleStarter ==
    \A j, k \in Callers :
        op[k] \in {"start", "undo"} /\ op[j] # "idle" => j = k

\* A live pthread is the one created last.
LiveIsLatest == \A c \in Comp : \A t \in Live(c) : t = g_thread[c]

\* A start() past the g_running test has the library to itself.
StarterFindsNone ==
    \A k \in Callers, c \in Comp :
        Starting(k, c) /\ at[k] \in {"flag", "create"} => Live(c) = {}

FlagRaised ==
    \A k \in Callers, c \in Comp :
        Starting(k, c) /\ at[k] = "create" => g_running[c]

\* A stop() blocked in pthread_join() waits for the pthread created last.
WaitsForLatest ==
    \A k \in Callers :
        Stopping(k) /\ at[k] = "wait" => target[k] = g_thread[on[k]]

JoinedIsAwaited ==
    \A c \in Comp : \A t \in Live(c) : t \in joined[c] => Awaited(c, t)

\* A stop() about to clear g_running leaves nothing behind that no other
\* stop() waits for.
ResetIsSafe ==
    \A k \in Callers, c \in Comp :
        Stopping(k) /\ on[k] = c /\ at[k] = "reset"
          => \A t \in Live(c) : Awaited(c, t)

LatestTracked ==
    \A c \in Comp : \A t \in Live(c) : g_running[c] \/ Awaited(c, t)

LatestReachable ==
    \A c \in Comp, t \in ThreadId :
        \/ phase[c][t] = "up"
        \/ c = "tun2socks" /\ phase[c][t] = "bound"
        => channel[c] = t

Calm ==
    /\ SoleStarter
    /\ LiveIsLatest
    /\ StarterFindsNone
    /\ FlagRaised
    /\ WaitsForLatest
    /\ JoinedIsAwaited
    /\ ResetIsSafe
    /\ LatestTracked
    /\ LatestReachable

-----------------------------------------------------------------------------
(* While no two calls have met.                                            *)

OneCall == \A j, k \in Callers : op[j] # "idle" /\ op[k] # "idle" => j = k

Unjoined(c) == g_thread[c] # NoThread /\ g_thread[c] \notin joined[c]

\* Some call is between raising g_running and creating the pthread, or
\* between joining it and clearing g_running.
Handover(c) ==
    \E k \in Callers :
        \/ Starting(k, c) /\ at[k] = "create"
        \/ Stopping(k) /\ on[k] = c /\ at[k] \in {"wait", "reset"}

FlagMeansUnjoined == \A c \in Comp : g_running[c] => Unjoined(c) \/ Handover(c)

JoinIsFresh ==
    \A k \in Callers, c \in Comp :
        Stopping(k) /\ on[k] = c /\ at[k] \in {"signal", "join"} => Unjoined(c)

PathServed == \A k \in Callers : op[k] = "start" /\ path[k] => server

Served == bridged \cap Live("ciadpi") # {} => server

TunFirst ==
    \A k \in Callers :
        op[k] = "stop" /\ on[k] = "ciadpi" => Live("tun2socks") = {}

ServerLast ==
    \A k \in Callers :
        op[k] = "stop" /\ at[k] = "protect"
          => on[k] = "ciadpi" /\ Live("ciadpi") = {}

Alone ==
    /\ OneCall
    /\ ~rejoined
    /\ FlagMeansUnjoined
    /\ JoinIsFresh
    /\ PathServed
    /\ Served
    /\ TunFirst
    /\ ServerLast

\* The inductive invariant.
IInv ==
    /\ TypeOK
    /\ Handles
    /\ overlap # "mixed" => Calm
    /\ overlap = "none" => Alone

-----------------------------------------------------------------------------
(* Type correctness.                                                       *)

CallsTyped ==
    /\ op \in [Callers -> Op]
    /\ on \in [Callers -> Comp]
    /\ at \in [Callers -> Statement]
    /\ target \in [Callers -> 0..MaxThreads]
    /\ path \in [Callers -> BOOLEAN]

\* Replacing the locals of a call by well-typed ones keeps them well typed.
LEMMA FrameTyped ==
    ASSUME CallsTyped, NEW k \in Callers, NEW o \in Op, NEW c \in Comp,
           NEW s \in Statement, NEW t \in 0..MaxThreads, NEW p \in BOOLEAN,
           Frame(k, o, c, s, t, p)
    PROVE  CallsTyped'
BY DEF CallsTyped, Frame

\* So does moving to another statement,
LEMMA GotoTyped ==
    ASSUME CallsTyped, NEW k \in Callers, NEW c \in Comp, NEW s \in Statement,
           Goto(k, c, s)
    PROVE  CallsTyped'
<1>1. op[k] \in Op /\ target[k] \in 0..MaxThreads /\ path[k] \in BOOLEAN
  BY DEF CallsTyped
<1>2. QED
  BY <1>1, FrameTyped DEF Goto

\* and so does returning to Kotlin.
LEMMA ReturnTyped ==
    ASSUME CallsTyped, NEW k \in Callers, Return(k)
    PROVE  CallsTyped'
<1>1. "idle" \in Op /\ "ciadpi" \in Comp /\ "protect" \in Statement
  BY DEF Op, Comp, Statement
<1>2. NoThread \in 0..MaxThreads /\ FALSE \in BOOLEAN
  BY MaxThreadsAssumption DEF NoThread
<1>3. QED
  BY <1>1, <1>2, FrameTyped DEF Return

\* What a successful pthread_create() does.
Creates(k, c, t) ==
    /\ c = on[k] /\ t = g_thread[c] + 1
    /\ op[k] = "start" /\ at[k] = "create"
    /\ g_thread' = [g_thread EXCEPT ![c] = t]
    /\ phase' = [phase EXCEPT ![c] = [phase[c] EXCEPT ![t] = "init"]]
    /\ bridged' \in {bridged, bridged \cup {t}}
    /\ bridged' # bridged => c = "ciadpi" /\ path[k]
    /\ Started(k)
    /\ UNCHANGED <<g_running, channel, stop_request, joined, server, overlap,
                   rejoined>>

\* What a successful pthread_create() changes: the handle, one pthread, the
\* bridge, and the position of its caller.
LEMMA CreateEffect ==
    ASSUME TypeOK, NEW k \in Callers, StartCreate(k)
    PROVE  \E c \in Comp, t \in ThreadId : Creates(k, c, t)
<1> DEFINE c == on[k]
           t == g_thread[c] + 1
<1>1. c \in Comp /\ t \in ThreadId
  BY DEF TypeOK, StartCreate
<1>2. phase' = [phase EXCEPT ![c] = [phase[c] EXCEPT ![t] = "init"]]
  BY <1>1 DEF TypeOK, StartCreate
<1>3. g_thread' = [g_thread EXCEPT ![c] = t] /\ Started(k)
  BY DEF StartCreate
<1>4. bridged' \in {bridged, bridged \cup {t}} /\ (bridged' # bridged => c = "ciadpi" /\ path[k])
  BY DEF StartCreate
<1>5. UNCHANGED <<g_running, channel, stop_request, joined, server, overlap, rejoined>>
  BY DEF StartCreate, history
<1>6. op[k] = "start" /\ at[k] = "create"
  BY DEF StartCreate
<1> HIDE DEF c, t
<1>7. c = on[k] /\ t = g_thread[c] + 1
  BY DEF c, t
<1>8. QED
  BY <1>1, <1>2, <1>3, <1>4, <1>5, <1>6, <1>7 DEF Creates

\* Every step of start(), stop() and the pthreads keeps the engine's state
\* well typed.
LEMMA TypeInductive == TypeOK /\ [Next]_vars => TypeOK'
<1> SUFFICES ASSUME TypeOK, [Next]_vars PROVE TypeOK'
  OBVIOUS
<1> DEFINE RestTyped ==
      /\ g_running \in [Comp -> BOOLEAN]
      /\ g_thread \in [Comp -> 0..MaxThreads]
      /\ phase \in [Comp -> [ThreadId -> Phase]]
      /\ channel \in [Comp -> 0..MaxThreads]
      /\ stop_request \in [Comp -> SUBSET ThreadId]
      /\ joined \in [Comp -> SUBSET ThreadId]
      /\ server \in BOOLEAN
      /\ bridged \in SUBSET ThreadId
      /\ overlap \in Overlap
      /\ rejoined \in BOOLEAN
<1>typed. CallsTyped /\ RestTyped
  BY DEF TypeOK, CallsTyped
<1>join. CallsTyped' /\ RestTyped' => TypeOK'
  BY DEF TypeOK, CallsTyped
<1>const. /\ \A o \in {"idle", "start", "stop", "undo"} : o \in Op
          /\ "ciadpi" \in Comp /\ "tun2socks" \in Comp
          /\ {"protect", "check", "flag", "create", "signal", "join", "wait",
              "reset"} \subseteq Statement
          /\ NoThread \in 0..MaxThreads
  BY MaxThreadsAssumption DEF Op, Comp, Statement, NoThread
<1>1. ASSUME NEW k \in Callers, Start(k) \/ Stop(k) PROVE TypeOK'
  <2>1. CallsTyped'
    BY <1>1, <1>typed, <1>const, FrameTyped DEF Start, Stop, Call
  <2>2. RestTyped'
    BY <1>1, <1>typed DEF Start, Stop, Call, globals, threads, Overlap
  <2>3. QED
    BY <2>1, <2>2, <1>join
<1>2. ASSUME NEW k \in Callers, StartProtect(k) PROVE TypeOK'
  <2>1. CallsTyped'
    BY <1>2, <1>typed, <1>const, FrameTyped DEF StartProtect
  <2>2. RestTyped'
    BY <1>2, <1>typed DEF StartProtect, globals, threads, history
  <2>3. QED
    BY <2>1, <2>2, <1>join
<1>3. ASSUME NEW k \in Callers, StartCheck(k) PROVE TypeOK'
  <2>1. CallsTyped'
    BY <1>3, <1>typed, <1>const, GotoTyped, ReturnTyped DEF CallsTyped, StartCheck, Started
  <2>2. RestTyped'
    BY <1>3, <1>typed DEF StartCheck, globals, threads, history
  <2>3. QED
    BY <2>1, <2>2, <1>join
<1>4. ASSUME NEW k \in Callers, StartFlag(k) PROVE TypeOK'
  <2>1. CallsTyped'
    BY <1>4, <1>typed, <1>const, GotoTyped DEF CallsTyped, StartFlag
  <2>2. RestTyped'
    BY <1>4, <1>typed DEF StartFlag, globals, threads, history
  <2>3. QED
    BY <2>1, <2>2, <1>join
<1>5. ASSUME NEW k \in Callers, StartCreate(k) PROVE TypeOK'
  <2>1. CallsTyped'
    BY <1>5, <1>typed, <1>const, GotoTyped, ReturnTyped DEF StartCreate, Started
  <2>2. PICK c \in Comp, t \in ThreadId : Creates(k, c, t)
    BY <1>5, CreateEffect
  <2>3. RestTyped'
    BY <2>2, <1>typed DEF Creates, Phase, ThreadId
  <2>4. QED
    BY <2>1, <2>3, <1>join
<1>6. ASSUME NEW k \in Callers, StartCreateFails(k) PROVE TypeOK'
  <2>1. CallsTyped'
    BY <1>6, <1>typed, <1>const, FrameTyped, ReturnTyped DEF StartCreateFails
  <2>2. RestTyped'
    BY <1>6, <1>typed DEF StartCreateFails, globals, threads, history
  <2>3. QED
    BY <2>1, <2>2, <1>join
<1>7. ASSUME NEW k \in Callers, StopCheck(k) PROVE TypeOK'
  <2>1. CallsTyped'
    BY <1>7, <1>typed, <1>const, GotoTyped, ReturnTyped DEF CallsTyped, StopCheck, Stopped
  <2>2. RestTyped'
    BY <1>7, <1>typed DEF StopCheck, globals, threads, history
  <2>3. QED
    BY <2>1, <2>2, <1>join
<1>8. ASSUME NEW k \in Callers, StopSignal(k) PROVE TypeOK'
  <2>1. CallsTyped'
    BY <1>8, <1>typed, <1>const, GotoTyped DEF CallsTyped, StopSignal
  <2>2. RestTyped'
    BY <1>8, <1>typed DEF StopSignal, globals, threads, history, CallsTyped, Reached, ThreadId, NoThread
  <2>3. QED
    BY <2>1, <2>2, <1>join
<1>9. ASSUME NEW k \in Callers, StopJoin(k) PROVE TypeOK'
  <2>1. CallsTyped'
    BY <1>9, <1>typed, <1>const, FrameTyped DEF CallsTyped, StopJoin
  <2>2. RestTyped'
    BY <1>9, <1>typed DEF StopJoin, globals, threads, history, CallsTyped, ThreadId, NoThread
  <2>3. QED
    BY <2>1, <2>2, <1>join
<1>10. ASSUME NEW k \in Callers, StopJoined(k) PROVE TypeOK'
  <2>1. CallsTyped'
    BY <1>10, <1>typed, <1>const, GotoTyped DEF CallsTyped, StopJoined
  <2>2. RestTyped'
    BY <1>10, <1>typed DEF StopJoined, globals, threads, history
  <2>3. QED
    BY <2>1, <2>2, <1>join
<1>11. ASSUME NEW k \in Callers, StopReset(k) PROVE TypeOK'
  <2>1. CallsTyped'
    BY <1>11, <1>typed, <1>const, GotoTyped, ReturnTyped DEF StopReset, Stopped
  <2>2. RestTyped'
    BY <1>11, <1>typed DEF StopReset, globals, threads, history
  <2>3. QED
    BY <2>1, <2>2, <1>join
<1>12. ASSUME NEW k \in Callers, StopProtect(k) PROVE TypeOK'
  <2>1. CallsTyped'
    BY <1>12, <1>typed, ReturnTyped DEF StopProtect
  <2>2. RestTyped'
    BY <1>12, <1>typed DEF StopProtect, globals, threads, history
  <2>3. QED
    BY <2>1, <2>2, <1>join
<1>13. ASSUME NEW c \in Comp, NEW t \in ThreadId, Open(c, t) PROVE TypeOK'
  BY <1>13, MaxThreadsAssumption
  DEF TypeOK, Open, Move, calls, history, Phase, ThreadId
<1>14. ASSUME NEW c \in Comp, NEW t \in ThreadId, OpenFails(c, t) PROVE TypeOK'
  BY <1>14, MaxThreadsAssumption
  DEF TypeOK, OpenFails, Move, calls, history, Phase, ThreadId
<1>15. ASSUME NEW c \in Comp, NEW t \in ThreadId, Enter(c, t) PROVE TypeOK'
  BY <1>15, MaxThreadsAssumption
  DEF TypeOK, Enter, Move, calls, history, Phase, ThreadId
<1>16. ASSUME NEW c \in Comp, NEW t \in ThreadId, EnterFails(c, t) PROVE TypeOK'
  BY <1>16, MaxThreadsAssumption
  DEF TypeOK, EnterFails, Move, calls, history, Phase, ThreadId, NoThread
<1>17. ASSUME NEW c \in Comp, NEW t \in ThreadId, Leave(c, t) PROVE TypeOK'
  BY <1>17, MaxThreadsAssumption
  DEF TypeOK, Leave, Move, calls, history, Phase, ThreadId, ClosePipe, NoThread
<1>18. ASSUME NEW c \in Comp, NEW t \in ThreadId, LeaveOnError(c, t) PROVE TypeOK'
  BY <1>18, MaxThreadsAssumption
  DEF TypeOK, LeaveOnError, Move, calls, history, Phase, ThreadId, ClosePipe, NoThread
<1>19. ASSUME NEW c \in Comp, NEW t \in ThreadId, Finish(c, t) PROVE TypeOK'
  BY <1>19, MaxThreadsAssumption
  DEF TypeOK, Finish, Move, calls, history, Phase, ThreadId
<1>20. CASE UNCHANGED vars
  BY <1>20 DEF TypeOK, vars, globals, threads, calls, history
<1>21. QED
  BY <1>1, <1>2, <1>3, <1>4, <1>5, <1>6, <1>7, <1>8, <1>9, <1>10,
     <1>11, <1>12, <1>13, <1>14, <1>15, <1>16, <1>17, <1>18, <1>19, <1>20
  DEF Next, CallerStep, ThreadStep, ThreadError

-----------------------------------------------------------------------------
(* Handles.                                                                *)

\* ciadpiStart/tun2socksStart number the pthreads in order and no step loses
\* or invents one.
LEMMA HandlesInductive == TypeOK /\ Handles /\ [Next]_vars => Handles'
<1> SUFFICES ASSUME TypeOK, Handles, [Next]_vars PROVE Handles'
  OBVIOUS
<1>1. ASSUME NEW k \in Callers, Start(k) \/ Stop(k) PROVE Handles'
  BY <1>1 DEF Handles, Start, Stop, Call, globals, threads
<1>2. ASSUME NEW k \in Callers, CallerStep(k), ~StartCreate(k), ~StopJoin(k)
      PROVE  Handles'
  BY <1>2 DEF Handles, CallerStep, StartProtect, StartCheck, StartFlag,
    StartCreateFails, StopCheck, StopSignal, StopJoined, StopReset,
    StopProtect, globals, threads
<1>3. ASSUME NEW k \in Callers, StartCreate(k) PROVE Handles'
  <2>1. PICK c \in Comp, t \in ThreadId : Creates(k, c, t)
    BY <1>3, CreateEffect
  <2>2. ASSUME NEW d \in Comp, NEW u \in ThreadId
        PROVE  phase'[d][u] # "none" <=> u <= g_thread'[d]
    <3>1. phase[d][u] # "none" <=> u <= g_thread[d]
      BY DEF Handles
    <3>2. d # c => phase'[d][u] = phase[d][u] /\ g_thread'[d] = g_thread[d]
      BY <2>1 DEF Creates, TypeOK
    <3>3. d = c => /\ phase'[d][u] = IF u = t THEN "init" ELSE phase[d][u]
                   /\ g_thread'[d] = g_thread[d] + 1 /\ t = g_thread[d] + 1
      BY <2>1 DEF Creates, TypeOK
    <3>4. g_thread[d] \in Nat /\ u \in Nat
      BY DEF TypeOK, ThreadId
    <3>5. QED
      BY <3>1, <3>2, <3>3, <3>4
  <2>3. \A d \in Comp : \A u \in joined'[d] : u <= g_thread'[d]
    BY <2>1 DEF Creates, Handles, TypeOK, ThreadId
  <2>4. \A u \in bridged' : u <= g_thread'["ciadpi"]
    <3>1. "ciadpi" \in Comp
      BY DEF Comp
    <3>2. g_thread["ciadpi"] \in Nat /\ g_thread'["ciadpi"] \in Nat
      BY <2>1, <3>1 DEF Creates, TypeOK, ThreadId
    <3>3. g_thread'["ciadpi"] >= g_thread["ciadpi"]
      BY <2>1, <3>1, <3>2 DEF Creates, TypeOK
    <3>4. ASSUME NEW u \in bridged' PROVE u <= g_thread'["ciadpi"]
      <4>1. CASE u \in bridged
        BY <3>2, <3>3, <4>1 DEF Handles, TypeOK, ThreadId
      <4>2. CASE u \notin bridged
        BY <2>1, <3>4, <4>2 DEF Creates, TypeOK, ThreadId
      <4>3. QED
        BY <4>1, <4>2
    <3>5. QED
      BY <3>4
  <2>5. QED
    BY <2>2, <2>3, <2>4 DEF Handles
<1>4. ASSUME NEW k \in Callers, StopJoin(k) PROVE Handles'
  BY <1>4 DEF Handles, StopJoin, TypeOK, ThreadId, NoThread, globals
<1>5. ASSUME NEW c \in Comp, NEW t \in ThreadId,
             ThreadStep(c, t) \/ ThreadError(c, t)
      PROVE  Handles'
  <2>1. PICK from \in Phase \ {"none"}, to \in Phase \ {"none"} : Move(c, t, from, to)
    BY <1>5 DEF ThreadStep, ThreadError, Open, OpenFails, Enter, EnterFails,
      Leave, LeaveOnError, Finish, Phase
  <2>2. QED
    BY <2>1 DEF Handles, Move, TypeOK
<1>6. CASE UNCHANGED vars
  BY <1>6 DEF Handles, vars, globals, threads
<1>7. QED
  BY <1>1, <1>2, <1>3, <1>4, <1>5, <1>6 DEF Next

-----------------------------------------------------------------------------
(* While no start() has met another call.                                  *)

\* The step leaves the calls of the other callers alone.
OthersStay(k) ==
    \A j \in Callers \ {k} :
        /\ op'[j] = op[j] /\ on'[j] = on[j] /\ at'[j] = at[j]
        /\ target'[j] = target[j] /\ path'[j] = path[j]

\* k's call is now in operation o, on library c, at statement s.
NowAt(k, o, c, s) == op'[k] = o /\ on'[k] = c /\ at'[k] = s

\* The locals of the caller become the given ones, those of others stay.
LEMMA FrameEffect ==
    ASSUME TypeOK, NEW k \in Callers, NEW o, NEW c, NEW s, NEW t, NEW p,
           Frame(k, o, c, s, t, p)
    PROVE  OthersStay(k) /\ NowAt(k, o, c, s) /\ target'[k] = t /\ path'[k] = p
BY DEF TypeOK, Frame, OthersStay, NowAt

\* The same for a move to another statement,
LEMMA GotoEffect ==
    ASSUME TypeOK, NEW k \in Callers, NEW c, NEW s, Goto(k, c, s)
    PROVE  /\ OthersStay(k) /\ NowAt(k, op[k], c, s)
           /\ target'[k] = target[k] /\ path'[k] = path[k]
BY FrameEffect DEF Goto

\* and for the return of a call.
LEMMA ReturnEffect ==
    ASSUME TypeOK, NEW k \in Callers, Return(k)
    PROVE  /\ OthersStay(k) /\ NowAt(k, "idle", "ciadpi", "protect")
           /\ path'[k] = FALSE
BY FrameEffect DEF Return

\* Whoever waits for a live pthread goes on waiting: a caller leaves
\* pthread_join() only when the pthread has ended.
LEMMA AwaitedKept ==
    ASSUME NEW k \in Callers, OthersStay(k), UNCHANGED phase,
           Stopping(k) /\ at[k] = "wait" => phase[on[k]][target[k]] = "done",
           NEW c \in Comp, NEW t \in Live(c), Awaited(c, t)
    PROVE  Awaited(c, t)'
<1>1. PICK j \in Callers :
          Stopping(j) /\ on[j] = c /\ at[j] = "wait" /\ target[j] = t
  BY DEF Awaited
<1>2. j # k
  BY <1>1 DEF Live
<1>3. Stopping(j)' /\ on'[j] = c /\ at'[j] = "wait" /\ target'[j] = t
  BY <1>1, <1>2 DEF OthersStay, Stopping
<1>4. QED
  BY <1>3 DEF Awaited

\* What a step of a call that creates and joins no pthread must see to.
LEMMA CallerMove ==
    ASSUME TypeOK, Calm, NEW k \in Callers, OthersStay(k),
           UNCHANGED <<g_thread, phase, channel, joined>>,
           Stopping(k) /\ at[k] = "wait" => phase[on[k]][target[k]] = "done",
           NEW o, NEW c \in Comp, NEW s, NowAt(k, o, c, s),
           op[k] # "idle", s # "wait",
           o = op[k] \/ o = "idle" \/ (op[k] = "start" /\ o = "undo"),
           o = "start" /\ s \in {"flag", "create"} => Live(c) = {},
           o = "start" /\ s = "create" => g_running'[c],
           o \in {"stop", "undo"} /\ s = "reset"
             => \A t \in Live(c) : Awaited(c, t),
           \A d \in Comp : g_running'[d] # g_running[d]
             => g_running'[d] \/ \A t \in Live(d) : Awaited(d, t)'
    PROVE  Calm'
<1> USE DEF Calm
<1>live. \A d \in Comp : Live(d)' = Live(d)
  BY DEF Live
<1>kept. \A d \in Comp : \A t \in Live(d) : Awaited(d, t) => Awaited(d, t)'
  BY AwaitedKept
<1>sole. \A j \in Callers \ {k} : op'[j] \notin {"start", "undo"}
  BY DEF SoleStarter, OthersStay
<1>1. SoleStarter'
  BY DEF SoleStarter, OthersStay, NowAt
<1>2. LiveIsLatest'
  BY <1>live DEF LiveIsLatest
<1>3. StarterFindsNone'
  BY <1>live, <1>sole DEF StarterFindsNone, Starting, NowAt
<1>4. FlagRaised'
  BY <1>sole DEF FlagRaised, Starting, NowAt
<1>5. WaitsForLatest'
  BY DEF WaitsForLatest, OthersStay, NowAt, Stopping
<1>6. JoinedIsAwaited'
  BY <1>live, <1>kept DEF JoinedIsAwaited
<1>7. ResetIsSafe'
  BY <1>live, <1>kept DEF ResetIsSafe, OthersStay, NowAt, Stopping
<1>8. LatestTracked'
  BY <1>live, <1>kept DEF LatestTracked
<1>9. LatestReachable'
  BY DEF LatestReachable
<1>10. QED
  BY <1>1, <1>2, <1>3, <1>4, <1>5, <1>6, <1>7, <1>8, <1>9

\* A pthread that is alive is found by the next test of g_running, unless
\* another stop() waits for it.
LEMMA FlagDownMeansAwaited ==
    ASSUME Calm, NEW c \in Comp, ~g_running[c]
    PROVE  \A t \in Live(c) : Awaited(c, t)
BY DEF Calm, LatestTracked

\* Nobody waits for a pthread while a start() is in progress.
LEMMA NoneAwaited ==
    ASSUME Calm, NEW k \in Callers,
           op[k] = "start" \/ (op[k] = "undo" /\ at[k] # "wait"),
           NEW c \in Comp, NEW t
    PROVE  ~Awaited(c, t)
BY DEF Calm, SoleStarter, Awaited, Stopping

\* A call of start() or stop() that meets no call in a forbidden way keeps
\* the engine calm.
LEMMA CallCalm ==
    ASSUME TypeOK, Calm, NEW k \in Callers, Start(k) \/ Stop(k),
           overlap' # "mixed"
    PROVE  Calm'
<1> USE DEF Calm
<1>0. OthersStay(k) /\ op[k] = "idle"
  BY FrameEffect DEF Start, Stop, Call
<1>same. UNCHANGED <<g_running, g_thread, phase, channel, joined>>
  BY DEF Start, Stop, Call, globals, threads
<1>now. \/ NowAt(k, "start", "ciadpi", "protect")
        \/ NowAt(k, "stop", "tun2socks", "check")
  BY FrameEffect DEF Start, Stop, Call
<1>1. SoleStarter'
  <2>1. CASE Start(k)
    <3>1. \A j \in Callers : op[j] = "idle"
      BY <2>1 DEF Start, Call
    <3>2. QED
      BY <3>1, <1>0 DEF SoleStarter, OthersStay
  <2>2. CASE Stop(k)
    <3>1. \A j \in Callers : op[j] \in {"idle", "stop"}
      BY <2>2 DEF Stop, Call
    <3>2. op'[k] = "stop"
      BY <2>2, FrameEffect DEF Stop, Call, NowAt
    <3>3. QED
      BY <3>1, <3>2, <1>0 DEF SoleStarter, OthersStay
  <2>3. QED
    BY <2>1, <2>2
<1>live. \A d \in Comp : Live(d)' = Live(d)
  BY <1>same DEF Live
<1>kept. \A d \in Comp : \A t \in Live(d) : Awaited(d, t) => Awaited(d, t)'
  BY <1>0, <1>same, AwaitedKept DEF Stopping
<1>2. LiveIsLatest' /\ LatestReachable'
  BY <1>live, <1>same DEF LiveIsLatest, LatestReachable
<1>3. StarterFindsNone' /\ FlagRaised'
  BY <1>live, <1>same, <1>0, <1>now
  DEF StarterFindsNone, FlagRaised, Starting, NowAt, OthersStay
<1>4. WaitsForLatest' /\ ResetIsSafe'
  BY <1>live, <1>kept, <1>same, <1>0, <1>now
  DEF WaitsForLatest, ResetIsSafe, Stopping, NowAt, OthersStay
<1>5. JoinedIsAwaited' /\ LatestTracked'
  BY <1>live, <1>kept, <1>same DEF JoinedIsAwaited, LatestTracked
<1>6. QED
  BY <1>1, <1>2, <1>3, <1>4, <1>5

\* pthread_create() keeps the engine calm: the new pthread is the only one.
LEMMA CreateCalm ==
    ASSUME TypeOK, Handles, Calm, NEW k \in Callers, StartCreate(k)
    PROVE  Calm'
<1> USE DEF Calm
<1>1. PICK c \in Comp, t \in ThreadId : Creates(k, c, t)
  BY CreateEffect
<1>2. Live(c) = {} /\ g_running[c]
  BY <1>1 DEF Creates, StarterFindsNone, FlagRaised, Starting
<1>3. /\ OthersStay(k)
      /\ \/ NowAt(k, "start", "tun2socks", "check")
         \/ NowAt(k, "idle", "ciadpi", "protect")
  BY <1>1, GotoEffect, ReturnEffect DEF Creates, Started
<1>4. Live(c)' = {t} /\ \A d \in Comp \ {c} : Live(d)' = Live(d)
  BY <1>1, <1>2 DEF Creates, Live, TypeOK
<1>5. \A j \in Callers \ {k} : op[j] = "idle" /\ op'[j] = "idle"
  BY <1>1, <1>3 DEF Creates, SoleStarter, OthersStay
<1>6. SoleStarter' /\ WaitsForLatest' /\ ResetIsSafe'
  BY <1>3, <1>5 DEF SoleStarter, WaitsForLatest, ResetIsSafe, NowAt, Stopping
<1>7. StarterFindsNone' /\ FlagRaised'
  BY <1>3, <1>5 DEF StarterFindsNone, FlagRaised, Starting, NowAt
<1>8. LiveIsLatest'
  BY <1>1, <1>4 DEF Creates, LiveIsLatest, TypeOK
<1>9. \A d \in Comp : \A u \in Live(d) : ~Awaited(d, u)
  BY <1>1, NoneAwaited DEF Creates
<1>10. t \notin joined[c]
  BY <1>1 DEF Creates, Handles, TypeOK, ThreadId
<1>11. JoinedIsAwaited'
  BY <1>1, <1>4, <1>9, <1>10 DEF Creates, JoinedIsAwaited
<1>12. LatestTracked'
  BY <1>1, <1>2, <1>4, <1>9 DEF Creates, LatestTracked
<1>13. LatestReachable'
  BY <1>1 DEF Creates, LatestReachable, TypeOK
<1>14. QED
  BY <1>6, <1>7, <1>8, <1>11, <1>12, <1>13

\* The call of pthread_join() keeps the engine calm: whoever joins a live
\* pthread waits for it.
LEMMA JoinCalm ==
    ASSUME TypeOK, Calm, NEW k \in Callers, StopJoin(k)
    PROVE  Calm'
<1> USE DEF Calm
<1>c. PICK c \in Comp : c = on[k]
  BY DEF TypeOK
<1>t. PICK t \in 0..MaxThreads : t = g_thread[c]
  BY DEF TypeOK
<1>bad. PICK bad \in BOOLEAN : bad <=> (t = NoThread \/ t \in joined[c])
  OBVIOUS
<1>1. Stopping(k) /\ at[k] = "join"
  BY DEF StopJoin
<1>2. UNCHANGED <<g_running, g_thread, phase, channel>>
  BY DEF StopJoin, globals
<1>3. /\ OthersStay(k) /\ target'[k] = t
      /\ NowAt(k, op[k], c, IF bad THEN "reset" ELSE "wait")
  <2>1. Frame(k, op[k], c, IF bad THEN "reset" ELSE "wait", t, FALSE)
    BY <1>c, <1>t, <1>bad DEF StopJoin
  <2>2. QED
    BY <2>1, FrameEffect
<1>4. joined' = [joined EXCEPT ![c] = @ \cup ({t} \ {NoThread})]
  BY <1>c, <1>t DEF StopJoin
<1>live. \A d \in Comp : Live(d)' = Live(d)
  BY <1>2 DEF Live
<1>kept. \A d \in Comp : \A u \in Live(d) : Awaited(d, u) => Awaited(d, u)'
  BY <1>1, <1>2, <1>3, AwaitedKept
<1>5. SoleStarter' /\ StarterFindsNone' /\ FlagRaised'
  BY <1>1, <1>2, <1>3, <1>live
  DEF SoleStarter, StarterFindsNone, FlagRaised, Starting, Stopping, NowAt,
    OthersStay
<1>6. LiveIsLatest' /\ LatestReachable'
  BY <1>live, <1>2 DEF LiveIsLatest, LatestReachable
<1>7. WaitsForLatest'
  BY <1>2, <1>3, <1>t DEF WaitsForLatest, Stopping, NowAt, OthersStay
<1>8. ~bad => Awaited(c, t)'
  BY <1>1, <1>3 DEF Awaited, Stopping, NowAt
<1>9. bad => \A u \in Live(c) : Awaited(c, u)
  BY <1>t, <1>bad DEF LiveIsLatest, JoinedIsAwaited, Live, ThreadId, NoThread
<1>10. JoinedIsAwaited'
  <2>1. ASSUME NEW d \in Comp, NEW u \in Live(d), u \in joined'[d]
        PROVE  Awaited(d, u)'
    <3>1. CASE d = c /\ ~bad
      BY <3>1, <1>8, <1>t DEF LiveIsLatest
    <3>2. CASE d = c /\ bad
      BY <3>2, <1>9, <1>kept
    <3>3. CASE d # c
      BY <2>1, <3>3, <1>4, <1>kept DEF JoinedIsAwaited, TypeOK
    <3>4. QED
      BY <3>1, <3>2, <3>3
  <2>2. QED
    BY <2>1, <1>live DEF JoinedIsAwaited
<1>11. ResetIsSafe'
  BY <1>1, <1>3, <1>9, <1>live, <1>kept
  DEF ResetIsSafe, Stopping, NowAt, OthersStay
<1>12. LatestTracked'
  BY <1>live, <1>kept, <1>2 DEF LatestTracked
<1>13. QED
  BY <1>5, <1>6, <1>7, <1>10, <1>11, <1>12

\* What a step of a pthread must see to.
LEMMA ThreadMove ==
    ASSUME TypeOK, Calm, NEW c \in Comp, NEW t \in ThreadId,
           NEW from \in Phase \ {"none", "done"}, NEW to \in Phase \ {"none"},
           Move(c, t, from, to),
           \A d \in Comp : g_running'[d] # g_running[d] => d = c /\ to = "done",
           \A d \in Comp \ {c} : channel'[d] = channel[d],
           to = "up" \/ (c = "tun2socks" /\ to = "bound") => channel'[c] = t
    PROVE  Calm'
<1> USE DEF Calm
<1>1. /\ UNCHANGED <<g_thread, joined>> /\ UNCHANGED <<op, on, at, target>>
      /\ phase' = [phase EXCEPT ![c][t] = to] /\ phase[c][t] = from
  BY DEF Move, calls
<1>2. \A d \in Comp, u \in ThreadId :
        phase'[d][u] = IF d = c /\ u = t THEN to ELSE phase[d][u]
  BY <1>1 DEF TypeOK
<1>live. /\ \A d \in Comp : Live(d)' \subseteq Live(d)
         /\ to = "done" => Live(c)' = {}
         /\ t \in Live(c)
  <2>1. \A d \in Comp : Live(d)' \subseteq Live(d)
    BY <1>1, <1>2 DEF Live
  <2>2. t \in Live(c)
    BY <1>1 DEF Live
  <2>3. to = "done" => t \notin Live(c)'
    BY <1>2 DEF Live
  <2>4. QED
    BY <2>1, <2>2, <2>3 DEF LiveIsLatest
<1>kept. \A d \in Comp, u \in ThreadId : Awaited(d, u) <=> Awaited(d, u)'
  BY <1>1 DEF Awaited, Stopping
<1>3. SoleStarter' /\ WaitsForLatest'
  BY <1>1 DEF SoleStarter, WaitsForLatest, Stopping
<1>4. LiveIsLatest' /\ StarterFindsNone'
  BY <1>1, <1>live DEF LiveIsLatest, StarterFindsNone, Starting
<1>5. FlagRaised'
  BY <1>1, <1>live DEF FlagRaised, StarterFindsNone, Starting
<1>6. JoinedIsAwaited' /\ ResetIsSafe'
  BY <1>1, <1>live, <1>kept DEF JoinedIsAwaited, ResetIsSafe, Stopping, Live
<1>7. LatestTracked'
  BY <1>live, <1>kept DEF LatestTracked, Live
<1>8. LatestReachable'
  <2>1. ASSUME NEW d \in Comp, NEW u \in ThreadId,
               phase'[d][u] = "up" \/ (d = "tun2socks" /\ phase'[d][u] = "bound")
        PROVE  channel'[d] = u
    <3>1. CASE d = c /\ u = t
      BY <2>1, <3>1, <1>2
    <3>2. CASE d = c /\ u # t
      <4>1. u \in Live(c)
        BY <2>1, <3>2, <1>2 DEF Live
      <4>2. QED
        BY <4>1, <3>2, <1>live DEF LiveIsLatest
    <3>3. CASE d # c
      BY <2>1, <3>3, <1>2 DEF LatestReachable
    <3>4. QED
      BY <3>1, <3>2, <3>3
  <2>2. QED
    BY <2>1 DEF LatestReachable
<1>9. QED
  BY <1>3, <1>4, <1>5, <1>6, <1>7, <1>8

\* Every step of the calls and the pthreads keeps the engine calm until a
\* start() meets another call.
LEMMA CalmInductive ==
    ASSUME TypeOK, Handles, overlap # "mixed" => Calm, [Next]_vars,
           overlap' # "mixed"
    PROVE  Calm'
<1>0. overlap # "mixed"
  <2>1. ASSUME NEW k \in Callers, Start(k) \/ Stop(k) PROVE overlap # "mixed"
    BY <2>1 DEF Start, Stop, Call
  <2>2. ASSUME NEW k \in Callers, CallerStep(k) PROVE overlap # "mixed"
    BY <2>2 DEF CallerStep, StartProtect, StartCheck, StartFlag, StartCreate,
      StartCreateFails, StopCheck, StopSignal, StopJoin, StopJoined, StopReset,
      StopProtect, history
  <2>3. ASSUME NEW c \in Comp, NEW t \in ThreadId,
               ThreadStep(c, t) \/ ThreadError(c, t)
        PROVE  overlap # "mixed"
    BY <2>3 DEF ThreadStep, ThreadError, Open, OpenFails, Enter, EnterFails,
      Leave, LeaveOnError, Finish, Move, history
  <2>4. QED
    BY <2>1, <2>2, <2>3 DEF Next, vars, history
<1>calm. Calm
  BY <1>0
<1>comp. /\ "ciadpi" \in Comp /\ "tun2socks" \in Comp
         /\ \A k \in Callers : on[k] \in Comp
  BY DEF Comp, TypeOK
<1>1. ASSUME NEW k \in Callers, Start(k) \/ Stop(k) PROVE Calm'
  BY <1>1, <1>calm, CallCalm
<1>2. ASSUME NEW k \in Callers, StartProtect(k) PROVE Calm'
  <2>1. OthersStay(k) /\ NowAt(k, "start", "ciadpi", "check")
    BY <1>2, FrameEffect DEF StartProtect
  <2>2. /\ op[k] = "start" /\ at[k] = "protect"
        /\ UNCHANGED <<g_running, g_thread, phase, channel, joined>>
    BY <1>2 DEF StartProtect, globals, threads
  <2>3. QED
    BY <2>1, <2>2, <1>calm, <1>comp, CallerMove DEF Stopping
<1>3. ASSUME NEW k \in Callers, StartCheck(k) PROVE Calm'
  <2>1. /\ op[k] = "start" /\ at[k] = "check"
        /\ UNCHANGED <<g_running, g_thread, phase, channel, joined>>
    BY <1>3 DEF StartCheck, globals, threads
  <2>2. CASE g_running[on[k]]
    <3>1. /\ OthersStay(k)
          /\ \/ NowAt(k, "start", "tun2socks", "check")
             \/ NowAt(k, "idle", "ciadpi", "protect")
      BY <1>3, <2>1, <2>2, GotoEffect, ReturnEffect DEF StartCheck, Started
    <3>2. QED
      BY <2>1, <3>1, <1>calm, <1>comp, CallerMove DEF Stopping
  <2>3. CASE ~g_running[on[k]]
    <3>1. OthersStay(k) /\ NowAt(k, "start", on[k], "flag")
      BY <1>3, <2>1, <2>3, GotoEffect DEF StartCheck
    <3>2. Live(on[k]) = {}
      BY <2>1, <2>3, <1>calm, <1>comp, FlagDownMeansAwaited, NoneAwaited
    <3>3. QED
      BY <2>1, <3>1, <3>2, <1>calm, <1>comp, CallerMove DEF Stopping
  <2>4. QED
    BY <2>2, <2>3
<1>4. ASSUME NEW k \in Callers, StartFlag(k) PROVE Calm'
  <2>1. /\ op[k] = "start" /\ at[k] = "flag"
        /\ g_running' = [g_running EXCEPT ![on[k]] = TRUE]
        /\ UNCHANGED <<g_thread, phase, channel, joined>>
    BY <1>4 DEF StartFlag, threads
  <2>2. OthersStay(k) /\ NowAt(k, "start", on[k], "create")
    BY <1>4, <2>1, GotoEffect DEF StartFlag
  <2>3. Live(on[k]) = {}
    BY <2>1, <1>calm, <1>comp DEF Calm, StarterFindsNone, Starting
  <2>4. /\ g_running'[on[k]]
        /\ \A d \in Comp : g_running'[d] # g_running[d] => g_running'[d]
    BY <2>1, <1>comp DEF TypeOK
  <2>5. QED
    BY <2>1, <2>2, <2>3, <2>4, <1>calm, <1>comp, CallerMove DEF Stopping
<1>5. ASSUME NEW k \in Callers, StartCreate(k) PROVE Calm'
  BY <1>5, <1>calm, CreateCalm
<1>6. ASSUME NEW k \in Callers, StartCreateFails(k) PROVE Calm'
  <2>1. /\ op[k] = "start" /\ at[k] = "create"
        /\ g_running' = [g_running EXCEPT ![on[k]] = FALSE]
        /\ UNCHANGED <<g_thread, phase, channel, joined>>
    BY <1>6 DEF StartCreateFails, threads
  <2>2. /\ OthersStay(k)
        /\ \/ NowAt(k, "idle", "ciadpi", "protect")
           \/ NowAt(k, "undo", "ciadpi", "check")
    BY <1>6, ReturnEffect, FrameEffect DEF StartCreateFails
  <2>3. Live(on[k]) = {}
    BY <2>1, <1>calm, <1>comp DEF Calm, StarterFindsNone, Starting
  <2>4. \A d \in Comp : g_running'[d] # g_running[d] => d = on[k]
    BY <2>1, <1>comp DEF TypeOK
  <2>5. QED
    BY <2>1, <2>2, <2>3, <2>4, <1>calm, <1>comp, CallerMove DEF Stopping
<1>stopped. ASSUME NEW k \in Callers, Stopping(k), Stopped(k)
            PROVE  /\ OthersStay(k)
                   /\ \/ NowAt(k, "idle", "ciadpi", "protect")
                      \/ NowAt(k, op[k], "ciadpi", "check")
                      \/ NowAt(k, op[k], "ciadpi", "protect")
  BY <1>stopped, GotoEffect, ReturnEffect DEF Stopped
<1>7. ASSUME NEW k \in Callers, StopCheck(k) PROVE Calm'
  <2>1. /\ Stopping(k) /\ at[k] = "check"
        /\ UNCHANGED <<g_running, g_thread, phase, channel, joined>>
    BY <1>7 DEF StopCheck, globals, threads
  <2>2. CASE g_running[on[k]]
    <3>1. OthersStay(k) /\ NowAt(k, op[k], on[k], "signal")
      BY <1>7, <2>2, GotoEffect DEF StopCheck
    <3>2. QED
      BY <2>1, <3>1, <1>calm, <1>comp, CallerMove DEF Stopping
  <2>3. CASE Stopped(k)
    BY <2>1, <2>3, <1>stopped, <1>calm, <1>comp, CallerMove DEF Stopping
  <2>4. QED
    BY <1>7, <2>2, <2>3 DEF StopCheck
<1>8. ASSUME NEW k \in Callers, StopSignal(k) PROVE Calm'
  <2>1. /\ Stopping(k) /\ at[k] = "signal"
        /\ UNCHANGED <<g_running, g_thread, phase, channel, joined>>
    BY <1>8 DEF StopSignal, globals
  <2>2. OthersStay(k) /\ NowAt(k, op[k], on[k], "join")
    BY <1>8, GotoEffect DEF StopSignal
  <2>3. QED
    BY <2>1, <2>2, <1>calm, <1>comp, CallerMove DEF Stopping
<1>9. ASSUME NEW k \in Callers, StopJoin(k) PROVE Calm'
  BY <1>9, <1>calm, JoinCalm
<1>10. ASSUME NEW k \in Callers, StopJoined(k) PROVE Calm'
  <2>1. /\ Stopping(k) /\ at[k] = "wait"
        /\ phase[on[k]][target[k]] = "done"
        /\ UNCHANGED <<g_running, g_thread, phase, channel, joined>>
    BY <1>10 DEF StopJoined, globals, threads
  <2>2. OthersStay(k) /\ NowAt(k, op[k], on[k], "reset")
    BY <1>10, GotoEffect DEF StopJoined
  <2>3. Live(on[k]) = {}
    BY <2>1, <1>calm, <1>comp DEF Calm, WaitsForLatest, LiveIsLatest, Live
  <2>4. QED
    BY <2>1, <2>2, <2>3, <1>calm, <1>comp, CallerMove DEF Stopping
<1>11. ASSUME NEW k \in Callers, StopReset(k) PROVE Calm'
  <2>1. /\ Stopping(k) /\ at[k] = "reset" /\ Stopped(k)
        /\ g_running' = [g_running EXCEPT ![on[k]] = FALSE]
        /\ UNCHANGED <<g_thread, phase, channel, joined>>
    BY <1>11 DEF StopReset, threads
  <2>2. \A t \in Live(on[k]) : Awaited(on[k], t)
    BY <2>1, <1>calm, <1>comp DEF Calm, ResetIsSafe
  <2>3. PICK c \in Comp : c = on[k]
    BY <1>comp
  <2>4. \A t \in Live(c) : Awaited(c, t)'
    BY <2>1, <2>2, <2>3, <1>stopped, AwaitedKept
  <2>5. \A d \in Comp : g_running'[d] # g_running[d] => d = c
    BY <2>1, <2>3 DEF TypeOK
  <2>6. \A d \in Comp : g_running'[d] # g_running[d]
           => g_running'[d] \/ \A t \in Live(d) : Awaited(d, t)'
    BY <2>4, <2>5
  <2>7. QED
    BY <2>1, <2>6, <1>stopped, <1>calm, <1>comp, CallerMove DEF Stopping
<1>12. ASSUME NEW k \in Callers, StopProtect(k) PROVE Calm'
  <2>1. /\ op[k] = "stop" /\ at[k] = "protect"
        /\ UNCHANGED <<g_running, g_thread, phase, channel, joined>>
    BY <1>12 DEF StopProtect, globals, threads
  <2>2. OthersStay(k) /\ NowAt(k, "idle", "ciadpi", "protect")
    BY <1>12, ReturnEffect DEF StopProtect
  <2>3. QED
    BY <2>1, <2>2, <1>calm, <1>comp, CallerMove DEF Stopping
<1>13. ASSUME NEW c \in Comp, NEW t \in ThreadId,
              ThreadStep(c, t) \/ ThreadError(c, t)
       PROVE  Calm'
  <2>1. PICK from \in Phase \ {"none", "done"}, to \in Phase \ {"none"} :
          /\ Move(c, t, from, to)
          /\ to # "done" => UNCHANGED g_running
          /\ to = "done" => g_running' = [g_running EXCEPT ![c] = FALSE]
          /\ \/ UNCHANGED channel
             \/ \E u \in 0..MaxThreads : channel' = [channel EXCEPT ![c] = u]
          /\ to = "bound" /\ c = "tun2socks" => channel' = [channel EXCEPT ![c] = t]
          /\ to = "up" /\ c = "ciadpi" => channel' = [channel EXCEPT ![c] = t]
          /\ to = "up" => from = "bound"
          /\ to = "up" /\ c = "tun2socks" => UNCHANGED channel
    <3>1. CASE Open(c, t)
      BY <3>1 DEF Open, Phase, ThreadId
    <3>2. CASE OpenFails(c, t)
      BY <3>2 DEF OpenFails, Phase
    <3>3. CASE Enter(c, t)
      BY <3>3 DEF Enter, Phase, ThreadId, Comp
    <3>4. CASE EnterFails(c, t)
      <4>1. PICK u \in 0..MaxThreads : u = IF c = "ciadpi" THEN t ELSE NoThread
        BY MaxThreadsAssumption DEF ThreadId, NoThread
      <4>2. /\ channel' = [channel EXCEPT ![c] = u]
            /\ Move(c, t, "bound", "ending") /\ UNCHANGED g_running
        BY <3>4, <4>1, Zenon DEF EnterFails
      <4>3. "bound" \in Phase \ {"none", "done"} /\ "ending" \in Phase \ {"none"}
        BY DEF Phase
      <4>4. \E v \in 0..MaxThreads : channel' = [channel EXCEPT ![c] = v]
        BY <4>2
      <4>5. QED
        BY <4>2, <4>3, <4>4, Zenon
    <3>5. CASE Leave(c, t) \/ LeaveOnError(c, t)
      BY <3>5, MaxThreadsAssumption
      DEF Leave, LeaveOnError, ClosePipe, Phase, NoThread
    <3>6. CASE Finish(c, t)
      BY <3>6 DEF Finish, Phase
    <3>7. QED
      BY <1>13, <3>1, <3>2, <3>3, <3>4, <3>5, <3>6 DEF ThreadStep, ThreadError
  <2>2. \A d \in Comp : g_running'[d] # g_running[d] => d = c /\ to = "done"
    BY <2>1 DEF TypeOK
  <2>3. \A d \in Comp \ {c} : channel'[d] = channel[d]
    BY <2>1 DEF TypeOK
  <2>4. to = "up" \/ (c = "tun2socks" /\ to = "bound") => channel'[c] = t
    <3>1. to = "up" => phase[c][t] = "bound"
      BY <2>1 DEF Move
    <3>2. QED
      BY <2>1, <3>1, <1>calm DEF Calm, LatestReachable, TypeOK, Comp
  <2>5. QED
    BY <2>1, <2>2, <2>3, <2>4, <1>calm, ThreadMove
<1>14. CASE UNCHANGED vars
  BY <1>14, <1>calm
  DEF vars, globals, threads, calls, history, Calm, SoleStarter, LiveIsLatest,
    StarterFindsNone, FlagRaised, WaitsForLatest, JoinedIsAwaited, ResetIsSafe,
    LatestTracked, LatestReachable, Live, Awaited, Starting, Stopping
<1>15. QED
  BY <1>1, <1>2, <1>3, <1>4, <1>5, <1>6, <1>7, <1>8, <1>9, <1>10, <1>11, <1>12,
     <1>13, <1>14
  DEF Next, CallerStep

-----------------------------------------------------------------------------
(* While no two calls have met.                                            *)

\* What a step of a call that creates and joins no pthread must see to.
LEMMA CallerMoveAlone ==
    ASSUME TypeOK, Alone, NEW k \in Callers, OthersStay(k),
           UNCHANGED <<g_thread, phase, joined, bridged, rejoined>>,
           NEW o, NEW c \in Comp, NEW s, NowAt(k, o, c, s), op[k] # "idle",
           o = op[k] \/ o = "idle" \/ (op[k] = "start" /\ o = "undo"),
           o = "start" /\ path'[k] => server',
           bridged \cap Live("ciadpi") # {} /\ server => server',
           o = "stop" /\ c = "ciadpi" => Live("tun2socks") = {},
           o = "stop" /\ s = "protect" => c = "ciadpi" /\ Live("ciadpi") = {},
           o \in {"stop", "undo"} /\ s \in {"signal", "join"} => Unjoined(c),
           \A d \in Comp : g_running'[d] =>
               \/ Unjoined(d)
               \/ o = "start" /\ c = d /\ s = "create"
               \/ o \in {"stop", "undo"} /\ c = d /\ s \in {"wait", "reset"}
    PROVE  Alone'
<1> USE DEF Alone
<1>idle. \A j \in Callers \ {k} : op[j] = "idle" /\ op'[j] = "idle"
  BY DEF OneCall, OthersStay
<1>live. \A d \in {"ciadpi", "tun2socks"} : Live(d)' = Live(d)
  BY DEF Live
<1>unj. \A d \in Comp : Unjoined(d)' = Unjoined(d)
  BY DEF Unjoined
<1>1. OneCall' /\ ~rejoined'
  BY <1>idle DEF OneCall
<1>2. FlagMeansUnjoined'
  BY <1>unj DEF FlagMeansUnjoined, Handover, Starting, Stopping, NowAt
<1>3. JoinIsFresh'
  BY <1>idle, <1>unj DEF JoinIsFresh, Stopping, NowAt
<1>4. PathServed'
  BY <1>idle DEF PathServed, NowAt
<1>5. Served'
  BY <1>live DEF Served
<1>6. TunFirst' /\ ServerLast'
  BY <1>idle, <1>live DEF TunFirst, ServerLast, NowAt
<1>7. QED
  BY <1>1, <1>2, <1>3, <1>4, <1>5, <1>6

\* The handle is still to be joined whenever g_running is up, unless the call
\* in progress is the one that raised the flag or took the handle.
LEMMA FlagUp ==
    ASSUME Alone, NEW k \in Callers, op[k] # "idle",
           NEW c \in Comp, g_running[c],
           ~(op[k] = "start" /\ on[k] = c /\ at[k] = "create"),
           ~(Stopping(k) /\ on[k] = c /\ at[k] \in {"wait", "reset"})
    PROVE  Unjoined(c)
BY DEF Alone, FlagMeansUnjoined, Handover, OneCall, Starting, Stopping

\* With no other call in progress nobody else can be waiting.
LEMMA FlagDown ==
    ASSUME Calm, Alone, NEW k \in Callers, op[k] # "idle", at[k] # "wait",
           NEW c \in Comp, \A t \in Live(c) : g_running[c] => Awaited(c, t)
    PROVE  Live(c) = {}
BY DEF Calm, Alone, LatestTracked, OneCall, Awaited, Stopping

\* A call that begins when none is in progress keeps the engine single-called.
LEMMA CallAlone ==
    ASSUME TypeOK, Alone, NEW k \in Callers, Start(k) \/ Stop(k),
           overlap' = "none"
    PROVE  Alone'
<1> USE DEF Alone
<1>1. OthersStay(k) /\ \A j \in Callers : op[j] = "idle"
  BY FrameEffect DEF Start, Stop, Call
<1>2. UNCHANGED <<g_running, g_thread, phase, joined, bridged, server, rejoined>>
  BY DEF Start, Stop, Call, globals, threads
<1>3. /\ path'[k] = FALSE
      /\ \/ NowAt(k, "start", "ciadpi", "protect")
         \/ NowAt(k, "stop", "tun2socks", "check")
  BY FrameEffect DEF Start, Stop, Call
<1>4. OneCall' /\ ~rejoined'
  BY <1>1, <1>2 DEF OneCall, OthersStay
<1>5. FlagMeansUnjoined'
  BY <1>1, <1>2
  DEF FlagMeansUnjoined, Handover, Starting, Stopping, Unjoined
<1>6. JoinIsFresh' /\ PathServed'
  BY <1>1, <1>3 DEF JoinIsFresh, PathServed, Stopping, NowAt, OthersStay
<1>7. Served' /\ TunFirst' /\ ServerLast'
  BY <1>1, <1>2, <1>3 DEF Served, TunFirst, ServerLast, Live, NowAt, OthersStay
<1>8. QED
  BY <1>4, <1>5, <1>6, <1>7

\* pthread_create() hands the raised flag over to an unjoined handle.
LEMMA CreateAlone ==
    ASSUME TypeOK, Handles, Calm, Alone, NEW k \in Callers, StartCreate(k)
    PROVE  Alone'
<1> USE DEF Alone
<1>1. PICK c \in Comp, t \in ThreadId : Creates(k, c, t)
  BY CreateEffect
<1>2. op[k] = "start" /\ on[k] = c /\ at[k] = "create"
  BY <1>1 DEF Creates
<1>3. /\ OthersStay(k)
      /\ \/ NowAt(k, "start", "tun2socks", "check") /\ path'[k] = path[k]
         \/ NowAt(k, "idle", "ciadpi", "protect")
  BY <1>1, GotoEffect, ReturnEffect DEF Creates, Started
<1>4. \A j \in Callers \ {k} : op'[j] = "idle"
  BY <1>2, <1>3 DEF OneCall, OthersStay
<1>5. OneCall' /\ ~rejoined' /\ JoinIsFresh' /\ TunFirst' /\ ServerLast'
  BY <1>1, <1>3, <1>4
  DEF Creates, OneCall, JoinIsFresh, TunFirst, ServerLast, Stopping, NowAt
<1>6. PathServed'
  BY <1>1, <1>2, <1>3, <1>4 DEF Creates, PathServed, NowAt
<1>7. FlagMeansUnjoined'
  <2>1. ASSUME NEW d \in Comp, g_running'[d] PROVE Unjoined(d)'
    <3>1. CASE d = c
      BY <1>1, <3>1 DEF Creates, Unjoined, Handles, TypeOK, ThreadId, NoThread
    <3>2. CASE d # c
      <4>1. Unjoined(d)
        BY <1>1, <1>2, <2>1, <3>2, FlagUp DEF Creates, Stopping
      <4>2. QED
        BY <1>1, <3>2, <4>1 DEF Creates, Unjoined, TypeOK
    <3>3. QED
      BY <3>1, <3>2
  <2>2. QED
    BY <2>1 DEF FlagMeansUnjoined
<1>8. Served'
  <2>1. CASE bridged' # bridged
    BY <1>1, <1>2, <2>1 DEF Creates, PathServed, Served
  <2>2. CASE bridged' = bridged
    <3>1. t \in bridged => c # "ciadpi"
      BY <1>1 DEF Creates, Handles, TypeOK, ThreadId
    <3>2. \A u \in Live("ciadpi")' : u \in Live("ciadpi") \/ (u = t /\ c = "ciadpi")
      BY <1>1 DEF Creates, Live, TypeOK, Comp
    <3>3. QED
      BY <1>1, <2>2, <3>1, <3>2 DEF Creates, Served
  <2>3. QED
    BY <2>1, <2>2
<1>9. QED
  BY <1>5, <1>6, <1>7, <1>8

\* pthread_join() is given a handle no one has joined.
LEMMA JoinAlone ==
    ASSUME TypeOK, Alone, NEW k \in Callers, StopJoin(k)
    PROVE  Alone'
<1> USE DEF Alone
<1>c. PICK c \in Comp : c = on[k]
  BY DEF TypeOK
<1>1. Stopping(k) /\ at[k] = "join" /\ op[k] # "idle"
  BY DEF StopJoin, Stopping
<1>2. Unjoined(c)
  BY <1>c, <1>1 DEF JoinIsFresh
<1>3. /\ OthersStay(k) /\ path'[k] = FALSE
      /\ NowAt(k, op[k], c, "wait")
  <2>1. Frame(k, op[k], c, "wait", g_thread[c], FALSE)
    BY <1>c, <1>2 DEF StopJoin, Unjoined
  <2>2. QED
    BY <2>1, FrameEffect
<1>4. /\ UNCHANGED <<g_running, g_thread, phase, bridged, server>>
      /\ \A d \in Comp \ {c} : joined'[d] = joined[d]
      /\ rejoined' = rejoined
  <2>1. UNCHANGED <<g_running, g_thread, phase, bridged, server>>
    BY DEF StopJoin, globals
  <2>2. joined' = [joined EXCEPT ![c] = @ \cup ({g_thread[c]} \ {NoThread})]
    BY <1>c DEF StopJoin
  <2>3. rejoined' = (rejoined \/ g_thread[c] = NoThread \/ g_thread[c] \in joined[c])
    BY <1>c DEF StopJoin
  <2>4. rejoined' = rejoined
    BY <1>2, <2>3 DEF Unjoined, TypeOK
  <2>5. QED
    BY <2>1, <2>2, <2>4 DEF TypeOK
<1>idle. \A j \in Callers \ {k} : op'[j] = "idle"
  BY <1>1, <1>3 DEF OneCall, OthersStay
<1>5. OneCall' /\ ~rejoined' /\ JoinIsFresh' /\ PathServed'
  BY <1>1, <1>3, <1>4, <1>idle
  DEF OneCall, JoinIsFresh, PathServed, Stopping, NowAt
<1>6. FlagMeansUnjoined'
  <2>1. ASSUME NEW d \in Comp, g_running'[d] PROVE (Unjoined(d) \/ Handover(d))'
    <3>1. CASE d = c
      BY <1>1, <1>3, <3>1 DEF Handover, Stopping, NowAt
    <3>2. CASE d # c
      <4>1. Unjoined(d)
        BY <1>c, <1>1, <1>4, <2>1, <3>2, FlagUp DEF Stopping
      <4>2. QED
        BY <1>4, <3>2, <4>1 DEF Unjoined
    <3>3. QED
      BY <3>1, <3>2
  <2>2. QED
    BY <2>1 DEF FlagMeansUnjoined
<1>7. Served' /\ TunFirst' /\ ServerLast'
  BY <1>c, <1>1, <1>3, <1>4, <1>idle
  DEF Served, TunFirst, ServerLast, Live, NowAt
<1>8. QED
  BY <1>5, <1>6, <1>7

\* The steps of a pthread join nothing and leave the protect server alone.
LEMMA ThreadAlone ==
    ASSUME TypeOK, Alone, NEW c \in Comp, NEW t \in ThreadId,
           ThreadStep(c, t) \/ ThreadError(c, t)
    PROVE  Alone'
<1> USE DEF Alone
<1>1. PICK from \in Phase \ {"none", "done"}, to \in Phase \ {"none"} :
        /\ Move(c, t, from, to)
        /\ UNCHANGED g_running \/ g_running' = [g_running EXCEPT ![c] = FALSE]
  BY DEF ThreadStep, ThreadError, Open, OpenFails, Enter, EnterFails, Leave,
    LeaveOnError, Finish, Phase
<1>2. /\ UNCHANGED <<g_thread, joined, bridged, server, rejoined>>
      /\ UNCHANGED <<op, on, at, target, path>>
      /\ phase' = [phase EXCEPT ![c][t] = to] /\ phase[c][t] = from
  BY <1>1 DEF Move, calls, history
<1>3. \A d \in {"ciadpi", "tun2socks"} : Live(d)' \subseteq Live(d)
  BY <1>2 DEF Live, TypeOK, Comp
<1>4. \A d \in Comp : g_running'[d] => g_running[d]
  BY <1>1 DEF TypeOK
<1>5. OneCall' /\ ~rejoined' /\ JoinIsFresh' /\ PathServed'
  BY <1>2 DEF OneCall, JoinIsFresh, PathServed, Stopping, Unjoined
<1>6. FlagMeansUnjoined'
  BY <1>2, <1>4 DEF FlagMeansUnjoined, Unjoined, Handover, Starting, Stopping
<1>7. Served' /\ TunFirst' /\ ServerLast'
  BY <1>2, <1>3 DEF Served, TunFirst, ServerLast
<1>8. QED
  BY <1>5, <1>6, <1>7

\* Every step keeps what holds while no two calls have met.
LEMMA AloneInductive ==
    ASSUME TypeOK, Handles, Calm, Alone, [Next]_vars, overlap' = "none"
    PROVE  Alone'
<1>comp. /\ "ciadpi" \in Comp /\ "tun2socks" \in Comp
         /\ \A k \in Callers : on[k] \in Comp
  BY DEF Comp, TypeOK
<1>1. ASSUME NEW k \in Callers, Start(k) \/ Stop(k) PROVE Alone'
  BY <1>1, CallAlone
<1>2. ASSUME NEW k \in Callers, StartProtect(k) PROVE Alone'
  <2>1. /\ op[k] = "start" /\ at[k] = "protect"
        /\ UNCHANGED <<g_running, g_thread, phase, joined, bridged, rejoined>>
    BY <1>2 DEF StartProtect, globals, threads, history
  <2>2. PICK ok \in BOOLEAN :
          /\ server => ok
          /\ server' = ok
          /\ Frame(k, "start", "ciadpi", "check", NoThread, ok)
    BY <1>2 DEF StartProtect
  <2>3. OthersStay(k) /\ NowAt(k, "start", "ciadpi", "check") /\ path'[k] = ok
    BY <2>2, FrameEffect
  <2>4. \A d \in Comp : g_running'[d] => Unjoined(d)
    BY <2>1, FlagUp DEF Stopping
  <2>5. QED
    BY <2>1, <2>2, <2>3, <2>4, <1>comp, CallerMoveAlone
<1>3. ASSUME NEW k \in Callers, StartCheck(k) PROVE Alone'
  <2>1. /\ op[k] = "start" /\ at[k] = "check"
        /\ UNCHANGED <<g_running, g_thread, phase, joined, bridged, server,
                       rejoined>>
    BY <1>3 DEF StartCheck, globals, threads, history
  <2>2. /\ OthersStay(k)
        /\ \/ NowAt(k, "start", "tun2socks", "check") /\ path'[k] = path[k]
           \/ NowAt(k, "idle", "ciadpi", "protect")
           \/ NowAt(k, "start", on[k], "flag") /\ path'[k] = path[k]
    BY <1>3, <2>1, GotoEffect, ReturnEffect DEF StartCheck, Started
  <2>3. path[k] => server
    BY <2>1 DEF Alone, PathServed
  <2>4. \A d \in Comp : g_running'[d] => Unjoined(d)
    BY <2>1, FlagUp DEF Stopping
  <2>5. QED
    BY <2>1, <2>2, <2>3, <2>4, <1>comp, CallerMoveAlone
<1>4. ASSUME NEW k \in Callers, StartFlag(k) PROVE Alone'
  <2>1. /\ op[k] = "start" /\ at[k] = "flag"
        /\ g_running' = [g_running EXCEPT ![on[k]] = TRUE]
        /\ UNCHANGED <<g_thread, phase, joined, bridged, server, rejoined>>
    BY <1>4 DEF StartFlag, threads, history
  <2>2. /\ OthersStay(k) /\ NowAt(k, "start", on[k], "create")
        /\ path'[k] = path[k]
    BY <1>4, <2>1, GotoEffect DEF StartFlag
  <2>3. path[k] => server
    BY <2>1 DEF Alone, PathServed
  <2>4. \A d \in Comp : g_running'[d] => d = on[k] \/ Unjoined(d)
    BY <2>1, <1>comp, FlagUp DEF Stopping, TypeOK
  <2>5. QED
    BY <2>1, <2>2, <2>3, <2>4, <1>comp, CallerMoveAlone
<1>5. ASSUME NEW k \in Callers, StartCreate(k) PROVE Alone'
  BY <1>5, CreateAlone
<1>6. ASSUME NEW k \in Callers, StartCreateFails(k) PROVE Alone'
  <2>1. /\ op[k] = "start" /\ at[k] = "create"
        /\ g_running' = [g_running EXCEPT ![on[k]] = FALSE]
        /\ UNCHANGED <<g_thread, phase, joined, bridged, server, rejoined>>
    BY <1>6 DEF StartCreateFails, threads, history
  <2>2. /\ OthersStay(k)
        /\ \/ NowAt(k, "idle", "ciadpi", "protect")
           \/ NowAt(k, "undo", "ciadpi", "check")
    BY <1>6, ReturnEffect, FrameEffect DEF StartCreateFails
  <2>3. \A d \in Comp : g_running'[d] => Unjoined(d)
    BY <2>1, <1>comp, FlagUp DEF Stopping, TypeOK
  <2>4. QED
    BY <2>1, <2>2, <2>3, <1>comp, CallerMoveAlone
<1>stopped. ASSUME NEW k \in Callers, Stopping(k), Stopped(k), at[k] # "wait",
                   Live(on[k]) = {}
            PROVE  /\ OthersStay(k) /\ path'[k] \in {path[k], FALSE}
                   /\ \/ NowAt(k, "idle", "ciadpi", "protect")
                      \/ /\ op[k] = "stop" /\ NowAt(k, "stop", "ciadpi", "check")
                         /\ Live("tun2socks") = {}
                      \/ /\ op[k] = "stop" /\ NowAt(k, "stop", "ciadpi", "protect")
                         /\ Live("tun2socks") = {} /\ Live("ciadpi") = {}
  <2>1. CASE op[k] = "undo"
    BY <2>1, <1>stopped, ReturnEffect DEF Stopped
  <2>2. CASE op[k] = "stop" /\ on[k] = "tun2socks"
    BY <2>2, <1>stopped, GotoEffect DEF Stopped
  <2>3. CASE op[k] = "stop" /\ on[k] = "ciadpi"
    BY <2>3, <1>stopped, GotoEffect DEF Stopped, Alone, TunFirst
  <2>4. QED
    BY <1>stopped, <1>comp, <2>1, <2>2, <2>3 DEF Stopping, Comp
<1>7. ASSUME NEW k \in Callers, StopCheck(k) PROVE Alone'
  <2>1. /\ Stopping(k) /\ at[k] = "check" /\ op[k] # "idle"
        /\ UNCHANGED <<g_running, g_thread, phase, joined, bridged, server,
                       rejoined>>
    BY <1>7 DEF StopCheck, globals, threads, history, Stopping
  <2>2. \A d \in Comp : g_running'[d] => Unjoined(d)
    BY <2>1, FlagUp DEF Stopping
  <2>3. CASE g_running[on[k]]
    <3>1. OthersStay(k) /\ NowAt(k, op[k], on[k], "signal")
      BY <1>7, <2>3, GotoEffect DEF StopCheck
    <3>2. op[k] = "stop" /\ on[k] = "ciadpi" => Live("tun2socks") = {}
      BY DEF Alone, TunFirst
    <3>3. QED
      BY <2>1, <2>2, <2>3, <3>1, <3>2, <1>comp, CallerMoveAlone DEF Stopping
  <2>4. CASE ~g_running[on[k]]
    <3>1. Live(on[k]) = {}
      <4>1. PICK c \in Comp : c = on[k]
        BY <1>comp
      <4>2. QED
        BY <2>1, <2>4, <4>1, FlagDown
    <3>2. Stopped(k)
      BY <1>7, <2>4 DEF StopCheck
    <3>3. PICK o \in {"idle", "stop"}, s \in {"check", "protect"} :
            /\ OthersStay(k) /\ NowAt(k, o, "ciadpi", s)
            /\ o = "stop" => op[k] = "stop" /\ Live("tun2socks") = {}
            /\ o = "stop" /\ s = "protect" => Live("ciadpi") = {}
      BY <2>1, <3>1, <3>2, <1>stopped
    <3>4. QED
      BY <2>1, <2>2, <3>3, <1>comp, CallerMoveAlone
  <2>5. QED
    BY <2>3, <2>4
<1>8. ASSUME NEW k \in Callers, StopSignal(k) PROVE Alone'
  <2>1. /\ Stopping(k) /\ at[k] = "signal" /\ op[k] # "idle"
        /\ UNCHANGED <<g_running, g_thread, phase, joined, bridged, server,
                       rejoined>>
    BY <1>8 DEF StopSignal, globals, history, Stopping
  <2>2. OthersStay(k) /\ NowAt(k, op[k], on[k], "join")
    BY <1>8, GotoEffect DEF StopSignal
  <2>3. \A d \in Comp : g_running'[d] => Unjoined(d)
    BY <2>1, FlagUp DEF Stopping
  <2>4. /\ Unjoined(on[k])
        /\ op[k] = "stop" /\ on[k] = "ciadpi" => Live("tun2socks") = {}
    BY <2>1, <1>comp DEF Alone, JoinIsFresh, TunFirst
  <2>5. QED
    BY <2>1, <2>2, <2>3, <2>4, <1>comp, CallerMoveAlone DEF Stopping
<1>9. ASSUME NEW k \in Callers, StopJoin(k) PROVE Alone'
  BY <1>9, JoinAlone
<1>10. ASSUME NEW k \in Callers, StopJoined(k) PROVE Alone'
  <2>1. /\ Stopping(k) /\ at[k] = "wait" /\ op[k] # "idle"
        /\ UNCHANGED <<g_running, g_thread, phase, joined, bridged, server,
                       rejoined>>
    BY <1>10 DEF StopJoined, globals, threads, history, Stopping
  <2>2. OthersStay(k) /\ NowAt(k, op[k], on[k], "reset")
    BY <1>10, GotoEffect DEF StopJoined
  <2>3. \A d \in Comp : g_running'[d] => Unjoined(d) \/ d = on[k]
    BY <2>1, FlagUp DEF Stopping
  <2>4. op[k] = "stop" /\ on[k] = "ciadpi" => Live("tun2socks") = {}
    BY DEF Alone, TunFirst
  <2>5. QED
    BY <2>1, <2>2, <2>3, <2>4, <1>comp, CallerMoveAlone DEF Stopping
<1>11. ASSUME NEW k \in Callers, StopReset(k) PROVE Alone'
  <2>1. /\ Stopping(k) /\ at[k] = "reset" /\ op[k] # "idle" /\ Stopped(k)
        /\ g_running' = [g_running EXCEPT ![on[k]] = FALSE]
        /\ UNCHANGED <<g_thread, phase, joined, bridged, server, rejoined>>
    BY <1>11 DEF StopReset, threads, history, Stopping
  <2>2. Live(on[k]) = {}
    <3>1. PICK c \in Comp : c = on[k]
      BY <1>comp
    <3>2. \A t \in Live(c) : Awaited(c, t)
      BY <2>1, <3>1 DEF Calm, ResetIsSafe
    <3>3. QED
      BY <2>1, <3>1, <3>2, FlagDown
  <2>3. \A d \in Comp : g_running'[d] => Unjoined(d)
    BY <2>1, <1>comp, FlagUp DEF Stopping, TypeOK
  <2>4. PICK o \in {"idle", "stop"}, s \in {"check", "protect"} :
          /\ OthersStay(k) /\ NowAt(k, o, "ciadpi", s)
          /\ o = "stop" => op[k] = "stop" /\ Live("tun2socks") = {}
          /\ o = "stop" /\ s = "protect" => Live("ciadpi") = {}
    BY <2>1, <2>2, <1>stopped
  <2>5. QED
    BY <2>1, <2>3, <2>4, <1>comp, CallerMoveAlone
<1>12. ASSUME NEW k \in Callers, StopProtect(k) PROVE Alone'
  <2>1. /\ op[k] = "stop" /\ at[k] = "protect"
        /\ UNCHANGED <<g_running, g_thread, phase, joined, bridged, rejoined>>
    BY <1>12 DEF StopProtect, globals, threads, history
  <2>2. OthersStay(k) /\ NowAt(k, "idle", "ciadpi", "protect")
    BY <1>12, ReturnEffect DEF StopProtect
  <2>3. \A d \in Comp : g_running'[d] => Unjoined(d)
    BY <2>1, FlagUp DEF Stopping
  <2>4. Live("ciadpi") = {}
    BY <2>1 DEF Alone, ServerLast
  <2>5. QED
    BY <2>1, <2>2, <2>3, <2>4, <1>comp, CallerMoveAlone
<1>13. ASSUME NEW c \in Comp, NEW t \in ThreadId,
              ThreadStep(c, t) \/ ThreadError(c, t)
       PROVE  Alone'
  BY <1>13, ThreadAlone
<1>14. CASE UNCHANGED vars
  BY <1>14
  DEF vars, globals, threads, calls, history, Alone, OneCall,
    FlagMeansUnjoined, JoinIsFresh, PathServed, Served, TunFirst, ServerLast,
    Unjoined, Handover, Live, Starting, Stopping
<1>15. QED
  BY <1>1, <1>2, <1>3, <1>4, <1>5, <1>6, <1>7, <1>8, <1>9, <1>10, <1>11, <1>12,
     <1>13, <1>14
  DEF Next, CallerStep

-----------------------------------------------------------------------------
(* The theorems.                                                           *)

\* Before the first start() the libraries' globals satisfy the invariant.
LEMMA InitIInv == Init => IInv
<1> SUFFICES ASSUME Init PROVE IInv
  OBVIOUS
<1> USE DEF Init
<1>1. TypeOK
  <2>1. NoThread \in 0..MaxThreads /\ "none" \in Phase /\ "none" \in Overlap
    BY MaxThreadsAssumption DEF NoThread, Phase, Overlap
  <2>2. "idle" \in Op /\ "ciadpi" \in Comp /\ "protect" \in Statement
    BY DEF Op, Comp, Statement
  <2>3. QED
    BY <2>1, <2>2 DEF TypeOK
<1>2. /\ \A c \in Comp : Live(c) = {}
      /\ "ciadpi" \in Comp /\ "tun2socks" \in Comp
  BY DEF Live, Comp
<1>3. Handles
  BY MaxThreadsAssumption DEF Handles, ThreadId, NoThread, Comp
<1>4. Calm
  BY <1>2
  DEF Calm, SoleStarter, LiveIsLatest, StarterFindsNone, FlagRaised,
    WaitsForLatest, JoinedIsAwaited, ResetIsSafe, LatestTracked,
    LatestReachable, Starting, Stopping
<1>5. Alone
  BY <1>2
  DEF Alone, OneCall, FlagMeansUnjoined, JoinIsFresh, PathServed, Served,
    TunFirst, ServerLast, Stopping
<1>6. QED
  BY <1>1, <1>3, <1>4, <1>5 DEF IInv

\* overlap only grows: what has met has met.
LEMMA OverlapGrows ==
    ASSUME [Next]_vars, overlap' = "none"
    PROVE  overlap = "none"
<1>1. ASSUME NEW k \in Callers, Start(k) \/ Stop(k) PROVE overlap = "none"
  BY <1>1 DEF Start, Stop, Call
<1>2. ASSUME NEW k \in Callers, CallerStep(k) PROVE overlap = "none"
  BY <1>2 DEF CallerStep, StartProtect, StartCheck, StartFlag, StartCreate,
    StartCreateFails, StopCheck, StopSignal, StopJoin, StopJoined, StopReset,
    StopProtect, history
<1>3. ASSUME NEW c \in Comp, NEW t \in ThreadId,
             ThreadStep(c, t) \/ ThreadError(c, t)
      PROVE  overlap = "none"
  BY <1>3 DEF ThreadStep, ThreadError, Open, OpenFails, Enter, EnterFails,
    Leave, LeaveOnError, Finish, Move, history
<1>4. QED
  BY <1>1, <1>2, <1>3 DEF Next, vars, history

\* Every step of the engine keeps the invariant.
LEMMA NextIInv == IInv /\ [Next]_vars => IInv'
<1> SUFFICES ASSUME IInv, [Next]_vars PROVE IInv'
  OBVIOUS
<1>1. TypeOK'
  BY TypeInductive DEF IInv
<1>2. Handles'
  BY HandlesInductive DEF IInv
<1>3. ASSUME overlap' # "mixed" PROVE Calm'
  BY <1>3, CalmInductive DEF IInv
<1>4. ASSUME overlap' = "none" PROVE Alone'
  <2>1. overlap = "none"
    BY <1>4, OverlapGrows
  <2>2. QED
    BY <1>4, <2>1, AloneInductive DEF IInv
<1>5. QED
  BY <1>1, <1>2, <1>3, <1>4 DEF IInv

\* The engine's state satisfies the inductive invariant at all times.
THEOREM Invariance == Spec => []IInv
<1>1. Init => IInv
  BY InitIInv
<1>2. IInv /\ [Next]_vars => IInv'
  BY NextIInv
<1>3. QED
  BY <1>1, <1>2, PTL DEF Spec

\* The engine's flags, handles and phases stay well typed, in particular no
\* stop ever addresses a pthread that was never created.
THEOREM TypeCorrect == Spec => []TypeOK
<1>1. IInv => TypeOK
  BY DEF IInv
<1>2. QED
  BY <1>1, Invariance, PTL

\* Each JNI library has at most one pthread alive while no start() has met
\* another call, for any number of Kotlin threads stopping at once.
THEOREM AtMostOneThread == Spec => []OneThread
<1>1. IInv => OneThread
  BY DEF IInv, OneThread, Calm, LiveIsLatest
<1>2. QED
  BY <1>1, Invariance, PTL

\* No live pthread is ever forgotten: g_running shows it or a stop() is
\* blocked in pthread_join() for it.
THEOREM ThreadsTracked == Spec => []NeverOrphaned
<1>1. IInv => NeverOrphaned
  BY DEF IInv, NeverOrphaned, Calm, LatestTracked
<1>2. QED
  BY <1>1, Invariance, PTL

\* server_fd and bridge_stop_pipe name the loop that runs.
THEOREM LoopsReachable == Spec => []LoopReachable
<1>1. IInv => LoopReachable
  BY DEF IInv, LoopReachable, Calm, LatestReachable
<1>2. QED
  BY <1>1, Invariance, PTL

\* Without overlapping calls no pthread handle is joined twice.
THEOREM JoinedOnce == Spec => []NoRejoin
<1>1. IInv => NoRejoin
  BY DEF IInv, NoRejoin, Alone
<1>2. QED
  BY <1>1, Invariance, PTL

\* Without overlapping calls ciadpi always finds the protect server it was
\* started with.
THEOREM AlwaysServed == Spec => []BridgeServed
<1>1. IInv => BridgeServed
  BY DEF IInv, BridgeServed, Alone, Served
<1>2. QED
  BY <1>1, Invariance, PTL

\* The only step in which a stop() returns is the one after the joins.
LEMMA StopStep ==
    ASSUME IInv, [Next]_vars, NEW k \in Callers,
           op[k] = "stop", op'[k] = "idle", overlap = "none"
    PROVE  ~server' /\ \A c \in Comp : Live(c)' = {}
<1> USE DEF IInv
<1>1. StopProtect(k)
  <2>1. ASSUME NEW j \in Callers, Start(j) \/ Stop(j) PROVE FALSE
    BY <2>1, FrameEffect DEF Start, Stop, Call, NowAt, OthersStay
  <2>2. ASSUME NEW j \in Callers, CallerStep(j) PROVE j = k
    <3>1. OthersStay(j)
      BY <2>2, FrameEffect, GotoEffect, ReturnEffect
      DEF CallerStep, StartProtect, StartCheck, StartFlag, StartCreate,
        StartCreateFails, StopCheck, StopSignal, StopJoin, StopJoined,
        StopReset, StopProtect, Started, Stopped
    <3>2. QED
      BY <3>1 DEF OthersStay
  <2>3. CASE CallerStep(k)
    <3>1. /\ ~StartProtect(k) /\ ~StartCheck(k) /\ ~StartFlag(k)
          /\ ~StartCreate(k) /\ ~StartCreateFails(k)
      BY DEF StartProtect, StartCheck, StartFlag, StartCreate, StartCreateFails
    <3>2. ASSUME Stopped(k) PROVE FALSE
      BY <3>2, GotoEffect DEF Stopped, NowAt
    <3>3. ASSUME StopCheck(k) \/ StopSignal(k) \/ StopJoin(k) \/ StopJoined(k) \/ StopReset(k)
          PROVE  FALSE
      BY <3>2, <3>3, GotoEffect, FrameEffect
      DEF StopCheck, StopSignal, StopJoin, StopJoined, StopReset, NowAt
    <3>4. QED
      BY <2>3, <3>1, <3>3 DEF CallerStep
  <2>4. ASSUME NEW c \in Comp, NEW t \in ThreadId,
               ThreadStep(c, t) \/ ThreadError(c, t)
        PROVE  FALSE
    BY <2>4 DEF ThreadStep, ThreadError, Open, OpenFails, Enter, EnterFails,
      Leave, LeaveOnError, Finish, Move, calls
  <2>5. QED
    BY <2>1, <2>2, <2>3, <2>4 DEF Next, vars, calls
<1>2. ~server' /\ UNCHANGED phase
  BY <1>1 DEF StopProtect, threads
<1>3. Live("ciadpi") = {} /\ Live("tun2socks") = {}
  BY <1>1 DEF StopProtect, Alone, ServerLast, TunFirst
<1>4. QED
  BY <1>2, <1>3 DEF Live, Comp

\* When a stop() that has met no other call returns, both pthreads are gone
\* and the protect server is down.
THEOREM StopsForGood == Spec => StopStops
<1>1. IInv /\ [Next]_vars
        => [\A k \in Callers :
              op[k] = "stop" /\ op'[k] = "idle" /\ overlap = "none"
                => ~server' /\ \A c \in Comp : Live(c)' = {}]_vars
  BY StopStep
<1>2. QED
  BY <1>1, Invariance, PTL DEF Spec, StopStops

\* The stop function that a failed start() ends with is ciadpiStop().
UndoesCiadpi == \A k \in Callers : op[k] = "undo" => on[k] = "ciadpi"

\* No step takes a failed start() to the other library.
LEMMA UndoStep ==
    ASSUME TypeOK, UndoesCiadpi, [Next]_vars
    PROVE  UndoesCiadpi'
<1>1. ASSUME NEW j \in Callers, Start(j) \/ Stop(j) PROVE UndoesCiadpi'
  <2>1. OthersStay(j) /\ op'[j] # "undo"
    BY <1>1, FrameEffect DEF Start, Stop, Call, NowAt
  <2> QED BY <2>1 DEF OthersStay, UndoesCiadpi
<1>2. ASSUME NEW j \in Callers, CallerStep(j) PROVE UndoesCiadpi'
  <2>1. OthersStay(j)
    BY <1>2, FrameEffect, GotoEffect, ReturnEffect
    DEF CallerStep, StartProtect, StartCheck, StartFlag, StartCreate,
      StartCreateFails, StopCheck, StopSignal, StopJoin, StopJoined,
      StopReset, StopProtect, Started, Stopped
  <2>2. op'[j] = "undo" => on'[j] = "ciadpi"
    <3>1. CASE StartProtect(j) \/ StartCheck(j) \/ StartFlag(j) \/ StartCreate(j)
      BY <3>1, FrameEffect, GotoEffect, ReturnEffect
      DEF StartProtect, StartCheck, StartFlag, StartCreate, Started, NowAt
    <3>2. CASE StartCreateFails(j)
      BY <3>2, FrameEffect, ReturnEffect DEF StartCreateFails, NowAt
    <3>3. CASE StopCheck(j) \/ StopReset(j)
      BY <3>3, GotoEffect, ReturnEffect
      DEF StopCheck, StopReset, Stopped, NowAt, UndoesCiadpi
    <3>4. CASE StopSignal(j) \/ StopJoined(j)
      <4>1. NowAt(j, op[j], on[j], at'[j])
        BY <3>4, GotoEffect DEF StopSignal, StopJoined, NowAt
      <4> QED BY <4>1 DEF NowAt, UndoesCiadpi
    <3>5. CASE StopJoin(j)
      <4>1. NowAt(j, op[j], on[j], at'[j])
        BY <3>5, FrameEffect DEF StopJoin, NowAt
      <4> QED BY <4>1 DEF NowAt, UndoesCiadpi
    <3>6. CASE StopProtect(j)
      BY <3>6, ReturnEffect DEF StopProtect, NowAt
    <3> QED BY <1>2, <3>1, <3>2, <3>3, <3>4, <3>5, <3>6 DEF CallerStep
  <2> QED BY <2>1, <2>2 DEF OthersStay, UndoesCiadpi
<1>3. ASSUME NEW c \in Comp, NEW t \in ThreadId,
             ThreadStep(c, t) \/ ThreadError(c, t)
      PROVE  UndoesCiadpi'
  BY <1>3 DEF ThreadStep, ThreadError, Open, OpenFails, Enter, EnterFails,
    Leave, LeaveOnError, Finish, Move, calls, UndoesCiadpi
<1>4. CASE UNCHANGED vars
  BY <1>4 DEF vars, calls, UndoesCiadpi
<1> QED BY <1>1, <1>2, <1>3, <1>4 DEF Next

\* The steps in which a start() returns, with success or after its undo.
LEMMA StartStep ==
    ASSUME IInv, UndoesCiadpi, [Next]_vars, NEW k \in Callers,
           op[k] \in {"start", "undo"}, op'[k] = "idle", overlap # "mixed"
    PROVE  g_running'["tun2socks"] \/ Live("ciadpi")' = {}
<1> USE DEF IInv
<1>comp. "ciadpi" \in Comp /\ "tun2socks" \in Comp /\ on[k] \in Comp
  BY DEF Comp, TypeOK
<1>1. CallerStep(k)
  <2>1. ASSUME NEW j \in Callers, Start(j) \/ Stop(j) PROVE FALSE
    BY <2>1, FrameEffect DEF Start, Stop, Call, NowAt, OthersStay
  <2>2. ASSUME NEW j \in Callers, CallerStep(j) PROVE j = k
    <3>1. OthersStay(j)
      BY <2>2, FrameEffect, GotoEffect, ReturnEffect
      DEF CallerStep, StartProtect, StartCheck, StartFlag, StartCreate,
        StartCreateFails, StopCheck, StopSignal, StopJoin, StopJoined,
        StopReset, StopProtect, Started, Stopped
    <3>2. QED
      BY <3>1 DEF OthersStay
  <2>4. ASSUME NEW c \in Comp, NEW t \in ThreadId,
               ThreadStep(c, t) \/ ThreadError(c, t)
        PROVE  FALSE
    BY <2>4 DEF ThreadStep, ThreadError, Open, OpenFails, Enter, EnterFails,
      Leave, LeaveOnError, Finish, Move, calls
  <2>5. QED
    BY <2>1, <2>2, <2>4 DEF Next, vars, calls
<1>2. CASE StartCheck(k) \/ StartCreate(k)
  <2>1. on[k] = "tun2socks"
    BY <1>2, <1>comp, GotoEffect DEF StartCheck, StartCreate, Started, NowAt, Comp
  <2>2. g_running["tun2socks"] /\ g_running' = g_running
    <3>1. CASE StartCheck(k)
      BY <2>1, <3>1, GotoEffect DEF StartCheck, NowAt, globals
    <3>2. CASE StartCreate(k)
      BY <1>comp, <2>1, <3>2 DEF StartCreate, Calm, FlagRaised, Starting
    <3> QED BY <1>2, <3>1, <3>2
  <2> QED BY <2>2
<1>3. CASE StartCreateFails(k)
  <2>1. on[k] = "ciadpi" /\ phase' = phase
    BY <1>3, <1>comp, FrameEffect DEF StartCreateFails, NowAt, threads, Comp
  <2>2. Live("ciadpi") = {}
    BY <1>3, <1>comp, <2>1 DEF StartCreateFails, Calm, StarterFindsNone, Starting
  <2> QED BY <2>1, <2>2 DEF Live
<1>4. CASE StopCheck(k) \/ StopReset(k)
  <2>1. op[k] = "undo" /\ on[k] = "ciadpi" /\ phase' = phase /\ at[k] \in {"check", "reset"}
    BY <1>4 DEF StopCheck, StopReset, Stopping, UndoesCiadpi, threads
  <2>2. ASSUME NEW t \in Live("ciadpi") PROVE FALSE
    <3>1. Awaited("ciadpi", t)
      <4>1. CASE StopCheck(k)
        <5>1. ~g_running["ciadpi"]
          BY <2>1, <4>1, GotoEffect DEF StopCheck, NowAt
        <5> QED BY <1>comp, <2>2, <5>1 DEF Calm, LatestTracked
      <4>2. CASE StopReset(k)
        BY <1>comp, <2>1, <2>2, <4>2 DEF StopReset, Calm, ResetIsSafe
      <4> QED BY <1>4, <4>1, <4>2
    <3>2. PICK j \in Callers : Stopping(j) /\ at[j] = "wait"
      BY <3>1 DEF Awaited
    <3>3. op[j] # "idle"
      BY <3>2 DEF Stopping
    <3>4. j = k
      BY <2>1, <3>3 DEF Calm, SoleStarter
    <3> QED BY <2>1, <3>2, <3>4
  <2> QED BY <2>1, <2>2 DEF Live
<1>5. ASSUME StartProtect(k) \/ StartFlag(k) PROVE FALSE
  BY <1>5, FrameEffect, GotoEffect DEF StartProtect, StartFlag, NowAt
<1>6. ASSUME StopSignal(k) \/ StopJoined(k) PROVE FALSE
  BY <1>6, GotoEffect DEF StopSignal, StopJoined, NowAt
<1>7. ASSUME StopJoin(k) PROVE FALSE
  BY <1>7, FrameEffect DEF StopJoin, NowAt
<1>8. ~StopProtect(k)
  BY DEF StopProtect
<1> QED BY <1>1, <1>2, <1>3, <1>4, <1>5, <1>6, <1>7, <1>8 DEF CallerStep

\* A start() that has met no other call never leaves a ciadpi behind without
\* a tun2socks.
THEOREM StartsUndone == Spec => FailedStartUndone
<1>1. Init => UndoesCiadpi
  BY DEF Init, UndoesCiadpi
<1>2. IInv /\ UndoesCiadpi /\ [Next]_vars => UndoesCiadpi'
  BY UndoStep DEF IInv
<1>3. IInv /\ UndoesCiadpi /\ [Next]_vars
        => [\A k \in Callers :
              op[k] \in {"start", "undo"} /\ op'[k] = "idle" /\ overlap # "mixed"
                => g_running'["tun2socks"] \/ Live("ciadpi")' = {}]_vars
  BY StartStep
<1>4. QED
  BY <1>1, <1>2, <1>3, Invariance, PTL DEF Spec, FailedStartUndone

-----------------------------------------------------------------------------
(* Refinement of EngineContract.                                           *)

\* A step that moves no pthread into or out of life and leaves the protect
\* server alone is a stutter of the contract.
LEMMA ContractStutter ==
    ASSUME UNCHANGED server, \A c \in Comp : Live(c)' = Live(c)
    PROVE  UNCHANGED Contract!vars
BY DEF Contract!vars

\* Every step of ProxyEngine between states without overlap is a step of
\* EngineContract or a stutter.
LEMMA ContractStep ==
    ASSUME IInv, [Next]_vars, overlap = "none"
    PROVE  [Contract!Next]_(Contract!vars)
<1> USE DEF IInv
<1>comp. "ciadpi" \in Comp /\ "tun2socks" \in Comp
  BY DEF Comp
<1>1. ASSUME UNCHANGED <<phase, server>> PROVE UNCHANGED Contract!vars
  BY <1>1 DEF Contract!vars, Live
<1>2. ASSUME NEW k \in Callers, Start(k) \/ Stop(k) PROVE UNCHANGED Contract!vars
  BY <1>1, <1>2 DEF Start, Stop, Call, threads
<1>3. ASSUME NEW k \in Callers, StartProtect(k)
      PROVE  [Contract!Next]_(Contract!vars)
  <2>1. UNCHANGED phase /\ (server' = server \/ server' = TRUE)
    BY <1>3 DEF StartProtect, threads, TypeOK
  <2>2. CASE server' = server
    BY <2>1, <2>2, <1>1
  <2>3. CASE server' = TRUE
    BY <2>1, <2>3 DEF Contract!Next, Contract!ServerUp, Live
  <2>4. QED
    BY <2>1, <2>2, <2>3
<1>4. ASSUME NEW k \in Callers,
             \/ StartCheck(k) \/ StartFlag(k) \/ StartCreateFails(k)
             \/ StopCheck(k) \/ StopSignal(k) \/ StopJoin(k) \/ StopJoined(k)
             \/ StopReset(k)
      PROVE  UNCHANGED Contract!vars
  BY <1>1, <1>4 DEF StartCheck, StartFlag, StartCreateFails, StopCheck,
    StopSignal, StopJoin, StopJoined, StopReset, threads
<1>5. ASSUME NEW k \in Callers, StartCreate(k) PROVE Contract!Next
  <2>1. PICK c \in Comp, t \in ThreadId : Creates(k, c, t)
    BY <1>5, CreateEffect
  <2>2. Live(c) = {}
    BY <2>1 DEF Creates, Calm, StarterFindsNone, Starting
  <2>3. Live(c)' = {t} /\ \A d \in Comp \ {c} : Live(d)' = Live(d)
    BY <2>1, <2>2 DEF Creates, Live, TypeOK
  <2>4. [d \in Comp |-> Live(d)]' = [[d \in Comp |-> Live(d)] EXCEPT ![c] = {t}]
    BY <2>3
  <2>5. Contract!Spawn(c, t)
    BY <2>1, <2>2, <2>4 DEF Contract!Spawn, Creates
  <2>6. QED
    BY <2>5 DEF Contract!Next
<1>6. ASSUME NEW k \in Callers, StopProtect(k) PROVE Contract!Next
  <2>1. UNCHANGED phase /\ server' = FALSE
    BY <1>6 DEF StopProtect, threads
  <2>2. \A c \in Comp : Live(c) = {}
    BY <1>6 DEF StopProtect, Alone, ServerLast, TunFirst, Comp
  <2>3. Contract!ServerDown
    BY <2>1, <2>2 DEF Contract!ServerDown, Live
  <2>4. QED
    BY <2>3 DEF Contract!Next
<1>7. ASSUME NEW c \in Comp, NEW t \in ThreadId,
             ThreadStep(c, t) \/ ThreadError(c, t), ~Finish(c, t)
      PROVE  UNCHANGED Contract!vars
  <2>1. PICK from \in Phase \ {"none", "done"}, to \in Phase \ {"none", "done"} :
          Move(c, t, from, to)
    BY <1>7 DEF ThreadStep, ThreadError, Open, OpenFails, Enter, EnterFails,
      Leave, LeaveOnError, Phase
  <2>2. UNCHANGED server /\ \A d \in Comp : Live(d)' = Live(d)
    BY <2>1 DEF Move, Live, TypeOK
  <2>3. QED
    BY <2>2, ContractStutter
<1>8. ASSUME NEW c \in Comp, NEW t \in ThreadId, Finish(c, t)
      PROVE  Contract!Next
  <2>1. UNCHANGED server /\ phase[c][t] = "ending"
        /\ phase' = [phase EXCEPT ![c][t] = "done"]
    BY <1>8 DEF Finish, Move
  <2>2. Live(c) = {t}
    <3>1. t \in Live(c)
      BY <2>1 DEF Live
    <3>2. QED
      BY <3>1 DEF Calm, LiveIsLatest
  <2>3. Live(c)' = {} /\ \A d \in Comp \ {c} : Live(d)' = Live(d)
    <3>1. Live(c)' \subseteq Live(c) /\ t \notin Live(c)'
      BY <2>1 DEF Live, TypeOK
    <3>2. \A d \in Comp \ {c} : Live(d)' = Live(d)
      BY <2>1 DEF Live, TypeOK
    <3>3. QED
      BY <2>2, <3>1, <3>2
  <2>4. [d \in Comp |-> Live(d)]' = [[d \in Comp |-> Live(d)] EXCEPT ![c] = {}]
    BY <2>3
  <2>5. Contract!Exit(c, t)
    BY <2>1, <2>2, <2>4 DEF Contract!Exit
  <2>6. QED
    BY <2>5 DEF Contract!Next
<1>9. CASE UNCHANGED vars
  BY <1>1, <1>9 DEF vars, threads
<1>10. QED
  BY <1>2, <1>3, <1>4, <1>5, <1>6, <1>7, <1>8, <1>9
  DEF Next, CallerStep, ThreadStep

\* As long as its calls do not meet, ProxyEngine implements EngineContract.
THEOREM Implements == Spec /\ [](overlap = "none") => ImplementsContract
<1>1. Init => Contract!Init
  BY DEF Init, Contract!Init, Live
<1>2. IInv /\ overlap = "none" /\ [Next]_vars => [Contract!Next]_(Contract!vars)
  BY ContractStep
<1>3. QED
  BY <1>1, <1>2, Invariance, PTL DEF Spec, ImplementsContract, Contract!Spec

=============================================================================
