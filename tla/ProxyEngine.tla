----------------------------- MODULE ProxyEngine -----------------------------
(***************************************************************************)
(* The native engine as Kotlin sees it: ProxyEngine.start() and stop(),    *)
(* the four JNI functions they call (ciadpiStart/Stop, tun2socksStart/     *)
(* Stop), and the two pthreads those create and join.                      *)
(*                                                                         *)
(* Kotlin threads (Callers) run start() and stop() with no lock between    *)
(* them.  Each JNI library has one g_running flag, one g_thread handle and *)
(* one global through which a stop reaches the event loop: server_fd for   *)
(* ciadpi, bridge_stop_pipe for tun2socks.  Every access to these globals  *)
(* is a step of its own.                                                   *)
(***************************************************************************)
EXTENDS Naturals, FiniteSets

CONSTANTS
    Callers,      \* Kotlin threads that may be inside ProxyEngine
    MaxThreads    \* bound: pthreads created per library

ASSUME MaxThreadsAssumption == MaxThreads \in Nat \ {0}

Comp     == {"ciadpi", "tun2socks"}
ThreadId == 1..MaxThreads
NoThread == 0

\* Life of a pthread.  "bound": ciadpi has its listening socket, tun2socks
\* its stop pipe.  "up": inside the event loop.  "ending": out of it, before
\* the last statement g_running = 0.
Phase    == {"none", "init", "bound", "up", "ending", "done"}

\* "undo" is the ciadpiStop() a failed start() ends with.
Op       == {"idle", "start", "stop", "undo"}
Statement == {"protect", "check", "flag", "create", "signal", "join", "wait",
              "reset"}

\* "stops": only calls of stop() have met; "mixed": a start() was involved.
Overlap  == {"none", "stops", "mixed"}

VARIABLES
    g_running,      \* [Comp -> BOOLEAN]
    g_thread,       \* [Comp -> handle of the pthread created last]
    phase,          \* [Comp -> [ThreadId -> Phase]]
    channel,        \* [Comp -> whose listener/pipe the stop global names]
    stop_request,   \* [Comp -> threads whose loop has been told to stop]
    joined,         \* [Comp -> handles given to pthread_join]
    server,         \* ProtectSocketServer.running
    bridged,        \* ciadpi threads started with a protect path
    op,             \* [Callers -> the ProxyEngine call in progress]
    on,             \* [Callers -> the library the call is working on]
    at,             \* [Callers -> the next statement of the call]
    target,         \* [Callers -> the handle pthread_join waits for]
    path,           \* [Callers -> start(): protectServerOk]
    overlap,        \* history: which calls have been in progress at once
    rejoined        \* history: a handle was given to pthread_join twice

globals == <<g_running, g_thread, channel>>
threads == <<phase, stop_request, joined, bridged>>
calls   == <<op, on, at, target, path>>
history == <<overlap, rejoined>>
vars    == <<globals, threads, server, calls, history>>

Live(c) == {t \in ThreadId : phase[c][t] \notin {"none", "done"}}

Init ==
    /\ g_running = [c \in Comp |-> FALSE]
    /\ g_thread = [c \in Comp |-> NoThread]
    /\ phase = [c \in Comp |-> [t \in ThreadId |-> "none"]]
    /\ channel = [c \in Comp |-> NoThread]
    /\ stop_request = [c \in Comp |-> {}]
    /\ joined = [c \in Comp |-> {}]
    /\ server = FALSE
    /\ bridged = {}
    /\ op = [k \in Callers |-> "idle"]
    /\ on = [k \in Callers |-> "ciadpi"]
    /\ at = [k \in Callers |-> "protect"]
    /\ target = [k \in Callers |-> NoThread]
    /\ path = [k \in Callers |-> FALSE]
    /\ overlap = "none"
    /\ rejoined = FALSE

-----------------------------------------------------------------------------
(* Moving a caller through its call.                                       *)

\* The locals of k's call: operation, library, next statement, handle being
\* joined, protectServerOk.
Frame(k, o, c, s, t, p) ==
    /\ op' = [op EXCEPT ![k] = o]
    /\ on' = [on EXCEPT ![k] = c]
    /\ at' = [at EXCEPT ![k] = s]
    /\ target' = [target EXCEPT ![k] = t]
    /\ path' = [path EXCEPT ![k] = p]

Goto(k, c, s) == Frame(k, op[k], c, s, target[k], path[k])

Return(k) == Frame(k, "idle", "ciadpi", "protect", NoThread, FALSE)

\* A call begins.  History records how it meets the calls under way.
Call(k, o, c, s) ==
    LET others == {op[j] : j \in Callers} \ {"idle"} IN
    /\ op[k] = "idle"
    /\ Frame(k, o, c, s, NoThread, FALSE)
    /\ overlap' = IF others = {} THEN overlap
                  ELSE IF others \cup {o} = {"stop"} /\ overlap # "mixed"
                       THEN "stops"
                       ELSE "mixed"
    /\ UNCHANGED <<globals, threads, server, rejoined>>

-----------------------------------------------------------------------------
(* ProxyEngine.start()                                                     *)

Start(k) == Call(k, "start", "ciadpi", "protect")

\* ProtectSocketServer.start(): true when already running; may fail, which
\* start() does not treat as fatal.
StartProtect(k) ==
    /\ op[k] = "start" /\ at[k] = "protect"
    /\ \E ok \in BOOLEAN :
         /\ server => ok
         /\ server' = ok
         /\ Frame(k, "start", "ciadpi", "check", NoThread, ok)
    /\ UNCHANGED <<globals, threads, history>>

\* What start() does once the library's start function has returned 0.
Started(k) ==
    IF on[k] = "ciadpi" THEN Goto(k, "tun2socks", "check") ELSE Return(k)

\* (mutant) the g_running test is missing
StartCheckNoGuard(k) ==
    /\ op[k] = "start" /\ at[k] = "check"
    /\ Goto(k, on[k], "flag")
    /\ UNCHANGED <<globals, threads, server, history>>

\* if (g_running) return 0;
StartCheck(k) ==
    /\ op[k] = "start" /\ at[k] = "check"
    /\ IF g_running[on[k]] THEN Started(k) ELSE Goto(k, on[k], "flag")
    /\ UNCHANGED <<globals, threads, server, history>>

\* g_running = 1;
StartFlag(k) ==
    /\ op[k] = "start" /\ at[k] = "flag"
    /\ g_running' = [g_running EXCEPT ![on[k]] = TRUE]
    /\ Goto(k, on[k], "create")
    /\ UNCHANGED <<g_thread, channel, threads, server, history>>

\* pthread_create() succeeds.
StartCreate(k) ==
    LET c == on[k]
        t == g_thread[c] + 1
    IN  /\ op[k] = "start" /\ at[k] = "create"
        /\ t \in ThreadId
        /\ g_thread' = [g_thread EXCEPT ![c] = t]
        /\ phase' = [phase EXCEPT ![c][t] = "init"]
        /\ bridged' = IF c = "ciadpi" /\ path[k] THEN bridged \cup {t}
                                                 ELSE bridged
        /\ Started(k)
        /\ UNCHANGED <<g_running, channel, stop_request, joined, server,
                       history>>

\* (mutant) ciadpi is left running when tun2socks cannot be started
StartCreateFailsKept(k) ==
    /\ op[k] = "start" /\ at[k] = "create"
    /\ g_running' = [g_running EXCEPT ![on[k]] = FALSE]
    /\ Return(k)
    /\ UNCHANGED <<g_thread, channel, threads, server, history>>

\* pthread_create() fails: g_running = 0, return -1.  start() gives up; when
\* it was tun2socks that failed it first calls ciadpiStop().
StartCreateFails(k) ==
    /\ op[k] = "start" /\ at[k] = "create"
    /\ g_running' = [g_running EXCEPT ![on[k]] = FALSE]
    /\ IF on[k] = "ciadpi"
         THEN Return(k)
         ELSE Frame(k, "undo", "ciadpi", "check", NoThread, FALSE)
    /\ UNCHANGED <<g_thread, channel, threads, server, history>>

-----------------------------------------------------------------------------
(* ProxyEngine.stop(), and the ciadpiStop() of a failed start().           *)

Stop(k) == Call(k, "stop", "tun2socks", "check")

Stopping(k) == op[k] \in {"stop", "undo"}

\* (mutant) the protect server goes down before ciadpi
StoppedServerFirst(k) ==
    IF op[k] = "undo" THEN Return(k) ELSE Goto(k, "ciadpi", "protect")

\* What follows once the library's stop function has returned.
Stopped(k) ==
    IF op[k] = "undo" THEN Return(k)
    ELSE IF on[k] = "tun2socks" THEN Goto(k, "ciadpi", "check")
    ELSE Goto(k, "ciadpi", "protect")

\* (mutant) the g_running test is missing
StopCheckNoGuard(k) ==
    /\ Stopping(k) /\ at[k] = "check"
    /\ Goto(k, on[k], "signal")
    /\ UNCHANGED <<globals, threads, server, history>>

\* if (!g_running) return;
StopCheck(k) ==
    /\ Stopping(k) /\ at[k] = "check"
    /\ IF g_running[on[k]] THEN Goto(k, on[k], "signal") ELSE Stopped(k)
    /\ UNCHANGED <<globals, threads, server, history>>

\* (mutant) the descriptor is used without the test for a valid one
ReachedUnchecked(c) == {{channel[c]}}

\* Whom a shutdown(server_fd) or a write to bridge_stop_pipe reaches.
\* server_fd keeps its number after the listener is closed; the number may
\* meanwhile belong to the listener of a thread that has not stored its own.
Reached(c) ==
    LET t == channel[c] IN
    IF t = NoThread THEN {{}}
    ELSE IF phase[c][t] \in {"bound", "up"} THEN {{t}}
    ELSE IF c = "tun2socks" THEN {{}}
    ELSE {{}} \cup {{u} : u \in {v \in ThreadId : phase[c][v] = "bound"}}

StopSignal(k) ==
    LET c == on[k] IN
    /\ Stopping(k) /\ at[k] = "signal"
    /\ \E r \in Reached(c) :
         stop_request' = [stop_request EXCEPT ![c] = @ \cup r]
    /\ Goto(k, c, "join")
    /\ UNCHANGED <<globals, phase, joined, bridged, server, history>>

\* pthread_join(g_thread) is called.  Joining a handle a second time, or one
\* never written, is an error that returns at once.
StopJoin(k) ==
    LET c == on[k]
        t == g_thread[c]
        bad == t = NoThread \/ t \in joined[c]
    IN  /\ Stopping(k) /\ at[k] = "join"
        /\ Frame(k, op[k], c, IF bad THEN "reset" ELSE "wait", t, FALSE)
        /\ joined' = [joined EXCEPT ![c] = @ \cup ({t} \ {NoThread})]
        /\ rejoined' = (rejoined \/ bad)
        /\ UNCHANGED <<globals, phase, stop_request, bridged, server, overlap>>

\* (mutant) the stop does not wait for the thread
StopJoinedAtOnce(k) ==
    /\ Stopping(k) /\ at[k] = "wait"
    /\ Goto(k, on[k], "reset")
    /\ UNCHANGED <<globals, threads, server, history>>

\* pthread_join() returns: the thread has ended.
StopJoined(k) ==
    /\ Stopping(k) /\ at[k] = "wait"
    /\ phase[on[k]][target[k]] = "done"
    /\ Goto(k, on[k], "reset")
    /\ UNCHANGED <<globals, threads, server, history>>

\* g_running = 0;
StopReset(k) ==
    /\ Stopping(k) /\ at[k] = "reset"
    /\ g_running' = [g_running EXCEPT ![on[k]] = FALSE]
    /\ Stopped(k)
    /\ UNCHANGED <<g_thread, channel, threads, server, history>>

\* ProtectSocketServer.stop(), the last statement of stop().
StopProtect(k) ==
    /\ op[k] = "stop" /\ at[k] = "protect"
    /\ server' = FALSE
    /\ Return(k)
    /\ UNCHANGED <<globals, threads, history>>

-----------------------------------------------------------------------------
(* The pthreads.                                                           *)

Move(c, t, from, to) ==
    /\ phase[c][t] = from
    /\ phase' = [phase EXCEPT ![c][t] = to]
    /\ UNCHANGED <<stop_request, joined, bridged, g_thread, server, calls,
                   history>>

\* The tun2socks bridge closes its stop pipe and sets the global to -1.
ClosePipe(c) ==
    channel' = IF c = "tun2socks" THEN [channel EXCEPT ![c] = NoThread]
                                  ELSE channel

\* ciadpi: listen_socket(); the port can be bound once.
\* tun2socks: pipe(bridge_stop_pipe).
Open(c, t) ==
    /\ Move(c, t, "init", "bound")
    /\ c = "ciadpi" =>
         \A u \in ThreadId : phase[c][u] \notin {"bound", "up"}
    /\ channel' = IF c = "tun2socks" THEN [channel EXCEPT ![c] = t] ELSE channel
    /\ UNCHANGED g_running

\* run() or tun2socks_bridge_run() returns -1 before that.
OpenFails(c, t) ==
    /\ Move(c, t, "init", "ending")
    /\ UNCHANGED <<g_running, channel>>

\* (mutant) start_event_loop() forgets server_fd = srvfd
EnterUnpublished(c, t) ==
    /\ Move(c, t, "bound", "up")
    /\ UNCHANGED <<g_running, channel>>

\* ciadpi: server_fd = srvfd and the loop.  tun2socks: dup(), BTap_Init2()
\* and BReactor_Exec().
Enter(c, t) ==
    /\ Move(c, t, "bound", "up")
    /\ channel' = IF c = "ciadpi" THEN [channel EXCEPT ![c] = t] ELSE channel
    /\ UNCHANGED g_running

\* ciadpi: init_pool() or add_event() fails.  tun2socks: a goto fail_... after
\* the pipe, for instance because the TUN descriptor is closed already.
EnterFails(c, t) ==
    /\ Move(c, t, "bound", "ending")
    /\ channel' = [channel EXCEPT ![c] = IF c = "ciadpi" THEN t ELSE NoThread]
    /\ UNCHANGED g_running

\* The loop ends because it was told to.
Leave(c, t) ==
    /\ t \in stop_request[c]
    /\ Move(c, t, "up", "ending")
    /\ ClosePipe(c)
    /\ UNCHANGED g_running

\* The loop ends by itself: accept4() failed (pool->brk), or the TUN device
\* reported an error (device_error_handler).
LeaveOnError(c, t) ==
    /\ t \notin stop_request[c]
    /\ Move(c, t, "up", "ending")
    /\ ClosePipe(c)
    /\ UNCHANGED g_running

\* g_running = 0; return NULL;
Finish(c, t) ==
    /\ Move(c, t, "ending", "done")
    /\ g_running' = [g_running EXCEPT ![c] = FALSE]
    /\ UNCHANGED channel

-----------------------------------------------------------------------------
CallerStep(k) ==
    \/ StartProtect(k) \/ StartCheck(k) \/ StartFlag(k)
    \/ StartCreate(k) \/ StartCreateFails(k)
    \/ StopCheck(k) \/ StopSignal(k) \/ StopJoin(k) \/ StopJoined(k)
    \/ StopReset(k) \/ StopProtect(k)

ThreadStep(c, t) == Open(c, t) \/ Enter(c, t) \/ Leave(c, t) \/ Finish(c, t)

ThreadError(c, t) ==
    OpenFails(c, t) \/ EnterFails(c, t) \/ LeaveOnError(c, t)

Next ==
    \/ \E k \in Callers : Start(k) \/ Stop(k) \/ CallerStep(k)
    \/ \E c \in Comp, t \in ThreadId : ThreadStep(c, t) \/ ThreadError(c, t)

Spec == Init /\ [][Next]_vars

\* Scheduling: the kernel runs every thread, so a thread that can take its
\* next statement takes it.  Errors, and new calls from the service, may
\* never come.
Fairness ==
    /\ \A k \in Callers : WF_vars(CallerStep(k))
    /\ \A c \in Comp, t \in ThreadId :
         WF_vars(ThreadStep(c, t) \/ OpenFails(c, t))

FairSpec == Spec /\ Fairness

-----------------------------------------------------------------------------
(* Promised to the service: EngineContract, with the event loops that live. *)
Contract == INSTANCE EngineContract WITH live <- [c \in Comp |-> Live(c)]

\* While its calls do not overlap, ProxyEngine implements the contract: one
\* pthread per library at a time, a protect server that outlives ciadpi.
ImplementsContract == Contract!Spec

-----------------------------------------------------------------------------
(* Properties.                                                             *)

TypeOK ==
    /\ g_running \in [Comp -> BOOLEAN]
    /\ g_thread \in [Comp -> 0..MaxThreads]
    /\ phase \in [Comp -> [ThreadId -> Phase]]
    /\ channel \in [Comp -> 0..MaxThreads]
    /\ stop_request \in [Comp -> SUBSET ThreadId]
    /\ joined \in [Comp -> SUBSET ThreadId]
    /\ server \in BOOLEAN
    /\ bridged \in SUBSET ThreadId
    /\ op \in [Callers -> Op]
    /\ on \in [Callers -> Comp]
    /\ at \in [Callers -> Statement]
    /\ target \in [Callers -> 0..MaxThreads]
    /\ path \in [Callers -> BOOLEAN]
    /\ overlap \in Overlap
    /\ rejoined \in BOOLEAN

\* While no start() has overlapped with another call, each library has at
\* most one pthread alive: the g_running test of ciadpiStart/tun2socksStart
\* is enough to keep a second event loop off the library's globals, however
\* many stop() calls run at once.
OneThread ==
    overlap # "mixed" => \A c \in Comp : \A t, u \in Live(c) : t = u

\* While no start() has overlapped with another call, the stop global names
\* the pthread that is inside the event loop: shutdown(server_fd) and the
\* write to bridge_stop_pipe cannot miss a loop that is running.
LoopReachable ==
    overlap # "mixed" => \A c \in Comp, t \in ThreadId :
                           phase[c][t] = "up" => channel[c] = t

\* While no start() has overlapped with another call, a live pthread is never
\* forgotten: g_running still shows it to the next ciadpiStop/tun2socksStop,
\* or some stop() is blocked in pthread_join() for it.
Awaited(c, t) ==
    \E k \in Callers :
        Stopping(k) /\ on[k] = c /\ at[k] = "wait" /\ target[k] = t

NeverOrphaned ==
    overlap # "mixed" =>
        \A c \in Comp : \A t \in Live(c) : g_running[c] \/ Awaited(c, t)

\* While the calls have not overlapped, pthread_join() is never given a
\* handle a second time, nor one that was never written (undefined in POSIX).
NoRejoin == overlap = "none" => ~rejoined

\* While the calls have not overlapped, a ciadpi thread that was given a
\* protect path always finds ProtectSocketServer running: start() brings the
\* server up first and stop() takes it down after the join.
BridgeServed ==
    overlap = "none" => (bridged \cap Live("ciadpi") # {} => server)

\* When ProxyEngine.stop() returns and no other call has overlapped with it,
\* both pthreads are gone and the protect server is down.
StopStops ==
    [][\A k \in Callers :
         op[k] = "stop" /\ op'[k] = "idle" /\ overlap = "none"
           => ~server' /\ \A c \in Comp : Live(c)' = {}]_vars

\* A start() that returns while no start() has overlapped with another call
\* has tun2socks running, as far as it can tell, or has left no ciadpi: when
\* the second library cannot be started the first is taken down again, at
\* whatever point of its start-up its pthread is (ProxyEngine.kt:167).
FailedStartUndone ==
    [][\A k \in Callers :
         op[k] \in {"start", "undo"} /\ op'[k] = "idle" /\ overlap # "mixed"
           => g_running'["tun2socks"] \/ Live("ciadpi")' = {}]_vars

\* A stop() that begins when no pthread is still starting up returns.
Settled == \A c \in Comp, t \in ThreadId : phase[c][t] \notin {"init", "bound"}

StopReturns ==
    \A k \in Callers :
      (op[k] = "stop" /\ on[k] = "tun2socks" /\ at[k] = "check" /\ Settled
         /\ overlap = "none")
        ~> (op[k] = "idle" \/ overlap # "none")

\* tun2socks_bridge.h: tun2socks_bridge_stop() asks a running
\* tun2socks_bridge_run() to stop, and that returns from its thread.
BridgeStopStops ==
    \A k \in Callers, t \in ThreadId :
      (Stopping(k) /\ on[k] = "tun2socks" /\ at[k] = "wait" /\ target[k] = t)
        ~> (phase["tun2socks"][t] = "done")

=============================================================================
