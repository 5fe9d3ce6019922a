----------------------------- MODULE VpnService -----------------------------
(***************************************************************************)
(* BypassVpnService: one Android service instance after another, the VPN   *)
(* thread each session starts (runVpn), the preset monitor and the ASN     *)
(* detector that thread starts, and the asynchronous stop threads of       *)
(* stopVpn().  None of them holds a lock.  What they share are the fields  *)
(* of the instance, the TUN descriptor and the process-wide engine.        *)
(*                                                                         *)
(* The engine is the coarse view ProxyEngine justifies: a start() that     *)
(* finds g_running set reports success and does nothing; a stop() that     *)
(* finds it set returns when the pthread has ended, whenever that is.      *)
(* currentConfig always follows activePresetId: one field stands for both. *)
(***************************************************************************)
EXTENDS Naturals, Sequences, FiniteSets

CONSTANTS
    Order,        \* AUTO_SWITCH_ORDER, starting with "universal"
    MaxRuns,      \* bound: sessions started
    MaxSwitches   \* bound: preset switches of the monitors

ASSUME OrderAssumption ==
    Order \in Seq(STRING) /\ Order # <<>> /\ Order[1] = "universal"

ASSUME BoundsAssumption == MaxRuns \in Nat /\ MaxSwitches \in Nat

Run      == 1..MaxRuns
None     == 0
Preset   == {Order[i] : i \in 1..Len(Order)}
\* The threads that switch presets, two for each session.
Switcher == {"monitor", "asn"} \X Run
VpnThread == {"vpn"} \X Run
Stopper  == 1..(2 * MaxRuns)

\* "early": a stop while a session is starting.  "restart": a session begins
\* while a thread of an earlier one is alive.  "switch": a stop and a preset
\* switch.  "double": two preset switches.  "again": START while running.
Race == {"early", "restart", "switch", "double", "again"}

\* An instance is named after its first session, a TUN after its session.
VARIABLES
    service,        \* the instance that exists, or None
    dying,          \* stopSelf() was called or the user revoked the VPN
    isRunning, vpnInterface, vpnThread, monitorThread,
    proxyEngineStopThread, activePresetId,      \* fields, by instance
    main,           \* the main thread: idle, in startVpn() or in stopVpn()
    destroying,     \* main is in onDestroy()
    home,           \* [Run -> the instance the session belongs to]
    vpn,            \* [Run -> where its VPN thread is]
    tunFd,          \* [Run -> the descriptor runVpn() has read]
    sw,             \* [Switcher -> where the thread is]
    chosen, swFd,   \* [Switcher -> its locals nextId/suggested and tunFd]
    interrupted,    \* threads whose interrupt flag is set
    tun,            \* the TUN interfaces that are open
    stopper,        \* [Stopper -> where the asynchronous stop thread is]
    g_running, engine,   \* engine: [live, tun, preset]
    switches,       \* preset switches so far
    races,          \* history: which calls have met (Race)
    silent,         \* history: a session's start() found g_running set
    timedOut        \* history: t.join(3000) ended with the stop thread alive

fields  == <<isRunning, vpnInterface, vpnThread, monitorThread,
             proxyEngineStopThread, activePresetId>>
life    == <<service, dying, destroying>>
runs    == <<home, vpn, tunFd>>
switch  == <<sw, chosen, swFd, switches>>
eng     == <<g_running, engine>>
history == <<races, silent, timedOut>>
vars    == <<life, fields, main, runs, switch, interrupted, tun, stopper, eng,
             history>>

Init ==
    /\ service = None /\ dying = FALSE /\ destroying = FALSE
    /\ isRunning = [s \in Run |-> FALSE]
    /\ vpnInterface = [s \in Run |-> None]
    /\ vpnThread = [s \in Run |-> None]
    /\ monitorThread = [s \in Run |-> None]
    /\ proxyEngineStopThread = [s \in Run |-> None]
    /\ activePresetId = [s \in Run |-> "universal"]
    /\ main = "idle"
    /\ home = [r \in Run |-> None]
    /\ vpn = [r \in Run |-> "none"]
    /\ tunFd = [r \in Run |-> None]
    /\ sw = [w \in Switcher |-> "none"]
    /\ chosen = [w \in Switcher |-> "universal"]
    /\ swFd = [w \in Switcher |-> None]
    /\ interrupted = {}
    /\ tun = {}
    /\ stopper = [i \in Stopper |-> "none"]
    /\ g_running = FALSE
    /\ engine = [live |-> FALSE, tun |-> None, preset |-> "universal"]
    /\ switches = 0
    /\ races = {} /\ silent = FALSE /\ timedOut = FALSE

-----------------------------------------------------------------------------
(* Who is where.                                                           *)

Starting(r)  == vpn[r] \in {"probe", "load", "engine", "spawn", "fallback"}
Switching(w) == sw[w] \in {"assign", "stop", "join", "fd", "nap", "start"}
VpnAlive(r)  == vpn[r] \notin {"none", "done"}
SwAlive(w)   == sw[w] \notin {"none", "done"}
Stopping(i)  == stopper[i] \in {"check", "join"}

\* Nothing of an earlier session is left.
Quiet ==
    /\ \A r \in Run : ~VpnAlive(r)
    /\ \A w \in Switcher : ~SwAlive(w)
    /\ \A i \in Stopper : ~Stopping(i)

\* A stopVpn() is past its test and has not reached its last statement, or
\* its ProxyEngine.stop() has not returned.
StopUnderWay ==
    \/ main \in {"close", "release"}
    \/ \E r \in Run : vpn[r] \in {"close", "release"}
    \/ \E i \in Stopper : Stopping(i)

Note(race, happened) == races' = IF happened THEN races \cup {race} ELSE races

-----------------------------------------------------------------------------
(* startVpn(), on the main thread.                                         *)

Fresh(r) == home[r] = None /\ \A q \in Run : q < r => home[q] # None

\* proxyEngineStopThread = null; isRunning = true; the VPN thread starts.
Launch(s) ==
    \E r \in Run :
        /\ Fresh(r)
        /\ home' = [home EXCEPT ![r] = s]
        /\ vpn' = [vpn EXCEPT ![r] = "probe"]
        /\ isRunning' = [isRunning EXCEPT ![s] = TRUE]
        /\ vpnThread' = [vpnThread EXCEPT ![s] = r]
        /\ proxyEngineStopThread' = [proxyEngineStopThread EXCEPT ![s] = None]
        /\ Note("restart", ~Quiet)

\* ACTION_START reaches the instance, which is created when there is none:
\* the preset is reset to "universal" even when the VPN is running already.
\* A stopSelf() that was called before is not taken back (external).
StartCommand ==
    LET s == IF service # None THEN service
             ELSE CHOOSE r \in Run : Fresh(r)
        t == proxyEngineStopThread[s]
    IN  /\ main = "idle"
        /\ \E r \in Run : Fresh(r)
        /\ service' = s
        /\ activePresetId' = [activePresetId EXCEPT ![s] = "universal"]
        /\ \/ /\ isRunning[s]
              /\ races' = races \cup {"again"}
              /\ UNCHANGED <<main, isRunning, vpnThread, proxyEngineStopThread,
                             home, vpn>>
           \/ /\ ~isRunning[s] /\ t # None /\ Stopping(t)
              /\ main' = "join"
              /\ UNCHANGED <<isRunning, vpnThread, proxyEngineStopThread, home,
                             vpn, races>>
           \/ /\ ~isRunning[s] /\ (t # None => ~Stopping(t))
              /\ Launch(s)
              /\ UNCHANGED main
        /\ UNCHANGED <<dying, destroying, vpnInterface, monitorThread, tunFd,
                       switch, interrupted, tun, stopper, eng, silent,
                       timedOut>>

\* t.join(3000) ends: the stop thread has, or the time is up.
StartJoined ==
    /\ main = "join"
    /\ main' = "idle"
    /\ Launch(service)
    /\ timedOut' = (timedOut \/ Stopping(proxyEngineStopThread[service]))
    /\ UNCHANGED <<life, vpnInterface, monitorThread, activePresetId, tunFd,
                   switch, interrupted, tun, stopper, eng, silent>>

-----------------------------------------------------------------------------
(* stopVpn(), by the main thread or by a VPN thread.                       *)

\* if (!isRunning) return, and what its success meets.
NoteStop(s) ==
    races' = races
        \cup {x \in {"early"} : \E r \in Run : home[r] = s /\ Starting(r)}
        \cup {x \in {"switch"} : \E w \in Switcher : Switching(w)}

\* (mutant) the TUN stays open until the service object goes away
CloseTunNever(s) ==
    /\ isRunning' = [isRunning EXCEPT ![s] = FALSE]
    /\ interrupted' = interrupted \cup ({<<"monitor", monitorThread[s]>>} \cap Switcher)
    /\ monitorThread' = [monitorThread EXCEPT ![s] = None]
    /\ tun' = tun

\* isRunning = false; the monitor is interrupted; vpnInterface?.close().
CloseTun(s) ==
    /\ isRunning' = [isRunning EXCEPT ![s] = FALSE]
    /\ interrupted' = interrupted \cup ({<<"monitor", monitorThread[s]>>} \cap Switcher)
    /\ monitorThread' = [monitorThread EXCEPT ![s] = None]
    /\ tun' = tun \ {vpnInterface[s]}

\* (mutant) nobody stops the engine
ReleaseNoStop(s) ==
    /\ vpnInterface' = [vpnInterface EXCEPT ![s] = None]
    /\ interrupted' = interrupted \cup ({<<"vpn", vpnThread[s]>>} \cap VpnThread)
    /\ vpnThread' = [vpnThread EXCEPT ![s] = None]
    /\ dying' = (service = s \/ dying)
    /\ UNCHANGED <<stopper, proxyEngineStopThread>>

\* vpnInterface = null; the VPN thread is interrupted; the thread that will
\* call ProxyEngine.stop() is started; stopSelf().
Release(s) ==
    \E i \in Stopper :
        /\ stopper[i] = "none" /\ \A j \in Stopper : j < i => stopper[j] # "none"
        /\ vpnInterface' = [vpnInterface EXCEPT ![s] = None]
        /\ interrupted' = interrupted \cup ({<<"vpn", vpnThread[s]>>} \cap VpnThread)
        /\ vpnThread' = [vpnThread EXCEPT ![s] = None]
        /\ stopper' = [stopper EXCEPT ![i] = "check"]
        /\ proxyEngineStopThread' = [proxyEngineStopThread EXCEPT ![s] = i]
        /\ dying' = (service = s \/ dying)

\* ACTION_STOP.
StopCommand ==
    /\ main = "idle" /\ service # None
    /\ isRunning[service]
    /\ main' = "close"
    /\ NoteStop(service)
    /\ UNCHANGED <<life, fields, runs, switch, interrupted, tun, stopper, eng,
                   silent, timedOut>>

\* onRevoke() is inherited: it calls stopSelf() (external).
Revoke ==
    /\ service # None /\ isRunning[service] /\ ~dying
    /\ dying' = TRUE
    /\ UNCHANGED <<service, destroying, fields, main, runs, switch, interrupted,
                   tun, stopper, eng, history>>

\* onDestroy(): stopVpn(), then the instance is gone.
Destroy ==
    /\ main = "idle" /\ service # None /\ dying
    /\ IF isRunning[service]
         THEN /\ destroying' = TRUE /\ main' = "close"
              /\ NoteStop(service)
              /\ UNCHANGED <<service, dying>>
         ELSE /\ service' = None /\ dying' = FALSE
              /\ UNCHANGED <<destroying, main, races>>
    /\ UNCHANGED <<fields, runs, switch, interrupted, tun, stopper, eng, silent,
                   timedOut>>

StopClose ==
    /\ main = "close"
    /\ main' = "release"
    /\ CloseTun(service)
    /\ UNCHANGED <<life, vpnInterface, vpnThread, proxyEngineStopThread,
                   activePresetId, runs, switch, stopper, eng, history>>

StopRelease ==
    /\ main = "release"
    /\ main' = IF destroying THEN "gone" ELSE "idle"
    /\ Release(service)
    /\ UNCHANGED <<service, destroying, isRunning, monitorThread,
                   activePresetId, runs, switch, tun, eng, history>>

StopDestroyed ==
    /\ main = "gone"
    /\ main' = "idle"
    /\ service' = None /\ dying' = FALSE /\ destroying' = FALSE
    /\ UNCHANGED <<fields, runs, switch, interrupted, tun, stopper, eng, history>>

-----------------------------------------------------------------------------
(* runVpn(), one VPN thread per session.                                   *)

Step(r, from, to) == vpn[r] = from /\ vpn' = [vpn EXCEPT ![r] = to]

\* The IPv6 probe has ended and establish() returns a TUN, or null, which
\* sets isRunning = false, or throws; then the finally clause runs.
Establish(r) ==
    LET s == home[r] IN
    /\ \/ /\ Step(r, "probe", "load")
          /\ vpnInterface' = [vpnInterface EXCEPT ![s] = r]
          /\ tun' = tun \cup {r}
          /\ UNCHANGED isRunning
       \/ /\ Step(r, "probe", "finally")
          /\ vpnInterface' = [vpnInterface EXCEPT ![s] = None]
          /\ isRunning' = [isRunning EXCEPT ![s] = FALSE]
          /\ UNCHANGED tun
       \/ /\ Step(r, "probe", "finally")
          /\ UNCHANGED <<vpnInterface, isRunning, tun>>
    /\ UNCHANGED <<life, vpnThread, monitorThread, proxyEngineStopThread,
                   activePresetId, main, home, tunFd, switch, interrupted,
                   stopper, eng, history>>

\* vpnInterface!!.fd throws when the field is null or the TUN closed.
Load(r) ==
    LET t == vpnInterface[home[r]] IN
    /\ Step(r, "load", IF t \in tun THEN "engine" ELSE "finally")
    /\ tunFd' = [tunFd EXCEPT ![r] = IF t \in tun THEN t ELSE None]
    /\ UNCHANGED <<life, fields, main, home, switch, interrupted, tun, stopper,
                   eng, history>>

\* (mutant) the pthread is started with the default configuration
EngineStartDefault(t, p) ==
    /\ g_running' = TRUE
    /\ engine' = IF g_running THEN engine
                 ELSE [live |-> TRUE, tun |-> t, preset |-> "universal"]

\* ProxyEngine.start() returns true: if (g_running) return 0, or a pthread.
EngineStart(t, p) ==
    /\ g_running' = TRUE
    /\ engine' = IF g_running THEN engine
                 ELSE [live |-> TRUE, tun |-> t, preset |-> p]

\* ProxyEngine.start() returns false, or throws.
EngineStartFails == ~g_running /\ UNCHANGED eng

StartEngine(r) ==
    /\ \/ /\ Step(r, "engine", "spawn")
          /\ EngineStart(tunFd[r], activePresetId[home[r]])
       \/ /\ Step(r, "engine", "fallback")
          /\ EngineStartFails
    /\ silent' = (silent \/ g_running)
    /\ UNCHANGED <<life, fields, main, home, tunFd, switch, interrupted, tun,
                   stopper, races, timedOut>>

\* startPresetMonitor() and startAsnAutoDetect(), then the waiting loop.
Spawn(r) ==
    LET s == home[r] IN
    /\ Step(r, "spawn", "loop") \/ Step(r, "fallback", "packets")
    /\ interrupted' = interrupted \cup ({<<"monitor", monitorThread[s]>>} \cap Switcher)
    /\ monitorThread' = [monitorThread EXCEPT ![s] = r]
    /\ sw' = [sw EXCEPT ![<<"monitor", r>>] = "sleep", ![<<"asn", r>>] = "sleep"]
    /\ UNCHANGED <<life, isRunning, vpnInterface, vpnThread,
                   proxyEngineStopThread, activePresetId, main, home, tunFd,
                   chosen, swFd, switches, tun, stopper, eng, history>>

\* runNativeIdleLoop() ends, or runKotlinPacketLoop(): an interrupt ends
\* the sleep of the one, a closed TUN the read of the other.
LoopEnds(r) ==
    /\ \/ /\ Step(r, "loop", "finally")
          /\ ~isRunning[home[r]] \/ <<"vpn", r>> \in interrupted
       \/ /\ Step(r, "packets", "finally")
          /\ ~isRunning[home[r]] \/ tunFd[r] \notin tun
    /\ UNCHANGED <<life, fields, main, home, tunFd, switch, interrupted, tun,
                   stopper, eng, history>>

\* The finally clause calls stopVpn().
FinallyTest(r) ==
    LET s == home[r] IN
    /\ Step(r, "finally", IF isRunning[s] THEN "close" ELSE "done")
    /\ IF isRunning[s] THEN NoteStop(s) ELSE UNCHANGED races
    /\ UNCHANGED <<life, fields, main, home, tunFd, switch, interrupted, tun,
                   stopper, eng, silent, timedOut>>

FinallyClose(r) ==
    /\ Step(r, "close", "release")
    /\ CloseTun(home[r])
    /\ UNCHANGED <<life, vpnInterface, vpnThread, proxyEngineStopThread,
                   activePresetId, main, home, tunFd, switch, stopper, eng,
                   history>>

FinallyRelease(r) ==
    /\ Step(r, "release", "done")
    /\ Release(home[r])
    /\ UNCHANGED <<service, destroying, isRunning, monitorThread,
                   activePresetId, main, home, tunFd, switch, tun, eng, history>>

-----------------------------------------------------------------------------
(* startPresetMonitor() and startAsnAutoDetect().                          *)

Goto(w, from, to) == sw[w] = from /\ sw' = [sw EXCEPT ![w] = to]

Here(w) == home[w[2]]

\* The sleep ends: the thread leaves when it was interrupted or the service
\* has stopped, else it goes to testConnectivity() or to detect().
Wake(w) ==
    /\ Goto(w, "sleep", IF isRunning[Here(w)] /\ w \notin interrupted
                           THEN "test" ELSE "done")
    /\ UNCHANGED <<life, fields, main, runs, chosen, swFd, switches, interrupted,
                   tun, stopper, eng, history>>

\* The connection works, this is the first failed test of the two that a
\* switch takes (consecutiveFails), or no preset suits the provider.
TestPassed(w) ==
    /\ Goto(w, "test", IF w[1] = "monitor" THEN "sleep" ELSE "done")
    /\ UNCHANGED <<life, fields, main, runs, chosen, swFd, switches, interrupted,
                   tun, stopper, eng, history>>

\* (mutant) no wrap-around: getOrNull(currentIdx + 1)
NextPresetUnwrapped(p) ==
    LET i == IF p \in Preset THEN CHOOSE j \in 1..Len(Order) : Order[j] = p
                             ELSE 1
    IN  IF i < Len(Order) THEN Order[i + 1] ELSE "null"

\* presets[(indexOf(activePresetId) + 1) % size]; index 0 when not found.
NextPreset(p) ==
    LET i == IF p \in Preset THEN CHOOSE j \in 1..Len(Order) : Order[j] = p
                             ELSE 1
    IN  Order[(i % Len(Order)) + 1]

\* The monitor switches after two failed tests, the detector when it knows
\* better than "universal" and the service is running.
Decide(w) ==
    LET s == Here(w) IN
    /\ Goto(w, "test", "assign")
    /\ switches < MaxSwitches /\ switches' = switches + 1
    /\ \/ /\ w[1] = "monitor"
          /\ chosen' = [chosen EXCEPT ![w] = NextPreset(activePresetId[s])]
       \/ /\ w[1] = "asn" /\ isRunning[s] /\ activePresetId[s] = "universal"
          /\ \E p \in Preset \ {"universal"} : chosen' = [chosen EXCEPT ![w] = p]
    /\ races' = races
         \cup {x \in {"double"} : \E v \in Switcher \ {w} : Switching(v)}
         \cup {x \in {"switch"} : StopUnderWay}
    /\ UNCHANGED <<life, fields, main, runs, swFd, interrupted, tun, stopper, eng,
                   silent, timedOut>>

Assign(w) ==
    /\ Goto(w, "assign", "stop")
    /\ activePresetId' = [activePresetId EXCEPT ![Here(w)] = chosen[w]]
    /\ UNCHANGED <<life, isRunning, vpnInterface, vpnThread, monitorThread,
                   proxyEngineStopThread, main, runs, chosen, swFd, switches,
                   interrupted, tun, stopper, eng, history>>

\* val tunFd = vpnInterface?.fd ?: -1, after ProxyEngine.stop(): null gives
\* -1 and a closed TUN an exception; either way nothing is started.
ReadFd(w) ==
    LET t == vpnInterface[Here(w)] IN
    /\ Goto(w, "fd", IF t \in tun THEN "nap"
                     ELSE IF w[1] = "monitor" THEN "sleep" ELSE "done")
    /\ swFd' = [swFd EXCEPT ![w] = IF t \in tun THEN t ELSE None]
    /\ UNCHANGED <<life, fields, main, runs, chosen, switches, interrupted, tun,
                   stopper, eng, history>>

\* Thread.sleep(300).  An interrupt ends the switch, not the thread: the
\* exception is caught inside switchToNextPreset() and the flag is cleared.
Nap(w) ==
    /\ Goto(w, "nap", IF w \notin interrupted THEN "start"
                      ELSE IF w[1] = "monitor" THEN "sleep" ELSE "done")
    /\ interrupted' = interrupted \ {w}
    /\ UNCHANGED <<life, fields, main, runs, chosen, swFd, switches, tun, stopper,
                   eng, history>>

Restart(w) ==
    /\ Goto(w, "start", IF w[1] = "monitor" THEN "sleep" ELSE "done")
    /\ EngineStart(swFd[w], activePresetId[Here(w)]) \/ EngineStartFails
    /\ UNCHANGED <<life, fields, main, runs, chosen, swFd, switches, interrupted,
                   tun, stopper, history>>

-----------------------------------------------------------------------------
(* ProxyEngine.stop(), by the stop threads and by the switching threads.   *)

Joining == {w \in Switcher : sw[w] = "join"}
StopJoining == {i \in Stopper : stopper[i] = "join"}

\* A stop() has signalled the event loop and it ends: g_running = 0.  It may,
\* and need not: a signal sent before the loop has its pipe or its server_fd
\* is lost, and getaddrinfo() may hold the thread; pthread_join() then waits.
EngineEnds ==
    /\ engine.live /\ (Joining # {} \/ StopJoining # {})
    /\ engine' = [engine EXCEPT !.live = FALSE]
    /\ g_running' = FALSE
    /\ UNCHANGED <<life, fields, main, runs, switch, interrupted, tun, stopper,
                   history>>

\* The event loop ends by itself (device_error_handler): g_running = 0.
EngineFails ==
    /\ engine.live /\ Joining = {} /\ StopJoining = {}
    /\ engine' = [engine EXCEPT !.live = FALSE]
    /\ g_running' = FALSE
    /\ UNCHANGED <<life, fields, main, runs, switch, interrupted, tun, stopper,
                   history>>

\* (mutant) the stop does not wait for the pthread
JoinSkipped == UNCHANGED g_running

\* pthread_join() returns when the pthread has ended; a second join of the
\* same handle is an error that returns at once.  Then g_running = 0.
JoinReturns ==
    /\ ~engine.live \/ Cardinality(Joining) + Cardinality(StopJoining) > 1
    /\ g_running' = FALSE

StopThreadTest(i) ==
    /\ stopper[i] = "check"
    /\ stopper' = [stopper EXCEPT ![i] = IF g_running THEN "join" ELSE "done"]
    /\ UNCHANGED <<life, fields, main, runs, switch, interrupted, tun, eng,
                   history>>

StopThreadJoined(i) ==
    /\ stopper[i] = "join"
    /\ JoinReturns
    /\ stopper' = [stopper EXCEPT ![i] = "done"]
    /\ UNCHANGED <<life, fields, main, runs, switch, interrupted, tun, engine,
                   history>>

SwitchStopTest(w) ==
    /\ Goto(w, "stop", IF g_running THEN "join" ELSE "fd")
    /\ UNCHANGED <<life, fields, main, runs, chosen, swFd, switches, interrupted,
                   tun, stopper, eng, history>>

SwitchStopJoined(w) ==
    /\ Goto(w, "join", "fd")
    /\ JoinReturns
    /\ UNCHANGED <<life, fields, main, runs, chosen, swFd, switches, interrupted,
                   tun, stopper, engine, history>>

-----------------------------------------------------------------------------
MainStep == StartJoined \/ StopClose \/ StopRelease \/ StopDestroyed

RunStep(r) ==
    \/ Establish(r) \/ Load(r) \/ StartEngine(r) \/ Spawn(r) \/ LoopEnds(r)
    \/ FinallyTest(r) \/ FinallyClose(r) \/ FinallyRelease(r)

SwitchStep(w) ==
    \/ Wake(w) \/ TestPassed(w) \/ Decide(w) \/ Assign(w)
    \/ SwitchStopTest(w) \/ SwitchStopJoined(w)
    \/ ReadFd(w) \/ Nap(w) \/ Restart(w)

StopStep(i) == StopThreadTest(i) \/ StopThreadJoined(i)

Next ==
    \/ StartCommand \/ StopCommand \/ Revoke \/ Destroy
    \/ MainStep
    \/ \E r \in Run : RunStep(r)
    \/ \E w \in Switcher : SwitchStep(w)
    \/ \E i \in Stopper : StopStep(i)
    \/ EngineEnds \/ EngineFails

Spec == Init /\ [][Next]_vars

\* Every thread of the app is scheduled and t.join(3000) times out; the user
\* and the system may do nothing, and the engine may never react to a stop.
FairSpec ==
    /\ Spec
    /\ WF_vars(MainStep)
    /\ \A r \in Run : WF_vars(RunStep(r))
    /\ \A w \in Switcher : WF_vars(SwitchStep(w))
    /\ \A i \in Stopper : WF_vars(StopStep(i))

-----------------------------------------------------------------------------
(* Properties.                                                             *)

VpnStage == {"none", "probe", "load", "engine", "spawn", "fallback", "loop",
             "packets", "finally", "close", "release", "done"}
SwitchStage == {"none", "sleep", "test", "assign", "stop", "join", "fd", "nap",
                "start", "done"}

\* The types of the fields and of the threads' locals.
TypeOK ==
    /\ service \in Run \cup {None}
    /\ dying \in BOOLEAN /\ destroying \in BOOLEAN
    /\ isRunning \in [Run -> BOOLEAN]
    /\ \A f \in {vpnInterface, vpnThread, monitorThread, tunFd, home} :
          f \in [Run -> Run \cup {None}]
    /\ proxyEngineStopThread \in [Run -> Stopper \cup {None}]
    /\ activePresetId \in [Run -> Preset]
    /\ main \in {"idle", "join", "close", "release", "gone"}
    /\ vpn \in [Run -> VpnStage]
    /\ sw \in [Switcher -> SwitchStage]
    /\ chosen \in [Switcher -> Preset]
    /\ swFd \in [Switcher -> Run \cup {None}]
    /\ interrupted \subseteq (VpnThread \cup Switcher)
    /\ tun \subseteq Run
    /\ stopper \in [Stopper -> {"none", "check", "join", "done"}]
    /\ g_running \in BOOLEAN
    /\ engine \in [live : BOOLEAN, tun : Run \cup {None}, preset : Preset]
    /\ switches \in 0..MaxSwitches
    /\ races \subseteq Race
    /\ silent \in BOOLEAN /\ timedOut \in BOOLEAN

\* While no session has overlapped with the end of another and none was
\* stopped in the middle of its start, an open TUN is the one its instance
\* still refers to: stopVpn() can close it, nothing keeps the device in a
\* VPN that no object of the program knows of.
TunReferenced ==
    races \cap {"early", "restart"} = {} =>
        \A r \in tun : vpnInterface[home[r]] = r

\* While no calls have met, the engine never works on a TUN that is closed
\* unless a ProxyEngine.stop() for it is on its way: closing the TUN first
\* and stopping the engine later, in another thread, loses no engine.
EngineNotAbandoned ==
    races = {} /\ engine.live => engine.tun \in tun \/ StopUnderWay

\* A session's ProxyEngine.start() reports the success of an engine it has
\* not started only if the session began before the previous one had ended,
\* or a stop overtook a preset switch or the start of a session; a second
\* START while running and two switches at once cannot bring it about.
SilentOnlyAfterRace == silent => races \cap {"early", "restart", "switch"} # {}

\* While no calls have met, an engine that runs runs the preset the service
\* shows in its notification, except while a switch is under way.
PresetApplied ==
    \A s \in Run :
        /\ races = {} /\ isRunning[s] /\ engine.live
        /\ engine.tun \in tun /\ home[engine.tun] = s
        /\ \A w \in Switcher : ~Switching(w)
        => engine.preset = activePresetId[s]

\* Once every thread of the sessions has ended and no calls have met, there
\* is no TUN, no engine and no flag left that would fool the next start().
CleanStop ==
    races = {} /\ Quiet /\ main = "idle" => tun = {} /\ ~engine.live /\ ~g_running

\* A STOP that meets no other call is carried out whatever the engine does:
\* the session's threads end, the TUN is closed, and the engine is off or one
\* stop thread alone waits for a pthread that has not reacted to the signal.
StopCompletes ==
    main = "close" /\ races = {}
    ~> \/ races # {}
       \/ /\ \A r \in Run : ~VpnAlive(r)
          /\ \A w \in Switcher : ~SwAlive(w)
          /\ tun = {} /\ main \notin {"close", "release"}
          /\ \/ ~g_running /\ \A i \in Stopper : ~Stopping(i)
             \/ engine.live /\ Cardinality({i \in Stopper : Stopping(i)}) = 1
                /\ StopJoining # {}

-----------------------------------------------------------------------------
(* What the comments of BypassVpnService say.                              *)

\* stopVpn() closes the TUN first, so that Android considers the VPN off at
\* once whatever the engine does: when no session is running and no VPN thread
\* is left, no TUN is open.
StoppedMeansClosed ==
    /\ main = "idle"
    /\ \A s \in Run : ~isRunning[s]
    /\ \A r \in Run : ~VpnAlive(r)
    => tun = {}

\* startVpn() waits for the stop thread of the previous session: a quick STOP,
\* START meets the old engine only when that took longer than three seconds.
RestartWaits == silent /\ races = {"restart"} => timedOut

=============================================================================
