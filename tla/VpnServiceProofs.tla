-------------------------- MODULE VpnServiceProofs --------------------------
(***************************************************************************)
(* The safety of BypassVpnService, for any number of sessions, of preset   *)
(* switches and of presets.                                                *)
(*                                                                         *)
(* What the service keeps in order depends on which calls have met: the    *)
(* inductive invariant IInv has one layer for what always holds and one    *)
(* for each set of meetings ("races") that has not happened.               *)
(*                                                                         *)
(*   TypeOK, Sessions   always                                             *)
(*   Orderly            no session was launched before the last one had    *)
(*                      ended or stopped while it started: there is one    *)
(*                      session, and the TUN and the switches are its own  *)
(*   Clear              besides, no stop has met a preset switch: the      *)
(*                      native engine's g_running is the session's         *)
(*   Calm               no calls have met: the pthread of the engine runs  *)
(*                      on the open TUN with the preset that is shown      *)
(*                                                                         *)
(* There is one lemma per part of a layer; in each, the steps that leave   *)
(* the variables of the part alone are dealt with by one framing step.     *)
(***************************************************************************)
EXTENDS VpnService, FiniteSetTheorems, SequenceTheorems, TLAPS

-----------------------------------------------------------------------------
(* The inductive invariant.                                                *)

\* A session has a thread once it belongs to an instance; the main thread is
\* busy only for an instance; g_running stands for a pthread.
Sessions ==
    /\ \A r \in Run : home[r] # None <=> vpn[r] # "none"
    /\ \A w \in Switcher : sw[w] # "none" => home[w[2]] # None
    /\ main # "idle" => service # None
    /\ g_running => engine.live

-----------------------------------------------------------------------------
(* While no session began before the last one had ended, and none was      *)
(* stopped while it started.                                               *)

SoleSession == \A r, q \in Run : VpnAlive(r) /\ VpnAlive(q) => r = q

\* The threads that switch presets are those of the session that runs.
OwnSwitchers ==
    \A w \in Switcher, r \in Run : SwAlive(w) /\ VpnAlive(r) => w[2] = r

\* A session that starts is alone with its instance, which is in service.
StartsAlone ==
    \A r \in Run : Starting(r) =>
        /\ main = "idle" /\ home[r] = service /\ isRunning[service]
        /\ ~StopUnderWay
        /\ \A w \in Switcher : ~SwAlive(w)

\* An open TUN is that of a session under way, which has not been stopped.
TunOwned ==
    \A r \in tun :
        /\ vpn[r] \notin {"none", "probe", "done"}
        /\ isRunning[home[r]]
        /\ vpnInterface[home[r]] = r

\* runVpn() passes the engine the TUN it has opened.
LoadedOwn == \A r \in Run : vpn[r] = "engine" => tunFd[r] = r /\ r \in tun

\* Past vpnInterface?.close() no TUN of the instance is left.
ClosedFirst ==
    /\ main = "release" => \A r \in tun : home[r] # service
    /\ \A q \in Run : vpn[q] = "release" => \A r \in tun : home[r] # home[q]

Orderly ==
    /\ SoleSession
    /\ OwnSwitchers
    /\ StartsAlone
    /\ TunOwned
    /\ LoadedOwn
    /\ ClosedFirst

-----------------------------------------------------------------------------
(* While, besides, no stop has met a preset switch.                        *)

SwitchNotInStop == \A w \in Switcher : Switching(w) => ~StopUnderWay

\* A switch that is about to start the engine again has its TUN open.
SwitchHasTun ==
    \A w \in Switcher : sw[w] \in {"nap", "start"} => swFd[w] \in tun

\* g_running is set for a session that runs or a stop that will clear it.
FlagOwned ==
    g_running => StopUnderWay \/ \E r \in Run : VpnAlive(r) /\ isRunning[home[r]]

\* A session finds g_running clear.
FlagClear ==
    \A r \in Run : vpn[r] \in {"probe", "load", "engine"} => ~g_running

\* No session's start() has reported the success of another's engine.
Loud == ~silent

Clear ==
    /\ SwitchNotInStop
    /\ SwitchHasTun
    /\ FlagOwned
    /\ FlagClear
    /\ Loud

-----------------------------------------------------------------------------
(* While no calls have met.                                                *)

SoleSwitch == \A v, w \in Switcher : Switching(v) /\ Switching(w) => v = w

\* A pthread without g_running is waited for: two stops were at it, and the
\* one whose join failed has cleared the flag.
LiveTracked == engine.live => g_running \/ StopJoining # {}

\* Between its stop() and its start(), a switch has the engine off.
SwitchOff ==
    \A w \in Switcher : sw[w] \in {"fd", "nap", "start"} => ~engine.live

\* From the assignment of activePresetId to the end of stop() the engine
\* still has the preset of before.
PresetKept ==
    /\ engine.live /\ engine.tun \in tun
    /\ \A w \in Switcher : sw[w] \notin {"stop", "join"}
    => engine.preset = activePresetId[home[engine.tun]]

LiveHasTun == engine.live => engine.tun \in tun \/ StopUnderWay

Calm ==
    /\ SoleSwitch
    /\ LiveTracked
    /\ LiveHasTun
    /\ SwitchOff
    /\ PresetKept

IInv ==
    /\ TypeOK
    /\ Sessions
    /\ races \cap {"early", "restart"} = {} => Orderly
    /\ races \cap {"early", "restart", "switch"} = {} => Clear
    /\ races = {} => Calm

-----------------------------------------------------------------------------
(* What the longer steps do.                                               *)

\* A race that has happened stays in the history.
LEMMA RacesGrow == [Next]_vars => races \subseteq races'
  BY DEF Next, vars, history, MainStep, RunStep, SwitchStep, StopStep,
    StartCommand, StartJoined, StopCommand, Revoke, Destroy, StopClose,
    StopRelease, StopDestroyed, Establish, Load, StartEngine, Spawn, LoopEnds,
    FinallyTest, FinallyClose, FinallyRelease, Wake, TestPassed, Decide,
    Assign, SwitchStopTest, SwitchStopJoined, ReadFd, Nap, Restart,
    StopThreadTest, StopThreadJoined, EngineEnds, EngineFails, Launch, Note,
    NoteStop

\* startVpn() gives the instance a session that had none, and when anything
\* of an earlier session is left the history says so (Launch).
LEMMA LaunchOne ==
    ASSUME TypeOK, NEW s \in Run, Launch(s)
    PROVE  /\ \E r \in Run :
                /\ home[r] = None
                /\ home' = [home EXCEPT ![r] = s]
                /\ vpn' = [vpn EXCEPT ![r] = "probe"]
           /\ isRunning' = [isRunning EXCEPT ![s] = TRUE]
           /\ isRunning' \in [Run -> BOOLEAN] /\ vpn' \in [Run -> VpnStage]
           /\ home' \in [Run -> Run \cup {None}]
           /\ vpnThread' \in [Run -> Run \cup {None}]
           /\ proxyEngineStopThread' \in [Run -> Stopper \cup {None}]
           /\ Quiet \/ "restart" \in races'
           /\ races' \subseteq Race
<1>1. PICK r \in Run :
        /\ Fresh(r)
        /\ home' = [home EXCEPT ![r] = s]
        /\ vpn' = [vpn EXCEPT ![r] = "probe"]
        /\ isRunning' = [isRunning EXCEPT ![s] = TRUE]
        /\ vpnThread' = [vpnThread EXCEPT ![s] = r]
        /\ proxyEngineStopThread' = [proxyEngineStopThread EXCEPT ![s] = None]
        /\ Note("restart", ~Quiet)
  BY DEF Launch
<1>2. Quiet \/ "restart" \in races'
  BY <1>1 DEF Note
<1>3. races' \subseteq Race
  BY <1>1 DEF Note, TypeOK, Race
<1>4. home' \in [Run -> Run \cup {None}] /\ vpnThread' \in [Run -> Run \cup {None}]
      /\ proxyEngineStopThread' \in [Run -> Stopper \cup {None}]
  BY <1>1 DEF TypeOK
<1>5. isRunning' \in [Run -> BOOLEAN] /\ vpn' \in [Run -> VpnStage]
  BY <1>1 DEF TypeOK, VpnStage
<1>6. QED
  BY <1>1, <1>2, <1>3, <1>4, <1>5 DEF Fresh

\* ACTION_START: the VPN is running already, or the main thread waits for the
\* stop of the last session, or a session is launched (StartCommand).
LEMMA StartCases ==
    ASSUME TypeOK, StartCommand
    PROVE  /\ main = "idle" /\ service' \in Run
           /\ service # None => service' = service
           /\ activePresetId' = [activePresetId EXCEPT ![service'] = "universal"]
           /\ \/ /\ isRunning[service'] /\ races' = races \cup {"again"}
                 /\ UNCHANGED <<main, isRunning, vpnThread,
                                proxyEngineStopThread, home, vpn>>
              \/ /\ ~isRunning[service'] /\ main' = "join"
                 /\ UNCHANGED <<isRunning, vpnThread, proxyEngineStopThread,
                                home, vpn, races>>
              \/ ~isRunning[service'] /\ Launch(service') /\ UNCHANGED main
           /\ UNCHANGED <<dying, destroying, vpnInterface, monitorThread,
                          tunFd,
                          switch, interrupted, tun, stopper, eng, silent,
                          timedOut>>
<1> DEFINE s == IF service # None THEN service ELSE CHOOSE r \in Run : Fresh(r)
<1>1. s \in Run /\ (service # None => s = service)
  BY DEF StartCommand, TypeOK
<1>2. service' = s
  BY DEF StartCommand
<1> HIDE DEF s
<1>3. QED
  BY <1>1, <1>2 DEF StartCommand, s

\* Both ways in which startVpn() comes to a session, and those in which it
\* does not (StartCommand, StartJoined).
LEMMA StartEffect ==
    ASSUME TypeOK, Sessions, StartCommand \/ StartJoined
    PROVE  /\ service' \in Run /\ (service # None => service' = service)
           /\ main \in {"idle", "join"}
           /\ UNCHANGED <<vpnInterface, tunFd, sw, swFd, tun, stopper,
                          g_running,
                          engine, silent>>
           /\ \/ /\ UNCHANGED <<home, vpn, isRunning>>
                 /\ \/ UNCHANGED main
                    \/ main' = "join" /\ ~isRunning[service']
              \/ Launch(service') /\ main' = "idle"
<1>1. CASE StartCommand
  BY <1>1, StartCases DEF switch, eng
<1>2. CASE StartJoined
  <2>1. service' = service /\ service \in Run
    BY <1>2 DEF StartJoined, life, TypeOK, Sessions
  <2>2. QED
    BY <1>2, <2>1 DEF StartJoined, switch, eng
<1>3. QED
  BY <1>1, <1>2

\* The monitor and the ASN detector of the session begin to sleep (Spawn).
LEMMA SpawnTwo ==
    ASSUME TypeOK, NEW r \in Run, Spawn(r)
    PROVE  /\ sw' \in [Switcher -> SwitchStage]
           /\ \A w \in Switcher :
                sw'[w] = IF w[2] = r THEN "sleep" ELSE sw[w]
           /\ \/ vpn[r] = "spawn" /\ vpn' = [vpn EXCEPT ![r] = "loop"]
              \/ vpn[r] = "fallback" /\ vpn' = [vpn EXCEPT ![r] = "packets"]
<1>1. <<"monitor", r>> \in Switcher /\ <<"asn", r>> \in Switcher
      /\ <<"monitor", r>> # <<"asn", r>>
  BY DEF Switcher
<1>2. \A w \in Switcher :
        w[2] = r <=> w = <<"monitor", r>> \/ w = <<"asn", r>>
  BY DEF Switcher
<1>3. sw' = [sw EXCEPT ![<<"monitor", r>>] = "sleep", ![<<"asn", r>>] = "sleep"]
  BY DEF Spawn
<1>4. sw \in [Switcher -> SwitchStage] /\ "sleep" \in SwitchStage
  BY DEF TypeOK, SwitchStage
<1>5. QED
  BY <1>1, <1>2, <1>3, <1>4 DEF Spawn, Step

\* A switch that is the only one to join waits for the pthread to end.
LEMMA SwitchJoins ==
    ASSUME NEW w, Joining = {w}, StopJoining = {}, JoinReturns
    PROVE  ~engine.live
<1>1. Cardinality(Joining) = 1 /\ Cardinality(StopJoining) = 0
  BY FS_Singleton, FS_EmptySet
<1>2. QED
  BY <1>1 DEF JoinReturns

\* A stop thread returns from pthread_join() with the pthread alive only when
\* another one is in it.
LEMMA StopJoins ==
    ASSUME NEW i \in StopJoining, Joining = {}, JoinReturns, engine.live
    PROVE  \E j \in StopJoining : j # i
<1> SUFFICES ASSUME \A j \in StopJoining : j = i PROVE FALSE
  OBVIOUS
<1>1. StopJoining = {i}
  OBVIOUS
<1>2. Cardinality(Joining) = 0 /\ Cardinality(StopJoining) = 1
  BY <1>1, FS_Singleton, FS_EmptySet
<1>3. QED
  BY <1>2 DEF JoinReturns

\* The preset every session begins with is one of AUTO_SWITCH_ORDER.
LEMMA UniversalTyped == "universal" \in Preset
<1>1. Len(Order) \in Nat \ {0} /\ Order[1] = "universal"
  BY OrderAssumption, EmptySeq
<1>2. 1 \in 1..Len(Order)
  BY <1>1
<1>3. QED
  BY <1>1, <1>2 DEF Preset

\* NextPreset() stays within AUTO_SWITCH_ORDER.
LEMMA NextPresetTyped == \A p \in Preset : NextPreset(p) \in Preset
<1> SUFFICES ASSUME NEW p \in Preset PROVE NextPreset(p) \in Preset
  OBVIOUS
<1> DEFINE i == CHOOSE j \in 1..Len(Order) : Order[j] = p
<1>1. i \in 1..Len(Order)
  BY DEF Preset
<1>2. Len(Order) \in Nat \ {0}
  BY OrderAssumption, EmptySeq
<1>3. (i % Len(Order)) + 1 \in 1..Len(Order)
  BY <1>1, <1>2
<1> HIDE DEF i
<1>4. QED
  BY <1>3 DEF NextPreset, Preset, i

-----------------------------------------------------------------------------
(* Every step keeps the inductive invariant.                               *)

\* A step keeps the types: a thread that acts on fields belongs to a session
\* with an instance, and the next preset is one of AUTO_SWITCH_ORDER.
LEMMA NextTyped == IInv /\ [Next]_vars => TypeOK'
<1> SUFFICES ASSUME IInv, [Next]_vars PROVE TypeOK'
  OBVIOUS
<1>t. TypeOK /\ Sessions
  BY DEF IInv
<1>1. ASSUME UNCHANGED <<service, dying, destroying, isRunning, vpnInterface,
                         vpnThread, monitorThread, proxyEngineStopThread,
                         activePresetId, main, home, vpn, tunFd, sw, chosen,
                         swFd, interrupted, tun, stopper, g_running, engine,
                         switches, races, silent, timedOut>>
      PROVE  TypeOK'
  BY <1>1, <1>t DEF TypeOK, Sessions, VpnStage, SwitchStage
<1>2. CASE StartCommand \/ StartJoined
  <2>1. service' \in Run /\ main' \in {"idle", "join"}
        /\ UNCHANGED <<vpnInterface, tunFd, sw, swFd, tun, stopper, g_running,
                       engine, silent>>
    BY <1>2, <1>t, StartEffect
  <2>2. activePresetId' \in [Run -> Preset] /\ timedOut' \in BOOLEAN
        /\ UNCHANGED <<dying, destroying, monitorThread, chosen, switches,
                       interrupted>>
    <3>1. CASE StartCommand
      <4>1. activePresetId' \in [Run -> Preset]
        BY <1>t, <3>1, StartCases, UniversalTyped DEF TypeOK
      <4>2. QED
        BY <1>t, <3>1, <4>1, StartCases DEF TypeOK, switch
    <3>2. CASE StartJoined
      BY <1>t, <3>2 DEF StartJoined, TypeOK, life, switch
    <3>3. QED
      BY <1>2, <3>1, <3>2
  <2>3. CASE Launch(service')
    BY <1>t, <2>1, <2>2, <2>3, LaunchOne DEF TypeOK
  <2>4. CASE ~Launch(service')
    <3>1. StartCommand
      BY <1>2, <2>4 DEF StartJoined, life
    <3>2. races' \subseteq Race
          /\ UNCHANGED <<isRunning, vpnThread, proxyEngineStopThread, home,
                         vpn>>
      BY <1>t, <2>4, <3>1, StartCases DEF TypeOK, Race
    <3>3. QED
      BY <1>t, <2>1, <2>2, <3>2 DEF TypeOK
  <2>5. QED
    BY <2>3, <2>4
<1>3. CASE StopCommand
  BY <1>3, <1>t DEF StopCommand, NoteStop, fields, life, runs, switch, eng,
    history, TypeOK, Sessions, VpnStage, SwitchStage, Race
<1>4. CASE Revoke
  BY <1>4, <1>t DEF Revoke, fields, life, runs, switch, eng, history, TypeOK,
    Sessions, VpnStage, SwitchStage
<1>5. CASE Destroy
  BY <1>5, <1>t DEF Destroy, NoteStop, fields, life, runs, switch, eng,
    history, TypeOK, Sessions, VpnStage, SwitchStage, Race
<1>6. CASE StopClose
  BY <1>6, <1>t DEF StopClose, CloseTun, fields, life, runs, switch, eng,
    history, TypeOK, Sessions, VpnStage, SwitchStage
<1>7. CASE StopRelease
  BY <1>7, <1>t DEF StopRelease, Release, fields, life, runs, switch, eng,
    history, TypeOK, Sessions, VpnStage, SwitchStage
<1>8. CASE StopDestroyed
  BY <1>8, <1>t DEF StopDestroyed, fields, life, runs, switch, eng, history,
    TypeOK, Sessions, VpnStage, SwitchStage
<1>9. ASSUME NEW r \in Run, Establish(r) PROVE TypeOK'
  <2>1. home[r] \in Run
    BY <1>9, <1>t DEF Establish, Step, TypeOK, Sessions
  <2>2. vpnInterface' \in [Run -> Run \cup {None}]
    BY <1>9, <1>t, <2>1 DEF Establish, TypeOK
  <2>3. isRunning' \in [Run -> BOOLEAN] /\ tun' \subseteq Run
    BY <1>9, <1>t DEF Establish, TypeOK
  <2>4. vpn' \in [Run -> VpnStage]
    BY <1>9, <1>t DEF Establish, Step, TypeOK, VpnStage
  <2>5. QED
    BY <1>9, <1>t, <2>2, <2>3, <2>4
    DEF Establish, TypeOK, life, switch, eng, history
<1>10. ASSUME NEW r \in Run, Load(r) PROVE TypeOK'
  BY <1>10, <1>t DEF Load, Step, fields, life, runs, switch, eng, history,
    TypeOK, Sessions, VpnStage, SwitchStage
<1>11. ASSUME NEW r \in Run, StartEngine(r) PROVE TypeOK'
  <2>1. tunFd[r] \in Run \cup {None} /\ activePresetId[home[r]] \in Preset
    BY <1>11, <1>t DEF StartEngine, Step, TypeOK, Sessions
  <2>2. engine' \in [live : BOOLEAN, tun : Run \cup {None}, preset : Preset]
    <3>1. CASE UNCHANGED engine
      BY <1>t, <3>1 DEF TypeOK
    <3>2. CASE engine' = [live |-> TRUE, tun |-> tunFd[r],
                          preset |-> activePresetId[home[r]]]
      BY <2>1, <3>2
    <3>3. QED
      BY <1>11, <3>1, <3>2 DEF StartEngine, EngineStart, EngineStartFails, eng
  <2>3. vpn' \in [Run -> VpnStage]
    BY <1>11, <1>t DEF StartEngine, Step, TypeOK, VpnStage
  <2>4. g_running' \in BOOLEAN /\ silent' \in BOOLEAN
    BY <1>11, <1>t DEF StartEngine, EngineStart, EngineStartFails, eng, TypeOK
  <2>5. QED
    BY <1>11, <1>t, <2>2, <2>3, <2>4 DEF StartEngine, TypeOK, life, fields,
      switch
<1>12. ASSUME NEW r \in Run, Spawn(r) PROVE TypeOK'
  <2>1. home[r] \in Run
    BY <1>12, <1>t DEF Spawn, Step, TypeOK, Sessions
  <2>2. monitorThread' \in [Run -> Run \cup {None}]
        /\ interrupted' \subseteq (VpnThread \cup Switcher)
    BY <1>12, <1>t, <2>1 DEF Spawn, TypeOK
  <2>3. vpn' \in [Run -> VpnStage]
    BY <1>12, <1>t DEF Spawn, Step, TypeOK, VpnStage
  <2>4. sw' \in [Switcher -> SwitchStage]
    BY <1>12, <1>t, SpawnTwo
  <2>5. QED
    BY <1>12, <1>t, <2>2, <2>3, <2>4 DEF Spawn, TypeOK, life, eng, history
<1>13. ASSUME NEW r \in Run, LoopEnds(r) PROVE TypeOK'
  BY <1>13, <1>t DEF LoopEnds, Step, fields, life, runs, switch, eng, history,
    TypeOK, Sessions, VpnStage, SwitchStage
<1>14. ASSUME NEW r \in Run, FinallyTest(r) PROVE TypeOK'
  BY <1>14, <1>t DEF FinallyTest, NoteStop, Step, fields, life, runs, switch,
    eng, history, TypeOK, Sessions, VpnStage, SwitchStage, Race
<1>15. ASSUME NEW r \in Run, FinallyClose(r) PROVE TypeOK'
  BY <1>15, <1>t DEF FinallyClose, CloseTun, Step, fields, life, runs, switch,
    eng, history, TypeOK, Sessions, VpnStage, SwitchStage
<1>16. ASSUME NEW r \in Run, FinallyRelease(r) PROVE TypeOK'
  BY <1>16, <1>t DEF FinallyRelease, Release, Step, fields, life, runs,
    switch, eng, history, TypeOK, Sessions, VpnStage, SwitchStage
<1>17. ASSUME NEW w \in Switcher, Wake(w) PROVE TypeOK'
  BY <1>17, <1>t DEF Wake, Goto, fields, life, runs, switch, eng, history,
    TypeOK, Sessions, VpnStage, SwitchStage
<1>18. ASSUME NEW w \in Switcher, TestPassed(w) PROVE TypeOK'
  BY <1>18, <1>t DEF TestPassed, Goto, fields, life, runs, switch, eng,
    history, TypeOK, Sessions, VpnStage, SwitchStage
<1>19. ASSUME NEW w \in Switcher, Decide(w) PROVE TypeOK'
  <2>1. w[2] \in Run /\ Here(w) \in Run
    BY <1>19, <1>t DEF Decide, Goto, TypeOK, Sessions, Switcher, Here
  <2>2. chosen' \in [Switcher -> Preset]
    BY <1>19, <1>t, <2>1, NextPresetTyped DEF Decide, TypeOK
  <2>3. switches' \in 0..MaxSwitches
    BY <1>19, <1>t, BoundsAssumption DEF Decide, TypeOK
  <2>6. races' \subseteq Race
    BY <1>19, <1>t DEF Decide, TypeOK, Race
  <2>4. sw' \in [Switcher -> SwitchStage]
    BY <1>19, <1>t DEF Decide, Goto, TypeOK, SwitchStage
  <2>5. QED
    BY <1>19, <1>t, <2>2, <2>3, <2>4, <2>6 DEF Decide, TypeOK, life, fields,
      runs, eng
<1>20. ASSUME NEW w \in Switcher, Assign(w) PROVE TypeOK'
  BY <1>20, <1>t DEF Assign, Goto, fields, life, runs, switch, eng, history,
    TypeOK, Sessions, VpnStage, SwitchStage
<1>21. ASSUME NEW w \in Switcher, SwitchStopTest(w) PROVE TypeOK'
  BY <1>21, <1>t DEF SwitchStopTest, Goto, fields, life, runs, switch, eng,
    history, TypeOK, Sessions, VpnStage, SwitchStage
<1>22. ASSUME NEW w \in Switcher, SwitchStopJoined(w) PROVE TypeOK'
  BY <1>22, <1>t DEF SwitchStopJoined, JoinReturns, Goto, fields, life, runs,
    switch, eng, history, TypeOK, Sessions, VpnStage, SwitchStage
<1>23. ASSUME NEW w \in Switcher, ReadFd(w) PROVE TypeOK'
  BY <1>23, <1>t DEF ReadFd, Goto, fields, life, runs, switch, eng, history,
    TypeOK, Sessions, VpnStage, SwitchStage
<1>24. ASSUME NEW w \in Switcher, Nap(w) PROVE TypeOK'
  BY <1>24, <1>t DEF Nap, Goto, fields, life, runs, switch, eng, history,
    TypeOK, Sessions, VpnStage, SwitchStage
<1>25. ASSUME NEW w \in Switcher, Restart(w) PROVE TypeOK'
  <2>1. Here(w) \in Run
    BY <1>25, <1>t DEF Restart, Goto, TypeOK, Sessions, Switcher, Here
  <2>2. swFd[w] \in Run \cup {None} /\ activePresetId[Here(w)] \in Preset
    BY <1>t, <2>1 DEF TypeOK
  <2>3. engine' \in [live : BOOLEAN, tun : Run \cup {None}, preset : Preset]
    <3>1. CASE UNCHANGED engine
      BY <1>t, <3>1 DEF TypeOK
    <3>2. CASE engine' = [live |-> TRUE, tun |-> swFd[w],
                          preset |-> activePresetId[Here(w)]]
      BY <2>2, <3>2
    <3>3. QED
      BY <1>25, <3>1, <3>2 DEF Restart, EngineStart, EngineStartFails, eng
  <2>4. sw' \in [Switcher -> SwitchStage]
    BY <1>25, <1>t DEF Restart, Goto, TypeOK, SwitchStage
  <2>5. g_running' \in BOOLEAN
    BY <1>25, <1>t DEF Restart, EngineStart, EngineStartFails, eng, TypeOK
  <2>6. QED
    BY <1>25, <1>t, <2>3, <2>4, <2>5
    DEF Restart, TypeOK, life, fields, runs, history
<1>26. ASSUME NEW i \in Stopper, StopThreadTest(i) PROVE TypeOK'
  BY <1>26, <1>t DEF StopThreadTest, fields, life, runs, switch, eng, history,
    TypeOK, Sessions, VpnStage, SwitchStage
<1>27. ASSUME NEW i \in Stopper, StopThreadJoined(i) PROVE TypeOK'
  BY <1>27, <1>t DEF StopThreadJoined, JoinReturns, fields, life, runs,
    switch, eng, history, TypeOK, Sessions, VpnStage, SwitchStage
<1>28. CASE EngineEnds
  BY <1>28, <1>t DEF EngineEnds, fields, life, runs, switch, eng, history,
    TypeOK, Sessions, VpnStage, SwitchStage
<1>29. CASE EngineFails
  BY <1>29, <1>t DEF EngineFails, fields, life, runs, switch, eng, history,
    TypeOK, Sessions, VpnStage, SwitchStage
<1>30. CASE UNCHANGED vars
  BY <1>1, <1>30 DEF vars, fields, life, runs, switch, eng, history
<1>31. QED
  BY <1>2, <1>3, <1>4, <1>5, <1>6, <1>7, <1>8, <1>9, <1>10, <1>11, <1>12,
    <1>13, <1>14, <1>15, <1>16, <1>17, <1>18, <1>19, <1>20, <1>21, <1>22,
    <1>23, <1>24, <1>25, <1>26, <1>27, <1>28, <1>29, <1>30 DEF Next, MainStep,
    RunStep, SwitchStep, StopStep

\* Sessions are numbered as they are launched, and the main thread returns
\* from stopVpn() before its instance goes away.
LEMMA NextSessions == IInv /\ [Next]_vars => Sessions'
<1> SUFFICES ASSUME IInv, [Next]_vars PROVE Sessions'
  OBVIOUS
<1>t. TypeOK /\ Sessions
  BY DEF IInv
<1>1. ASSUME UNCHANGED <<home, vpn, sw, main, service, g_running, engine>>
      PROVE  Sessions'
  BY <1>1, <1>t DEF TypeOK, Sessions
<1>2. CASE Revoke
  BY <1>1, <1>2 DEF Revoke, life, runs, switch, eng
<1>3. ASSUME NEW i \in Stopper, StopThreadTest(i) PROVE Sessions'
  BY <1>1, <1>3 DEF StopThreadTest, life, runs, switch, eng
<1>4. CASE StartCommand \/ StartJoined
  <2>1. service' \in Run /\ UNCHANGED <<sw, g_running, engine>>
    BY <1>4, <1>t, StartEffect
  <2>2. CASE UNCHANGED <<home, vpn>>
    BY <1>t, <2>1, <2>2 DEF Sessions, None, Run
  <2>3. CASE Launch(service')
    <3>1. PICK r \in Run : home[r] = None /\ home' = [home EXCEPT ![r] = service']
                           /\ vpn' = [vpn EXCEPT ![r] = "probe"]
      BY <1>t, <2>1, <2>3, LaunchOne
    <3>2. QED
      BY <1>t, <2>1, <3>1 DEF TypeOK, Sessions, None, Run, Switcher
  <2>4. QED
    BY <1>4, <1>t, <2>2, <2>3, StartEffect
<1>5. CASE StopCommand \/ Destroy \/ StopClose \/ StopRelease \/ StopDestroyed
  BY <1>5, <1>t DEF StopCommand, NoteStop, Destroy, StopClose, CloseTun,
    StopRelease, Release, StopDestroyed, life, runs, switch, eng, TypeOK,
    Sessions, None
<1>6. ASSUME NEW r \in Run,
             Establish(r) \/ Load(r) \/ LoopEnds(r) \/ FinallyTest(r) \/
               FinallyClose(r) \/ FinallyRelease(r)
      PROVE  Sessions'
  BY <1>6, <1>t DEF Establish, Step, Load, LoopEnds, FinallyTest, NoteStop,
    FinallyClose, CloseTun, FinallyRelease, Release, life, runs, switch, eng,
    TypeOK, Sessions
<1>7. ASSUME NEW r \in Run, StartEngine(r) PROVE Sessions'
  <2>1. g_running' => engine'.live
    <3>1. CASE UNCHANGED <<g_running, engine>>
      BY <1>t, <3>1 DEF Sessions
    <3>2. CASE engine' = [live |-> TRUE, tun |-> tunFd[r],
                         preset |-> activePresetId[home[r]]]
      BY <3>2
    <3>3. QED
      BY <1>7, <1>t, <3>1, <3>2
      DEF StartEngine, EngineStart, EngineStartFails, eng, TypeOK
  <2>2. vpn[r] # "none" /\ UNCHANGED <<home, sw, main, service>>
        /\ \E x : vpn' = [vpn EXCEPT ![r] = x] /\ x # "none"
    BY <1>7 DEF StartEngine, Step, life, switch
  <2>3. QED
    BY <1>t, <2>1, <2>2 DEF TypeOK, Sessions
<1>8. ASSUME NEW r \in Run, Spawn(r) PROVE Sessions'
  <2>1. UNCHANGED <<home, main, service, g_running, engine>>
    BY <1>8 DEF Spawn, life, eng
  <2>2. QED
    BY <1>8, <1>t, <2>1, SpawnTwo DEF TypeOK, Sessions
<1>9. ASSUME NEW w \in Switcher,
             Wake(w) \/ TestPassed(w) \/ Decide(w) \/ Assign(w) \/
               SwitchStopTest(w) \/ SwitchStopJoined(w) \/ ReadFd(w) \/ Nap(w)
      PROVE  Sessions'
  BY <1>9, <1>t DEF Wake, Goto, TestPassed, Decide, Assign, SwitchStopTest,
    SwitchStopJoined, JoinReturns, ReadFd, Nap, life, runs, switch, eng,
    TypeOK, Sessions
<1>10. ASSUME NEW w \in Switcher, Restart(w) PROVE Sessions'
  <2>1. g_running' => engine'.live
    <3>1. CASE UNCHANGED <<g_running, engine>>
      BY <1>t, <3>1 DEF Sessions
    <3>2. CASE engine' = [live |-> TRUE, tun |-> swFd[w],
                         preset |-> activePresetId[Here(w)]]
      BY <3>2
    <3>3. QED
      BY <1>10, <1>t, <3>1, <3>2
      DEF Restart, EngineStart, EngineStartFails, eng, TypeOK
  <2>2. sw[w] # "none" /\ UNCHANGED <<home, vpn, main, service>>
        /\ \E x : sw' = [sw EXCEPT ![w] = x]
    BY <1>10 DEF Restart, Goto, life, runs
  <2>3. QED
    BY <1>t, <2>1, <2>2 DEF TypeOK, Sessions
<1>11. ASSUME NEW i \in Stopper, StopThreadJoined(i) PROVE Sessions'
  BY <1>11, <1>t DEF StopThreadJoined, JoinReturns, life, runs, switch, eng,
    TypeOK, Sessions
<1>12. CASE EngineEnds \/ EngineFails
  BY <1>12, <1>t DEF EngineEnds, EngineFails, life, runs, switch, eng, TypeOK,
    Sessions
<1>13. CASE UNCHANGED vars
  BY <1>1, <1>13 DEF vars, life, runs, switch, eng
<1>14. QED
  BY <1>2, <1>3, <1>4, <1>5, <1>6, <1>7, <1>8, <1>9, <1>10, <1>11, <1>12,
    <1>13 DEF Next, MainStep, RunStep, SwitchStep, StopStep

\* A session is launched beside another only by a race (Launch).
LEMMA NextSoleSession ==
    IInv /\ [Next]_vars /\ races' \cap {"early", "restart"} = {}
        => SoleSession'
<1> SUFFICES ASSUME IInv, [Next]_vars,
                       races' \cap {"early", "restart"} = {}
             PROVE  SoleSession'
  OBVIOUS
<1>t. TypeOK /\ Sessions /\ Orderly
  BY RacesGrow DEF IInv
<1>1. ASSUME UNCHANGED <<vpn>> PROVE SoleSession'
  BY <1>1, <1>t DEF TypeOK, Orderly, SoleSession, VpnAlive
<1>2. CASE StopCommand \/ Revoke \/ Destroy \/ StopClose \/ StopRelease \/
  StopDestroyed
  BY <1>1, <1>2 DEF StopCommand, Revoke, Destroy, StopClose, StopRelease,
    StopDestroyed, runs
<1>3. ASSUME NEW w \in Switcher,
             Wake(w) \/ TestPassed(w) \/ Decide(w) \/ Assign(w) \/
               SwitchStopTest(w) \/ SwitchStopJoined(w) \/ ReadFd(w) \/ Nap(w)
               \/ Restart(w)
      PROVE  SoleSession'
  BY <1>1, <1>3 DEF Wake, TestPassed, Decide, Assign, SwitchStopTest,
    SwitchStopJoined, ReadFd, Nap, Restart, runs
<1>4. ASSUME NEW i \in Stopper,
             StopThreadTest(i) \/ StopThreadJoined(i)
      PROVE  SoleSession'
  BY <1>1, <1>4 DEF StopThreadTest, StopThreadJoined, runs
<1>5. CASE EngineEnds \/ EngineFails
  BY <1>1, <1>5 DEF EngineEnds, EngineFails, runs
<1>6. CASE StartCommand \/ StartJoined
  <2>1. CASE UNCHANGED vpn
    BY <1>1, <2>1
  <2>2. CASE Launch(service')
    <3>1. Quiet /\ \E r \in Run : vpn' = [vpn EXCEPT ![r] = "probe"]
      BY <1>6, <1>t, <2>2, LaunchOne, StartEffect
    <3>2. QED
      BY <1>t, <3>1 DEF TypeOK, Quiet, SoleSession, VpnAlive
  <2>3. QED
    BY <1>6, <1>t, <2>1, <2>2, StartEffect
<1>7. ASSUME NEW r \in Run,
             Establish(r) \/ Load(r) \/ StartEngine(r) \/ Spawn(r) \/
               LoopEnds(r) \/ FinallyTest(r) \/ FinallyClose(r) \/
               FinallyRelease(r)
      PROVE  SoleSession'
  BY <1>7, <1>t DEF Establish, Step, Load, StartEngine, EngineStart,
    EngineStartFails, Spawn, LoopEnds, FinallyTest, NoteStop, FinallyClose,
    CloseTun, FinallyRelease, Release, runs, TypeOK, Orderly, SoleSession,
    VpnAlive
<1>8. CASE UNCHANGED vars
  BY <1>1, <1>8 DEF vars, runs
<1>9. QED
  BY <1>2, <1>3, <1>4, <1>5, <1>6, <1>7, <1>8 DEF Next, MainStep, RunStep,
    SwitchStep, StopStep

\* Spawn() starts the switching threads of the one session there is, and the
\* next session waits for them to end, or the history shows the race.
LEMMA NextOwnSwitchers ==
    IInv /\ [Next]_vars /\ races' \cap {"early", "restart"} = {}
        => OwnSwitchers'
<1> SUFFICES ASSUME IInv, [Next]_vars,
                       races' \cap {"early", "restart"} = {}
             PROVE  OwnSwitchers'
  OBVIOUS
<1>t. TypeOK /\ Sessions /\ Orderly
  BY RacesGrow DEF IInv
<1>1. ASSUME UNCHANGED <<vpn, sw>> PROVE OwnSwitchers'
  BY <1>1, <1>t DEF TypeOK, Orderly, SoleSession, OwnSwitchers, StartsAlone,
    VpnAlive, SwAlive, Starting
<1>2. CASE StopCommand \/ Revoke \/ Destroy \/ StopClose \/ StopRelease \/
  StopDestroyed
  BY <1>1, <1>2 DEF StopCommand, Revoke, Destroy, StopClose, StopRelease,
    StopDestroyed, runs, switch
<1>3. ASSUME NEW i \in Stopper,
             StopThreadTest(i) \/ StopThreadJoined(i)
      PROVE  OwnSwitchers'
  BY <1>1, <1>3 DEF StopThreadTest, StopThreadJoined, runs, switch
<1>4. CASE EngineEnds \/ EngineFails
  BY <1>1, <1>4 DEF EngineEnds, EngineFails, runs, switch
<1>5. CASE StartCommand \/ StartJoined
  <2>1. CASE UNCHANGED <<vpn, sw>>
    BY <1>1, <2>1
  <2>2. CASE Launch(service')
    <3>1. Quiet /\ UNCHANGED sw
      BY <1>5, <1>t, <2>2, LaunchOne, StartEffect
    <3>2. QED
      BY <3>1 DEF Quiet, OwnSwitchers, SwAlive
  <2>3. QED
    BY <1>5, <1>t, <2>1, <2>2, StartEffect
<1>6. ASSUME NEW r \in Run,
             Establish(r) \/ Load(r) \/ StartEngine(r) \/ LoopEnds(r) \/
               FinallyTest(r) \/ FinallyClose(r) \/ FinallyRelease(r)
      PROVE  OwnSwitchers'
  BY <1>6, <1>t DEF Establish, Step, Load, StartEngine, EngineStart,
    EngineStartFails, LoopEnds, FinallyTest, NoteStop, FinallyClose, CloseTun,
    FinallyRelease, Release, runs, switch, TypeOK, Orderly, SoleSession,
    OwnSwitchers, StartsAlone, VpnAlive, SwAlive, Starting
<1>7. ASSUME NEW r \in Run, Spawn(r) PROVE OwnSwitchers'
  BY <1>7, <1>t, SpawnTwo DEF TypeOK, Orderly, SoleSession, OwnSwitchers,
    StartsAlone, VpnAlive, SwAlive, Starting
<1>8. ASSUME NEW w \in Switcher,
             Wake(w) \/ TestPassed(w) \/ Decide(w) \/ Assign(w) \/
               SwitchStopTest(w) \/ SwitchStopJoined(w) \/ ReadFd(w) \/ Nap(w)
               \/ Restart(w)
      PROVE  OwnSwitchers'
  BY <1>8, <1>t DEF Wake, Goto, TestPassed, Decide, Assign, SwitchStopTest,
    SwitchStopJoined, JoinReturns, ReadFd, Nap, Restart, EngineStart,
    EngineStartFails, runs, switch, TypeOK, Orderly, SoleSession,
    OwnSwitchers, StartsAlone, VpnAlive, SwAlive, Starting
<1>9. CASE UNCHANGED vars
  BY <1>1, <1>9 DEF vars, runs, switch
<1>10. QED
  BY <1>2, <1>3, <1>4, <1>5, <1>6, <1>7, <1>8, <1>9 DEF Next, MainStep,
    RunStep, SwitchStep, StopStep

\* Nobody stops a session that starts, since the stop would be early, and the
\* switching threads come with Spawn().
LEMMA NextStartsAlone ==
    IInv /\ [Next]_vars /\ races' \cap {"early", "restart"} = {}
        => StartsAlone'
<1> SUFFICES ASSUME IInv, [Next]_vars,
                       races' \cap {"early", "restart"} = {}
             PROVE  StartsAlone'
  OBVIOUS
<1>t. TypeOK /\ Sessions /\ Orderly
  BY RacesGrow DEF IInv
<1>1. ASSUME UNCHANGED <<vpn, main, home, service, isRunning, stopper, sw>>
      PROVE  StartsAlone'
  BY <1>1, <1>t DEF TypeOK, Sessions, Orderly, SoleSession, StartsAlone,
    VpnAlive, SwAlive, Starting, StopUnderWay, Stopping
<1>2. CASE Revoke
  BY <1>1, <1>2 DEF Revoke, fields, life, runs, switch
<1>3. CASE EngineEnds \/ EngineFails
  BY <1>1, <1>3 DEF EngineEnds, EngineFails, fields, life, runs, switch
<1>4. CASE StartCommand \/ StartJoined
  <2>1. service' \in Run /\ (service # None => service' = service)
        /\ UNCHANGED <<sw, stopper>>
    BY <1>4, <1>t, StartEffect
  <2>2. CASE /\ UNCHANGED <<home, vpn, isRunning>>
             /\ UNCHANGED main \/ (main' = "join" /\ ~isRunning[service'])
    <3>1. \A r \in Run : Starting(r)' = Starting(r) /\ (Starting(r) => home[r] # None)
      BY <1>t, <2>2 DEF Starting, Sessions
    <3>2. \A r \in Run : Starting(r) => service' = service /\ main' = "idle"
      BY <1>t, <2>1, <2>2, <3>1 DEF Orderly, StartsAlone
    <3>3. QED
      BY <1>t, <2>1, <2>2, <3>1, <3>2
      DEF Orderly, StartsAlone, SwAlive, StopUnderWay, Stopping
  <2>3. CASE Launch(service') /\ main' = "idle"
    <3>1. PICK r \in Run : home' = [home EXCEPT ![r] = service']
                           /\ vpn' = [vpn EXCEPT ![r] = "probe"]
      BY <1>t, <2>1, <2>3, LaunchOne
    <3>2. Quiet /\ isRunning' = [isRunning EXCEPT ![service'] = TRUE]
      BY <1>t, <2>1, <2>3, LaunchOne
    <3>3. /\ \A w \in Switcher : ~SwAlive(w)'
          /\ \A i \in Stopper : ~Stopping(i)'
      BY <2>1, <3>2 DEF Quiet, SwAlive, Stopping
    <3>4. \A q \in Run : q = r \/ vpn'[q] \in {"none", "done"}
      BY <1>t, <3>1, <3>2 DEF Quiet, VpnAlive, TypeOK
    <3>5. vpn'[r] = "probe" /\ home'[r] = service' /\ isRunning'[service']
      BY <1>t, <2>1, <3>1, <3>2 DEF TypeOK
    <3>6. ~StopUnderWay'
      BY <2>3, <3>3, <3>4, <3>5 DEF StopUnderWay
    <3>7. QED
      BY <2>3, <3>3, <3>4, <3>5, <3>6 DEF StartsAlone, Starting
  <2>4. QED
    BY <1>4, <1>t, <2>2, <2>3, StartEffect
<1>5. CASE StopCommand \/ Destroy \/ StopClose \/ StopRelease \/ StopDestroyed
  BY <1>5, <1>t DEF StopCommand, NoteStop, Destroy, StopClose, CloseTun,
    StopRelease, Release, StopDestroyed, fields, life, runs, switch, TypeOK,
    Sessions, Orderly, SoleSession, StartsAlone, VpnAlive, SwAlive, Starting,
    StopUnderWay, Stopping
<1>6. ASSUME NEW r \in Run,
             Establish(r) \/ Load(r) \/ StartEngine(r) \/ LoopEnds(r) \/
               FinallyTest(r) \/ FinallyClose(r) \/ FinallyRelease(r)
      PROVE  StartsAlone'
  BY <1>6, <1>t DEF Establish, Step, Load, StartEngine, EngineStart,
    EngineStartFails, LoopEnds, FinallyTest, NoteStop, FinallyClose, CloseTun,
    FinallyRelease, Release, fields, life, runs, switch, TypeOK, Sessions,
    Orderly, SoleSession, StartsAlone, VpnAlive, SwAlive, Starting,
    StopUnderWay, Stopping
<1>7. ASSUME NEW r \in Run, Spawn(r) PROVE StartsAlone'
  <2>1. \A q \in Run : ~Starting(q)'
    BY <1>7, <1>t, SpawnTwo DEF TypeOK, Orderly, SoleSession, VpnAlive,
      Starting
  <2>2. QED
    BY <2>1 DEF StartsAlone
<1>8. ASSUME NEW w \in Switcher,
             Wake(w) \/ TestPassed(w) \/ Decide(w) \/ Assign(w) \/
               SwitchStopTest(w) \/ SwitchStopJoined(w) \/ ReadFd(w) \/ Nap(w)
               \/ Restart(w)
      PROVE  StartsAlone'
  BY <1>8, <1>t DEF Wake, Goto, TestPassed, Decide, Assign, SwitchStopTest,
    SwitchStopJoined, JoinReturns, ReadFd, Nap, Restart, EngineStart,
    EngineStartFails, fields, life, runs, switch, TypeOK, Sessions, Orderly,
    SoleSession, StartsAlone, VpnAlive, SwAlive, Starting, StopUnderWay,
    Stopping
<1>9. ASSUME NEW i \in Stopper,
             StopThreadTest(i) \/ StopThreadJoined(i)
      PROVE  StartsAlone'
  BY <1>9, <1>t DEF StopThreadTest, StopThreadJoined, JoinReturns, fields,
    life, runs, switch, TypeOK, Sessions, Orderly, SoleSession, StartsAlone,
    VpnAlive, SwAlive, Starting, StopUnderWay, Stopping
<1>10. CASE UNCHANGED vars
  BY <1>1, <1>10 DEF vars, fields, life, runs, switch
<1>11. QED
  BY <1>2, <1>3, <1>4, <1>5, <1>6, <1>7, <1>8, <1>9, <1>10 DEF Next, MainStep,
    RunStep, SwitchStep, StopStep

\* A TUN is closed before isRunning can be found false, and the field is
\* cleared only after.
LEMMA NextTunOwned ==
    IInv /\ [Next]_vars /\ races' \cap {"early", "restart"} = {}
        => TunOwned'
<1> SUFFICES ASSUME IInv, [Next]_vars,
                       races' \cap {"early", "restart"} = {}
             PROVE  TunOwned'
  OBVIOUS
<1>t. TypeOK /\ Sessions /\ Orderly
  BY RacesGrow DEF IInv
<1>1. ASSUME UNCHANGED <<tun, vpn, isRunning, home, vpnInterface>>
      PROVE  TunOwned'
  BY <1>1, <1>t DEF TypeOK, Sessions, Orderly, SoleSession, StartsAlone,
    TunOwned, ClosedFirst, VpnAlive, Starting
<1>2. CASE StopCommand \/ Revoke \/ Destroy \/ StopDestroyed
  BY <1>1, <1>2 DEF StopCommand, Revoke, Destroy, StopDestroyed, fields, runs
<1>3. ASSUME NEW w \in Switcher,
             Wake(w) \/ TestPassed(w) \/ Decide(w) \/ Assign(w) \/
               SwitchStopTest(w) \/ SwitchStopJoined(w) \/ ReadFd(w) \/ Nap(w)
               \/ Restart(w)
      PROVE  TunOwned'
  BY <1>1, <1>3 DEF Wake, TestPassed, Decide, Assign, SwitchStopTest,
    SwitchStopJoined, ReadFd, Nap, Restart, fields, runs
<1>4. ASSUME NEW i \in Stopper,
             StopThreadTest(i) \/ StopThreadJoined(i)
      PROVE  TunOwned'
  BY <1>1, <1>4 DEF StopThreadTest, StopThreadJoined, fields, runs
<1>5. CASE EngineEnds \/ EngineFails
  BY <1>1, <1>5 DEF EngineEnds, EngineFails, fields, runs
<1>6. CASE StartCommand \/ StartJoined
  <2>1. UNCHANGED <<tun, vpnInterface>> /\ service' \in Run
    BY <1>6, <1>t, StartEffect
  <2>2. CASE UNCHANGED <<vpn, home, isRunning>>
    BY <1>1, <2>1, <2>2
  <2>3. CASE Launch(service')
    <3>1. PICK r \in Run : home[r] = None /\ home' = [home EXCEPT ![r] = service']
                           /\ vpn' = [vpn EXCEPT ![r] = "probe"]
      BY <1>t, <2>1, <2>3, LaunchOne
    <3>2. isRunning' = [isRunning EXCEPT ![service'] = TRUE]
      BY <1>t, <2>1, <2>3, LaunchOne
    <3>3. \A q \in tun : q \in Run /\ q # r
      BY <1>t, <3>1 DEF TypeOK, Sessions, Orderly, TunOwned
    <3>4. QED
      BY <1>t, <2>1, <3>1, <3>2, <3>3 DEF TypeOK, Orderly, TunOwned
  <2>4. QED
    BY <1>6, <1>t, <2>2, <2>3, StartEffect
<1>7. CASE StopClose \/ StopRelease
  BY <1>7, <1>t DEF StopClose, CloseTun, StopRelease, Release, fields, runs,
    TypeOK, Sessions, Orderly, SoleSession, StartsAlone, TunOwned,
    ClosedFirst, VpnAlive, Starting
<1>8. ASSUME NEW r \in Run,
             Establish(r) \/ Load(r) \/ StartEngine(r) \/ LoopEnds(r) \/
               FinallyTest(r) \/ FinallyClose(r) \/ FinallyRelease(r)
      PROVE  TunOwned'
  BY <1>8, <1>t DEF Establish, Step, Load, StartEngine, EngineStart,
    EngineStartFails, LoopEnds, FinallyTest, NoteStop, FinallyClose, CloseTun,
    FinallyRelease, Release, fields, runs, TypeOK, Sessions, Orderly,
    SoleSession, StartsAlone, TunOwned, ClosedFirst, VpnAlive, Starting
<1>9. ASSUME NEW r \in Run, Spawn(r) PROVE TunOwned'
  <2>1. UNCHANGED <<tun, isRunning, home, vpnInterface>>
    BY <1>9 DEF Spawn
  <2>2. QED
    BY <1>9, <1>t, <2>1, SpawnTwo DEF TypeOK, Orderly, TunOwned
<1>10. CASE UNCHANGED vars
  BY <1>1, <1>10 DEF vars, fields, runs
<1>11. QED
  BY <1>2, <1>3, <1>4, <1>5, <1>6, <1>7, <1>8, <1>9, <1>10 DEF Next, MainStep,
    RunStep, SwitchStep, StopStep

\* vpnInterface!!.fd is the TUN of the only session under way.
LEMMA NextLoadedOwn ==
    IInv /\ [Next]_vars /\ races' \cap {"early", "restart"} = {}
        => LoadedOwn'
<1> SUFFICES ASSUME IInv, [Next]_vars,
                       races' \cap {"early", "restart"} = {}
             PROVE  LoadedOwn'
  OBVIOUS
<1>t. TypeOK /\ Sessions /\ Orderly
  BY RacesGrow DEF IInv
<1>1. ASSUME UNCHANGED <<tun, vpn, tunFd>> PROVE LoadedOwn'
  BY <1>1, <1>t DEF TypeOK, Sessions, Orderly, SoleSession, StartsAlone,
    TunOwned, LoadedOwn, VpnAlive, Starting, StopUnderWay
<1>2. CASE StopCommand \/ Revoke \/ Destroy \/ StopRelease \/ StopDestroyed
  BY <1>1, <1>2 DEF StopCommand, Revoke, Destroy, StopRelease, StopDestroyed,
    runs
<1>3. ASSUME NEW w \in Switcher,
             Wake(w) \/ TestPassed(w) \/ Decide(w) \/ Assign(w) \/
               SwitchStopTest(w) \/ SwitchStopJoined(w) \/ ReadFd(w) \/ Nap(w)
               \/ Restart(w)
      PROVE  LoadedOwn'
  BY <1>1, <1>3 DEF Wake, TestPassed, Decide, Assign, SwitchStopTest,
    SwitchStopJoined, ReadFd, Nap, Restart, runs
<1>4. ASSUME NEW i \in Stopper,
             StopThreadTest(i) \/ StopThreadJoined(i)
      PROVE  LoadedOwn'
  BY <1>1, <1>4 DEF StopThreadTest, StopThreadJoined, runs
<1>5. CASE EngineEnds \/ EngineFails
  BY <1>1, <1>5 DEF EngineEnds, EngineFails, runs
<1>6. CASE StartCommand \/ StartJoined
  <2>1. UNCHANGED <<tun, tunFd>> /\ service' \in Run
    BY <1>6, <1>t, StartEffect
  <2>2. CASE UNCHANGED vpn
    BY <1>1, <2>1, <2>2
  <2>3. CASE Launch(service')
    <3>1. \E r \in Run : vpn' = [vpn EXCEPT ![r] = "probe"]
      BY <1>t, <2>1, <2>3, LaunchOne
    <3>2. QED
      BY <1>t, <2>1, <3>1 DEF TypeOK, Orderly, LoadedOwn
  <2>4. QED
    BY <1>6, <1>t, <2>2, <2>3, StartEffect
<1>7. CASE StopClose
  BY <1>7, <1>t DEF StopClose, CloseTun, runs, TypeOK, Sessions, Orderly,
    SoleSession, StartsAlone, TunOwned, LoadedOwn, VpnAlive, Starting,
    StopUnderWay
<1>8. ASSUME NEW r \in Run,
             Establish(r) \/ Load(r) \/ StartEngine(r) \/ Spawn(r) \/
               LoopEnds(r) \/ FinallyTest(r) \/ FinallyClose(r) \/
               FinallyRelease(r)
      PROVE  LoadedOwn'
  BY <1>8, <1>t DEF Establish, Step, Load, StartEngine, EngineStart,
    EngineStartFails, Spawn, LoopEnds, FinallyTest, NoteStop, FinallyClose,
    CloseTun, FinallyRelease, Release, runs, TypeOK, Sessions, Orderly,
    SoleSession, StartsAlone, TunOwned, LoadedOwn, VpnAlive, Starting,
    StopUnderWay
<1>9. CASE UNCHANGED vars
  BY <1>1, <1>9 DEF vars, runs
<1>10. QED
  BY <1>2, <1>3, <1>4, <1>5, <1>6, <1>7, <1>8, <1>9 DEF Next, MainStep,
    RunStep, SwitchStep, StopStep

\* Between close() and vpnInterface = null no TUN is opened: the session that
\* could do it is the one that is being stopped.
LEMMA NextClosedFirst ==
    IInv /\ [Next]_vars /\ races' \cap {"early", "restart"} = {}
        => ClosedFirst'
<1> SUFFICES ASSUME IInv, [Next]_vars,
                       races' \cap {"early", "restart"} = {}
             PROVE  ClosedFirst'
  OBVIOUS
<1>t. TypeOK /\ Sessions /\ Orderly
  BY RacesGrow DEF IInv
<1>1. ASSUME UNCHANGED <<main, tun, home, service, vpn>> PROVE ClosedFirst'
  BY <1>1, <1>t DEF TypeOK, Sessions, Orderly, SoleSession, StartsAlone,
    TunOwned, ClosedFirst, VpnAlive, Starting, StopUnderWay
<1>2. CASE Revoke
  BY <1>1, <1>2 DEF Revoke, life, runs
<1>3. ASSUME NEW w \in Switcher,
             Wake(w) \/ TestPassed(w) \/ Decide(w) \/ Assign(w) \/
               SwitchStopTest(w) \/ SwitchStopJoined(w) \/ ReadFd(w) \/ Nap(w)
               \/ Restart(w)
      PROVE  ClosedFirst'
  BY <1>1, <1>3 DEF Wake, TestPassed, Decide, Assign, SwitchStopTest,
    SwitchStopJoined, ReadFd, Nap, Restart, life, runs
<1>4. ASSUME NEW i \in Stopper,
             StopThreadTest(i) \/ StopThreadJoined(i)
      PROVE  ClosedFirst'
  BY <1>1, <1>4 DEF StopThreadTest, StopThreadJoined, life, runs
<1>5. CASE EngineEnds \/ EngineFails
  BY <1>1, <1>5 DEF EngineEnds, EngineFails, life, runs
<1>6. CASE StartCommand \/ StartJoined
  <2>1. UNCHANGED tun /\ service' \in Run /\ main \in {"idle", "join"}
    BY <1>6, <1>t, StartEffect
  <2>2. CASE /\ UNCHANGED <<home, vpn>> /\ (UNCHANGED main \/ main' = "join")
    BY <1>t, <2>1, <2>2 DEF Orderly, ClosedFirst
  <2>3. CASE Launch(service') /\ main' = "idle"
    <3>1. Quiet /\ \E r \in Run : vpn' = [vpn EXCEPT ![r] = "probe"]
      BY <1>t, <2>1, <2>3, LaunchOne
    <3>2. \A q \in Run : vpn'[q] # "release"
      BY <1>t, <3>1 DEF Quiet, VpnAlive, TypeOK
    <3>3. QED
      BY <2>3, <3>2 DEF ClosedFirst
  <2>4. QED
    BY <1>6, <1>t, <2>2, <2>3, StartEffect
<1>7. CASE StopCommand \/ Destroy \/ StopClose \/ StopRelease \/ StopDestroyed
  BY <1>7, <1>t DEF StopCommand, NoteStop, Destroy, StopClose, CloseTun,
    StopRelease, Release, StopDestroyed, life, runs, TypeOK, Sessions,
    Orderly, SoleSession, StartsAlone, TunOwned, ClosedFirst, VpnAlive,
    Starting, StopUnderWay
<1>8. ASSUME NEW r \in Run,
             Establish(r) \/ Load(r) \/ StartEngine(r) \/ Spawn(r) \/
               LoopEnds(r) \/ FinallyTest(r) \/ FinallyClose(r) \/
               FinallyRelease(r)
      PROVE  ClosedFirst'
  BY <1>8, <1>t DEF Establish, Step, Load, StartEngine, EngineStart,
    EngineStartFails, Spawn, LoopEnds, FinallyTest, NoteStop, FinallyClose,
    CloseTun, FinallyRelease, Release, life, runs, TypeOK, Sessions, Orderly,
    SoleSession, StartsAlone, TunOwned, ClosedFirst, VpnAlive, Starting,
    StopUnderWay
<1>9. CASE UNCHANGED vars
  BY <1>1, <1>9 DEF vars, life, runs
<1>10. QED
  BY <1>2, <1>3, <1>4, <1>5, <1>6, <1>7, <1>8, <1>9 DEF Next, MainStep,
    RunStep, SwitchStep, StopStep

\* A stop and a switch that meet leave a trace, whichever comes first
\* (stopVpn()'s test, Decide).
LEMMA NextSwitchNotInStop ==
    IInv /\ [Next]_vars /\ races' \cap {"early", "restart", "switch"} = {}
        => SwitchNotInStop'
<1> SUFFICES ASSUME IInv, [Next]_vars,
                       races' \cap {"early", "restart", "switch"} = {}
             PROVE  SwitchNotInStop'
  OBVIOUS
<1>t. TypeOK /\ Sessions /\ Orderly /\ Clear
  BY RacesGrow DEF IInv
<1>1. ASSUME UNCHANGED <<sw, main, vpn, stopper>> PROVE SwitchNotInStop'
  BY <1>1, <1>t DEF TypeOK, Clear, SwitchNotInStop, Switching, StopUnderWay,
    Stopping
<1>2. CASE Revoke
  BY <1>1, <1>2 DEF Revoke, runs, switch
<1>3. CASE EngineEnds \/ EngineFails
  BY <1>1, <1>3 DEF EngineEnds, EngineFails, runs, switch
<1>4. CASE StartCommand \/ StartJoined
  <2>1. UNCHANGED <<sw, stopper>> /\ service' \in Run
        /\ main' \in {"idle", "join"}
    BY <1>4, <1>t, StartEffect
  <2>2. CASE UNCHANGED vpn
    BY <1>t, <2>1, <2>2
    DEF Clear, SwitchNotInStop, Switching, StopUnderWay, Stopping
  <2>3. CASE Launch(service')
    <3>1. \E r \in Run : vpn' = [vpn EXCEPT ![r] = "probe"]
      BY <1>t, <2>1, <2>3, LaunchOne
    <3>2. QED
      BY <1>t, <2>1, <3>1
      DEF TypeOK, Clear, SwitchNotInStop, Switching, StopUnderWay, Stopping
  <2>4. QED
    BY <1>4, <1>t, <2>2, <2>3, StartEffect
<1>5. CASE StopCommand \/ Destroy \/ StopClose \/ StopRelease \/ StopDestroyed
  BY <1>5, <1>t DEF StopCommand, NoteStop, Destroy, StopClose, CloseTun,
    StopRelease, Release, StopDestroyed, runs, switch, TypeOK, Clear,
    SwitchNotInStop, Switching, StopUnderWay, Stopping
<1>6. ASSUME NEW r \in Run,
             Establish(r) \/ Load(r) \/ StartEngine(r) \/ LoopEnds(r) \/
               FinallyTest(r) \/ FinallyClose(r) \/ FinallyRelease(r)
      PROVE  SwitchNotInStop'
  BY <1>6, <1>t DEF Establish, Step, Load, StartEngine, EngineStart,
    EngineStartFails, LoopEnds, FinallyTest, NoteStop, FinallyClose, CloseTun,
    FinallyRelease, Release, runs, switch, TypeOK, Clear, SwitchNotInStop,
    Switching, StopUnderWay, Stopping
<1>7. ASSUME NEW r \in Run, Spawn(r) PROVE SwitchNotInStop'
  <2>1. UNCHANGED <<main, stopper>>
    BY <1>7 DEF Spawn
  <2>2. QED
    BY <1>7, <1>t, <2>1, SpawnTwo
    DEF TypeOK, Clear, SwitchNotInStop, Switching, StopUnderWay, Stopping
<1>8. ASSUME NEW w \in Switcher,
             Wake(w) \/ TestPassed(w) \/ Decide(w) \/ Assign(w) \/
               SwitchStopTest(w) \/ SwitchStopJoined(w) \/ ReadFd(w) \/ Nap(w)
               \/ Restart(w)
      PROVE  SwitchNotInStop'
  BY <1>8, <1>t DEF Wake, Goto, TestPassed, Decide, Assign, SwitchStopTest,
    SwitchStopJoined, JoinReturns, ReadFd, Nap, Restart, EngineStart,
    EngineStartFails, runs, switch, TypeOK, Clear, SwitchNotInStop, Switching,
    StopUnderWay, Stopping
<1>9. ASSUME NEW i \in Stopper,
             StopThreadTest(i) \/ StopThreadJoined(i)
      PROVE  SwitchNotInStop'
  BY <1>9, <1>t DEF StopThreadTest, StopThreadJoined, JoinReturns, runs,
    switch, TypeOK, Clear, SwitchNotInStop, Switching, StopUnderWay, Stopping
<1>10. CASE UNCHANGED vars
  BY <1>1, <1>10 DEF vars, runs, switch
<1>11. QED
  BY <1>2, <1>3, <1>4, <1>5, <1>6, <1>7, <1>8, <1>9, <1>10 DEF Next, MainStep,
    RunStep, SwitchStep, StopStep

\* The descriptor a switch has read stays open: closing it takes a stop.
LEMMA NextSwitchHasTun ==
    IInv /\ [Next]_vars /\ races' \cap {"early", "restart", "switch"} = {}
        => SwitchHasTun'
<1> SUFFICES ASSUME IInv, [Next]_vars,
                       races' \cap {"early", "restart", "switch"} = {}
             PROVE  SwitchHasTun'
  OBVIOUS
<1>t. TypeOK /\ Sessions /\ Orderly /\ Clear
  BY RacesGrow DEF IInv
<1>1. ASSUME UNCHANGED <<sw, swFd, tun>> PROVE SwitchHasTun'
  BY <1>1, <1>t DEF TypeOK, Clear, SwitchNotInStop, SwitchHasTun, Switching,
    StopUnderWay
<1>2. CASE StartCommand \/ StartJoined \/ StopCommand \/ Revoke \/ Destroy \/
  StopRelease \/ StopDestroyed
  BY <1>1, <1>2 DEF StartCommand, StartJoined, StopCommand, Revoke, Destroy,
    StopRelease, StopDestroyed, switch
<1>3. ASSUME NEW r \in Run,
             Load(r) \/ StartEngine(r) \/ LoopEnds(r) \/ FinallyTest(r) \/
               FinallyRelease(r)
      PROVE  SwitchHasTun'
  BY <1>1, <1>3 DEF Load, StartEngine, LoopEnds, FinallyTest, FinallyRelease,
    switch
<1>4. ASSUME NEW i \in Stopper,
             StopThreadTest(i) \/ StopThreadJoined(i)
      PROVE  SwitchHasTun'
  BY <1>1, <1>4 DEF StopThreadTest, StopThreadJoined, switch
<1>5. CASE EngineEnds \/ EngineFails
  BY <1>1, <1>5 DEF EngineEnds, EngineFails, switch
<1>6. CASE StopClose
  BY <1>6, <1>t DEF StopClose, CloseTun, switch, TypeOK, Clear,
    SwitchNotInStop, SwitchHasTun, Switching, StopUnderWay
<1>7. ASSUME NEW r \in Run,
             Establish(r) \/ FinallyClose(r)
      PROVE  SwitchHasTun'
  BY <1>7, <1>t DEF Establish, Step, FinallyClose, CloseTun, switch, TypeOK,
    Clear, SwitchNotInStop, SwitchHasTun, Switching, StopUnderWay
<1>8. ASSUME NEW r \in Run, Spawn(r) PROVE SwitchHasTun'
  <2>1. UNCHANGED <<swFd, tun>>
    BY <1>8 DEF Spawn
  <2>2. QED
    BY <1>8, <1>t, <2>1, SpawnTwo DEF Clear, SwitchHasTun
<1>9. ASSUME NEW w \in Switcher,
             Wake(w) \/ TestPassed(w) \/ Decide(w) \/ Assign(w) \/
               SwitchStopTest(w) \/ SwitchStopJoined(w) \/ ReadFd(w) \/ Nap(w)
               \/ Restart(w)
      PROVE  SwitchHasTun'
  BY <1>9, <1>t DEF Wake, Goto, TestPassed, Decide, Assign, SwitchStopTest,
    SwitchStopJoined, JoinReturns, ReadFd, Nap, Restart, EngineStart,
    EngineStartFails, switch, TypeOK, Clear, SwitchNotInStop, SwitchHasTun,
    Switching, StopUnderWay
<1>10. CASE UNCHANGED vars
  BY <1>1, <1>10 DEF vars, switch
<1>11. QED
  BY <1>2, <1>3, <1>4, <1>5, <1>6, <1>7, <1>8, <1>9, <1>10 DEF Next, MainStep,
    RunStep, SwitchStep, StopStep

\* An engine is started only for a session that runs, and its stop takes over
\* before isRunning is false.
LEMMA NextFlagOwned ==
    IInv /\ [Next]_vars /\ races' \cap {"early", "restart", "switch"} = {}
        => FlagOwned'
<1> SUFFICES ASSUME IInv, [Next]_vars,
                       races' \cap {"early", "restart", "switch"} = {}
             PROVE  FlagOwned'
  OBVIOUS
<1>t. TypeOK /\ Sessions /\ Orderly /\ Clear
  BY RacesGrow DEF IInv
<1>1. ASSUME UNCHANGED <<g_running, main, vpn, stopper, isRunning, home>>
      PROVE  FlagOwned'
  BY <1>1, <1>t DEF TypeOK, Sessions, Orderly, StartsAlone, TunOwned, Clear,
    SwitchHasTun, FlagOwned, FlagClear, VpnAlive, Starting, StopUnderWay,
    Stopping
<1>2. CASE Revoke
  BY <1>1, <1>2 DEF Revoke, fields, runs, eng
<1>3. ASSUME NEW w \in Switcher,
             Wake(w) \/ TestPassed(w) \/ Decide(w) \/ Assign(w) \/
               SwitchStopTest(w) \/ ReadFd(w) \/ Nap(w)
      PROVE  FlagOwned'
  BY <1>1, <1>3 DEF Wake, TestPassed, Decide, Assign, SwitchStopTest, ReadFd,
    Nap, fields, runs, eng
<1>4. CASE StartCommand \/ StartJoined
  <2>1. UNCHANGED <<g_running, stopper>> /\ service' \in Run
        /\ main \in {"idle", "join"} /\ main' \in {"idle", "join"}
    BY <1>4, <1>t, StartEffect
  <2>2. CASE UNCHANGED <<vpn, home, isRunning>>
    BY <1>t, <2>1, <2>2
    DEF Clear, FlagOwned, VpnAlive, StopUnderWay, Stopping
  <2>3. CASE Launch(service')
    <3>1. Quiet
      BY <1>t, <2>1, <2>3, LaunchOne
    <3>2. ~g_running
      BY <1>t, <2>1, <3>1
      DEF Quiet, Clear, FlagOwned, VpnAlive, StopUnderWay, Stopping
    <3>3. QED
      BY <2>1, <3>2 DEF FlagOwned
  <2>4. QED
    BY <1>4, <1>t, <2>2, <2>3, StartEffect
<1>5. CASE StopCommand
  BY <1>5, <1>t DEF StopCommand, NoteStop, fields, runs, eng, TypeOK,
    Sessions, Orderly, StartsAlone, TunOwned, Clear, SwitchHasTun, FlagOwned,
    FlagClear, VpnAlive, Starting, StopUnderWay, Stopping
<1>6. CASE Destroy
  BY <1>6, <1>t DEF Destroy, NoteStop, fields, runs, eng, TypeOK, Sessions,
    Orderly, StartsAlone, TunOwned, Clear, SwitchHasTun, FlagOwned, FlagClear,
    VpnAlive, Starting, StopUnderWay, Stopping
<1>7. CASE StopClose
  BY <1>7, <1>t DEF StopClose, CloseTun, fields, runs, eng, TypeOK, Sessions,
    Orderly, StartsAlone, TunOwned, Clear, SwitchHasTun, FlagOwned, FlagClear,
    VpnAlive, Starting, StopUnderWay, Stopping
<1>8. CASE StopRelease
  BY <1>8, <1>t DEF StopRelease, Release, fields, runs, eng, TypeOK, Sessions,
    Orderly, StartsAlone, TunOwned, Clear, SwitchHasTun, FlagOwned, FlagClear,
    VpnAlive, Starting, StopUnderWay, Stopping
<1>9. CASE StopDestroyed
  BY <1>9, <1>t DEF StopDestroyed, fields, runs, eng, TypeOK, Sessions,
    Orderly, StartsAlone, TunOwned, Clear, SwitchHasTun, FlagOwned, FlagClear,
    VpnAlive, Starting, StopUnderWay, Stopping
<1>10. ASSUME NEW r \in Run, Establish(r) PROVE FlagOwned'
  BY <1>10, <1>t DEF Establish, Step, fields, runs, eng, TypeOK, Sessions,
    Orderly, StartsAlone, TunOwned, Clear, SwitchHasTun, FlagOwned, FlagClear,
    VpnAlive, Starting, StopUnderWay, Stopping
<1>11. ASSUME NEW r \in Run, Load(r) PROVE FlagOwned'
  BY <1>11, <1>t DEF Load, Step, fields, runs, eng, TypeOK, Sessions, Orderly,
    StartsAlone, TunOwned, Clear, SwitchHasTun, FlagOwned, FlagClear,
    VpnAlive, Starting, StopUnderWay, Stopping
<1>12. ASSUME NEW r \in Run, StartEngine(r) PROVE FlagOwned'
  <2>1. isRunning[home[r]] /\ UNCHANGED <<isRunning, home>>
    BY <1>12, <1>t DEF StartEngine, Step, fields, Orderly, StartsAlone,
      Starting
  <2>2. VpnAlive(r)'
    BY <1>12, <1>t DEF StartEngine, Step, VpnAlive, TypeOK
  <2>3. QED
    BY <2>1, <2>2 DEF FlagOwned
<1>13. ASSUME NEW r \in Run, Spawn(r) PROVE FlagOwned'
  BY <1>13, <1>t DEF Spawn, Step, fields, runs, eng, TypeOK, Sessions,
    Orderly, StartsAlone, TunOwned, Clear, SwitchHasTun, FlagOwned, FlagClear,
    VpnAlive, Starting, StopUnderWay, Stopping
<1>14. ASSUME NEW r \in Run, LoopEnds(r) PROVE FlagOwned'
  BY <1>14, <1>t DEF LoopEnds, Step, fields, runs, eng, TypeOK, Sessions,
    Orderly, StartsAlone, TunOwned, Clear, SwitchHasTun, FlagOwned, FlagClear,
    VpnAlive, Starting, StopUnderWay, Stopping
<1>15. ASSUME NEW r \in Run, FinallyTest(r) PROVE FlagOwned'
  BY <1>15, <1>t DEF FinallyTest, NoteStop, Step, fields, runs, eng, TypeOK,
    Sessions, Orderly, StartsAlone, TunOwned, Clear, SwitchHasTun, FlagOwned,
    FlagClear, VpnAlive, Starting, StopUnderWay, Stopping
<1>16. ASSUME NEW r \in Run, FinallyClose(r) PROVE FlagOwned'
  BY <1>16, <1>t DEF FinallyClose, CloseTun, Step, fields, runs, eng, TypeOK,
    Sessions, Orderly, StartsAlone, TunOwned, Clear, SwitchHasTun, FlagOwned,
    FlagClear, VpnAlive, Starting, StopUnderWay, Stopping
<1>17. ASSUME NEW r \in Run, FinallyRelease(r) PROVE FlagOwned'
  BY <1>17, <1>t DEF FinallyRelease, Release, Step, fields, runs, eng, TypeOK,
    Sessions, Orderly, StartsAlone, TunOwned, Clear, SwitchHasTun, FlagOwned,
    FlagClear, VpnAlive, Starting, StopUnderWay, Stopping
<1>18. ASSUME NEW w \in Switcher,
             SwitchStopJoined(w) \/ Restart(w)
      PROVE  FlagOwned'
  BY <1>18, <1>t DEF SwitchStopJoined, JoinReturns, Goto, Restart,
    EngineStart, EngineStartFails, fields, runs, eng, TypeOK, Sessions,
    Orderly, StartsAlone, TunOwned, Clear, SwitchHasTun, FlagOwned, FlagClear,
    VpnAlive, Starting, StopUnderWay, Stopping
<1>19. ASSUME NEW i \in Stopper, StopThreadTest(i) PROVE FlagOwned'
  BY <1>19, <1>t DEF StopThreadTest, fields, runs, eng, TypeOK, Sessions,
    Orderly, StartsAlone, TunOwned, Clear, SwitchHasTun, FlagOwned, FlagClear,
    VpnAlive, Starting, StopUnderWay, Stopping
<1>20. ASSUME NEW i \in Stopper, StopThreadJoined(i) PROVE FlagOwned'
  BY <1>20, <1>t DEF StopThreadJoined, JoinReturns, fields, runs, eng, TypeOK,
    Sessions, Orderly, StartsAlone, TunOwned, Clear, SwitchHasTun, FlagOwned,
    FlagClear, VpnAlive, Starting, StopUnderWay, Stopping
<1>21. CASE EngineEnds \/ EngineFails
  BY <1>21, <1>t DEF EngineEnds, EngineFails, fields, runs, eng, TypeOK,
    Sessions, Orderly, StartsAlone, TunOwned, Clear, SwitchHasTun, FlagOwned,
    FlagClear, VpnAlive, Starting, StopUnderWay, Stopping
<1>22. CASE UNCHANGED vars
  BY <1>1, <1>22 DEF vars, fields, runs, eng
<1>23. QED
  BY <1>2, <1>3, <1>4, <1>5, <1>6, <1>7, <1>8, <1>9, <1>10, <1>11, <1>12,
    <1>13, <1>14, <1>15, <1>16, <1>17, <1>18, <1>19, <1>20, <1>21, <1>22 DEF
    Next, MainStep, RunStep, SwitchStep, StopStep

\* A session begins with g_running clear, as no earlier one is left, and only
\* its own StartEngine() sets it.
LEMMA NextFlagClear ==
    IInv /\ [Next]_vars /\ races' \cap {"early", "restart", "switch"} = {}
        => FlagClear'
<1> SUFFICES ASSUME IInv, [Next]_vars,
                       races' \cap {"early", "restart", "switch"} = {}
             PROVE  FlagClear'
  OBVIOUS
<1>t. TypeOK /\ Sessions /\ Orderly /\ Clear
  BY RacesGrow DEF IInv
<1>1. ASSUME UNCHANGED <<g_running, vpn>> PROVE FlagClear'
  BY <1>1, <1>t DEF TypeOK, Sessions, Orderly, SoleSession, StartsAlone,
    Clear, FlagOwned, FlagClear, VpnAlive, SwAlive, Starting
<1>2. CASE StopCommand \/ Revoke \/ Destroy \/ StopClose \/ StopRelease \/
  StopDestroyed
  BY <1>1, <1>2 DEF StopCommand, Revoke, Destroy, StopClose, StopRelease,
    StopDestroyed, runs, eng
<1>3. ASSUME NEW w \in Switcher,
             Wake(w) \/ TestPassed(w) \/ Decide(w) \/ Assign(w) \/
               SwitchStopTest(w) \/ ReadFd(w) \/ Nap(w)
      PROVE  FlagClear'
  BY <1>1, <1>3 DEF Wake, TestPassed, Decide, Assign, SwitchStopTest, ReadFd,
    Nap, runs, eng
<1>4. ASSUME NEW i \in Stopper, StopThreadTest(i) PROVE FlagClear'
  BY <1>1, <1>4 DEF StopThreadTest, runs, eng
<1>5. CASE StartCommand \/ StartJoined
  <2>1. UNCHANGED g_running /\ service' \in Run /\ main \in {"idle", "join"}
    BY <1>5, <1>t, StartEffect
  <2>2. CASE UNCHANGED vpn
    BY <1>1, <2>1, <2>2
  <2>3. CASE Launch(service')
    <3>1. Quiet
      BY <1>t, <2>1, <2>3, LaunchOne
    <3>2. ~g_running
      BY <1>t, <2>1, <3>1
      DEF Quiet, Clear, FlagOwned, VpnAlive, StopUnderWay, Stopping
    <3>3. QED
      BY <2>1, <3>2 DEF FlagClear
  <2>4. QED
    BY <1>5, <1>t, <2>2, <2>3, StartEffect
<1>6. ASSUME NEW r \in Run,
             Establish(r) \/ Load(r) \/ StartEngine(r) \/ Spawn(r) \/
               LoopEnds(r) \/ FinallyTest(r) \/ FinallyClose(r) \/
               FinallyRelease(r)
      PROVE  FlagClear'
  BY <1>6, <1>t DEF Establish, Step, Load, StartEngine, EngineStart,
    EngineStartFails, Spawn, LoopEnds, FinallyTest, NoteStop, FinallyClose,
    CloseTun, FinallyRelease, Release, runs, eng, TypeOK, Sessions, Orderly,
    SoleSession, StartsAlone, Clear, FlagOwned, FlagClear, VpnAlive, SwAlive,
    Starting
<1>7. ASSUME NEW w \in Switcher,
             SwitchStopJoined(w) \/ Restart(w)
      PROVE  FlagClear'
  BY <1>7, <1>t DEF SwitchStopJoined, JoinReturns, Goto, Restart, EngineStart,
    EngineStartFails, runs, eng, TypeOK, Sessions, Orderly, SoleSession,
    StartsAlone, Clear, FlagOwned, FlagClear, VpnAlive, SwAlive, Starting
<1>8. ASSUME NEW i \in Stopper, StopThreadJoined(i) PROVE FlagClear'
  BY <1>8, <1>t DEF StopThreadJoined, JoinReturns, runs, eng, TypeOK,
    Sessions, Orderly, SoleSession, StartsAlone, Clear, FlagOwned, FlagClear,
    VpnAlive, SwAlive, Starting
<1>9. CASE EngineEnds \/ EngineFails
  BY <1>9, <1>t DEF EngineEnds, EngineFails, runs, eng, TypeOK, Sessions,
    Orderly, SoleSession, StartsAlone, Clear, FlagOwned, FlagClear, VpnAlive,
    SwAlive, Starting
<1>10. CASE UNCHANGED vars
  BY <1>1, <1>10 DEF vars, runs, eng
<1>11. QED
  BY <1>2, <1>3, <1>4, <1>5, <1>6, <1>7, <1>8, <1>9, <1>10 DEF Next, MainStep,
    RunStep, SwitchStep, StopStep

\* Hence a session's start() is never answered by an engine it has not
\* started.
LEMMA NextSilent ==
    IInv /\ [Next]_vars /\ races' \cap {"early", "restart", "switch"} = {}
        => Loud'
<1> SUFFICES ASSUME IInv, [Next]_vars,
                       races' \cap {"early", "restart", "switch"} = {}
             PROVE  Loud'
  OBVIOUS
<1>t. TypeOK /\ Sessions /\ Orderly /\ Clear
  BY RacesGrow DEF IInv
<1>1. ASSUME UNCHANGED <<silent>> PROVE Loud'
  BY <1>1, <1>t DEF TypeOK, Loud, Clear, FlagClear
<1>2. CASE StartCommand \/ StartJoined \/ StopCommand \/ Revoke \/ Destroy \/
  StopClose \/ StopRelease \/ StopDestroyed
  BY <1>1, <1>2 DEF StartCommand, StartJoined, StopCommand, Revoke, Destroy,
    StopClose, StopRelease, StopDestroyed, history
<1>3. ASSUME NEW r \in Run,
             Establish(r) \/ Load(r) \/ Spawn(r) \/ LoopEnds(r) \/
               FinallyTest(r) \/ FinallyClose(r) \/ FinallyRelease(r)
      PROVE  Loud'
  BY <1>1, <1>3 DEF Establish, Load, Spawn, LoopEnds, FinallyTest,
    FinallyClose, FinallyRelease, history
<1>4. ASSUME NEW w \in Switcher,
             Wake(w) \/ TestPassed(w) \/ Decide(w) \/ Assign(w) \/
               SwitchStopTest(w) \/ SwitchStopJoined(w) \/ ReadFd(w) \/ Nap(w)
               \/ Restart(w)
      PROVE  Loud'
  BY <1>1, <1>4 DEF Wake, TestPassed, Decide, Assign, SwitchStopTest,
    SwitchStopJoined, ReadFd, Nap, Restart, history
<1>5. ASSUME NEW i \in Stopper,
             StopThreadTest(i) \/ StopThreadJoined(i)
      PROVE  Loud'
  BY <1>1, <1>5 DEF StopThreadTest, StopThreadJoined, history
<1>6. CASE EngineEnds \/ EngineFails
  BY <1>1, <1>6 DEF EngineEnds, EngineFails, history
<1>7. CASE StartCommand \/ StartJoined
  BY <1>7, <1>1, <1>t, StartEffect
<1>8. ASSUME NEW r \in Run, StartEngine(r) PROVE Loud'
  BY <1>8, <1>t DEF StartEngine, EngineStart, EngineStartFails, Step, history,
    TypeOK, Loud, Clear, FlagClear
<1>9. CASE UNCHANGED vars
  BY <1>1, <1>9 DEF vars, history
<1>10. QED
  BY <1>2, <1>3, <1>4, <1>5, <1>6, <1>7, <1>8, <1>9 DEF Next, MainStep,
    RunStep, SwitchStep, StopStep

\* Two preset switches at once leave a trace (Decide).
LEMMA NextSoleSwitch == IInv /\ [Next]_vars /\ races' = {} => SoleSwitch'
<1> SUFFICES ASSUME IInv, [Next]_vars, races' = {} PROVE SoleSwitch'
  OBVIOUS
<1>t. TypeOK /\ Sessions /\ Orderly /\ Clear /\ Calm
  BY RacesGrow DEF IInv
<1>1. ASSUME UNCHANGED <<sw>> PROVE SoleSwitch'
  BY <1>1, <1>t DEF TypeOK, Calm, SoleSwitch, Switching
<1>2. CASE StartCommand \/ StartJoined \/ StopCommand \/ Revoke \/ Destroy \/
  StopClose \/ StopRelease \/ StopDestroyed
  BY <1>1, <1>2 DEF StartCommand, StartJoined, StopCommand, Revoke, Destroy,
    StopClose, StopRelease, StopDestroyed, switch
<1>3. ASSUME NEW r \in Run,
             Establish(r) \/ Load(r) \/ StartEngine(r) \/ LoopEnds(r) \/
               FinallyTest(r) \/ FinallyClose(r) \/ FinallyRelease(r)
      PROVE  SoleSwitch'
  BY <1>1, <1>3 DEF Establish, Load, StartEngine, LoopEnds, FinallyTest,
    FinallyClose, FinallyRelease, switch
<1>4. ASSUME NEW i \in Stopper,
             StopThreadTest(i) \/ StopThreadJoined(i)
      PROVE  SoleSwitch'
  BY <1>1, <1>4 DEF StopThreadTest, StopThreadJoined, switch
<1>5. CASE EngineEnds \/ EngineFails
  BY <1>1, <1>5 DEF EngineEnds, EngineFails, switch
<1>6. ASSUME NEW r \in Run, Spawn(r) PROVE SoleSwitch'
  BY <1>6, <1>t, SpawnTwo DEF Calm, SoleSwitch, Switching
<1>7. ASSUME NEW w \in Switcher,
             Wake(w) \/ TestPassed(w) \/ Assign(w) \/ SwitchStopTest(w) \/
               SwitchStopJoined(w) \/ ReadFd(w) \/ Nap(w) \/ Restart(w)
      PROVE  SoleSwitch'
  BY <1>7, <1>t DEF Wake, Goto, TestPassed, Assign, SwitchStopTest,
    SwitchStopJoined, JoinReturns, ReadFd, Nap, Restart, EngineStart,
    EngineStartFails, switch, TypeOK, Calm, SoleSwitch, Switching
<1>8. ASSUME NEW w \in Switcher, Decide(w) PROVE SoleSwitch'
  <2>1. \A v \in Switcher \ {w} : ~Switching(v)
    BY <1>8 DEF Decide
  <2>2. \A v \in Switcher \ {w} : sw'[v] = sw[v]
    BY <1>8, <1>t DEF Decide, Goto, TypeOK, SwitchStage
  <2>3. QED
    BY <2>1, <2>2 DEF SoleSwitch, Switching
<1>9. CASE UNCHANGED vars
  BY <1>1, <1>9 DEF vars, switch
<1>10. QED
  BY <1>2, <1>3, <1>4, <1>5, <1>6, <1>7, <1>8, <1>9 DEF Next, MainStep,
    RunStep, SwitchStep, StopStep

\* A stop() that finds g_running set returns with the pthread alive only when
\* another is still in pthread_join(); a switch never does.
LEMMA NextLiveTracked ==
    IInv /\ [Next]_vars /\ races' = {} => LiveTracked'
<1> SUFFICES ASSUME IInv, [Next]_vars, races' = {} PROVE LiveTracked'
  OBVIOUS
<1>t. TypeOK /\ Sessions /\ Orderly /\ Clear /\ Calm
  BY RacesGrow DEF IInv
<1>1. ASSUME UNCHANGED <<engine, g_running, stopper>> PROVE LiveTracked'
  BY <1>1, <1>t DEF TypeOK, Calm, LiveTracked, StopJoining
<1>2. CASE StartCommand \/ StartJoined \/ StopCommand \/ Revoke \/ Destroy \/
  StopClose \/ StopDestroyed
  BY <1>1, <1>2 DEF StartCommand, StartJoined, StopCommand, Revoke, Destroy,
    StopClose, StopDestroyed, eng
<1>3. ASSUME NEW r \in Run,
             Establish(r) \/ Load(r) \/ Spawn(r) \/ LoopEnds(r) \/
               FinallyTest(r) \/ FinallyClose(r)
      PROVE  LiveTracked'
  BY <1>1, <1>3 DEF Establish, Load, Spawn, LoopEnds, FinallyTest,
    FinallyClose, eng
<1>4. ASSUME NEW w \in Switcher,
             Wake(w) \/ TestPassed(w) \/ Decide(w) \/ Assign(w) \/
               SwitchStopTest(w) \/ ReadFd(w) \/ Nap(w)
      PROVE  LiveTracked'
  BY <1>1, <1>4 DEF Wake, TestPassed, Decide, Assign, SwitchStopTest, ReadFd,
    Nap, eng
<1>5. CASE StopRelease
  BY <1>5, <1>t DEF StopRelease, Release, eng, TypeOK, Calm, LiveTracked,
    StopJoining
<1>6. ASSUME NEW r \in Run,
             StartEngine(r) \/ FinallyRelease(r)
      PROVE  LiveTracked'
  BY <1>6, <1>t DEF StartEngine, EngineStart, EngineStartFails, Step,
    FinallyRelease, Release, eng, TypeOK, Calm, LiveTracked, StopJoining
<1>7. ASSUME NEW w \in Switcher, Restart(w) PROVE LiveTracked'
  BY <1>7, <1>t DEF Restart, EngineStart, EngineStartFails, Goto, eng, TypeOK,
    Calm, LiveTracked, StopJoining
<1>8. ASSUME NEW w \in Switcher, SwitchStopJoined(w) PROVE LiveTracked'
  <2>1. Joining = {w} /\ StopJoining = {}
    <3>1. Switching(w) /\ sw[w] = "join"
      BY <1>8 DEF SwitchStopJoined, Goto, Switching
    <3>2. QED
      BY <1>t, <3>1 DEF Calm, SoleSwitch, Clear, SwitchNotInStop, Switching,
        StopUnderWay, Stopping, Joining, StopJoining
  <2>2. ~engine.live
    BY <1>8, <2>1, SwitchJoins DEF SwitchStopJoined
  <2>3. QED
    BY <1>8, <2>2 DEF SwitchStopJoined, LiveTracked
<1>9. ASSUME NEW i \in Stopper, StopThreadTest(i) PROVE LiveTracked'
  BY <1>9, <1>t DEF StopThreadTest, eng, TypeOK, Calm, LiveTracked,
    StopJoining
<1>10. ASSUME NEW i \in Stopper, StopThreadJoined(i) PROVE LiveTracked'
  <2>1. i \in StopJoining /\ Joining = {}
    BY <1>10, <1>t DEF StopThreadJoined, Clear, SwitchNotInStop, Switching,
      StopUnderWay, Stopping, Joining, StopJoining
  <2>2. CASE engine.live
    <3>1. PICK j \in StopJoining : j # i
      BY <1>10, <2>1, <2>2, StopJoins DEF StopThreadJoined
    <3>2. j \in StopJoining'
      BY <1>10, <1>t, <3>1 DEF StopThreadJoined, StopJoining, TypeOK
    <3>3. QED
      BY <3>2 DEF LiveTracked
  <2>3. CASE ~engine.live
    BY <1>10, <2>3 DEF StopThreadJoined, LiveTracked
  <2>4. QED
    BY <2>2, <2>3
<1>11. CASE EngineEnds \/ EngineFails
  BY <1>11, <1>t DEF EngineEnds, EngineFails, eng, TypeOK, Calm, LiveTracked,
    StopJoining
<1>12. CASE UNCHANGED vars
  BY <1>1, <1>12 DEF vars, eng
<1>13. QED
  BY <1>2, <1>3, <1>4, <1>5, <1>6, <1>7, <1>8, <1>9, <1>10, <1>11, <1>12 DEF
    Next, MainStep, RunStep, SwitchStep, StopStep

\* The TUN is closed by a stop that goes on to stop the engine, and an engine
\* is started on a TUN that is open.
LEMMA NextLiveHasTun == IInv /\ [Next]_vars /\ races' = {} => LiveHasTun'
<1> SUFFICES ASSUME IInv, [Next]_vars, races' = {} PROVE LiveHasTun'
  OBVIOUS
<1>t. TypeOK /\ Sessions /\ Orderly /\ Clear /\ Calm
  BY RacesGrow DEF IInv
<1>1. ASSUME UNCHANGED <<engine, tun, main, vpn, stopper>> PROVE LiveHasTun'
  BY <1>1, <1>t DEF TypeOK, Sessions, Orderly, LoadedOwn, Clear, SwitchHasTun,
    Calm, LiveTracked, LiveHasTun, StopJoining, StopUnderWay, Stopping
<1>2. CASE Revoke
  BY <1>1, <1>2 DEF Revoke, runs, eng
<1>3. ASSUME NEW w \in Switcher,
             Wake(w) \/ TestPassed(w) \/ Decide(w) \/ Assign(w) \/
               SwitchStopTest(w) \/ SwitchStopJoined(w) \/ ReadFd(w) \/ Nap(w)
      PROVE  LiveHasTun'
  BY <1>1, <1>3 DEF Wake, TestPassed, Decide, Assign, SwitchStopTest,
    SwitchStopJoined, ReadFd, Nap, runs, eng
<1>4. CASE StartCommand \/ StartJoined
  <2>1. UNCHANGED <<engine, tun, stopper>> /\ service' \in Run
        /\ main \in {"idle", "join"} /\ main' \in {"idle", "join"}
    BY <1>4, <1>t, StartEffect
  <2>2. CASE UNCHANGED vpn
    BY <1>t, <2>1, <2>2 DEF Calm, LiveHasTun, StopUnderWay, Stopping
  <2>3. CASE Launch(service')
    <3>1. Quiet /\ \E r \in Run : vpn' = [vpn EXCEPT ![r] = "probe"]
      BY <1>t, <2>1, <2>3, LaunchOne
    <3>2. QED
      BY <1>t, <2>1, <3>1 DEF TypeOK, Quiet, VpnAlive, Calm, LiveHasTun,
        StopUnderWay, Stopping
  <2>4. QED
    BY <1>4, <1>t, <2>2, <2>3, StartEffect
<1>5. CASE StopCommand \/ Destroy \/ StopClose \/ StopRelease \/ StopDestroyed
  BY <1>5, <1>t DEF StopCommand, NoteStop, Destroy, StopClose, CloseTun,
    StopRelease, Release, StopDestroyed, runs, eng, TypeOK, Sessions, Orderly,
    LoadedOwn, Clear, SwitchHasTun, Calm, LiveTracked, LiveHasTun,
    StopJoining, StopUnderWay, Stopping
<1>6. ASSUME NEW r \in Run,
             Establish(r) \/ Load(r) \/ StartEngine(r) \/ Spawn(r) \/
               LoopEnds(r) \/ FinallyTest(r) \/ FinallyClose(r) \/
               FinallyRelease(r)
      PROVE  LiveHasTun'
  BY <1>6, <1>t DEF Establish, Step, Load, StartEngine, EngineStart,
    EngineStartFails, Spawn, LoopEnds, FinallyTest, NoteStop, FinallyClose,
    CloseTun, FinallyRelease, Release, runs, eng, TypeOK, Sessions, Orderly,
    LoadedOwn, Clear, SwitchHasTun, Calm, LiveTracked, LiveHasTun,
    StopJoining, StopUnderWay, Stopping
<1>7. ASSUME NEW w \in Switcher, Restart(w) PROVE LiveHasTun'
  BY <1>7, <1>t DEF Restart, EngineStart, EngineStartFails, Goto, runs, eng,
    TypeOK, Sessions, Orderly, LoadedOwn, Clear, SwitchHasTun, Calm,
    LiveTracked, LiveHasTun, StopJoining, StopUnderWay, Stopping
<1>8. ASSUME NEW i \in Stopper, StopThreadTest(i) PROVE LiveHasTun'
  BY <1>8, <1>t DEF StopThreadTest, runs, eng, TypeOK, Sessions, Orderly,
    LoadedOwn, Clear, SwitchHasTun, Calm, LiveTracked, LiveHasTun,
    StopJoining, StopUnderWay, Stopping
<1>9. ASSUME NEW i \in Stopper, StopThreadJoined(i) PROVE LiveHasTun'
  <2>1. i \in StopJoining /\ Joining = {}
    BY <1>9, <1>t DEF StopThreadJoined, Clear, SwitchNotInStop, Switching,
      StopUnderWay, Stopping, Joining, StopJoining
  <2>2. CASE engine.live
    <3>1. PICK j \in StopJoining : j # i
      BY <1>9, <2>1, <2>2, StopJoins DEF StopThreadJoined
    <3>2. j \in Stopper /\ stopper'[j] = "join"
      BY <1>9, <1>t, <3>1 DEF StopThreadJoined, StopJoining, TypeOK
    <3>3. QED
      BY <3>2 DEF LiveHasTun, StopUnderWay, Stopping
  <2>3. CASE ~engine.live
    BY <1>9, <2>3 DEF StopThreadJoined, LiveHasTun
  <2>4. QED
    BY <2>2, <2>3
<1>10. CASE EngineEnds \/ EngineFails
  BY <1>10, <1>t DEF EngineEnds, EngineFails, runs, eng, TypeOK, Sessions,
    Orderly, LoadedOwn, Clear, SwitchHasTun, Calm, LiveTracked, LiveHasTun,
    StopJoining, StopUnderWay, Stopping
<1>11. CASE UNCHANGED vars
  BY <1>1, <1>11 DEF vars, runs, eng
<1>12. QED
  BY <1>2, <1>3, <1>4, <1>5, <1>6, <1>7, <1>8, <1>9, <1>10, <1>11 DEF Next,
    MainStep, RunStep, SwitchStep, StopStep

\* A switch that has left stop() has no engine: with nobody else stopping it,
\* pthread_join() has waited for the end of the pthread.
LEMMA NextSwitchOff == IInv /\ [Next]_vars /\ races' = {} => SwitchOff'
<1> SUFFICES ASSUME IInv, [Next]_vars, races' = {} PROVE SwitchOff'
  OBVIOUS
<1>t. TypeOK /\ Sessions /\ Orderly /\ Clear /\ Calm
  BY RacesGrow DEF IInv
<1>1. ASSUME UNCHANGED <<sw, engine>> PROVE SwitchOff'
  BY <1>1, <1>t DEF TypeOK, Sessions, Orderly, StartsAlone, Clear,
    SwitchNotInStop, Calm, LiveTracked, SoleSwitch, SwitchOff, StopJoining,
    Switching, SwAlive, Starting, StopUnderWay, Stopping
<1>2. CASE StartCommand \/ StartJoined \/ StopCommand \/ Revoke \/ Destroy \/
  StopClose \/ StopRelease \/ StopDestroyed
  BY <1>1, <1>2 DEF StartCommand, StartJoined, StopCommand, Revoke, Destroy,
    StopClose, StopRelease, StopDestroyed, switch, eng
<1>3. ASSUME NEW r \in Run,
             Establish(r) \/ Load(r) \/ LoopEnds(r) \/ FinallyTest(r) \/
               FinallyClose(r) \/ FinallyRelease(r)
      PROVE  SwitchOff'
  BY <1>1, <1>3 DEF Establish, Load, LoopEnds, FinallyTest, FinallyClose,
    FinallyRelease, switch, eng
<1>4. ASSUME NEW i \in Stopper,
             StopThreadTest(i) \/ StopThreadJoined(i)
      PROVE  SwitchOff'
  BY <1>1, <1>4 DEF StopThreadTest, StopThreadJoined, switch, eng
<1>5. ASSUME NEW r \in Run, StartEngine(r) PROVE SwitchOff'
  BY <1>5, <1>t DEF StartEngine, EngineStart, EngineStartFails, Step, switch,
    eng, TypeOK, Sessions, Orderly, StartsAlone, Clear, SwitchNotInStop, Calm,
    LiveTracked, SoleSwitch, SwitchOff, StopJoining, Switching, SwAlive,
    Starting, StopUnderWay, Stopping
<1>6. ASSUME NEW r \in Run, Spawn(r) PROVE SwitchOff'
  <2>1. UNCHANGED engine
    BY <1>6 DEF Spawn, eng
  <2>2. QED
    BY <1>6, <1>t, <2>1, SpawnTwo DEF Calm, SwitchOff
<1>7. ASSUME NEW w \in Switcher,
             Wake(w) \/ TestPassed(w) \/ Decide(w) \/ Assign(w) \/
               SwitchStopTest(w) \/ ReadFd(w) \/ Nap(w) \/ Restart(w)
      PROVE  SwitchOff'
  BY <1>7, <1>t DEF Wake, Goto, TestPassed, Decide, Assign, SwitchStopTest,
    ReadFd, Nap, Restart, EngineStart, EngineStartFails, switch, eng, TypeOK,
    Sessions, Orderly, StartsAlone, Clear, SwitchNotInStop, Calm, LiveTracked,
    SoleSwitch, SwitchOff, StopJoining, Switching, SwAlive, Starting,
    StopUnderWay, Stopping
<1>8. ASSUME NEW w \in Switcher, SwitchStopJoined(w) PROVE SwitchOff'
  <2>1. Switching(w) /\ sw[w] = "join"
    BY <1>8 DEF SwitchStopJoined, Goto, Switching
  <2>2. Joining = {w} /\ StopJoining = {}
    BY <1>t, <2>1 DEF Calm, SoleSwitch, Clear, SwitchNotInStop, Switching,
      StopUnderWay, Stopping, Joining, StopJoining
  <2>3. ~engine.live
    BY <1>8, <2>2, SwitchJoins DEF SwitchStopJoined
  <2>4. QED
    BY <1>8, <2>3 DEF SwitchStopJoined, SwitchOff
<1>9. CASE EngineEnds \/ EngineFails
  BY <1>9, <1>t DEF EngineEnds, EngineFails, switch, eng, TypeOK, Sessions,
    Orderly, StartsAlone, Clear, SwitchNotInStop, Calm, LiveTracked,
    SoleSwitch, SwitchOff, StopJoining, Switching, SwAlive, Starting,
    StopUnderWay, Stopping
<1>10. CASE UNCHANGED vars
  BY <1>1, <1>10 DEF vars, switch, eng
<1>11. QED
  BY <1>2, <1>3, <1>4, <1>5, <1>6, <1>7, <1>8, <1>9, <1>10 DEF Next, MainStep,
    RunStep, SwitchStep, StopStep

\* The engine is started with the preset in force, and activePresetId changes
\* only in a switch or when a session begins.
LEMMA NextPresetKept == IInv /\ [Next]_vars /\ races' = {} => PresetKept'
<1> SUFFICES ASSUME IInv, [Next]_vars, races' = {} PROVE PresetKept'
  OBVIOUS
<1>t. TypeOK /\ Sessions /\ Orderly /\ Clear /\ Calm
  BY RacesGrow DEF IInv
<1>1. ASSUME UNCHANGED <<sw, engine, tun, activePresetId, home>>
      PROVE  PresetKept'
  BY <1>1, <1>t DEF TypeOK, Sessions, Orderly, OwnSwitchers, TunOwned,
    LoadedOwn, Clear, SwitchHasTun, Calm, SwitchOff, PresetKept
<1>2. CASE StopCommand \/ Revoke \/ Destroy \/ StopRelease \/ StopDestroyed
  BY <1>1, <1>2 DEF StopCommand, Revoke, Destroy, StopRelease, StopDestroyed,
    fields, runs, switch, eng
<1>3. ASSUME NEW r \in Run,
             Load(r) \/ LoopEnds(r) \/ FinallyTest(r) \/ FinallyRelease(r)
      PROVE  PresetKept'
  BY <1>1, <1>3 DEF Load, LoopEnds, FinallyTest, FinallyRelease, fields, runs,
    switch, eng
<1>4. ASSUME NEW i \in Stopper,
             StopThreadTest(i) \/ StopThreadJoined(i)
      PROVE  PresetKept'
  BY <1>1, <1>4 DEF StopThreadTest, StopThreadJoined, fields, runs, switch,
    eng
<1>5. CASE StartCommand
  BY <1>5, <1>t DEF StartCommand, Launch, Fresh, Note, fields, runs, switch,
    eng, TypeOK, Sessions, Orderly, OwnSwitchers, TunOwned, LoadedOwn, Clear,
    SwitchHasTun, Calm, SwitchOff, PresetKept
<1>6. CASE StartJoined
  BY <1>6, <1>t DEF StartJoined, Launch, Fresh, Note, fields, runs, switch,
    eng, TypeOK, Sessions, Orderly, OwnSwitchers, TunOwned, LoadedOwn, Clear,
    SwitchHasTun, Calm, SwitchOff, PresetKept
<1>7. CASE StopClose
  BY <1>7, <1>t DEF StopClose, CloseTun, fields, runs, switch, eng, TypeOK,
    Sessions, Orderly, OwnSwitchers, TunOwned, LoadedOwn, Clear, SwitchHasTun,
    Calm, SwitchOff, PresetKept
<1>8. ASSUME NEW r \in Run,
             StartEngine(r) \/ FinallyClose(r)
      PROVE  PresetKept'
  BY <1>8, <1>t DEF StartEngine, EngineStart, EngineStartFails, Step,
    FinallyClose, CloseTun, fields, runs, switch, eng, TypeOK, Sessions,
    Orderly, OwnSwitchers, TunOwned, LoadedOwn, Clear, SwitchHasTun, Calm,
    SwitchOff, PresetKept
<1>9. ASSUME NEW r \in Run, Establish(r) PROVE PresetKept'
  <2>1. vpn[r] = "probe" /\ UNCHANGED engine
    BY <1>9 DEF Establish, Step, eng
  <2>2. ~engine.live
    BY <1>t, <2>1 DEF Orderly, StartsAlone, Starting, StopUnderWay, Stopping,
      Clear, FlagClear, Calm, LiveTracked, StopJoining
  <2>3. QED
    BY <2>1, <2>2 DEF PresetKept
<1>10. ASSUME NEW r \in Run, Spawn(r) PROVE PresetKept'
  <2>1. UNCHANGED <<engine, tun, activePresetId, home>>
    BY <1>10 DEF Spawn, eng
  <2>2. \A w \in Switcher : sw[w] \notin {"stop", "join"}
    BY <1>10, <1>t DEF Spawn, Step, Orderly, StartsAlone, Starting, SwAlive
  <2>3. QED
    BY <1>t, <2>1, <2>2 DEF Calm, PresetKept
<1>11. ASSUME NEW w \in Switcher,
             Wake(w) \/ TestPassed(w) \/ Decide(w) \/ Assign(w) \/ ReadFd(w)
               \/ Nap(w)
      PROVE  PresetKept'
  BY <1>11, <1>t DEF Wake, Goto, TestPassed, Decide, Assign, ReadFd, Nap,
    fields, runs, switch, eng, TypeOK, Sessions, Orderly, OwnSwitchers,
    TunOwned, LoadedOwn, Clear, SwitchHasTun, Calm, SwitchOff, PresetKept
<1>12. ASSUME NEW w \in Switcher, SwitchStopTest(w) PROVE PresetKept'
  <2>1. UNCHANGED <<engine, tun, activePresetId, home>>
        /\ sw' = [sw EXCEPT ![w] = IF g_running THEN "join" ELSE "fd"]
    BY <1>12 DEF SwitchStopTest, Goto, eng, fields, runs
  <2>2. sw'[w] = "join" \/ sw'[w] = "fd"
    BY <1>t, <2>1 DEF TypeOK
  <2>3. SwitchOff'
    BY NextSwitchOff
  <2>4. QED
    BY <2>2, <2>3 DEF SwitchOff, PresetKept
<1>13. ASSUME NEW w \in Switcher, SwitchStopJoined(w) PROVE PresetKept'
  <2>1. sw'[w] = "fd"
    BY <1>13, <1>t DEF SwitchStopJoined, Goto, TypeOK
  <2>2. SwitchOff'
    BY NextSwitchOff
  <2>3. QED
    BY <2>1, <2>2 DEF SwitchOff, PresetKept
<1>14. ASSUME NEW w \in Switcher, Restart(w) PROVE PresetKept'
  <2>1. UNCHANGED <<tun, activePresetId, home>> /\ sw[w] = "start"
    BY <1>14 DEF Restart, Goto, fields, runs
  <2>2. ~engine.live
    BY <1>t, <2>1 DEF Calm, SwitchOff
  <2>3. swFd[w] = w[2]
    BY <1>t, <2>1 DEF Clear, SwitchHasTun, Orderly, TunOwned, OwnSwitchers,
      SwAlive, VpnAlive, TypeOK
  <2>4. CASE engine' = [live |-> TRUE, tun |-> swFd[w],
                        preset |-> activePresetId[Here(w)]]
    BY <2>1, <2>3, <2>4 DEF PresetKept, Here
  <2>5. CASE UNCHANGED engine
    BY <2>2, <2>5 DEF PresetKept
  <2>6. QED
    BY <1>14, <2>4, <2>5 DEF Restart, EngineStart, EngineStartFails, eng
<1>15. CASE EngineEnds \/ EngineFails
  BY <1>15, <1>t DEF EngineEnds, EngineFails, fields, runs, switch, eng,
    TypeOK, Sessions, Orderly, OwnSwitchers, TunOwned, LoadedOwn, Clear,
    SwitchHasTun, Calm, SwitchOff, PresetKept
<1>16. CASE UNCHANGED vars
  BY <1>1, <1>16 DEF vars, fields, runs, switch, eng
<1>17. QED
  BY <1>2, <1>3, <1>4, <1>5, <1>6, <1>7, <1>8, <1>9, <1>10, <1>11, <1>12,
    <1>13, <1>14, <1>15, <1>16 DEF Next, MainStep, RunStep, SwitchStep,
    StopStep

-----------------------------------------------------------------------------
(* The theorems.                                                           *)

\* Before the first START there is no instance, no thread and no TUN.
LEMMA InitIInv == Init => IInv
<1> SUFFICES ASSUME Init PROVE IInv
  OBVIOUS
<1>1. TypeOK
  <2>1. switches \in 0..MaxSwitches
    BY BoundsAssumption DEF Init
  <2>2. QED
    BY <2>1, UniversalTyped DEF Init, TypeOK, VpnStage, SwitchStage
<1>2. Sessions
  BY DEF Init, Sessions
<1>3. Orderly
  BY DEF Init, Orderly, SoleSession, OwnSwitchers, StartsAlone, TunOwned,
    LoadedOwn, ClosedFirst, VpnAlive, SwAlive, Starting
<1>4. Clear
  BY DEF Init, Clear, SwitchNotInStop, SwitchHasTun, FlagOwned, FlagClear,
    Loud, Switching
<1>5. Calm
  BY DEF Init, Calm, SoleSwitch, LiveTracked, LiveHasTun, SwitchOff,
    PresetKept, Switching
<1>6. QED
  BY <1>1, <1>2, <1>3, <1>4, <1>5 DEF IInv

\* Every step of the main thread, the sessions, their switching threads, the
\* stop threads and the engine keeps IInv.
LEMMA NextIInv == IInv /\ [Next]_vars => IInv'
<1> SUFFICES ASSUME IInv, [Next]_vars PROVE IInv'
  OBVIOUS
<1>1. TypeOK' /\ Sessions'
  BY NextTyped, NextSessions
<1>2. ASSUME (races \cap {"early", "restart"} = {})' PROVE Orderly'
  BY <1>2, NextSoleSession, NextOwnSwitchers, NextStartsAlone, NextTunOwned,
    NextLoadedOwn, NextClosedFirst DEF Orderly
<1>3. ASSUME (races \cap {"early", "restart", "switch"} = {})' PROVE Clear'
  BY <1>3, NextSwitchNotInStop, NextSwitchHasTun, NextFlagOwned,
    NextFlagClear, NextSilent DEF Clear
<1>4. ASSUME (races = {})' PROVE Calm'
  BY <1>4, NextSoleSwitch, NextLiveTracked, NextLiveHasTun, NextSwitchOff,
    NextPresetKept DEF Calm
<1>5. QED
  BY <1>1, <1>2, <1>3, <1>4 DEF IInv

\* IInv holds in every reachable state of the service.
THEOREM Invariance == Spec => []IInv
  BY InitIInv, NextIInv, PTL DEF Spec

\* Type correctness, for any number of sessions, switches and presets.
THEOREM TypeCorrect == Spec => []TypeOK
<1>1. IInv => TypeOK
  BY DEF IInv
<1>2. QED
  BY <1>1, Invariance, PTL

\* The program can always close the TUN that is open, until a session is
\* stopped while it starts or launched before the last one has ended.
THEOREM TunsReferenced == Spec => []TunReferenced
<1>1. IInv => TunReferenced
  BY DEF IInv, Orderly, TunOwned, TunReferenced
<1>2. QED
  BY <1>1, Invariance, PTL

\* A session is answered by an engine it has not started only after one of
\* the three races of SilentOnlyAfterRace, whatever else has met.
THEOREM SilentNeedsRace == Spec => []SilentOnlyAfterRace
<1>1. IInv => SilentOnlyAfterRace
  BY DEF IInv, Clear, Loud, SilentOnlyAfterRace
<1>2. QED
  BY <1>1, Invariance, PTL

\* The engine is not left working on a closed TUN.
THEOREM NotAbandoned == Spec => []EngineNotAbandoned
<1>1. IInv => EngineNotAbandoned
  BY DEF IInv, Calm, LiveHasTun, EngineNotAbandoned
<1>2. QED
  BY <1>1, Invariance, PTL

\* The engine runs the preset the service shows.
THEOREM PresetsApplied == Spec => []PresetApplied
<1>1. IInv => PresetApplied
  BY DEF IInv, Calm, PresetKept, PresetApplied, Switching
<1>2. QED
  BY <1>1, Invariance, PTL

\* When the threads of the sessions have ended, nothing is left behind.
THEOREM StopsClean == Spec => []CleanStop
<1>1. ASSUME IInv, races = {}, Quiet, main = "idle"
      PROVE  tun = {} /\ ~engine.live /\ ~g_running
  <2>1. TypeOK /\ Orderly /\ Clear /\ Calm
    BY <1>1 DEF IInv
  <2>2. ~StopUnderWay
    BY <1>1 DEF Quiet, StopUnderWay, VpnAlive
  <2>3. tun = {}
    BY <1>1, <2>1 DEF Quiet, VpnAlive, Orderly, TunOwned, TypeOK
  <2>4. ~g_running
    BY <1>1, <2>1, <2>2 DEF Quiet, Clear, FlagOwned
  <2>5. ~engine.live
    BY <1>1, <2>1, <2>4 DEF Quiet, Stopping, Calm, LiveTracked, StopJoining
  <2>6. QED
    BY <2>3, <2>4, <2>5
<1>2. IInv => CleanStop
  BY <1>1 DEF CleanStop
<1>3. QED
  BY <1>2, Invariance, PTL

=============================================================================
