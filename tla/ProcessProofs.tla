---------------------------- MODULE ProcessProofs ----------------------------
(***************************************************************************)
(* The two processes that look after other processes.                      *)
(*                                                                         *)
(* The main process, for any number of checks and ports: the state behind  *)
(* "quitting" is consistent, a boot that is overtaken by a quit starts     *)
(* nothing, and a cleanup that ends has dealt with the daemon.             *)
(*                                                                         *)
(* The Tendermint supervisor, for any number of node and monitor names: no *)
(* node is lost before the exit, and a hard reset prunes a running node    *)
(* only while _stopping is set.  Nothing is locked; what the proof rests   *)
(* on is that a handler past its join faces a monitor that has been told   *)
(* and can no longer stop or start a node.                                 *)
(***************************************************************************)
EXTENDS ElectronLifecycle, TendermintNode, TLAPS

-----------------------------------------------------------------------------
(* The inductive invariant.                                                *)

\* Quitting destroyed the windows, and a boot needs one to go on.
NoWindows == isBeforeQuitting => splash # "open" /\ main \notin {"open", "hidden"}

\* A cleanup past its kill leaves the daemon it knows neither starting nor serving.
DaemonDealtWith ==
  (cleanup \in {"next", "done"} /\ operateDaemon # NoDaemon)
    => daemon[operateDaemon] \notin {"starting", "serving"}

QuitIsDone == exited = "quit" => cleanup = "done"

IInv == TypeOK /\ NoWindows /\ DaemonDealtWith /\ QuitIsDone

DaemonStates == {"none", "starting", "serving", "stopping", "dead", "crashed"}

\* No daemon comes alive.
NoneRises == \A d \in Daemons :
  /\ daemon'[d] = "starting" => daemon[d] = "starting"
  /\ daemon'[d] = "serving" => daemon[d] \in {"starting", "serving"}

LEMMA DaemonNames ==
  /\ Checks \subseteq Daemons /\ Leftover \in Daemons /\ Leftover \notin Checks
  /\ NoDaemon \notin Checks
BY ChecksAreNamed DEF Daemons

LEMMA InitInv == Init => IInv
<1> SUFFICES ASSUME Init PROVE IInv
  OBVIOUS
<1>1. daemon \in [Daemons -> DaemonStates]
  BY DEF Init, DaemonStates
<1>2. 1 \in Ports
  BY MaxPortIsPositive DEF Ports
<1>3. isBeforeQuitting \in BOOLEAN /\ appRealClose \in BOOLEAN /\ ~isBeforeQuitting
  BY DEF Init
<1>4. TypeOK
  BY <1>1, <1>2, <1>3 DEF Init, TypeOK, CheckPCs, CleanupPCs, DaemonStates
<1> QED BY <1>4 DEF Init, IInv, NoWindows, DaemonDealtWith, QuitIsDone

-----------------------------------------------------------------------------
(* The parts the actions share.                                            *)

LEMMA StopRequestStep ==
  ASSUME TypeOK, StopRequestEnds
  PROVE  daemon' \in [Daemons -> DaemonStates] /\ NoneRises
BY DEF TypeOK, StopRequestEnds, NoneRises, DaemonStates

\* A step that keeps the ways out and the windows, and lets no daemon rise.
LEMMA QuietStep ==
  ASSUME IInv, UNCHANGED <<quitVars, splash, operateDaemon>>,
         main' \in {"null", "open", "hidden", "destroyed"},
         main' \in {"open", "hidden"} => main \in {"open", "hidden"} \/ splash = "open",
         check' \in [Checks -> CheckPCs], daemon' \in [Daemons -> DaemonStates], NoneRises,
         updater' \in {"idle", "killing", "installing"},
         nextPort' \in Ports, taken' \in SUBSET Ports
  PROVE  IInv'
<1>1. TypeOK'
  BY DEF IInv, TypeOK, quitVars, DaemonStates
<1>2. NoWindows'
  BY DEF IInv, NoWindows, quitVars
<1>3. DaemonDealtWith'
  <2>1. operateDaemon # NoDaemon => operateDaemon \in Daemons
    BY DaemonNames DEF IInv, TypeOK
  <2> QED BY <2>1 DEF IInv, DaemonDealtWith, NoneRises, quitVars
<1>4. QuitIsDone'
  BY DEF IInv, QuitIsDone, quitVars
<1> QED BY <1>1, <1>2, <1>3, <1>4 DEF IInv

\* beforeQuit, called first or again.
LEMMA CleanUpAndExitStep ==
  ASSUME IInv, CleanUpAndExit, check' \in [Checks -> CheckPCs],
         UNCHANGED <<daemon, operateDaemon, updater, ports>>
  PROVE  IInv'
<1>1. CASE ~isBeforeQuitting
  <2>1. /\ isBeforeQuitting' = TRUE /\ cleanup' = "shutdown"
        /\ splash' = IF splash = "null" THEN "null" ELSE "destroyed"
        /\ main' = IF main = "null" THEN "null" ELSE "destroyed"
        /\ UNCHANGED <<appRealClose, exited>>
    BY <1>1 DEF CleanUpAndExit, BeginCleanup
  <2>2. TypeOK'
    BY <2>1 DEF IInv, TypeOK, ports, CleanupPCs
  <2>3. cleanup = "idle"
    BY <1>1 DEF IInv, TypeOK
  <2> QED BY <2>1, <2>2, <2>3 DEF IInv, NoWindows, DaemonDealtWith, QuitIsDone
<1>2. CASE isBeforeQuitting
  <2>1. exited' = "cut" /\ UNCHANGED <<isBeforeQuitting, cleanup, windows, appRealClose>>
    BY <1>2 DEF CleanUpAndExit
  <2>2. TypeOK'
    BY <2>1 DEF IInv, TypeOK, ports, windows
  <2> QED BY <2>1, <2>2 DEF IInv, NoWindows, DaemonDealtWith, QuitIsDone, windows
<1> QED BY <1>1, <1>2

LEMMA TellSplashStep ==
  ASSUME TypeOK, NEW k \in Checks, NEW next \in CheckPCs, TellSplash(k, next)
  PROVE  /\ check' \in [Checks -> CheckPCs]
         /\ check'[k] = IF splash = "open" THEN next ELSE "failed"
BY DEF TypeOK, TellSplash, CheckPCs

-----------------------------------------------------------------------------
(* One step per action.                                                    *)

LEMMA BootInv ==
  ASSUME IInv, NEW k \in Checks,
         Check(k) \/ CheckThrows(k) \/ DaemonAnswers(k) \/ CheckStep(k)
  PROVE  IInv'
<1>0. TypeOK /\ k \in Daemons
  BY DaemonNames DEF IInv
<1>1. ASSUME UNCHANGED <<daemon, operateDaemon, windows, quitVars, updater, ports>>,
             check' \in [Checks -> CheckPCs]
      PROVE  IInv'
  <2>1. NoneRises /\ daemon' \in [Daemons -> DaemonStates]
    BY <1>0, <1>1 DEF NoneRises, TypeOK, DaemonStates
  <2> QED BY <1>0, <1>1, <2>1, QuietStep DEF TypeOK, windows, ports
<1>2. CASE Check(k)
  BY <1>0, <1>1, <1>2 DEF Check, TypeOK, CheckPCs
<1>3. CASE CheckThrows(k)
  BY <1>0, <1>1, <1>3 DEF CheckThrows, TypeOK, CheckPCs
<1>4. CASE SetUp(k)
  BY <1>0, <1>1, <1>4 DEF SetUp, TypeOK, CheckPCs
<1>5. CASE DaemonAnswers(k)
  <2>1. NoneRises /\ daemon' \in [Daemons -> DaemonStates]
    BY <1>0, <1>5 DEF DaemonAnswers, NoneRises, TypeOK, DaemonStates
  <2>2. check' \in [Checks -> CheckPCs]
    BY <1>0, <1>5, TellSplashStep DEF DaemonAnswers, CheckPCs
  <2> QED BY <1>0, <1>5, <2>1, <2>2, QuietStep DEF DaemonAnswers, TypeOK, windows, ports
<1>6. CASE ShutdownRequested(k)
  <2>1. check' \in [Checks -> CheckPCs]
    BY <1>0, <1>6 DEF ShutdownRequested, TypeOK, CheckPCs
  <2> QED
    BY <1>0, <1>6, <2>1, StopRequestStep, QuietStep
       DEF ShutdownRequested, TypeOK, windows, ports
<1>7. CASE LaunchDaemon(k)
  <2>1. check' \in [Checks -> CheckPCs]
    BY <1>0, <1>7, TellSplashStep DEF LaunchDaemon, CheckPCs
  <2>2. CASE check'[k] # "launch"
    BY <1>0, <1>7, <2>1, <2>2, StopRequestStep, QuietStep
       DEF LaunchDaemon, TypeOK, windows, ports
  <2>3. CASE check'[k] = "launch"
    <3>1. splash = "open" /\ ~isBeforeQuitting /\ cleanup = "idle"
      BY <1>0, <1>7, <2>3, TellSplashStep
         DEF LaunchDaemon, CheckPCs, IInv, NoWindows, TypeOK
    <3>2. operateDaemon' = k /\ daemon' \in [Daemons -> DaemonStates]
      BY <1>0, <1>7, <2>3 DEF LaunchDaemon, TypeOK, DaemonStates
    <3>3. UNCHANGED <<windows, quitVars, updater, ports>>
      BY <1>7 DEF LaunchDaemon
    <3>4. TypeOK'
      BY <1>0, <2>1, <3>2, <3>3 DEF TypeOK, DaemonStates, windows, quitVars, ports
    <3> QED
      BY <3>1, <3>3, <3>4
         DEF IInv, NoWindows, DaemonDealtWith, QuitIsDone, windows, quitVars
  <2> QED BY <2>2, <2>3
<1>8. CASE PortTested(k)
  <2>1. check' \in [Checks -> CheckPCs] /\ nextPort' \in Ports
    BY <1>0, <1>8 DEF PortTested, TypeOK, CheckPCs
  <2>2. NoneRises /\ daemon' \in [Daemons -> DaemonStates]
    BY <1>0, <1>8 DEF PortTested, NoneRises, TypeOK, DaemonStates
  <2> QED BY <1>0, <1>8, <2>1, <2>2, QuietStep DEF PortTested, TypeOK, windows
<1>9. CASE Listen(k)
  <2>1. check' \in [Checks -> CheckPCs]
        /\ check'[k] = IF splash = "open" THEN "shown" ELSE "failed"
    BY <1>0, <1>9, TellSplashStep DEF Listen, CheckPCs
  <2>2. NoneRises /\ daemon' \in [Daemons -> DaemonStates]
    BY <1>0, <1>9 DEF Listen, NoneRises, TypeOK, DaemonStates
  <2>3. main' \in {main, "open"} /\ (main' # main => splash = "open")
    BY <1>9, <2>1 DEF Listen
  <2>4. nextPort' \in Ports /\ taken' \in SUBSET Ports
    BY <1>0, <1>9 DEF Listen, TypeOK
  <2> QED BY <1>0, <1>9, <2>1, <2>2, <2>3, <2>4, QuietStep DEF Listen, TypeOK
<1>10. CASE ListenFails(k)
  <2>1. check' \in [Checks -> CheckPCs]
    BY <1>0, <1>10 DEF ListenFails, TypeOK, CheckPCs
  <2> QED BY <1>10, <2>1, CleanUpAndExitStep DEF ListenFails
<1> QED
  BY <1>2, <1>3, <1>4, <1>5, <1>6, <1>7, <1>8, <1>9, <1>10 DEF CheckStep

LEMMA CleanupInv ==
  ASSUME IInv, CleanupStep
  PROVE  IInv'
<1>0. TypeOK
  BY DEF IInv
<1>1. CASE CleanupShutdown
  <2>1. cleanup' = "kill" /\ cleanup = "shutdown" /\ daemon' \in [Daemons -> DaemonStates]
    BY <1>0, <1>1, StopRequestStep DEF CleanupShutdown
  <2>2. TypeOK'
    BY <1>0, <1>1, <2>1
       DEF CleanupShutdown, TypeOK, CleanupPCs, DaemonStates, windows, ports
  <2> QED
    BY <1>1, <2>1, <2>2
       DEF CleanupShutdown, IInv, NoWindows, DaemonDealtWith, QuitIsDone, windows
<1>2. CASE CleanupKill
  <2>1. /\ cleanup' = IF operateDaemon = NoDaemon THEN "next" ELSE "children"
        /\ cleanup = "kill" /\ daemon' \in [Daemons -> DaemonStates]
    BY <1>0, <1>2, StopRequestStep DEF CleanupKill
  <2>2. TypeOK'
    BY <1>0, <1>2, <2>1 DEF CleanupKill, TypeOK, CleanupPCs, DaemonStates, windows, ports
  <2> QED
    BY <1>2, <2>1, <2>2
       DEF CleanupKill, IInv, NoWindows, DaemonDealtWith, QuitIsDone, windows
<1>3. CASE CleanupKillsDaemon
  <2>1. cleanup' = "next" /\ cleanup = "children" /\ daemon' \in [Daemons -> DaemonStates]
    BY <1>0, <1>3 DEF CleanupKillsDaemon, TypeOK, DaemonStates
  <2>2. TypeOK'
    BY <1>0, <1>3, <2>1
       DEF CleanupKillsDaemon, TypeOK, CleanupPCs, DaemonStates, windows, ports
  <2>3. operateDaemon # NoDaemon => daemon'[operateDaemon] \notin {"starting", "serving"}
    <3>1. operateDaemon # NoDaemon => operateDaemon \in Daemons
      BY <1>0, DaemonNames DEF TypeOK
    <3> QED BY <1>0, <1>3, <3>1 DEF CleanupKillsDaemon, TypeOK, Alive
  <2> QED
    BY <1>3, <2>1, <2>2, <2>3
       DEF CleanupKillsDaemon, IInv, NoWindows, DaemonDealtWith, QuitIsDone, windows
<1>4. CASE CleanupEnds
  <2>1. cleanup' = "done" /\ cleanup = "next" /\ exited' = "quit"
    BY <1>4 DEF CleanupEnds
  <2>2. TypeOK'
    BY <1>0, <1>4, <2>1 DEF CleanupEnds, TypeOK, CleanupPCs, windows, ports
  <2> QED
    BY <1>4, <2>1, <2>2
       DEF CleanupEnds, IInv, NoWindows, DaemonDealtWith, QuitIsDone, windows
<1> QED BY <1>1, <1>2, <1>3, <1>4 DEF CleanupStep

LEMMA UserInv ==
  ASSUME IInv, UserStep
  PROVE  IInv'
<1>0. TypeOK
  BY DEF IInv
<1>1. ASSUME NEW k \in Checks, Check(k) PROVE IInv'
  BY <1>1, BootInv
<1>2. CASE Quit
  <2>1. CASE BeginCleanup /\ ~isBeforeQuitting /\ UNCHANGED exited
    <3>1. CleanUpAndExit
      BY <1>2, <2>1 DEF Quit, CleanUpAndExit
    <3> QED BY <1>0, <1>2, <3>1, CleanUpAndExitStep DEF Quit, TypeOK
  <2>2. CASE exited' = "update" /\ UNCHANGED <<isBeforeQuitting, cleanup, windows>>
    <3>1. TypeOK'
      BY <1>0, <1>2, <2>2 DEF Quit, TypeOK, windows, ports
    <3> QED
      BY <1>2, <2>2, <3>1
         DEF Quit, IInv, NoWindows, DaemonDealtWith, QuitIsDone, windows
  <2> QED BY <1>2, <2>1, <2>2 DEF Quit
<1>3. CASE Signal
  BY <1>0, <1>3, CleanUpAndExitStep DEF Signal, TypeOK
<1>4. ASSUME UNCHANGED <<check, daemon, operateDaemon, quitVars, ports>>,
             splash' \in {splash, "null"}, main' \in {main, "open", "hidden"},
             main' # main => main \in {"open", "hidden"},
             updater' \in {"idle", "killing", "installing"}
      PROVE  IInv'
  <2>1. TypeOK'
    BY <1>0, <1>4 DEF TypeOK, quitVars, ports
  <2>2. NoWindows'
    BY <1>4 DEF IInv, NoWindows, quitVars
  <2> QED BY <1>4, <2>1, <2>2 DEF IInv, DaemonDealtWith, QuitIsDone, quitVars
<1>5. CASE SecondInstance
  <2>1. CASE UseDestroyed
    BY <1>0, <2>1, CleanUpAndExitStep DEF UseDestroyed, TypeOK
  <2>2. CASE ~UseDestroyed
    BY <1>0, <1>4, <1>5, <2>2 DEF SecondInstance, TypeOK
  <2> QED BY <2>1, <2>2
<1>6. CASE AppLoaded
  BY <1>0, <1>4, <1>6 DEF AppLoaded, TypeOK
<1>7. CASE CloseApp
  BY <1>0, <1>4, <1>7 DEF CloseApp, TypeOK
<1>8. CASE QuitAndInstall
  BY <1>0, <1>4, <1>8 DEF QuitAndInstall, TypeOK, windows
<1> QED BY <1>1, <1>2, <1>3, <1>5, <1>6, <1>7, <1>8 DEF UserStep

LEMMA NextInv ==
  ASSUME IInv, [Next]_vars
  PROVE  IInv'
<1>0. TypeOK
  BY DEF IInv
<1>1. ASSUME NEW k \in Checks, CheckStep(k) \/ CheckThrows(k) \/ DaemonAnswers(k)
      PROVE  IInv'
  BY <1>1, BootInv
<1>2. ASSUME NEW d \in Daemons, DaemonStops(d) \/ DaemonCrashes(d) PROVE IInv'
  <2>1. NoneRises /\ daemon' \in [Daemons -> DaemonStates]
    BY <1>0, <1>2 DEF DaemonStops, DaemonCrashes, NoneRises, TypeOK, DaemonStates
  <2>2. UNCHANGED <<check, operateDaemon, windows, quitVars, updater, ports>>
    BY <1>2 DEF DaemonStops, DaemonCrashes
  <2> QED BY <1>0, <2>1, <2>2, QuietStep DEF TypeOK, windows, ports
<1>3. ASSUME UNCHANGED <<check, daemon, operateDaemon, windows, isBeforeQuitting, cleanup,
                         ports>>,
             appRealClose' \in BOOLEAN, exited' \in {exited, "update"},
             updater' \in {"idle", "killing", "installing"}
      PROVE  IInv'
  <2>1. TypeOK'
    BY <1>0, <1>3 DEF TypeOK, windows, ports
  <2> QED BY <1>3, <2>1 DEF IInv, NoWindows, DaemonDealtWith, QuitIsDone, windows
<1>4. CASE ChildrenKilled
  BY <1>0, <1>3, <1>4 DEF ChildrenKilled, TypeOK
<1>5. CASE Installs
  BY <1>0, <1>3, <1>5 DEF Installs, TypeOK
<1>6. CASE UNCHANGED vars
  BY <1>0, <1>3, <1>6 DEF vars, TypeOK, windows, ports
<1> QED BY <1>1, <1>2, <1>4, <1>5, <1>6, UserInv, CleanupInv DEF Next

LEMMA Invariance == Spec => []IInv
<1>1. IInv /\ [Next]_vars => IInv'
  BY NextInv
<1> QED BY InitInv, <1>1, PTL DEF Spec

-----------------------------------------------------------------------------
(* The theorems.                                                           *)

\* TypeOK for any number of checks and ports: among others, the app is quitting
\* exactly while a cleanup is under way or over, so that none is begun twice.
THEOREM TypeCorrect == Spec => []TypeOK
<1>1. IInv => TypeOK
  BY DEF IInv
<1> QED BY Invariance, <1>1, PTL

\* QuitLeavesNoDaemon for any number of overlapping boots: beforeQuit, when it
\* comes to its end, has stopped the daemon that was launched last.
THEOREM DaemonStopped == Spec => []QuitLeavesNoDaemon
<1>1. IInv => QuitLeavesNoDaemon
  BY DEF IInv, QuitIsDone, DaemonDealtWith, QuitLeavesNoDaemon
<1> QED BY Invariance, <1>1, PTL

\* No daemon is spawned and no window opened.
StartsNothing ==
  /\ \A d \in Daemons : daemon'[d] = "starting" => daemon[d] = "starting"
  /\ main' = "open" => main = "open"

LEMMA StepStartsNothing ==
  ASSUME IInv, [Next]_vars, isBeforeQuitting
  PROVE  StartsNothing
<1>0. TypeOK /\ splash # "open" /\ main \notin {"open", "hidden"}
  BY DEF IInv, NoWindows
<1>1. ASSUME UNCHANGED <<daemon, main>> PROVE StartsNothing
  BY <1>1 DEF StartsNothing
<1>2. ASSUME StopRequestEnds, UNCHANGED main PROVE StartsNothing
  BY <1>0, <1>2, StopRequestStep DEF NoneRises, StartsNothing
<1>3. ASSUME CleanUpAndExit, UNCHANGED daemon PROVE StartsNothing
  BY <1>1, <1>3 DEF CleanUpAndExit, windows
<1>4. ASSUME NEW k \in Checks, CheckStep(k) \/ CheckThrows(k) \/ DaemonAnswers(k)
      PROVE  StartsNothing
  <2>1. CASE LaunchDaemon(k)
    <3>1. check'[k] = "failed"
      BY <1>0, <2>1, TellSplashStep DEF LaunchDaemon, CheckPCs
    <3> QED BY <1>2, <2>1, <3>1 DEF LaunchDaemon, windows
  <2>2. CASE Listen(k)
    <3>1. check'[k] = "failed"
      BY <1>0, <2>2, TellSplashStep DEF Listen, CheckPCs
    <3> QED BY <1>1, <2>2, <3>1 DEF Listen
  <2>3. CASE DaemonAnswers(k)
    BY <1>0, <2>3, DaemonNames DEF DaemonAnswers, windows, StartsNothing, TypeOK
  <2>4. CASE ShutdownRequested(k)
    BY <1>2, <2>4 DEF ShutdownRequested, windows
  <2>5. CASE ListenFails(k)
    BY <1>3, <2>5 DEF ListenFails
  <2>6. CASE SetUp(k) \/ CheckThrows(k) \/ PortTested(k)
    BY <1>1, <2>6 DEF SetUp, CheckThrows, PortTested, windows
  <2> QED BY <1>4, <2>1, <2>2, <2>3, <2>4, <2>5, <2>6 DEF CheckStep
<1>5. CASE UserStep
  <2>1. CASE SecondInstance
    BY <1>0, <1>3, <2>1 DEF SecondInstance, UseDestroyed
  <2>2. CASE Signal
    BY <1>3, <2>2 DEF Signal
  <2>3. CASE Quit
    BY <1>1, <2>3 DEF Quit, windows
  <2>4. CASE ~(SecondInstance \/ Signal \/ Quit)
    BY <1>0, <1>1, <1>5, <2>4
       DEF UserStep, Check, AppLoaded, CloseApp, QuitAndInstall, windows
  <2> QED BY <2>1, <2>2, <2>3, <2>4
<1>6. ASSUME NEW d \in Daemons, DaemonStops(d) \/ DaemonCrashes(d) PROVE StartsNothing
  BY <1>0, <1>6 DEF DaemonStops, DaemonCrashes, windows, StartsNothing, TypeOK
<1>7. CASE CleanupStep
  <2>1. CASE CleanupKillsDaemon
    BY <1>0, <2>1, DaemonNames DEF CleanupKillsDaemon, windows, StartsNothing, TypeOK
  <2> QED
    BY <1>1, <1>2, <1>7, <2>1
       DEF CleanupStep, CleanupShutdown, CleanupKill, CleanupEnds, windows
<1>8. CASE ChildrenKilled \/ Installs \/ UNCHANGED vars
  BY <1>1, <1>8 DEF ChildrenKilled, Installs, vars, windows
<1> QED BY <1>4, <1>5, <1>6, <1>7, <1>8 DEF Next

\* QuittingStartsNothing for any number of overlapping boots: whatever await of
\* its boot the quit overtakes, nothing is started behind it.
THEOREM BootsAreOvertaken == Spec => QuittingStartsNothing
<1>1. IInv /\ [Next]_vars
      => [isBeforeQuitting =>
            /\ \A d \in Daemons : daemon'[d] = "starting" => daemon[d] = "starting"
            /\ main' = "open" => main = "open"]_vars
  BY StepStartsNothing DEF StartsNothing
<1> QED BY Invariance, <1>1, PTL DEF Spec, QuittingStartsNothing

-----------------------------------------------------------------------------
(* The Tendermint supervisor.                                              *)


\* The agent's request before it starts the node again.
Pre == {"event", "join", "prune"} \cup StopStages

\* Until the exit is asked for, and while a reset begun before it goes on.
Calm == ~onExit \/ pc[Agent] \in Pre

PastJoin ==
  StopStages \cup StartStages \cup {"prune", "monitor", "answered", "failed"}

\* A monitor that stops and starts nothing.
Harmless == {"loop", "reading", "trigger", "ended"}

OneMonitor == \A m \in Monitors : m # monitoring => pc[m] = "ended"

Told ==
  \A h \in Handlers :
    /\ pc[h] = "join" => at[h] = monitoring /\ monitoring \in told
    /\ pc[h] \in PastJoin => monitoring \in told /\ pc[monitoring] \in Harmless

NodeKnown ==
  /\ alive \subseteq {process}
  /\ \A t \in Threads :
       /\ pc[t] = "wait_again" => process \in {at[t], None}
       /\ pc[t] = "popen" => process = None

CalmInv == Calm => OneMonitor /\ Told /\ NodeKnown

\* Who can be where: Pearl starts nothing, and nothing before the exit.
Places ==
  /\ pc[Agent] \notin Harmless \cup {"answered", "failed"}
  /\ pc[Pearl] \notin Harmless \cup StartStages \cup {"prune", "monitor"}
  /\ \A m \in Monitors :
       pc[m] \in Harmless \cup StopStages \cup StartStages \cup {"killed"}
  /\ ~onExit => pc[Pearl] = "idle" /\ pc[Agent] # "killed"
  /\ pc[Agent] = "killed" => pc[Pearl] = "killed"

Inv == SupervisorTypeOK /\ Places /\ CalmInv /\ PruneOnlyStopped

LEMMA SupervisorInitInv == SupervisorInit => Inv
<1> SUFFICES ASSUME SupervisorInit PROVE Inv
  OBVIOUS
<1>1. SupervisorTypeOK
  BY ThreadsAssumption DEF SupervisorInit, SupervisorTypeOK, Threads, Handlers, Stages
<1>2. \A m \in Monitors : pc[m] \in {"loop", "ended"} /\ (m # monitoring => pc[m] = "ended")
  BY ThreadsAssumption DEF SupervisorInit, Threads, Handlers
<1>3. pc[Agent] = "idle" /\ pc[Pearl] = "idle"
  BY ThreadsAssumption DEF SupervisorInit, Threads, Handlers
<1>4. Places
  BY <1>2, <1>3 DEF Places, Harmless, StartStages
<1>5. CalmInv
  BY <1>2, <1>3 DEF CalmInv, OneMonitor, Told, NodeKnown, SupervisorInit, PastJoin, StopStages,
     StartStages, Threads, Handlers
<1>6. PruneOnlyStopped
  BY <1>3 DEF PruneOnlyStopped
<1> QED BY <1>1, <1>4, <1>5, <1>6 DEF Inv

LEMMA TypeStep == SupervisorTypeOK /\ [SupervisorNext]_supervisorVars => SupervisorTypeOK'
<1> SUFFICES ASSUME SupervisorTypeOK, [SupervisorNext]_supervisorVars PROVE SupervisorTypeOK'
  OBVIOUS
<1> USE ThreadsAssumption DEF SupervisorTypeOK, Goto, AwaitAt, Raise, AfterStop, AfterRaise,
    AfterStart, Stages, StopStages, StartStages
<1>0. Agent \in Threads /\ Pearl \in Threads /\ Handlers \subseteq Threads /\ Monitors \subseteq Threads
  BY DEF Threads, Handlers
<1>1. CASE AskReset BY <1>0, <1>1 DEF AskReset
<1>2. CASE AskExit BY <1>0, <1>2 DEF AskExit
<1>3. CASE Prune BY <1>0, <1>3 DEF Prune
<1>4. CASE StartMonitor BY <1>0, <1>4 DEF StartMonitor
<1>5. CASE KillServer BY <1>0, <1>5 DEF KillServer
<1>6. CASE NodeDies BY <1>6 DEF NodeDies
<1>7. ASSUME NEW h \in Handlers, TellMonitor(h) \/ JoinEnds(h) PROVE SupervisorTypeOK'
  BY <1>0, <1>7 DEF TellMonitor, JoinEnds
<1>8. ASSUME NEW t \in Threads, StopStep(t) PROVE SupervisorTypeOK'
  <2>1. CASE StopCheck(t) BY <2>1 DEF StopCheck
  <2>2. CASE StopSignal(t) BY <2>2 DEF StopSignal
  <2>3. CASE StopWaited(t) BY <2>3 DEF StopWaited
  <2>4. CASE StopPoll(t) BY <2>4 DEF StopPoll, StopDone
  <2>5. CASE StopWaitedAgain(t) BY <2>5 DEF StopWaitedAgain, StopDone
  <2> QED BY <1>8, <2>1, <2>2, <2>3, <2>4, <2>5 DEF StopStep
<1>9. ASSUME NEW t \in Threads, StartStep(t) PROVE SupervisorTypeOK'
  BY <1>9 DEF StartStep, StartCheck, Popen
<1>10. ASSUME NEW m \in Monitors, Loop(m) \/ Trigger(m) \/ ReadLine(m) PROVE SupervisorTypeOK'
  BY <1>0, <1>10 DEF Loop, Trigger, ReadLine
<1>11. CASE UNCHANGED supervisorVars BY <1>11 DEF supervisorVars
<1> QED
  BY <1>0, <1>1, <1>2, <1>3, <1>4, <1>5, <1>6, <1>7, <1>8, <1>9, <1>10, <1>11
  DEF SupervisorNext, HandlerStep, MonitorStep

LEMMA PlacesStep == SupervisorTypeOK /\ Places /\ [SupervisorNext]_supervisorVars => Places'
<1> SUFFICES ASSUME SupervisorTypeOK, Places, [SupervisorNext]_supervisorVars PROVE Places'
  OBVIOUS
<1> USE ThreadsAssumption DEF SupervisorTypeOK, Places, Goto, AwaitAt, Raise, AfterStop,
    AfterRaise, AfterStart, Harmless, StopStages, StartStages
<1>0. Agent \in Threads /\ Pearl \in Threads /\ Monitors \subseteq Threads
      /\ Threads = {Agent, Pearl} \cup Monitors /\ Agent \notin Monitors /\ Pearl \notin Monitors
  BY DEF Threads, Handlers
<1>1. CASE AskReset BY <1>0, <1>1 DEF AskReset
<1>2. CASE AskExit BY <1>0, <1>2 DEF AskExit
<1>3. CASE Prune BY <1>0, <1>3 DEF Prune
<1>4. CASE StartMonitor BY <1>0, <1>4 DEF StartMonitor
<1>5. CASE KillServer BY <1>0, <1>5 DEF KillServer
<1>6. CASE NodeDies BY <1>6 DEF NodeDies
<1>7. ASSUME NEW h \in Handlers, TellMonitor(h) \/ JoinEnds(h) PROVE Places'
  BY <1>0, <1>7 DEF TellMonitor, JoinEnds, Handlers
<1>8. ASSUME NEW t \in Threads, StopStep(t) PROVE Places'
  <2>1. CASE StopCheck(t) BY <1>0, <2>1 DEF StopCheck
  <2>2. CASE StopSignal(t) BY <1>0, <2>2 DEF StopSignal
  <2>3. CASE StopWaited(t) BY <1>0, <2>3 DEF StopWaited
  <2>4. CASE StopPoll(t) BY <1>0, <2>4 DEF StopPoll, StopDone
  <2>5. CASE StopWaitedAgain(t) BY <1>0, <2>5 DEF StopWaitedAgain, StopDone
  <2> QED BY <1>8, <2>1, <2>2, <2>3, <2>4, <2>5 DEF StopStep
<1>9. ASSUME NEW t \in {Agent} \cup Monitors, StartStep(t) PROVE Places'
  BY <1>0, <1>9 DEF StartStep, StartCheck, Popen
<1>10. ASSUME NEW m \in Monitors, Loop(m) \/ Trigger(m) \/ ReadLine(m) PROVE Places'
  BY <1>0, <1>10 DEF Loop, Trigger, ReadLine
<1>11. CASE UNCHANGED supervisorVars BY <1>11 DEF supervisorVars
<1> QED
  BY <1>0, <1>1, <1>2, <1>3, <1>4, <1>5, <1>6, <1>7, <1>8, <1>9, <1>10, <1>11
  DEF SupervisorNext, HandlerStep, MonitorStep, Handlers

\* A step that ends in calm began in it.
LEMMA CalmBefore == SupervisorTypeOK /\ Places /\ [SupervisorNext]_supervisorVars /\ Calm' => Calm
<1> SUFFICES ASSUME SupervisorTypeOK, Places, [SupervisorNext]_supervisorVars, Calm', ~Calm PROVE FALSE
  OBVIOUS
<1>1. onExit /\ onExit' /\ pc'[Agent] \in Pre /\ pc[Agent] \notin Pre
  <2>1. onExit /\ pc[Agent] \notin Pre
    BY DEF Calm
  <2>2. onExit'
    BY <2>1 DEF SupervisorNext, supervisorVars, AskReset, AskExit, Prune, StartMonitor, KillServer, NodeDies,
       HandlerStep, StopStep, StartStep, MonitorStep, ReadLine, TellMonitor, JoinEnds,
       StopCheck, StopSignal, StopWaited, StopPoll, StopWaitedAgain, StartCheck, Popen,
       Loop, Trigger
  <2> QED BY <2>1, <2>2 DEF Calm
<1>2. Agent \in Threads /\ Pearl \in Threads /\ Monitors \subseteq Threads
      /\ Agent \notin Monitors /\ Pearl \notin Monitors /\ Pearl # Agent
  BY ThreadsAssumption DEF Threads, Handlers
<1> USE DEF SupervisorTypeOK, Pre, StopStages, StartStages, Goto, Raise, AfterStop, AfterRaise, AfterStart
<1>3. ~AskReset /\ ~AskExit /\ ~Prune /\ ~StartMonitor /\ ~KillServer /\ ~NodeDies
  BY <1>1, <1>2 DEF AskReset, AskExit, Prune, StartMonitor, KillServer, NodeDies
<1>4. ASSUME NEW h \in Handlers PROVE ~(TellMonitor(h) \/ JoinEnds(h))
  BY <1>1, <1>2 DEF TellMonitor, JoinEnds, Handlers
<1>5. ASSUME NEW t \in Threads PROVE ~StopStep(t)
  BY <1>1, <1>2 DEF StopStep, StopCheck, StopSignal, StopWaited, StopPoll,
     StopWaitedAgain, StopDone
<1>6. ASSUME NEW t \in Threads PROVE ~StartStep(t)
  BY <1>1, <1>2 DEF StartStep, StartCheck, Popen
<1>7. ASSUME NEW m \in Monitors PROVE ~(Loop(m) \/ Trigger(m) \/ ReadLine(m))
  BY <1>1, <1>2 DEF Loop, Trigger, ReadLine
<1>8. pc' # pc
  BY <1>1
<1> QED
  BY <1>2, <1>3, <1>4, <1>5, <1>6, <1>7, <1>8 DEF SupervisorNext, HandlerStep, MonitorStep, supervisorVars,
     Handlers, Threads
\* Where a stop leaves its thread, and that it found its node dead.
LEMMA StopStepDoes ==
  ASSUME SupervisorTypeOK, Places, NodeKnown, NEW t \in Threads, StopStep(t)
  PROVE  /\ \A u \in Threads \ {t} : pc'[u] = pc[u] /\ at'[u] = at[u]
         /\ pc[t] \in StopStages
         /\ UNCHANGED <<monitoring, told, onExit, alive, hard>>
         /\ pc'[t] # "popen" /\ (t \in Monitors => pc'[t] \in Harmless \cup StopStages \cup StartStages)
         /\ process' = process \/ (process' = None /\ alive = {})
         /\ pc'[t] = "wait_again" => process' = at'[t]
         /\ pc'[t] = "prune" => alive = {} \/ stopping'
         /\ stopping /\ ~stopping' => alive = {}
<1> USE DEF SupervisorTypeOK, Places, Goto, AwaitAt, Raise, AfterStop, AfterRaise, StopStages,
    StartStages, Harmless
<1>0. Agent \notin Monitors /\ Pearl \notin Monitors /\ Pearl # Agent
      /\ Threads = {Agent, Pearl} \cup Monitors
      /\ None \notin Nodes /\ alive \subseteq {process} /\ alive \subseteq Nodes
      /\ (pc[t] = "wait_again" => process \in {at[t], None})
  BY ThreadsAssumption DEF Threads, Handlers, NodeKnown
<1>1. CASE StopCheck(t) BY <1>0, <1>1 DEF StopCheck
<1>2. CASE StopSignal(t) BY <1>0, <1>2 DEF StopSignal
<1>3. CASE StopWaited(t) BY <1>0, <1>3 DEF StopWaited
<1>4. CASE StopPoll(t) BY <1>0, <1>4 DEF StopPoll, StopDone
<1>5. CASE StopWaitedAgain(t) BY <1>0, <1>5 DEF StopWaitedAgain, StopDone
<1> QED BY <1>1, <1>2, <1>3, <1>4, <1>5 DEF StopStep

\* While the monitor stops or starts the node, no handler is past its join.
LEMMA CalmStep == SupervisorTypeOK /\ Places /\ CalmInv /\ [SupervisorNext]_supervisorVars => CalmInv'
<1> SUFFICES ASSUME SupervisorTypeOK, Places, CalmInv, [SupervisorNext]_supervisorVars, Calm'
             PROVE  OneMonitor' /\ Told' /\ NodeKnown'
  BY DEF CalmInv
<1>a. Calm
  BY CalmBefore
<1>b. OneMonitor /\ Told /\ NodeKnown
  BY <1>a DEF CalmInv
<1>c. Agent \in Threads /\ Pearl \in Threads /\ Monitors \subseteq Threads
      /\ Threads = {Agent, Pearl} \cup Monitors /\ Agent \notin Monitors
      /\ Pearl \notin Monitors /\ Pearl # Agent /\ Handlers = {Agent, Pearl}
      /\ None \notin Nodes
  BY ThreadsAssumption DEF Threads, Handlers
<1> DEFINE Goal == OneMonitor' /\ Told' /\ NodeKnown'
<1> USE DEF SupervisorTypeOK, Places, OneMonitor, Told, NodeKnown, Goto, AwaitAt, PastJoin,
    Harmless, StopStages, StartStages
<1>1. CASE AskReset BY <1>b, <1>c, <1>1 DEF AskReset
<1>2. CASE AskExit BY <1>b, <1>c, <1>2 DEF AskExit
<1>3. CASE Prune BY <1>b, <1>c, <1>3 DEF Prune
<1>4. CASE StartMonitor
  <2>1. ~onExit /\ pc[Pearl] = "idle"
    BY <1>a, <1>4, <1>c DEF StartMonitor, Calm, Pre
  <2> QED BY <1>b, <1>c, <1>4, <2>1 DEF StartMonitor
<1>5. CASE KillServer
  <2>1. onExit /\ pc'[Agent] = "killed" /\ onExit'
    BY <1>5, <1>c DEF KillServer
  <2> QED BY <2>1 DEF Calm, Pre
<1>6. CASE NodeDies BY <1>b, <1>6 DEF NodeDies
<1>7. ASSUME NEW h \in Handlers, TellMonitor(h) PROVE Goal
  BY <1>b, <1>c, <1>7 DEF TellMonitor
<1>8. ASSUME NEW h \in Handlers, JoinEnds(h) PROVE Goal
  BY <1>b, <1>c, <1>8 DEF JoinEnds
<1>9. ASSUME NEW t \in Threads, StopStep(t) PROVE Goal
  <2>1. OneMonitor'
    BY <1>b, <1>c, <1>9, StopStepDoes
  <2>2. \A h \in Handlers : pc'[h] = "join" => at'[h] = monitoring' /\ monitoring' \in told'
    <3>1. ASSUME t \in Handlers PROVE pc'[t] # "join"
      BY <1>c, <1>9, <3>1 DEF StopStep, StopCheck, StopSignal, StopWaited, StopPoll,
         StopWaitedAgain, StopDone, Raise, AfterStop, AfterRaise
    <3> QED BY <1>b, <1>c, <1>9, <3>1, StopStepDoes
  <2>3. \A h \in Handlers : pc'[h] \in PastJoin =>
          monitoring' \in told' /\ pc'[monitoring] \in Harmless
    BY <1>b, <1>c, <1>9, StopStepDoes
  <2>4. NodeKnown'
    BY <1>b, <1>c, <1>9, StopStepDoes
  <2> QED BY <1>9, <1>b, <2>1, <2>2, <2>3, <2>4, StopStepDoes
<1>10. ASSUME NEW t \in {Agent} \cup Monitors, StartStep(t) PROVE Goal
  <2>1. t = Agent => ~onExit /\ pc[Pearl] = "idle"
    BY <1>a, <1>10, <1>c DEF StartStep, StartCheck, Popen, Calm, Pre
  <2>2. CASE StartCheck(t)
    BY <1>b, <1>c, <1>10, <2>1, <2>2 DEF StartCheck, AfterStart
  <2>3. CASE Popen(t)
    <3>1. alive = {} /\ process = None
      BY <1>b, <1>c, <2>3 DEF Popen
    <3>2. \A u \in Threads : u # t => pc[u] # "wait_again" /\ pc[u] # "popen"
      BY <1>b, <1>c, <2>1, <2>3 DEF Popen
    <3>3. NodeKnown'
      BY <1>c, <2>3, <3>1, <3>2 DEF Popen, AfterStart
    <3>4. OneMonitor' /\ Told'
      BY <1>b, <1>c, <2>1, <2>3 DEF Popen, AfterStart
    <3> QED BY <3>3, <3>4
  <2> QED BY <1>10, <2>2, <2>3 DEF StartStep
<1>11. ASSUME NEW m \in Monitors, Loop(m) \/ Trigger(m) \/ ReadLine(m) PROVE Goal
  BY <1>b, <1>c, <1>11 DEF Loop, Trigger, ReadLine
<1>12. CASE UNCHANGED supervisorVars BY <1>b, <1>12 DEF supervisorVars
<1> QED
  BY <1>c, <1>1, <1>2, <1>3, <1>4, <1>5, <1>6, <1>7, <1>8, <1>9, <1>10, <1>11, <1>12
  DEF SupervisorNext, HandlerStep, MonitorStep

LEMMA PruneStep == Inv /\ [SupervisorNext]_supervisorVars => PruneOnlyStopped'
<1> SUFFICES ASSUME Inv, [SupervisorNext]_supervisorVars, pc'[Agent] = "prune" PROVE (alive = {} \/ stopping)'
  BY DEF PruneOnlyStopped
<1>a. Calm
  BY CalmBefore DEF Inv, Calm, Pre
<1>b. NodeKnown
  BY <1>a DEF Inv, CalmInv
<1>c. Agent \in Threads /\ Pearl \in Threads /\ Monitors \subseteq Threads
      /\ Agent \notin Monitors /\ Pearl # Agent /\ Handlers = {Agent, Pearl}
  BY ThreadsAssumption DEF Threads, Handlers
<1> USE DEF Inv, SupervisorTypeOK, Places, PruneOnlyStopped, Goto, Harmless, StopStages, StartStages
<1>1. CASE AskReset \/ AskExit \/ Prune \/ StartMonitor \/ KillServer
  BY <1>c, <1>1 DEF AskReset, AskExit, Prune, StartMonitor, KillServer
<1>2. CASE NodeDies BY <1>2 DEF NodeDies
<1>3. ASSUME NEW h \in Handlers, TellMonitor(h) \/ JoinEnds(h)
      PROVE  (alive = {} \/ stopping)'
  BY <1>c, <1>3 DEF TellMonitor, JoinEnds
<1>4. ASSUME NEW t \in Threads, StopStep(t) PROVE (alive = {} \/ stopping)'
  BY <1>b, <1>c, <1>4, StopStepDoes
<1>5. ASSUME NEW t \in {Agent} \cup Monitors, StartStep(t)
      PROVE  (alive = {} \/ stopping)'
  <2>1. CASE StartCheck(t) BY <1>c, <1>5, <2>1 DEF StartCheck, AfterStart
  <2>2. CASE Popen(t)
    <3>1. t # Agent /\ pc[Agent] = "prune"
      BY <1>c, <2>2 DEF Popen, AfterStart
    <3>2. pc[t] \in Harmless
      BY <1>a, <1>c, <3>1 DEF CalmInv, Told, OneMonitor, PastJoin
    <3> QED BY <2>2, <3>2 DEF Popen
  <2> QED BY <1>5, <2>1, <2>2 DEF StartStep
<1>6. ASSUME NEW m \in Monitors, Loop(m) \/ Trigger(m) \/ ReadLine(m)
      PROVE  (alive = {} \/ stopping)'
  BY <1>c, <1>6 DEF Loop, Trigger, ReadLine
<1>7. CASE UNCHANGED supervisorVars BY <1>7 DEF supervisorVars
<1> QED
  BY <1>c, <1>1, <1>2, <1>3, <1>4, <1>5, <1>6, <1>7
  DEF SupervisorNext, HandlerStep, MonitorStep

THEOREM InvHolds == SupervisorSpec => []Inv
<1>1. Inv /\ [SupervisorNext]_supervisorVars => Inv'
  BY TypeStep, PlacesStep, CalmStep, PruneStep DEF Inv
<1> QED BY SupervisorInitInv, <1>1, PTL DEF SupervisorSpec

(* The fields hold what their types say, whatever the threads interleave.  *)
THEOREM SupervisorTypeCorrect == SupervisorSpec => []SupervisorTypeOK
<1>1. Inv => SupervisorTypeOK
  BY DEF Inv
<1> QED BY InvHolds, <1>1, PTL

(* Before the exit the only node that runs is the one in _process.         *)
THEOREM NodeNotLost == SupervisorSpec => []NoNodeIsLost
<1>1. Inv => NoNodeIsLost
  BY DEF Inv, NoNodeIsLost, CalmInv, Calm, NodeKnown
<1> QED BY InvHolds, <1>1, PTL

(* unsafe-reset-all runs beside a node only while _stopping is set.        *)
THEOREM PruneIsSafe == SupervisorSpec => []PruneOnlyStopped
<1>1. Inv => PruneOnlyStopped
  BY DEF Inv
<1> QED BY InvHolds, <1>1, PTL
=============================================================================
