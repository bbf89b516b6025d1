-------------------------- MODULE ElectronLifecycle --------------------------
(***************************************************************************)
(* The Electron main process (electron/main.js): the boot sequence behind  *)
(* the splash window's "check" message, the backend daemon it spawns, and  *)
(* every way out - quit, signals, uncaught exceptions, and the updater's   *)
(* quit-and-install (autoUpdater.js).                                      *)
(*                                                                         *)
(* A step is what the main process runs between two awaits.  The splash    *)
(* page may be reloaded while it boots, so checks overlap.  Each check     *)
(* spawns at most one daemon, so a daemon is named by its check; Leftover  *)
(* is one that outlived an earlier launch.  How a request to the backend   *)
(* ends, and what a daemon does by itself, are chosen freely.              *)
(***************************************************************************)
EXTENDS Naturals, FiniteSets

CONSTANTS
  Checks,    \* the "check" messages the splash window may send
  Leftover,  \* a daemon left running by an earlier launch
  NoDaemon,     \* null
  MaxPort,   \* the last port findAvailablePort tries; the default one is 1
  Signals    \* whether the process may also receive SIGINT or SIGTERM

ASSUME ChecksAreNamed == Leftover \notin Checks /\ NoDaemon \notin Checks \cup {Leftover}
ASSUME MaxPortIsPositive == MaxPort \in Nat \ {0}
ASSUME SignalsIsBoolean == Signals \in BOOLEAN

VARIABLES
  check,            \* the await each check handler is suspended at
  daemon,           \* the daemon processes
  operateDaemon,    \* the one main.js refers to (with operateDaemonPid)
  splash, main,     \* splashWindow and mainWindow; destroyed is not null
  isBeforeQuitting, appRealClose,
  cleanup,          \* the await of the beforeQuit call that does the work
  updater,          \* the update-quit-and-install handler
  nextPort,         \* appConfig.ports.prod.next
  taken,            \* the ports something listens on
  exited            \* how the process ended

vars == <<check, daemon, operateDaemon, splash, main, isBeforeQuitting,
          appRealClose, cleanup, updater, nextPort, taken, exited>>

quitVars   == <<isBeforeQuitting, appRealClose, cleanup, exited>>
windows    == <<splash, main>>
ports      == <<nextPort, taken>>
Ports      == 1..MaxPort
Daemons    == Checks \cup {Leftover}
CheckPCs   == {"none", "setup", "shutdown", "kill", "launch", "port", "next",
               "shown", "failed"}
CleanupPCs == {"idle", "shutdown", "kill", "children", "next", "done"}

\* Every variable has its type; the cleanup runs exactly once quitting began.
TypeOK ==
  /\ check \in [Checks -> CheckPCs]
  /\ daemon \in [Daemons -> {"none", "starting", "serving", "stopping", "dead", "crashed"}]
  /\ operateDaemon \in Checks \cup {NoDaemon}
  /\ splash \in {"null", "open", "destroyed"}
  /\ main \in {"null", "open", "hidden", "destroyed"}
  /\ isBeforeQuitting \in BOOLEAN /\ appRealClose \in BOOLEAN
  /\ cleanup \in CleanupPCs /\ (isBeforeQuitting <=> cleanup # "idle")
  /\ updater \in {"idle", "killing", "installing"}
  /\ nextPort \in Ports /\ taken \in SUBSET Ports
  /\ exited \in {"no", "quit", "cut", "update"}

Init ==
  /\ check = [k \in Checks |-> "none"]
  /\ daemon \in {[[d \in Daemons |-> "none"] EXCEPT ![Leftover] = s] :
                   s \in {"none", "serving"}}
  /\ operateDaemon = NoDaemon
  /\ splash = "open" /\ main = "null"
  /\ isBeforeQuitting = FALSE /\ appRealClose = FALSE /\ cleanup = "idle"
  /\ updater = "idle"
  /\ nextPort = 1 /\ taken \in SUBSET {1}
  /\ exited = "no"

Up == exited = "no"

-----------------------------------------------------------------------------
(* Ways out.                                                               *)

\* The body of beforeQuit up to its first await: the windows are destroyed,
\* but the variables keep the destroyed objects.
BeginCleanup ==
  /\ isBeforeQuitting' = TRUE
  /\ cleanup' = "shutdown"
  /\ splash' = IF splash = "null" THEN "null" ELSE "destroyed"
  /\ main' = IF main = "null" THEN "null" ELSE "destroyed"

\* beforeQuit({}).then(process.exit): the first caller cleans up, any other one
\* returns at once and ends the process.
CleanUpAndExit ==
  /\ UNCHANGED appRealClose
  /\ \/ /\ ~isBeforeQuitting
        /\ BeginCleanup
        /\ UNCHANGED exited
     \/ /\ isBeforeQuitting
        /\ exited' = "cut"
        /\ UNCHANGED <<isBeforeQuitting, cleanup, windows>>

\* app.quit(): before-quit is prevented until appRealClose; after that nothing
\* holds the windows or the process.
Quit ==
  /\ Up
  /\ \/ /\ ~appRealClose /\ ~isBeforeQuitting
        /\ BeginCleanup
        /\ UNCHANGED exited
     \/ /\ appRealClose
        /\ exited' = "update"
        /\ UNCHANGED <<isBeforeQuitting, cleanup, windows>>
  /\ UNCHANGED <<check, daemon, operateDaemon, appRealClose, updater, ports>>

\* SIGINT or SIGTERM.
Signal ==
  /\ Up /\ Signals
  /\ CleanUpAndExit
  /\ UNCHANGED <<check, daemon, operateDaemon, updater, ports>>

\* A method call on a destroyed window throws: uncaughtException.
UseDestroyed ==
  /\ CleanUpAndExit
  /\ UNCHANGED <<check, daemon, operateDaemon, updater, ports>>

\* The user launches Pearl again: second-instance shows the main window, or the
\* splash window if there is no main window.
SecondInstance ==
  /\ Up
  /\ \/ /\ main \in {"open", "hidden"} /\ main' = "open"
        /\ UNCHANGED <<check, daemon, operateDaemon, splash, quitVars, updater, ports>>
     \/ /\ \/ main = "destroyed"
           \/ main = "null" /\ splash = "destroyed"
        /\ UseDestroyed

-----------------------------------------------------------------------------
(* The daemon processes.                                                   *)

Alive(d)     == daemon[d] \in {"starting", "serving", "stopping"}
HoldsPort(d) == daemon[d] \in {"serving", "stopping"}

\* A request of stopBackend ends, answered or refused: the daemon that serves may
\* begin to stop, and may take its time.
StopRequestEnds ==
  \/ UNCHANGED daemon
  \/ \E d \in Daemons :
       /\ daemon[d] = "serving"
       /\ daemon' = [daemon EXCEPT ![d] = "stopping"]

\* Mutant: the next step of the boot does not need its splash window.
TellSplashBlindly(k, next) ==
  check' = [check EXCEPT ![k] = next]

\* event.sender.send throws once the splash window is destroyed, and the
\* handler's catch ends the boot; otherwise it goes on to its next await.
TellSplash(k, next) ==
  check' = [check EXCEPT ![k] = IF splash = "open" THEN next ELSE "failed"]

\* Mutant: the second of the two lines is not looked for.
DaemonAnswersOnce(k) ==
  /\ daemon[k] = "starting"
  /\ \/ /\ \A d \in Daemons : ~HoldsPort(d)
        /\ daemon' = [daemon EXCEPT ![k] = "serving"]
        /\ check[k] = "launch" /\ TellSplash(k, "port")
     \/ /\ \E d \in Daemons : HoldsPort(d)
        /\ daemon' = [daemon EXCEPT ![k] = "dead"]
        /\ UNCHANGED check
  /\ UNCHANGED <<operateDaemon, windows, quitVars, updater, ports>>

\* Either line of output settles launchDaemon: the daemon serves, or the port was
\* in use and it ends.  The boot goes on in both cases.
DaemonAnswers(k) ==
  /\ daemon[k] = "starting" /\ check[k] = "launch"
  /\ daemon' = [daemon EXCEPT ![k] =
                  IF \E d \in Daemons : HoldsPort(d) THEN "dead" ELSE "serving"]
  /\ TellSplash(k, "port")
  /\ UNCHANGED <<operateDaemon, windows, quitVars, updater, ports>>

\* A daemon told to stop has stopped.
DaemonStops(d) ==
  /\ daemon[d] = "stopping"
  /\ daemon' = [daemon EXCEPT ![d] = "dead"]
  /\ UNCHANGED <<check, operateDaemon, windows, quitVars, updater, ports>>

\* A daemon ends by itself, without a word.
DaemonCrashes(d) ==
  /\ Alive(d)
  /\ daemon' = [daemon EXCEPT ![d] = "crashed"]
  /\ UNCHANGED <<check, operateDaemon, windows, quitVars, updater, ports>>

-----------------------------------------------------------------------------
(* ipcMain.on('check'): the boot.  Any of its awaits may also throw.       *)

Check(k) ==
  /\ Up /\ splash = "open" /\ check[k] = "none"
  /\ check' = [check EXCEPT ![k] = "setup"]
  /\ UNCHANGED <<daemon, operateDaemon, windows, quitVars, updater, ports>>

CheckThrows(k) ==
  /\ Up /\ check[k] \in {"setup", "kill", "next"}
  /\ check' = [check EXCEPT ![k] = "failed"]
  /\ UNCHANGED <<daemon, operateDaemon, windows, quitVars, updater, ports>>

SetUp(k) ==
  /\ Up /\ check[k] = "setup"
  /\ check' = [check EXCEPT ![k] = "shutdown"]
  /\ UNCHANGED <<daemon, operateDaemon, windows, quitVars, updater, ports>>

ShutdownRequested(k) ==
  /\ Up /\ check[k] = "shutdown"
  /\ StopRequestEnds
  /\ check' = [check EXCEPT ![k] = "kill"]
  /\ UNCHANGED <<operateDaemon, windows, quitVars, updater, ports>>

\* stopBackend's second request ends, and launchDaemon spawns a daemon over
\* whatever operateDaemon was.
LaunchDaemon(k) ==
  /\ Up /\ check[k] = "kill"
  /\ TellSplash(k, "launch")
  /\ IF check'[k] = "launch"
     THEN /\ operateDaemon' = k
          /\ \/ daemon' = [daemon EXCEPT ![k] = "starting"]
             \/ \E d \in Daemons :
                  /\ daemon[d] = "serving"
                  /\ daemon' = [daemon EXCEPT ![d] = "stopping", ![k] = "starting"]
     ELSE StopRequestEnds /\ UNCHANGED operateDaemon
  /\ UNCHANGED <<windows, quitVars, updater, ports>>

\* findAvailablePort(PORT_RANGE): the first port of the range nobody listens on.
FindAvailablePort(p) == p \in Ports \ taken /\ \A q \in Ports \ taken : p <= q

\* isPortAvailable, and another port if it is not.
PortTested(k) ==
  /\ Up /\ check[k] = "port"
  /\ IF nextPort \notin taken
     THEN check' = [check EXCEPT ![k] = "next"] /\ UNCHANGED nextPort
     ELSE IF Ports \subseteq taken
     THEN check' = [check EXCEPT ![k] = "failed"] /\ UNCHANGED nextPort
     ELSE /\ check' = [check EXCEPT ![k] = "next"]
          /\ \E p \in Ports : FindAvailablePort(p) /\ nextPort' = p
  /\ UNCHANGED <<daemon, operateDaemon, windows, quitVars, updater, taken>>

\* launchNextApp listens, and the main window is made unless there is one.
Listen(k) ==
  /\ Up /\ check[k] = "next" /\ nextPort \notin taken
  /\ taken' = taken \cup {nextPort}
  /\ TellSplash(k, "shown")
  /\ main' = IF check'[k] = "shown" /\ main = "null" THEN "open" ELSE main
  /\ UNCHANGED <<daemon, operateDaemon, splash, quitVars, updater, nextPort>>

\* Nobody handles the server's error when the port was taken meanwhile, by the
\* other check: uncaughtException.
ListenFails(k) ==
  /\ Up /\ check[k] = "next" /\ nextPort \in taken
  /\ CleanUpAndExit
  /\ check' = [check EXCEPT ![k] = "failed"]
  /\ UNCHANGED <<daemon, operateDaemon, updater, ports>>

\* is-app-loaded: the splash window is destroyed and forgotten.
AppLoaded ==
  /\ Up /\ main \in {"open", "hidden"} /\ splash = "open"
  /\ splash' = "null"
  /\ UNCHANGED <<check, daemon, operateDaemon, main, quitVars, updater, ports>>

\* close-app: the main window hides instead of closing, but for a real close.
CloseApp ==
  /\ Up /\ main = "open" /\ ~appRealClose
  /\ main' = "hidden"
  /\ UNCHANGED <<check, daemon, operateDaemon, splash, quitVars, updater, ports>>

-----------------------------------------------------------------------------
(* beforeQuit after its first await.                                       *)

CleanupShutdown ==
  /\ Up /\ cleanup = "shutdown"
  /\ StopRequestEnds
  /\ cleanup' = "kill"
  /\ UNCHANGED <<check, operateDaemon, windows, isBeforeQuitting, appRealClose, exited,
                 updater, ports>>

CleanupKill ==
  /\ Up /\ cleanup = "kill"
  /\ StopRequestEnds
  /\ cleanup' = IF operateDaemon = NoDaemon THEN "next" ELSE "children"
  /\ UNCHANGED <<check, operateDaemon, windows, isBeforeQuitting, appRealClose, exited,
                 updater, ports>>

\* Mutant: one try around both, so that a child that cannot be killed spares the
\* daemon.
CleanupKillsOrNot ==
  /\ Up /\ cleanup = "children"
  /\ \/ UNCHANGED daemon
     \/ daemon' = [daemon EXCEPT ![operateDaemon] = IF Alive(operateDaemon) THEN "stopping" ELSE @]
  /\ cleanup' = "next"
  /\ UNCHANGED <<check, operateDaemon, windows, isBeforeQuitting, appRealClose, exited,
                 updater, ports>>

\* killProcesses ended, well or not, and the daemon is sent a signal.
CleanupKillsDaemon ==
  /\ Up /\ cleanup = "children"
  /\ daemon' = [daemon EXCEPT ![operateDaemon] =
                  IF Alive(operateDaemon) THEN "stopping" ELSE @]
  /\ cleanup' = "next"
  /\ UNCHANGED <<check, operateDaemon, windows, isBeforeQuitting, appRealClose, exited,
                 updater, ports>>

\* Mutant: app.quit() without appRealClose is prevented by before-quit.
CleanupEndsPrevented ==
  /\ Up /\ cleanup = "next"
  /\ cleanup' = "done"
  /\ exited' = IF appRealClose THEN "quit" ELSE "no"
  /\ UNCHANGED <<check, daemon, operateDaemon, windows, isBeforeQuitting, appRealClose,
                 updater, ports>>

\* nextApp is closed, and app.quit() is not prevented this time.
CleanupEnds ==
  /\ Up /\ cleanup = "next"
  /\ cleanup' = "done"
  /\ appRealClose' = TRUE
  /\ exited' = "quit"
  /\ UNCHANGED <<check, daemon, operateDaemon, windows, isBeforeQuitting, updater, ports>>

-----------------------------------------------------------------------------
(* update-quit-and-install.                                                *)

QuitAndInstall ==
  /\ Up /\ main \in {"open", "hidden"} /\ updater = "idle"
  /\ updater' = "killing"
  /\ UNCHANGED <<check, daemon, operateDaemon, windows, quitVars, ports>>

\* killProcesses killed the children of the daemon, not the daemon.
ChildrenKilled ==
  /\ Up /\ updater = "killing"
  /\ updater' = "installing"
  /\ appRealClose' = TRUE
  /\ UNCHANGED <<check, daemon, operateDaemon, windows, isBeforeQuitting, cleanup, exited,
                 ports>>

\* quitAndInstall quits the app; if it does not, the fallback timer does.
Installs ==
  /\ Up /\ updater = "installing"
  /\ exited' = "update"
  /\ UNCHANGED <<check, daemon, operateDaemon, windows, isBeforeQuitting, appRealClose,
                 cleanup, updater, ports>>

-----------------------------------------------------------------------------
CheckStep(k) ==
  \/ SetUp(k) \/ ShutdownRequested(k) \/ LaunchDaemon(k)
  \/ PortTested(k) \/ Listen(k) \/ ListenFails(k)

CleanupStep == CleanupShutdown \/ CleanupKill \/ CleanupKillsDaemon \/ CleanupEnds

UserStep ==
  \/ \E k \in Checks : Check(k)
  \/ Quit \/ Signal \/ SecondInstance \/ AppLoaded \/ CloseApp \/ QuitAndInstall

Next ==
  \/ UserStep
  \/ \E k \in Checks : CheckStep(k) \/ CheckThrows(k) \/ DaemonAnswers(k)
  \/ \E d \in Daemons : DaemonStops(d) \/ DaemonCrashes(d)
  \/ CleanupStep
  \/ ChildrenKilled \/ Installs

\* A request to a backend on the same machine is answered or refused, a daemon
\* that lives prints one of its two lines, and timers fire.
Fairness ==
  /\ \A k \in Checks : WF_vars(CheckStep(k)) /\ WF_vars(DaemonAnswers(k))
  /\ WF_vars(CleanupStep)
  /\ WF_vars(ChildrenKilled) /\ WF_vars(Installs)

Spec == Init /\ [][Next]_vars /\ Fairness

-----------------------------------------------------------------------------
(* Properties.                                                             *)

\* An app that went through the whole of beforeQuit has stopped the daemon it
\* spawned last, whenever in the boot the quit came, and whatever became of the
\* requests of stopBackend and of the killing of its children.
QuitLeavesNoDaemon ==
  (exited = "quit" /\ operateDaemon # NoDaemon)
    => daemon[operateDaemon] \notin {"starting", "serving"}

\* Once the app began to quit, a boot still in flight spawns no daemon and opens
\* no window: nothing would stop the one or close the other.
QuittingStartsNothing ==
  [][isBeforeQuitting => /\ \A d \in Daemons : daemon'[d] = "starting" => daemon[d] = "starting"
                         /\ main' = "open" => main = "open"]_vars

\* Whoever asked for it and however often, a quit that began ends the process.
QuitEnds == isBeforeQuitting ~> ~Up

\* A boot ends with the app shown or with an error, unless the app quits or the
\* daemon dies before it prints a line.
BootEnds ==
  \A k \in Checks : (check[k] = "setup") ~>
    (check[k] \in {"shown", "failed"} \/ ~Up \/ daemon[k] = "crashed")
=============================================================================
