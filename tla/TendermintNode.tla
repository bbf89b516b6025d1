--------------------------- MODULE TendermintNode ---------------------------
(***************************************************************************)
(* The supervisor of the Tendermint node (operate/tendermint.py).  A Flask *)
(* server answers each request on a thread of its own: the agent's resets  *)
(* (gentle_reset, hard_reset), one at a time, and Pearl's /exit, at any    *)
(* moment.  A monitoring thread reads the node's output and restarts the   *)
(* node when a line tells of a lost connection.  All of them stop and      *)
(* start the node through the same unlocked fields, _process, _stopping    *)
(* and _monitoring.                                                        *)
(*                                                                         *)
(* One action per statement that reads or writes a shared field.  Merged   *)
(* into one step: the two assignments that end a stop, and creating and    *)
(* starting a monitoring thread.  The node is an operating-system process  *)
(* that may die at any time and need not die when told to.  Unix only: on  *)
(* Windows a stop does not wait for the node after CTRL_BREAK.             *)
(***************************************************************************)
EXTENDS Naturals, FiniteSets

CONSTANTS
  Nodes,       \* names of node processes; a dead node's name is used again
  Monitors,    \* names of monitoring threads, likewise
  Agent, Pearl,\* the threads that answer the agent's resets and Pearl's /exit
  None

Handlers == {Agent, Pearl}
Threads == Handlers \cup Monitors

ASSUME ThreadsAssumption ==
  /\ Agent # Pearl /\ Handlers \cap Monitors = {}
  /\ None \notin Nodes \cup Monitors /\ Nodes \cap Monitors = {}
  /\ Nodes # {} /\ Monitors # {}

VARIABLES
  process,     \* self._process
  stopping,    \* self._stopping
  monitoring,  \* self._monitoring
  told,        \* monitoring threads whose stop event is set
  onExit,      \* app._is_on_exit
  alive,       \* node processes that run
  hard,        \* the agent's request is a hard reset
  pc,          \* where each thread is
  at           \* what it waits for: a node's exit or output, a thread's end

supervisorVars ==
  <<process, stopping, monitoring, told, onExit, alive, hard, pc, at>>

StopStages == {"check", "signal", "wait", "poll", "wait_again"}
StartStages == {"start", "popen"}
Stages == StopStages \cup StartStages \cup
  {"idle", "event", "join", "prune", "monitor", "answered", "failed",
   "loop", "reading", "trigger", "ended", "killed"}

SupervisorTypeOK ==
  /\ process \in Nodes \cup {None}
  /\ stopping \in BOOLEAN
  /\ monitoring \in Monitors
  /\ told \subseteq Monitors
  /\ onExit \in BOOLEAN
  /\ alive \subseteq Nodes
  /\ hard \in BOOLEAN
  /\ pc \in [Threads -> Stages]
  /\ at \in [Threads -> Nodes \cup Monitors \cup {None}]

\* create_app has started the node and its monitor; the server now answers.
SupervisorInit ==
  /\ process \in Nodes /\ alive = {process}
  /\ monitoring \in Monitors
  /\ stopping = FALSE /\ told = {} /\ onExit = FALSE /\ hard = FALSE
  /\ pc = [t \in Threads |->
             IF t \in Handlers THEN "idle"
             ELSE IF t = monitoring THEN "loop" ELSE "ended"]
  /\ at = [t \in Threads |-> None]

Goto(t, stage) == pc' = [pc EXCEPT ![t] = stage]

AwaitAt(t, x) == at' = [at EXCEPT ![t] = x]

\* Where a thread goes on after _stop_tm_process, and when that raises: the
\* monitor swallows it, a reset answers "failed", and /exit fails but still
\* tells the main process to end.
AfterStop(t) ==
  CASE t \in Monitors -> "start"
    [] t = Pearl -> "answered"
    [] t = Agent /\ hard -> "prune"
    [] OTHER -> "start"

AfterRaise(t) ==
  CASE t \in Monitors -> "loop"
    [] t = Pearl -> "failed"
    [] OTHER -> "idle"

AfterStart(t) == IF t \in Monitors THEN "loop" ELSE "monitor"

Raise(t) ==
  /\ Goto(t, AfterRaise(t)) /\ AwaitAt(t, None)
  /\ UNCHANGED process
-----------------------------------------------------------------------------
(* Requests. *)

AskReset ==
  /\ pc[Agent] = "idle" /\ ~onExit
  /\ hard' \in BOOLEAN
  /\ Goto(Agent, "event")
  /\ UNCHANGED <<process, stopping, monitoring, told, onExit, alive, at>>

AskExit ==
  /\ pc[Pearl] = "idle"
  /\ onExit' = TRUE
  /\ Goto(Pearl, "event")
  /\ UNCHANGED <<process, stopping, monitoring, told, alive, hard, at>>

\* _stop_monitoring_thread sets the event of the monitoring thread ...
TellMonitor(h) ==
  /\ pc[h] = "event"
  /\ told' = told \cup {monitoring}
  /\ AwaitAt(h, monitoring)
  /\ Goto(h, "join")
  /\ UNCHANGED <<process, stopping, monitoring, onExit, alive, hard>>

\* Mutant: the join has no timeout.
JoinEndsOnlyWhenEnded(h) ==
  /\ pc[h] = "join"
  /\ pc[at[h]] = "ended"
  /\ Goto(h, "check") /\ AwaitAt(h, None)
  /\ UNCHANGED <<process, stopping, monitoring, told, onExit, alive, hard>>

\* ... and waits for its end, at most 20 seconds: time enough for a stop
\* (8 seconds) and a start, not for a node that prints nothing.
JoinEnds(h) ==
  /\ pc[h] = "join"
  /\ pc[at[h]] \in {"ended", "reading"}
  /\ Goto(h, "check") /\ AwaitAt(h, None)
  /\ UNCHANGED <<process, stopping, monitoring, told, onExit, alive, hard>>

\* unsafe-reset-all and the new genesis file.  When the command fails the
\* node is started all the same; when the file cannot be written it is not.
Prune ==
  /\ pc[Agent] = "prune"
  /\ \E next \in {"start", "idle"} : Goto(Agent, next)
  /\ UNCHANGED <<process, stopping, monitoring, told, onExit, alive, hard, at>>

\* _start_monitoring_thread, the last step of a reset.
StartMonitor ==
  /\ pc[Agent] = "monitor"
  /\ IF pc[monitoring] # "ended"
     THEN Goto(Agent, "idle") /\ UNCHANGED <<monitoring, told>>
     ELSE \E m \in Monitors :
            /\ pc[m] = "ended" /\ m # at[Pearl]
            /\ monitoring' = m
            /\ told' = told \ {m}
            /\ pc' = [pc EXCEPT ![m] = "loop", ![Agent] = "idle"]
  /\ UNCHANGED <<process, stopping, onExit, alive, hard, at>>

\* The main process, told by /exit, ends the server with SIGTERM, which runs
\* no atexit handler; the node has a process group of its own and stays.
KillServer ==
  /\ pc[Pearl] \in {"answered", "failed"}
  /\ pc' = [t \in Threads |-> "killed"]
  /\ UNCHANGED <<process, stopping, monitoring, told, onExit, alive, hard, at>>
-----------------------------------------------------------------------------
(* _stop_tm_process and _unix_stop_tm. *)

StopCheck(t) ==
  /\ pc[t] = "check"
  /\ Goto(t, IF process = None \/ stopping THEN AfterStop(t) ELSE "signal")
  /\ UNCHANGED <<process, stopping, monitoring, told, onExit, alive, hard, at>>

\* _stopping is set; SIGTERM, and a wait of five seconds begins.
StopSignal(t) ==
  /\ pc[t] = "signal"
  /\ stopping' = TRUE
  /\ IF process = None THEN Raise(t)
     ELSE Goto(t, "wait") /\ AwaitAt(t, process) /\ UNCHANGED process
  /\ UNCHANGED <<monitoring, told, onExit, alive, hard>>

StopWaited(t) ==
  /\ pc[t] = "wait"
  /\ Goto(t, "poll") /\ AwaitAt(t, None)
  /\ UNCHANGED <<process, stopping, monitoring, told, onExit, alive, hard>>

StopDone(t) ==
  /\ stopping' = FALSE
  /\ process' = None
  /\ Goto(t, AfterStop(t)) /\ AwaitAt(t, None)

\* Mutant: a node that outlives the first SIGTERM counts as stopped.
StopPollTrusting(t) ==
  /\ pc[t] = "poll"
  /\ IF process = None THEN Raise(t) /\ UNCHANGED stopping ELSE StopDone(t)
  /\ UNCHANGED <<monitoring, told, onExit, alive, hard>>

\* A node still running gets a second SIGTERM and three seconds more.
StopPoll(t) ==
  /\ pc[t] = "poll"
  /\ \/ process = None /\ Raise(t) /\ UNCHANGED stopping
     \/ process \notin alive \cup {None} /\ StopDone(t)
     \/ /\ process \in alive
        /\ Goto(t, "wait_again") /\ AwaitAt(t, process)
        /\ UNCHANGED <<process, stopping>>
  /\ UNCHANGED <<monitoring, told, onExit, alive, hard>>

\* The last wait raises when the node is still there: _stopping stays set.
StopWaitedAgain(t) ==
  /\ pc[t] = "wait_again"
  /\ IF at[t] \in alive THEN Raise(t) /\ UNCHANGED stopping ELSE StopDone(t)
  /\ UNCHANGED <<monitoring, told, onExit, alive, hard>>
-----------------------------------------------------------------------------
(* _start_tm_process. *)

StartCheck(t) ==
  /\ pc[t] = "start"
  /\ Goto(t, IF process # None \/ stopping THEN AfterStart(t) ELSE "popen")
  /\ UNCHANGED <<process, stopping, monitoring, told, onExit, alive, hard, at>>

Popen(t) ==
  /\ pc[t] = "popen"
  /\ \E n \in Nodes \ (alive \cup {process} \cup {at[u] : u \in Threads}) :
       process' = n /\ alive' = alive \cup {n}
  /\ Goto(t, AfterStart(t))
  /\ UNCHANGED <<stopping, monitoring, told, onExit, hard, at>>
-----------------------------------------------------------------------------
(* The monitoring thread and the node. *)

\* The loop looks at the event of the monitor in the field, not at its own.
Loop(m) ==
  /\ pc[m] = "loop"
  /\ \/ monitoring \in told /\ Goto(m, "ended") /\ UNCHANGED at
     \/ /\ monitoring \notin told /\ process # None
        /\ Goto(m, "reading") /\ AwaitAt(m, process)
  /\ UNCHANGED <<process, stopping, monitoring, told, onExit, alive, hard>>

\* A line, or what is left of a dead node's output, then its end.
ReadLine(m) ==
  /\ pc[m] = "reading"
  /\ \E next \in {"loop", "trigger"} : Goto(m, next)
  /\ AwaitAt(m, None)
  /\ UNCHANGED <<process, stopping, monitoring, told, onExit, alive, hard>>

\* Mutant: the monitor restarts the node although it has been told to stop.
TriggerAlways(m) ==
  /\ pc[m] = "trigger"
  /\ Goto(m, "check")
  /\ UNCHANGED <<process, stopping, monitoring, told, onExit, alive, hard, at>>

Trigger(m) ==
  /\ pc[m] = "trigger"
  /\ Goto(m, IF monitoring \in told THEN "loop" ELSE "check")
  /\ UNCHANGED <<process, stopping, monitoring, told, onExit, alive, hard, at>>

NodeDies ==
  /\ \E n \in alive : alive' = alive \ {n}
  /\ UNCHANGED <<process, stopping, monitoring, told, onExit, hard, pc, at>>

StopStep(t) == \/ StopCheck(t) \/ StopSignal(t) \/ StopWaited(t)
               \/ StopPoll(t) \/ StopWaitedAgain(t)
StartStep(t) == StartCheck(t) \/ Popen(t)
HandlerStep(h) == TellMonitor(h) \/ JoinEnds(h) \/ StopStep(h)
MonitorStep(m) == Loop(m) \/ Trigger(m) \/ StopStep(m) \/ StartStep(m)

SupervisorNext ==
  \/ AskReset \/ AskExit \/ Prune \/ StartMonitor \/ KillServer \/ NodeDies
  \/ \E h \in Handlers : HandlerStep(h)
  \/ StartStep(Agent)
  \/ \E m \in Monitors : MonitorStep(m) \/ ReadLine(m)

\* Every thread goes on, for its waits are bounded; a read is sure to return
\* only when the node it reads from is dead, and nobody has to ask.
SupervisorFairness ==
  /\ \A h \in Handlers : WF_supervisorVars(HandlerStep(h))
  /\ WF_supervisorVars(Prune \/ StartMonitor \/ StartStep(Agent))
  /\ WF_supervisorVars(KillServer)
  /\ \A m \in Monitors :
       /\ WF_supervisorVars(MonitorStep(m))
       /\ WF_supervisorVars(at[m] \notin alive /\ ReadLine(m))

SupervisorSpec ==
  SupervisorInit /\ [][SupervisorNext]_supervisorVars /\ SupervisorFairness
-----------------------------------------------------------------------------
(* Until Pearl asks for the exit, the only node that runs is the one in    *)
(* the field: resets and the monitor's own restarts, a stop that raises    *)
(* and a node that dies by itself leave no second node on the same ports   *)
(* and no node that nobody can stop.                                       *)
NoNodeIsLost == ~onExit => alive \subseteq {process}

(* A hard reset deletes the blocks of a running node only while _stopping  *)
(* is set: by /exit, whose stop has begun, or by an earlier stop that      *)
(* raised.                                                                 *)
PruneOnlyStopped == pc[Agent] = "prune" => alive = {} \/ stopping

(* Every reset is answered or cut off by the exit, and the server ends     *)
(* after /exit, however silent the node and however often it outlives its  *)
(* SIGTERMs.                                                               *)
RequestsEnd ==
  /\ pc[Agent] # "idle" ~> pc[Agent] \in {"idle", "killed"}
  /\ pc[Pearl] # "idle" ~> pc[Pearl] = "killed"
=============================================================================
