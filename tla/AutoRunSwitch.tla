---------------------------- MODULE AutoRunSwitch ----------------------------
(***************************************************************************)
(* The auto-run switch (AutoRunProvider.tsx, AutoRunControl.tsx) over the  *)
(* start and stop operations it interferes with                            *)
(* (useAutoRunStartOperations.ts, useAutoRunStopOperations.ts) and the     *)
(* backend they talk to.                                                   *)
(*                                                                         *)
(* The lifecycle loop is the environment: it calls one start or one stop   *)
(* at a time, and only while auto-run is on (OneFlow of AutoRunLifecycle). *)
(* withTimeout cancels nothing: a call of startService it has given up     *)
(* still prepares, posts its request, and has it processed, whatever       *)
(* became of the operation.  Only polls tell the renderer what is active;  *)
(* probes ask the backend itself.  Statuses are reduced to what the        *)
(* operations tell apart: "up" is DEPLOYING or DEPLOYED, "stopping" is     *)
(* active too.                                                             *)
(*                                                                         *)
(* What a click or an effect sets is rendered in the same step; what a     *)
(* promise sets is rendered by a later commit, and until then clicks and   *)
(* effects read the older value.                                           *)
(***************************************************************************)
EXTENDS Naturals, FiniteSets

CONSTANTS
  Inst,         \* agent instances
  None,         \* null
  MaxAttempts,  \* RETRY_BACKOFF_SECONDS.length
  MaxStops,     \* STOP_RECOVERY_MAX_ATTEMPTS
  MaxChecks     \* DISABLE_RACE_STOP_MAX_CHECKS

ASSUME NoneIsNoInstance == None \notin Inst
ASSUME BoundsArePositive ==
  MaxAttempts \in Nat \ {0} /\ MaxStops \in Nat \ {0} /\ MaxChecks \in Nat \ {0}

VARIABLES
  locked,       \* the sidebar's switch is the caller of setEnabled, or any caller is,
                \* as the context's type allows and the tests of the guard do
  enabled,      \* the switch as rendered; enabledRef
  isStarting, isStopping, \* as rendered
  starting,     \* the last value setIsStarting was given
  checksLeft,   \* disableRaceStopChecksLeft
  start,        \* startAgentWithRetries: its await, its instance, its attempt
  lateCalls,    \* history: calls of startService begun since the switch went off
  stop,         \* stopAgentWithRecovery, by caller
  left,         \* instances with calls of startService given up, which still prepare,
                \*   post their request, or wait for the backend
  stopPending,  \* instances the backend has yet to answer a stop request of
  deployment,   \* what the backend runs
  seen,         \* runningServiceConfigId, as last polled
  transitioning \* isServiceTransitioning of the selected service, as last polled

switch == <<enabled, isStarting, isStopping, checksLeft>>
operation == <<start, starting, lateCalls>>
backend == <<left, stopPending, deployment>>
mirrors == <<seen, transitioning>>
vars == <<locked, switch, operation, stop, backend, mirrors>>

Callers  == {"rotation", "switch", "guard"}
IdleOp   == [at |-> "idle", inst |-> None, attempt |-> 0]
StartOps == {IdleOp} \cup
  [at : {"balances", "probe", "prepare", "request", "answered", "confirm", "retry"},
   inst : Inst, attempt : 1..MaxAttempts]
StopOps  == {IdleOp} \cup
  [at : {"request", "confirm", "retry"}, inst : Inst, attempt : 1..MaxStops]

\* What setIsStopping was given last: a stop of the switch or its guard is under way.
Stopping == stop["switch"] # IdleOp \/ stop["guard"] # IdleOp

\* Every variable has its type.
TypeOK ==
  /\ locked \in BOOLEAN /\ enabled \in BOOLEAN
  /\ isStarting \in BOOLEAN /\ isStopping \in BOOLEAN /\ starting \in BOOLEAN
  /\ checksLeft \in 0..MaxChecks /\ lateCalls \in Nat
  /\ start \in StartOps /\ stop \in [Callers -> StopOps]
  /\ left \subseteq Inst /\ stopPending \subseteq Inst
  /\ deployment \in [Inst -> {"off", "up", "stopping"}]
  /\ seen \in Inst \cup {None} /\ transitioning \in BOOLEAN

Active == {i \in Inst : deployment[i] # "off"}

\* useAgentRunning: the first active service, in the services' fixed order.
FirstActive == IF Active = {} THEN None ELSE CHOOSE i \in Active : TRUE

Init ==
  /\ locked \in BOOLEAN /\ enabled = FALSE
  /\ isStarting = FALSE /\ isStopping = FALSE /\ starting = FALSE
  /\ checksLeft = 0 /\ lateCalls = 0
  /\ start = IdleOp /\ stop = [c \in Callers |-> IdleOp]
  /\ left = {} /\ stopPending = {}
  /\ deployment = [i \in Inst |-> "off"] /\ seen = None /\ transitioning = FALSE

-----------------------------------------------------------------------------
(* startAgentWithRetries.                                                  *)

StartAt(pcs) == start.at \in pcs
StartGoesTo(pc) == start' = [start EXCEPT !.at = pc] /\ UNCHANGED starting
Elsewhere == UNCHANGED <<locked, switch, stop, stopPending, mirrors>>

\* Mutant: isStarting is reset on success and on abort only.
StartEndsShown(failed) ==
  start' = IdleOp /\ starting' = (failed /\ starting)

\* finally: the operation ends.
StartEnds(failed) == start' = IdleOp /\ starting' = FALSE

\* Mutant: the switch is not looked at between the attempts.
NextAttemptAlways(n) ==
  /\ start' = [start EXCEPT !.at = "probe", !.attempt = n]
  /\ starting' = (starting \/ start.at = "balances")

\* The head of the loop.  The operation is to be shown as starting from its first
\* attempt on.
NextAttempt(n) ==
  IF enabled
  THEN /\ start' = [start EXCEPT !.at = "probe", !.attempt = n]
       /\ starting' = (starting \/ start.at = "balances")
  ELSE StartEnds(FALSE)

\* The lifecycle calls it for a candidate that passed its checks.
StartCalled(i) ==
  /\ enabled /\ seen \in {None, i}
  /\ start = IdleOp /\ stop["rotation"] = IdleOp
  /\ start' = [at |-> "balances", inst |-> i, attempt |-> 1]
  /\ UNCHANGED <<starting, lateCalls, left, deployment>> /\ Elsewhere

BalancesAwaited(ready) ==
  /\ StartAt({"balances"})
  /\ IF ready THEN NextAttempt(1) ELSE StartEnds(TRUE)
  /\ UNCHANGED <<lateCalls, left, deployment>> /\ Elsewhere

\* The probe before a start: the instance runs already, or startService is called,
\* also when the probe failed.
Probed(answered) ==
  /\ StartAt({"probe"})
  /\ IF answered /\ deployment[start.inst] = "up"
     THEN StartEnds(FALSE) /\ UNCHANGED lateCalls
     ELSE /\ StartGoesTo("prepare")
          /\ lateCalls' = IF enabled THEN lateCalls ELSE lateCalls + 1
  /\ UNCHANGED <<left, deployment>> /\ Elsewhere

\* createSafeIfNeeded and updateServiceIfNeeded have resolved: the request is posted.
StartPosted ==
  /\ StartAt({"prepare"}) /\ StartGoesTo("request")
  /\ UNCHANGED <<lateCalls, left, deployment>> /\ Elsewhere

\* The backend carries the request out.
StartProcessed ==
  /\ StartAt({"request"}) /\ StartGoesTo("answered")
  /\ deployment' = [deployment EXCEPT ![start.inst] = "up"]
  /\ UNCHANGED <<lateCalls, left>> /\ Elsewhere

\* startService resolves.
StartAnswered ==
  /\ StartAt({"answered"}) /\ StartGoesTo("confirm")
  /\ UNCHANGED <<lateCalls, left, deployment>> /\ Elsewhere

\* It throws in any of its awaits; or it times out there, and goes on.
StartCallFails(timedOut) ==
  /\ StartAt({"prepare", "request", "answered"}) /\ StartGoesTo("retry")
  /\ left' = IF timedOut /\ ~StartAt({"answered"}) THEN left \cup {start.inst} ELSE left
  /\ UNCHANGED <<lateCalls, deployment>> /\ Elsewhere

\* waitForRunningInstance: a probe sees the instance run; or the wait ends by
\* timeout or suspend, or because auto-run is off.
StartConfirmed ==
  /\ StartAt({"confirm"})
  /\ deployment[start.inst] = "up"
  /\ StartEnds(FALSE)
  /\ UNCHANGED <<lateCalls, left, deployment>> /\ Elsewhere

StartUnconfirmed ==
  /\ StartAt({"confirm"})
  /\ StartGoesTo("retry")
  /\ UNCHANGED <<lateCalls, left, deployment>> /\ Elsewhere

\* The pause after a failed attempt.
RetryAwaited(onTime) ==
  /\ StartAt({"retry"})
  /\ IF onTime /\ start.attempt < MaxAttempts
     THEN NextAttempt(start.attempt + 1)
     ELSE StartEnds(TRUE)
  /\ UNCHANGED <<lateCalls, left, deployment>> /\ Elsewhere

\* A call that was given up has its request carried out after all, or fails.  The
\* set holds an instance once for all such calls.
LeftCallEnds(i, ok) ==
  /\ i \in left /\ left' \in {left, left \ {i}}
  /\ deployment' = IF ok THEN [deployment EXCEPT ![i] = "up"] ELSE deployment
  /\ UNCHANGED operation /\ Elsewhere

-----------------------------------------------------------------------------
(* stopAgentWithRecovery.                                                  *)

\* A stop of i begins with a request.
StopBegins(c, i) ==
  /\ stop' = [stop EXCEPT ![c] = [at |-> "request", inst |-> i, attempt |-> 1]]
  /\ stopPending' = stopPending \cup {i}

\* It ends.  Only the race guard's own stop disarms the guard, whether or not the
\* agent stopped.
StopEnds(c) ==
  /\ stop' = [stop EXCEPT ![c] = IdleOp]
  /\ checksLeft' = IF c = "guard" THEN 0 ELSE checksLeft

\* The lifecycle rotates away from the agent it sees.
RotationStops ==
  /\ enabled /\ seen # None
  /\ start = IdleOp /\ stop["rotation"] = IdleOp
  /\ StopBegins("rotation", seen)
  /\ UNCHANGED <<locked, switch, operation, left, deployment, mirrors>>

\* What a step of a stop leaves alone.
Beside == UNCHANGED <<locked, enabled, isStarting, isStopping, operation, left,
                      deployment, mirrors>>

\* The request is answered, refused or timed out, all alike.
StopRequestEnds(c) ==
  /\ stop[c].at = "request"
  /\ stop' = [stop EXCEPT ![c].at = "confirm"]
  /\ UNCHANGED <<checksLeft, stopPending>> /\ Beside

\* waitForStoppedDeployment: a probe sees the instance inactive.
StopConfirmed(c) ==
  /\ stop[c].at = "confirm"
  /\ deployment[stop[c].inst] = "off"
  /\ StopEnds(c)
  /\ UNCHANGED stopPending /\ Beside

\* The wait ends by timeout or suspend: the mirror decides, and then the number
\* of attempts.
StopUnconfirmed(c) ==
  /\ stop[c].at = "confirm"
  /\ IF seen # stop[c].inst \/ stop[c].attempt = MaxStops
     THEN StopEnds(c)
     ELSE stop' = [stop EXCEPT ![c].at = "retry"] /\ UNCHANGED checksLeft
  /\ UNCHANGED stopPending /\ Beside

\* The pause between two attempts.
StopRetried(c, onTime) ==
  /\ stop[c].at = "retry"
  /\ IF onTime
     THEN /\ stop' = [stop EXCEPT ![c] =
                       [at |-> "request", inst |-> @.inst, attempt |-> @.attempt + 1]]
          /\ stopPending' = stopPending \cup {stop[c].inst}
          /\ UNCHANGED checksLeft
     ELSE StopEnds(c) /\ UNCHANGED stopPending
  /\ Beside

-----------------------------------------------------------------------------
(* setEnabled and the effects on enabled.                                  *)

\* The sidebar's switch shows its spinner, and ignores clicks, while isToggling or
\* while the selected service is in transition.
Clickable == locked => ~isStarting /\ ~isStopping /\ ~transitioning

SwitchOn ==
  /\ ~enabled /\ Clickable
  /\ enabled' = TRUE /\ checksLeft' = 0 /\ lateCalls' = 0
  /\ UNCHANGED <<locked, isStarting, isStopping, start, starting, stop, backend,
                 mirrors>>

\* Off: what is seen running is stopped, and if a start is shown and nothing is
\* seen yet the race guard is armed.  An effect then resets a start that is shown.
SwitchOff ==
  /\ enabled /\ Clickable
  /\ enabled' = FALSE
  /\ isStarting' = FALSE /\ starting' = (starting /\ ~isStarting)
  /\ checksLeft' = IF isStarting /\ seen = None THEN MaxChecks ELSE 0
  /\ IF isStopping \/ seen = None
     THEN UNCHANGED <<isStopping, stop, stopPending>>
     ELSE isStopping' = TRUE /\ StopBegins("switch", seen)
  /\ UNCHANGED <<locked, start, lateCalls, left, deployment, mirrors>>

\* A commit renders what promises have set; an effect takes back a start that is
\* shown with auto-run off.
Commit ==
  /\ isStarting # starting \/ isStopping # Stopping
  /\ starting' = (starting /\ enabled) /\ isStarting' = starting'
  /\ isStopping' = Stopping
  /\ UNCHANGED <<locked, enabled, checksLeft, start, lateCalls, stop, backend, mirrors>>

GuardArmed == ~enabled /\ checksLeft > 0 /\ ~isStopping

\* Mutant: the guard waits for the start to be over.
RaceGuardStopsLate ==
  /\ GuardArmed /\ seen # None /\ isStarting
  /\ isStopping' = TRUE /\ StopBegins("guard", seen)
  /\ UNCHANGED <<locked, enabled, isStarting, operation, checksLeft, left, deployment,
                 mirrors>>

\* The race guard sees an agent running with auto-run off.
RaceGuardStops ==
  /\ GuardArmed /\ seen # None
  /\ isStopping' = TRUE /\ StopBegins("guard", seen)
  /\ UNCHANGED <<locked, enabled, isStarting, operation, checksLeft, left, deployment,
                 mirrors>>

\* Or it sees none for another 10 seconds.
RaceGuardTicks ==
  /\ GuardArmed /\ seen = None
  /\ checksLeft' = checksLeft - 1
  /\ UNCHANGED <<locked, enabled, isStarting, isStopping, operation, stop, backend,
                 mirrors>>

-----------------------------------------------------------------------------
(* The backend, and the polls.                                             *)

Poll ==
  /\ seen' = FirstActive
  /\ seen' # seen
  /\ UNCHANGED <<locked, switch, operation, stop, backend, transitioning>>

\* The status of the selected service, which may be any: "up" is DEPLOYING, which is
\* a transition, or DEPLOYED, which is none.
SelectedPolled ==
  /\ \E i \in Inst :
       transitioning' \in CASE deployment[i] = "up" -> BOOLEAN
                           [] deployment[i] = "stopping" -> {TRUE}
                           [] deployment[i] = "off" -> {FALSE}
  /\ transitioning' # transitioning
  /\ UNCHANGED <<locked, switch, operation, stop, backend, seen>>

StopProcessed(i, ok) ==
  /\ i \in stopPending
  /\ stopPending' = stopPending \ {i}
  /\ deployment' = IF ok /\ deployment[i] = "up"
                   THEN [deployment EXCEPT ![i] = "stopping"] ELSE deployment
  /\ UNCHANGED <<locked, switch, operation, stop, left, mirrors>>

\* A stop completes, or the agent's process ends by itself.
DeploymentEnds(i) ==
  /\ deployment[i] # "off"
  /\ deployment' = [deployment EXCEPT ![i] = "off"]
  /\ UNCHANGED <<locked, switch, operation, stop, left, stopPending, mirrors>>

-----------------------------------------------------------------------------
\* What ends each await of a start: StartCallFails is the timeout of the call's.
StartStep ==
  \/ \E b \in BOOLEAN : BalancesAwaited(b) \/ Probed(b) \/ RetryAwaited(b)
  \/ \E timedOut \in BOOLEAN : StartCallFails(timedOut)
  \/ StartPosted \/ StartProcessed \/ StartAnswered
  \/ StartConfirmed \/ StartUnconfirmed

StopStep(c) ==
  \/ StopRequestEnds(c) \/ StopConfirmed(c) \/ StopUnconfirmed(c)
  \/ \E onTime \in BOOLEAN : StopRetried(c, onTime)

GuardStep == RaceGuardStops \/ RaceGuardTicks

BackendStep ==
  \E i \in Inst :
    \/ \E ok \in BOOLEAN : LeftCallEnds(i, ok) \/ StopProcessed(i, ok)
    \/ DeploymentEnds(i)

Next ==
  \/ \E i \in Inst : StartCalled(i)
  \/ StartStep
  \/ RotationStops
  \/ \E c \in Callers : StopStep(c)
  \/ SwitchOn \/ SwitchOff \/ Commit
  \/ GuardStep
  \/ Poll \/ SelectedPolled
  \/ BackendStep

\* Every wait of an operation has a hard timeout, timers fire, the deployments are
\* polled, and a commit that is due again and again is made: it takes milliseconds,
\* an operation's awaits are requests and timers.  Nothing is assumed of the backend,
\* the lifecycle, the user or the service that is selected.
Fairness ==
  /\ WF_vars(StartStep)
  /\ \A c \in Callers : WF_vars(StopStep(c))
  /\ SF_vars(Commit)
  /\ WF_vars(GuardStep)
  /\ WF_vars(Poll)

Spec == Init /\ [][Next]_vars /\ Fairness

-----------------------------------------------------------------------------
(* Properties.                                                             *)

\* "Disabled during retries: stop retrying" (autorun.md:312): an operation has
\* startService called at most once after the switch went off, by the attempt that
\* was past its look at the switch.  (When that call, or one given up before, posts
\* its request is another matter: nothing cancels it.)
RetriesStop == lateCalls <= 1

\* The switch spins for ever only for a service that is selected and in transition:
\* every start and every stop gives it back.
SwitchUnlocks == ~Clickable ~> (Clickable \/ transitioning)

\* A guard that was armed does its work: an agent it sees is no longer running, or
\* the guard has given up, if auto-run stays off.
GuardSeesItThrough ==
  \A i \in Inst :
    (~enabled /\ checksLeft > 0 /\ seen = i)
      ~> (enabled \/ seen # i \/ checksLeft = 0)
=============================================================================
