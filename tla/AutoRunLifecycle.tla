-------------------------- MODULE AutoRunLifecycle --------------------------
(***************************************************************************)
(* The orchestration loop of auto-run: useAutoRunLifecycle.ts, with the    *)
(* timers and ticks of useAutoRunSignals.ts and the skeleton of the scan   *)
(* and of a start (useAutoRunScanner.ts, useAutoRunStartOperations.ts).    *)
(*                                                                         *)
(* Three asynchronous flows share one flag, isRotatingRef:                 *)
(*   - "rewards"  : the rotation effect, when the running agent earned;    *)
(*   - "watchdog" : the forced rotation of an agent that ran too long;     *)
(*   - "startup"  : first enable, and resume after the agent stopped.      *)
(* A flow is a chain of awaits; pc[k] names the await flow k is in, and    *)
(* all JavaScript between two awaits runs in one step.  State setters only *)
(* mark effects dirty; a commit runs them.  AutoRunProvider passes the     *)
(* controller an inline callback, so each of its renders gives the startup *)
(* effect new dependencies.                                                *)
(*                                                                         *)
(* What the chain answers to a rewards refresh, which candidate passes its *)
(* other checks and how long anything takes are chosen freely.  A start    *)
(* request outlives the flow that issued it: withTimeout does not cancel.  *)
(***************************************************************************)
EXTENDS Naturals, FiniteSets

CONSTANTS
  Inst,         \* the included agent instances (service config ids)
  None,         \* null
  ManualStarts  \* whether the user also starts agents by hand

ASSUME NoneIsNoInstance == None \notin Inst
ASSUME ManualStartsIsBoolean == ManualStarts \in BOOLEAN

VARIABLES
  enabled,      \* the switch as last rendered; enabledRef is equal to it, and
                \* wasAutoRunEnabledRef is its value at the previous commit
  isRotating,   \* isRotatingRef
  pc,           \* the await each flow is suspended at
  current,      \* the instance a rotation flow is rotating away from
  isActive,     \* isActive of the rotation closure awaiting its refresh
  reachedScan,  \* reachedScan of the startup flow
  candidate,    \* the instance under evaluation, or being started
  visited,      \* the instances this scan has visited
  isStarting,   \* isStarting state of AutoRunProvider
  scanTimer,    \* scanTimeoutRef is armed
  dirty,        \* effects whose dependencies changed since the last commit
  running,      \* runningServiceConfigId: React's mirror of the deployments
  deployed,     \* instances whose deployment really is active
  requested,    \* instances with an unanswered start request
  earned,       \* instances whose rewardSnapshotRef is true
  guarded,      \* the rotation guard: whose lastRewardsEligibilityRef is true
  backoff,      \* instances inside their stop-retry backoff window
  longRun,      \* runningSinceRef is RUNNING_AGENT_MAX_RUNTIME or more ago
  lostBy        \* history: how the last flow ended without a wake-up

flowVars   == <<isRotating, pc, current, longRun, lostBy>>
scanVars   == <<reachedScan, candidate, visited, isStarting>>
world      == <<deployed, requested>>
refs       == <<earned, guarded, backoff>>
vars == <<enabled, isActive, flowVars, scanVars, world, refs, running, scanTimer, dirty>>

Rotations == {"rewards", "watchdog"}
Flows     == Rotations \cup {"startup"}

\* What a rewards refresh resolves to: boolean | undefined.  Of the stored
\* snapshots only "true" is ever told apart from the rest.
Rewards == {"earned", "unearned", "unknown"}

PCs == {"idle", "refresh", "others", "stop", "cooldown", "delay", "selected",
        "startSelected", "scan", "start"}

\* Effects React will rerun at the next commit: the startup effect alone (any
\* render), or the rotation effect too (ticks, data the callbacks close over).
DirtySet == {"none", "startup", "both"}

\* Every variable has its type, and a rotation flow holds the instance it rotates
\* away from exactly while it is under way.
TypeOK ==
  /\ enabled \in BOOLEAN /\ isRotating \in BOOLEAN
  /\ pc \in [Flows -> PCs]
  /\ current \in [Rotations -> Inst \cup {None}]
  /\ \A k \in Rotations : current[k] = None <=> pc[k] = "idle"
  /\ isActive \in BOOLEAN /\ reachedScan \in BOOLEAN
  /\ candidate \in Inst \cup {None} /\ visited \in SUBSET Inst
  /\ isStarting \in BOOLEAN /\ scanTimer \in BOOLEAN /\ dirty \in DirtySet
  /\ running \in Inst \cup {None}
  /\ deployed \in SUBSET Inst /\ requested \in SUBSET Inst
  /\ earned \in SUBSET Inst /\ guarded \in SUBSET Inst
  /\ backoff \in SUBSET Inst /\ longRun \in BOOLEAN
  /\ lostBy \in {"none", "drift", "cancelled", "threw"}

Init ==
  /\ enabled = FALSE /\ isRotating = FALSE
  /\ pc = [k \in Flows |-> "idle"]
  /\ current = [k \in Rotations |-> None]
  /\ isActive = FALSE /\ reachedScan = FALSE
  /\ candidate = None /\ visited = {} /\ isStarting = FALSE
  /\ scanTimer = FALSE /\ dirty = "none"
  /\ running \in Inst \cup {None}
  /\ deployed = {running} \ {None}
  /\ requested = {}
  /\ earned = {} /\ guarded = {}
  /\ backoff = {} /\ longRun = FALSE /\ lostBy = "none"

-----------------------------------------------------------------------------
(* Commits: what the effects do with the rendered enabled' and running'.   *)

\* Mutant: the effects do not look at isRotating.
MayBeginAnyTime == enabled'

\* Only one flow at a time: both effect bodies return while isRotating.
MayBegin == enabled' /\ ~isRotating

\* Every effect of a commit; rotation tells whether the rotation effect's
\* dependencies changed (the startup effect's always did).  The rotation
\* effect's cleanup clears isActive before its body runs.
Effects(rotation) ==
  LET beginRotation == rotation /\ MayBegin /\ running' # None
      beginStartup  == MayBegin /\ running' = None
  IN  /\ isRotating' = (isRotating \/ beginRotation \/ beginStartup)
      /\ pc' = IF beginRotation THEN [pc EXCEPT !["rewards"] = "refresh"]
               ELSE IF beginStartup
               THEN [pc EXCEPT !["startup"] =
                       IF enabled THEN "cooldown" ELSE "delay"]
               ELSE pc
      /\ current' = IF beginRotation
                    THEN [current EXCEPT !["rewards"] = running']
                    ELSE current
      /\ isActive' = (beginRotation \/ (isActive /\ ~rotation))
      /\ scanTimer' = (scanTimer /\ enabled')
      /\ isStarting' = (isStarting /\ enabled')
      /\ backoff' = IF enabled' THEN backoff ELSE {}
      /\ lostBy' = IF beginRotation \/ beginStartup \/ ~enabled'
                   THEN "none" ELSE lostBy
      /\ dirty' = "none"
      /\ UNCHANGED <<reachedScan, candidate, visited, earned, guarded, world>>

\* The switch is toggled and rendered.  The sidebar locks it during a start.
Toggle ==
  /\ ~isStarting
  /\ enabled' = ~enabled
  /\ longRun' = FALSE
  /\ UNCHANGED running
  /\ Effects(TRUE)

\* useAgentRunning shows the first active service, in the services' fixed order.
FirstActive(D) == IF D = {} THEN None ELSE CHOOSE i \in D : TRUE

\* A deployments poll renders a new running instance.
PollDeployments ==
  /\ running' = FirstActive(deployed)
  /\ running' # running
  /\ longRun' = FALSE
  /\ UNCHANGED enabled
  /\ Effects(TRUE)

\* A commit with the same enabled and running instance.
Commit ==
  /\ dirty # "none"
  /\ UNCHANGED <<enabled, longRun, running>>
  /\ Effects(dirty = "both")

\* Mutant: the timer fires without bumping scanTick.
TimerFiresUnseen ==
  /\ scanTimer
  /\ scanTimer' = FALSE
  /\ UNCHANGED <<enabled, isActive, flowVars, scanVars, world, refs, running, dirty>>

\* scheduleNextScan's timer fires and bumps scanTick.
TimerFires ==
  /\ scanTimer
  /\ scanTimer' = FALSE
  /\ dirty' = "both"
  /\ UNCHANGED <<enabled, isActive, flowVars, scanVars, world, refs, running>>

\* A rewards snapshot is written and bumps rewardsTick: the interval poll of
\* the running instance, the selected instance's reward context.
RewardsTick(i, value) ==
  /\ earned' = IF value THEN earned \cup {i} ELSE earned \ {i}
  /\ dirty' = "both"
  /\ UNCHANGED <<enabled, isActive, flowVars, scanVars, world, guarded, backoff, running,
                 scanTimer>>

\* Some other context renders the provider.
Render ==
  /\ dirty' = IF dirty = "none" THEN "startup" ELSE dirty
  /\ UNCHANGED <<enabled, isActive, flowVars, scanVars, world, refs, running, scanTimer>>

-----------------------------------------------------------------------------
(* Steps of a flow.                                                        *)

\* The flow goes on to await `to`.
GoTo(k, to) ==
  /\ pc' = [pc EXCEPT ![k] = to]
  /\ UNCHANGED <<isRotating, current, longRun, lostBy>>

\* Mutant: the watchdog has no finally.
FinishKeepsFlag(k, why) ==
  /\ pc' = [pc EXCEPT ![k] = "idle"]
  /\ isRotating' = (k = "watchdog")
  /\ current' = [x \in Rotations |-> IF x = k THEN None ELSE current[x]]
  /\ lostBy' = IF enabled THEN why ELSE "none"
  /\ UNCHANGED longRun

\* finally: the flow ends.
Finish(k, why) ==
  /\ pc' = [pc EXCEPT ![k] = "idle"]
  /\ isRotating' = FALSE
  /\ current' = [x \in Rotations |-> IF x = k THEN None ELSE current[x]]
  /\ UNCHANGED longRun
  /\ lostBy' = IF enabled THEN why ELSE "none"

\* Mutant: enabledRef is not checked.
ScheduleAlways == scanTimer' = TRUE

\* scheduleNextScan: nothing happens once auto-run is off.
Schedule == scanTimer' = (scanTimer \/ enabled)

\* refreshRewardsEligibility resolved with answer[i] for each i: a boolean is
\* stored and bumps rewardsTick; unknown (no answer, or throttled) is not.
Refreshed(answer) ==
  /\ earned' = {i \in earned : i \in DOMAIN answer => answer[i] # "unearned"}
               \cup {i \in DOMAIN answer : answer[i] = "earned"}
  /\ dirty' = IF \E i \in DOMAIN answer : answer[i] # "unknown"
              THEN "both" ELSE dirty

Others(i) == Inst \ {i}

\* rotateToNext up to its first await, entered from flow k.
BeginRotate(k, i) ==
  IF Others(i) = {}
  THEN Schedule /\ Finish(k, "none")
  ELSE GoTo(k, "others") /\ UNCHANGED scanTimer

\* Mutant: the guard is written before the backoff is looked at.
RewardsRefreshedGuardFirst(answer) ==
  LET i == current["rewards"] IN
  /\ pc["rewards"] = "refresh"
  /\ Refreshed([j \in {i} |-> answer])
  /\ guarded' = IF i \in earned' THEN guarded \cup {i} ELSE guarded \ {i}
  /\ IF isActive /\ i \notin backoff /\ i \in earned' /\ i \notin guarded
     THEN BeginRotate("rewards", i)
     ELSE Finish("rewards", "none") /\ UNCHANGED scanTimer
  /\ isActive' = FALSE
  /\ UNCHANGED <<enabled, scanVars, world, backoff, running>>

\* checkRewardsAndRotate once its refresh resolved.  The backoff is looked at
\* before the guard is written.
RewardsRefreshed(answer) ==
  LET i == current["rewards"] IN
  /\ pc["rewards"] = "refresh"
  /\ Refreshed([j \in {i} |-> answer])
  /\ IF ~isActive \/ i \in backoff
     THEN /\ Finish("rewards", IF isActive THEN "none" ELSE "cancelled")
          /\ UNCHANGED <<guarded, scanTimer>>
     ELSE /\ guarded' = IF i \in earned' THEN guarded \cup {i} ELSE guarded \ {i}
          /\ IF i \in earned' /\ i \notin guarded
             THEN BeginRotate("rewards", i)
             ELSE Finish("rewards", "none") /\ UNCHANGED scanTimer
  /\ isActive' = FALSE
  /\ UNCHANGED <<enabled, scanVars, world, backoff, running>>

\* rotateToNext once the others are refreshed: only confirmed "earned" of all
\* of them keeps the current instance running.
OthersRefreshed(k, answer) ==
  /\ pc[k] = "others"
  /\ Refreshed(answer)
  /\ IF Others(current[k]) \subseteq earned'
     THEN Schedule /\ Finish(k, "none")
     ELSE /\ UNCHANGED scanTimer
          /\ IF enabled THEN GoTo(k, "stop") ELSE Finish(k, "none")
  /\ UNCHANGED <<enabled, isActive, scanVars, world, guarded, backoff, running>>

\* stopAgentWithRecovery succeeded: the probe saw the deployment stopped, or
\* the mirror no longer shows it.
StopOk(k) ==
  LET i == current[k] IN
  /\ pc[k] = "stop"
  /\ i \notin deployed \/ running # i
  /\ guarded' = guarded \ {i}
  /\ backoff' = backoff \ {i}
  /\ IF enabled THEN GoTo(k, "cooldown") ELSE Finish(k, "none")
  /\ UNCHANGED <<enabled, isActive, scanVars, world, earned, running, scanTimer, dirty>>

\* stopAgentWithRecovery gave up: re-arm the guard, back off, look again.
StopFailed(k) ==
  LET i == current[k] IN
  /\ pc[k] = "stop"
  /\ guarded' = guarded \ {i}
  /\ backoff' = backoff \cup {i}
  /\ Schedule
  /\ Finish(k, "none")
  /\ UNCHANGED <<enabled, isActive, scanVars, world, earned, running, dirty>>

\* scanAndStartNext begins.
BeginScan(k) == GoTo(k, "scan") /\ visited' = {} /\ UNCHANGED candidate

\* The cooldown after a rotation's stop; onTime is sleepAwareDelay's result.
RotationCooled(k, onTime) ==
  /\ k \in Rotations /\ pc[k] = "cooldown"
  /\ IF onTime /\ enabled THEN BeginScan(k)
     ELSE /\ Finish(k, IF onTime THEN "none" ELSE "drift")
          /\ UNCHANGED <<candidate, visited>>
  /\ UNCHANGED <<enabled, isActive, reachedScan, isStarting, world, refs, running,
                 scanTimer, dirty>>

\* The catch blocks of both rotation flows.
RotationThrows(k) ==
  LET i == current[k] IN
  /\ pc[k] \in {"refresh", "others", "scan"}
  /\ guarded' = guarded \ {i}
  /\ candidate' = None /\ visited' = {}
  /\ Schedule
  /\ Finish(k, "none")
  /\ UNCHANGED <<enabled, isActive, reachedScan, isStarting, world, earned,
                 backoff, running, dirty>>

\* The watchdog's interval finds the running instance past its runtime.  Its
\* finally restarts the runtime clock, which nothing reads before that.
WatchdogFires ==
  /\ enabled /\ ~isRotating
  /\ running # None
  /\ longRun
  /\ running \notin backoff
  /\ longRun' = FALSE
  /\ lostBy' = "none"
  /\ IF Others(running) = {}
     THEN scanTimer' = TRUE /\ UNCHANGED <<isRotating, pc, current>>
     ELSE /\ isRotating' = TRUE
          /\ pc' = [pc EXCEPT !["watchdog"] = "others"]
          /\ current' = [current EXCEPT !["watchdog"] = running]
          /\ UNCHANGED scanTimer
  /\ UNCHANGED <<enabled, isActive, scanVars, world, refs, running, dirty>>

-----------------------------------------------------------------------------
(* The startup flow.                                                       *)

\* Mutant: no safety net.
FinishStartupNoNet(armed, why) ==
  /\ scanTimer' = armed
  /\ reachedScan' = FALSE
  /\ Finish("startup", why)

\* .finally(): the safety net arms the timer when nothing else will wake the
\* loop and the flow never reached its own scan.
FinishStartup(armed, why) ==
  LET net == ~reachedScan /\ enabled /\ running = None /\ ~armed
  IN  /\ scanTimer' = (armed \/ net)
      /\ reachedScan' = FALSE
      /\ Finish("startup", IF net \/ armed THEN "none" ELSE why)

\* The 30s delay of the first enable, or the 20s cooldown of a resume.  Only
\* the first-enable path looks again at whether an agent is running.
StartupDelayed(onTime) ==
  /\ pc["startup"] \in {"delay", "cooldown"}
  /\ IF /\ onTime /\ enabled
        /\ pc["startup"] = "delay" => running = None
     THEN GoTo("startup", "selected") /\ UNCHANGED <<scanTimer, reachedScan>>
     ELSE FinishStartup(scanTimer, "none")
  /\ UNCHANGED <<enabled, isActive, candidate, visited, isStarting, world, refs, running, dirty>>

\* startSelectedAgentIfEligible returned false, possibly after arming the
\* timer itself: scan the queue.
SelectedSkipped(armed) ==
  /\ pc["startup"] = "selected"
  /\ reachedScan' = TRUE
  /\ scanTimer' = (scanTimer \/ (armed /\ enabled))
  /\ GoTo("startup", "scan") /\ visited' = {} /\ candidate' = None
  /\ UNCHANGED <<enabled, isActive, isStarting, world, refs, running, dirty>>

\* .catch(): logged only.
StartupThrows ==
  /\ pc["startup"] \in {"selected", "scan"}
  /\ FinishStartup(scanTimer, "threw")
  /\ candidate' = None /\ visited' = {}
  /\ UNCHANGED <<enabled, isActive, isStarting, world, refs, running, dirty>>

-----------------------------------------------------------------------------
(* Candidates: the skeleton shared by the scan and the selected instance.  *)

\* A scan, or a start inside one, ends: rotation flows just finish.
EndFlow(k, armed, why) ==
  /\ candidate' = None /\ visited' = {}
  /\ IF k = "startup"
     THEN FinishStartup(scanTimer \/ (armed /\ enabled), why)
     ELSE /\ scanTimer' = (scanTimer \/ (armed /\ enabled))
          /\ Finish(k, why)
          /\ UNCHANGED reachedScan

\* Candidate i is refreshed, its old snapshot dropped first, and then checked
\* for deployability, which fails while another agent is seen running.
Consider(k, i, answer, canRun) ==
  /\ pc[k] \in {"scan", "selected"} /\ candidate = None
  /\ enabled
  /\ IF pc[k] = "scan" THEN i \notin visited ELSE visited = {} /\ i \notin earned
  /\ canRun => running \in {None, i}
  /\ earned' = IF answer = "earned" THEN earned \cup {i} ELSE earned \ {i}
  /\ dirty' = "both"
  /\ candidate' = IF canRun THEN i ELSE None
  /\ visited' = visited \cup {i}
  /\ UNCHANGED <<enabled, isActive, flowVars, reachedScan, isStarting, world,
                 guarded, backoff, running, scanTimer>>

\* waitForRewardsEligibility did not say "earned": startAgentWithRetries.
BeginStart(k) ==
  /\ pc[k] \in {"scan", "selected"} /\ candidate # None
  /\ enabled
  /\ candidate \notin earned
  /\ GoTo(k, IF pc[k] = "scan" THEN "start" ELSE "startSelected")
  /\ isStarting' = TRUE
  /\ dirty' = IF dirty = "none" THEN "startup" ELSE dirty
  /\ UNCHANGED <<enabled, isActive, reachedScan, candidate, visited, world, refs,
                 running, scanTimer>>

\* The candidate earned already, or its balances never became ready.
SkipCandidate(k) ==
  /\ pc[k] = "scan" /\ candidate # None
  /\ candidate' = None
  /\ UNCHANGED <<enabled, isActive, flowVars, reachedScan, visited, isStarting,
                 world, refs, running, scanTimer, dirty>>

\* Auto-run is off, balances never became ready, or every candidate was visited.
ScanGivesUp(k) ==
  /\ pc[k] = "scan"
  /\ ~enabled \/ (candidate = None /\ visited \in {{}, Inst})
  /\ EndFlow(k, TRUE, "none")
  /\ UNCHANGED <<enabled, isActive, isStarting, world, refs, running, dirty>>

Starting(k) == pc[k] \in {"start", "startSelected"}

\* startService is called for the candidate.
StartIssued(k) ==
  /\ Starting(k)
  /\ enabled
  /\ requested' = requested \cup {candidate}
  /\ UNCHANGED <<enabled, isActive, flowVars, scanVars, refs, running, scanTimer, dirty,
                 deployed>>

\* onAutoRunStartStateChange(false).
StartSettled ==
  /\ isStarting' = FALSE
  /\ dirty' = IF isStarting /\ dirty = "none" THEN "startup" ELSE dirty

\* A probe saw the candidate running: the flow is done.  Only the render of
\* isStarting's reset wakes the loop.
StartConfirmed(k) ==
  /\ Starting(k)
  /\ candidate \in deployed
  /\ StartSettled
  /\ EndFlow(k, FALSE, "none")
  /\ UNCHANGED <<enabled, isActive, world, refs, running>>

\* aborted, or infra_failed after the retries, with requests perhaps still
\* unanswered: the scan tries the next candidate.  A failed selected instance
\* is followed by a scan that keeps reachedScan.
StartFails(k) ==
  /\ Starting(k)
  /\ StartSettled
  /\ IF ~enabled \/ (pc[k] = "startSelected" /\ Others(candidate) = {})
     THEN EndFlow(k, TRUE, "none")
     ELSE /\ GoTo(k, "scan")
          /\ candidate' = None
          /\ visited' = IF pc[k] = "start" THEN visited ELSE {}
          /\ UNCHANGED <<scanTimer, reachedScan>>
  /\ UNCHANGED <<enabled, isActive, world, refs, running>>

-----------------------------------------------------------------------------
(* The world: the backend, the user elsewhere in the app, and time.        *)

\* The backend answers a start request, long after its caller if need be.
RequestAnswered(i, ok) ==
  /\ i \in requested
  /\ requested' = requested \ {i}
  /\ deployed' = IF ok THEN deployed \cup {i} ELSE deployed
  /\ UNCHANGED <<enabled, isActive, flowVars, scanVars, refs, running, scanTimer, dirty>>

\* A deployment ends: a stop request completes, or the agent crashes.
DeploymentEnds(i) ==
  /\ i \in deployed
  /\ deployed' = deployed \ {i}
  /\ UNCHANGED <<enabled, isActive, flowVars, scanVars, refs, running, scanTimer, dirty,
                 requested>>

\* The user starts an agent outside auto-run, with no agent seen running: its own
\* Start button while auto-run is off, a contract switch even while it is on.
ManualStart(i) ==
  /\ ManualStarts
  /\ running = None /\ i \notin deployed
  /\ requested' = requested \cup {i}
  /\ UNCHANGED <<enabled, isActive, flowVars, scanVars, refs, running, scanTimer, dirty,
                 deployed>>

\* RUNNING_AGENT_MAX_RUNTIME passes; the clock is read between flows only.
RuntimeElapses ==
  /\ enabled /\ running # None /\ ~isRotating /\ ~longRun
  /\ longRun' = TRUE
  /\ UNCHANGED <<enabled, isActive, isRotating, pc, current, lostBy, scanVars, world,
                 refs, running, scanTimer, dirty>>

BackoffExpires(i) ==
  /\ i \in backoff
  /\ backoff' = backoff \ {i}
  /\ UNCHANGED <<enabled, isActive, flowVars, scanVars, world, earned, guarded, running,
                 scanTimer, dirty>>

-----------------------------------------------------------------------------
\* An await of a rotation resolves.
RotationStep(k) ==
  \/ \E answer \in [Others(current[k]) -> Rewards] : OthersRefreshed(k, answer)
  \/ StopOk(k)
  \/ StopFailed(k)
  \/ \E onTime \in BOOLEAN : RotationCooled(k, onTime)
  \/ RotationThrows(k)

\* An await of the startup flow resolves.
StartupStep ==
  \/ \E onTime \in BOOLEAN : StartupDelayed(onTime)
  \/ \E armed \in BOOLEAN : SelectedSkipped(armed)
  \/ StartupThrows

\* An await of a scan or of a start resolves.
CandidateStep(k) ==
  \/ \E i \in Inst, answer \in Rewards, canRun \in BOOLEAN :
       Consider(k, i, answer, canRun)
  \/ BeginStart(k)
  \/ SkipCandidate(k)
  \/ ScanGivesUp(k)
  \/ StartConfirmed(k)
  \/ StartFails(k)

FlowStep ==
  \/ \E answer \in Rewards : RewardsRefreshed(answer)
  \/ \E k \in Rotations : RotationStep(k)
  \/ StartupStep
  \/ \E k \in Flows : CandidateStep(k)

WorldStep ==
  \/ \E i \in Inst, ok \in BOOLEAN : RequestAnswered(i, ok)
  \/ \E i \in Inst : DeploymentEnds(i) \/ ManualStart(i) \/ BackoffExpires(i)
  \/ RuntimeElapses

Next ==
  \/ Toggle
  \/ PollDeployments
  \/ Commit
  \/ TimerFires
  \/ \E i \in Inst, value \in BOOLEAN : RewardsTick(i, value)
  \/ Render
  \/ FlowStep
  \/ \E k \in Flows : StartIssued(k)
  \/ WatchdogFires
  \/ WorldStep

\* Every wait has a hard timeout and a chain read its client's, timers fire, React
\* commits, and deployments are polled; nothing is assumed of the user, of the
\* backend or of how an await comes out.
Fairness ==
  /\ WF_vars(FlowStep)
  /\ WF_vars(Commit)
  /\ WF_vars(TimerFires)
  /\ WF_vars(PollDeployments)

Spec == Init /\ [][Next]_vars /\ Fairness

-----------------------------------------------------------------------------
(* Properties.                                                             *)

\* isRotatingRef is a mutual exclusion: at most one flow is between its first
\* and its last await, and the flag is up exactly that long.  A flag left up
\* stops auto-run for good; one lowered early lets two flows start agents.
OneFlow ==
  /\ \A j, k \in Flows : pc[j] # "idle" /\ pc[k] # "idle" => j = k
  /\ isRotating <=> \E k \in Flows : pc[k] # "idle"

\* The fixed "stop timeout causes permanent deadlock": while an instance is
\* inside its stop backoff, its rotation guard stays open, so that the first
\* refresh after the window rotates.
BackoffKeepsGuardOpen == backoff \cap guarded = {}

\* Flows outlive the switch by minutes; whatever they do once it is off, no
\* scan timer is left ticking and no start is shown as in progress.
NothingArmedWhileOff == ~enabled => ~scanTimer /\ ~isStarting

\* Auto-run is on, nothing is seen running, and neither a flow, a timer nor a
\* render is on its way: only an event from outside starts an agent again.
Quiet == enabled /\ running = None /\ ~isRotating /\ ~scanTimer /\ dirty = "none"

\* The loop never goes quiet, except after one of the three endings lostBy names.
QuietOnlyAfterLostWakeup == Quiet => lostBy # "none"

\* Every flow ends: no path through the awaits keeps the flag for ever.
FlowsEnd == isRotating ~> ~isRotating

\* With no wake-up lost, an idle loop gets going by itself.
IdleWakesUp ==
  (enabled /\ running = None /\ ~isRotating /\ lostBy = "none")
    ~> (isRotating \/ running # None \/ ~enabled)

\* docs/features/autorun.md A.5: "Never runs more than one agent concurrently".
OneDeployed == Cardinality(deployed) <= 1
=============================================================================
