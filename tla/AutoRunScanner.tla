--------------------------- MODULE AutoRunScanner ---------------------------
(***************************************************************************)
(* The scan of the queue and the fast path of the selected instance        *)
(* (useAutoRunScanner.ts), with the reward snapshots they read             *)
(* (useAutoRunSignals.ts) and the throttled refresh that writes them       *)
(* (autoRunHelpers.ts), entered from the startup flow or a rotation        *)
(* (useAutoRunLifecycle.ts).                                               *)
(*                                                                         *)
(* One flow at a time (AutoRunLifecycle shows it); pc is the await it is   *)
(* in.  Queue is the list the flow's closure holds: it does not change     *)
(* during the flow, whatever the user includes or excludes meanwhile, and  *)
(* every instance in it is configured, so "not configured" does not occur. *)
(* Chain, backend and clocks answer freely; of the waits' causes of        *)
(* failure (timeout, suspend, switched off) only the last is told apart.   *)
(***************************************************************************)
EXTENDS Naturals, Sequences

CONSTANTS
  Queue,        \* orderedIncludedInstances, as the flow's closure holds it
  None          \* null

Inst == {Queue[n] : n \in DOMAIN Queue}

ASSUME QueueIsSequence == Queue \in Seq(Inst)
ASSUME QueueHasNoDuplicates ==
  \A m, n \in DOMAIN Queue : Queue[m] = Queue[n] => m = n
ASSUME NoneIsNotQueued == None \notin Inst

VARIABLES
  enabled,      \* enabledRef
  running,      \* runningServiceConfigIdRef
  earned,       \* instances whose last boolean snapshot was true
  pending,      \* instances whose rewardSnapshotRef is undefined
  fresh,        \* fetched within REWARDS_POLL_SECONDS: lastRewardsFetchRef
  timer,        \* scanTimeoutRef: the delay it was armed with
  pc,           \* the await the flow is suspended at
  path,         \* the function the await is in
  selected,     \* selectedServiceConfigId in the flow's closure
  from,         \* startFrom
  candidate,    \* the instance under evaluation
  visited,      \* the instances this scan has visited
  outcomes      \* hasLoading, hasInfraFailed, hasBlocked, hasEligible

rewards == <<earned, pending, fresh>>
flow == <<pc, path, selected, from, candidate, visited, outcomes>>
vars == <<enabled, running, rewards, timer, flow>>

\* SCAN_LOADING_RETRY, SCAN_BLOCKED_DELAY and SCAN_ELIGIBLE_DELAY: 30s, 10 and
\* 30 minutes.
Delays   == {"loading", "blocked", "eligible"}
Outcomes == {"loading", "infraFailed", "blocked", "eligible"}
PCs      == {"idle", "selection", "balances", "fetch", "check", "rewards", "start"}

\* Every variable has its type, and the flow evaluates a candidate exactly in the
\* awaits that are about one.
TypeOK ==
  /\ enabled \in BOOLEAN
  /\ running \in Inst \cup {None}
  /\ earned \subseteq Inst /\ pending \subseteq Inst /\ fresh \subseteq Inst
  /\ timer \in Delays \cup {"off"}
  /\ pc \in PCs /\ path \in {"selected", "scan"}
  /\ selected \in Inst \cup {None} /\ from \in Inst \cup {None}
  /\ visited \subseteq Inst /\ outcomes \subseteq Outcomes
  /\ candidate \in Inst \cup {None}
  /\ candidate # None <=> pc \in {"selection", "fetch", "check", "rewards", "start"}

-----------------------------------------------------------------------------
(* The order of the queue.                                                 *)

Index(i) == CHOOSE n \in DOMAIN Queue : Queue[n] = i

\* Mutant: the next instance but one.
FindNextSkips(i) ==
  IF Queue = <<>> \/ Queue = <<i>> THEN None
  ELSE IF i \notin Inst THEN Queue[1]
  ELSE Queue[((Index(i) + 1) % Len(Queue)) + 1]

\* findNextInOrder: the instance after i in circular order, the first one when i
\* is null or not queued; null when there is none but i.
FindNext(i) ==
  IF Queue = <<>> \/ Queue = <<i>> THEN None
  ELSE IF i \notin Inst \/ Index(i) = Len(Queue) THEN Queue[1]
  ELSE Queue[Index(i) + 1]

\* getPreferredStartFrom: the instance before the selected one.
PreferredStartFrom(sel) ==
  IF Len(Queue) <= 1 \/ sel \notin Inst THEN None
  ELSE IF Index(sel) = 1 THEN Queue[Len(Queue)]
  ELSE Queue[Index(sel) - 1]

-----------------------------------------------------------------------------
Init ==
  /\ enabled = FALSE
  /\ running \in Inst \cup {None}
  /\ earned = {} /\ pending = Inst /\ fresh = {}
  /\ timer = "off"
  /\ pc = "idle" /\ path = "scan"
  /\ selected = None /\ from = None /\ candidate = None
  /\ visited = {} /\ outcomes = {}

\* Mutant: a flow that outlives the switch arms the timer.
ScheduleAlways(delay) ==
  timer' = IF delay # "off" THEN delay ELSE timer

\* scheduleNextScan: the latest call wins; nothing happens once auto-run is off.
Schedule(delay) ==
  timer' = IF enabled /\ delay # "off" THEN delay ELSE timer

\* The flow ends.
Finish(delay) ==
  /\ Schedule(delay)
  /\ pc' = "idle" /\ path' = "scan"
  /\ selected' = None /\ from' = None /\ candidate' = None
  /\ visited' = {} /\ outcomes' = {}
  /\ UNCHANGED <<pending, fresh>>

\* The delay before the next scan when nothing was started.
DelayAfter(results) ==
  IF results \cap {"loading", "infraFailed"} # {} THEN "loading"
  ELSE IF "blocked" \in results \/ results = {} THEN "blocked"
  ELSE "eligible"

\* refreshRewardsEligibility of i: a fetch, unless one began in the last 120s.
Refresh(i) ==
  /\ pc' = IF i \in fresh THEN "check" ELSE "fetch"
  /\ fresh' = fresh \cup {i}

\* Mutant: the visited candidates are not recorded.
AdvanceUnrecorded(c, results) ==
  IF c = None
  THEN Finish(DelayAfter(results))
  ELSE IF ~enabled THEN Finish("off")
  ELSE /\ candidate' = c /\ UNCHANGED visited
       /\ outcomes' = results
       /\ pending' = pending \cup {c}
       /\ Refresh(c)
       /\ UNCHANGED <<timer, path, selected, from>>

\* The head of the scan's loop, with c the next candidate.
Advance(c, results) ==
  IF c = None \/ c \in visited
  THEN Finish(DelayAfter(results))
  ELSE IF ~enabled THEN Finish("off")
  ELSE /\ candidate' = c /\ visited' = visited \cup {c}
       /\ outcomes' = results
       /\ pending' = pending \cup {c}
       /\ Refresh(c)
       /\ UNCHANGED <<timer, path, selected, from>>

\* scanAndStartNext(start) up to its first await.
BeginScan(start) ==
  /\ path' = "scan" /\ from' = start /\ pc' = "balances"
  /\ selected' = None /\ candidate' = None
  /\ visited' = {} /\ outcomes' = {}
  /\ UNCHANGED <<pending, fresh>>

\* startSelectedAgentIfEligible returned false, with delay perhaps scheduled: the
\* startup flow scans, so that the selected instance comes first again.
ScanAfterSelected(delay) ==
  IF enabled
  THEN Schedule(delay) /\ BeginScan(PreferredStartFrom(selected))
  ELSE Finish("off")

\* The startup flow, past its delay.
Startup(sel) ==
  /\ pc = "idle" /\ enabled /\ running = None
  /\ IF sel \in Inst /\ (sel \in pending \/ sel \notin earned)
     THEN /\ pc' = "selection" /\ path' = "selected"
          /\ selected' = sel /\ candidate' = sel
          /\ pending' = pending \cup {sel}
          /\ UNCHANGED <<from, visited, outcomes, fresh>>
     ELSE BeginScan(PreferredStartFrom(sel))
  /\ UNCHANGED <<enabled, running, earned, timer>>

\* A rotation past its cooldown scans from the instance it stopped, which need
\* not be queued (then it is None here).
Rotation(i) ==
  /\ pc = "idle" /\ enabled
  /\ Inst \ {i} # {}
  /\ BeginScan(i)
  /\ UNCHANGED <<enabled, running, earned, timer>>

\* waitForInstanceSelection, before the refresh of the selected instance.
SelectionAwaited(ok) ==
  /\ pc = "selection"
  /\ IF ok
     THEN Refresh(candidate)
          /\ UNCHANGED <<path, selected, from, candidate, visited, outcomes, pending, timer>>
     ELSE ScanAfterSelected("off")
  /\ UNCHANGED <<enabled, running, earned>>

\* waitForBalancesReady at the head of a scan.
BalancesAwaited(ok) ==
  /\ pc = "balances"
  /\ IF ~ok THEN Finish("loading")
     ELSE IF FindNext(from) = None THEN Finish("eligible")
     ELSE Advance(FindNext(from), {})
  /\ UNCHANGED <<enabled, running, earned>>

\* A fetch of i's rewards answers; no answer leaves the snapshot as it is.
Answer(i, answer) ==
  /\ earned' = IF answer = "earned" THEN earned \cup {i}
               ELSE IF answer = "unearned" THEN earned \ {i} ELSE earned
  /\ pending' = IF answer = "unknown" THEN pending ELSE pending \ {i}

Answers == {"earned", "unearned", "unknown"}

Fetched(answer) ==
  /\ pc = "fetch"
  /\ Answer(candidate, answer)
  /\ pc' = "check"
  /\ UNCHANGED <<enabled, running, fresh, timer, path, selected, from, candidate, visited,
                 outcomes>>

\* getDeployabilityForAgent of a scan's candidate; another agent seen running is
\* a transient obstacle.
Deployability(result) ==
  /\ pc = "check" /\ path = "scan"
  /\ running \notin {None, candidate} => result # "ok"
  /\ IF ~enabled THEN Finish("off")
     ELSE IF result = "ok"
     THEN pc' = "rewards"
          /\ UNCHANGED <<path, selected, from, candidate, visited, outcomes, pending,
                         fresh, timer>>
     ELSE Advance(FindNext(candidate), outcomes \cup {result})
  /\ UNCHANGED <<enabled, running, earned>>

\* The checks of the selected instance after its refresh: still selected, balances
\* ready, eligibility not loading, and runnable.
SelectedChecked(result) ==
  /\ pc = "check" /\ path = "selected"
  /\ running \notin {None, candidate} => result # "ok"
  /\ IF result = "ok"
     THEN pc' = "rewards"
          /\ UNCHANGED <<path, selected, from, candidate, visited, outcomes, pending,
                         fresh, timer>>
     ELSE ScanAfterSelected(IF result = "loading" THEN "loading" ELSE "off")
  /\ UNCHANGED <<enabled, running, earned>>

\* waitForRewardsEligibility: the snapshot, or undefined after 20s or a suspend.
\* Only "earned" keeps the candidate from being started, and startAgentWithRetries
\* returns at once when auto-run is off.
RewardsAwaited ==
  /\ pc = "rewards"
  /\ IF candidate \in earned /\ candidate \notin pending
     THEN IF path = "scan"
          THEN Advance(FindNext(candidate), outcomes \cup {"eligible"})
          ELSE ScanAfterSelected("off")
     ELSE IF ~enabled THEN Finish("off")
     ELSE pc' = "start"
          /\ UNCHANGED <<path, selected, from, candidate, visited, outcomes, pending,
                         fresh, timer>>
  /\ UNCHANGED <<enabled, running, earned>>

\* startAgentWithRetries confirmed the candidate running.
Started ==
  /\ pc = "start"
  /\ Finish("off")
  /\ UNCHANGED <<enabled, running, earned>>

\* It gave up because auto-run is off, or after its retries.
NotStarted ==
  /\ pc = "start"
  /\ IF ~enabled THEN Finish("off")
     ELSE IF path = "scan"
     THEN Advance(FindNext(candidate), outcomes \cup {"infraFailed"})
     ELSE IF Len(Queue) > 1
     THEN BeginScan(candidate) /\ UNCHANGED timer
     ELSE Finish("loading")
  /\ UNCHANGED <<enabled, running, earned>>

-----------------------------------------------------------------------------
(* The rest of the app, and time.                                          *)

Toggle ==
  /\ enabled' = ~enabled
  /\ timer' = IF enabled' THEN timer ELSE "off"
  /\ UNCHANGED <<running, rewards, flow>>

Poll(i) ==
  /\ i # running
  /\ running' = i
  /\ UNCHANGED <<enabled, rewards, timer, flow>>

TimerFires ==
  /\ timer # "off"
  /\ timer' = "off"
  /\ UNCHANGED <<enabled, running, rewards, flow>>

\* A refresh outside the scan: rotateToNext of the other instances before it
\* stops the current one, the interval poll of the running instance.
OtherRefresh(i, answer) ==
  /\ enabled
  /\ pc = "idle" \/ i = running
  /\ i \notin fresh
  /\ fresh' = fresh \cup {i}
  /\ Answer(i, answer)
  /\ UNCHANGED <<enabled, running, timer, flow>>

ThrottleExpires(i) ==
  /\ i \in fresh
  /\ fresh' = fresh \ {i}
  /\ UNCHANGED <<enabled, running, earned, pending, timer, flow>>

\* The reward context of the instance shown in the UI is written as it is,
\* undefined while it loads.
ContextWrites(i, answer) ==
  /\ earned' = IF answer = "earned" THEN earned \cup {i}
               ELSE IF answer = "unearned" THEN earned \ {i} ELSE earned
  /\ pending' = IF answer = "unknown" THEN pending \cup {i} ELSE pending \ {i}
  /\ UNCHANGED <<enabled, running, fresh, timer, flow>>

FlowStep ==
  \/ \E ok \in BOOLEAN : SelectionAwaited(ok) \/ BalancesAwaited(ok)
  \/ \E answer \in Answers : Fetched(answer)
  \/ \E result \in {"ok", "loading", "blocked"} : Deployability(result)
  \/ \E result \in {"ok", "loading", "blocked", "notReady"} : SelectedChecked(result)
  \/ RewardsAwaited
  \/ Started
  \/ NotStarted

Next ==
  \/ \E sel \in Inst \cup {None} : Startup(sel)
  \/ \E i \in Inst \cup {None} : Rotation(i)
  \/ FlowStep
  \/ Toggle
  \/ TimerFires
  \/ \E i \in Inst \cup {None} : Poll(i)
  \/ \E i \in Inst, answer \in Answers : OtherRefresh(i, answer) \/ ContextWrites(i, answer)
  \/ \E i \in Inst : ThrottleExpires(i)

\* Every wait has a hard timeout, and a chain read its client's.
Spec == Init /\ [][Next]_vars /\ WF_vars(FlowStep)

-----------------------------------------------------------------------------
(* Properties.                                                             *)

\* How far instance i is from where a scan anchored at start begins, in circular
\* order.
Distance(start, i) ==
  LET first == Index(FindNext(start))
  IN  IF Index(i) >= first THEN Index(i) - first ELSE Index(i) - first + Len(Queue)

\* The instances from the first candidate of that scan to c.
UpTo(start, c) == {i \in Inst : Distance(start, i) <= Distance(start, c)}

\* A scan has visited exactly the instances from its first candidate to the
\* present one, in circular order: it skips nobody and sees nobody twice, from
\* whichever anchor it began.
VisitsInOrder == (path = "scan" /\ candidate # None) => visited = UpTo(from, candidate)

\* A scan that arms the 10 or 30 minute delay has tried everybody, and found
\* nobody loading or failing to start; the 30 minutes need that all earned.
LongDelayOnlyAfterAll ==
  [][(timer' # timer /\ timer' \in {"blocked", "eligible"}) =>
       /\ visited = Inst
       /\ outcomes \cap {"loading", "infraFailed"} = {}
       /\ timer' = "eligible" => outcomes \subseteq {"eligible"}]_vars

\* Whatever its path, a flow that ends with auto-run on either has confirmed a
\* start or leaves a scan timer armed; nothing else would wake auto-run.
EndsStartedOrArmed ==
  [][(pc # "idle" /\ pc' = "idle" /\ enabled) => timer' # "off" \/ Started]_vars

\* What the scanner's caller can tell of it.
Stage   == IF pc = "idle" THEN "idle" ELSE IF pc = "start" THEN "starting" ELSE "looking"
Trouble == outcomes \cap {"loading", "infraFailed"} # {}
WakeUp  == IF timer = "off" THEN "off" ELSE IF timer = "loading" THEN "soon" ELSE "late"

Contract == INSTANCE ScanContract WITH
  stage <- Stage, tried <- visited, trouble <- Trouble, wakeup <- WakeUp

\* The scanner keeps the promises ScanContract states, whatever the chain, the
\* backend and the user do meanwhile: from the outside its awaits, its two paths
\* and its anchors are one scan that tries everybody once.
KeepsContract == Contract!Safety

\* Every scan ends: it does not go round in circles.
FlowsEnd == Contract!Ends
=============================================================================
