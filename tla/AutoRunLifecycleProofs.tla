----------------------- MODULE AutoRunLifecycleProofs -----------------------
(***************************************************************************)
(* The invariants of AutoRunLifecycle, proved for every set of instances.  *)
(***************************************************************************)
EXTENDS AutoRunLifecycle, TLAPS

-----------------------------------------------------------------------------
(* Type correctness.                                                       *)

LEMMA InitType == Init => TypeOK
BY NoneIsNoInstance DEF Init, TypeOK, Flows, Rotations, PCs, DirtySet

LEMMA CommitType == ASSUME TypeOK, Toggle \/ PollDeployments \/ Commit PROVE TypeOK'
<1>1. CASE Toggle
  BY <1>1, NoneIsNoInstance
  DEF Toggle, Effects, MayBegin, TypeOK, Flows, Rotations, PCs, DirtySet, world
<1>2. CASE PollDeployments
  <2>1. FirstActive(deployed) \in Inst \cup {None}
    BY DEF FirstActive, TypeOK
  <2> QED
    BY <1>2, <2>1, NoneIsNoInstance
    DEF PollDeployments, Effects, MayBegin, TypeOK, Flows, Rotations, PCs, DirtySet, world
<1>3. CASE Commit
  BY <1>3, NoneIsNoInstance
  DEF Commit, Effects, MayBegin, TypeOK, Flows, Rotations, PCs, DirtySet, world
<1> QED BY <1>1, <1>2, <1>3

\* The part of TypeOK about the flows themselves.
FlowType ==
  /\ isRotating \in BOOLEAN
  /\ pc \in [Flows -> PCs]
  /\ current \in [Rotations -> Inst \cup {None}]
  /\ \A k \in Rotations : current[k] = None <=> pc[k] = "idle"
  /\ longRun \in BOOLEAN
  /\ lostBy \in {"none", "drift", "cancelled", "threw"}

\* A flow that goes on to another await keeps that part.
LEMMA GoToType ==
  ASSUME TypeOK, NEW k \in Flows, NEW to \in PCs \ {"idle"}, GoTo(k, to),
         pc[k] # "idle"
  PROVE  FlowType'
BY DEF GoTo, TypeOK, FlowType, Flows

\* So does a flow that ends.
LEMMA FinishType ==
  ASSUME TypeOK, NEW k \in Flows,
         NEW why \in {"none", "drift", "cancelled", "threw"},
         Finish(k, why)
  PROVE  FlowType'
BY DEF Finish, TypeOK, FlowType, Flows, PCs

\* What rotateToNext does before its first await.
LEMMA BeginRotateType ==
  ASSUME TypeOK, NEW k \in Rotations, NEW i, BeginRotate(k, i), pc[k] # "idle"
  PROVE  FlowType' /\ scanTimer' \in BOOLEAN
<1>1. k \in Flows /\ "others" \in PCs \ {"idle"} /\ scanTimer \in BOOLEAN /\ enabled \in BOOLEAN
  BY DEF Flows, PCs, TypeOK
<1>2. CASE Others(i) = {}
  BY <1>1, <1>2, FinishType DEF BeginRotate, Schedule
<1>3. CASE Others(i) # {}
  BY <1>1, <1>3, GoToType DEF BeginRotate
<1> QED BY <1>2, <1>3

LEMMA FinishStartupType ==
  ASSUME TypeOK, NEW armed \in BOOLEAN,
         NEW why \in {"none", "drift", "cancelled", "threw"},
         FinishStartup(armed, why)
  PROVE  FlowType' /\ scanTimer' \in BOOLEAN /\ reachedScan' \in BOOLEAN
<1> DEFINE net == ~reachedScan /\ enabled /\ running = None /\ ~armed
           how == IF net \/ armed THEN "none" ELSE why
<1>1. how \in {"none", "drift", "cancelled", "threw"} /\ "startup" \in Flows
  BY DEF Flows
<1>2. Finish("startup", how)
  BY DEF FinishStartup
<1> HIDE DEF how
<1> QED BY <1>1, <1>2, FinishType DEF FinishStartup, TypeOK

LEMMA EndFlowType ==
  ASSUME TypeOK, NEW k \in Flows, NEW armed \in BOOLEAN,
         NEW why \in {"none", "drift", "cancelled", "threw"},
         EndFlow(k, armed, why)
  PROVE  /\ FlowType' /\ scanTimer' \in BOOLEAN /\ reachedScan' \in BOOLEAN
         /\ candidate' = None /\ visited' = {}
<1>1. enabled \in BOOLEAN /\ scanTimer \in BOOLEAN /\ reachedScan \in BOOLEAN
  BY DEF TypeOK
<1>2. CASE k = "startup"
  <2>1. scanTimer \/ (armed /\ enabled) \in BOOLEAN
    BY <1>1
  <2> QED BY <1>2, <2>1, FinishStartupType DEF EndFlow
<1>3. CASE k # "startup"
  BY <1>1, <1>3, FinishType DEF EndFlow
<1> QED BY <1>2, <1>3

-----------------------------------------------------------------------------
LEMMA RotationType ==
  ASSUME TypeOK, NEW k \in Rotations, RotationStep(k)
  PROVE  TypeOK'
<1> USE DEF FlowType
<1>1. k \in Flows /\ {"stop", "cooldown", "scan"} \subseteq PCs \ {"idle"}
  BY DEF Flows, PCs
<1>2. ASSUME NEW answer \in [Others(current[k]) -> Rewards], OthersRefreshed(k, answer)
      PROVE  TypeOK'
  <2>1. FlowType' /\ scanTimer' \in BOOLEAN
    BY <1>1, <1>2, GoToType, FinishType DEF OthersRefreshed, Schedule, TypeOK
  <2>2. earned' \in SUBSET Inst /\ dirty' \in DirtySet
    BY <1>2 DEF OthersRefreshed, Refreshed, Others, TypeOK, DirtySet
  <2> QED BY <1>2, <2>1, <2>2 DEF OthersRefreshed, TypeOK, scanVars, world
<1>3. CASE StopOk(k)
  <2>1. FlowType'
    BY <1>1, <1>3, GoToType, FinishType DEF StopOk
  <2> QED BY <1>3, <2>1 DEF StopOk, TypeOK, scanVars, world
<1>4. CASE StopFailed(k)
  <2>1. FlowType' /\ current[k] \in Inst
    BY <1>1, <1>4, FinishType DEF StopFailed, TypeOK
  <2> QED BY <1>4, <2>1 DEF StopFailed, Schedule, TypeOK, scanVars, world
<1>5. ASSUME NEW onTime \in BOOLEAN, RotationCooled(k, onTime)
      PROVE  TypeOK'
  <2>1. FlowType'
    BY <1>1, <1>5, GoToType, FinishType DEF RotationCooled, BeginScan
  <2> QED BY <1>5, <2>1 DEF RotationCooled, BeginScan, TypeOK, world, refs
<1>6. CASE RotationThrows(k)
  <2>1. FlowType'
    BY <1>1, <1>6, FinishType DEF RotationThrows
  <2> QED BY <1>6, <2>1 DEF RotationThrows, Schedule, TypeOK, world
<1> QED BY <1>2, <1>3, <1>4, <1>5, <1>6 DEF RotationStep

LEMMA RewardsType ==
  ASSUME TypeOK, NEW answer \in Rewards, RewardsRefreshed(answer)
  PROVE  TypeOK'
<1>1. /\ "rewards" \in Rotations /\ "rewards" \in Flows
      /\ current["rewards"] \in Inst /\ pc["rewards"] # "idle"
  BY DEF RewardsRefreshed, TypeOK, Rotations, Flows
<1>2. FlowType' /\ scanTimer' \in BOOLEAN
  <2>1. CASE ~isActive \/ current["rewards"] \in backoff
    BY <1>1, <2>1, FinishType DEF RewardsRefreshed, TypeOK
  <2>2. CASE ~(~isActive \/ current["rewards"] \in backoff)
    BY <1>1, <2>2, FinishType, BeginRotateType DEF RewardsRefreshed, TypeOK
  <2> QED BY <2>1, <2>2
<1>3. earned' \in SUBSET Inst /\ dirty' \in DirtySet
  BY <1>1 DEF RewardsRefreshed, Refreshed, TypeOK, DirtySet
<1> QED
  BY <1>1, <1>2, <1>3 DEF RewardsRefreshed, FlowType, TypeOK, scanVars, world

LEMMA StartupType ==
  ASSUME TypeOK, StartupStep
  PROVE  TypeOK'
<1> USE DEF FlowType
<1>1. "startup" \in Flows /\ {"selected", "scan"} \subseteq PCs \ {"idle"}
  BY DEF Flows, PCs
<1>2. ASSUME NEW onTime \in BOOLEAN, StartupDelayed(onTime)
      PROVE  TypeOK'
  <2>1. FlowType' /\ scanTimer' \in BOOLEAN /\ reachedScan' \in BOOLEAN
    BY <1>1, <1>2, GoToType, FinishStartupType DEF StartupDelayed, TypeOK
  <2> QED BY <1>2, <2>1 DEF StartupDelayed, TypeOK, world, refs
<1>3. ASSUME NEW armed \in BOOLEAN, SelectedSkipped(armed)
      PROVE  TypeOK'
  <2>1. FlowType'
    BY <1>1, <1>3, GoToType DEF SelectedSkipped
  <2> QED BY <1>3, <2>1 DEF SelectedSkipped, TypeOK, world, refs
<1>4. CASE StartupThrows
  <2>1. FlowType' /\ scanTimer' \in BOOLEAN /\ reachedScan' \in BOOLEAN
    BY <1>1, <1>4, FinishStartupType DEF StartupThrows, TypeOK
  <2> QED BY <1>4, <2>1 DEF StartupThrows, TypeOK, world, refs
<1> QED BY <1>2, <1>3, <1>4 DEF StartupStep

LEMMA CandidateType ==
  ASSUME TypeOK, NEW k \in Flows, CandidateStep(k)
  PROVE  TypeOK'
<1> USE DEF FlowType
<1>1. {"scan", "start", "startSelected"} \subseteq PCs \ {"idle"}
  BY DEF PCs
<1>2. ASSUME NEW i \in Inst, NEW answer \in Rewards, NEW canRun \in BOOLEAN,
             Consider(k, i, answer, canRun)
      PROVE  TypeOK'
  BY <1>2 DEF Consider, TypeOK, DirtySet, flowVars, world
<1>3. CASE BeginStart(k)
  <2>1. FlowType'
    BY <1>1, <1>3, GoToType DEF BeginStart
  <2> QED BY <1>3, <2>1 DEF BeginStart, TypeOK, DirtySet, world, refs
<1>4. CASE SkipCandidate(k)
  BY <1>4 DEF SkipCandidate, TypeOK, flowVars, world, refs
<1>5. CASE ScanGivesUp(k)
  <2>1. /\ FlowType' /\ scanTimer' \in BOOLEAN /\ reachedScan' \in BOOLEAN
        /\ candidate' = None /\ visited' = {}
    BY <1>5, EndFlowType DEF ScanGivesUp
  <2> QED BY <1>5, <2>1 DEF ScanGivesUp, TypeOK, world, refs
<1>6. CASE StartConfirmed(k)
  <2>1. /\ FlowType' /\ scanTimer' \in BOOLEAN /\ reachedScan' \in BOOLEAN
        /\ candidate' = None /\ visited' = {}
    BY <1>6, EndFlowType DEF StartConfirmed, TypeOK
  <2> QED BY <1>6, <2>1 DEF StartConfirmed, StartSettled, TypeOK, DirtySet, world, refs
<1>7. CASE StartFails(k)
  <2>1. /\ FlowType' /\ scanTimer' \in BOOLEAN /\ reachedScan' \in BOOLEAN
        /\ candidate' = None /\ visited' \in SUBSET Inst
    <3>1. CASE ~enabled \/ (pc[k] = "startSelected" /\ Others(candidate) = {})
      BY <1>7, <3>1, EndFlowType DEF StartFails
    <3>2. CASE ~(~enabled \/ (pc[k] = "startSelected" /\ Others(candidate) = {}))
      BY <1>1, <1>7, <3>2, GoToType DEF StartFails, Starting, TypeOK
    <3> QED BY <3>1, <3>2
  <2> QED BY <1>7, <2>1 DEF StartFails, StartSettled, TypeOK, DirtySet, world, refs
<1> QED BY <1>2, <1>3, <1>4, <1>5, <1>6, <1>7 DEF CandidateStep
LEMMA SameFlowType == ASSUME TypeOK, UNCHANGED <<pc, current>> PROVE
  /\ pc' \in [Flows -> PCs]
  /\ current' \in [Rotations -> Inst \cup {None}]
  /\ \A k \in Rotations : current'[k] = None <=> pc'[k] = "idle"
BY DEF TypeOK

\* A start is under way only for some candidate.
StartHasCandidate == \A k \in Flows : Starting(k) => candidate # None

LEMMA WorldType ==
  ASSUME TypeOK, StartHasCandidate,
         \/ TimerFires \/ Render \/ WatchdogFires \/ WorldStep
         \/ \E i \in Inst, value \in BOOLEAN : RewardsTick(i, value)
         \/ \E k \in Flows : StartIssued(k)
         \/ UNCHANGED vars
  PROVE  TypeOK'
<1> USE DEF flowVars, scanVars, world, refs
<1>1. CASE TimerFires
  BY <1>1, SameFlowType DEF TimerFires, TypeOK, DirtySet
<1>2. CASE Render
  BY <1>2, SameFlowType DEF Render, TypeOK, DirtySet
<1>3. CASE UNCHANGED vars
  BY <1>3, SameFlowType DEF vars, TypeOK
<1>4. CASE WatchdogFires
  <2>1. running \in Inst /\ "watchdog" \in Rotations /\ "watchdog" \in Flows /\ "others" \in PCs
    BY <1>4 DEF WatchdogFires, TypeOK, Rotations, Flows, PCs
  <2>2. FlowType' /\ scanTimer' \in BOOLEAN
    <3>1. CASE Others(running) = {}
      BY <1>4, <3>1, SameFlowType DEF WatchdogFires, TypeOK, FlowType
    <3>2. CASE Others(running) # {}
      <4>1. /\ isRotating' = TRUE /\ longRun' = FALSE /\ lostBy' = "none"
            /\ pc' = [pc EXCEPT !["watchdog"] = "others"]
            /\ current' = [current EXCEPT !["watchdog"] = running]
            /\ scanTimer' = scanTimer
        BY <1>4, <3>2 DEF WatchdogFires
      <4>2. pc' \in [Flows -> PCs] /\ current' \in [Rotations -> Inst \cup {None}]
        BY <2>1, <4>1 DEF TypeOK
      <4>3. \A k \in Rotations : current'[k] = None <=> pc'[k] = "idle"
        BY <2>1, <4>1, NoneIsNoInstance DEF TypeOK, Flows
      <4> QED BY <4>1, <4>2, <4>3 DEF FlowType, TypeOK
    <3> QED BY <3>1, <3>2
  <2> QED BY <1>4, <2>2 DEF WatchdogFires, TypeOK, FlowType
<1>5. ASSUME NEW i \in Inst, NEW value \in BOOLEAN, RewardsTick(i, value)
      PROVE  TypeOK'
  <2>1. earned' \in SUBSET Inst
    BY <1>5 DEF RewardsTick, TypeOK
  <2> QED BY <1>5, <2>1, SameFlowType DEF RewardsTick, TypeOK, DirtySet
<1>6. ASSUME NEW k \in Flows, StartIssued(k)
      PROVE  TypeOK'
  <2>1. requested' \in SUBSET Inst
    BY <1>6 DEF StartIssued, StartHasCandidate, TypeOK
  <2> QED BY <1>6, <2>1, SameFlowType DEF StartIssued, TypeOK
<1>7. CASE WorldStep
  <2>1. ASSUME NEW i \in Inst, NEW ok \in BOOLEAN, RequestAnswered(i, ok)
        PROVE  TypeOK'
    BY <2>1, SameFlowType DEF RequestAnswered, TypeOK
  <2>2. ASSUME NEW i \in Inst, DeploymentEnds(i) \/ ManualStart(i) \/ BackoffExpires(i)
        PROVE  TypeOK'
    BY <2>2, SameFlowType DEF DeploymentEnds, ManualStart, BackoffExpires, TypeOK
  <2>3. CASE RuntimeElapses
    BY <2>3, SameFlowType DEF RuntimeElapses, TypeOK
  <2> QED BY <1>7, <2>1, <2>2, <2>3 DEF WorldStep
<1> QED BY <1>1, <1>2, <1>3, <1>4, <1>5, <1>6, <1>7

LEMMA StepType == TypeOK /\ StartHasCandidate /\ [Next]_vars => TypeOK'
<1> SUFFICES ASSUME TypeOK, StartHasCandidate, [Next]_vars PROVE TypeOK'
  OBVIOUS
<1>1. CASE Toggle \/ PollDeployments \/ Commit
  BY <1>1, CommitType
<1>2. CASE FlowStep
  BY <1>2, RewardsType, RotationType, StartupType, CandidateType DEF FlowStep
<1> QED BY <1>1, <1>2, WorldType DEF Next

-----------------------------------------------------------------------------
(* Mutual exclusion of the flows.                                          *)

\* OneFlow seen from a flow that is under way: it is the only one.
LEMMA OnlyFlow ==
  ASSUME OneFlow, NEW k \in Flows, pc[k] # "idle"
  PROVE  isRotating /\ \A j \in Flows : j # k => pc[j] = "idle"
BY DEF OneFlow

\* The only flow goes on, or ends.
LEMMA GoToOne ==
  ASSUME TypeOK, OneFlow, NEW k \in Flows, pc[k] # "idle",
         NEW to \in PCs \ {"idle"}, GoTo(k, to)
  PROVE  OneFlow'
BY OnlyFlow DEF GoTo, OneFlow, TypeOK

LEMMA FinishOne ==
  ASSUME TypeOK, OneFlow, NEW k \in Flows, pc[k] # "idle", NEW why, Finish(k, why)
  PROVE  OneFlow'
BY OnlyFlow DEF Finish, OneFlow, TypeOK

LEMMA CommitOne ==
  ASSUME TypeOK, OneFlow, NEW rotation \in BOOLEAN, Effects(rotation),
         enabled' \in BOOLEAN
  PROVE  OneFlow'
<1>1. isRotating \in BOOLEAN /\ pc \in [Flows -> PCs] /\ {"rewards", "startup"} \subseteq Flows
  BY DEF TypeOK, Flows, Rotations
<1>2. CASE rotation /\ MayBegin /\ running' # None
  BY <1>1, <1>2 DEF Effects, MayBegin, OneFlow
<1>3. CASE MayBegin /\ running' = None
  BY <1>1, <1>3 DEF Effects, MayBegin, OneFlow
<1>4. CASE ~(rotation /\ MayBegin /\ running' # None) /\ ~(MayBegin /\ running' = None)
  <2>1. pc' = pc /\ isRotating' = isRotating
    BY <1>1, <1>4 DEF Effects
  <2> QED BY <2>1 DEF OneFlow
<1> QED BY <1>2, <1>3, <1>4

\* A step of flow k: it goes on to one of the awaits, or ends.
Advances(k) ==
  /\ pc[k] # "idle"
  /\ \/ \E to \in PCs \ {"idle"} : GoTo(k, to)
     \/ \E why : Finish(k, why)
     \/ UNCHANGED <<pc, isRotating>>

LEMMA AdvancesOne ==
  ASSUME TypeOK, OneFlow, NEW k \in Flows, Advances(k)
  PROVE  OneFlow'
<1>1. CASE UNCHANGED <<pc, isRotating>>
  BY <1>1 DEF OneFlow
<1> QED BY <1>1, GoToOne, FinishOne DEF Advances

LEMMA EndFlowAdvances ==
  ASSUME NEW k \in Flows, pc[k] # "idle", NEW armed, NEW why, EndFlow(k, armed, why)
  PROVE  Advances(k)
BY DEF EndFlow, FinishStartup, Advances

\* Every step of a flow is of that form.
LEMMA FlowAdvances ==
  ASSUME TypeOK, FlowStep
  PROVE  \E k \in Flows : Advances(k)
<1>1. Rotations \subseteq Flows /\ {"rewards", "startup"} \subseteq Flows
  BY DEF Flows, Rotations
<1>2. {"others", "stop", "cooldown", "selected", "scan", "start", "startSelected"}
        \subseteq PCs \ {"idle"}
  BY DEF PCs
<1>3. ASSUME NEW answer \in Rewards, RewardsRefreshed(answer)
      PROVE  Advances("rewards")
  BY <1>2, <1>3 DEF RewardsRefreshed, BeginRotate, Advances
<1>4. ASSUME NEW k \in Rotations, RotationStep(k)
      PROVE  Advances(k)
  <2>1. CASE \E answer \in [Others(current[k]) -> Rewards] : OthersRefreshed(k, answer)
    BY <1>2, <2>1 DEF OthersRefreshed, Advances
  <2>2. CASE StopOk(k) \/ StopFailed(k)
    BY <1>2, <2>2 DEF StopOk, StopFailed, Advances
  <2>3. CASE \E onTime \in BOOLEAN : RotationCooled(k, onTime)
    BY <1>2, <2>3 DEF RotationCooled, BeginScan, Advances
  <2>4. CASE RotationThrows(k)
    BY <2>4 DEF RotationThrows, Advances
  <2> QED BY <1>4, <2>1, <2>2, <2>3, <2>4 DEF RotationStep
<1>5. ASSUME StartupStep PROVE Advances("startup")
  BY <1>2, <1>5 DEF StartupStep, StartupDelayed, SelectedSkipped, StartupThrows,
                    FinishStartup, Advances
<1>6. ASSUME NEW k \in Flows, CandidateStep(k)
      PROVE  Advances(k)
  <2>1. CASE \E i \in Inst, answer \in Rewards, canRun \in BOOLEAN :
               Consider(k, i, answer, canRun)
    BY <2>1 DEF Consider, flowVars, Advances
  <2>2. CASE BeginStart(k) \/ SkipCandidate(k)
    BY <1>2, <2>2 DEF BeginStart, SkipCandidate, flowVars, Advances
  <2>3. CASE ScanGivesUp(k)
    BY <2>3, EndFlowAdvances DEF ScanGivesUp
  <2>4. CASE StartConfirmed(k)
    BY <2>4, EndFlowAdvances DEF StartConfirmed, Starting
  <2>5. CASE StartFails(k)
    <3>1. pc[k] # "idle"
      BY <2>5 DEF StartFails, Starting
    <3> QED BY <1>2, <2>5, <3>1, EndFlowAdvances DEF StartFails, Advances
  <2> QED BY <1>6, <2>1, <2>2, <2>3, <2>4, <2>5 DEF CandidateStep
<1>7. CASE \E answer \in Rewards : RewardsRefreshed(answer)
  BY <1>1, <1>3, <1>7
<1>8. CASE \E k \in Rotations : RotationStep(k)
  BY <1>1, <1>4, <1>8
<1>9. CASE StartupStep
  BY <1>1, <1>5, <1>9
<1>10. CASE \E k \in Flows : CandidateStep(k)
  BY <1>6, <1>10
<1> QED BY <1>7, <1>8, <1>9, <1>10 DEF FlowStep

LEMMA InitOne == Init => OneFlow
BY DEF Init, OneFlow

LEMMA StepOne == TypeOK /\ TypeOK' /\ OneFlow /\ [Next]_vars => OneFlow'
<1> SUFFICES ASSUME TypeOK, TypeOK', OneFlow, [Next]_vars PROVE OneFlow'
  OBVIOUS
<1>1. CASE Toggle \/ PollDeployments \/ Commit
  <2>1. enabled' \in BOOLEAN
    BY DEF TypeOK
  <2>2. \E rotation \in BOOLEAN : Effects(rotation)
    BY <1>1 DEF Toggle, PollDeployments, Commit
  <2> QED BY <2>1, <2>2, CommitOne
<1>2. CASE FlowStep
  BY <1>2, FlowAdvances, AdvancesOne
<1>3. CASE WatchdogFires
  <2>1. CASE Others(running) = {}
    BY <1>3, <2>1 DEF WatchdogFires, OneFlow
  <2>2. CASE Others(running) # {}
    <3>1. "watchdog" \in Flows
      BY DEF Flows, Rotations
    <3> QED BY <1>3, <2>2, <3>1 DEF WatchdogFires, OneFlow, TypeOK
  <2> QED BY <2>1, <2>2
<1>4. CASE UNCHANGED <<pc, isRotating>>
  BY <1>4 DEF OneFlow
<1>5. ASSUME \/ TimerFires \/ Render \/ WorldStep \/ UNCHANGED vars
             \/ \E i \in Inst, value \in BOOLEAN : RewardsTick(i, value)
             \/ \E k \in Flows : StartIssued(k)
      PROVE  UNCHANGED <<pc, isRotating>>
  BY <1>5 DEF TimerFires, Render, RewardsTick, StartIssued, WorldStep, RequestAnswered,
              DeploymentEnds, ManualStart, BackoffExpires, RuntimeElapses, flowVars, vars
<1> QED BY <1>1, <1>2, <1>3, <1>4, <1>5 DEF Next

-----------------------------------------------------------------------------
(* A start has its candidate.                                              *)

LEMMA InitCandidate == Init => StartHasCandidate
BY DEF Init, StartHasCandidate, Starting

LEMMA StepCandidate ==
  TypeOK /\ OneFlow /\ StartHasCandidate /\ [Next]_vars => StartHasCandidate'
<1> SUFFICES ASSUME TypeOK, OneFlow, StartHasCandidate, [Next]_vars,
                    NEW j \in Flows, Starting(j)'
             PROVE  candidate' # None
  BY DEF StartHasCandidate
<1>1. Starting(j) /\ candidate' = candidate => candidate' # None
  BY DEF StartHasCandidate
<1>2. pc[j] # "idle" => \A k \in Flows : pc[k] # "idle" => k = j
  BY DEF OneFlow
<1>3. CASE Toggle \/ PollDeployments \/ Commit
  BY <1>1, <1>3 DEF Toggle, PollDeployments, Commit, Effects, Starting, TypeOK, Flows
<1>4. ASSUME NEW answer \in Rewards, RewardsRefreshed(answer)
      PROVE  candidate' # None
  BY <1>1, <1>4 DEF RewardsRefreshed, BeginRotate, GoTo, Finish, Starting, TypeOK, scanVars, Flows, Rotations
<1>5. ASSUME NEW k \in Rotations, RotationStep(k)
      PROVE  candidate' # None
  <2>1. k \in Flows
    BY DEF Flows
  <2>2. CASE \E answer \in [Others(current[k]) -> Rewards] : OthersRefreshed(k, answer)
    BY <1>1, <2>1, <2>2 DEF OthersRefreshed, GoTo, Finish, Starting, TypeOK, scanVars
  <2>3. CASE StopOk(k) \/ StopFailed(k)
    BY <1>1, <2>1, <2>3 DEF StopOk, StopFailed, GoTo, Finish, Starting, TypeOK, scanVars
  <2>4. CASE \E onTime \in BOOLEAN : RotationCooled(k, onTime)
    BY <1>1, <2>1, <2>4 DEF RotationCooled, BeginScan, GoTo, Finish, Starting, TypeOK
  <2>5. CASE RotationThrows(k)
    BY <1>2, <2>1, <2>5 DEF RotationThrows, Finish, Starting, TypeOK
  <2> QED BY <1>5, <2>2, <2>3, <2>4, <2>5 DEF RotationStep
<1>6. CASE StartupStep
  <2>1. "startup" \in Flows
    BY DEF Flows
  <2>2. CASE \E onTime \in BOOLEAN : StartupDelayed(onTime)
    BY <1>1, <2>1, <2>2 DEF StartupDelayed, FinishStartup, GoTo, Finish, Starting, TypeOK
  <2>3. CASE \E armed \in BOOLEAN : SelectedSkipped(armed)
    BY <1>2, <2>1, <2>3 DEF SelectedSkipped, GoTo, Starting, TypeOK
  <2>4. CASE StartupThrows
    BY <1>2, <2>1, <2>4 DEF StartupThrows, FinishStartup, Finish, Starting, TypeOK
  <2> QED BY <1>6, <2>2, <2>3, <2>4 DEF StartupStep
<1>7. ASSUME NEW k \in Flows, CandidateStep(k)
      PROVE  candidate' # None
  <2>1. CASE \E i \in Inst, answer \in Rewards, canRun \in BOOLEAN :
               Consider(k, i, answer, canRun)
    BY <1>2, <2>1 DEF Consider, Starting, flowVars
  <2>2. CASE BeginStart(k)
    BY <2>2 DEF BeginStart
  <2>3. CASE SkipCandidate(k)
    BY <1>2, <2>3 DEF SkipCandidate, Starting, flowVars
  <2>4. ASSUME NEW armed, NEW why, EndFlow(k, armed, why), pc[k] # "idle"
        PROVE  FALSE
    BY <1>2, <2>4 DEF EndFlow, FinishStartup, Finish, Starting, TypeOK
  <2>5. CASE ScanGivesUp(k) \/ StartConfirmed(k)
    BY <2>4, <2>5 DEF ScanGivesUp, StartConfirmed, Starting
  <2>6. CASE StartFails(k)
    BY <1>2, <2>4, <2>6 DEF StartFails, GoTo, Starting, TypeOK
  <2> QED BY <1>7, <2>1, <2>2, <2>3, <2>5, <2>6 DEF CandidateStep
<1>8. CASE WatchdogFires
  BY <1>1, <1>8 DEF WatchdogFires, Starting, TypeOK, scanVars, Flows, Rotations
<1>9. ASSUME \/ TimerFires \/ Render \/ WorldStep \/ UNCHANGED vars
             \/ \E i \in Inst, value \in BOOLEAN : RewardsTick(i, value)
             \/ \E k \in Flows : StartIssued(k)
      PROVE  UNCHANGED <<pc, candidate>>
  BY <1>9 DEF TimerFires, Render, RewardsTick, StartIssued, WorldStep, RequestAnswered,
              DeploymentEnds, ManualStart, BackoffExpires, RuntimeElapses, flowVars,
              scanVars, vars
<1>10. CASE FlowStep
  BY <1>4, <1>5, <1>6, <1>7, <1>10 DEF FlowStep
<1> QED BY <1>1, <1>3, <1>8, <1>9, <1>10 DEF Next, Starting

\* The first inductive invariant.
Shape == TypeOK /\ OneFlow /\ StartHasCandidate

LEMMA ShapeInvariant == Spec => []Shape
<1>1. Init => Shape
  BY InitType, InitOne, InitCandidate DEF Shape
<1>2. Shape /\ [Next]_vars => Shape'
  BY StepType, StepOne, StepCandidate DEF Shape
<1> QED BY <1>1, <1>2, PTL DEF Spec

\* Every variable keeps its type, for every set of instances.
THEOREM TypeCorrect == Spec => []TypeOK
<1>1. Shape => TypeOK
  BY DEF Shape
<1> QED BY <1>1, ShapeInvariant, PTL

\* isRotatingRef excludes the three flows from each other in every reachable
\* state, and is up exactly while one of them is under way.
THEOREM FlowsExclude == Spec => []OneFlow
<1>1. Shape => OneFlow
  BY DEF Shape
<1> QED BY <1>1, ShapeInvariant, PTL

-----------------------------------------------------------------------------
(* The rotation guard survives a failed stop.                              *)

LEMMA StepGuard ==
  BackoffKeepsGuardOpen /\ [Next]_vars => BackoffKeepsGuardOpen'
<1> SUFFICES ASSUME backoff \cap guarded = {}, [Next]_vars
             PROVE  backoff' \cap guarded' = {}
  BY DEF BackoffKeepsGuardOpen
<1> USE DEF refs
<1>1. CASE Toggle \/ PollDeployments \/ Commit
  BY <1>1 DEF Toggle, PollDeployments, Commit, Effects
<1>2. CASE \E answer \in Rewards : RewardsRefreshed(answer)
  BY <1>2 DEF RewardsRefreshed
<1>3. CASE \E k \in Rotations : RotationStep(k)
  BY <1>3 DEF RotationStep, OthersRefreshed, StopOk, StopFailed, RotationCooled, RotationThrows
<1>4. CASE StartupStep
  BY <1>4 DEF StartupStep, StartupDelayed, SelectedSkipped, StartupThrows
<1>5. CASE \E k \in Flows : CandidateStep(k)
  BY <1>5 DEF CandidateStep, Consider, BeginStart, SkipCandidate, ScanGivesUp,
              StartConfirmed, StartFails
<1>6. CASE \/ TimerFires \/ Render \/ WatchdogFires \/ WorldStep \/ UNCHANGED vars
           \/ \E i \in Inst, value \in BOOLEAN : RewardsTick(i, value)
           \/ \E k \in Flows : StartIssued(k)
  BY <1>6 DEF TimerFires, Render, WatchdogFires, RewardsTick, StartIssued, WorldStep,
              RequestAnswered, DeploymentEnds, ManualStart, BackoffExpires,
              RuntimeElapses, vars
<1> QED BY <1>1, <1>2, <1>3, <1>4, <1>5, <1>6 DEF Next, FlowStep

\* The fixed stop-timeout deadlock cannot come back: no step writes the rotation
\* guard of an instance inside its backoff window.
THEOREM GuardStaysOpen == Spec => []BackoffKeepsGuardOpen
<1>1. Init => BackoffKeepsGuardOpen
  BY DEF Init, BackoffKeepsGuardOpen
<1> QED BY <1>1, StepGuard, PTL DEF Spec

-----------------------------------------------------------------------------
(* Nothing is armed while auto-run is off.                                 *)

LEMMA EndFlowOff ==
  ASSUME NothingArmedWhileOff, NEW k, NEW armed, NEW why, EndFlow(k, armed, why)
  PROVE  scanTimer' => enabled
BY DEF NothingArmedWhileOff, EndFlow, FinishStartup

LEMMA StepOff ==
  TypeOK /\ NothingArmedWhileOff /\ [Next]_vars => NothingArmedWhileOff'
<1> SUFFICES ASSUME TypeOK, NothingArmedWhileOff, [Next]_vars
             PROVE  (scanTimer' => enabled') /\ (isStarting' => enabled')
  BY DEF NothingArmedWhileOff
<1> USE DEF scanVars
<1>a. /\ (scanTimer => enabled) /\ (isStarting => enabled)
      /\ enabled \in BOOLEAN /\ scanTimer \in BOOLEAN /\ isStarting \in BOOLEAN
  BY DEF NothingArmedWhileOff, TypeOK
<1>1. CASE Toggle \/ PollDeployments \/ Commit
  BY <1>1 DEF Toggle, PollDeployments, Commit, Effects
<1>2. CASE \E answer \in Rewards : RewardsRefreshed(answer)
  BY <1>a, <1>2 DEF RewardsRefreshed, BeginRotate, Schedule
<1>3. CASE \E k \in Rotations : RotationStep(k)
  BY <1>a, <1>3 DEF RotationStep, OthersRefreshed, StopOk, StopFailed, RotationCooled,
                    RotationThrows, Schedule
<1>4. CASE StartupStep
  BY <1>a, <1>4 DEF StartupStep, StartupDelayed, SelectedSkipped, StartupThrows, FinishStartup
<1>5. ASSUME NEW k \in Flows, CandidateStep(k)
      PROVE  (scanTimer' => enabled') /\ (isStarting' => enabled')
  <2>1. CASE \E i \in Inst, answer \in Rewards, canRun \in BOOLEAN :
               Consider(k, i, answer, canRun)
    BY <1>a, <2>1 DEF Consider
  <2>2. CASE BeginStart(k) \/ SkipCandidate(k)
    BY <1>a, <2>2 DEF BeginStart, SkipCandidate
  <2>3. CASE ScanGivesUp(k)
    <3>1. scanTimer' => enabled
      BY <2>3, EndFlowOff DEF ScanGivesUp
    <3> QED BY <1>a, <2>3, <3>1 DEF ScanGivesUp
  <2>4. CASE StartConfirmed(k)
    <3>1. scanTimer' => enabled
      BY <2>4, EndFlowOff DEF StartConfirmed
    <3> QED BY <1>a, <2>4, <3>1 DEF StartConfirmed, StartSettled
  <2>5. CASE StartFails(k)
    BY <1>a, <2>5, EndFlowOff DEF StartFails, StartSettled
  <2> QED BY <1>5, <2>1, <2>2, <2>3, <2>4, <2>5 DEF CandidateStep
<1>6. CASE \/ TimerFires \/ Render \/ WatchdogFires \/ WorldStep \/ UNCHANGED vars
           \/ \E i \in Inst, value \in BOOLEAN : RewardsTick(i, value)
           \/ \E k \in Flows : StartIssued(k)
  BY <1>a, <1>6 DEF TimerFires, Render, WatchdogFires, RewardsTick, StartIssued, WorldStep,
              RequestAnswered, DeploymentEnds, ManualStart, BackoffExpires,
              RuntimeElapses, vars
<1> QED BY <1>1, <1>2, <1>3, <1>4, <1>5, <1>6 DEF Next, FlowStep

\* However long a flow outlives the switch, it arms no timer and shows no start
\* once auto-run is off.
THEOREM OffIsSilent == Spec => []NothingArmedWhileOff
<1>1. Init => NothingArmedWhileOff
  BY DEF Init, NothingArmedWhileOff
<1> QED BY <1>1, StepOff, TypeCorrect, PTL DEF Spec

-----------------------------------------------------------------------------
(* The loop goes quiet only after an ending that wakes nothing.            *)

\* A rewards check that was not cancelled still looks at the running instance.
ActiveIsRunning ==
  pc["rewards"] = "refresh" /\ isActive => running = current["rewards"]

\* reachedScan is up only once the startup flow is past its selected instance.
ReachedLate == reachedScan => pc["startup"] \in {"scan", "start"}

\* A start under way is shown, and the switch is still on: it was locked.
StartShown == \A k \in Flows : Starting(k) => isStarting /\ enabled

Wakeful ==
  ActiveIsRunning /\ ReachedLate /\ StartShown /\ QuietOnlyAfterLostWakeup

\* A step of flow k that does not take it to the refresh.
Proceeds(k) ==
  /\ pc[k] # "idle"
  /\ running' = running /\ isActive' = isActive
  /\ \/ \E to \in PCs \ {"idle", "refresh"} : GoTo(k, to)
     \/ \E why : Finish(k, why)
     \/ UNCHANGED flowVars

LEMMA EndFlowProceeds ==
  ASSUME NEW k, pc[k] # "idle", NEW armed, NEW why, EndFlow(k, armed, why),
         UNCHANGED <<running, isActive>>
  PROVE  Proceeds(k)
BY DEF EndFlow, FinishStartup, Proceeds

LEMMA FlowProceeds ==
  ASSUME \/ \E k \in Rotations : RotationStep(k)
         \/ StartupStep
         \/ \E k \in Flows : CandidateStep(k)
  PROVE  \E k \in Flows : Proceeds(k)
<1>1. Rotations \subseteq Flows /\ "startup" \in Flows
  BY DEF Flows
<1>2. {"others", "stop", "cooldown", "selected", "scan", "start", "startSelected"}
        \subseteq PCs \ {"idle", "refresh"}
  BY DEF PCs
<1>3. ASSUME NEW k \in Rotations, RotationStep(k) PROVE Proceeds(k)
  <2>1. CASE \E answer \in [Others(current[k]) -> Rewards] : OthersRefreshed(k, answer)
    BY <1>2, <2>1 DEF OthersRefreshed, Proceeds
  <2>2. CASE StopOk(k) \/ StopFailed(k)
    BY <1>2, <2>2 DEF StopOk, StopFailed, Proceeds
  <2>3. CASE \E onTime \in BOOLEAN : RotationCooled(k, onTime)
    BY <1>2, <2>3 DEF RotationCooled, BeginScan, Proceeds
  <2>4. CASE RotationThrows(k)
    BY <2>4 DEF RotationThrows, Proceeds
  <2> QED BY <1>3, <2>1, <2>2, <2>3, <2>4 DEF RotationStep
<1>4. ASSUME StartupStep PROVE Proceeds("startup")
  BY <1>2, <1>4 DEF StartupStep, StartupDelayed, SelectedSkipped, StartupThrows,
                    FinishStartup, Proceeds
<1>5. ASSUME NEW k \in Flows, CandidateStep(k) PROVE Proceeds(k)
  <2>1. CASE \E i \in Inst, answer \in Rewards, canRun \in BOOLEAN :
               Consider(k, i, answer, canRun)
    BY <2>1 DEF Consider, Proceeds
  <2>2. CASE BeginStart(k) \/ SkipCandidate(k)
    BY <1>2, <2>2 DEF BeginStart, SkipCandidate, Proceeds
  <2>3. CASE ScanGivesUp(k)
    BY <2>3, EndFlowProceeds DEF ScanGivesUp
  <2>4. CASE StartConfirmed(k)
    BY <2>4, EndFlowProceeds DEF StartConfirmed, Starting
  <2>5. CASE StartFails(k)
    <3>1. pc[k] # "idle"
      BY <2>5 DEF StartFails, Starting
    <3> QED BY <1>2, <2>5, <3>1, EndFlowProceeds DEF StartFails, Proceeds
  <2> QED BY <1>5, <2>1, <2>2, <2>3, <2>4, <2>5 DEF CandidateStep
<1> QED BY <1>1, <1>3, <1>4, <1>5

LEMMA StepActive ==
  Shape /\ ActiveIsRunning /\ [Next]_vars => ActiveIsRunning'
<1> SUFFICES ASSUME TypeOK, OneFlow, ActiveIsRunning, [Next]_vars,
                    pc'["rewards"] = "refresh", isActive'
             PROVE  running' = current'["rewards"]
  BY DEF Shape, ActiveIsRunning
<1>0. {"rewards", "watchdog", "startup"} \subseteq Flows /\ {"rewards", "watchdog"} \subseteq Rotations
  BY DEF Flows, Rotations
<1>1. CASE Toggle \/ PollDeployments \/ Commit
  BY <1>0, <1>1 DEF Toggle, PollDeployments, Commit, Effects, ActiveIsRunning, TypeOK
<1>2. CASE \E answer \in Rewards : RewardsRefreshed(answer)
  BY <1>2 DEF RewardsRefreshed
<1>3. ASSUME NEW k \in Flows, Proceeds(k)
      PROVE  running' = current'["rewards"]
  BY <1>0, <1>3 DEF Proceeds, GoTo, Finish, ActiveIsRunning, TypeOK, flowVars
<1>4. CASE WatchdogFires
  BY <1>0, <1>4 DEF WatchdogFires, ActiveIsRunning, TypeOK
<1>5. ASSUME \/ TimerFires \/ Render \/ WorldStep \/ UNCHANGED vars
             \/ \E i \in Inst, value \in BOOLEAN : RewardsTick(i, value)
             \/ \E k \in Flows : StartIssued(k)
      PROVE  UNCHANGED <<pc, isActive, running, current>>
  BY <1>5 DEF TimerFires, Render, RewardsTick, StartIssued, WorldStep, RequestAnswered,
              DeploymentEnds, ManualStart, BackoffExpires, RuntimeElapses, flowVars, vars
<1>6. CASE UNCHANGED <<pc, isActive, running, current>>
  BY <1>6 DEF ActiveIsRunning
<1> QED BY <1>1, <1>2, <1>3, <1>4, <1>5, <1>6, FlowProceeds DEF Next, FlowStep

LEMMA StepReached ==
  Shape /\ ReachedLate /\ [Next]_vars => ReachedLate'
<1> SUFFICES ASSUME TypeOK, OneFlow, ReachedLate, [Next]_vars, reachedScan'
             PROVE  pc'["startup"] \in {"scan", "start"}
  BY DEF Shape, ReachedLate
<1> USE DEF scanVars
<1>0. {"rewards", "watchdog", "startup"} \subseteq Flows /\ Rotations = {"rewards", "watchdog"}
  BY DEF Flows, Rotations
<1>a. pc["startup"] # "idle" => \A k \in Flows : pc[k] # "idle" => k = "startup"
  BY <1>0 DEF OneFlow
<1>1. CASE Toggle \/ PollDeployments \/ Commit
  BY <1>0, <1>a, <1>1 DEF Toggle, PollDeployments, Commit, Effects, MayBegin, OneFlow, ReachedLate, TypeOK
<1>2. CASE \E answer \in Rewards : RewardsRefreshed(answer)
  BY <1>0, <1>a, <1>2 DEF RewardsRefreshed, ReachedLate
<1>3. ASSUME NEW k \in Rotations, RotationStep(k)
      PROVE  pc'["startup"] \in {"scan", "start"}
  BY <1>0, <1>a, <1>3 DEF RotationStep, OthersRefreshed, StopOk, StopFailed, RotationCooled,
                          RotationThrows, ReachedLate
<1>4. CASE StartupStep
  BY <1>0, <1>4 DEF StartupStep, StartupDelayed, SelectedSkipped, StartupThrows, FinishStartup,
                    GoTo, ReachedLate, TypeOK
<1>5. ASSUME NEW k \in Flows, CandidateStep(k)
      PROVE  pc'["startup"] \in {"scan", "start"}
  BY <1>0, <1>a, <1>5 DEF CandidateStep, Consider, BeginStart, SkipCandidate, ScanGivesUp,
       StartConfirmed, StartFails, Starting, EndFlow, FinishStartup, GoTo, ReachedLate, TypeOK, flowVars
<1>6. CASE WatchdogFires
  BY <1>0, <1>a, <1>6 DEF WatchdogFires, ReachedLate, OneFlow
<1>7. ASSUME \/ TimerFires \/ Render \/ WorldStep \/ UNCHANGED vars
             \/ \E i \in Inst, value \in BOOLEAN : RewardsTick(i, value)
             \/ \E k \in Flows : StartIssued(k)
      PROVE  UNCHANGED <<pc, reachedScan>>
  BY <1>7 DEF TimerFires, Render, RewardsTick, StartIssued, WorldStep, RequestAnswered,
              DeploymentEnds, ManualStart, BackoffExpires, RuntimeElapses, flowVars, vars
<1>8. CASE UNCHANGED <<pc, reachedScan>>
  BY <1>8 DEF ReachedLate
<1> QED BY <1>1, <1>2, <1>3, <1>4, <1>5, <1>6, <1>7, <1>8 DEF Next, FlowStep

LEMMA StepShown ==
  Shape /\ StartShown /\ [Next]_vars => StartShown'
<1> SUFFICES ASSUME TypeOK, OneFlow, StartShown, [Next]_vars,
                    NEW j \in Flows, Starting(j)'
             PROVE  isStarting' /\ enabled'
  BY DEF Shape, StartShown
<1> USE DEF Starting, scanVars
<1>0. {"rewards", "watchdog", "startup"} \subseteq Flows /\ Rotations = {"rewards", "watchdog"}
  BY DEF Flows, Rotations
<1>a. \A k \in Flows : pc[k] # "idle" /\ pc[j] # "idle" => k = j
  BY DEF OneFlow
<1>b. Starting(j) => isStarting /\ enabled
  BY DEF StartShown
<1>1. CASE Toggle \/ PollDeployments \/ Commit
  BY <1>0, <1>b, <1>1 DEF Toggle, PollDeployments, Commit, Effects, TypeOK
<1>2. CASE \E answer \in Rewards : RewardsRefreshed(answer)
  BY <1>0, <1>b, <1>2 DEF RewardsRefreshed, BeginRotate, GoTo, Finish, TypeOK
<1>3. ASSUME NEW k \in Rotations, RotationStep(k)
      PROVE  isStarting' /\ enabled'
  BY <1>0, <1>b, <1>3 DEF RotationStep, OthersRefreshed, StopOk, StopFailed, RotationCooled,
                          RotationThrows, BeginScan, GoTo, Finish, TypeOK
<1>4. CASE StartupStep
  BY <1>0, <1>b, <1>4 DEF StartupStep, StartupDelayed, SelectedSkipped, StartupThrows,
                          FinishStartup, GoTo, Finish, TypeOK
<1>5. ASSUME NEW k \in Flows, CandidateStep(k)
      PROVE  isStarting' /\ enabled'
  <2>1. CASE \/ \E i \in Inst, answer \in Rewards, canRun \in BOOLEAN :
                   Consider(k, i, answer, canRun)
             \/ BeginStart(k)
             \/ SkipCandidate(k)
    BY <1>b, <2>1 DEF Consider, BeginStart, SkipCandidate, GoTo, flowVars, TypeOK
  <2>2. CASE ScanGivesUp(k) \/ StartConfirmed(k) \/ StartFails(k)
    <3>1. pc[k] # "idle" /\ pc' \in {[pc EXCEPT ![k] = "idle"], [pc EXCEPT ![k] = "scan"]}
      BY <2>2 DEF ScanGivesUp, StartConfirmed, StartFails, EndFlow, FinishStartup, Finish, GoTo
    <3>2. k # j /\ pc[j] # "idle"
      BY <3>1 DEF TypeOK
    <3> QED BY <1>a, <1>5, <3>1, <3>2
  <2> QED BY <1>5, <2>1, <2>2 DEF CandidateStep
<1>6. CASE WatchdogFires
  BY <1>0, <1>b, <1>6 DEF WatchdogFires, TypeOK
<1>7. ASSUME \/ TimerFires \/ Render \/ WorldStep \/ UNCHANGED vars
             \/ \E i \in Inst, value \in BOOLEAN : RewardsTick(i, value)
             \/ \E k \in Flows : StartIssued(k)
      PROVE  UNCHANGED <<pc, isStarting, enabled>>
  BY <1>7 DEF TimerFires, Render, RewardsTick, StartIssued, WorldStep, RequestAnswered,
              DeploymentEnds, ManualStart, BackoffExpires, RuntimeElapses, flowVars, vars
<1>8. CASE UNCHANGED <<pc, isStarting, enabled>>
  BY <1>b, <1>8
<1> QED BY <1>1, <1>2, <1>3, <1>4, <1>5, <1>6, <1>7, <1>8 DEF Next, FlowStep

\* A flow that ends quietly says why, unless it leaves a timer or a render.
LEMMA FinishStartupLoud ==
  ASSUME Shape, NEW armed \in BOOLEAN, NEW why, FinishStartup(armed, why),
         UNCHANGED <<enabled, running>>,
         ~reachedScan \/ armed \/ why # "none"
  PROVE  QuietOnlyAfterLostWakeup'
BY DEF Shape, TypeOK, FinishStartup, Finish, QuietOnlyAfterLostWakeup, Quiet

LEMMA EndFlowLoud ==
  ASSUME Shape, NEW k \in Flows, NEW armed \in BOOLEAN, NEW why, EndFlow(k, armed, why),
         UNCHANGED <<enabled, running>>,
         armed \/ why # "none"
  PROVE  QuietOnlyAfterLostWakeup'
<1>1. enabled \in BOOLEAN /\ scanTimer \in BOOLEAN
  BY DEF Shape, TypeOK
<1>2. CASE ~enabled
  BY <1>2 DEF QuietOnlyAfterLostWakeup, Quiet
<1>3. CASE enabled /\ k = "startup"
  <2>1. /\ scanTimer \/ (armed /\ enabled) \in BOOLEAN
        /\ ~reachedScan \/ (scanTimer \/ (armed /\ enabled)) \/ why # "none"
    BY <1>1, <1>3
  <2> QED BY <1>3, <2>1, FinishStartupLoud DEF EndFlow
<1>4. CASE enabled /\ k # "startup"
  BY <1>1, <1>4 DEF EndFlow, Finish, QuietOnlyAfterLostWakeup, Quiet
<1> QED BY <1>1, <1>2, <1>3, <1>4

LEMMA StepQuiet ==
  Shape /\ Wakeful /\ [Next]_vars => QuietOnlyAfterLostWakeup'
<1> SUFFICES ASSUME Shape, Wakeful, [Next]_vars, Quiet'
             PROVE  lostBy' # "none"
  BY DEF QuietOnlyAfterLostWakeup
<1>0. /\ {"rewards", "watchdog", "startup"} \subseteq Flows
      /\ Rotations = {"rewards", "watchdog"}
  BY DEF Flows, Rotations
<1>t. /\ enabled \in BOOLEAN /\ scanTimer \in BOOLEAN /\ isRotating \in BOOLEAN
      /\ reachedScan \in BOOLEAN /\ isStarting \in BOOLEAN
      /\ enabled' /\ running' = None /\ ~isRotating' /\ ~scanTimer' /\ dirty' = "none"
  BY DEF Shape, TypeOK, Quiet
<1>f. (\E k \in Flows : pc[k] # "idle") => isRotating
  BY DEF Shape, OneFlow
<1>s. QuietOnlyAfterLostWakeup' => lostBy' # "none"
  BY DEF QuietOnlyAfterLostWakeup
<1>1. CASE Toggle \/ PollDeployments \/ Commit
  BY <1>t, <1>1 DEF Toggle, PollDeployments, Commit, Effects, MayBegin
<1>2. CASE \E answer \in Rewards : RewardsRefreshed(answer)
  <2>1. current["rewards"] # None
    BY <1>0, <1>2 DEF RewardsRefreshed, Shape, TypeOK
  <2>2. ~isActive
    BY <1>t, <1>2, <2>1 DEF RewardsRefreshed, Wakeful, ActiveIsRunning
  <2> QED BY <1>t, <1>2, <2>2 DEF RewardsRefreshed, Finish
<1>3. ASSUME NEW k \in Rotations, RotationStep(k)
      PROVE  lostBy' # "none"
  <2>1. pc[k] # "idle"
    BY <1>3 DEF RotationStep, OthersRefreshed, StopOk, StopFailed, RotationCooled, RotationThrows
  <2>2. isRotating
    BY <1>0, <1>f, <2>1
  <2>3. CASE \E answer \in [Others(current[k]) -> Rewards] : OthersRefreshed(k, answer)
    BY <1>t, <2>2, <2>3 DEF OthersRefreshed, Schedule, GoTo, Finish
  <2>4. CASE StopOk(k) \/ StopFailed(k)
    BY <1>t, <2>2, <2>4 DEF StopOk, StopFailed, Schedule, GoTo
  <2>5. CASE \E onTime \in BOOLEAN : RotationCooled(k, onTime)
    BY <1>t, <2>2, <2>5 DEF RotationCooled, BeginScan, GoTo, Finish, refs
  <2>6. CASE RotationThrows(k)
    BY <1>t, <2>6 DEF RotationThrows, Schedule
  <2> QED BY <1>3, <2>3, <2>4, <2>5, <2>6 DEF RotationStep
<1>4. CASE StartupStep
  <2>1. ASSUME NEW onTime \in BOOLEAN, StartupDelayed(onTime)
        PROVE  lostBy' # "none"
    <3>1. isRotating /\ ~reachedScan
      BY <1>0, <1>f, <2>1 DEF StartupDelayed, Wakeful, ReachedLate
    <3>2. ~GoTo("startup", "selected")
      BY <1>t, <3>1 DEF GoTo
    <3>3. FinishStartup(scanTimer, "none") /\ UNCHANGED <<enabled, running>>
      BY <2>1, <3>2 DEF StartupDelayed
    <3> QED BY <1>t, <1>s, <3>1, <3>3, FinishStartupLoud
  <2>2. CASE \E armed \in BOOLEAN : SelectedSkipped(armed)
    BY <1>0, <1>t, <1>f, <2>2 DEF SelectedSkipped, GoTo
  <2>3. CASE StartupThrows
    BY <1>t, <1>s, <2>3, FinishStartupLoud DEF StartupThrows
  <2> QED BY <1>4, <2>1, <2>2, <2>3 DEF StartupStep
<1>5. ASSUME NEW k \in Flows, CandidateStep(k)
      PROVE  lostBy' # "none"
  <2>1. pc[k] # "idle"
    BY <1>5 DEF CandidateStep, Consider, BeginStart, SkipCandidate, ScanGivesUp,
                StartConfirmed, StartFails, Starting
  <2>2. isRotating
    BY <1>f, <2>1
  <2>3. CASE \E i \in Inst, answer \in Rewards, canRun \in BOOLEAN :
               Consider(k, i, answer, canRun)
    BY <1>t, <2>3 DEF Consider
  <2>4. CASE BeginStart(k) \/ SkipCandidate(k)
    BY <1>t, <2>2, <2>4 DEF BeginStart, SkipCandidate, GoTo, flowVars
  <2>5. CASE ScanGivesUp(k)
    BY <1>s, <2>5, EndFlowLoud DEF ScanGivesUp
  <2>6. CASE StartConfirmed(k)
    <3>1. isStarting
      BY <2>6 DEF StartConfirmed, Wakeful, StartShown
    <3> QED BY <1>t, <2>6, <3>1 DEF StartConfirmed, StartSettled
  <2>7. CASE StartFails(k)
    BY <1>s, <1>t, <2>2, <2>7, EndFlowLoud DEF StartFails, GoTo
  <2> QED BY <1>5, <2>3, <2>4, <2>5, <2>6, <2>7 DEF CandidateStep
<1>6. CASE TimerFires \/ Render \/ WatchdogFires \/ \E i \in Inst, value \in BOOLEAN : RewardsTick(i, value)
  BY <1>t, <1>6 DEF TimerFires, Render, WatchdogFires, RewardsTick
<1>7. ASSUME WorldStep \/ UNCHANGED vars \/ \E k \in Flows : StartIssued(k)
      PROVE  UNCHANGED <<enabled, running, isRotating, scanTimer, dirty, lostBy>>
  BY <1>7 DEF StartIssued, WorldStep, RequestAnswered, DeploymentEnds, ManualStart,
              BackoffExpires, RuntimeElapses, flowVars, vars
<1>8. CASE UNCHANGED <<enabled, running, isRotating, scanTimer, dirty, lostBy>>
  BY <1>8 DEF Wakeful, QuietOnlyAfterLostWakeup, Quiet
<1> QED BY <1>1, <1>2, <1>3, <1>4, <1>5, <1>6, <1>7, <1>8 DEF Next, FlowStep

\* The loop goes quiet only after one of the endings lostBy names, whatever the
\* set of instances: every other ending leaves a timer, a render or a flow.
THEOREM QuietIsExplained == Spec => []QuietOnlyAfterLostWakeup
<1>1. Init => Wakeful
  BY DEF Init, Wakeful, ActiveIsRunning, ReachedLate, StartShown, Starting,
         QuietOnlyAfterLostWakeup, Quiet
<1>2. Shape /\ Wakeful /\ [Next]_vars => Wakeful'
  BY StepActive, StepReached, StepShown, StepQuiet DEF Wakeful
<1>3. Wakeful => QuietOnlyAfterLostWakeup
  BY DEF Wakeful
<1> QED BY <1>1, <1>2, <1>3, ShapeInvariant, PTL DEF Spec
=============================================================================
