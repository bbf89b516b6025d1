----------------------- MODULE DeploymentPageProofs ------------------------
(***************************************************************************)
(* What the agent page keeps for any number of instances, handlers and     *)
(* clicks: nothing temporary is orphaned, and a start that no earlier      *)
(* handler overlaps shows as busy.  The invariant adds what the two rest   *)
(* on: the one switch under way belongs to the open page and its instance, *)
(* and a fresh start is the only handler of its instance.                  *)
(***************************************************************************)
EXTENDS DeploymentPage, TLAPS

Busy(k) ==
  /\ flow[k].kind = "start" /\ flow[k].fresh
  /\ flow[k].at \in {"updating", "requested", "refreshing"}

\* The handler of a contract switch and the page that shows it.
SwitchOnItsPage ==
  /\ \A k \in Slots : flow[k].kind = "switch" =>
       page = "switch" /\ switch = "in_progress" /\ flow[k].of = selected
  /\ \A j, k \in Slots :
       flow[j].kind = "switch" /\ flow[k].kind = "switch" => j = k
  /\ switch \in {"in_progress", "completed"} => page = "switch"

\* A fresh start has its instance to itself, and no switch page open for it.
FreshStartIsAlone ==
  \A k \in Slots : Busy(k) =>
    /\ \A j \in Slots : j # k => flow[j].of # flow[k].of
    /\ page = "switch" => flow[k].of # selected

Inv == /\ TypeOK /\ SwitchOnItsPage /\ FreshStartIsAlone
       /\ OverridesHaveOwners /\ FreshStartShowsBusy

\* A flow is idle or a handler with the stages of its kind.
LEMMA FlowShape ==
  ASSUME NEW f
  PROVE  f \in Flows <=>
           \E kind \in Kinds, i \in Inst, fresh \in BOOLEAN : \E at \in Stages[kind] :
             f = [kind |-> kind, of |-> i, at |-> at, fresh |-> fresh]
  BY SMT DEF Flows, Kinds, Stages

LEMMA HandlerFields ==
  ASSUME NEW f \in Flows
  PROVE  /\ f.kind \in Kinds /\ f.of \in Inst /\ f.fresh \in BOOLEAN
         /\ f.at \in Stages[f.kind] /\ f # Idle
         /\ f = [kind |-> f.kind, of |-> f.of, at |-> f.at, fresh |-> f.fresh]
<1>1. PICK kind \in Kinds, i \in Inst, fresh \in BOOLEAN : \E at \in Stages[kind] :
             f = [kind |-> kind, of |-> i, at |-> at, fresh |-> fresh]
  BY FlowShape
<1>2. PICK at \in Stages[kind] :
             f = [kind |-> kind, of |-> i, at |-> at, fresh |-> fresh]
  BY <1>1
<1>3. kind # "none"
  BY DEF Kinds
<1> QED BY <1>2, <1>3 DEF Idle

\* A handler that goes on to a stage of its kind is still one.
LEMMA NextStage ==
  ASSUME NEW f \in Flows, NEW at \in Stages[f.kind]
  PROVE  [f EXCEPT !.at = at] \in Flows
<1>1. /\ f.kind \in Kinds /\ f.of \in Inst /\ f.fresh \in BOOLEAN
      /\ f = [kind |-> f.kind, of |-> f.of, at |-> f.at, fresh |-> f.fresh]
  BY HandlerFields
<1>2. [f EXCEPT !.at = at] =
        [kind |-> f.kind, of |-> f.of, at |-> at, fresh |-> f.fresh]
  BY <1>1
<1> QED BY <1>1, <1>2, FlowShape

LEMMA IdleFields ==
  Idle.kind = "none" /\ Idle.of = None /\ Idle.at = "none" /\ Idle.fresh = FALSE
  BY DEF Idle

LEMMA StageFacts ==
  /\ "updating" \in Stages["start"] /\ "requested" \in Stages["start"]
  /\ "refreshing" \in Stages["start"] /\ "lingering" \in Stages["start"]
  /\ "requested" \in Stages["stop"] /\ "resetting" \in Stages["stop"]
  /\ "updating" \in Stages["switch"] /\ "requested" \in Stages["switch"]
  /\ Kinds = {"start", "stop", "switch"} /\ "none" \notin Kinds
  BY DEF Stages, Kinds

\* The three ways in which the handlers change.
LEMMA Begins ==
  ASSUME TypeOK, NEW kind \in Kinds, NEW at \in Stages[kind], Begin(kind, at)
  PROVE  /\ flow' \in [Slots -> Flows \cup {Idle}] /\ clicks' \in 0..MaxClicks
         /\ \E k \in Slots :
              /\ flow[k] = Idle
              /\ flow'[k].kind = kind /\ flow'[k].of = selected /\ flow'[k].at = at
              /\ flow'[k].fresh => FlowsOf(selected) = {}
              /\ flow'[k] \in Flows
              /\ \A j \in Slots : j # k => flow'[j] = flow[j]
<1> DEFINE new == [kind |-> kind, of |-> selected, at |-> at,
                   fresh |-> FlowsOf(selected) = {}]
<1>1. PICK k \in Slots : flow[k] = Idle /\ flow' = [flow EXCEPT ![k] = new]
  BY DEF Begin
<1>2. (FlowsOf(selected) = {}) \in BOOLEAN
  OBVIOUS
<1>3. selected \in Inst
  BY DEF TypeOK
<1>4. new \in Flows
  BY <1>2, <1>3, FlowShape
<1>5. clicks' \in 0..MaxClicks
  BY BoundsAssumption DEF Begin, TypeOK
<1>6. flow \in [Slots -> Flows \cup {Idle}]
  BY DEF TypeOK
<1>8. /\ new.kind = kind /\ new.of = selected /\ new.at = at
      /\ new.fresh => FlowsOf(selected) = {}
  OBVIOUS
<1> HIDE DEF new
<1>7. /\ flow' \in [Slots -> Flows \cup {Idle}] /\ flow'[k] = new
      /\ \A j \in Slots : j # k => flow'[j] = flow[j]
  BY <1>1, <1>4, <1>6
<1> QED BY <1>1, <1>4, <1>5, <1>7, <1>8

LEMMA Going ==
  ASSUME TypeOK, NEW k \in Slots, flow[k].kind \in Kinds,
         NEW at \in Stages[flow[k].kind], Goes(k, at)
  PROVE  /\ flow' \in [Slots -> Flows \cup {Idle}]
         /\ flow[k] \in Flows /\ flow'[k] \in Flows
         /\ flow'[k].kind = flow[k].kind /\ flow'[k].of = flow[k].of
         /\ flow'[k].at = at /\ flow'[k].fresh = flow[k].fresh
         /\ \A j \in Slots : j # k => flow'[j] = flow[j]
<1>1. flow \in [Slots -> Flows \cup {Idle}] /\ flow[k] # Idle
  BY IdleFields, StageFacts DEF TypeOK
<1>2. flow[k] \in Flows
  BY <1>1
<1>3. [flow[k] EXCEPT !.at = at] \in Flows
  BY <1>2, NextStage
<1>4. flow[k] = [kind |-> flow[k].kind, of |-> flow[k].of, at |-> flow[k].at,
                 fresh |-> flow[k].fresh]
  BY <1>2, HandlerFields
<1>5. flow' = [flow EXCEPT ![k] = [flow[k] EXCEPT !.at = at]]
  BY DEF Goes
<1>6. [flow[k] EXCEPT !.at = at] =
        [kind |-> flow[k].kind, of |-> flow[k].of, at |-> at, fresh |-> flow[k].fresh]
  BY <1>4
<1>7. flow'[k] = [flow[k] EXCEPT !.at = at]
  BY <1>1, <1>5
<1>8. flow' \in [Slots -> Flows \cup {Idle}] /\ \A j \in Slots : j # k => flow'[j] = flow[j]
  BY <1>1, <1>3, <1>5
<1> QED BY <1>2, <1>3, <1>6, <1>7, <1>8

LEMMA Ending ==
  ASSUME TypeOK, NEW k \in Slots, Ends(k)
  PROVE  /\ flow' \in [Slots -> Flows \cup {Idle}] /\ flow'[k] = Idle
         /\ \A j \in Slots : j # k => flow'[j] = flow[j]
  BY DEF TypeOK, Ends

\* What is not idle is a handler of one of the instances.
LEMMA HandlerOfInstance ==
  ASSUME TypeOK, NEW k \in Slots
  PROVE  /\ flow[k] = Idle \/ flow[k] \in Flows
         /\ flow[k].kind \in Kinds => flow[k] \in Flows /\ flow[k].of \in Inst
         /\ flow[k].of \in Inst => flow[k] \in Flows
         /\ flow[k] # Idle => flow[k].of \in Inst /\ flow[k].kind \in Kinds
         /\ flow[k] \in Flows => flow[k].at \in Stages[flow[k].kind]
<1>1. flow[k] = Idle \/ flow[k] \in Flows
  BY DEF TypeOK
<1>2. CASE flow[k] = Idle
  BY <1>2, IdleFields, StageFacts, NoneAssumption, HandlerFields
<1>3. CASE flow[k] \in Flows
  BY <1>3, HandlerFields
<1> QED BY <1>1, <1>2, <1>3

-----------------------------------------------------------------------------
(* Types.                                                                  *)

LEMMA TypeStep == TypeOK /\ [Next]_vars => TypeOK'
<1> SUFFICES ASSUME TypeOK, [Next]_vars PROVE TypeOK'
  OBVIOUS
<1> USE StageFacts
<1>1. CASE ClickStart
  <2>1. flow' \in [Slots -> Flows \cup {Idle}] /\ clicks' \in 0..MaxClicks
    BY <1>1, Begins DEF ClickStart
  <2> QED BY <1>1, <2>1 DEF TypeOK, ClickStart, Override, Active
<1>2. CASE ClickPause
  <2>1. flow' \in [Slots -> Flows \cup {Idle}] /\ clicks' \in 0..MaxClicks
    BY <1>2, Begins DEF ClickPause
  <2> QED BY <1>2, <2>1 DEF TypeOK, ClickPause, Override, Active, Statuses
<1>3. CASE ClickSwitch
  <2>1. flow' \in [Slots -> Flows \cup {Idle}] /\ clicks' \in 0..MaxClicks
    BY <1>3, Begins DEF ClickSwitch
  <2> QED BY <1>3, <2>1 DEF TypeOK, ClickSwitch, Override, Active
<1>4. CASE OpenSwitch \/ SwitchErrorClosed \/ PollSucceeds \/ PollFails \/ WindowShown
  BY <1>4 DEF TypeOK, OpenSwitch, SwitchErrorClosed, PollSucceeds, PollFails, WindowShown
<1>5. ASSUME NEW i \in Inst, LeaveSwitch(i) \/ Select(i) PROVE TypeOK'
  BY <1>5 DEF TypeOK, LeaveSwitch, Select, Override
<1>6. ASSUME NEW k \in Slots, Advance(k) PROVE TypeOK'
  <2>1. CASE StartRequested(k)
    <3>1. flow' \in [Slots -> Flows \cup {Idle}]
      BY <2>1, Going DEF StartRequested
    <3> QED BY <2>1, <3>1 DEF TypeOK, StartRequested, Statuses
  <2>2. CASE StartAnswered(k)
    <3>1. flow' \in [Slots -> Flows \cup {Idle}]
      BY <2>2, Going DEF StartAnswered, At
    <3> QED BY <2>2, <3>1 DEF TypeOK, StartAnswered, Statuses
  <2>3. CASE StartFails(k)
    <3>1. flow' \in [Slots -> Flows \cup {Idle}]
      BY <2>3, Ending DEF StartFails
    <3>2. backend' \in [Inst -> Statuses]
      BY <2>3 DEF TypeOK, StartFails, Statuses
    <3> QED BY <2>3, <3>1, <3>2 DEF TypeOK, StartFails, Override
  <2>4. CASE StatesUpdated(k)
    <3>1. flow' \in [Slots -> Flows \cup {Idle}]
      BY <2>4, Going DEF StatesUpdated, At
    <3> QED BY <2>4, <3>1 DEF TypeOK, StatesUpdated, Override, Active
  <2>5. CASE LingerEnds(k)
    <3>1. flow' \in [Slots -> Flows \cup {Idle}]
      BY <2>5, Ending DEF LingerEnds
    <3> QED BY <2>5, <3>1 DEF TypeOK, LingerEnds, Override
  <2>6. CASE StopAnswered(k)
    <3>1. flow' \in [Slots -> Flows \cup {Idle}]
      BY <2>6, Going DEF StopAnswered, At
    <3> QED BY <2>6, <3>1 DEF TypeOK, StopAnswered, Statuses
  <2>7. CASE PauseReset(k)
    <3>1. flow' \in [Slots -> Flows \cup {Idle}]
      BY <2>7, Ending DEF PauseReset
    <3> QED BY <2>7, <3>1 DEF TypeOK, PauseReset, Override
  <2>8. CASE SwitchCompleted(k)
    <3>1. flow' \in [Slots -> Flows \cup {Idle}]
      BY <2>8, Ending DEF SwitchCompleted
    <3> QED BY <2>8, <3>1 DEF TypeOK, SwitchCompleted, Statuses
  <2>9. CASE SwitchFails(k)
    <3>1. flow' \in [Slots -> Flows \cup {Idle}]
      BY <2>9, Ending DEF SwitchFails
    <3>2. backend' \in [Inst -> Statuses]
      BY <2>9 DEF TypeOK, SwitchFails, Statuses
    <3> QED BY <2>9, <3>1, <3>2 DEF TypeOK, SwitchFails, Override
  <2> QED BY <1>6, <2>1, <2>2, <2>3, <2>4, <2>5, <2>6, <2>7, <2>8, <2>9 DEF Advance
<1>7. CASE UNCHANGED vars
  BY <1>7 DEF TypeOK, vars
<1> QED BY <1>1, <1>2, <1>3, <1>4, <1>5, <1>6, <1>7 DEF Next

LEMMA TypeInit == Init => TypeOK
<1> SUFFICES ASSUME Init PROVE TypeOK
  OBVIOUS
<1>1. backend \in [Inst -> Statuses]
  BY DEF Init, Statuses
<1>2. 0 \in 0..MaxClicks
  BY BoundsAssumption
<1>3. flow \in [Slots -> Flows \cup {Idle}]
  BY DEF Init
<1> QED BY <1>1, <1>2, <1>3 DEF Init, TypeOK

\* Every variable of the page keeps its type.
THEOREM TypeCorrect == Spec => []TypeOK
  BY TypeInit, TypeStep, PTL DEF Spec

-----------------------------------------------------------------------------
(* The switch under way and its page.                                      *)

LEMMA SwitchStep == TypeOK /\ SwitchOnItsPage /\ [Next]_vars => SwitchOnItsPage'
<1> SUFFICES ASSUME TypeOK, SwitchOnItsPage, [Next]_vars PROVE SwitchOnItsPage'
  OBVIOUS
<1> USE StageFacts
<1>1. CASE ClickStart \/ ClickPause
  <2>1. PICK k \in Slots :
          /\ flow'[k].kind \in {"start", "stop"}
          /\ \A j \in Slots : j # k => flow'[j] = flow[j]
    <3>1. CASE ClickStart
      BY <3>1, Begins DEF ClickStart
    <3>2. CASE ClickPause
      BY <3>2, Begins DEF ClickPause
    <3> QED BY <1>1, <3>1, <3>2
  <2> QED BY <1>1, <2>1 DEF SwitchOnItsPage, ClickStart, ClickPause
<1>2. CASE ClickSwitch
  <2>1. \A k \in Slots : flow[k].kind # "switch"
    BY <1>2 DEF ClickSwitch, SwitchOnItsPage
  <2>2. PICK k \in Slots : /\ flow'[k].kind = "switch" /\ flow'[k].of = selected
                          /\ \A j \in Slots : j # k => flow'[j] = flow[j]
    BY <1>2, Begins DEF ClickSwitch
  <2>3. \A j \in Slots : j # k => flow'[j].kind # "switch"
    BY <2>1, <2>2, Zenon
  <2> QED BY <1>2, <2>2, <2>3 DEF SwitchOnItsPage, ClickSwitch
<1>3. CASE OpenSwitch \/ SwitchErrorClosed \/ PollSucceeds \/ PollFails \/ WindowShown
  BY <1>3 DEF SwitchOnItsPage, OpenSwitch, SwitchErrorClosed, PollSucceeds,
              PollFails, WindowShown
<1>4. ASSUME NEW i \in Inst, LeaveSwitch(i) \/ Select(i) PROVE SwitchOnItsPage'
  BY <1>4 DEF SwitchOnItsPage, LeaveSwitch, Select
<1>5. ASSUME NEW k \in Slots, Advance(k) PROVE SwitchOnItsPage'
  <2>1. CASE StartRequested(k) \/ StartAnswered(k) \/ StatesUpdated(k) \/ StopAnswered(k)
    <3>1. /\ flow'[k].kind = flow[k].kind /\ flow'[k].of = flow[k].of
          /\ \A j \in Slots : j # k => flow'[j] = flow[j]
      <4>1. CASE StartRequested(k)
        BY <4>1, Going DEF StartRequested
      <4>2. CASE StartAnswered(k)
        BY <4>2, Going DEF StartAnswered, At
      <4>3. CASE StatesUpdated(k)
        BY <4>3, Going DEF StatesUpdated, At
      <4>4. CASE StopAnswered(k)
        BY <4>4, Going DEF StopAnswered, At
      <4> QED BY <2>1, <4>1, <4>2, <4>3, <4>4
    <3>2. UNCHANGED <<page, switch, selected>>
      BY <2>1 DEF StartRequested, StartAnswered, StatesUpdated, StopAnswered
    <3>3. \A j \in Slots : flow'[j].kind = flow[j].kind /\ flow'[j].of = flow[j].of
      BY <3>1
    <3> QED BY <3>2, <3>3 DEF SwitchOnItsPage
  <2>2. CASE StartFails(k) \/ LingerEnds(k) \/ PauseReset(k)
    <3>1. /\ flow'[k].kind = "none"
          /\ \A j \in Slots : j # k => flow'[j] = flow[j]
      BY <2>2, Ending, IdleFields DEF StartFails, LingerEnds, PauseReset
    <3>2. UNCHANGED <<page, switch, selected>>
      BY <2>2 DEF StartFails, LingerEnds, PauseReset
    <3> QED BY <3>1, <3>2 DEF SwitchOnItsPage
  <2>3. CASE SwitchCompleted(k) \/ SwitchFails(k)
    <3>1. flow[k].kind = "switch"
      BY <2>3 DEF SwitchCompleted, SwitchFails, At
    <3>2. /\ flow'[k].kind = "none"
          /\ \A j \in Slots : j # k => flow'[j] = flow[j]
      BY <2>3, Ending, IdleFields DEF SwitchCompleted, SwitchFails
    <3>3. \A j \in Slots : flow'[j].kind # "switch"
      BY <3>1, <3>2 DEF SwitchOnItsPage
    <3>4. page' = "switch"
      BY <2>3, <3>1 DEF SwitchOnItsPage, SwitchCompleted, SwitchFails
    <3> QED BY <3>3, <3>4 DEF SwitchOnItsPage
  <2> QED BY <1>5, <2>1, <2>2, <2>3 DEF Advance
<1>6. CASE UNCHANGED vars
  BY <1>6 DEF SwitchOnItsPage, vars
<1> QED BY <1>1, <1>2, <1>3, <1>4, <1>5, <1>6 DEF Next

-----------------------------------------------------------------------------
(* A fresh start.                                                          *)

Fresh == FreshStartIsAlone /\ FreshStartShowsBusy

\* Where no start is new, none becomes busy, and neither the instances of the
\* handlers, nor the page, nor the overrides of busy starts change, nothing is lost.
LEMMA FreshKept ==
  ASSUME Fresh,
         \A k \in Slots : Busy(k)' =>
            Busy(k) /\ flow'[k].of = flow[k].of /\ override'[flow[k].of] = override[flow[k].of],
         \A j \in Slots : flow'[j].of \in {flow[j].of, None},
         \A k \in Slots : Busy(k) => flow[k].of # None,
         \A k \in Slots : Busy(k) /\ page' = "switch" => flow[k].of # selected'
  PROVE  Fresh'
<1>1. ASSUME NEW k \in Slots, Busy(k)'
      PROVE  /\ \A j \in Slots : j # k => flow'[j].of # flow'[k].of
             /\ page' = "switch" => flow'[k].of # selected'
             /\ override'[flow'[k].of] = "deploying"
  <2>1. Busy(k) /\ flow'[k].of = flow[k].of /\ override'[flow[k].of] = override[flow[k].of]
    BY <1>1
  <2>2. override[flow[k].of] = "deploying"
    BY <2>1 DEF Fresh, FreshStartShowsBusy, Busy
  <2>3. \A j \in Slots : j # k => flow[j].of # flow[k].of
    BY <2>1 DEF Fresh, FreshStartIsAlone
  <2> QED BY <2>1, <2>2, <2>3
<1> QED BY <1>1 DEF Fresh, FreshStartIsAlone, FreshStartShowsBusy, Busy

LEMMA BusyOfInstance ==
  ASSUME TypeOK, NEW k \in Slots, Busy(k)
  PROVE  flow[k] \in Flows /\ flow[k].of \in Inst /\ flow[k].of # None
<1>1. flow[k].kind \in Kinds
  BY StageFacts DEF Busy
<1> QED BY <1>1, HandlerOfInstance, NoneAssumption

\* While a fresh start is busy its instance offers neither Start nor Pause.
LEMMA BusyIsNotOffered ==
  ASSUME TypeOK, Fresh, NEW k \in Slots, Busy(k), flow[k].of = selected
  PROVE  Shown(selected) \in Active /\ Shown(selected) # "deployed"
<1>1. override[selected] = "deploying"
  BY DEF Fresh, FreshStartShowsBusy, Busy
<1> QED BY <1>1, NoneAssumption DEF Shown, Active

\* A click for an instance without a busy fresh start.
LEMMA FreshAfterClick ==
  ASSUME TypeOK, Fresh, NEW k \in Slots, flow[k] = Idle,
         flow'[k].of = selected, flow'[k].fresh => FlowsOf(selected) = {},
         \A j \in Slots : j # k => flow'[j] = flow[j],
         \A j \in Slots : Busy(j) => flow[j].of # selected,
         UNCHANGED <<page, selected>>,
         flow'[k].kind = "start" => page = "main" /\ override'[selected] = "deploying",
         \A i \in Inst : i # selected => override'[i] = override[i]
  PROVE  Fresh'
<1>1. ASSUME NEW j \in Slots, Busy(j)'
      PROVE  /\ \A m \in Slots : m # j => flow'[m].of # flow'[j].of
             /\ page' = "switch" => flow'[j].of # selected'
             /\ override'[flow'[j].of] = "deploying"
  <2>1. CASE j = k
    <3>1. flow'[k].fresh /\ flow'[k].kind = "start"
      BY <1>1, <2>1 DEF Busy
    <3>2. FlowsOf(selected) = {}
      BY <3>1
    <3>3. \A m \in Slots : flow[m].of # selected
      BY <3>2 DEF FlowsOf
    <3> QED BY <2>1, <3>1, <3>3
  <2>2. CASE j # k
    <3>1. Busy(j) /\ flow'[j] = flow[j]
      BY <1>1, <2>2 DEF Busy
    <3>2. flow[j].of # selected /\ flow[j].of \in Inst
      BY <3>1, BusyOfInstance
    <3>3. override'[flow[j].of] = "deploying"
      BY <3>1, <3>2 DEF Fresh, FreshStartShowsBusy, Busy
    <3>4. \A m \in Slots : m # j => flow[m].of # flow[j].of
      BY <3>1 DEF Fresh, FreshStartIsAlone
    <3>5. \A m \in Slots : m # j => flow'[m].of # flow[j].of
      BY <3>2, <3>4
    <3> QED BY <3>1, <3>2, <3>3, <3>5
  <2> QED BY <2>1, <2>2
<1> QED BY <1>1 DEF Fresh, FreshStartIsAlone, FreshStartShowsBusy, Busy

\* A handler's own step: what it overrides is its instance's status.
LEMMA FreshAfterAdvance ==
  ASSUME TypeOK, Fresh, NEW k \in Slots, flow[k].of \in Inst,
         flow'[k].of \in {flow[k].of, None},
         Busy(k)' => Busy(k) /\ flow'[k].of = flow[k].of /\ UNCHANGED override,
         \A j \in Slots : j # k => flow'[j] = flow[j],
         UNCHANGED <<page, selected>>,
         \A i \in Inst : i # flow[k].of => override'[i] = override[i]
  PROVE  Fresh'
<1>1. ASSUME NEW j \in Slots, Busy(j)'
      PROVE  /\ Busy(j) /\ flow'[j].of = flow[j].of
             /\ override'[flow[j].of] = override[flow[j].of]
  <2>1. CASE j = k
    BY <1>1, <2>1
  <2>2. CASE j # k
    <3>1. Busy(j) /\ flow'[j] = flow[j]
      BY <1>1, <2>2 DEF Busy
    <3>2. flow[j].of \in Inst /\ flow[j].of # flow[k].of
      BY <2>2, <3>1, BusyOfInstance DEF Fresh, FreshStartIsAlone
    <3> QED BY <3>1, <3>2
  <2> QED BY <2>1, <2>2
<1>2. \A j \in Slots : flow'[j].of \in {flow[j].of, None}
  OBVIOUS
<1>3. \A j \in Slots : Busy(j) => flow[j].of # None
  BY BusyOfInstance
<1>4. \A j \in Slots : Busy(j) /\ page' = "switch" => flow[j].of # selected'
  BY DEF Fresh, FreshStartIsAlone
<1> QED BY <1>1, <1>2, <1>3, <1>4, FreshKept

LEMMA FreshStep == TypeOK /\ Fresh /\ [Next]_vars => Fresh'
<1> SUFFICES ASSUME TypeOK, Fresh, [Next]_vars PROVE Fresh'
  OBVIOUS
<1> USE StageFacts
<1>1. CASE ClickStart
  <2>1. \A j \in Slots : Busy(j) => flow[j].of # selected
    BY <1>1, BusyIsNotOffered DEF ClickStart
  <2>2. page = "main" /\ UNCHANGED <<page, selected>> /\ override'[selected] = "deploying"
    BY <1>1 DEF ClickStart, Override, TypeOK
  <2>3. \A i \in Inst : i # selected => override'[i] = override[i]
    BY <1>1 DEF ClickStart, Override, TypeOK
  <2>4. Begin("start", "updating")
    BY <1>1 DEF ClickStart
  <2> QED BY <2>1, <2>2, <2>3, <2>4, Begins, FreshAfterClick
<1>2. CASE ClickPause
  <2>1. \A j \in Slots : Busy(j) => flow[j].of # selected
    BY <1>2, BusyIsNotOffered DEF ClickPause
  <2>2. /\ UNCHANGED <<page, selected>>
        /\ \A i \in Inst : i # selected => override'[i] = override[i]
    BY <1>2 DEF ClickPause, Override, TypeOK
  <2>3. Begin("stop", "requested")
    BY <1>2 DEF ClickPause
  <2>4. PICK k \in Slots :
          /\ flow[k] = Idle /\ flow'[k].of = selected /\ flow'[k].kind = "stop"
          /\ flow'[k].fresh => FlowsOf(selected) = {}
          /\ \A j \in Slots : j # k => flow'[j] = flow[j]
    BY <2>3, Begins
  <2> QED BY <2>1, <2>2, <2>4, FreshAfterClick
<1>3. CASE ClickSwitch
  <2>1. \A j \in Slots : Busy(j) => flow[j].of # selected
    BY <1>3 DEF ClickSwitch, Fresh, FreshStartIsAlone
  <2>2. /\ UNCHANGED <<page, selected>>
        /\ \A i \in Inst : i # selected => override'[i] = override[i]
    BY <1>3 DEF ClickSwitch, Override, TypeOK
  <2>3. Begin("switch", "updating")
    BY <1>3 DEF ClickSwitch
  <2>4. PICK k \in Slots :
          /\ flow[k] = Idle /\ flow'[k].of = selected /\ flow'[k].kind = "switch"
          /\ flow'[k].fresh => FlowsOf(selected) = {}
          /\ \A j \in Slots : j # k => flow'[j] = flow[j]
    BY <2>3, Begins
  <2> QED BY <2>1, <2>2, <2>4, FreshAfterClick
<1>4. CASE \/ OpenSwitch \/ SwitchErrorClosed \/ PollSucceeds \/ PollFails \/ WindowShown
           \/ \E i \in Inst : LeaveSwitch(i) \/ Select(i)
  <2>1. flow' = flow
    BY <1>4 DEF OpenSwitch, SwitchErrorClosed, PollSucceeds, PollFails, WindowShown,
                LeaveSwitch, Select
  <2>2. \A k \in Slots : Busy(k)' <=> Busy(k)
    BY <2>1 DEF Busy
  <2>3. ASSUME NEW k \in Slots, Busy(k)
        PROVE  /\ override'[flow[k].of] = override[flow[k].of]
               /\ page' = "switch" => flow[k].of # selected'
    <3>1. CASE OpenSwitch
      BY <2>3, <3>1, BusyIsNotOffered DEF OpenSwitch
    <3>2. CASE SwitchErrorClosed \/ PollSucceeds \/ PollFails \/ WindowShown
      BY <2>3, <3>2 DEF SwitchErrorClosed, PollSucceeds, PollFails, WindowShown,
                        Fresh, FreshStartIsAlone
    <3>3. ASSUME NEW i \in Inst, LeaveSwitch(i)
          PROVE  /\ override'[flow[k].of] = override[flow[k].of]
                 /\ page' = "switch" => flow[k].of # selected'
      <4>1. flow[k].of # selected /\ flow[k].of \in Inst
        BY <2>3, <3>3, BusyOfInstance DEF LeaveSwitch, Fresh, FreshStartIsAlone
      <4> QED BY <3>3, <4>1 DEF LeaveSwitch, Override, TypeOK
    <3>4. ASSUME NEW i \in Inst, Select(i)
          PROVE  /\ override'[flow[k].of] = override[flow[k].of]
                 /\ page' = "switch" => flow[k].of # selected'
      BY <3>4 DEF Select
    <3> QED BY <1>4, <3>1, <3>2, <3>3, <3>4
  <2>4. \A k \in Slots : Busy(k) => flow[k].of # None
    BY BusyOfInstance
  <2> QED BY <2>1, <2>2, <2>3, <2>4, FreshKept
<1>5. ASSUME NEW k \in Slots, Advance(k) PROVE Fresh'
  <2>1. CASE StartRequested(k) \/ StartAnswered(k)
    <3>1. CASE StartRequested(k)
      <4>1. Goes(k, "requested") /\ flow[k].kind \in {"start", "switch"}
            /\ flow[k].at = "updating" /\ UNCHANGED <<page, selected, override>>
        BY <3>1 DEF StartRequested
      <4>2. /\ flow[k].of \in Inst /\ flow'[k].of = flow[k].of
            /\ flow'[k].kind = flow[k].kind /\ flow'[k].fresh = flow[k].fresh
            /\ \A j \in Slots : j # k => flow'[j] = flow[j]
        BY <4>1, Going, HandlerOfInstance
      <4>3. Busy(k)' => Busy(k)
        BY <4>1, <4>2 DEF Busy
      <4> QED BY <4>1, <4>2, <4>3, FreshAfterAdvance
    <3>2. CASE StartAnswered(k)
      <4>1. Goes(k, "refreshing") /\ flow[k].kind = "start"
            /\ flow[k].at = "requested" /\ UNCHANGED <<page, selected, override>>
        BY <3>2 DEF StartAnswered, At
      <4>2. /\ flow[k].of \in Inst /\ flow'[k].of = flow[k].of
            /\ flow'[k].kind = flow[k].kind /\ flow'[k].fresh = flow[k].fresh
            /\ \A j \in Slots : j # k => flow'[j] = flow[j]
        BY <4>1, Going, HandlerOfInstance
      <4>3. Busy(k)' => Busy(k)
        BY <4>1, <4>2 DEF Busy
      <4> QED BY <4>1, <4>2, <4>3, FreshAfterAdvance
    <3> QED BY <2>1, <3>1, <3>2
  <2>2. CASE StatesUpdated(k) \/ StopAnswered(k)
    <3>1. /\ flow[k].of \in Inst /\ flow'[k].of = flow[k].of
          /\ flow'[k].at \in {"lingering", "resetting"}
          /\ \A j \in Slots : j # k => flow'[j] = flow[j]
      <4>1. CASE StatesUpdated(k)
        BY <4>1, Going, HandlerOfInstance DEF StatesUpdated, At
      <4>2. CASE StopAnswered(k)
        BY <4>2, Going, HandlerOfInstance DEF StopAnswered, At
      <4> QED BY <2>2, <4>1, <4>2
    <3>2. ~Busy(k)'
      BY <3>1 DEF Busy
    <3>3. UNCHANGED <<page, selected>>
      BY <2>2 DEF StatesUpdated, StopAnswered
    <3>4. \A i \in Inst : i # flow[k].of => override'[i] = override[i]
      BY <2>2 DEF StatesUpdated, StopAnswered, Override, TypeOK
    <3> QED BY <3>1, <3>2, <3>3, <3>4, FreshAfterAdvance
  <2>3. CASE \/ StartFails(k) \/ LingerEnds(k) \/ PauseReset(k)
             \/ SwitchCompleted(k) \/ SwitchFails(k)
    <3>1. Ends(k) /\ flow[k].kind \in Kinds
      BY <2>3 DEF StartFails, LingerEnds, PauseReset, SwitchCompleted, SwitchFails, At
    <3>2. /\ flow[k].of \in Inst /\ flow'[k] = Idle
          /\ \A j \in Slots : j # k => flow'[j] = flow[j]
      BY <3>1, Ending, HandlerOfInstance
    <3>3. ~Busy(k)' /\ flow'[k].of = None
      BY <3>2, IdleFields DEF Busy
    <3>4. UNCHANGED <<page, selected>>
      BY <2>3 DEF StartFails, LingerEnds, PauseReset, SwitchCompleted, SwitchFails
    <3>5. \A i \in Inst : i # flow[k].of => override'[i] = override[i]
      BY <2>3 DEF StartFails, LingerEnds, PauseReset, SwitchCompleted, SwitchFails,
                  Override, TypeOK
    <3> QED BY <3>2, <3>3, <3>4, <3>5, FreshAfterAdvance
  <2> QED BY <1>5, <2>1, <2>2, <2>3 DEF Advance
<1>6. CASE UNCHANGED vars
  BY <1>6 DEF Fresh, FreshStartIsAlone, FreshStartShowsBusy, Busy, vars
<1> QED BY <1>1, <1>2, <1>3, <1>4, <1>5, <1>6 DEF Next

-----------------------------------------------------------------------------
(* Nothing orphaned.                                                       *)

\* A step that clears the override of instance o, ends or moves on the handler k
\* of it, and resumes the polling or has nothing to resume, orphans nothing.
LEMMA OwnersAfterReset ==
  ASSUME TypeOK, OverridesHaveOwners, NEW k \in Slots, NEW o \in Inst, flow[k].of = o,
         \A j \in Slots : j # k => flow'[j] = flow[j],
         \A i \in Inst : i # o => override'[i] = override[i],
         override'[o] = None \/ flow'[k].of = o \/ (switch' = "completed" /\ selected = o),
         paused' = FALSE \/ (paused' = paused /\ (Resumes(k) => Resumes(k)'))
           \/ switch' = "completed",
         selected' = selected, switch = "completed" => switch' = "completed"
  PROVE  OverridesHaveOwners'
<1>1. ASSUME NEW i \in Inst, override'[i] # None
      PROVE  (\E j \in Slots : flow'[j].of = i) \/ (switch' = "completed" /\ selected' = i)
  <2>1. CASE i = o
    BY <1>1, <2>1
  <2>2. CASE i # o
    <3>1. override[i] # None
      BY <1>1, <2>2
    <3>2. CASE switch = "completed" /\ selected = i
      BY <3>2
    <3>3. CASE FlowsOf(i) # {}
      <4>1. PICK j \in Slots : flow[j].of = i
        BY <3>3 DEF FlowsOf
      <4>2. j # k
        BY <2>2, <4>1
      <4> QED BY <4>1, <4>2
    <3> QED BY <3>1, <3>2, <3>3 DEF OverridesHaveOwners
  <2> QED BY <2>1, <2>2
<1>2. ASSUME paused' PROVE (\E j \in Slots : Resumes(j)') \/ switch' = "completed"
  <2>1. CASE switch' = "completed"
    BY <2>1
  <2>2. CASE switch' # "completed"
    <3>1. paused /\ (Resumes(k) => Resumes(k)')
      BY <1>2, <2>2
    <3>2. PICK j \in Slots : Resumes(j)
      BY <2>2, <3>1 DEF OverridesHaveOwners
    <3>3. j # k => Resumes(j)'
      BY <3>2 DEF Resumes, At
    <3> QED BY <3>1, <3>2, <3>3
  <2> QED BY <2>1, <2>2
<1>3. \A i \in Inst : FlowsOf(i)' = {j \in Slots : flow'[j].of = i}
  BY DEF FlowsOf
<1> QED BY <1>1, <1>2, <1>3 DEF OverridesHaveOwners

LEMMA OwnersAfterClick ==
  ASSUME TypeOK, OverridesHaveOwners, NEW k \in Slots, flow[k] = Idle,
         flow'[k] \in Flows, flow'[k].of = selected, flow'[k].at # "lingering",
         \A j \in Slots : j # k => flow'[j] = flow[j],
         \A i \in Inst : i # selected => override'[i] = override[i],
         selected' = selected, switch = "completed" => switch' = "completed"
  PROVE  OverridesHaveOwners'
<1>1. selected \in Inst /\ None \notin Inst
  BY NoneAssumption DEF TypeOK
<1>2. ASSUME NEW i \in Inst, override'[i] # None
      PROVE  (\E j \in Slots : flow'[j].of = i) \/ (switch' = "completed" /\ selected' = i)
  <2>1. CASE i = selected
    BY <2>1
  <2>2. CASE i # selected
    <3>1. FlowsOf(i) # {}
      BY <1>2, <2>2 DEF OverridesHaveOwners
    <3>2. PICK j \in Slots : flow[j].of = i
      BY <3>1 DEF FlowsOf
    <3>3. j # k
      BY <1>1, <3>2, IdleFields
    <3> QED BY <3>2, <3>3
  <2> QED BY <2>1, <2>2
<1>3. Resumes(k)'
  BY HandlerFields DEF Resumes, At
<1>4. \A i \in Inst : FlowsOf(i)' = {j \in Slots : flow'[j].of = i}
  BY DEF FlowsOf
<1> QED BY <1>2, <1>3, <1>4 DEF OverridesHaveOwners

LEMMA OwnersStep ==
  TypeOK /\ SwitchOnItsPage /\ OverridesHaveOwners /\ [Next]_vars => OverridesHaveOwners'
<1> SUFFICES ASSUME TypeOK, SwitchOnItsPage, OverridesHaveOwners, [Next]_vars
             PROVE  OverridesHaveOwners'
  OBVIOUS
<1> USE StageFacts
<1>1. CASE ClickStart
  <2>1. /\ selected' = selected /\ switch' = switch /\ Begin("start", "updating")
        /\ \A i \in Inst : i # selected => override'[i] = override[i]
    BY <1>1 DEF ClickStart, Override, TypeOK
  <2>2. PICK k \in Slots :
          /\ flow[k] = Idle /\ flow'[k] \in Flows /\ flow'[k].of = selected
          /\ flow'[k].at = "updating" /\ \A j \in Slots : j # k => flow'[j] = flow[j]
    BY <2>1, Begins
  <2> QED BY <2>1, <2>2, OwnersAfterClick
<1>2. CASE ClickPause
  <2>1. /\ selected' = selected /\ switch' = switch /\ Begin("stop", "requested")
        /\ \A i \in Inst : i # selected => override'[i] = override[i]
    BY <1>2 DEF ClickPause, Override, TypeOK
  <2>2. PICK k \in Slots :
          /\ flow[k] = Idle /\ flow'[k] \in Flows /\ flow'[k].of = selected
          /\ flow'[k].at = "requested" /\ \A j \in Slots : j # k => flow'[j] = flow[j]
    BY <2>1, Begins
  <2> QED BY <2>1, <2>2, OwnersAfterClick
<1>3. CASE ClickSwitch
  <2>1. /\ selected' = selected /\ switch # "completed" /\ Begin("switch", "updating")
        /\ \A i \in Inst : i # selected => override'[i] = override[i]
    BY <1>3 DEF ClickSwitch, Override, TypeOK
  <2>2. PICK k \in Slots :
          /\ flow[k] = Idle /\ flow'[k] \in Flows /\ flow'[k].of = selected
          /\ flow'[k].at = "updating" /\ \A j \in Slots : j # k => flow'[j] = flow[j]
    BY <2>1, Begins
  <2> QED BY <2>1, <2>2, OwnersAfterClick
<1>4. CASE OpenSwitch \/ SwitchErrorClosed \/ PollSucceeds \/ PollFails \/ WindowShown
           \/ (\E i \in Inst : Select(i)) \/ UNCHANGED vars
  <2>1. /\ UNCHANGED <<flow, override, paused>>
        /\ switch = "completed" => switch' = "completed" /\ selected' = selected
    BY <1>4 DEF OpenSwitch, SwitchErrorClosed, PollSucceeds, PollFails, WindowShown,
                Select, SwitchOnItsPage, vars
  <2>2. \A k \in Slots : Resumes(k)' <=> Resumes(k)
    BY <2>1 DEF Resumes, At
  <2>3. \A i \in Inst : FlowsOf(i)' = FlowsOf(i)
    BY <2>1 DEF FlowsOf
  <2> QED BY <2>1, <2>2, <2>3 DEF OverridesHaveOwners
<1>5. ASSUME NEW i \in Inst, LeaveSwitch(i) PROVE OverridesHaveOwners'
  <2>1. /\ flow' = flow /\ paused' = FALSE /\ override'[selected] = None
        /\ \A o \in Inst : o # selected => override'[o] = override[o]
    BY <1>5 DEF LeaveSwitch, Override, TypeOK
  <2>2. \A o \in Inst : FlowsOf(o)' = FlowsOf(o)
    BY <2>1 DEF FlowsOf
  <2>3. \A o \in Inst : override'[o] # None => FlowsOf(o)' # {}
    BY <2>1, <2>2 DEF OverridesHaveOwners
  <2> QED BY <2>1, <2>3 DEF OverridesHaveOwners
<1>6. ASSUME NEW k \in Slots, Advance(k) PROVE OverridesHaveOwners'
  <2>1. CASE StartRequested(k) \/ StartAnswered(k) \/ StopAnswered(k)
    <3>1. /\ flow[k].of \in Inst /\ flow'[k].of = flow[k].of /\ flow'[k] \in Flows
          /\ flow'[k].at # "lingering"
          /\ \A j \in Slots : j # k => flow'[j] = flow[j]
      <4>1. CASE StartRequested(k)
        BY <4>1, Going, HandlerOfInstance DEF StartRequested
      <4>2. CASE StartAnswered(k)
        BY <4>2, Going, HandlerOfInstance DEF StartAnswered, At
      <4>3. CASE StopAnswered(k)
        BY <4>3, Going, HandlerOfInstance DEF StopAnswered, At
      <4> QED BY <2>1, <4>1, <4>2, <4>3
    <3>2. Resumes(k)'
      BY <3>1, HandlerFields DEF Resumes, At
    <3>3. UNCHANGED <<selected, switch, override, paused>>
      BY <2>1 DEF StartRequested, StartAnswered, StopAnswered
    <3> QED BY <3>1, <3>2, <3>3, OwnersAfterReset
  <2>2. CASE StatesUpdated(k)
    <3>1. /\ flow[k].of \in Inst /\ flow'[k].of = flow[k].of
          /\ \A j \in Slots : j # k => flow'[j] = flow[j]
      BY <2>2, Going, HandlerOfInstance DEF StatesUpdated, At
    <3>2. /\ UNCHANGED <<selected, switch>> /\ paused' = FALSE
          /\ \A i \in Inst : i # flow[k].of => override'[i] = override[i]
      BY <2>2 DEF StatesUpdated, Override, TypeOK
    <3> QED BY <3>1, <3>2, OwnersAfterReset
  <2>3. CASE \/ StartFails(k) \/ LingerEnds(k) \/ PauseReset(k)
             \/ SwitchCompleted(k) \/ SwitchFails(k)
    <3>1. Ends(k) /\ flow[k].kind \in Kinds
      BY <2>3 DEF StartFails, LingerEnds, PauseReset, SwitchCompleted, SwitchFails, At
    <3>2. /\ flow[k].of \in Inst /\ \A j \in Slots : j # k => flow'[j] = flow[j]
      BY <3>1, Ending, HandlerOfInstance
    <3>3. selected' = selected /\ \A i \in Inst : i # flow[k].of => override'[i] = override[i]
      BY <2>3 DEF StartFails, LingerEnds, PauseReset, SwitchCompleted, SwitchFails,
                  Override, TypeOK
    <3>4. CASE StartFails(k) \/ PauseReset(k)
      <4>1. paused' = FALSE /\ switch' = switch /\ override'[flow[k].of] = None
        BY <3>2, <3>4 DEF StartFails, PauseReset, Override, TypeOK
      <4> QED BY <3>2, <3>3, <4>1, OwnersAfterReset
    <3>5. CASE LingerEnds(k)
      <4>1. /\ paused' = paused /\ switch' = switch /\ override'[flow[k].of] = None
            /\ ~Resumes(k)
        BY <3>2, <3>5 DEF LingerEnds, Override, TypeOK, Resumes
      <4> QED BY <3>2, <3>3, <4>1, OwnersAfterReset
    <3>6. CASE SwitchCompleted(k)
      <4>1. switch' = "completed" /\ flow[k].of = selected
        BY <3>6 DEF SwitchCompleted, SwitchOnItsPage, At
      <4> QED BY <3>2, <3>3, <4>1, OwnersAfterReset
    <3>7. CASE SwitchFails(k)
      <4>1. paused' = FALSE /\ switch # "completed" /\ override'[flow[k].of] = None
        BY <3>2, <3>7 DEF SwitchFails, Override, TypeOK, SwitchOnItsPage
      <4> QED BY <3>2, <3>3, <4>1, OwnersAfterReset
    <3> QED BY <2>3, <3>4, <3>5, <3>6, <3>7
  <2> QED BY <1>6, <2>1, <2>2, <2>3 DEF Advance
<1> QED BY <1>1, <1>2, <1>3, <1>4, <1>5, <1>6 DEF Next

-----------------------------------------------------------------------------
LEMMA InvInit == Init => Inv
<1> SUFFICES ASSUME Init PROVE Inv
  OBVIOUS
<1>1. \A k \in Slots : flow[k] = Idle
  BY DEF Init
<1>2. SwitchOnItsPage /\ FreshStartIsAlone /\ FreshStartShowsBusy
  BY <1>1, IdleFields DEF Init, SwitchOnItsPage, FreshStartIsAlone,
                          FreshStartShowsBusy, Busy
<1>3. OverridesHaveOwners
  BY DEF Init, OverridesHaveOwners
<1> QED BY <1>2, <1>3, TypeInit DEF Inv

LEMMA InvStep == Inv /\ [Next]_vars => Inv'
  BY TypeStep, SwitchStep, FreshStep, OwnersStep DEF Inv, Fresh

LEMMA InvHolds == Spec => []Inv
  BY InvInit, InvStep, PTL DEF Spec

\* Whatever the user clicks, no override and no pause of the polling is
\* left without a handler that will take it back.
THEOREM NothingOrphaned == Spec => []OverridesHaveOwners
<1>1. Inv => OverridesHaveOwners
  BY DEF Inv
<1> QED BY <1>1, InvHolds, PTL

\* A start that no earlier handler overlaps shows as busy until its states
\* are updated.
THEOREM FreshStartsShow == Spec => []FreshStartShowsBusy
<1>1. Inv => FreshStartShowsBusy
  BY DEF Inv
<1> QED BY <1>1, InvHolds, PTL
=============================================================================
