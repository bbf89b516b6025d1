-------------------------- MODULE DeploymentPage ---------------------------
(***************************************************************************)
(* The agent page, where the user starts and pauses the selected instance  *)
(* and switches its staking contract: useServiceDeployment's handleStart,  *)
(* AgentRunningButton's handlePause, ConfirmSwitchButton's                 *)
(* handleSwitchContract, and what ServicesProvider shows meanwhile.        *)
(*                                                                         *)
(* Each handler pauses the polling of the services, puts a status of its   *)
(* own over the polled one, awaits requests and timers, and undoes both.   *)
(* It does so with the functions of the render it was clicked in, while    *)
(* the user goes on to other instances, other pages and further clicks.    *)
(* Auto-run, which drives the same backend, is left out here.              *)
(***************************************************************************)
EXTENDS Naturals

CONSTANTS
  Inst,       \* service_config_ids of the user's instances
  None,
  MaxFlows,   \* bound: handlers under way at once
  MaxClicks   \* bound: clicks on Start, Pause and Confirm Switch

ASSUME BoundsAssumption == MaxFlows \in Nat \ {0} /\ MaxClicks \in Nat

VARIABLES
  selected,   \* selectedServiceConfigId
  page,       \* "main" or "switch", the ConfirmSwitch page
  switch,     \* contractSwitchStatus of that page
  override,   \* serviceStatusOverrides: a status, or None
  paused,     \* usePause of the services and validation queries
  mirror,     \* allDeployments, as of its last successful poll
  pollOk,     \* query.state.status = 'success'
  flow,       \* the handlers under way
  backend,    \* the middleware's deployments
  clicks

vars == <<selected, page, switch, override, paused, mirror, pollOk, flow,
          backend, clicks>>

Slots == 1..MaxFlows
Statuses == {"stopped", "deploying", "deployed", "stopping"}
Active == {"deploying", "deployed", "stopping"}

ASSUME NoneAssumption == None \notin Inst \cup Active

\* A handler: what it does, for which instance, which await it is at, and
\* whether it was clicked with no other handler of that instance under way.
Stages == [start  |-> {"updating", "requested", "refreshing", "lingering"},
           stop   |-> {"requested", "resetting"},
           switch |-> {"updating", "requested"}]
Kinds == {"start", "stop", "switch"}
Idle == [kind |-> "none", of |-> None, at |-> "none", fresh |-> FALSE]
Flows == UNION {[kind : {kind}, of : Inst, at : Stages[kind], fresh : BOOLEAN] :
                  kind \in Kinds}

TypeOK ==
  /\ selected \in Inst
  /\ page \in {"main", "switch"}
  /\ switch \in {"not_started", "in_progress", "completed", "error"}
  /\ override \in [Inst -> Active \cup {None}]
  /\ paused \in BOOLEAN
  /\ mirror \in [Inst -> Statuses]
  /\ pollOk \in BOOLEAN
  /\ flow \in [Slots -> Flows \cup {Idle}]
  /\ backend \in [Inst -> Statuses]
  /\ clicks \in 0..MaxClicks

\* The app after its first polls, with at most one instance deployed.
Init ==
  /\ selected \in Inst
  /\ page = "main" /\ switch = "not_started"
  /\ override = [i \in Inst |-> None]
  /\ paused = FALSE
  /\ \E running \in Inst \cup {None} :
       backend = [i \in Inst |-> IF i = running THEN "deployed" ELSE "stopped"]
  /\ mirror = backend
  /\ pollOk = TRUE
  /\ flow = [k \in Slots |-> Idle]
  /\ clicks = 0

-----------------------------------------------------------------------------
(* What the page shows.                                                    *)

\* Mutant: the override is not looked at.
ShownPolled(i) == mirror[i]

\* selectedServiceWithStatus: the override, or else the polled status.
Shown(i) == IF override[i] # None THEN override[i] ELSE mirror[i]

\* useAgentRunning looks at both.
AnotherAgentRunning ==
  \E i \in Inst \ {selected} : mirror[i] \in Active \/ override[i] \in Active

FlowsOf(i) == {k \in Slots : flow[k].of = i}

\* A click starts a handler, in the first free place.
Begin(kind, at) ==
  /\ clicks < MaxClicks /\ clicks' = clicks + 1
  /\ \E k \in Slots :
       /\ flow[k] = Idle /\ \A j \in Slots : j < k => flow[j] # Idle
       /\ flow' = [flow EXCEPT
            ![k] = [kind |-> kind, of |-> selected, at |-> at,
                    fresh |-> FlowsOf(selected) = {}]]

Override(i, status) == override' = [override EXCEPT ![i] = status]

\* The handler of place k goes on to its next await, or ends.
Goes(k, at) == flow' = [flow EXCEPT ![k].at = at]
Ends(k) == flow' = [flow EXCEPT ![k] = Idle]

At(k, kind, at) == flow[k].kind = kind /\ flow[k].at = at

-----------------------------------------------------------------------------
(* handleStart: AgentRunButton offers it while the selected instance shows *)
(* no active status, useDeployability while no other one does.  The other  *)
(* conditions of deployability hold.                                       *)

ClickStart ==
  /\ page = "main" /\ Shown(selected) \notin Active /\ ~AnotherAgentRunning
  /\ Begin("start", "updating")
  /\ paused' = TRUE
  /\ Override(selected, "deploying")
  /\ UNCHANGED <<selected, page, switch, mirror, pollOk, backend>>

\* The safe is there, updateServiceIfNeeded is through: the start is requested.
StartRequested(k) ==
  /\ flow[k].kind \in {"start", "switch"} /\ flow[k].at = "updating"
  /\ Goes(k, "requested")
  /\ backend' = [backend EXCEPT ![flow[k].of] = "deploying"]
  /\ UNCHANGED <<selected, page, switch, override, paused, mirror, pollOk, clicks>>

\* startService is confirmed; the services, the staking contract and the
\* balances are read again before the override moves on.
StartAnswered(k) ==
  /\ At(k, "start", "requested")
  /\ Goes(k, "refreshing")
  /\ backend' = [backend EXCEPT ![flow[k].of] = "deployed"]
  /\ UNCHANGED <<selected, page, switch, override, paused, mirror, pollOk, clicks>>

\* The safe's eligibility, the update or the start fails; a start whose answer is
\* lost may have come through.
StartFails(k) ==
  /\ flow[k].kind = "start" /\ flow[k].at \in {"updating", "requested"}
  /\ IF flow[k].at = "requested"
     THEN \E s \in {"stopped", "deployed"} :
            backend' = [backend EXCEPT ![flow[k].of] = s]
     ELSE UNCHANGED backend
  /\ Ends(k)
  /\ Override(flow[k].of, None)
  /\ paused' = FALSE
  /\ UNCHANGED <<selected, page, switch, mirror, pollOk, clicks>>

\* updateStatesSequentially is through, or failed.
StatesUpdated(k) ==
  /\ At(k, "start", "refreshing")
  /\ Goes(k, "lingering")
  /\ Override(flow[k].of, "deployed")
  /\ paused' = FALSE
  /\ UNCHANGED <<selected, page, switch, mirror, pollOk, backend, clicks>>

\* Mutant: the override cleared is that of the instance selected by now.
LingerEndsForSelected(k) ==
  /\ At(k, "start", "lingering")
  /\ Ends(k)
  /\ Override(selected, None)
  /\ UNCHANGED <<selected, page, switch, paused, mirror, pollOk, backend, clicks>>

\* Five seconds later the polled status takes over.
LingerEnds(k) ==
  /\ At(k, "start", "lingering")
  /\ Ends(k)
  /\ Override(flow[k].of, None)
  /\ UNCHANGED <<selected, page, switch, paused, mirror, pollOk, backend, clicks>>

-----------------------------------------------------------------------------
(* handlePause, offered while the selected instance shows as deployed.     *)

ClickPause ==
  /\ page = "main" /\ Shown(selected) = "deployed"
  /\ Begin("stop", "requested")
  /\ paused' = TRUE
  /\ Override(selected, "stopping")
  /\ backend' = [backend EXCEPT
       ![selected] = IF @ = "stopped" THEN @ ELSE "stopping"]
  /\ UNCHANGED <<selected, page, switch, mirror, pollOk>>

\* stopDeployment answers or fails; either way a timer of five seconds follows.
StopAnswered(k) ==
  /\ At(k, "stop", "requested")
  /\ Goes(k, "resetting")
  /\ \E s \in {"stopped", "deployed"} :
       backend' = [backend EXCEPT
         ![flow[k].of] = IF @ = "stopping" THEN s ELSE @]
  /\ UNCHANGED <<selected, page, switch, override, paused, mirror, pollOk, clicks>>

\* Mutant: polling is not resumed.
PauseResetKeepsPaused(k) ==
  /\ At(k, "stop", "resetting")
  /\ Ends(k)
  /\ Override(flow[k].of, None)
  /\ UNCHANGED <<selected, page, switch, paused, mirror, pollOk, backend, clicks>>

PauseReset(k) ==
  /\ At(k, "stop", "resetting")
  /\ Ends(k)
  /\ Override(flow[k].of, None)
  /\ paused' = FALSE
  /\ UNCHANGED <<selected, page, switch, mirror, pollOk, backend, clicks>>

-----------------------------------------------------------------------------
(* The ConfirmSwitch page.  useCanMigrate lets the user go there while the *)
(* selected instance shows as not running; the button itself looks at      *)
(* balances only, and at no other instance.  Until the switch has ended    *)
(* its modal covers the page.                                              *)

OpenSwitch ==
  /\ page = "main" /\ Shown(selected) \notin Active
  /\ page' = "switch"
  /\ UNCHANGED <<selected, switch, override, paused, mirror, pollOk, flow,
                 backend, clicks>>

ClickSwitch ==
  /\ page = "switch" /\ switch = "not_started"
  /\ Begin("switch", "updating")
  /\ switch' = "in_progress"
  /\ paused' = TRUE
  /\ Override(selected, "deploying")
  /\ UNCHANGED <<selected, page, mirror, pollOk, backend>>

\* The override stays until the page is left.
SwitchCompleted(k) ==
  /\ At(k, "switch", "requested")
  /\ Ends(k)
  /\ switch' = "completed"
  /\ backend' = [backend EXCEPT ![flow[k].of] = "deployed"]
  /\ UNCHANGED <<selected, page, override, paused, mirror, pollOk, clicks>>

SwitchFails(k) ==
  /\ flow[k].kind = "switch"
  /\ IF flow[k].at = "requested"
     THEN \E s \in {"stopped", "deployed"} :
            backend' = [backend EXCEPT ![flow[k].of] = s]
     ELSE UNCHANGED backend
  /\ Ends(k)
  /\ switch' = "error"
  /\ Override(flow[k].of, None)
  /\ paused' = FALSE
  /\ UNCHANGED <<selected, page, mirror, pollOk, clicks>>

\* The modal of a failed switch is closed.
SwitchErrorClosed ==
  /\ switch = "error" /\ switch' = "not_started"
  /\ UNCHANGED <<selected, page, override, paused, mirror, pollOk, flow,
                 backend, clicks>>

\* The page is left: back, to another instance, or to the agent it switched.
\* Unmounting resets everything once more.
LeaveSwitch(i) ==
  /\ page = "switch" /\ switch \in {"not_started", "completed"}
  /\ switch = "completed" => i = selected
  /\ page' = "main" /\ switch' = "not_started"
  /\ selected' = i
  /\ Override(selected, None)
  /\ paused' = FALSE
  /\ UNCHANGED <<mirror, pollOk, flow, backend, clicks>>

\* Another instance of the sidebar.
Select(i) ==
  /\ page = "main" /\ i # selected
  /\ selected' = i
  /\ UNCHANGED <<page, switch, override, paused, mirror, pollOk, flow, backend,
                 clicks>>

-----------------------------------------------------------------------------
(* The poll of all deployments goes on, paused or not, every 5 or 15       *)
(* seconds as long as its last fetch succeeded.  After one that failed, it *)
(* is fetched again only when the window is shown again or the machine is  *)
(* back online.                                                            *)

PollSucceeds ==
  /\ pollOk /\ mirror # backend
  /\ mirror' = backend
  /\ UNCHANGED <<selected, page, switch, override, paused, pollOk, flow, backend,
                 clicks>>

PollFails ==
  /\ pollOk /\ pollOk' = FALSE
  /\ UNCHANGED <<selected, page, switch, override, paused, mirror, flow, backend,
                 clicks>>

WindowShown ==
  /\ ~pollOk /\ pollOk' = TRUE
  /\ mirror' = backend
  /\ UNCHANGED <<selected, page, switch, override, paused, flow, backend, clicks>>

-----------------------------------------------------------------------------
Advance(k) ==
  \/ StartRequested(k) \/ StartAnswered(k) \/ StartFails(k) \/ StatesUpdated(k)
  \/ LingerEnds(k) \/ StopAnswered(k) \/ PauseReset(k)
  \/ SwitchCompleted(k) \/ SwitchFails(k)

Next ==
  \/ ClickStart \/ ClickPause \/ OpenSwitch \/ ClickSwitch \/ SwitchErrorClosed
  \/ \E i \in Inst : LeaveSwitch(i) \/ Select(i)
  \/ \E k \in Slots : Advance(k)
  \/ PollSucceeds \/ PollFails \/ WindowShown

\* Requests are answered or fail, timers fire, and an interval that runs polls;
\* the user owes the page nothing.
Fairness == WF_vars(PollSucceeds) /\ \A k \in Slots : WF_vars(Advance(k))

Spec == Init /\ [][Next]_vars /\ Fairness

-----------------------------------------------------------------------------
(* Properties.                                                             *)

\* A handler that still has the override of its instance to take back, and one
\* that still has the polling to resume.
Resumes(k) == flow[k] # Idle /\ ~At(k, "start", "lingering")

\* Nothing temporary is orphaned, whatever the user clicked meanwhile: every
\* override has a handler of its instance, or the page of a completed switch, that
\* will clear it, and paused polling one that will resume it.  An orphaned
\* override would block every other instance until Pearl is restarted.
OverridesHaveOwners ==
  /\ \A i \in Inst : override[i] # None =>
       FlowsOf(i) # {} \/ (switch = "completed" /\ selected = i)
  /\ paused => (\E k \in Slots : Resumes(k)) \/ switch = "completed"

\* A start clicked when no earlier handler of the instance was left shows as busy
\* until it is done: nobody can click a second one, nor the start of another
\* instance.  The reset of an earlier handler would clear the status under it.
FreshStartShowsBusy ==
  \A k \in Slots :
    (/\ flow[k].kind = "start" /\ flow[k].fresh
     /\ flow[k].at \in {"updating", "requested", "refreshing"})
      => override[flow[k].of] = "deploying"

\* When the user stops clicking, the page comes to show what the backend does,
\* with nothing paused, unless the deployments could not be polled.
PageSettles ==
  <>[](switch # "completed" =>
         /\ ~paused
         /\ pollOk => \A i \in Inst : Shown(i) = backend[i])
=============================================================================
