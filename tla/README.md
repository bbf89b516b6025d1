# Verification of the Pearl desktop app

Pearl (olas-operate-app) runs autonomous agents on a user's machine. It is an
Electron main process, a Next/React renderer and a Python middleware daemon that
deploys agents and talks to the chains; the daemon lives in another repository
and is external here. What can go wrong is mostly a matter of order: React
effects, timers, polls and long requests share refs and flags, requests outlive
their callers, windows are destroyed under those who use them, and a machine
suspends or loses its connection in the middle. This directory holds TLA+
modules of those parts, the TLC runs that check them on small instances, and
proofs, checked by TLAPS, of what holds for every instance.

1. [Inventory](#1-inventory) — the system's parts and what makes each correct
2. [Modules](#2-modules) — what models what, and how state and actions correspond
3. [Runs](#3-runs) — what is checked, the bounds and the fairness
4. [Disagreements](#4-where-the-code-disagrees-with-its-documents)
5. [Proofs](#5-proofs)
6. [Not modelled](#6-not-modelled-and-why)
7. [Plan](#7-plan)

To run: `tlc -config X.cfg M` for a run of section 3, `tlapm M.tla` for the
modules `*Proofs.tla`. `PROJECT.json` maps every definition to its source lines
and lists the hazards, each at its line, with the properties that cover it.

## 1. Inventory

Paths are below `src/`; `AutoRunProvider/` is `frontend/context/AutoRunProvider/`.

### Auto-run: runs the queued instances one after the other until each has earned

| component | state | operations | talks to |
|---|---|---|---|
| lifecycle loop `AutoRunProvider/hooks/useAutoRunLifecycle.ts`, `useAutoRunSignals.ts` | `isRotatingRef`, rotation guard (`lastRewardsEligibilityRef`), stop backoff, scan timer, ticks | startup flow, rewards rotation, watchdog rotation, timers | scanner, stop operations, deployments mirror |
| scanner `useAutoRunScanner.ts` | a scan's visited set and outcomes; reward snapshots | `scanAndStartNext`, `startSelectedAgentIfEligible` | rewards refresh, start operations, timer |
| start/stop operations `useAutoRunStartOperations.ts`, `useAutoRunStopOperations.ts` | sequence counters, the `isStarting` flag | start with probes, timeouts and retries; stop with confirmation and recovery | middleware |
| rewards eligibility `utils/autoRunHelpers.ts` | last fetch and last start times | throttled refresh with a retry; stale-answer overrides | chain |
| queue `AutoRunProvider.tsx`, `utils/utils.ts`, `useAutoRunStore.ts`, `migrations/autoRunInstances.ts` | the persisted `autoRun` object and its optimistic ref | seed, append, normalise, include, exclude, order, migrate | Pearl store, services |
| switch `AutoRunProvider.tsx` | `enabled`, `isStopping`, `isStarting`, checks left of the disable race | toggle, stop what runs | all of the above |

Correct when: one flow at a time; the loop never falls asleep with auto-run on;
an agent that earned is skipped, one that did not gets its turn; nothing is
started after the switch went off; the queue holds what the user chose. Hard
because three flows of a dozen awaits each interleave with commits, polls,
clicks, suspends and late answers, and because the refs are written by some and
rendered to others later.

### The rest of the renderer

| component | state | operations | what makes it correct |
|---|---|---|---|
| Pearl store `StoreProvider.tsx`, `ElectronApiProvider.tsx`, `StoreService.ts` | hydrated copy, operations queued before hydration, migration flags in the Electron store | hydrate, drain, migrate, write | no write is lost between read and write; the migration's flag tells the truth through partial failure and restarts; hydration ends |
| services and deployments mirror `ServicesProvider.tsx`, `useAgentRunning.ts` | polled deployments, status overrides, the pause, the selection | poll, override, pause, select | the mirror catches up; what hides it is taken away again |
| manual start, pause, contract switch `useServiceDeployment.ts`, `AgentRunningButton.tsx`, `ConfirmSwitchButton.tsx` | handlers under way, each with the closures of the render it was clicked in | update, request, refresh, linger, reset | a busy agent shows as busy; nothing temporary outlives the handler that put it there |
| bridge `useBridgingSteps.ts`, `components/Bridge/` | quote, execute and status queries, the screen, the safe's creation | deposit, execute, poll, create safe, transfer, retry | nobody is sent back while funds are under way; complete means delivered; a delivery is noticed |
| on-ramp `OnRampProvider.tsx`, `components/OnRamp/` | amount to pay, balance before the purchase, the window, the steps | buy, watch, swap, create safe | a receipt has funds behind it, an end has a swap behind it, a purchase is noticed |
| account recovery `SetupWelcome.tsx`, `components/AccountRecovery/`, `SharedProvider.tsx` | recovery status, setup state, the swaps and their results | check, prepare, fund, sign each swap, complete | complete means swapped on every chain; a half-swapped account is not logged into; nothing spins for ever |
| balances and refill requirements, staking rewards and programs | polled queries and data derived from them | — | arithmetic more than control |
| agent setup and onboarding, Pearl wallet, agent wallet, withdrawals | forms over single requests | — | amounts within balances; a step is left only when its effect is there |
| achievements, support, logs, settings, HTTP clients | display and thin wrappers | — | — |

### Main process and agents

| component | state | operations | what makes it correct |
|---|---|---|---|
| Electron main `electron/main.js` | daemon pid, windows, `isBeforeQuitting`, `appRealClose`, ports | boot, spawn, quit, signals, second instance | the daemon dies with the app whichever way it ends; a quit ends; a boot shows the app or an error |
| updater `electron/autoUpdater.js` | the update's phase | check, download, quit and install | installs only after the daemon stopped |
| Tendermint supervisor `operate/tendermint.py` | process, monitoring thread, `_stopping`, `_is_on_exit` | stop, start, gentle and hard reset, exit, monitor | one node at a time; data are pruned only under a node that is down; requests end |

## 2. Modules

| module | models | uses |
|---|---|---|
| `AutoRunLifecycle` | the loop: flag, flows, timers, guard, backoff, watchdog, with the skeleton of scan and start | |
| `MCAutoRunLive` | the same with a bounded number of outside events | `AutoRunLifecycle` |
| `ScanContract` | abstract: what the scanner promises its callers | |
| `AutoRunScanner` | one flow's scan in full: every await, outcome and delay, with the snapshots and their throttle | refines `ScanContract` |
| `MCAutoRunScanner` | the same with a queue of three and a bounded number of outside events | `AutoRunScanner` |
| `AutoRunSwitch` | the switch, its race guard, and the start and stop operations against the backend | |
| `AutoRunQueue`, `MCAutoRunQueue` | the persisted queue, the provider's effects and clicks, the list helpers, the migration by agent type | |
| `PearlStore`, `MCPearlStore` | hydration, queued writes, racing requests, two-phase migration, restarts, auto-run's seed | |
| `DeploymentPage` | manual start, pause and contract switch over the mirror, its overrides and its pause | |
| `BridgingSteps` | the execute and status queries of a quote, the connection, the middleware's bundles | |
| `SafeCreation` | creating the master safe and moving the funds into it, and the wallets' poll | |
| `BridgeFlow` | the bridge's screens: deposit, progress, end | `BridgingSteps`, `SafeCreation` |
| `OnRampFlow` | the purchase by card and the steps after it | `BridgingSteps`, `SafeCreation` |
| `AccountRecovery` | the welcome check, the preparation, the approvals and the wallet's window | |
| `ElectronLifecycle` | boots, the daemon, quits, signals and the updater | |
| `TendermintNode` | the supervisor's threads, statement by statement | |
| `AutoRunLifecycleProofs`, `AutoRunScannerProofs`, `PearlStoreProofs`, `DeploymentPageProofs`, `AccountRecoveryProofs` | theorems | the module each is named for |
| `AutoRunProviderProofs` | theorems | `AutoRunQueue`, `AutoRunSwitch` |
| `FundingProofs` | theorems | `BridgeFlow`, `OnRampFlow` |
| `ProcessProofs` | theorems | `ElectronLifecycle`, `TendermintNode` |

Where a proof module speaks of two components, one of them has its own names for
`Init`, `Next`, `Spec` and `TypeOK` (`QueueSpec`, `OnRampSpec`, `SupervisorSpec`).

How the code becomes steps: JavaScript runs without interruption between two
awaits, so what a function does from one await to the next is one action; an
await resolves with every outcome the code distinguishes, at any time. Refs
change at once, rendered state only at a commit. The Python supervisor has real
threads: there an action is one statement that touches a shared field. Operators
whose comment begins with "Mutant" are wrong on purpose: each is a slip the code
could plausibly contain, and the property next to it is shown to notice it.

**AutoRunLifecycle.** `pc[k]` is the await that flow `k` is suspended at, `isRotating`
the ref all of them test and set. `Toggle`, `PollDeployments` and `Commit` are
React commits: they evaluate every effect of the hook in source order
(`Effects`), with the cleanup that clears the rotation closure's `isActive`.
`dirty` says which effects have changed dependencies: the provider passes the
controller an inline callback, so any render reruns the startup effect, and only
ticks and data rerun the rotation effect. `RewardsTick` is the interval poll and
the reward context, `TimerFires` the scan timer, `WatchdogFires` the runtime
watchdog. `StartIssued` adds to `requested`, from where the backend may deploy
long after the flow that asked has given up: `withTimeout` does not cancel. The
mirror `running` shows the first of the instances really `deployed`, late.
`lostBy` is a history variable: how the last flow ended if it left nothing behind
that wakes the loop — a suspend in the cooldown, a cancelled rewards check, an
exception.

**AutoRunScanner and ScanContract.** `pc` is the await, `path` which of the two
functions it is in, `from`, `candidate`, `visited` and `outcomes` their local
variables, `timer` the delay the scan timer was armed with. A snapshot is true,
false (neither `earned` nor `pending`) or undefined (`pending`); `fresh` are the
instances the 120 s throttle refuses to fetch. The queue is a constant: the
flow's closure holds the list it was made with. The single flow is justified by
`OneFlow` of the lifecycle module. `ScanContract` is what the callers rely on: a
scan looks at each instance at most once, ends only with a confirmed start, a
timer or the switch off, and arms the long delay only after looking at everybody
without trouble. `Contract` instantiates it with the await collapsed to a stage
(`Stage`), `visited` as what was tried, and the outcomes and the delay each
reduced to what the caller can tell (`Trouble`, `WakeUp`); `KeepsContract` is its
safety, `FlowsEnd` its liveness.

**AutoRunSwitch.** `start` and `stop` are `startAgentWithRetries` and
`stopAgentWithRecovery`, one record each for the await, the instance and the
attempt; a stop is the rotation's, the switch's or the race guard's. An attempt looks
at the switch, probes, and calls `startService`, which prepares (the safe, the
service's update), posts the request and awaits the answer; a call that times out
anywhere there goes on, as an instance in `left`, and may post and deploy when the
operation, the spinner and auto-run itself are long over. `stopPending` are stop
requests the backend has yet to answer. `starting` is the last value `setIsStarting`
was given; `isStarting` and `isStopping` are what is rendered, which `Commit` brings
up to date, so a click may come in between. The switch is `Clickable` when neither is
shown and the selected service is not in transition (`transitioning`, as polled).
`locked` says who turns the switch: the sidebar, whose control ignores clicks
otherwise, or any caller of the context's `setEnabled`, as its type allows.
`checksLeft` is the guard against an agent that comes up after the switch went off,
which counts down in ten-second ticks; only its own stop disarms it (`StopEnds`).
`lateCalls` counts calls of `startService` since the switch went off.

**AutoRunQueue.** `store` is the object as last written (the optimistic ref and the
disk), `rendered` as last rendered; effects and clicks compute from `rendered` and
merge into `store`. A click renders synchronously with its effects, an effect's
write is rendered later (`Rerender`), services polls come in between. `QueueInit`
is a fresh store and every store the migration from types to instances makes.
Sorting (stable), filtering and removing duplicates are one operator, `Listed`: the
items of some places, each where its rank by key puts it.

**PearlStore.** `hydration` and `migration` are where the two asynchronous chains
are, `posts` the requests under way, which the middleware carries out in any
order, refuses, or carries out while the answer is lost (`PostProcessed`,
`PostRefused`). `Restart` is a quit or crash: memory and requests are gone, disk
and flags stay. Values are reduced to two: the migration looks at nothing but
the `enabled` field of the auto-run object. Assumed of the environment: the
middleware answers each request at one instant, and IPC calls to the Electron
store are not separated from the steps around them (nobody else writes it). The
keys are independent; the nesting of dotted keys and deletes are left out.

**DeploymentPage.** A handler is a record in `flow`: what it does, for which
instance, and its await. `override` hides the polled `mirror`, `paused` stops the
poll. A handler undoes both with the functions of the render it was clicked in,
for the instance selected then, while the user selects others, leaves the page
or clicks again; `fresh` marks one clicked when no other handler of its instance
was left. `PollFails` ends the polling until the window is focused again.
Auto-run, which drives the same backend, is not composed with this module.

**BridgingSteps, SafeCreation, BridgeFlow.** `execute` and `status` are the two
react-query entries with their data, error and phase; a query keeps its data
through a failed refetch, and runs again when it is enabled anew. `bundle` is the
middleware's side: a repeated execution is answered with the state of the first.
`creation` is the mutation of the mounted screen, `creating` the middleware's
work, which outlives it. `BridgeFlow` adds the screen, the quote it holds, the
ref that remembers that a safe must be created (`canCreate`), the retries and the
gas modal. An effect whose conditions come true is an action of its own, fair
but not immediate. Simplified: second timers of the deposit screen, started by
two good answers within its two seconds, are not kept apart, and the gas modal
may be closed after any failure of the execution.

**OnRampFlow.** One unit of native token is what one purchase brings and one swap
takes. `computed` is the polled amount, `amount` and `usd` what the provider
froze of it, `initial` the balance before the purchase in a ref that outlives the
page, `loading` the button, which `LoadingSet` sets a second after the click. The
requirements (`needs`) shrink when funds arrive, before or after the balances are
polled. Leaving resets the provider by the page's dialog or on Main, not
otherwise. Balances are loaded at the start; before they are, the code would
capture a balance of 0.

**AccountRecovery.** `welcome` is the welcome screen's state with its effect
(`Effect`) run after whatever changes what it reads; `status` is the recovery
query, disabled while offline. `preparing` is a request of the password step,
whose `handleFinish` goes on from its own closure. On the approvals page `txns`,
`current`, `loading` and `received` are the state and refs of the page and its
hook; `window` and `session` are the wallet's window in the main process,
`events` the messages from there in order. A window's page loads only online
(`PageLoaded`), before which there is no modal to close; the window may also go away
without a message (`WindowDestroyed`, its own close handler). The wallet refuses a
swap whose owner is gone, a swap may be mined after a failure was reported, and a
result is credited to whatever swap is current. `late` marks a status that began to load
only after the account had been checked. Simplified: one preparation at a time,
an account with a backup wallet, clicks only with at most `MaxLag` messages
pending.

**ElectronLifecycle.** Each `check` message of the splash window is a boot with an
await of its own; it spawns at most one daemon, named by it. `operateDaemon` is
the one that `main.js` refers to. Windows are null, open, hidden or destroyed,
and a call on a destroyed one raises an uncaught exception, which is a way out
too. `cleanup` is the `beforeQuit` that does the work; others return at once and
end the process (`exited = "cut"`).

**TendermintNode.** `pc` and `at` place each thread: the agent's reset, Pearl's
`/exit`, and the monitoring threads. `process`, `stopping` and `monitoring` are
the unlocked fields, `told` the stop events. A node may die by itself and outlive
its signals; a dead node's name is used again. Assumed: the agent makes one
reset at a time; the 20 s of the join outlast what is left of a monitor's own
stop (two waits) and start; Unix. A reset that finds its old monitor blocked on a
read starts no new one, and a node that dies without a word is started by nobody:
no property says otherwise.

## 3. Runs

| run | instance | states | what it shows |
|---|---|---|---|
| `lifecycle` | 2 instances, manual starts, 6 outside events | 347 k | one flow at a time; an instance in its stop backoff keeps its guard open; nothing armed or shown as starting while off; the loop is never on, idle and unarmed except after the endings that `lostBy` names; flows end; an idle loop that lost no wake-up gets going |
| `scanner` | queue of 3, 4 outside events | 462 k | a scan visits everybody in circular order from any anchor; `ScanContract` is kept; a scan ends |
| `switch` | 1 instance, 3 attempts, 3 stops, 2 checks | 223 k | an operation has `startService` called at most once after the switch went off; the switch spins on only for a selected service in transition; a guard that was armed sees its agent gone or has given up |
| `queue` | 3 instances of 2 types, orders up to 4 | 856 | the effects converge in three renders; settled, the queue is what the user chose, in the order he built; an excluded instance runs only as the fallback of an empty queue; instances that stay keep their order |
| `store` | 2 keys, 2 writes at a time, 2 launches | 717 k | early writes are not lost; the migration's flag tells the truth; hydration ends |
| `page` | 2 instances, 3 handlers at a time, 5 clicks | 427 k | no override and no pause is orphaned; a start shows as busy until it is done; the page settles on what the backend does |
| `bridge` | 2 quotes, 1 outage | 204 k | complete means delivered; the safe comes after the bridge; only a real failure sends the user back; a delivery is noticed |
| `onramp` | 1 quote, 1 outage, 2 purchases | 1.07 M | a receipt has funds behind it, an end a swap; a purchase made behind a loading button is noticed |
| `recovery` | 3 safes, 2 launches, 2 late messages at a click | 38 k | a completed recovery swapped every owner; no login once swaps are known; the welcome screen settles, and the button unlocks once the wallet's window has news or has closed with notice |
| `electron` | 2 boots, 2 ports, a leftover daemon, signals | 166 k | a quit that went through leaves no daemon of its own; quitting starts nothing; a quit ends; a boot ends |
| `tendermint` | 4 node names, 2 monitors | 90 k | no second node before the exit; a hard reset prunes only a stopped node; requests end |
| `lifecycle_two` | 2 instances | | refutes a sentence of the documents, see section 4 |

The type invariant of every component is proved (section 5) and no longer spends
a run; TLC finds them true with the same constants.

**Bounds.** `MaxOrder`, `MaxWrites`, `MaxLaunches`, `MaxLag`, `MaxFlows`, `MaxClicks`,
`MaxOutages`, `MaxOrders`, `MaxAttempts`, `MaxStops`, `MaxChecks`, `MaxPort` and
`Events` are the only ones, all in guards. `MaxAttempts`, `MaxStops`, `MaxChecks` and
`MaxPort` are bounds of the code itself; the last two are larger there. Two instances
are enough for hazards between instances: one to rotate away from or leave busy, one to
go to; the safety of those runs is proved for any number. Outside events let auto-run be
switched on, an agent start, run, stop by itself or earn, and one more thing go wrong.
The switch's run has the attempts of the code and one instance: an operation has an
instance of its own, and its ending is held up by no step of another. What a second
instance adds to it, a mirror that names somebody else, is to a stop the same as a
mirror that names nobody. The safety of this run is proved for any number. Three queued
instances are the least for which circular order, middle anchors and "skips nobody" mean
anything. Orders up to 4 let three instances be excluded and re-included before a
rerender. Two keys separate the auto-run key, which the seed and the repair also write,
from any other; two launches allow a migration or a recovery to be cut off and taken up
again; two writes at a time let two writes of one key overtake each other. Three
handlers let a start, a pause and a second start of one instance overlap, which is what
it takes for an older handler to undo a newer one's status; five clicks let a switch
follow. Two quotes let a failed bridge be tried again; one outage is one re-execution.
Two purchases over several visits let an earlier one be mistaken for a later. Three
swaps have a first, a last and one that is neither. Two boots overlap because the splash
page may be reloaded; two ports let one be taken. Four node names let a node be lost and
a third started before names are used again.

**Deadlock** is checked in the queue and store runs. Elsewhere the system may
really rest: with the switch off and nothing deployed, with a quit done, a flow
completed, or the bounded clicks and events used up.

**Fairness.** Nothing is assumed of the user, of the backend's decisions, or of how
an await comes out, only that it does:

- *Auto-run* (`lifecycle`, `scanner`, `switch`): awaits settle, React commits, timers
  fire, deployments are polled (react-query, every 5 s to 150 s). Every wait of
  the flows has a hard timeout: 60 s for the selection and for deployability,
  180 s for balances, 20 s for rewards, 15 min for a start request, for its
  confirmation and for a stop's, 5 min for a stop request, and attempts are
  counted. Two kinds of call rely on their client's: chain reads (the RPC
  library gives up after two minutes) and `probeDeploymentStatus`, which aborts
  its fetch. `Commit` is strongly fair: between two awaits of an operation, which
  are requests and timers, React renders many times, so a commit that is due again
  and again is made.
- *Store, page, bridge, on-ramp, recovery*: a request to the local middleware is
  answered or fails. `fetch` gives no such guarantee against a daemon that
  accepts and hangs. Polls are made while their queries are enabled; timers
  fire; effects whose conditions hold run.
- *Bridge and on-ramp* use strong fairness twice: a status request made over and
  over is answered at last, and so is a price asked for over and over. Both are
  polled without end, and the properties are about the app, not about services
  that are down for ever. Funds that were paid arrive; the bundle itself need not
  settle.
- *Recovery*: messages between windows arrive. Nothing is assumed of the wallet's
  window: it may never load, never report, and go away silently.
- *Electron*: `fetch` to a dead port is refused at once, a daemon that lives prints
  one of the lines `launchDaemon` waits for. One that dies before its first line
  leaves the boot waiting, which `BootEnds` excepts.
- *Tendermint*: threads go on because their waits are bounded (5 s, 3 s, 20 s); a read
  of a node's output returns for sure only once the node is dead, and nothing
  forces a silent node to speak.

**Where the models are harsher than the app.** The lifecycle model wakes the loop only for
reasons in its own code. In the app an unrelated render of the provider reruns
the startup effect, so a lost wake-up usually lasts until the next one; nothing
in the code makes that render happen. In the store model the seed may come as
soon as the store is loaded; usually the user logs in first and the migration
has ended by then.

## 4. Where the code disagrees with its documents

`lifecycle_two` checks "never runs more than one agent concurrently"
(docs/features/autorun.md:348) and TLC refutes it: a start that timed out is not
cancelled (`utils/delay.ts:29`), the scan goes on to the next candidate, and both
deployments come up. The quotation is under "findings" in `PROJECT.json`.

The following came up while modelling. The models behave as the code does, and
the properties are stated so as to hold of it: each exception below is a named
condition of a property.

*Auto-run.* A suspend in the rotation's cooldown ends the flow after the stop with
no timer armed (`useAutoRunLifecycle.ts:214`; autorun.md:318 says it is
rescheduled). The stop backoff is said to be cleared when auto-run is disabled
(`:91`), but a stop that fails afterwards writes it again (`:199`). The retry
"after a delay" when all others had earned (`:119`) finds the guard closed
(`:279`) until a refresh says unearned or the watchdog rotates. A scan drops the
snapshot of a candidate and asks for a refresh that the throttle answers with
the gap (`useAutoRunScanner.ts:226`), so an agent that earned may be started
(autorun.md:262, :323, :346). Off does not mean stopped (autorun.md:345): an
agent that comes up after the guard's ninety checks stays, and so does one that a
stop never confirmed while the mirror named another. Nor does the end of an operation
mean that it starts nothing more: a call of `startService` that timed out while it
prepared still posts its request (`useStartService.ts:36-41`, `delay.ts:29`), with
auto-run off and, since nothing is shown as starting then, no guard armed; and the
attempt past its look at the switch calls it though the switch went off during its
probe. `RetriesStop` therefore counts calls, not requests, and allows one. A guard
armed again while its older stop is under way is disarmed when that stop ends
(`AutoRunProvider.tsx:171`), having looked at nothing.

*Store.* After four failed reads the empty store counts as loaded
(`StoreProvider.tsx:205`) and is seeded, over "real data" (`useAutoRunStore.ts:38`).

*Agent page.* An older handler's timer clears the override of a newer start of the
same instance (deployability-and-lifecycle.md:224, :276 describe one handler at a
time), hence `fresh` in `FreshStartShowsBusy`. A failed poll stops the polling
until the window is focused again (`ServicesProvider.tsx:221`; services.md:188),
hence `pollOk` in `PageSettles`.

*Bridge.* A creation answered as failed leaves data that is asked for again without end;
a failed execution leaves no rows, so that no retry is offered
(`BridgeInProgress.tsx:61-68`); a reconnection or the gas modal's dismissal executes
again, and a re-execution that fails stops the polling, hence the exception in
`DeliveryIsNoticed`. The comment at `useBridgingSteps.ts:119` has the poll stop when the
status is finished, the code stops it by the execution. A user who leaves after a failed
transfer comes back to a flow that sees the safe and transfers nothing.

*On-ramp.* When the requirements are polled after the funds arrived and before the
balances, with the button not loading, the amount to pay becomes 0 and
`if (!nativeAmountToPay) return` (`OnRampProvider.tsx:156`) ends the watching for
good, though the provider is to detect arriving funds (on-ramping.md:109); hence
`loading` in `WatchedPurchaseIsNoticed`. `isTransactionSuccessfulButFundsNotReceived`
is never true. A refetch that empties the tokens to be transferred leaves the
safe's funding step unfinished, whose completion the documents require.

*Recovery.* A launch without connection that comes online on the login screen begins to
load the recovery status after the account was checked: the screen spins for ever
(`SetupWelcome.tsx:271-280`), or, when the account's answer comes last, offers the login
although swaps are known to be pending; `late` excepts both. The login is also offered
when the status could not be read. `types/Recovery.ts:8-11` and account.md:158, :195 say
otherwise, and that the screen redirects to the recovery, where it says "open a support
ticket". The button of the approvals waits for a message of the wallet's window. None
comes when the window is destroyed by its own close handler, which tells nobody
(`web3authSwapOwner.js:53-56`), nor while its page does not load (offline its controls
are covered by the notice, `Layout.tsx:111-129`) or does not report: the button loads
until the page is left. `ButtonUnlocks` speaks of windows with news or closed with
notice. A `completeRecovery` that fails says "Please try again", and nothing on the page
tries again. A swap that was mined but reported failed or lost cannot be recovered in
the session. A stale 'closed' message closes a window opened since; the button unlocks
and the user clicks again.

*Electron.* A second way out while the first cleans up ends the process at once
(`main.js:908-911`), with the daemon's stop cut short: `QuitLeavesNoDaemon` speaks
of quits that were not cut.

*Tendermint.* `/exit` answers that the node is stopped while a reset under way starts
it again, and the server is then killed: the node stays, an orphan. A stop that
raises leaves `_stopping` set; later resets answer "successful" without
stopping anything, and a hard reset prunes a running node. `NoNodeIsLost` and
`PruneOnlyStopped` name both conditions.

## 5. Proofs

Proved for every value of the constants: any set of instances, any queue without
duplicates, any finite set of keys with any old content, any number of safes,
handlers, boots, nodes, purchases, and any bounds. Every safety invariant and every
action property of the passing runs is a theorem, and so is each component's type
invariant (`TypeCorrect`, `QueueTypeCorrect`, `SwitchTypeCorrect`,
`OnRampTypeCorrect`, `SupervisorTypeCorrect`). Each inductive invariant was first
found true by TLC on the instance of its run.

**AutoRunLifecycleProofs** (assumes only that null is no instance).
`OneFlow` is not inductive alone: a rotation that ends goes on to a scan, and a
start needs a candidate. `Shape` = `TypeOK` ∧ `OneFlow` ∧ `StartHasCandidate`
is; it gives `TypeCorrect` and `FlowsExclude`. The step lemmas go through what a
flow's step can do to the flag (`Advances`: it moves on, or ends and lowers it),
so each action is examined once. `GuardStaysOpen` and `OffIsSilent` each follow
by induction on top of `Shape`. `QuietIsExplained` needs `Wakeful`: that a rewards
check not yet cancelled still looks at the running instance (so its ending quietly
leaves an agent running), that `reachedScan` is up only past the selected
instance, and that a start under way is shown (so its ending renders).

**AutoRunScannerProofs** (assumes a queue without duplicates).
`SelectedComesFirst`: the circular successor of the anchor that
`getPreferredStartFrom` picks is the selected instance, which is why that indirect
way of starting with it is right, also at the ends of the queue.
`ScansInOrder`: the invariant `IInv` adds to `VisitsInOrder` that a scan at its
head has visited nobody (`AtHead`) and that one under way began at a candidate
(`BeganSomewhere`). The step from one candidate to the next rests on
`DistanceCounts`: the distance from the first candidate is injective on the queue
and counts up by one or wraps to zero. From it `UpToNext` gives both halves of
the traversal: an unvisited successor extends the segment by itself, and a
visited one means the segment is the whole queue. The latter is what `LongDelays`
needs. `NoSilentEnd` follows from types. `ContractKept` is the refinement: with
`Clean` (an idle flow has nothing tried and no trouble) each action maps to one of
`ScanContract` or a stutter, case by case in `StepMaps`; that giving up late follows a
scan of everybody comes from the same facts about the traversal as `LongDelays`.

**PearlStoreProofs** (assumes finitely many keys, the auto-run key among them).
`WritesNotLost` needs that `pendingOps` holds for each key, last, the user's last
write of it (`LastWrites`), which is what draining hands on, and that a second
reading happens only after the migration wrote. `MigrationComplete` uses an
invariant of its own, `Copied`: what was ever read from the backend is still
there; while phase 1 waits and nothing of it failed, every old key has arrived or
is under way; and nobody else writes a key that neither the user nor auto-run
wrote. The first part is what makes the stale snapshot safe to compare with, the
second what a lost answer must not break, and why a failed answer must keep the
flag down even if the write arrived.

**DeploymentPageProofs.** `FreshStartShowsBusy` needs that a fresh start has its
instance to itself and no switch page open for it (`FreshStartIsAlone`): a busy
status is what keeps every other click away, and the reset of an older handler
is the only thing that could clear it. `OverridesHaveOwners` needs `SwitchOnItsPage`:
the one contract switch under way belongs to the open page and its instance, so
that leaving the page after it undoes what it left. Both are one induction.

**FundingProofs** (assumes only that null is no quote). All rests on
`QueriesAreTrue`: whatever a query holds of its bundle, through
failed refetches, re-executions and lost answers, is true of the bundle once it is
final, because a bundle never leaves a final state (`BundlesStay`) and a query gets
another quote only with an empty cache (`NewQuote`). It is proved once of the steps
of the hook (`BridgingStep`) and used by both flows. *The bridge*: a retry under way
then follows a real failure (`RetryIsDue`), a creation a real delivery
(`CreationIsDue`), and both belong to the quote on the screen (`HasQuote`).
*The purchase*: `ReceiptBacked` needs `AwaitedIsUnspent`: while a purchase is awaited,
a polled balance other than the captured one is not above the real one, since
only the swap's post spends and the hook has a quote only after the receipt (part
of `OnRampTypeOK`); so what exceeds the captured balance is still there
(`SeenIsThere`), and only `FundsSeen` reports (`ReceiptStep`). `SetupIsSwapped` needs
that a receipt was paid (`ReceivedIsPaid`, from `BoughtIsPaid`: no poll shows more
than was ever bought), that a swap shown as done was done (`SwapIsDone`, from
`QueriesAreTrue`), and that the requirements of a visit that began with something
to swap shrink only once a swap is done (`ShrinksBySwap`), which is what makes the
guard that reads the shrunken requirements right.

**AccountRecoveryProofs** (assumes at least one safe). The page credits a success to the
current swap without asking which it is about. `CompletedSwapped` rests on
`SuccessIsTrue`: at most one success is on its way, and it is true of the current
swap. That is inductive because the open window shows the current swap
(`WindowIsCurrent`), because only swaps not completed are current, and because
the wallet does not sign again for a safe whose owner is swapped, so that no
second success of a swap can follow a first. `LoginBlocked` has an invariant of
its own, `Agrees`: a screen that has checked, with a status that did not begin to
load since, shows what the status says.

**AutoRunProviderProofs** (assumes that the services are a list without duplicates).
*The queue*: that a sorted, filtered or deduplicated list holds what it should, in
the order it should, would be an induction over sequences. `Listed` makes it
counting: ranks are injective and below the number of places (`RankGrows`,
`NthInvertsRank`), so `SortedQueue`, `FilteredQueue`, `NormalizedQueue`,
`AppendedQueue` and `EligibleList` follow from cardinalities. `QueueInv` is then
inductive: what was rendered is well formed (each instance once, none of them
excluded, nothing before the seed), and what is written is what the effects make of
it; `IncludeRenders` and `ExcludeRenders` show that a click, computed from a stale
render and merged into a newer store, still renders something well formed.
`EffectsCases` works out which of the three overlapping writes wins.
`EffectsAlwaysConverge` follows the renders: the first drops what is not wanted
(`DropsFirst`), the second renumbers (`ThenTidies`), the third adds the rest
(`ThenAddsTheRest`), a fourth changes nothing (`ThenRests`); conversely only a
finished queue rests (`RestsOnlyWhenDone`), which is `SettledQueueCorrect`. `QueueOrderKept`
follows from what each helper does to two places. `RotationAlwaysAvailable` is the
assumption of `AutoRunScanner`, that its queue has no duplicates, discharged for the
queue auto-run really hands it, at any time. *The switch*: `SwitchInv` says, besides types,
that a start is to be shown only during its attempts (`StartsShown`), that the stop of
the switch and the guard's exclude each other and are shown from their first step on
(`StopsShown`), that the guard is armed only while auto-run is off
(`GuardFacesOff`), and that no call is late while auto-run is on or an attempt still
probes (`CallsCounted`). `RetriesAlwaysStop` is what the last says when combined with
the look at the head of each attempt: a late call is the operation's last.
`LockIsHeldByWork` is the safety half of the switch's liveness: what locks it is an
attempt or a stop under way, a commit that is due or the selected service, and nothing
that is already over; that operations end is TLC's part.

**ProcessProofs.** *The main process*: `DaemonStopped` and `BootsAreOvertaken` rest on
`NoWindows`: quitting destroys the windows in the same step that marks it, and every
stretch of a boot that would spawn a daemon or open a window uses one first.
`DaemonDealtWith` carries the cleanup past its kill: no daemon rises after it
(`NoneRises`). *The supervisor*: nothing is locked. While no exit is asked for, or a
reset begun before it goes on (`Calm`), the proof shows that at most one monitor lives
(`OneMonitor`), that a handler past its join faces a monitor that has been told and can
stop or start nothing any more (`Told`), and that the only live node is the one in the
field (`NodeKnown`). `CalmBefore` says that calm is never regained, which makes the
three inductive; `Places` keeps apart who can be where. The node is then known
(`NodeNotLost`), and a reset that stopped it prunes nothing that runs unless `_stopping`
was already set (`PruneIsSafe`).

**Only model-checked.** Liveness (`FlowsEnd`, `IdleWakesUp`, `HydrationEnds`,
`SwitchUnlocks`, `GuardSeesItThrough`, `DeliveryIsNoticed`,
`WatchedPurchaseIsNoticed`, `PageSettles`, `WelcomeSettles`, `ButtonUnlocks`, `QuitEnds`,
`BootEnds`, `RequestsEnd`), which rests on fairness and on ENABLED, is beyond the
prover.

## 6. Not modelled, and why

- Inside modelled parts: notifications, metrics, logs and texts; durations
  (a delay is a name, its order relative to others is free); which check of
  deployability blocked an instance; deletes and dotted keys of the store; the
  retry of a failed rewards fetch and the override of a stale answer at an epoch's
  end, which compare two clocks; the recovery by the seed phrase, whether a
  recovery is available, and changing the backup owner; the updater's check and
  download; the on-ramp, web3auth and terms windows beside those modelled, and
  secure storage; Tendermint's configuration endpoints and Windows.
- Balances and refill requirements, staking rewards and programs: polled queries and
  arithmetic on their results, better served by unit tests, of which the
  repository has many. The flows that depend on them take their answers as
  inputs, also the ones that come late or shrink.
- Setup and onboarding, Pearl wallet and withdrawals, achievements, support, logs,
  settings: screens in a row and forms over single requests. A model would repeat
  the code. What onboarding leads to, the funding, is modelled.
- ABIs, service templates, staking program tables, chain configuration, styles and
  components that only render are data; they make up most of the repository's lines.
- The middleware, the chains, the Electron framework, react-query and the wallet's page
  are external: they answer freely, within what the code relies on.

## 7. Plan

Done: auto-run with its queue, scan contract, switch and operations; the store;
manual deployment; bridging and on-ramping over shared queries and safe creation;
account recovery; the main process; the Tendermint supervisor.

What remains, in this order:

1. The safety half of the other liveness properties, where there is one worth a
   theorem: what a hydration, a creation or a recovery page that shows it is loading
   still waits for (as `QuietIsExplained` does for the lifecycle, `LockIsHeldByWork`
   for the switch).
2. `RewardsEligibility`: throttle, retry, epoch expiry and the stale-answer override
   against a reference of "earned in this epoch", with the renderer's clock and the
   chain's.
3. Auto-run and the agent page over one backend: `DeploymentPage` composed with
   `AutoRunSwitch`.
4. The change of the backup owner and the recovery by seed phrase beside
   `AccountRecovery`.
