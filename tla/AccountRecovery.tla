--------------------------- MODULE AccountRecovery ---------------------------
(***************************************************************************)
(* Recovering an account with the backup wallet: the welcome screen that   *)
(* lets a user log in or says that a recovery is unfinished                *)
(* (SetupWelcome.tsx, SharedProvider.tsx), the steps that prepare a        *)
(* recovery (AccountRecoveryProvider.tsx), and the page that has the       *)
(* backup wallet sign one swap of owners per safe, in a window of its own  *)
(* (ApproveWithBackupWallet.tsx, useWeb3AuthSwapOwner.ts,                  *)
(* web3authSwapOwner.js).                                                  *)
(*                                                                         *)
(* The window's page reports to the main process, which forwards to the    *)
(* main window: those messages arrive in order, and late.  A call the      *)
(* other way is executed at once.  The account exists and has a backup     *)
(* wallet; the path by the recovery phrase is left out, and one request to *)
(* prepare is under way at a time.                                         *)
(***************************************************************************)
EXTENDS Integers, Sequences, FiniteSets

CONSTANTS
  N,              \* safes, one swap each, in the order of safe_chains
  MaxLaunches,    \* bound: launches of the app
  MaxLag          \* bound: messages still on their way when the user clicks

ASSUME SomeSafe == N \in Nat \ {0}
ASSUME LaunchesAreBounded == MaxLaunches \in Nat \ {0}
ASSUME LagIsBounded == MaxLag \in Nat

Txns == 1..N
NoTxn == 0

VARIABLES
  launches,     \* launches so far
  online,       \* isOnline
  status,       \* the recovery-status query; "idle" is disabled or paused
  screen,       \* "welcome", "recovery" or "main"
  welcome,      \* SetupWelcome: isSetup, hasCheckedAccount, its request, and
                \*   whether the status began to load only after the check
  step,         \* currentStep of the recovery; "pick" stands for all before
  preparing,    \* a request to prepare the recovery is under way
  txns,         \* localTransactions: their statuses
  current,      \* currentTxnId, state and ref
  loading,      \* isButtonLoading
  received,     \* isResultReceived
  completion,   \* the completion effect: its wait, its request, its end
  window,       \* the swap whose window is open, or NoTxn
  session,      \* what happened in that window; "lost" after one that went silently
  events,       \* main process to main window, in order
  inflight,     \* swaps signed and sent, not yet mined
  swapped,      \* safes whose owner is swapped
  prepared      \* the backend has a recovery bundle, not completed

welcoming == <<online, status, welcome>>
approval == <<txns, current, loading, received, completion>>
gateway == <<window, session, events>>
chain == <<inflight, swapped>>
vars == <<launches, welcoming, screen, step, preparing, approval, gateway,
          chain, prepared>>

Welcomes == [setup : {"Loading", "True", "RecoveryNotComplete", "Error"},
             checked : BOOLEAN, asking : BOOLEAN, late : BOOLEAN]

\* Every variable has its type.
TypeOK ==
  /\ launches \in 1..MaxLaunches /\ online \in BOOLEAN
  /\ status \in {"idle", "loading", "none", "swaps", "error"}
  /\ screen \in {"welcome", "recovery", "main"}
  /\ welcome \in Welcomes
  /\ step \in {"pick", "password", "fund", "approve"} /\ preparing \in BOOLEAN
  /\ txns \in [Txns -> {"pending", "completed", "failed"}]
  /\ current \in Txns \cup {NoTxn} /\ loading \in BOOLEAN /\ received \in BOOLEAN
  /\ completion \in {"none", "waiting", "posted", "failed", "done"}
  /\ window \in Txns \cup {NoTxn}
  /\ session \in {"none", "opening", "signing", "sent", "reported", "lost"}
  /\ events \in Seq({"success", "failure", "closed"})
  /\ inflight \subseteq Txns /\ swapped \subseteq Txns /\ prepared \in BOOLEAN

-----------------------------------------------------------------------------
(* The welcome screen.                                                     *)

\* has_swaps of the backend's recovery status.
HasSwaps == prepared /\ swapped # {}

\* The setup state is determined, or being determined.
Checked(w) == w.checked \/ w.setup # "Loading"

\* Mutant: the check does not wait for the status.
EffectUnwaited(w, st) ==
  CASE Checked(w) -> w
    [] ~Checked(w) /\ st = "swaps" ->
         [w EXCEPT !.setup = "RecoveryNotComplete", !.checked = TRUE]
    [] OTHER -> [w EXCEPT !.checked = TRUE, !.asking = TRUE]

\* Mutant: waiting for the status already counts as checked.
EffectHasty(w, st) ==
  CASE st = "loading" -> [w EXCEPT !.setup = "Loading", !.checked = TRUE]
    [] st # "loading" /\ Checked(w) -> w
    [] st = "swaps" /\ ~Checked(w) ->
         [w EXCEPT !.setup = "RecoveryNotComplete", !.checked = TRUE]
    [] OTHER -> [w EXCEPT !.checked = TRUE, !.asking = TRUE]

\* SetupWelcome's effect, run after whatever changes what it depends on.
Effect(w, st) ==
  CASE st = "loading" -> [w EXCEPT !.setup = "Loading"]
    [] st # "loading" /\ Checked(w) -> w
    [] st = "swaps" /\ ~Checked(w) ->
         [w EXCEPT !.setup = "RecoveryNotComplete", !.checked = TRUE]
    [] OTHER -> [w EXCEPT !.checked = TRUE, !.asking = TRUE]

\* The effect runs only while the screen is mounted.
Shown(w, st) == IF screen = "welcome" THEN Effect(w, st) ELSE w

\* The screen as it mounts.
Mounted(st) ==
  Effect([setup |-> "Loading", checked |-> FALSE, asking |-> FALSE,
          late |-> FALSE], st)

\* The connection decides if the status is asked for.
FirstStatus(on) == IF on THEN "loading" ELSE "idle"

Init ==
  /\ launches = 1 /\ online \in BOOLEAN /\ status = FirstStatus(online)
  /\ screen = "welcome" /\ welcome = Mounted(status)
  /\ step = "pick" /\ preparing = FALSE
  /\ txns = [t \in Txns |-> "pending"] /\ current = NoTxn
  /\ loading = FALSE /\ received = FALSE /\ completion = "none"
  /\ window = NoTxn /\ session = "none" /\ events = <<>>
  /\ inflight = {} /\ swapped = {} /\ prepared = FALSE

\* The page of the approvals mounts, with every swap pending.
FreshApproval ==
  /\ txns' = [t \in Txns |-> "pending"] /\ current' = NoTxn
  /\ loading' = FALSE /\ received' = FALSE /\ completion' = "none"

\* A request to prepare may have been carried out, though nobody waits for it.
PrepareLeft == prepared' \in {prepared, prepared \/ preparing}

\* The user quits, or the app dies, anywhere; what was sent goes on.
Restart ==
  /\ launches < MaxLaunches /\ launches' = launches + 1
  /\ online' \in BOOLEAN /\ status' = FirstStatus(online')
  /\ screen' = "welcome" /\ welcome' = Mounted(status')
  /\ step' = "pick" /\ preparing' = FALSE /\ FreshApproval
  /\ window' = NoTxn /\ session' = "none" /\ events' = <<>>
  /\ PrepareLeft /\ UNCHANGED chain

StatusBecomes(st) ==
  /\ status' = st /\ welcome' = Shown(welcome, st)
  /\ UNCHANGED <<launches, screen, step, preparing, approval, gateway, chain,
                 prepared>>

StatusAnswers ==
  /\ status = "loading" /\ StatusBecomes(IF HasSwaps THEN "swaps" ELSE "none")
  /\ UNCHANGED online

\* The retries are used up, or paused while offline.
StatusFails ==
  /\ status = "loading" /\ StatusBecomes(IF online THEN "error" ELSE "idle")
  /\ UNCHANGED online

\* Being enabled again fetches what there is no data for.
GoOnline ==
  /\ ~online /\ online' = TRUE
  /\ status' = IF status \in {"idle", "error"} THEN "loading" ELSE status
  /\ welcome' = [Shown(welcome, status') EXCEPT
                   !.late = @ \/ (status' # status /\ welcome.checked)]
  /\ UNCHANGED <<launches, screen, step, preparing, approval, gateway, chain,
                 prepared>>

\* A fetch under way goes on: the backend is on this machine.
GoOffline ==
  /\ online /\ online' = FALSE
  /\ UNCHANGED <<launches, status, welcome, screen, step, preparing, approval,
                 gateway, chain, prepared>>

AccountAnswers ==
  /\ screen = "welcome" /\ welcome.asking
  /\ \E s \in {"True", "Error"} :
       welcome' = Effect([welcome EXCEPT !.setup = s, !.asking = FALSE], status)
  /\ UNCHANGED <<launches, online, status, screen, step, preparing, approval,
                 gateway, chain, prepared>>

CanLogIn == screen = "welcome" /\ welcome.setup = "True"

Login ==
  /\ CanLogIn /\ screen' = "main"
  /\ UNCHANGED <<launches, welcoming, step, preparing, approval, gateway, chain,
                 prepared>>

-----------------------------------------------------------------------------
(* The steps of the recovery.                                              *)

ViewRecoveryOptions ==
  /\ CanLogIn /\ screen' = "recovery" /\ step' = "pick" /\ preparing' = FALSE
  /\ UNCHANGED <<launches, welcoming, approval, gateway, chain, prepared>>

InRecovery(s) == screen = "recovery" /\ step = s

GoTo(s) ==
  /\ step' = s
  /\ UNCHANGED <<launches, welcoming, screen, preparing, approval, gateway,
                 chain, prepared>>

BackupWalletChosen == InRecovery("pick") /\ GoTo("password")

\* onPrev; there is no way back from the approvals.
Back ==
  \/ InRecovery("password") /\ GoTo("pick")
  \/ InRecovery("fund") /\ GoTo("password")

\* goto(Welcome) mounts the welcome screen anew.
BackToWelcome ==
  /\ screen' = "welcome" /\ welcome' = Mounted(status)
  /\ preparing' = FALSE /\ PrepareLeft
  /\ UNCHANGED <<launches, online, status, step, approval, gateway, chain>>

RecoveryAbandoned == InRecovery("pick") /\ BackToWelcome

PasswordSubmitted ==
  /\ InRecovery("password") /\ ~preparing /\ preparing' = TRUE
  /\ UNCHANGED <<launches, welcoming, screen, step, approval, gateway, chain,
                 prepared>>

\* handleFinish goes on from its own closure, wherever the user has gone back to.
RecoveryPrepared ==
  /\ preparing /\ preparing' = FALSE
  /\ \/ prepared' = TRUE /\ step' = "fund"
     \/ UNCHANGED <<prepared, step>>
  /\ UNCHANGED <<launches, welcoming, screen, approval, gateway, chain>>

BackupWalletFunded ==
  /\ InRecovery("fund") /\ step' = "approve" /\ FreshApproval
  /\ UNCHANGED <<launches, welcoming, screen, preparing, gateway, chain,
                 prepared>>

-----------------------------------------------------------------------------
(* The window of the backup wallet, in the main process.                   *)

\* An existing window is reloaded.
ShowWindow(t) ==
  window' = t /\ session' = "opening" /\ UNCHANGED events

\* Destroys the window and tells every other one.
CloseWindow(queue) ==
  IF window = NoTxn THEN events' = queue /\ UNCHANGED <<window, session>>
  ELSE /\ window' = NoTxn /\ session' = "none"
       /\ events' = Append(queue, "closed")

Gateway == UNCHANGED <<launches, welcoming, screen, step, preparing, approval,
                       prepared>>

\* The window's page and the remote one it frames are there.  Offline, or if a load
\* fails, this does not happen.
PageLoaded ==
  /\ session = "opening" /\ online /\ session' = "signing"
  /\ Gateway /\ UNCHANGED <<window, events, chain>>

\* The wallet refuses to swap an owner who is no longer one.
Sign ==
  /\ session = "signing" /\ window \notin swapped
  /\ session' = "sent" /\ inflight' = inflight \cup {window}
  /\ Gateway /\ UNCHANGED <<window, events, swapped>>

Mined ==
  /\ \E t \in inflight : swapped' = swapped \cup {t} /\ inflight' = inflight \ {t}
  /\ Gateway /\ UNCHANGED gateway

Dropped ==
  /\ \E t \in inflight : inflight' = inflight \ {t}
  /\ Gateway /\ UNCHANGED <<gateway, swapped>>

\* The result of the window's swap; a failure may be only what it saw.
Report ==
  /\ session' = "reported"
  /\ \/ session = "sent" /\ window \in swapped /\ events' = Append(events, "success")
     \/ session \in {"signing", "sent"} /\ events' = Append(events, "failure")
  /\ Gateway /\ UNCHANGED <<window, chain>>

\* The wallet's modal closes, or the user takes the window's own red light, which
\* the notice of being offline covers.
ModalClosed ==
  /\ window # NoTxn /\ (session = "opening" => online) /\ CloseWindow(events)
  /\ Gateway /\ UNCHANGED chain

\* The window's own close handler, as when the system closes it: it is destroyed, and
\* nobody is told.
WindowDestroyed ==
  /\ window # NoTxn /\ window' = NoTxn /\ session' = "lost"
  /\ Gateway /\ UNCHANGED <<events, chain>>

-----------------------------------------------------------------------------
(* The page of the approvals.                                              *)

Approving == InRecovery("approve")
OfStatus(s) == {t \in Txns : txns[t] = s}

\* The first of some swaps, in a set of its own.
First(S) == {t \in S : \A u \in S : t <= u}

Page == UNCHANGED <<launches, welcoming, screen, step, preparing, chain, prepared>>

\* Mutant: the result of an earlier window still counts as received.
OpenStale(t) ==
  /\ current' = t /\ loading' = TRUE /\ UNCHANGED received
  /\ ShowWindow(t)

\* openWeb3AuthSwapOwnerModel for a swap.
Open(t) ==
  /\ current' = t /\ loading' = TRUE /\ received' = FALSE
  /\ ShowWindow(t)

CanClick == Approving /\ ~loading /\ Len(events) <= MaxLag

OpenWallet ==
  /\ CanClick /\ OfStatus("failed") = {}
  /\ OfStatus("pending") # {}
  /\ \E t \in IF current = NoTxn THEN First(OfStatus("pending")) ELSE {current} :
       Open(t)
  /\ Page /\ UNCHANGED <<txns, completion>>

Retry ==
  /\ CanClick /\ OfStatus("failed") # {}
  /\ \E t \in First(OfStatus("failed")) :
       Open(t) /\ txns' = [txns EXCEPT ![t] = "pending"]
  /\ Page /\ UNCHANGED completion

\* A message is taken; without the page nobody listens.
Taken(e) == events # <<>> /\ Head(events) = e
Ignored ==
  /\ events # <<>> /\ (received \/ ~Approving)
  /\ events' = Tail(events)
  /\ Page /\ UNCHANGED <<approval, window, session>>

\* handleTransactionResult, which credits the current swap whatever the
\* message is about.
Credited(outcome) ==
  IF current = NoTxn THEN txns ELSE [txns EXCEPT ![current] = outcome]

SucceededTaken ==
  /\ Approving /\ ~received /\ Taken("success")
  /\ received' = TRUE /\ loading' = FALSE
  /\ txns' = Credited("completed")
  /\ LET later == {t \in OfStatus("pending") : t > current}
     IN current' \in IF current = NoTxn \/ later = {} THEN {NoTxn} ELSE First(later)
  /\ CloseWindow(Tail(events))
  /\ Page /\ UNCHANGED completion

FailedTaken ==
  /\ Approving /\ ~received /\ Taken("failure")
  /\ received' = TRUE /\ loading' = FALSE
  /\ txns' = Credited("failed") /\ events' = Tail(events)
  /\ Page /\ UNCHANGED <<current, completion, window, session>>

ClosedTaken ==
  /\ Approving /\ ~received /\ Taken("closed")
  /\ received' = TRUE /\ loading' = FALSE
  /\ CloseWindow(Tail(events))
  /\ Page /\ UNCHANGED <<txns, current, completion>>

\* Mutant: nothing pending is enough to complete.
NonePending == OfStatus("pending") = {}

\* areTransactionsCompleted.
AllCompleted == OfStatus("completed") = Txns

CompletionBegins ==
  /\ Approving /\ completion = "none" /\ AllCompleted
  /\ completion' = "waiting"
  /\ Page /\ UNCHANGED <<gateway, txns, current, loading, received>>

CompletionPosted ==
  /\ Approving /\ completion = "waiting" /\ completion' = "posted"
  /\ Page /\ UNCHANGED <<gateway, txns, current, loading, received>>

\* The page cannot be left meanwhile.  On success the status is fetched again;
\* nothing asks again after a failure.
CompletionAnswers ==
  /\ Approving /\ completion = "posted"
  /\ \/ completion' = "done" /\ prepared' = FALSE
        /\ status' \in {status, IF online THEN "none" ELSE status}
     \/ completion' = "failed" /\ UNCHANGED <<prepared, status>>
  /\ UNCHANGED <<launches, online, welcome, screen, step, preparing, gateway,
                 chain, txns, current, loading, received>>

BackToLogin == Approving /\ completion = "done" /\ BackToWelcome

-----------------------------------------------------------------------------
Next ==
  \/ Restart \/ StatusAnswers \/ StatusFails \/ GoOnline \/ GoOffline
  \/ AccountAnswers \/ Login
  \/ ViewRecoveryOptions \/ BackupWalletChosen \/ Back \/ RecoveryAbandoned
  \/ PasswordSubmitted \/ RecoveryPrepared \/ BackupWalletFunded
  \/ PageLoaded \/ Sign \/ Mined \/ Dropped \/ Report \/ ModalClosed \/ WindowDestroyed
  \/ OpenWallet \/ Retry \/ Ignored \/ SucceededTaken \/ FailedTaken
  \/ ClosedTaken
  \/ CompletionBegins \/ CompletionPosted \/ CompletionAnswers \/ BackToLogin

\* Requests settle, and messages arrive.  Nothing is assumed of the wallet's window:
\* that its page loads, that it reports, or that anybody closes it.
Fairness ==
  /\ WF_vars(StatusAnswers \/ StatusFails) /\ WF_vars(AccountAnswers)
  /\ WF_vars(Ignored \/ SucceededTaken \/ FailedTaken \/ ClosedTaken)

Spec == Init /\ [][Next]_vars /\ Fairness

-----------------------------------------------------------------------------
\* The recovery is completed only when every safe has changed its owner on
\* chain, although results reach the page late, name no swap it checks, and
\* mix with the news of windows closed and opened again.
CompletedMeansSwapped == completion # "none" => swapped = Txns

\* The login is not offered when it is known that swaps are pending
\* (types/Recovery.ts, account.md), unless the status began to load only after
\* the account was checked.
LoginBlockedOnceKnown == status = "swaps" /\ ~welcome.late => ~CanLogIn

\* With the same exception, the welcome screen stops spinning.
Spinning == screen = "welcome" /\ welcome.setup = "Loading" /\ ~welcome.late
WelcomeSettles == Spinning ~> ~Spinning

\* The button loads no longer once the wallet's window has news, or has closed with
\* notice, whatever older news comes between.  It may load for ever while the window
\* stays open and says nothing, which its page does that never loads, and after the
\* window was destroyed silently.
ButtonUnlocks ==
  (loading /\ (events # <<>> \/ session \in {"none", "reported"})) ~> ~loading
=============================================================================
