----------------------------- MODULE BridgeFlow -----------------------------
(***************************************************************************)
(* Funding an agent over a bridge: the state machine of Bridge.tsx         *)
(* (depositing, in_progress, completed), the deposit screen that polls for *)
(* a quote and for the user's funds (DepositForBridging.tsx), and the      *)
(* progress screen that executes the quote (BridgingSteps) and, when an    *)
(* onboarding started without a master safe, creates and funds one         *)
(* (SafeCreation).                                                         *)
(*                                                                         *)
(* An effect whose conditions come true in a commit is an action of its    *)
(* own, fair but not immediate; the two effects of the deposit screen run  *)
(* in the commit of the answer they read and are part of it.               *)
(***************************************************************************)
EXTENDS BridgingSteps, SafeCreation

VARIABLES
  screen,       \* bridgeState; "off" when Bridge is not mounted
  mode,         \* BridgeMode
  chosen,       \* Bridge's quoteId
  request,      \* the quote request of the deposit screen
  advance,      \* the delayInSeconds(2) before onNext
  canCreate,    \* canCreateMasterSafeAndTransferRef
  retrying,     \* isBridgeRetrying
  dismissed     \* isGasModalDismissed

screenVars == <<screen, mode, chosen, request, advance, canCreate, retrying, dismissed>>
vars == <<bridgingVars, creationVars, screenVars>>

\* Every variable has its type, the hook is mounted with the chosen quote on
\* the progress screen and only there, and the timer has a quote to hand over.
TypeOK ==
  /\ BridgingTypeOK /\ CreationTypeOK
  /\ screen \in {"off", "depositing", "in_progress", "completed"}
  /\ mode \in {"onboard", "deposit"}
  /\ chosen \in Quotes \cup {None}
  /\ request \in {"idle", "asked", "failed"}
  /\ advance \in BOOLEAN /\ canCreate \in BOOLEAN
  /\ retrying \in BOOLEAN /\ dismissed \in BOOLEAN
  /\ quoteId = IF screen \in {"in_progress", "completed"} THEN chosen ELSE None
  /\ advance => screen = "depositing" /\ chosen # None

Init ==
  /\ BridgingInit /\ CreationInit
  /\ screen = "off" /\ mode = "onboard" /\ chosen = None
  /\ request = "idle" /\ advance = FALSE
  /\ canCreate = FALSE /\ retrying = FALSE /\ dismissed = FALSE

-----------------------------------------------------------------------------
(* Coming and going.                                                       *)

\* The progress screen goes, and with it its hooks' state; its requests stay
\* with the middleware.
Unmounted(next) ==
  /\ screen' = next /\ chosen' = None /\ UseQuote(None)
  /\ creation' = NoCreation
  /\ advance' = FALSE /\ canCreate' = FALSE
  /\ retrying' = FALSE /\ dismissed' = FALSE
  /\ request' = IF next = "depositing" THEN "asked" ELSE "idle"
  /\ UNCHANGED <<connection, bundle, safe, creating, walletSafe>>

\* Only an account with a safe has a wallet to deposit to.
Opened ==
  /\ screen = "off"
  /\ \E m \in {"onboard", "deposit"} : (m = "deposit" => walletSafe) /\ mode' = m
  /\ Unmounted("depositing")

\* Back, another page, the gas modal's way to the wallet, or on after the end.
Left ==
  /\ screen # "off"
  /\ Unmounted("off")
  /\ UNCHANGED mode

-----------------------------------------------------------------------------
(* DepositForBridging.                                                     *)

Depositing == screen = "depositing"

\* The middleware has a bundle for the request, and either funds are missing
\* still, or the effect takes the quote and has the next screen come.
RequirementsAnswer(q) ==
  /\ Depositing /\ request = "asked" /\ bundle[q] \in {"none", "quoted"}
  /\ bundle' = [bundle EXCEPT ![q] = "quoted"]
  /\ request' = "idle"
  /\ \/ UNCHANGED <<chosen, advance>>
     \/ chosen' = q /\ advance' = TRUE
  /\ UNCHANGED <<connection, queries, creationVars, screen, mode, canCreate,
                 retrying, dismissed>>

\* An error, or QUOTE_FAILED among the requests: the polling stops.
QuoteFails ==
  /\ Depositing /\ request = "asked" /\ request' = "failed"
  /\ UNCHANGED <<bridgingVars, creationVars, screen, mode, chosen, advance,
                 canCreate, retrying, dismissed>>

\* The ten-second interval, and the "Try again" of a failed quote.
QuoteAsked ==
  /\ Depositing /\ request' = "asked"
  /\ request = "failed" \/ (request = "idle" /\ online)
  /\ UNCHANGED <<bridgingVars, creationVars, screen, mode, chosen, advance,
                 canCreate, retrying, dismissed>>

\* onNext of the deposit screen: BridgeInProgress mounts.
DepositDone ==
  /\ advance /\ advance' = FALSE
  /\ screen' = "in_progress" /\ UseQuote(chosen)
  /\ canCreate' = (mode = "onboard" /\ ~walletSafe)
  /\ UNCHANGED <<connection, bundle, creationVars, mode, chosen, request,
                 retrying, dismissed>>

-----------------------------------------------------------------------------
(* BridgeInProgress and useMasterSafeCreateAndTransferSteps.               *)

Delivered == ~IsBridging /\ ~IsBridgingFailed /\ IsBridgingCompleted

\* Mutant: the wallets instead of the ref decide, render by render.
ShouldCreateByWallets == mode = "onboard" /\ ~walletSafe

ShouldCreate == canCreate

\* Mutant: the safe is created as soon as the bridge is under way.
CreateSafeEarly ==
  /\ screen = "in_progress" /\ ShouldCreate /\ ~IsBridging
  /\ ~creation.pending /\ ~creation.error /\ ~IsSafeCreated
  /\ CreateMasterSafe
  /\ UNCHANGED <<bridgingVars, screenVars>>

\* The effect that creates the safe.  A creation that fails in its answer is
\* no error of the mutation, and is asked for again.
CreateSafe ==
  /\ screen = "in_progress" /\ ShouldCreate /\ Delivered
  /\ ~creation.pending /\ ~creation.error /\ ~IsSafeCreated
  /\ CreateMasterSafe
  /\ UNCHANGED <<bridgingVars, screenVars>>

\* The retry under a failed creation, or under a failed transfer.
CreationRetried ==
  /\ screen = "in_progress" /\ ShouldCreate
  /\ \/ creation.error /\ ~IsBridging /\ IsBridgingCompleted
     \/ creation.data = "created"
  /\ CreateMasterSafe
  /\ UNCHANGED <<bridgingVars, screenVars>>

\* The effect that ends the flow.
FlowCompleted ==
  /\ screen = "in_progress" /\ Delivered
  /\ ShouldCreate => ~creation.pending /\ IsSafeCreated /\ IsTransferCompleted
  /\ screen' = "completed"
  /\ UNCHANGED <<bridgingVars, creationVars, mode, chosen, request, advance,
                 canCreate, retrying, dismissed>>

\* Mutant: the retry shows under any failure.
BridgeRetriedOnAnyFailure ==
  /\ screen \in {"in_progress", "completed"} /\ IsBridgingFailed /\ ~retrying
  /\ retrying' = TRUE
  /\ UNCHANGED <<bridgingVars, creationVars, screen, mode, chosen, request,
                 advance, canCreate, dismissed>>

\* The retry under a failed bridge request: are funds missing now?
BridgeRetried ==
  /\ screen \in {"in_progress", "completed"} /\ Rows = "failed" /\ ~retrying
  /\ retrying' = TRUE
  /\ UNCHANGED <<bridgingVars, creationVars, screen, mode, chosen, request,
                 advance, canCreate, dismissed>>

\* NEED_REFILL resets the flow; anything else leaves it as it is.
RefillNeeded ==
  /\ retrying /\ Unmounted("depositing") /\ UNCHANGED mode

RefillNotNeeded ==
  /\ retrying /\ retrying' = FALSE
  /\ UNCHANGED <<bridgingVars, creationVars, screen, mode, chosen, request,
                 advance, canCreate, dismissed>>

\* The modal of an execution refused for lack of gas, once per mount.  Which
\* errors are of that kind is left open.
GasModalClosed ==
  /\ quoteId # None /\ execute.error /\ ~dismissed
  /\ dismissed' = TRUE /\ ExecuteRemoved
  /\ UNCHANGED <<connection, quoteId, status, bundle, creationVars, screen,
                 mode, chosen, request, advance, canCreate, retrying>>

-----------------------------------------------------------------------------
Next ==
  \/ Opened \/ Left
  \/ \E q \in Quotes : RequirementsAnswer(q)
  \/ QuoteFails \/ QuoteAsked \/ DepositDone
  \/ CreateSafe \/ CreationRetried \/ FlowCompleted
  \/ BridgeRetried \/ RefillNeeded \/ RefillNotNeeded \/ GasModalClosed
  \/ BridgingNext /\ UNCHANGED <<creationVars, screenVars>>
  \/ CreationNext /\ UNCHANGED <<bridgingVars, screenVars>>

Fairness ==
  /\ BridgingFairness /\ CreationFairness
  /\ WF_vars(CreateSafe) /\ WF_vars(FlowCompleted)

Spec == Init /\ [][Next]_vars /\ Fairness

-----------------------------------------------------------------------------
(* Properties.                                                             *)

\* A flow that shows it is complete has its bundle delivered, and when it had
\* to create the master safe, the funds are in it: whatever the order in which
\* the bridge, the creation and the wallets' poll came (BridgeInProgress.tsx's
\* redirect and useMasterSafeCreateAndTransferSteps' ref).
CompletedMeansDelivered ==
  screen = "completed" =>
    bundle[chosen] = "done" /\ (canCreate => safe = "funded")

\* The middleware is asked for a safe only once the bridge of this flow has
\* delivered, so that there is something to transfer.
SafeAfterBridge ==
  [][creation'.pending /\ ~creation.pending => bundle[quoteId] = "done"]_vars

\* A flow is sent back to the deposit, its quote forgotten, only after a
\* request of its bundle has really failed: not because an answer was lost or
\* a status request failed while the funds are under way (useRetryBridge).
BackToDepositAfterFailure ==
  [][screen' = "depositing" /\ screen # "off" /\ screen # "depositing" =>
       bundle[quoteId] = "failed"]_vars

\* A delivery is noticed: a progress screen whose execution was last answered
\* "pending" reports completion once the bundle is done, through failing status
\* requests, unless the connection comes back first and executes again.
DeliveryIsNoticed ==
  \A q \in Quotes :
    (/\ quoteId = q /\ bundle[q] = "done"
     /\ execute = [at |-> "idle", data |-> "pending", error |-> FALSE])
      ~> (Delivered \/ execute.at # "idle" \/ quoteId # q)
=============================================================================
