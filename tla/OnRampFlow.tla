----------------------------- MODULE OnRampFlow -----------------------------
(***************************************************************************)
(* Funding an agent by card: the provider that watches for the purchase    *)
(* (OnRampProvider.tsx), the window it is made in (main.js,                *)
(* OnRampIframe.tsx), the amount to pay (useTotalNativeTokenRequired.ts),  *)
(* and the steps after it: the swap, driven by BridgingSteps, the master   *)
(* safe, by SafeCreation, and the completion (OnRampPaymentSteps.tsx).     *)
(*                                                                         *)
(* One unit of the native token on the chain of the purchase is what one   *)
(* purchase brings and what one swap takes.  Whatever must be swapped is   *)
(* "tokens"; "native" needs no swap.  The provider's state outlives the    *)
(* page: it is reset on leaving by the page's own dialog, and after a      *)
(* second on Main.  The two flags of a successful purchase are set         *)
(* together and are one here.                                              *)
(***************************************************************************)
EXTENDS BridgingSteps, SafeCreation

CONSTANT MaxOrders      \* bound: purchases

ASSUME OrdersAreBounded == MaxOrders \in Nat \ {0}

VARIABLES
  page,         \* the page shown: "onramp", "main", or any "other"
  rampMode,     \* OnRampMode
  needs,        \* what bridgeParams asks for: "tokens", "native" or "nothing"
  wanted,       \* the same when the page was opened
  window,       \* the on-ramp window is open
  orders,       \* purchases paid for
  paying,       \* a purchase is paid and its funds are on their way
  eoa,          \* the signer's balance on the chain of the purchase
  seen,         \* the same, as last polled
  computed,     \* computedTotalNativeTokens, from the polled requirements
  amount,       \* nativeAmountToPay; 0 also for null
  usd,          \* usdAmountToPay is set
  loading,      \* isBuyCryptoBtnLoading
  loadingDue,   \* the delayInSeconds(1) before it is set
  initial,      \* initialBalanceRef
  received,     \* isOnRampingStepCompleted
  swapRequest,  \* the swap's quote request
  swapDone,     \* isSwappingFundsStepCompleted
  setup         \* isSetupCompleted, or onOnRampCompleted called

wallet == <<orders, paying, eoa>>
price == <<computed, amount, usd>>
button == <<window, loading, loadingDue>>
visit == <<page, rampMode, needs, wanted, swapRequest, setup>>
rampVars == <<wallet, seen, price, button, initial, received, swapDone, visit>>
onRampVars == <<bridgingVars, creationVars, rampVars>>

\* Every variable has its type, and the swap's hook has a quote only on the
\* page and for funds that came.
OnRampTypeOK ==
  /\ BridgingTypeOK /\ CreationTypeOK
  /\ page \in {"onramp", "main", "other"} /\ rampMode \in {"onboard", "deposit"}
  /\ {needs, wanted} \subseteq {"tokens", "native", "nothing"}
  /\ window \in BOOLEAN /\ loading \in BOOLEAN /\ loadingDue \in BOOLEAN
  /\ orders \in 0..MaxOrders /\ paying \in BOOLEAN
  /\ {eoa, seen} \subseteq 0..MaxOrders
  /\ computed \in 0..1 /\ amount \in 0..1 /\ usd \in BOOLEAN
  /\ initial \in (0..MaxOrders) \cup {None}
  /\ received \in BOOLEAN /\ swapDone \in BOOLEAN /\ setup \in BOOLEAN
  /\ swapRequest \in {"unasked", "asked", "failed", "answered"}
  /\ quoteId # None => page = "onramp" /\ received /\ swapRequest = "answered"

OnRampInit ==
  /\ BridgingInit /\ CreationInit
  /\ page = "other" /\ rampMode = "onboard" /\ needs = "nothing" /\ wanted = "nothing"
  /\ window = FALSE /\ loading = FALSE /\ loadingDue = FALSE
  /\ orders = 0 /\ paying = FALSE /\ eoa = 0 /\ seen = 0
  /\ computed = 0 /\ amount = 0 /\ usd = FALSE
  /\ initial = None /\ received = FALSE
  /\ swapRequest = "unasked" /\ swapDone = FALSE /\ setup = FALSE

OnPage == page = "onramp"
Bridging(A) == A /\ UNCHANGED <<creationVars, rampVars>>
CreatingSafe(A) == A /\ UNCHANGED <<bridgingVars, rampVars>>

-----------------------------------------------------------------------------
(* Coming and going.                                                       *)

\* Mutant: the initial balance outlives the reset.
ResetKeepsInitial ==
  /\ amount' = 0 /\ usd' = FALSE /\ loading' = FALSE
  /\ received' = FALSE /\ swapDone' = FALSE /\ UNCHANGED initial

\* resetOnRampState.
Reset ==
  /\ amount' = 0 /\ usd' = FALSE /\ loading' = FALSE
  /\ received' = FALSE /\ swapDone' = FALSE /\ initial' = None

\* The page mounts or unmounts: its hooks start anew.  What was asked of the
\* middleware goes on.
PageChanges(next) ==
  /\ page' = next /\ UseQuote(None) /\ creation' = NoCreation
  /\ swapRequest' = "unasked" /\ setup' = FALSE
  /\ UNCHANGED <<connection, bundle, safe, creating, walletSafe, wallet, seen,
                 window, loadingDue, computed>>

\* Requirements are those of an agent to set up, or what the user chose to
\* deposit to an existing wallet.
PageOpened ==
  /\ ~OnPage /\ PageChanges("onramp")
  /\ needs' \in {"tokens", "native"} /\ wanted' = needs'
  /\ \E m \in {"onboard", "deposit"} : (m = "deposit" => walletSafe) /\ rampMode' = m
  /\ UNCHANGED <<amount, usd, loading, initial, received, swapDone>>

LeavePage ==
  /\ OnPage /\ PageChanges("other") /\ Reset
  /\ UNCHANGED <<rampMode, needs, wanted>>

\* To Main once all is done, or elsewhere, as the gas modal does.
GoneElsewhere ==
  /\ OnPage /\ \E p \in {"main", "other"} : PageChanges(p)
  /\ UNCHANGED <<rampMode, needs, wanted, amount, usd, loading, initial, received,
                 swapDone>>

MainReached ==
  /\ page = "other" /\ PageChanges("main")
  /\ UNCHANGED <<rampMode, needs, wanted, amount, usd, loading, initial, received,
                 swapDone>>

MainReset ==
  /\ page = "main" /\ Reset
  /\ UNCHANGED <<bridgingVars, creationVars, wallet, seen, computed, window,
                 loadingDue, visit>>

-----------------------------------------------------------------------------
(* The amount to pay.                                                      *)

ShouldFreezeTotals == loading \/ received

\* The requirements, polled until the purchase is seen.  Onboarding pays what
\* is missing, a deposit the whole.
Required ==
  CASE needs = "tokens" -> IF rampMode = "deposit" \/ eoa = 0 THEN 1 ELSE 0
    [] needs = "native" -> 1
    [] needs = "nothing" -> 0

RequirementsPolled ==
  /\ OnPage /\ ~received /\ computed # Required /\ computed' = Required
  /\ UNCHANGED <<bridgingVars, creationVars, wallet, seen, amount, usd, button,
                 initial, received, swapDone, visit>>

\* Mutant: the totals are not frozen while the user pays.
AmountUpdatedAlways ==
  /\ OnPage /\ amount # computed /\ amount' = computed
  /\ initial' = IF initial = None /\ computed > 0 THEN seen ELSE initial
  /\ UNCHANGED <<bridgingVars, creationVars, wallet, seen, computed, usd, button,
                 received, swapDone, visit>>

\* The first amount to pay also captures the balance to compare with.
AmountUpdated ==
  /\ OnPage /\ ~ShouldFreezeTotals /\ amount # computed /\ amount' = computed
  /\ initial' = IF initial = None /\ computed > 0 THEN seen ELSE initial
  /\ UNCHANGED <<bridgingVars, creationVars, wallet, seen, computed, usd, button,
                 received, swapDone, visit>>

\* The fiat amount, null while it is fetched and after an error.
UsdUpdated ==
  /\ OnPage /\ ~received /\ ~loading
  /\ usd' = ~usd /\ (usd' => amount > 0)
  /\ UNCHANGED <<bridgingVars, creationVars, wallet, seen, computed, amount,
                 button, initial, received, swapDone, visit>>

\* The refill requirements of the agent are fetched again: what has arrived is
\* asked for no longer.
RefillRefetched ==
  /\ OnPage /\ rampMode = "onboard" /\ needs # "nothing"
  /\ \/ needs = "tokens" /\ \E q \in Quotes : bundle[q] = "done"
     \/ needs = "native" /\ eoa > 0
     \/ safe = "funded" /\ swapDone
  /\ needs' = "nothing"
  /\ UNCHANGED <<bridgingVars, creationVars, wallet, seen, price, button, initial,
                 received, swapDone, page, rampMode, wanted, swapRequest, setup>>

-----------------------------------------------------------------------------
(* The purchase.                                                           *)

\* handleBuyCrypto shows the window, and shows the button as loading only a
\* second later.
BuyCrypto ==
  /\ OnPage /\ ~received /\ ~loading /\ usd
  /\ window' = TRUE /\ loadingDue' = TRUE
  /\ UNCHANGED <<bridgingVars, creationVars, wallet, seen, price, loading, initial,
                 received, swapDone, visit>>

LoadingSet ==
  /\ loadingDue /\ loadingDue' = FALSE /\ loading' = TRUE
  /\ UNCHANGED <<bridgingVars, creationVars, wallet, seen, price, window, initial,
                 received, swapDone, visit>>

\* TRANSAK_WIDGET_CLOSE, or TRANSAK_ORDER_FAILED and the failure event after it:
\* the window goes and onramp-window-did-close follows.
WindowClosed ==
  /\ window /\ window' = FALSE /\ loading' = FALSE
  /\ UNCHANGED <<bridgingVars, creationVars, wallet, seen, price, loadingDue, initial,
                 received, swapDone, visit>>

\* The window's own close event destroys it and tells nobody.
WindowDestroyed ==
  /\ window /\ window' = FALSE
  /\ UNCHANGED <<bridgingVars, creationVars, wallet, seen, price, loading, loadingDue,
                 initial, received, swapDone, visit>>

OrderPaid ==
  /\ window /\ ~paying /\ orders < MaxOrders
  /\ orders' = orders + 1 /\ paying' = TRUE
  /\ UNCHANGED <<bridgingVars, creationVars, eoa, seen, price, button, initial,
                 received, swapDone, visit>>

FundsArrive ==
  /\ paying /\ paying' = FALSE /\ eoa' = eoa + 1
  /\ UNCHANGED <<bridgingVars, creationVars, orders, seen, price, button, initial,
                 received, swapDone, visit>>

BalancesPolled ==
  /\ seen # eoa /\ seen' = eoa
  /\ UNCHANGED <<bridgingVars, creationVars, wallet, price, button, initial,
                 received, swapDone, visit>>

\* The effect that compares the balances, and closes the window.
FundsSeen ==
  /\ amount > 0 /\ usd /\ ~received /\ initial # None
  /\ seen >= initial + amount
  /\ received' = TRUE /\ loading' = FALSE /\ window' = FALSE
  /\ UNCHANGED <<bridgingVars, creationVars, wallet, seen, price, loadingDue, initial,
                 swapDone, visit>>

-----------------------------------------------------------------------------
(* The swap.                                                               *)

\* On mount once the purchase is complete, and by the retry of a failed quote
\* or a failed swap, which takes the quote from the hook.
SwapQuoteAsked ==
  /\ OnPage /\ received
  /\ \/ swapRequest = "unasked" \/ swapRequest = "failed"
     \/ swapRequest = "answered" /\ Rows = "failed"
  /\ swapRequest' = "asked" /\ UseQuote(None)
  /\ UNCHANGED <<connection, bundle, creationVars, wallet, seen, price, button,
                 initial, received, swapDone, page, rampMode, needs, wanted, setup>>

SwapQuoteAnswered(q) ==
  /\ OnPage /\ swapRequest = "asked" /\ bundle[q] \in {"none", "quoted"}
  /\ swapRequest' = "answered" /\ UseQuote(q)
  /\ bundle' = [bundle EXCEPT ![q] = "quoted"]
  /\ UNCHANGED <<connection, creationVars, wallet, seen, price, button, initial,
                 received, swapDone, page, rampMode, needs, wanted, setup>>

SwapQuoteFails ==
  /\ OnPage /\ swapRequest = "asked" /\ swapRequest' = "failed"
  /\ UNCHANGED <<bridgingVars, creationVars, wallet, seen, price, button, initial,
                 received, swapDone, page, rampMode, needs, wanted, setup>>

\* The middleware's execution takes the funds; without them it refuses.
SwapPosts ==
  /\ ExecutePosts
  /\ IF bundle' = bundle THEN UNCHANGED eoa ELSE eoa > 0 /\ eoa' = eoa - 1
  /\ UNCHANGED <<creationVars, orders, paying, seen, price, button, initial,
                 received, swapDone, visit>>

\* Mutant: the step counts as completed when it no longer fails.
SwapCompletedUnlessFailed ==
  /\ OnPage /\ quoteId # None /\ ~swapDone /\ ~IsBridging /\ ~IsBridgingFailed
  /\ swapDone' = TRUE
  /\ UNCHANGED <<bridgingVars, creationVars, wallet, seen, price, button, initial,
                 received, visit>>

SwapCompleted ==
  /\ OnPage /\ quoteId # None /\ ~swapDone /\ IsBridgingCompleted
  /\ swapDone' = TRUE
  /\ UNCHANGED <<bridgingVars, creationVars, wallet, seen, price, button, initial,
                 received, visit>>

-----------------------------------------------------------------------------
(* The safe and the end.                                                   *)

CreationFailed == creation.error \/ creation.data = "failed"

RampCreatesSafe ==
  /\ OnPage /\ swapDone /\ ~walletSafe
  /\ ~creation.pending /\ ~CreationFailed /\ ~IsSafeCreated
  /\ CreateMasterSafe /\ UNCHANGED <<bridgingVars, rampVars>>

\* The retry of the safe's two steps, shown while the wallets have no safe.
RampRetriesSafe ==
  /\ OnPage /\ swapDone /\ ~walletSafe
  /\ CreationFailed \/ creation.data = "created"
  /\ CreateMasterSafe /\ UNCHANGED <<bridgingVars, rampVars>>

\* isMasterSafeCreatedAndFundsTransferred: nothing to transfer counts as false.
SafeFunded ==
  swapDone /\ ~CreationFailed /\ IsTransferCompleted /\ needs # "nothing"

\* The three guards.  The safe's steps are there while the wallets have no safe.
SetupCompleted ==
  /\ OnPage /\ ~setup /\ received
  /\ needs = "tokens" => swapDone
  /\ ~walletSafe => SafeFunded
  /\ setup' = TRUE
  /\ UNCHANGED <<bridgingVars, creationVars, wallet, seen, price, button, initial,
                 received, swapDone, page, rampMode, needs, wanted, swapRequest>>

-----------------------------------------------------------------------------
OnRampNext ==
  \/ PageOpened \/ LeavePage \/ GoneElsewhere \/ MainReached \/ MainReset
  \/ RequirementsPolled \/ AmountUpdated \/ UsdUpdated \/ RefillRefetched
  \/ BuyCrypto \/ LoadingSet \/ WindowClosed \/ WindowDestroyed
  \/ OrderPaid \/ FundsArrive \/ BalancesPolled \/ FundsSeen
  \/ SwapQuoteAsked \/ \E q \in Quotes : SwapQuoteAnswered(q)
  \/ SwapQuoteFails \/ SwapPosts \/ SwapCompleted
  \/ Bridging(ExecuteAnswers) \/ Bridging(ExecuteErrors)
  \/ Bridging(StatusPolled) \/ Bridging(StatusAnswers) \/ Bridging(StatusErrors)
  \/ Bridging(ConnectionLost) \/ Bridging(ConnectionBack)
  \/ \E q \in Quotes : Bridging(BundleSettles(q))
  \/ RampCreatesSafe \/ RampRetriesSafe \/ SetupCompleted
  \/ CreatingSafe(SafeDeployed) \/ CreatingSafe(FundsTransferred)
  \/ CreatingSafe(CreationAnswers) \/ CreatingSafe(CreationThrows)
  \/ CreatingSafe(CreationForgotten) \/ CreatingSafe(WalletsPolled)

\* Polls are made, effects run, paid funds arrive, and a fiat amount that is
\* asked for over and over is there at last.
OnRampFairness ==
  /\ WF_onRampVars(BalancesPolled) /\ WF_onRampVars(RequirementsPolled)
  /\ WF_onRampVars(AmountUpdated) /\ WF_onRampVars(LoadingSet)
  /\ WF_onRampVars(FundsArrive) /\ WF_onRampVars(FundsSeen)
  /\ SF_onRampVars(UsdUpdated /\ usd')

OnRampSpec == OnRampInit /\ [][OnRampNext]_onRampVars /\ OnRampFairness

-----------------------------------------------------------------------------
(* Properties.                                                             *)

\* The provider reports a purchase only while its funds are there to be swapped:
\* never by a balance of an earlier visit compared with one of this visit.
ReceiptIsBacked ==
  [][~received /\ received' => eoa > 0]_onRampVars

\* An end that is shown has a purchase behind it that was swapped, if the visit
\* began with something to swap, and an agent's safe that exists: also when the
\* refill requirements, which decide whether there is a swap step, shrink on
\* the way.
SetupMeansSwapped ==
  setup =>
    /\ orders > 0 /\ safe # "none"
    /\ wanted = "tokens" => \E q \in Quotes : bundle[q] = "done"

\* A purchase made while the button is loading is noticed when its funds arrive,
\* also behind a window that is gone: the amount and the fiat stay frozen, and
\* no poll of the requirements takes them away.
WatchedPurchaseIsNoticed ==
  (loading /\ amount > 0 /\ usd /\ eoa > 0 /\ initial = 0 /\ page = "onramp" /\ ~received)
    ~> (received \/ ~loading \/ eoa = 0 \/ page # "onramp")
=============================================================================
