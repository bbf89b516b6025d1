---------------------------- MODULE FundingProofs ----------------------------
(***************************************************************************)
(* The safety of the two ways to fund an agent, the bridge and the         *)
(* purchase, for any set of quotes and any number of outages and of        *)
(* purchases.  Both rest on one fact about the hook they share: whatever   *)
(* its two queries hold of a bundle, however old, is still true once it    *)
(* says "done" or "failed", for a bundle never leaves these states and a   *)
(* query changes its quote only with an empty cache.                       *)
(***************************************************************************)
EXTENDS BridgeFlow, OnRampFlow, TLAPS

Known == {"pending", "done", "failed"}
Final == {"done", "failed"}

\* What a query holds of the bundle is true of it.
ExecuteIsTrue ==
  execute.data # "none" =>
    /\ quoteId \in Quotes /\ bundle[quoteId] \in Known
    /\ execute.data \in Final => bundle[quoteId] = execute.data

StatusIsTrue ==
  status.fetching \/ status.data # "none" =>
    /\ quoteId \in Quotes /\ bundle[quoteId] \in Known
    /\ status.data \in Final => bundle[quoteId] = status.data

QueriesAreTrue == BridgingTypeOK /\ ExecuteIsTrue /\ StatusIsTrue

-----------------------------------------------------------------------------
(* The queries and the bundles.                                            *)

Executes == [at : {"idle", "delay", "posted"}, data : Outcomes, error : BOOLEAN]
StatusRecords == [fetching : BOOLEAN, data : Outcomes, error : BOOLEAN]
BundleStates == {"none", "quoted", "pending", "done", "failed"}

Queries ==
  /\ quoteId \in Quotes \cup {None}
  /\ execute \in Executes /\ status \in StatusRecords
  /\ bundle \in [Quotes -> BundleStates]
  /\ quoteId = None => execute = NoExecution /\ status = NoStatus

LEMMA QueriesOfType == QueriesAreTrue => Queries
BY DEF QueriesAreTrue, BridgingTypeOK, Queries, Executes, StatusRecords, BundleStates

LEMMA Blanks ==
  /\ NoExecution \in Executes /\ Executing \in Executes /\ NoStatus \in StatusRecords
  /\ NoExecution.data = "none" /\ Executing.data = "none"
  /\ ~NoStatus.fetching /\ NoStatus.data = "none"
  /\ NoExecution.at = "idle" /\ ~NoExecution.error
BY DEF NoExecution, Executing, NoStatus, Executes, StatusRecords, Outcomes

\* A bundle keeps what it was answered to be.
BundlesStay ==
  \A q \in Quotes :
    /\ bundle[q] \in Known => bundle'[q] \in Known
    /\ bundle[q] \in Final => bundle'[q] = bundle[q]

\* A new quote comes with an empty cache.
LEMMA NewQuote ==
  ASSUME NEW q, UseQuote(q)
  PROVE  /\ quoteId' = q
         /\ execute' \in Executes /\ status' \in StatusRecords
         /\ execute'.data = "none" /\ ~status'.fetching /\ status'.data = "none"
         /\ q = None => execute' = NoExecution /\ status' = NoStatus
BY Blanks DEF UseQuote

LEMMA FetchedStatus ==
  ASSUME Queries
  PROVE  /\ FetchStatus \in StatusRecords /\ FetchStatus.fetching
         /\ FetchStatus.data = status.data
BY DEF Queries, FetchStatus, StatusRecords

\* What an answered execution may bring.
LEMMA Settling ==
  ASSUME QueriesAreTrue, NEW exec \in Executes, ExecuteSettles(exec), quoteId \in Quotes,
         exec.data # "none" => /\ bundle[quoteId] \in Known
                               /\ exec.data \in Final => bundle[quoteId] = exec.data
  PROVE  /\ Queries' /\ ExecuteIsTrue' /\ StatusIsTrue'
         /\ BundlesStay /\ UNCHANGED <<connection, quoteId>>
<1>1. Queries
  BY QueriesOfType
<1>2. /\ execute' = exec /\ UNCHANGED <<connection, quoteId, bundle>>
      /\ status' = status \/ (StatusEnabled(exec) /\ status' = FetchStatus)
  BY DEF ExecuteSettles
<1>3. status' \in StatusRecords
  BY <1>1, <1>2, FetchedStatus DEF Queries
<1>4. quoteId # None
  BY NoneIsNoQuote
<1>5. Queries'
  BY <1>1, <1>2, <1>3, <1>4 DEF Queries
<1>6. ExecuteIsTrue'
  BY <1>2 DEF ExecuteIsTrue
<1>7. StatusIsTrue'
  <2>1. CASE status' = status
    BY <1>2, <2>1 DEF StatusIsTrue, QueriesAreTrue
  <2>2. CASE StatusEnabled(exec) /\ status' = FetchStatus
    <3>1. bundle[quoteId] \in Known
      BY <2>2 DEF StatusEnabled
    <3>2. status'.data = status.data
      BY <1>1, <2>2, FetchedStatus
    <3>3. status.data \in Final => bundle[quoteId] = status.data
      BY DEF QueriesAreTrue, StatusIsTrue, Final
    <3> QED BY <1>2, <3>1, <3>2, <3>3 DEF StatusIsTrue
  <2> QED BY <1>2, <2>1, <2>2
<1>8. BundlesStay
  BY <1>2 DEF BundlesStay
<1> QED BY <1>2, <1>5, <1>6, <1>7, <1>8

\* The query is removed or enabled anew.
LEMMA ExecutingAgain ==
  ASSUME QueriesAreTrue, NEW exec \in Executes, execute' = exec,
         exec.data \in {"none", execute.data}, quoteId \in Quotes,
         UNCHANGED <<quoteId, status, bundle>>
  PROVE  Queries' /\ ExecuteIsTrue' /\ StatusIsTrue' /\ BundlesStay
<1>1. Queries /\ quoteId # None
  BY QueriesOfType, NoneIsNoQuote
<1>2. Queries' /\ BundlesStay
  BY <1>1 DEF Queries, BundlesStay
<1>3. ExecuteIsTrue'
  BY DEF QueriesAreTrue, ExecuteIsTrue
<1>4. StatusIsTrue'
  BY DEF QueriesAreTrue, StatusIsTrue
<1> QED BY <1>2, <1>3, <1>4

LEMMA BridgingStep ==
  QueriesAreTrue /\ BridgingNext =>
    /\ BridgingTypeOK' /\ ExecuteIsTrue' /\ StatusIsTrue'
    /\ BundlesStay /\ UNCHANGED quoteId
<1> SUFFICES ASSUME QueriesAreTrue, BridgingNext
             PROVE  /\ BridgingTypeOK' /\ ExecuteIsTrue' /\ StatusIsTrue'
                    /\ BundlesStay /\ UNCHANGED quoteId
  OBVIOUS
<1>0. Queries /\ online \in BOOLEAN /\ outages \in 0..MaxOutages
  BY QueriesOfType DEF QueriesAreTrue, BridgingTypeOK
<1>a. execute.at # "idle" \/ status.fetching => quoteId \in Quotes
  BY <1>0, Blanks DEF Queries
<1>b. ASSUME Queries', online' \in BOOLEAN, outages' \in 0..MaxOutages
      PROVE  BridgingTypeOK'
  BY <1>b DEF BridgingTypeOK, Queries, Executes, StatusRecords, BundleStates
<1>1. CASE ExecutePosts
  <2>1. quoteId \in Quotes /\ bundle[quoteId] \in BundleStates
    BY <1>0, <1>1, <1>a DEF ExecutePosts, Queries
  <2>2. /\ UNCHANGED <<connection, quoteId, status>>
        /\ execute' \in Executes /\ execute'.data = execute.data
    BY <1>0, <1>1 DEF ExecutePosts, Queries, Executes
  <2>3. /\ bundle' \in [Quotes -> BundleStates] /\ BundlesStay
    BY <1>0, <1>1, <2>1 DEF ExecutePosts, Queries, BundleStates, BundlesStay, Known, Final
  <2>4. Queries'
    BY <1>0, <2>1, <2>2, <2>3, NoneIsNoQuote DEF Queries
  <2>5. ExecuteIsTrue'
    BY <2>1, <2>2, <2>3 DEF QueriesAreTrue, ExecuteIsTrue, BundlesStay
  <2>6. StatusIsTrue'
    BY <2>1, <2>2, <2>3 DEF QueriesAreTrue, StatusIsTrue, BundlesStay
  <2> QED BY <1>0, <1>b, <2>2, <2>3, <2>4, <2>5, <2>6 DEF connection
<1>2. CASE ExecuteAnswers
  <2> DEFINE exec == [at |-> "idle", data |-> bundle[quoteId], error |-> FALSE]
  <2>1. quoteId \in Quotes /\ bundle[quoteId] \in Outcomes
    BY <1>0, <1>2, <1>a DEF ExecuteAnswers, Queries, BundleStates, Outcomes
  <2>2. exec \in Executes /\ ExecuteSettles(exec)
    BY <1>2, <2>1 DEF ExecuteAnswers, Executes
  <2>3. exec.data # "none" => /\ bundle[quoteId] \in Known
                              /\ exec.data \in Final => bundle[quoteId] = exec.data
    BY <2>1 DEF Outcomes, Known
  <2> HIDE DEF exec
  <2> QED BY <1>0, <1>b, <2>1, <2>2, <2>3, Settling DEF connection
<1>3. CASE ExecuteErrors
  <2> DEFINE exec == [execute EXCEPT !.at = "idle", !.error = TRUE]
  <2>1. quoteId \in Quotes
    BY <1>3, <1>a DEF ExecuteErrors
  <2>2. exec \in Executes /\ ExecuteSettles(exec) /\ exec.data = execute.data
    BY <1>0, <1>3 DEF ExecuteErrors, Queries, Executes
  <2>3. exec.data # "none" => /\ bundle[quoteId] \in Known
                              /\ exec.data \in Final => bundle[quoteId] = exec.data
    BY <2>2 DEF QueriesAreTrue, ExecuteIsTrue
  <2> HIDE DEF exec
  <2> QED BY <1>0, <1>b, <2>1, <2>2, <2>3, Settling DEF connection
<1>4. CASE StatusPolled
  <2>1. /\ quoteId \in Quotes /\ execute.data # "none"
        /\ UNCHANGED <<connection, quoteId, execute, bundle>> /\ status' = FetchStatus
    BY <1>0, <1>4 DEF StatusPolled, StatusEnabled, Queries
  <2>2. status' \in StatusRecords /\ status'.data = status.data
    BY <1>0, <2>1, FetchedStatus
  <2>3. Queries' /\ ExecuteIsTrue' /\ BundlesStay
    BY <1>0, <2>1, <2>2, NoneIsNoQuote DEF Queries, QueriesAreTrue, ExecuteIsTrue, BundlesStay
  <2>4. StatusIsTrue'
    <3>1. bundle[quoteId] \in Known
      BY <2>1 DEF QueriesAreTrue, ExecuteIsTrue
    <3>2. status.data \in Final => bundle[quoteId] = status.data
      BY DEF QueriesAreTrue, StatusIsTrue, Final
    <3> QED BY <2>1, <2>2, <3>1, <3>2 DEF StatusIsTrue
  <2> QED BY <1>0, <1>b, <2>1, <2>3, <2>4 DEF connection
<1>5. CASE StatusAnswers
  <2>1. /\ quoteId \in Quotes /\ bundle[quoteId] \in Known
        /\ UNCHANGED <<connection, quoteId, execute, bundle>>
        /\ status' = [fetching |-> FALSE, data |-> bundle[quoteId], error |-> FALSE]
    BY <1>5 DEF StatusAnswers, QueriesAreTrue, StatusIsTrue
  <2>2. status' \in StatusRecords /\ status'.data = bundle[quoteId]
    BY <2>1 DEF StatusRecords, Outcomes, Known
  <2>3. Queries' /\ ExecuteIsTrue' /\ BundlesStay
    BY <1>0, <2>1, <2>2, NoneIsNoQuote DEF Queries, QueriesAreTrue, ExecuteIsTrue, BundlesStay
  <2>4. StatusIsTrue'
    BY <2>1, <2>2 DEF StatusIsTrue
  <2> QED BY <1>0, <1>b, <2>1, <2>3, <2>4 DEF connection
<1>6. CASE StatusErrors
  <2>1. /\ quoteId \in Quotes /\ bundle[quoteId] \in Known
        /\ UNCHANGED <<connection, quoteId, execute, bundle>>
    BY <1>6 DEF StatusErrors, QueriesAreTrue, StatusIsTrue
  <2>2. status' \in StatusRecords /\ status'.data = status.data
    BY <1>0, <1>6 DEF StatusErrors, Queries, StatusRecords
  <2>3. Queries' /\ ExecuteIsTrue' /\ BundlesStay
    BY <1>0, <2>1, <2>2, NoneIsNoQuote DEF Queries, QueriesAreTrue, ExecuteIsTrue, BundlesStay
  <2>4. StatusIsTrue'
    BY <2>1, <2>2 DEF StatusIsTrue, QueriesAreTrue, Final
  <2> QED BY <1>0, <1>b, <2>1, <2>3, <2>4 DEF connection
<1>7. CASE ConnectionLost
  <2>1. /\ UNCHANGED <<quoteId, execute, status, bundle>>
        /\ online' = FALSE /\ outages < MaxOutages /\ outages' = outages + 1
    BY <1>7 DEF ConnectionLost, queries
  <2>3. outages' \in 0..MaxOutages
    BY <1>0, <2>1, OutagesAreBounded
  <2>2. Queries' /\ ExecuteIsTrue' /\ StatusIsTrue' /\ BundlesStay
    BY <1>0, <2>1 DEF Queries, QueriesAreTrue, ExecuteIsTrue, StatusIsTrue, BundlesStay
  <2> QED BY <1>b, <2>1, <2>2, <2>3
<1>8. CASE ConnectionBack
  <2>1. /\ UNCHANGED <<quoteId, status, bundle, outages>> /\ online' \in BOOLEAN
    BY <1>8 DEF ConnectionBack
  <2>2. CASE quoteId = None
    <3>1. UNCHANGED execute
      BY <1>8, <2>2 DEF ConnectionBack
    <3>2. Queries' /\ ExecuteIsTrue' /\ StatusIsTrue' /\ BundlesStay
      BY <1>0, <2>1, <3>1 DEF Queries, QueriesAreTrue, ExecuteIsTrue, StatusIsTrue, BundlesStay
    <3> QED BY <1>0, <1>b, <2>1, <3>2
  <2>3. CASE quoteId \in Quotes
    <3>1. execute' \in Executes /\ execute'.data = execute.data
      BY <1>0, <1>8 DEF ConnectionBack, Queries, Executes
    <3>2. Queries' /\ ExecuteIsTrue' /\ StatusIsTrue' /\ BundlesStay
      BY <2>1, <2>3, <3>1, ExecutingAgain
    <3> QED BY <1>0, <1>b, <2>1, <3>2
  <2> QED BY <1>0, <2>2, <2>3 DEF Queries
<1>9. ASSUME NEW q \in Quotes, BundleSettles(q)
      PROVE  /\ BridgingTypeOK' /\ ExecuteIsTrue' /\ StatusIsTrue'
             /\ BundlesStay /\ UNCHANGED quoteId
  <2>1. UNCHANGED <<online, outages, quoteId, execute, status>>
    BY <1>9 DEF BundleSettles, connection, queries
  <2>2. bundle' \in [Quotes -> BundleStates] /\ BundlesStay
    BY <1>0, <1>9 DEF BundleSettles, Queries, BundleStates, BundlesStay, Known, Final
  <2>3. Queries' /\ ExecuteIsTrue' /\ StatusIsTrue'
    BY <1>0, <2>1, <2>2 DEF Queries, QueriesAreTrue, ExecuteIsTrue, StatusIsTrue, BundlesStay
  <2> QED BY <1>0, <1>b, <2>1, <2>2, <2>3
<1> QED BY <1>1, <1>2, <1>3, <1>4, <1>5, <1>6, <1>7, <1>8, <1>9 DEF BridgingNext

\* A bridge reported as complete has delivered.
LEMMA CompletedIsDone ==
  QueriesAreTrue /\ IsBridgingCompleted => quoteId \in Quotes /\ bundle[quoteId] = "done"
BY DEF QueriesAreTrue, IsBridgingCompleted, ExecuteCompleted, ExecuteIsTrue, StatusIsTrue, Final

\* The rows of a failed request are shown for a failed bundle.
LEMMA FailedRows ==
  QueriesAreTrue /\ Rows = "failed" => bundle[quoteId] = "failed"
<1> SUFFICES ASSUME QueriesAreTrue, Rows = "failed" PROVE status.data = "failed"
  BY DEF QueriesAreTrue, StatusIsTrue, Final
<1> QED BY DEF Rows, ExecuteCompleted

\* Everything of the queries stays as it is.
LEMMA QueriesStay ==
  ASSUME QueriesAreTrue, UNCHANGED bridgingVars
  PROVE  /\ BridgingTypeOK' /\ ExecuteIsTrue' /\ StatusIsTrue' /\ BundlesStay
         /\ UNCHANGED quoteId
<1>1. UNCHANGED <<online, outages, quoteId, execute, status, bundle>>
  BY DEF bridgingVars, connection, queries
<1> QED BY <1>1 DEF QueriesAreTrue, BridgingTypeOK, ExecuteIsTrue, StatusIsTrue, BundlesStay

-----------------------------------------------------------------------------
(* The safe.                                                               *)

CreationRecords ==
  [pending : BOOLEAN, error : BOOLEAN, data : {"none", "failed", "created", "completed"}]

LEMMA NothingBegun ==
  /\ NoCreation \in CreationRecords
  /\ ~NoCreation.pending /\ ~NoCreation.error /\ NoCreation.data = "none"
BY DEF NoCreation, CreationRecords

\* The mutation has been called.
Begun == creation.pending \/ creation.error \/ creation.data # "none"

\* A request changes the safe only forward, and begins no creation of its own.
LEMMA CreationStep ==
  CreationTypeOK /\ CreationNext =>
    /\ CreationTypeOK' /\ (Begun' => Begun)
    /\ creation'.pending => creation.pending
    /\ safe = "funded" => safe' = "funded"
<1> SUFFICES ASSUME CreationTypeOK, CreationNext
             PROVE  /\ CreationTypeOK' /\ (Begun' => Begun)
                    /\ creation'.pending => creation.pending
                    /\ safe = "funded" => safe' = "funded"
  OBVIOUS
<1>0. /\ safe \in {"none", "created", "funded"} /\ creation \in CreationRecords
      /\ creating \in BOOLEAN /\ walletSafe \in BOOLEAN
      /\ walletSafe => safe # "none"
      /\ creation.data = "completed" => safe = "funded"
  BY DEF CreationTypeOK, CreationRecords
<1>1. CASE SafeDeployed \/ FundsTransferred
  <2>1. /\ UNCHANGED <<creating, walletSafe, creation>>
        /\ safe' \in {"created", "funded"} /\ safe # "funded"
    BY <1>1 DEF SafeDeployed, FundsTransferred
  <2> QED BY <1>0, <2>1 DEF CreationTypeOK, CreationRecords, Begun
<1>2. CASE CreationAnswers
  <2>1. UNCHANGED <<safe, walletSafe>> /\ creating' = FALSE /\ Begun /\ creation.pending
    BY <1>2 DEF CreationAnswers, Begun
  <2>2. /\ creation' \in CreationRecords
        /\ creation'.data = "completed" => safe = "funded"
    BY <1>0, <1>2, NothingBegun DEF CreationAnswers, CreationRecords, NoCreation
  <2> QED BY <1>0, <2>1, <2>2 DEF CreationTypeOK, CreationRecords
<1>3. CASE CreationThrows
  <2>1. UNCHANGED <<safe, walletSafe>> /\ Begun /\ creation.pending
    BY <1>3 DEF CreationThrows, Begun
  <2>2. creating' \in BOOLEAN
    BY <1>0, <1>3 DEF CreationThrows
  <2>3. creation' \in CreationRecords /\ creation'.data = "none"
    BY <1>3 DEF CreationThrows, NoCreation, CreationRecords
  <2> QED BY <1>0, <2>1, <2>2, <2>3 DEF CreationTypeOK, CreationRecords
<1>4. CASE CreationForgotten
  <2>1. UNCHANGED <<safe, walletSafe, creation>> /\ creating' = FALSE
    BY <1>4 DEF CreationForgotten
  <2> QED BY <1>0, <2>1 DEF CreationTypeOK, CreationRecords, Begun
<1>5. CASE WalletsPolled
  <2>1. UNCHANGED <<safe, creating, creation>> /\ walletSafe' = (safe # "none")
    BY <1>5 DEF WalletsPolled
  <2> QED BY <1>0, <2>1 DEF CreationTypeOK, CreationRecords, Begun
<1> QED BY <1>1, <1>2, <1>3, <1>4, <1>5 DEF CreationNext

\* A new call of the mutation.
LEMMA Creating ==
  ASSUME CreationTypeOK, CreateMasterSafe
  PROVE  CreationTypeOK' /\ creation'.data = "none" /\ UNCHANGED <<safe, walletSafe>>
<1>1. /\ creation' \in CreationRecords /\ creation'.data = "none"
      /\ creating' = TRUE /\ UNCHANGED <<safe, walletSafe>>
  BY DEF CreateMasterSafe, NoCreation, CreationRecords
<1> QED BY <1>1 DEF CreationTypeOK, CreationRecords

LEMMA CreationStays ==
  ASSUME CreationTypeOK, UNCHANGED creationVars
  PROVE  CreationTypeOK' /\ (Begun' <=> Begun) /\ UNCHANGED safe
<1>1. UNCHANGED <<safe, creating, walletSafe, creation>>
  BY DEF creationVars
<1> QED BY <1>1 DEF CreationTypeOK, Begun

-----------------------------------------------------------------------------
(* The bridge: its screens.                                                *)

Shown == screen \in {"in_progress", "completed"}

\* The progress screen has a quote.
HasQuote == Shown => chosen \in Quotes

\* A retry follows a failure, a creation a delivery, of the bundle shown.
RetryIsDue == retrying => Shown /\ bundle[quoteId] = "failed"

CreationIsDue == Begun => Shown /\ bundle[quoteId] = "done"

Inv ==
  /\ TypeOK /\ HasQuote /\ ExecuteIsTrue /\ StatusIsTrue
  /\ RetryIsDue /\ CreationIsDue /\ CompletedMeansDelivered

LEMMA InvParts == Inv => QueriesAreTrue /\ CreationTypeOK
BY DEF Inv, TypeOK, QueriesAreTrue

\* What the screen adds to the types.
ScreenType ==
  /\ screen \in {"off", "depositing", "in_progress", "completed"}
  /\ mode \in {"onboard", "deposit"}
  /\ chosen \in Quotes \cup {None}
  /\ request \in {"idle", "asked", "failed"}
  /\ advance \in BOOLEAN /\ canCreate \in BOOLEAN
  /\ retrying \in BOOLEAN /\ dismissed \in BOOLEAN
  /\ quoteId = IF Shown THEN chosen ELSE None
  /\ advance => screen = "depositing" /\ chosen # None

LEMMA TypeParts ==
  /\ TypeOK <=> BridgingTypeOK /\ CreationTypeOK /\ ScreenType
  /\ TypeOK' <=> BridgingTypeOK' /\ CreationTypeOK' /\ ScreenType'
BY DEF TypeOK, ScreenType, Shown

\* A shown bundle is a quote.
LEMMA ShownQuote == Inv /\ Shown => quoteId = chosen /\ chosen \in Quotes
BY DEF Inv, TypeOK, HasQuote, Shown

\* Nothing of the screen is left when it goes.
LEMMA Leaving ==
  ASSUME Inv, NEW next \in {"off", "depositing"}, Unmounted(next),
         mode' \in {"onboard", "deposit"}
  PROVE  Inv'
<1>0. BridgingTypeOK /\ CreationTypeOK
  BY DEF Inv, TypeOK
<1>1. /\ screen' = next /\ chosen' = None /\ UseQuote(None) /\ creation' = NoCreation
      /\ advance' = FALSE /\ canCreate' = FALSE /\ retrying' = FALSE /\ dismissed' = FALSE
      /\ request' \in {"idle", "asked"}
      /\ UNCHANGED <<online, outages, bundle, safe, creating, walletSafe>>
  BY DEF Unmounted, connection
<1>2. quoteId' = None /\ execute' = NoExecution /\ status' = NoStatus
  BY <1>1, NewQuote
<1>3. BridgingTypeOK'
  BY <1>0, <1>1, <1>2, Blanks DEF BridgingTypeOK, Executes, StatusRecords
<1>4. CreationTypeOK'
  BY <1>0, <1>1, NothingBegun DEF CreationTypeOK, CreationRecords
<1>5. ~Shown'
  BY <1>1 DEF Shown
<1>6. ScreenType'
  BY <1>1, <1>2, <1>5 DEF ScreenType
<1>7. HasQuote' /\ RetryIsDue' /\ CompletedMeansDelivered'
  BY <1>1, <1>5 DEF HasQuote, RetryIsDue, CompletedMeansDelivered
<1>8. ExecuteIsTrue' /\ StatusIsTrue' /\ CreationIsDue'
  BY <1>1, <1>2, Blanks, NothingBegun
     DEF ExecuteIsTrue, StatusIsTrue, CreationIsDue, Begun
<1> QED BY <1>3, <1>4, <1>6, <1>7, <1>8, TypeParts DEF Inv

\* What a step must keep besides the types of the queries and of the safe,
\* while the quote stays and the bundles do not change their minds.
LEMMA Staying ==
  ASSUME Inv, BridgingTypeOK', CreationTypeOK', ScreenType',
         ExecuteIsTrue', StatusIsTrue', BundlesStay,
         screen' = screen \/ (screen = "in_progress" /\ screen' = "completed"),
         Shown => UNCHANGED <<quoteId, chosen, canCreate>>,
         retrying' => retrying \/ (Shown /\ bundle[quoteId] = "failed"),
         Begun' => Begun \/ (Shown /\ bundle[quoteId] = "done"),
         safe = "funded" => safe' = "funded",
         screen # screen' => bundle[quoteId] = "done" /\ (canCreate => safe = "funded")
  PROVE  Inv'
<1>1. /\ Shown' <=> Shown
      /\ Shown => /\ quoteId' = quoteId /\ chosen' = quoteId
                  /\ quoteId \in Quotes /\ chosen = quoteId
  BY ShownQuote DEF Shown
<1>2. Shown =>
        /\ bundle[quoteId] = "failed" => bundle'[quoteId] = "failed"
        /\ bundle[quoteId] = "done" => bundle'[quoteId] = "done"
  BY <1>1 DEF BundlesStay, Final
<1>3. HasQuote'
  BY <1>1 DEF HasQuote
<1>4. RetryIsDue'
  BY <1>1, <1>2 DEF Inv, RetryIsDue
<1>5. CreationIsDue'
  BY <1>1, <1>2 DEF Inv, CreationIsDue
<1>6. CompletedMeansDelivered'
  BY <1>1, <1>2 DEF Inv, CompletedMeansDelivered, Shown
<1> QED BY <1>3, <1>4, <1>5, <1>6, TypeParts DEF Inv

LEMMA InitInv == Init => Inv
<1> SUFFICES ASSUME Init PROVE Inv
  OBVIOUS
<1>1. BridgingTypeOK /\ ExecuteIsTrue /\ StatusIsTrue
  BY Blanks, OutagesAreBounded
     DEF Init, BridgingInit, BridgingTypeOK, ExecuteIsTrue, StatusIsTrue,
         Executes, StatusRecords
<1>2. CreationTypeOK /\ CreationIsDue
  BY NothingBegun
     DEF Init, CreationInit, CreationTypeOK, CreationRecords, CreationIsDue, Begun
<1>3. ScreenType
  BY DEF Init, BridgingInit, ScreenType, Shown
<1>4. HasQuote /\ RetryIsDue /\ CompletedMeansDelivered
  BY DEF Init, HasQuote, RetryIsDue, CompletedMeansDelivered, Shown
<1> QED BY <1>1, <1>2, <1>3, <1>4, TypeParts DEF Inv

-----------------------------------------------------------------------------
(* Every step.                                                             *)

\* The deposit screen.
LEMMA DepositStep ==
  ASSUME Inv,
         \/ \E q \in Quotes : RequirementsAnswer(q)
         \/ QuoteFails \/ QuoteAsked \/ DepositDone
  PROVE  Inv'
<1>0. Queries /\ BridgingTypeOK /\ CreationTypeOK /\ ScreenType /\ (Shown => quoteId # None)
  BY QueriesOfType, InvParts, TypeParts, ShownQuote, NoneIsNoQuote DEF Inv
<1>1. ASSUME NEW q \in Quotes, RequirementsAnswer(q) PROVE Inv'
  <2>1. /\ screen = "depositing" /\ ~Shown
        /\ UNCHANGED <<online, outages, quoteId, execute, status, screen, mode,
                       canCreate, retrying, dismissed>>
        /\ UNCHANGED creationVars /\ request' = "idle"
    BY <1>1 DEF RequirementsAnswer, Depositing, connection, queries, Shown
  <2>2. quoteId = None
    BY <1>0, <2>1 DEF ScreenType
  <2>3. /\ bundle' \in [Quotes -> BundleStates] /\ BundlesStay
    BY <1>0, <1>1 DEF RequirementsAnswer, Queries, BundleStates, BundlesStay, Known, Final
  <2>4. BridgingTypeOK'
    BY <1>0, <2>1, <2>3 DEF BridgingTypeOK, BundleStates
  <2>5. ExecuteIsTrue' /\ StatusIsTrue'
    BY <2>1, <2>2, NoneIsNoQuote DEF Inv, ExecuteIsTrue, StatusIsTrue
  <2>6. q # None /\ (UNCHANGED <<chosen, advance>> \/ (chosen' = q /\ advance' = TRUE))
    BY <1>1, NoneIsNoQuote DEF RequirementsAnswer
  <2>7. ScreenType'
    <3>1. chosen' \in Quotes \cup {None}
      BY <1>0, <2>6 DEF ScreenType
    <3>2. advance' \in BOOLEAN
      BY <1>0, <2>6 DEF ScreenType
    <3>3. advance' => screen' = "depositing" /\ chosen' # None
      <4>1. CASE UNCHANGED <<chosen, advance>>
        BY <1>0, <2>1, <4>1 DEF ScreenType
      <4>2. CASE chosen' = q
        BY <2>1, <2>6, <4>2
      <4> QED BY <2>6, <4>1, <4>2
    <3> QED BY <1>0, <2>1, <2>2, <3>1, <3>2, <3>3 DEF ScreenType, Shown
  <2>8. CreationTypeOK' /\ (Begun' <=> Begun) /\ UNCHANGED safe
    BY <2>1, CreationStays, InvParts
  <2> QED BY <2>1, <2>3, <2>4, <2>5, <2>7, <2>8, Staying
<1>2. CASE QuoteFails \/ QuoteAsked
  <2>1. /\ UNCHANGED bridgingVars /\ UNCHANGED creationVars
        /\ UNCHANGED <<screen, mode, chosen, advance, canCreate, retrying, dismissed>>
        /\ request' \in {"failed", "asked"}
    BY <1>2 DEF QuoteFails, QuoteAsked
  <2>2. /\ BridgingTypeOK' /\ ExecuteIsTrue' /\ StatusIsTrue' /\ BundlesStay
        /\ UNCHANGED quoteId /\ CreationTypeOK' /\ (Begun' <=> Begun) /\ UNCHANGED safe
    BY <2>1, InvParts, QueriesStay, CreationStays
  <2>3. ScreenType'
    BY <1>0, <2>1, <2>2 DEF ScreenType, Shown
  <2> QED BY <2>1, <2>2, <2>3, Staying
<1>3. CASE DepositDone
  <2>1. /\ screen = "depositing" /\ chosen \in Quotes /\ ~Shown
        /\ advance' = FALSE /\ screen' = "in_progress" /\ UseQuote(chosen)
        /\ canCreate' \in BOOLEAN /\ UNCHANGED creationVars
        /\ UNCHANGED <<online, outages, bundle, mode, chosen, request, retrying, dismissed>>
    BY <1>0, <1>3 DEF DepositDone, ScreenType, connection, Shown
  <2>2. /\ quoteId' = chosen /\ chosen # None
        /\ execute' \in Executes /\ status' \in StatusRecords
        /\ execute'.data = "none" /\ ~status'.fetching /\ status'.data = "none"
    BY <2>1, NewQuote, NoneIsNoQuote
  <2>3. BridgingTypeOK'
    BY <1>0, <2>1, <2>2 DEF BridgingTypeOK, Executes, StatusRecords
  <2>4. ExecuteIsTrue' /\ StatusIsTrue'
    BY <2>2 DEF ExecuteIsTrue, StatusIsTrue
  <2>5. ScreenType' /\ HasQuote'
    BY <1>0, <2>1, <2>2 DEF ScreenType, HasQuote, Shown
  <2>6. CreationTypeOK' /\ (Begun' <=> Begun) /\ UNCHANGED safe
    BY <2>1, CreationStays, InvParts
  <2>7. RetryIsDue' /\ CreationIsDue'
    BY <2>1, <2>6 DEF Inv, RetryIsDue, CreationIsDue
  <2>8. CompletedMeansDelivered'
    BY <2>1 DEF CompletedMeansDelivered
  <2> QED BY <2>3, <2>4, <2>5, <2>6, <2>7, <2>8, TypeParts DEF Inv
<1> QED BY <1>1, <1>2, <1>3

\* Who asks for a safe has a delivered bundle before him.
LEMMA CreationAfterBridge ==
  ASSUME Inv, CreateSafe \/ CreationRetried
  PROVE  /\ Shown /\ bundle[quoteId] = "done"
         /\ UNCHANGED bridgingVars /\ UNCHANGED screenVars /\ CreateMasterSafe
<1>1. CASE CreateSafe
  BY <1>1, CompletedIsDone, InvParts DEF CreateSafe, Delivered, Shown
<1>2. CASE CreationRetried
  <2>1. CASE IsBridgingCompleted
    BY <1>2, <2>1, CompletedIsDone, InvParts DEF CreationRetried, Shown
  <2>2. CASE creation.data = "created"
    BY <1>2, <2>2 DEF CreationRetried, Inv, CreationIsDue, Begun, Shown
  <2> QED BY <1>2, <2>1, <2>2 DEF CreationRetried
<1> QED BY <1>1, <1>2

\* The progress screen.
LEMMA ProgressStep ==
  ASSUME Inv,
         CreateSafe \/ CreationRetried \/ FlowCompleted \/ BridgeRetried
           \/ RefillNotNeeded \/ GasModalClosed
  PROVE  Inv'
<1>0. Queries /\ BridgingTypeOK /\ CreationTypeOK /\ ScreenType
  BY QueriesOfType, InvParts, TypeParts DEF Inv
<1>1. CASE CreateSafe \/ CreationRetried
  <2>1. /\ Shown /\ bundle[quoteId] = "done" /\ CreateMasterSafe
        /\ UNCHANGED bridgingVars
        /\ UNCHANGED <<screen, mode, chosen, request, advance, canCreate, retrying, dismissed>>
    BY <1>1, CreationAfterBridge DEF screenVars
  <2>2. /\ BridgingTypeOK' /\ ExecuteIsTrue' /\ StatusIsTrue' /\ BundlesStay
        /\ UNCHANGED quoteId
    BY <2>1, QueriesStay, InvParts
  <2>3. CreationTypeOK' /\ UNCHANGED safe
    BY <2>1, Creating, InvParts
  <2>4. ScreenType'
    BY <1>0, <2>1, <2>2 DEF ScreenType, Shown
  <2> QED BY <2>1, <2>2, <2>3, <2>4, Staying
<1>2. CASE FlowCompleted
  <2>1. /\ screen = "in_progress" /\ screen' = "completed" /\ Shown
        /\ UNCHANGED bridgingVars /\ UNCHANGED creationVars
        /\ UNCHANGED <<mode, chosen, request, advance, canCreate, retrying, dismissed>>
    BY <1>2 DEF FlowCompleted, Shown
  <2>2. bundle[quoteId] = "done"
    BY <1>2, CompletedIsDone, InvParts DEF FlowCompleted, Delivered
  <2>3. canCreate => safe = "funded"
    BY <1>0, <1>2 DEF FlowCompleted, ShouldCreate, IsTransferCompleted, CreationTypeOK
  <2>4. /\ BridgingTypeOK' /\ ExecuteIsTrue' /\ StatusIsTrue' /\ BundlesStay
        /\ UNCHANGED quoteId /\ CreationTypeOK' /\ (Begun' <=> Begun) /\ UNCHANGED safe
    BY <2>1, InvParts, QueriesStay, CreationStays
  <2>5. ScreenType'
    BY <1>0, <2>1, <2>4 DEF ScreenType, Shown
  <2> QED BY <2>1, <2>2, <2>3, <2>4, <2>5, Staying
<1>3. CASE BridgeRetried \/ RefillNotNeeded
  <2>1. /\ UNCHANGED bridgingVars /\ UNCHANGED creationVars
        /\ UNCHANGED <<screen, mode, chosen, request, advance, canCreate, dismissed>>
        /\ retrying' \in BOOLEAN
    BY <1>3 DEF BridgeRetried, RefillNotNeeded
  <2>2. retrying' => Shown /\ bundle[quoteId] = "failed"
    BY <1>3, FailedRows, InvParts DEF BridgeRetried, RefillNotNeeded, Shown
  <2>3. /\ BridgingTypeOK' /\ ExecuteIsTrue' /\ StatusIsTrue' /\ BundlesStay
        /\ UNCHANGED quoteId /\ CreationTypeOK' /\ (Begun' <=> Begun) /\ UNCHANGED safe
    BY <2>1, InvParts, QueriesStay, CreationStays
  <2>4. ScreenType'
    BY <1>0, <2>1, <2>3 DEF ScreenType, Shown
  <2> QED BY <2>1, <2>2, <2>3, <2>4, Staying
<1>4. CASE GasModalClosed
  <2>1. /\ quoteId \in Quotes /\ dismissed' = TRUE /\ ExecuteRemoved
        /\ UNCHANGED <<online, outages, quoteId, status, bundle>>
        /\ UNCHANGED creationVars
        /\ UNCHANGED <<screen, mode, chosen, request, advance, canCreate, retrying>>
    BY <1>0, <1>4 DEF GasModalClosed, connection, Queries
  <2>2. execute' \in Executes /\ execute'.data = "none"
    BY <2>1, Blanks DEF ExecuteRemoved
  <2>3. Queries' /\ ExecuteIsTrue' /\ StatusIsTrue' /\ BundlesStay
    BY <2>1, <2>2, InvParts, ExecutingAgain
  <2>4. BridgingTypeOK'
    BY <1>0, <2>1, <2>3 DEF BridgingTypeOK, Queries, Executes, StatusRecords, BundleStates
  <2>5. CreationTypeOK' /\ (Begun' <=> Begun) /\ UNCHANGED safe
    BY <2>1, CreationStays, InvParts
  <2>6. ScreenType'
    BY <1>0, <2>1 DEF ScreenType, Shown
  <2> QED BY <2>1, <2>3, <2>4, <2>5, <2>6, Staying
<1> QED BY <1>1, <1>2, <1>3, <1>4

LEMMA ComingAndGoing ==
  ASSUME Inv, Opened \/ Left \/ RefillNeeded
  PROVE  Inv'
<1>1. CASE Opened
  BY <1>1, Leaving DEF Opened
<1>2. CASE Left
  BY <1>2, Leaving DEF Left, Inv, TypeOK
<1>3. CASE RefillNeeded
  BY <1>3, Leaving DEF RefillNeeded, Inv, TypeOK
<1> QED BY <1>1, <1>2, <1>3

LEMMA NextInv == Inv /\ [Next]_vars => Inv'
<1> SUFFICES ASSUME Inv, [Next]_vars PROVE Inv'
  OBVIOUS
<1>0. ScreenType
  BY TypeParts DEF Inv
<1>1. CASE Opened \/ Left \/ RefillNeeded
  BY <1>1, ComingAndGoing
<1>2. CASE \/ \E q \in Quotes : RequirementsAnswer(q)
           \/ QuoteFails \/ QuoteAsked \/ DepositDone
  BY <1>2, DepositStep
<1>3. CASE CreateSafe \/ CreationRetried \/ FlowCompleted \/ BridgeRetried
             \/ RefillNotNeeded \/ GasModalClosed
  BY <1>3, ProgressStep
<1>4. CASE BridgingNext /\ UNCHANGED <<creationVars, screenVars>>
  <2>1. /\ UNCHANGED creationVars
        /\ UNCHANGED <<screen, mode, chosen, request, advance, canCreate, retrying, dismissed>>
    BY <1>4 DEF screenVars
  <2>2. /\ BridgingTypeOK' /\ ExecuteIsTrue' /\ StatusIsTrue' /\ BundlesStay
        /\ UNCHANGED quoteId
    BY <1>4, BridgingStep, InvParts
  <2>3. CreationTypeOK' /\ (Begun' <=> Begun) /\ UNCHANGED safe
    BY <2>1, CreationStays, InvParts
  <2>4. ScreenType'
    BY <1>0, <2>1, <2>2 DEF ScreenType, Shown
  <2> QED BY <2>1, <2>2, <2>3, <2>4, Staying
<1>5. CASE CreationNext /\ UNCHANGED <<bridgingVars, screenVars>>
  <2>1. /\ UNCHANGED bridgingVars
        /\ UNCHANGED <<screen, mode, chosen, request, advance, canCreate, retrying, dismissed>>
    BY <1>5 DEF screenVars
  <2>2. /\ BridgingTypeOK' /\ ExecuteIsTrue' /\ StatusIsTrue' /\ BundlesStay
        /\ UNCHANGED quoteId
    BY <2>1, QueriesStay, InvParts
  <2>3. CreationTypeOK' /\ (Begun' => Begun) /\ (safe = "funded" => safe' = "funded")
    BY <1>5, CreationStep, InvParts
  <2>4. ScreenType'
    BY <1>0, <2>1, <2>2 DEF ScreenType, Shown
  <2> QED BY <2>1, <2>2, <2>3, <2>4, Staying
<1>6. CASE UNCHANGED vars
  <2>1. /\ UNCHANGED bridgingVars /\ UNCHANGED creationVars
        /\ UNCHANGED <<screen, mode, chosen, request, advance, canCreate, retrying, dismissed>>
    BY <1>6 DEF vars, screenVars
  <2>2. /\ BridgingTypeOK' /\ ExecuteIsTrue' /\ StatusIsTrue' /\ BundlesStay
        /\ UNCHANGED quoteId /\ CreationTypeOK' /\ (Begun' <=> Begun) /\ UNCHANGED safe
    BY <2>1, InvParts, QueriesStay, CreationStays
  <2>3. ScreenType'
    BY <1>0, <2>1, <2>2 DEF ScreenType, Shown
  <2> QED BY <2>1, <2>2, <2>3, Staying
<1> QED BY <1>1, <1>2, <1>3, <1>4, <1>5, <1>6 DEF Next

LEMMA Invariance == Spec => []Inv
BY InitInv, NextInv, PTL DEF Spec

-----------------------------------------------------------------------------
(* The theorems.                                                           *)

\* Every variable keeps its type, the hook its quote and the timer its own.
THEOREM TypeCorrect == Spec => []TypeOK
<1>1. Inv => TypeOK
  BY DEF Inv
<1> QED BY <1>1, Invariance, PTL

\* A flow shown as complete (Bridge.tsx) has its bundle delivered, and the funds
\* in the safe if it had to create one.
THEOREM DeliveredWhenCompleted == Spec => []CompletedMeansDelivered
<1>1. Inv => CompletedMeansDelivered
  BY DEF Inv
<1> QED BY <1>1, Invariance, PTL

LEMMA PendingStep ==
  Inv /\ [Next]_vars /\ creation'.pending /\ ~creation.pending => bundle[quoteId] = "done"
<1> SUFFICES ASSUME Inv, [Next]_vars, creation'.pending, ~creation.pending
             PROVE  bundle[quoteId] = "done"
  OBVIOUS
<1>1. CASE CreateSafe \/ CreationRetried
  BY <1>1, CreationAfterBridge
<1>2. CASE CreationNext /\ UNCHANGED <<bridgingVars, screenVars>>
  BY <1>2, CreationStep, InvParts
<1>3. CASE Opened \/ Left \/ RefillNeeded
  BY <1>3, NothingBegun DEF Opened, Left, RefillNeeded, Unmounted
<1>4. CASE \/ \E q \in Quotes : RequirementsAnswer(q)
           \/ QuoteFails \/ QuoteAsked \/ DepositDone
  BY <1>4 DEF RequirementsAnswer, QuoteFails, QuoteAsked, DepositDone, creationVars
<1>5. CASE FlowCompleted \/ BridgeRetried \/ RefillNotNeeded \/ GasModalClosed
  BY <1>5 DEF FlowCompleted, BridgeRetried, RefillNotNeeded, GasModalClosed, creationVars
<1>6. CASE (BridgingNext /\ UNCHANGED <<creationVars, screenVars>>) \/ UNCHANGED vars
  BY <1>6 DEF creationVars, vars
<1> QED BY <1>1, <1>2, <1>3, <1>4, <1>5, <1>6 DEF Next

\* A safe is asked for (useMasterSafeCreateAndTransferSteps) only after the bridge
\* of the flow has delivered what is to be transferred.
THEOREM SafeIsLast == Spec => SafeAfterBridge
<1>1. Inv /\ [Next]_vars => [creation'.pending /\ ~creation.pending => bundle[quoteId] = "done"]_vars
  BY PendingStep
<1> QED BY <1>1, Invariance, PTL DEF Spec, SafeAfterBridge

LEMMA ReturnStep ==
  Inv /\ [Next]_vars /\ screen' = "depositing" /\ screen # "off" /\ screen # "depositing"
    => bundle[quoteId] = "failed"
<1> SUFFICES ASSUME Inv, [Next]_vars, screen' = "depositing", screen # "off",
                    screen # "depositing"
             PROVE  bundle[quoteId] = "failed"
  OBVIOUS
<1>1. CASE RefillNeeded
  BY <1>1 DEF RefillNeeded, Inv, RetryIsDue
<1>2. CASE Opened \/ Left
  BY <1>2 DEF Opened, Left, Unmounted
<1>3. CASE \/ \E q \in Quotes : RequirementsAnswer(q)
           \/ QuoteFails \/ QuoteAsked \/ DepositDone
  BY <1>3 DEF RequirementsAnswer, QuoteFails, QuoteAsked, DepositDone
<1>4. CASE CreateSafe \/ CreationRetried \/ FlowCompleted \/ BridgeRetried
             \/ RefillNotNeeded \/ GasModalClosed
  BY <1>4 DEF CreateSafe, CreationRetried, FlowCompleted, BridgeRetried,
              RefillNotNeeded, GasModalClosed, screenVars
<1>5. CASE \/ BridgingNext /\ UNCHANGED <<creationVars, screenVars>>
           \/ CreationNext /\ UNCHANGED <<bridgingVars, screenVars>>
           \/ UNCHANGED vars
  BY <1>5 DEF screenVars, vars
<1> QED BY <1>1, <1>2, <1>3, <1>4, <1>5 DEF Next

\* Only a request that really failed sends the user back to the deposit
\* (useRetryBridge), whatever answers were lost.
THEOREM BackOnlyAfterFailure == Spec => BackToDepositAfterFailure
<1>1. Inv /\ [Next]_vars =>
        [screen' = "depositing" /\ screen # "off" /\ screen # "depositing" =>
           bundle[quoteId] = "failed"]_vars
  BY ReturnStep
<1> QED BY <1>1, Invariance, PTL DEF Spec, BackToDepositAfterFailure

-----------------------------------------------------------------------------
(* The purchase: what is kept.                                             *)

\* A bundle was swapped.
SomeDone == \E q \in Quotes : bundle[q] = "done"

\* What the provider and the page add to the types.
RampType ==
  /\ page \in {"onramp", "main", "other"} /\ rampMode \in {"onboard", "deposit"}
  /\ needs \in {"tokens", "native", "nothing"} /\ wanted \in {"tokens", "native", "nothing"}
  /\ window \in BOOLEAN /\ loading \in BOOLEAN /\ loadingDue \in BOOLEAN
  /\ orders \in 0..MaxOrders /\ paying \in BOOLEAN
  /\ eoa \in 0..MaxOrders /\ seen \in 0..MaxOrders
  /\ computed \in 0..1 /\ amount \in 0..1 /\ usd \in BOOLEAN
  /\ initial \in (0..MaxOrders) \cup {None}
  /\ received \in BOOLEAN /\ swapDone \in BOOLEAN /\ setup \in BOOLEAN
  /\ swapRequest \in {"unasked", "asked", "failed", "answered"}
  /\ quoteId # None => page = "onramp" /\ received /\ swapRequest = "answered"

\* Every unit of the signer was bought, also the one that is on its way, and a
\* poll shows no more than was ever bought.
BoughtIsPaid == seen <= orders /\ eoa <= orders /\ (paying => eoa < orders)

\* While a purchase is awaited nothing is spent: a polled balance other than the
\* captured one is not above the real one.
AwaitedIsUnspent == ~received /\ initial # None /\ seen # initial => seen <= eoa

\* A purchase reported was paid, and its swap is asked for on the page and
\* after it only.
ReceivedIsPaid ==
  /\ received => orders > 0
  /\ swapRequest # "unasked" => page = "onramp" /\ received

\* A swap shown as done was done.
SwapIsDone == swapDone => SomeDone

\* Of a visit that began with something to swap, the requirements shrink only
\* once a swap was done.
ShrinksBySwap == wanted = "tokens" => needs = "tokens" \/ SomeDone

RampFacts ==
  /\ BoughtIsPaid /\ AwaitedIsUnspent /\ ReceivedIsPaid /\ SwapIsDone
  /\ ShrinksBySwap /\ SetupMeansSwapped

RampInv == QueriesAreTrue /\ CreationTypeOK /\ RampType /\ RampFacts

LEMMA RampTypeParts ==
  OnRampTypeOK <=> BridgingTypeOK /\ CreationTypeOK /\ RampType
BY DEF OnRampTypeOK, RampType

LEMMA RampInitInv == OnRampInit => RampInv
<1> SUFFICES ASSUME OnRampInit PROVE RampInv
  OBVIOUS
<1>0. MaxOrders \in Nat /\ MaxOrders > 0
  BY OrdersAreBounded
<1>1. QueriesAreTrue
  BY Blanks, OutagesAreBounded
     DEF OnRampInit, BridgingInit, QueriesAreTrue, BridgingTypeOK, ExecuteIsTrue,
         StatusIsTrue, Executes, StatusRecords
<1>2. CreationTypeOK
  BY NothingBegun DEF OnRampInit, CreationInit, CreationTypeOK, CreationRecords
<1>3. RampType
  <2>1. 0 \in 0..MaxOrders /\ 0 \in 0..1
    BY <1>0
  <2>2. quoteId = None
    BY DEF OnRampInit, BridgingInit
  <2> QED BY <2>1, <2>2 DEF OnRampInit, RampType
<1>4. RampFacts
  BY <1>0 DEF OnRampInit, RampFacts, BoughtIsPaid, AwaitedIsUnspent, ReceivedIsPaid,
              SwapIsDone, ShrinksBySwap, SetupMeansSwapped
<1> QED BY <1>1, <1>2, <1>3, <1>4 DEF RampInv

\* The hook and the creation stay as they are.
LEMMA HooksStay ==
  ASSUME RampInv, UNCHANGED bridgingVars, UNCHANGED creationVars
  PROVE  /\ QueriesAreTrue' /\ CreationTypeOK' /\ (SomeDone' <=> SomeDone)
         /\ UNCHANGED <<quoteId, bundle, safe>>
<1>1. QueriesAreTrue /\ CreationTypeOK
  BY DEF RampInv
<1>2. QueriesAreTrue' /\ CreationTypeOK'
  BY <1>1, QueriesStay, CreationStays DEF QueriesAreTrue
<1>3. UNCHANGED <<quoteId, bundle, safe>>
  BY DEF bridgingVars, queries, creationVars
<1> QED BY <1>2, <1>3 DEF SomeDone

\* What a step must keep of the facts while the page stays and no purchase, poll
\* or requirement is touched.
LEMMA RampStays ==
  ASSUME RampInv, QueriesAreTrue', CreationTypeOK', UNCHANGED rampVars,
         UNCHANGED quoteId, BundlesStay, safe # "none" => safe' # "none"
  PROVE  RampInv'
<1>1. SomeDone => SomeDone'
  BY DEF SomeDone, BundlesStay, Final
<1>2. UNCHANGED <<page, rampMode, needs, wanted, window, orders, paying, eoa, seen,
                  computed, amount, usd, loading, loadingDue, initial, received,
                  swapRequest, swapDone, setup>>
  BY DEF rampVars, wallet, price, button, visit
<1>3. RampType'
  BY <1>2 DEF RampInv, RampType
<1>4. BoughtIsPaid' /\ AwaitedIsUnspent' /\ ReceivedIsPaid'
  BY <1>2 DEF RampInv, RampFacts, BoughtIsPaid, AwaitedIsUnspent, ReceivedIsPaid
<1>5. SwapIsDone' /\ ShrinksBySwap'
  BY <1>1, <1>2 DEF RampInv, RampFacts, SwapIsDone, ShrinksBySwap
<1>6. SetupMeansSwapped'
  BY <1>1, <1>2 DEF RampInv, RampFacts, SetupMeansSwapped, SomeDone
<1> QED BY <1>3, <1>4, <1>5, <1>6 DEF RampInv, RampFacts

-----------------------------------------------------------------------------
(* The purchase: every step.                                               *)

\* What a step that leaves the hooks alone must keep.
LEMMA HooksAside ==
  ASSUME RampInv, UNCHANGED bridgingVars, UNCHANGED creationVars,
         RampType', BoughtIsPaid', AwaitedIsUnspent', ReceivedIsPaid',
         swapDone' => SomeDone,
         wanted' = wanted, needs' = needs \/ SomeDone \/ wanted # "tokens",
         orders <= orders' ,
         setup' => setup \/ /\ orders > 0 /\ safe # "none"
                            /\ wanted = "tokens" => SomeDone
  PROVE  RampInv'
<1>1. /\ QueriesAreTrue' /\ CreationTypeOK' /\ (SomeDone' <=> SomeDone)
      /\ UNCHANGED <<quoteId, bundle, safe>>
  BY HooksStay
<1>2. SwapIsDone'
  BY <1>1 DEF SwapIsDone
<1>3. ShrinksBySwap'
  BY <1>1 DEF RampInv, RampFacts, ShrinksBySwap
<1>4. SetupMeansSwapped'
  <2>1. SetupMeansSwapped <=>
          (setup => orders > 0 /\ safe # "none" /\ (wanted = "tokens" => SomeDone))
    BY DEF SetupMeansSwapped, SomeDone
  <2>2. SetupMeansSwapped' <=>
          (setup' => orders' > 0 /\ safe' # "none" /\ (wanted' = "tokens" => SomeDone'))
    BY DEF SetupMeansSwapped, SomeDone
  <2>3. orders > 0 => orders' > 0
    BY DEF RampInv, RampType
  <2> QED BY <1>1, <2>1, <2>2, <2>3 DEF RampInv, RampFacts
<1> QED BY <1>1, <1>2, <1>3, <1>4 DEF RampInv, RampFacts

\* The steps of the provider and of the page that leave the hooks alone.
LEMMA WatchingStep ==
  ASSUME RampInv,
         \/ MainReset \/ RequirementsPolled \/ AmountUpdated \/ UsdUpdated
         \/ RefillRefetched \/ BuyCrypto \/ LoadingSet \/ WindowClosed
         \/ WindowDestroyed \/ OrderPaid \/ FundsArrive \/ BalancesPolled
         \/ FundsSeen \/ SwapQuoteFails \/ SwapCompleted \/ SetupCompleted
  PROVE  RampInv'
<1>0. /\ RampType /\ BoughtIsPaid /\ AwaitedIsUnspent /\ ReceivedIsPaid
      /\ SwapIsDone /\ ShrinksBySwap
  BY DEF RampInv, RampFacts
<1>1. MaxOrders \in Nat
  BY OrdersAreBounded
<1>2. CASE MainReset
  <2>1. /\ UNCHANGED bridgingVars /\ UNCHANGED creationVars /\ quoteId' = quoteId
        /\ UNCHANGED <<page, rampMode, needs, wanted, window, orders, paying, eoa, seen,
                       computed, loadingDue, swapRequest, setup>>
        /\ page = "main" /\ amount' = 0 /\ usd' = FALSE /\ loading' = FALSE
        /\ received' = FALSE /\ swapDone' = FALSE /\ initial' = None
    BY <1>2 DEF MainReset, Reset, wallet, visit, bridgingVars, queries
  <2>2. RampType'
    <3>1. quoteId' = None
      BY <1>0, <2>1 DEF RampType
    <3>2. /\ usd' \in BOOLEAN /\ loading' \in BOOLEAN
          /\ received' \in BOOLEAN /\ swapDone' \in BOOLEAN
      BY <2>1
    <3>3. amount' \in 0..1 /\ initial' \in (0..MaxOrders) \cup {None}
      BY <2>1
    <3> QED BY <1>0, <2>1, <3>1, <3>2, <3>3 DEF RampType
  <2>3. BoughtIsPaid' /\ AwaitedIsUnspent' /\ ReceivedIsPaid'
    BY <1>0, <2>1 DEF BoughtIsPaid, AwaitedIsUnspent, ReceivedIsPaid
  <2>4. orders <= orders'
    BY <1>0, <2>1 DEF RampType
  <2> QED BY <2>1, <2>2, <2>3, <2>4, HooksAside
<1>3. CASE RequirementsPolled \/ UsdUpdated \/ BuyCrypto \/ LoadingSet
             \/ WindowClosed \/ WindowDestroyed \/ SwapQuoteFails
  <2>1. /\ UNCHANGED bridgingVars /\ UNCHANGED creationVars /\ quoteId' = quoteId
        /\ UNCHANGED <<page, rampMode, needs, wanted, orders, paying, eoa, seen,
                       amount, initial, received, swapDone, setup>>
        /\ computed' = computed \/ computed' = Required
        /\ usd' \in BOOLEAN /\ window' \in BOOLEAN
        /\ loading' \in BOOLEAN /\ loadingDue' \in BOOLEAN
        /\ swapRequest' = swapRequest \/ (swapRequest = "asked" /\ swapRequest' = "failed")
    BY <1>0, <1>3
       DEF RequirementsPolled, UsdUpdated, BuyCrypto, LoadingSet, WindowClosed,
           WindowDestroyed, SwapQuoteFails, wallet, price, button, visit, bridgingVars,
           queries, RampType
  <2>2. Required \in 0..1
    BY <1>0 DEF Required, RampType
  <2>3. RampType'
    BY <1>0, <2>1, <2>2 DEF RampType
  <2>4. BoughtIsPaid' /\ AwaitedIsUnspent' /\ ReceivedIsPaid'
    BY <1>0, <2>1 DEF BoughtIsPaid, AwaitedIsUnspent, ReceivedIsPaid
  <2>5. orders <= orders'
    BY <1>0, <2>1 DEF RampType
  <2> QED BY <1>0, <2>1, <2>3, <2>4, <2>5, HooksAside DEF SwapIsDone
<1>4. CASE AmountUpdated
  <2>1. /\ UNCHANGED bridgingVars /\ UNCHANGED creationVars /\ quoteId' = quoteId
        /\ UNCHANGED <<page, rampMode, needs, wanted, window, orders, paying, eoa, seen,
                       computed, usd, loading, loadingDue, received, swapRequest,
                       swapDone, setup>>
        /\ amount' = computed /\ initial' \in {initial, seen}
    BY <1>4 DEF AmountUpdated, wallet, button, visit, bridgingVars, queries
  <2>2. RampType'
    BY <1>0, <2>1 DEF RampType
  <2>3. BoughtIsPaid' /\ AwaitedIsUnspent' /\ ReceivedIsPaid'
    BY <1>0, <2>1 DEF BoughtIsPaid, AwaitedIsUnspent, ReceivedIsPaid
  <2>4. orders <= orders'
    BY <1>0, <2>1 DEF RampType
  <2> QED BY <1>0, <2>1, <2>2, <2>3, <2>4, HooksAside DEF SwapIsDone
<1>5. CASE RefillRefetched
  <2>1. /\ UNCHANGED bridgingVars /\ UNCHANGED creationVars /\ quoteId' = quoteId
        /\ UNCHANGED <<page, rampMode, wanted, window, orders, paying, eoa, seen,
                       computed, amount, usd, loading, loadingDue, initial, received,
                       swapRequest, swapDone, setup>>
        /\ needs' = "nothing"
    BY <1>5 DEF RefillRefetched, wallet, price, button, bridgingVars, queries
  <2>2. SomeDone \/ wanted # "tokens"
    BY <1>0, <1>5 DEF RefillRefetched, SwapIsDone, ShrinksBySwap, SomeDone
  <2>3. RampType'
    BY <1>0, <2>1 DEF RampType
  <2>4. BoughtIsPaid' /\ AwaitedIsUnspent' /\ ReceivedIsPaid'
    BY <1>0, <2>1 DEF BoughtIsPaid, AwaitedIsUnspent, ReceivedIsPaid
  <2>5. orders <= orders'
    BY <1>0, <2>1 DEF RampType
  <2> QED BY <1>0, <2>1, <2>2, <2>3, <2>4, <2>5, HooksAside DEF SwapIsDone
<1>6. CASE OrderPaid \/ FundsArrive \/ BalancesPolled
  <2>1. /\ UNCHANGED bridgingVars /\ UNCHANGED creationVars /\ quoteId' = quoteId
        /\ UNCHANGED <<page, rampMode, needs, wanted, window, computed, amount, usd,
                       loading, loadingDue, initial, received, swapRequest, swapDone, setup>>
    BY <1>6 DEF OrderPaid, FundsArrive, BalancesPolled, wallet, price, button, visit,
                bridgingVars, queries
  <2>2. \/ /\ ~paying /\ paying' = TRUE /\ orders < MaxOrders /\ orders' = orders + 1
           /\ UNCHANGED <<eoa, seen>>
        \/ paying /\ paying' = FALSE /\ eoa' = eoa + 1 /\ UNCHANGED <<orders, seen>>
        \/ seen' = eoa /\ UNCHANGED <<orders, paying, eoa>>
    BY <1>6 DEF OrderPaid, FundsArrive, BalancesPolled, wallet
  <2>3. /\ orders \in Nat /\ eoa \in Nat /\ seen \in Nat /\ orders <= MaxOrders
        /\ seen <= orders /\ eoa <= orders /\ (paying => eoa < orders)
    BY <1>0, <1>1 DEF RampType, BoughtIsPaid
  <2>4. orders' \in 0..MaxOrders /\ eoa' \in 0..MaxOrders /\ seen' \in 0..MaxOrders
    BY <1>1, <2>2, <2>3
  <2>5. BoughtIsPaid' /\ orders <= orders'
    BY <2>2, <2>3 DEF BoughtIsPaid
  <2>6. paying' \in BOOLEAN
    BY <1>0, <2>2 DEF RampType
  <2>7. RampType'
    BY <1>0, <2>1, <2>4, <2>6 DEF RampType
  <2>8. seen' <= eoa' \/ (seen' = seen /\ eoa <= eoa')
    BY <2>2, <2>3
  <2>9. AwaitedIsUnspent'
    BY <1>0, <2>1, <2>3, <2>4, <2>8 DEF AwaitedIsUnspent
  <2>10. ReceivedIsPaid'
    BY <1>0, <2>1, <2>3, <2>4, <2>5 DEF ReceivedIsPaid
  <2> QED BY <1>0, <2>1, <2>5, <2>7, <2>9, <2>10, HooksAside DEF SwapIsDone
<1>7. CASE FundsSeen
  <2>1. /\ UNCHANGED bridgingVars /\ UNCHANGED creationVars /\ quoteId' = quoteId
        /\ UNCHANGED <<page, rampMode, needs, wanted, orders, paying, eoa, seen,
                       computed, amount, usd, loadingDue, initial, swapRequest,
                       swapDone, setup>>
        /\ received' = TRUE /\ loading' = FALSE /\ window' = FALSE
        /\ amount > 0 /\ initial # None /\ seen >= initial + amount
    BY <1>7 DEF FundsSeen, wallet, price, visit, bridgingVars, queries
  <2>2. RampType'
    <3>1. received' \in BOOLEAN /\ received' /\ loading' \in BOOLEAN /\ window' \in BOOLEAN
      BY <2>1
    <3> QED BY <1>0, <2>1, <3>1 DEF RampType
  <2>3. orders > 0 /\ orders <= orders'
    BY <1>0, <1>1, <2>1 DEF RampType, BoughtIsPaid
  <2>4. BoughtIsPaid' /\ AwaitedIsUnspent' /\ ReceivedIsPaid'
    BY <1>0, <2>1, <2>3 DEF BoughtIsPaid, AwaitedIsUnspent, ReceivedIsPaid
  <2> QED BY <1>0, <2>1, <2>2, <2>3, <2>4, HooksAside DEF SwapIsDone
<1>8. CASE SwapCompleted
  <2>1. /\ UNCHANGED bridgingVars /\ UNCHANGED creationVars /\ quoteId' = quoteId
        /\ UNCHANGED <<page, rampMode, needs, wanted, window, orders, paying, eoa, seen,
                       computed, amount, usd, loading, loadingDue, initial, received,
                       swapRequest, setup>>
        /\ swapDone' = TRUE
    BY <1>8 DEF SwapCompleted, wallet, price, button, visit, bridgingVars, queries
  <2>2. SomeDone
    BY <1>8, CompletedIsDone DEF SwapCompleted, RampInv, SomeDone
  <2>3. RampType'
    BY <1>0, <2>1 DEF RampType
  <2>4. BoughtIsPaid' /\ AwaitedIsUnspent' /\ ReceivedIsPaid'
    BY <1>0, <2>1 DEF BoughtIsPaid, AwaitedIsUnspent, ReceivedIsPaid
  <2>5. orders <= orders'
    BY <1>0, <2>1 DEF RampType
  <2> QED BY <2>1, <2>2, <2>3, <2>4, <2>5, HooksAside
<1>9. CASE SetupCompleted
  <2>1. /\ UNCHANGED bridgingVars /\ UNCHANGED creationVars /\ quoteId' = quoteId
        /\ UNCHANGED <<page, rampMode, needs, wanted, window, orders, paying, eoa, seen,
                       computed, amount, usd, loading, loadingDue, initial, received,
                       swapRequest, swapDone>>
        /\ setup' = TRUE /\ received
    BY <1>9 DEF SetupCompleted, wallet, price, button, bridgingVars, queries
  <2>2. orders > 0
    BY <1>0, <2>1 DEF ReceivedIsPaid
  <2>3. safe # "none"
    BY <1>9 DEF SetupCompleted, SafeFunded, IsTransferCompleted, RampInv, CreationTypeOK
  <2>4. wanted = "tokens" => SomeDone
    BY <1>0, <1>9 DEF SetupCompleted, ShrinksBySwap, SwapIsDone
  <2>5. RampType'
    BY <1>0, <2>1 DEF RampType
  <2>6. BoughtIsPaid' /\ AwaitedIsUnspent' /\ ReceivedIsPaid'
    BY <1>0, <2>1 DEF BoughtIsPaid, AwaitedIsUnspent, ReceivedIsPaid
  <2>7. orders <= orders'
    BY <1>0, <2>1 DEF RampType
  <2> QED BY <1>0, <2>1, <2>2, <2>3, <2>4, <2>5, <2>6, <2>7, HooksAside DEF SwapIsDone
<1> QED BY <1>2, <1>3, <1>4, <1>5, <1>6, <1>7, <1>8, <1>9

\* The page comes or goes: the hook has no quote and the mutation no result.
LEMMA PagingStep ==
  ASSUME RampInv, PageOpened \/ LeavePage \/ GoneElsewhere \/ MainReached
  PROVE  RampInv'
<1>0. /\ QueriesAreTrue /\ CreationTypeOK /\ RampType /\ BoughtIsPaid
      /\ AwaitedIsUnspent /\ ReceivedIsPaid /\ SwapIsDone /\ ShrinksBySwap
  BY DEF RampInv, RampFacts
<1>1. /\ UseQuote(None) /\ creation' = NoCreation
      /\ swapRequest' = "unasked" /\ setup' = FALSE
      /\ page' \in {"onramp", "main", "other"}
      /\ UNCHANGED <<online, outages, bundle, safe, creating, walletSafe, orders,
                     paying, eoa, seen, window, loadingDue, computed>>
  BY DEF PageOpened, LeavePage, GoneElsewhere, MainReached, PageChanges, connection,
         wallet
<1>2. \/ UNCHANGED <<amount, usd, loading, initial, received, swapDone>>
      \/ /\ amount' = 0 /\ usd' = FALSE /\ loading' = FALSE
         /\ received' = FALSE /\ swapDone' = FALSE /\ initial' = None
  BY DEF PageOpened, LeavePage, GoneElsewhere, MainReached, Reset
<1>3. \/ UNCHANGED <<rampMode, needs, wanted>>
      \/ /\ needs' \in {"tokens", "native"} /\ wanted' = needs'
         /\ rampMode' \in {"onboard", "deposit"}
  BY DEF PageOpened, LeavePage, GoneElsewhere, MainReached
<1>4. quoteId' = None /\ execute' = NoExecution /\ status' = NoStatus
  BY <1>1, NewQuote
<1>5. QueriesAreTrue'
  <2>1. BridgingTypeOK'
    BY <1>0, <1>1, <1>4, Blanks DEF QueriesAreTrue, BridgingTypeOK, Executes, StatusRecords
  <2>2. ExecuteIsTrue' /\ StatusIsTrue'
    BY <1>4, Blanks DEF ExecuteIsTrue, StatusIsTrue
  <2> QED BY <2>1, <2>2 DEF QueriesAreTrue
<1>6. CreationTypeOK'
  BY <1>0, <1>1, NothingBegun DEF CreationTypeOK, CreationRecords
<1>7. RampType'
  <2>1. /\ usd' \in BOOLEAN /\ loading' \in BOOLEAN /\ received' \in BOOLEAN
        /\ swapDone' \in BOOLEAN /\ setup' \in BOOLEAN
    BY <1>0, <1>1, <1>2 DEF RampType
  <2>2. amount' \in 0..1 /\ initial' \in (0..MaxOrders) \cup {None}
    BY <1>0, <1>2 DEF RampType
  <2>3. /\ rampMode' \in {"onboard", "deposit"}
        /\ needs' \in {"tokens", "native", "nothing"}
        /\ wanted' \in {"tokens", "native", "nothing"}
    BY <1>0, <1>3 DEF RampType
  <2> QED BY <1>0, <1>1, <1>4, <2>1, <2>2, <2>3 DEF RampType
<1>8. BoughtIsPaid'
  BY <1>0, <1>1 DEF BoughtIsPaid
<1>9. AwaitedIsUnspent'
  BY <1>0, <1>1, <1>2 DEF AwaitedIsUnspent
<1>10. ReceivedIsPaid'
  BY <1>0, <1>1, <1>2 DEF ReceivedIsPaid
<1>11. SomeDone' <=> SomeDone
  BY <1>1 DEF SomeDone
<1>12. SwapIsDone'
  BY <1>0, <1>2, <1>11 DEF SwapIsDone
<1>13. ShrinksBySwap'
  BY <1>0, <1>3, <1>11 DEF ShrinksBySwap
<1>14. SetupMeansSwapped'
  BY <1>1 DEF SetupMeansSwapped
<1> QED BY <1>5, <1>6, <1>7, <1>8, <1>9, <1>10, <1>12, <1>13, <1>14 DEF RampInv, RampFacts

\* The hook takes a quote for funds that came, or none.
LEMMA TakingQuote ==
  ASSUME RampInv, NEW q \in Quotes \cup {None}, UseQuote(q),
         swapRequest' \in {"unasked", "asked", "failed", "answered"},
         page = "onramp", received, q # None => swapRequest' = "answered",
         bundle' \in [Quotes -> BundleStates], BundlesStay,
         UNCHANGED <<online, outages, page, rampMode, needs, wanted, window, orders,
                     paying, eoa, seen, computed, amount, usd, loading, loadingDue,
                     initial, received, swapDone, setup>>,
         UNCHANGED creationVars
  PROVE  RampInv'
<1>0. QueriesAreTrue /\ CreationTypeOK /\ RampType /\ RampFacts
  BY DEF RampInv
<1>1. /\ quoteId' = q /\ execute' \in Executes /\ status' \in StatusRecords
      /\ execute'.data = "none" /\ ~status'.fetching /\ status'.data = "none"
      /\ q = None => execute' = NoExecution /\ status' = NoStatus
  BY NewQuote
<1>2. QueriesAreTrue'
  <2>1. BridgingTypeOK'
    BY <1>0, <1>1 DEF QueriesAreTrue, BridgingTypeOK, Executes, StatusRecords, BundleStates
  <2>2. ExecuteIsTrue' /\ StatusIsTrue'
    BY <1>1 DEF ExecuteIsTrue, StatusIsTrue
  <2> QED BY <2>1, <2>2 DEF QueriesAreTrue
<1>3. CreationTypeOK' /\ UNCHANGED safe
  BY <1>0, CreationStays
<1>4. RampType'
  BY <1>0, <1>1 DEF RampType
<1>5. SomeDone => SomeDone'
  BY DEF SomeDone, BundlesStay, Final
<1>6. BoughtIsPaid' /\ AwaitedIsUnspent' /\ ReceivedIsPaid'
  BY <1>0 DEF RampFacts, BoughtIsPaid, AwaitedIsUnspent, ReceivedIsPaid
<1>7. SwapIsDone' /\ ShrinksBySwap'
  BY <1>0, <1>5 DEF RampFacts, SwapIsDone, ShrinksBySwap
<1>8. SetupMeansSwapped'
  BY <1>0, <1>3, <1>5 DEF RampFacts, SetupMeansSwapped, SomeDone
<1> QED BY <1>2, <1>3, <1>4, <1>6, <1>7, <1>8 DEF RampInv, RampFacts

\* The swap's quote is asked for, without one in the hook, and answered.
LEMMA QuoteStep ==
  ASSUME RampInv, SwapQuoteAsked \/ \E q \in Quotes : SwapQuoteAnswered(q)
  PROVE  RampInv'
<1>0. Queries
  BY QueriesOfType DEF RampInv
<1>1. CASE SwapQuoteAsked
  <2>1. /\ UseQuote(None) /\ None \in Quotes \cup {None} /\ swapRequest' = "asked"
        /\ page = "onramp" /\ received /\ UNCHANGED bundle /\ UNCHANGED creationVars
        /\ UNCHANGED <<online, outages, page, rampMode, needs, wanted, window, orders,
                       paying, eoa, seen, computed, amount, usd, loading, loadingDue,
                       initial, received, swapDone, setup>>
    BY <1>1 DEF SwapQuoteAsked, OnPage, connection, wallet, price, button
  <2>2. bundle' \in [Quotes -> BundleStates] /\ BundlesStay
    BY <1>0, <2>1 DEF Queries, BundlesStay
  <2> QED BY <2>1, <2>2, TakingQuote
<1>2. ASSUME NEW q \in Quotes, SwapQuoteAnswered(q) PROVE RampInv'
  <2>1. /\ UseQuote(q) /\ q \in Quotes \cup {None} /\ swapRequest' = "answered"
        /\ page = "onramp" /\ swapRequest = "asked" /\ UNCHANGED creationVars
        /\ UNCHANGED <<online, outages, page, rampMode, needs, wanted, window, orders,
                       paying, eoa, seen, computed, amount, usd, loading, loadingDue,
                       initial, received, swapDone, setup>>
    BY <1>2 DEF SwapQuoteAnswered, OnPage, connection, wallet, price, button
  <2>2. bundle' \in [Quotes -> BundleStates] /\ BundlesStay
    BY <1>0, <1>2
       DEF SwapQuoteAnswered, Queries, BundleStates, BundlesStay, Known, Final
  <2>3. received
    BY <2>1 DEF RampInv, RampFacts, ReceivedIsPaid
  <2> QED BY <2>1, <2>2, <2>3, TakingQuote
<1> QED BY <1>1, <1>2

\* The post of the swap spends what was received, and only then.
LEMMA PostStep ==
  ASSUME RampInv, SwapPosts
  PROVE  RampInv'
<1>0. /\ QueriesAreTrue /\ CreationTypeOK /\ RampType /\ RampFacts /\ Queries
  BY QueriesOfType DEF RampInv
<1>1. /\ ExecutePosts /\ (UNCHANGED eoa \/ (eoa > 0 /\ eoa' = eoa - 1))
      /\ UNCHANGED creationVars
      /\ UNCHANGED <<page, rampMode, needs, wanted, window, orders, paying, seen,
                     computed, amount, usd, loading, loadingDue, initial, received,
                     swapRequest, swapDone, setup>>
  BY DEF SwapPosts, price, button, visit
<1>2. QueriesAreTrue' /\ BundlesStay /\ UNCHANGED quoteId
  BY <1>0, <1>1, BridgingStep DEF BridgingNext, QueriesAreTrue
<1>3. CreationTypeOK' /\ UNCHANGED safe
  BY <1>0, <1>1, CreationStays
<1>4. received
  <2>1. quoteId # None
    BY <1>0, <1>1, Blanks DEF ExecutePosts, Queries
  <2> QED BY <1>0, <2>1 DEF RampType
<1>5. eoa' \in 0..MaxOrders /\ eoa' <= eoa
  <2>1. MaxOrders \in Nat /\ eoa \in 0..MaxOrders
    BY <1>0, OrdersAreBounded DEF RampType
  <2>2. eoa' = eoa \/ (eoa > 0 /\ eoa' = eoa - 1)
    BY <1>1
  <2> QED BY <2>1, <2>2
<1>6. RampType'
  BY <1>0, <1>1, <1>2, <1>5 DEF RampType
<1>7. BoughtIsPaid'
  <2>1. /\ orders \in Nat /\ eoa \in Nat /\ eoa' \in Nat /\ eoa' <= eoa
        /\ seen <= orders /\ eoa <= orders /\ (paying => eoa < orders)
    BY <1>0, <1>5, OrdersAreBounded DEF RampFacts, BoughtIsPaid, RampType
  <2>2. UNCHANGED <<orders, seen, paying>>
    BY <1>1
  <2>3. eoa' <= orders /\ (paying => eoa' < orders)
    BY <2>1
  <2> QED BY <2>1, <2>2, <2>3 DEF BoughtIsPaid
<1>8. AwaitedIsUnspent' /\ ReceivedIsPaid'
  BY <1>0, <1>1, <1>4 DEF RampFacts, AwaitedIsUnspent, ReceivedIsPaid
<1>9. SomeDone => SomeDone'
  BY <1>2 DEF SomeDone, BundlesStay, Final
<1>10. SwapIsDone' /\ ShrinksBySwap'
  BY <1>0, <1>1, <1>9 DEF RampFacts, SwapIsDone, ShrinksBySwap
<1>11. SetupMeansSwapped'
  BY <1>0, <1>1, <1>3, <1>9 DEF RampFacts, SetupMeansSwapped, SomeDone
<1> QED BY <1>2, <1>3, <1>6, <1>7, <1>8, <1>10, <1>11 DEF RampInv, RampFacts

\* The steps of the hook and of the safe that the page only watches.
HookStep ==
  \/ Bridging(ExecuteAnswers) \/ Bridging(ExecuteErrors)
  \/ Bridging(StatusPolled) \/ Bridging(StatusAnswers) \/ Bridging(StatusErrors)
  \/ Bridging(ConnectionLost) \/ Bridging(ConnectionBack)
  \/ \E q \in Quotes : Bridging(BundleSettles(q))

SafeStep ==
  \/ RampCreatesSafe \/ RampRetriesSafe
  \/ CreatingSafe(SafeDeployed) \/ CreatingSafe(FundsTransferred)
  \/ CreatingSafe(CreationAnswers) \/ CreatingSafe(CreationThrows)
  \/ CreatingSafe(CreationForgotten) \/ CreatingSafe(WalletsPolled)

LEMMA HookKeeps == RampInv /\ HookStep => RampInv' /\ UNCHANGED rampVars
<1> SUFFICES ASSUME RampInv, HookStep PROVE RampInv' /\ UNCHANGED rampVars
  OBVIOUS
<1>1. BridgingNext /\ UNCHANGED creationVars /\ UNCHANGED rampVars
  BY DEF HookStep, Bridging, BridgingNext
<1>2. QueriesAreTrue' /\ BundlesStay /\ UNCHANGED quoteId
  BY <1>1, BridgingStep DEF RampInv, QueriesAreTrue
<1>3. CreationTypeOK' /\ UNCHANGED safe
  BY <1>1, CreationStays DEF RampInv
<1> QED BY <1>1, <1>2, <1>3, RampStays

LEMMA SafeKeeps == RampInv /\ SafeStep => RampInv' /\ UNCHANGED rampVars
<1> SUFFICES ASSUME RampInv, SafeStep PROVE RampInv' /\ UNCHANGED rampVars
  OBVIOUS
<1>1. /\ UNCHANGED bridgingVars /\ UNCHANGED rampVars
      /\ CreateMasterSafe \/ CreationNext
  BY DEF SafeStep, CreatingSafe, CreationNext, RampCreatesSafe, RampRetriesSafe
<1>2. QueriesAreTrue' /\ BundlesStay /\ UNCHANGED quoteId
  BY <1>1, QueriesStay DEF RampInv, QueriesAreTrue
<1>3. CreationTypeOK'
  BY <1>1, Creating, CreationStep DEF RampInv
<1>4. safe # "none" => safe' # "none"
  BY <1>1 DEF CreateMasterSafe, CreationNext, SafeDeployed, FundsTransferred,
              CreationAnswers, CreationThrows, CreationForgotten, WalletsPolled
<1> QED BY <1>1, <1>2, <1>3, <1>4, RampStays

LEMMA RampNextInv == RampInv /\ [OnRampNext]_onRampVars => RampInv'
<1> SUFFICES ASSUME RampInv, [OnRampNext]_onRampVars PROVE RampInv'
  OBVIOUS
<1>1. CASE \/ MainReset \/ RequirementsPolled \/ AmountUpdated \/ UsdUpdated
           \/ RefillRefetched \/ BuyCrypto \/ LoadingSet \/ WindowClosed
           \/ WindowDestroyed \/ OrderPaid \/ FundsArrive \/ BalancesPolled
           \/ FundsSeen \/ SwapQuoteFails \/ SwapCompleted \/ SetupCompleted
  BY <1>1, WatchingStep
<1>2. CASE PageOpened \/ LeavePage \/ GoneElsewhere \/ MainReached
  BY <1>2, PagingStep
<1>3. CASE SwapQuoteAsked \/ \E q \in Quotes : SwapQuoteAnswered(q)
  BY <1>3, QuoteStep
<1>4. CASE SwapPosts
  BY <1>4, PostStep
<1>5. CASE HookStep
  BY <1>5, HookKeeps
<1>6. CASE SafeStep
  BY <1>6, SafeKeeps
<1>7. CASE UNCHANGED onRampVars
  <2>1. UNCHANGED bridgingVars /\ UNCHANGED creationVars /\ UNCHANGED rampVars
    BY <1>7 DEF onRampVars
  <2>2. QueriesAreTrue' /\ BundlesStay /\ UNCHANGED quoteId
    BY <2>1, QueriesStay DEF RampInv, QueriesAreTrue
  <2>3. CreationTypeOK' /\ UNCHANGED safe
    BY <2>1, CreationStays DEF RampInv
  <2> QED BY <2>1, <2>2, <2>3, RampStays
<1> QED BY <1>1, <1>2, <1>3, <1>4, <1>5, <1>6, <1>7 DEF OnRampNext, HookStep, SafeStep

LEMMA RampInvariance == OnRampSpec => []RampInv
BY RampInitInv, RampNextInv, PTL DEF OnRampSpec

\* A purchase is reported by one step only.
LEMMA ReceiptStep ==
  RampInv /\ [OnRampNext]_onRampVars /\ ~received /\ received' => FundsSeen
<1> SUFFICES ASSUME RampInv, [OnRampNext]_onRampVars, ~received, received'
             PROVE  FundsSeen
  OBVIOUS
<1>1. CASE \/ MainReset \/ RequirementsPolled \/ AmountUpdated \/ UsdUpdated
           \/ RefillRefetched \/ BuyCrypto \/ LoadingSet \/ WindowClosed
           \/ WindowDestroyed \/ OrderPaid \/ FundsArrive \/ BalancesPolled
  BY <1>1 DEF MainReset, Reset, RequirementsPolled, AmountUpdated, UsdUpdated,
              RefillRefetched, BuyCrypto, LoadingSet, WindowClosed, WindowDestroyed,
              OrderPaid, FundsArrive, BalancesPolled
<1>2. CASE PageOpened \/ LeavePage \/ GoneElsewhere \/ MainReached
  BY <1>2 DEF PageOpened, LeavePage, GoneElsewhere, MainReached, Reset
<1>3. CASE \/ SwapQuoteAsked \/ \E q \in Quotes : SwapQuoteAnswered(q)
           \/ SwapQuoteFails \/ SwapPosts \/ SwapCompleted \/ SetupCompleted
  BY <1>3 DEF SwapQuoteAsked, SwapQuoteAnswered, SwapQuoteFails, SwapPosts,
              SwapCompleted, SetupCompleted
<1>4. CASE HookStep \/ SafeStep \/ UNCHANGED onRampVars
  <2>1. UNCHANGED rampVars
    BY <1>4, HookKeeps, SafeKeeps DEF onRampVars
  <2> QED BY <2>1 DEF rampVars
<1> QED BY <1>1, <1>2, <1>3, <1>4 DEF OnRampNext, HookStep, SafeStep

\* What is seen above the captured balance is there.
LEMMA SeenIsThere == RampInv /\ FundsSeen => eoa > 0
<1> SUFFICES ASSUME RampInv, FundsSeen PROVE eoa > 0
  OBVIOUS
<1>1. /\ MaxOrders \in Nat /\ RampType /\ AwaitedIsUnspent
  BY OrdersAreBounded DEF RampInv, RampFacts
<1>2. /\ initial \in Nat /\ seen \in Nat /\ amount \in Nat /\ eoa \in Nat
      /\ amount > 0 /\ seen >= initial + amount /\ ~received /\ initial # None
  BY <1>1 DEF FundsSeen, RampType
<1>3. seen # initial /\ seen > 0
  BY <1>2
<1> QED BY <1>1, <1>2, <1>3 DEF AwaitedIsUnspent

-----------------------------------------------------------------------------
(* The purchase: the theorems.                                             *)

\* Every variable keeps its type, and the swap's hook has a quote only on the
\* page and for funds that came (OnRampProvider.tsx, OnRampPaymentSteps.tsx).
THEOREM OnRampTypeCorrect == OnRampSpec => []OnRampTypeOK
<1>1. RampInv => OnRampTypeOK
  BY RampTypeParts DEF RampInv, QueriesAreTrue
<1> QED BY <1>1, RampInvariance, PTL

\* An end that is shown (OnRampPaymentSteps.tsx) has a paid purchase, a safe and,
\* if there was something to swap, a swap behind it.
THEOREM SetupIsSwapped == OnRampSpec => []SetupMeansSwapped
<1>1. RampInv => SetupMeansSwapped
  BY DEF RampInv, RampFacts
<1> QED BY <1>1, RampInvariance, PTL

\* The provider's comparison of balances (OnRampProvider.tsx) reports no purchase
\* whose funds are not there.
THEOREM ReceiptBacked == OnRampSpec => ReceiptIsBacked
<1>1. RampInv /\ [OnRampNext]_onRampVars => [~received /\ received' => eoa > 0]_onRampVars
  BY ReceiptStep, SeenIsThere
<1> QED BY <1>1, RampInvariance, PTL DEF OnRampSpec, ReceiptIsBacked
=============================================================================
