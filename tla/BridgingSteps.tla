---------------------------- MODULE BridgingSteps ----------------------------
(***************************************************************************)
(* useBridgingSteps: executes the bundle of a quote and polls its status.  *)
(* Both bridging (BridgeFlow) and on-ramping (OnRampFlow) drive it.        *)
(*                                                                         *)
(* The hook is two queries of one cache.  The execute query waits a        *)
(* second, posts, and is never polled; being stale at once, it runs again  *)
(* whenever it is enabled anew, as when the connection comes back.  The    *)
(* status query is enabled by the data of the execute query, is fetched    *)
(* once then, and polled until the EXECUTION has completed or failed.  A   *)
(* query keeps its data through a failed refetch, and drops its error when *)
(* a refetch starts only if it has no data.                                *)
(*                                                                         *)
(* A bundle stands for its bridge requests: "done" when all are            *)
(* EXECUTION_DONE, "failed" when some is EXECUTION_FAILED, else "pending". *)
(* The middleware executes a bundle once and answers a repeated request    *)
(* with the state it is in.                                                *)
(***************************************************************************)
EXTENDS Naturals

CONSTANTS
  Quotes,       \* ids of quote bundles
  None,         \* null, undefined
  MaxOutages    \* bound: times the connection is lost

ASSUME NoneIsNoQuote == None \notin Quotes
ASSUME OutagesAreBounded == MaxOutages \in Nat

VARIABLES
  online,       \* isOnline
  outages,      \* how often the connection was lost
  quoteId,      \* the hook's quoteId; None also when its host is not mounted
  execute,      \* the query under BRIDGE_EXECUTE_KEY(quoteId)
  status,       \* the query under BRIDGE_STATUS_BY_QUOTE_ID_KEY(quoteId)
  bundle        \* the middleware's state of each bundle

connection == <<online, outages>>
queries == <<quoteId, execute, status>>
bridgingVars == <<connection, queries, bundle>>

Outcomes == {"none", "pending", "done", "failed"}

NoExecution == [at |-> "idle", data |-> "none", error |-> FALSE]
Executing   == [at |-> "delay", data |-> "none", error |-> FALSE]
NoStatus    == [fetching |-> FALSE, data |-> "none", error |-> FALSE]

BridgingTypeOK ==
  /\ online \in BOOLEAN /\ outages \in 0..MaxOutages
  /\ quoteId \in Quotes \cup {None}
  /\ execute \in [at : {"idle", "delay", "posted"}, data : Outcomes, error : BOOLEAN]
  /\ status \in [fetching : BOOLEAN, data : Outcomes, error : BOOLEAN]
  /\ bundle \in [Quotes -> {"none", "quoted", "pending", "done", "failed"}]
  /\ quoteId = None => execute = NoExecution /\ status = NoStatus

BridgingInit ==
  /\ online = TRUE /\ outages = 0
  /\ quoteId = None /\ execute = NoExecution /\ status = NoStatus
  /\ bundle = [q \in Quotes |-> "none"]

-----------------------------------------------------------------------------
(* What the hook returns.                                                  *)

ExecuteFailed    == execute.error \/ execute.data = "failed"
ExecuteCompleted == execute.data = "done"

IsBridging ==
  \/ execute.at # "idle" /\ execute.data = "none"
  \/ status.fetching /\ status.data = "none"

IsBridgingCompleted == ExecuteCompleted \/ status.data = "done"

IsBridgingFailed == ExecuteFailed \/ status.error \/ status.data = "failed"

\* bridgeStatus: the rows under the bridging step, as one outcome.
Rows ==
  IF ExecuteCompleted
  THEN IF execute.at # "idle" \/ execute.error THEN "none" ELSE execute.data
  ELSE IF status.error THEN "none" ELSE status.data

-----------------------------------------------------------------------------
(* The queries.                                                            *)

\* The host hands the hook another quote: another key, nothing cached.
UseQuote(q) ==
  /\ quoteId' = q
  /\ execute' = IF q # None /\ online THEN Executing ELSE NoExecution
  /\ status' = NoStatus

StatusEnabled(exec) ==
  online /\ quoteId # None /\ exec.at = "idle" /\ exec.data # "none"

FetchStatus ==
  [status EXCEPT !.fetching = TRUE, !.error = @ /\ status.data # "none"]

\* The post goes out.  The middleware starts to execute a quoted bundle, or
\* refuses it, as it does when the signer lacks gas.
ExecutePosts ==
  /\ execute.at = "delay"
  /\ execute' = [execute EXCEPT !.at = "posted"]
  /\ \/ bundle[quoteId] = "quoted" /\ bundle' = [bundle EXCEPT ![quoteId] = "pending"]
     \/ UNCHANGED bundle
  /\ UNCHANGED <<connection, quoteId, status>>

\* Data enables the status query, which fetches at once.
ExecuteSettles(exec) ==
  /\ execute' = exec
  /\ status' = IF StatusEnabled(exec) THEN FetchStatus ELSE status
  /\ UNCHANGED <<connection, quoteId, bundle>>

ExecuteAnswers ==
  /\ execute.at = "posted" /\ bundle[quoteId] # "quoted"
  /\ ExecuteSettles([at |-> "idle", data |-> bundle[quoteId], error |-> FALSE])

\* retry: false.  A refusal, or an answer that is lost.
ExecuteErrors ==
  /\ execute.at = "posted"
  /\ ExecuteSettles([execute EXCEPT !.at = "idle", !.error = TRUE])

\* Mutant: a failed status request ends the poll too.
StatusPolledUntilError ==
  /\ StatusEnabled(execute) /\ ~status.fetching /\ ~status.error
  /\ ~ExecuteFailed /\ ~ExecuteCompleted
  /\ status' = FetchStatus
  /\ UNCHANGED <<connection, quoteId, execute, bundle>>

\* The interval, off once the execution has failed or completed.
StatusPolled ==
  /\ StatusEnabled(execute) /\ ~status.fetching
  /\ ~ExecuteFailed /\ ~ExecuteCompleted
  /\ status' = FetchStatus
  /\ UNCHANGED <<connection, quoteId, execute, bundle>>

StatusAnswers ==
  /\ status.fetching
  /\ status' = [fetching |-> FALSE, data |-> bundle[quoteId], error |-> FALSE]
  /\ UNCHANGED <<connection, quoteId, execute, bundle>>

\* The request and its retries fail.
StatusErrors ==
  /\ status.fetching
  /\ status' = [status EXCEPT !.fetching = FALSE, !.error = TRUE]
  /\ UNCHANGED <<connection, quoteId, execute, bundle>>

\* The query is removed from the cache: the next render finds no data and
\* fetches again.
ExecuteRemoved == execute' = IF online THEN Executing ELSE NoExecution

ConnectionLost ==
  /\ online /\ outages < MaxOutages
  /\ online' = FALSE /\ outages' = outages + 1
  /\ UNCHANGED <<queries, bundle>>

\* Enabled anew, the execute query runs again unless it is running.
ConnectionBack ==
  /\ ~online
  /\ online' = TRUE
  /\ execute' = IF quoteId = None \/ execute.at # "idle" THEN execute
                ELSE [execute EXCEPT !.at = "delay", !.error = @ /\ execute.data # "none"]
  /\ UNCHANGED <<outages, quoteId, status, bundle>>

\* The bridge delivers, or gives up on a request.
BundleSettles(q) ==
  /\ bundle[q] = "pending"
  /\ \E outcome \in {"done", "failed"} : bundle' = [bundle EXCEPT ![q] = outcome]
  /\ UNCHANGED <<connection, queries>>

BridgingNext ==
  \/ ExecutePosts \/ ExecuteAnswers \/ ExecuteErrors
  \/ StatusPolled \/ StatusAnswers \/ StatusErrors
  \/ ConnectionLost \/ ConnectionBack
  \/ \E q \in Quotes : BundleSettles(q)

\* Timers fire, requests end, the connection comes back, and a status request
\* that is made over and over is answered at last.
BridgingFairness ==
  /\ WF_bridgingVars(ExecutePosts)
  /\ WF_bridgingVars(ExecuteAnswers \/ ExecuteErrors)
  /\ WF_bridgingVars(StatusPolled)
  /\ WF_bridgingVars(StatusAnswers \/ StatusErrors)
  /\ SF_bridgingVars(StatusAnswers)
  /\ WF_bridgingVars(ConnectionBack)
=============================================================================
