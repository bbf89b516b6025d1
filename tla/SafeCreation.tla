---------------------------- MODULE SafeCreation ----------------------------
(***************************************************************************)
(* useMasterSafeCreationAndTransfer: the mutation that has the middleware  *)
(* create the master safe and move the funds of the signer into it, and    *)
(* the poll of the wallets (MasterWalletProvider) that shows the safe on   *)
(* its own account.                                                        *)
(*                                                                         *)
(* One request does both, in that order; it may stop after either, and its *)
(* answer may be lost.  A new call of the mutation forgets the result of   *)
(* the last.  A request outlives the screen that made it.                  *)
(***************************************************************************)
EXTENDS Naturals

VARIABLES
  safe,         \* the chain's and the middleware's safe
  creating,     \* the middleware works on a request
  walletSafe,   \* getMasterSafeOf(chain) is not nil, as last polled
  creation      \* the mutation of the mounted screen

creationVars == <<safe, creating, walletSafe, creation>>

NoCreation == [pending |-> FALSE, error |-> FALSE, data |-> "none"]

\* data: SAFE_CREATION_FAILED; SAFE_CREATED_TRANSFER_FAILED or
\* SAFE_EXISTS_TRANSFER_FAILED; SAFE_CREATED_TRANSFER_COMPLETED or
\* SAFE_EXISTS_ALREADY_FUNDED.
CreationTypeOK ==
  /\ safe \in {"none", "created", "funded"}
  /\ creating \in BOOLEAN /\ walletSafe \in BOOLEAN
  /\ creation \in [pending : BOOLEAN, error : BOOLEAN,
                   data : {"none", "failed", "created", "completed"}]
  /\ walletSafe => safe # "none"
  /\ creation.data = "completed" => safe = "funded"

\* A new user has no safe; one who adds funds or an agent may have one.
CreationInit ==
  /\ safe \in {"none", "funded"} /\ walletSafe = (safe # "none")
  /\ creating = FALSE /\ creation = NoCreation

-----------------------------------------------------------------------------
IsSafeCreated == walletSafe \/ creation.data \in {"created", "completed"}
IsTransferCompleted == creation.data = "completed"

\* createMasterSafe(): mutate.
CreateMasterSafe ==
  /\ creation' = [NoCreation EXCEPT !.pending = TRUE]
  /\ creating' = TRUE
  /\ UNCHANGED <<safe, walletSafe>>

SafeDeployed ==
  /\ creating /\ safe = "none" /\ safe' = "created"
  /\ UNCHANGED <<creating, walletSafe, creation>>

FundsTransferred ==
  /\ creating /\ safe = "created" /\ safe' = "funded"
  /\ UNCHANGED <<creating, walletSafe, creation>>

CreationAnswers ==
  /\ creating /\ creation.pending
  /\ creation' = [NoCreation EXCEPT !.data =
       CASE safe = "none" -> "failed"
         [] safe = "created" -> "created"
         [] safe = "funded" -> "completed"]
  /\ creating' = FALSE
  /\ UNCHANGED <<safe, walletSafe>>

\* The request fails, wherever the middleware is with it.
CreationThrows ==
  /\ creation.pending
  /\ creation' = [NoCreation EXCEPT !.error = TRUE]
  /\ creating' \in {FALSE, creating}
  /\ UNCHANGED <<safe, walletSafe>>

\* A request nobody waits for ends.
CreationForgotten ==
  /\ creating /\ ~creation.pending /\ creating' = FALSE
  /\ UNCHANGED <<safe, walletSafe, creation>>

WalletsPolled ==
  /\ walletSafe' = (safe # "none")
  /\ UNCHANGED <<safe, creating, creation>>

CreationNext ==
  \/ SafeDeployed \/ FundsTransferred
  \/ CreationAnswers \/ CreationThrows \/ CreationForgotten
  \/ WalletsPolled

CreationFairness ==
  /\ WF_creationVars(CreationAnswers \/ CreationThrows)
  /\ WF_creationVars(WalletsPolled)
=============================================================================
