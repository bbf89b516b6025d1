----------------------------- MODULE MCPearlStore -----------------------------
(* The auto-run key and one other; both were set in the Electron store, or      *)
(* neither was.                                                                 *)
EXTENDS PearlStore

CONSTANTS autoRun, trader

MCKeys == {autoRun, trader}
BothSet == [k \in MCKeys |-> "on"]
NothingSet == [k \in MCKeys |-> "absent"]
=============================================================================
