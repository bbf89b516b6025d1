-------------------------- MODULE MCAutoRunScanner --------------------------
(***************************************************************************)
(* AutoRunScanner with a queue of three and a bounded number of events     *)
(* from outside the flow, so that TLC can check its liveness too.  The     *)
(* flow's own steps are not bounded and keep their fairness.               *)
(***************************************************************************)
EXTENDS AutoRunScanner

CONSTANTS a, b, c,
  Events   \* bound on the events from outside the flow

ASSUME EventsIsNatural == Events \in Nat

VARIABLE left    \* how many of them may still happen

ThreeQueued == <<a, b, c>>

OutsideStep ==
  \/ \E sel \in Inst \cup {None} : Startup(sel)
  \/ \E i \in Inst \cup {None} : Rotation(i) \/ Poll(i)
  \/ Toggle
  \/ TimerFires
  \/ \E i \in Inst, answer \in Answers : OtherRefresh(i, answer) \/ ContextWrites(i, answer)
  \/ \E i \in Inst : ThrottleExpires(i)

LiveInit == Init /\ left = Events

LiveNext ==
  \/ FlowStep /\ UNCHANGED left
  \/ left > 0 /\ left' = left - 1 /\ OutsideStep

LiveSpec == LiveInit /\ [][LiveNext]_<<vars, left>> /\ WF_vars(FlowStep)
=============================================================================
