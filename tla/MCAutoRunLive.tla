---------------------------- MODULE MCAutoRunLive ----------------------------
(***************************************************************************)
(* AutoRunLifecycle with a bounded number of outside events, so that TLC   *)
(* can check its liveness with two instances.  The loop's own steps are    *)
(* not bounded and keep their fairness.                                    *)
(***************************************************************************)
EXTENDS AutoRunLifecycle

CONSTANT Events  \* bound on the events from outside the loop

ASSUME EventsIsNatural == Events \in Nat

VARIABLE left    \* how many of them may still happen

LoopStep == PollDeployments \/ Commit \/ TimerFires \/ FlowStep

OutsideStep ==
  \/ Toggle
  \/ \E i \in Inst, value \in BOOLEAN : RewardsTick(i, value)
  \/ Render
  \/ \E k \in Flows : StartIssued(k)
  \/ WatchdogFires
  \/ WorldStep

LiveInit == Init /\ left = Events

LiveNext ==
  \/ LoopStep /\ UNCHANGED left
  \/ left > 0 /\ left' = left - 1 /\ OutsideStep

LiveSpec == LiveInit /\ [][LiveNext]_<<vars, left>> /\ Fairness
=============================================================================
