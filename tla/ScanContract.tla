---------------------------- MODULE ScanContract ----------------------------
(***************************************************************************)
(* What the scanner promises to the rest of auto-run, which rings it up    *)
(* and then waits: it looks at the instances one after the other, each at  *)
(* most once in a scan; as long as auto-run is on it ends only with a      *)
(* confirmed start or with a timer that rings it up again; the long delay  *)
(* is for when everybody was looked at and nobody was in trouble; and it   *)
(* ends.  Once auto-run is off it starts nothing and arms nothing.         *)
(***************************************************************************)
CONSTANT Inst     \* the instances of the queue

VARIABLES
  enabled,    \* auto-run is on
  stage,      \* "idle", "looking", or "starting" an instance
  tried,      \* the instances the scan has looked at
  trouble,    \* one of them was loading or failed to start
  wakeup      \* the timer: "off", "soon" or "late"

vars == <<enabled, stage, tried, trouble, wakeup>>

Init ==
  /\ enabled = FALSE /\ stage = "idle" /\ tried = {} /\ trouble = FALSE
  /\ wakeup = "off"

Begin ==
  /\ enabled /\ stage = "idle" /\ stage' = "looking"
  /\ UNCHANGED <<enabled, tried, trouble, wakeup>>

Look(i) ==
  /\ enabled /\ stage # "idle" /\ stage' = "looking"
  /\ i \notin tried /\ tried' = tried \cup {i}
  /\ trouble' \in {trouble, TRUE}
  /\ UNCHANGED <<enabled, wakeup>>

\* The user's own choice comes before the scan, which follows if it cannot run;
\* when it was loading, the timer is armed on the way.
FallBack ==
  /\ enabled /\ stage # "idle" /\ stage' = "looking" /\ tried = {}
  /\ wakeup' \in {wakeup, "soon"}
  /\ UNCHANGED <<enabled, tried, trouble>>

Attempt ==
  /\ enabled /\ stage = "looking" /\ stage' = "starting"
  /\ UNCHANGED <<enabled, tried, trouble, wakeup>>

Stop ==
  /\ stage # "idle" /\ stage' = "idle" /\ tried' = {} /\ trouble' = FALSE
  /\ UNCHANGED enabled

Confirmed == stage = "starting" /\ Stop /\ UNCHANGED wakeup

GiveUp(delay) ==
  /\ enabled /\ Stop /\ wakeup' = delay
  /\ delay = "late" => tried = Inst /\ ~trouble

Abandon == ~enabled /\ Stop /\ UNCHANGED wakeup

Toggle ==
  /\ enabled' = ~enabled
  /\ wakeup' = IF enabled' THEN wakeup ELSE "off"
  /\ UNCHANGED <<stage, tried, trouble>>

TimerRings ==
  /\ wakeup # "off" /\ wakeup' = "off"
  /\ UNCHANGED <<enabled, stage, tried, trouble>>

Next ==
  \/ Begin \/ FallBack \/ Attempt \/ Confirmed \/ Abandon \/ Toggle \/ TimerRings
  \/ \E i \in Inst : Look(i)
  \/ \E delay \in {"soon", "late"} : GiveUp(delay)

Ends == (stage # "idle") ~> (stage = "idle")

Safety == Init /\ [][Next]_vars

Spec == Safety /\ Ends
=============================================================================
