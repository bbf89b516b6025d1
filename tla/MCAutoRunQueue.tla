--------------------------- MODULE MCAutoRunQueue ---------------------------
(* Three instances, the first two of one agent type.                       *)
EXTENDS AutoRunQueue

CONSTANTS a, b, c, t, u

MCConfigured == <<a, b, c>>
MCTypes == {t, u}
MCTypeOf == [i \in {a, b, c} |-> IF i = c THEN u ELSE t]
=============================================================================
