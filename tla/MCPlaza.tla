------------------------------- MODULE MCPlaza -------------------------------
(* One CLI alone, with all its attempts, or two posters that try once.     *)
EXTENDS Plaza

CONSTANTS d1, d2

MCTries == {[d \in Device |-> IF d = d1 THEN Attempts ELSE 0], [d \in Device |-> 1]}
=============================================================================
