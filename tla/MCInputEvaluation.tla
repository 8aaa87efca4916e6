------------------------- MODULE MCInputEvaluation -------------------------
(* An instance of InputEvaluation for TLC.                                 *)
EXTENDS InputEvaluation, TLC

CONSTANTS c1, c2, c3, o1, o2, k1, i1, i2, b1, b2, b3

(* Evaluations use the inputs' own keys and one header key; the plain call *)
(* sends no key.                                                           *)
EvaluationKeys == [c \in Calls |-> IF c \in Evaluators THEN {o1, o2, k1} ELSE {NoKey}]

Own == i1 :> o1 @@ i2 :> o2

(* b1 evaluates either input (their snapshots have the same bytes), b2 and *)
(* b3 are commands for one of them.                                        *)
SnapshotBodies == i1 :> {b1, b2} @@ i2 :> {b1, b3}

Symmetry == Permutations(Evaluators) \cup Permutations(Runs)
=============================================================================
