-------------------------- MODULE MCEvaluationRuns --------------------------
(* The instance of EvaluationRuns for TLC. Liveness is checked: there is   *)
(* no symmetry.                                                            *)
EXTENDS EvaluationRuns

(* Every client may use every key, or none.                                *)
AnyKey == [c \in Calls |-> Keys \cup {NoKey}]
=============================================================================
