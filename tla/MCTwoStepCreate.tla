-------------------------- MODULE MCTwoStepCreate --------------------------
(* The instance of TwoStepCreate for TLC.                                  *)
EXTENDS TwoStepCreate, TLC

Symmetry == Permutations(Calls) \cup Permutations(Ids) \cup Permutations(Keys)
            \cup Permutations(Bodies)
=============================================================================
