----------------------- MODULE MCTransactionalCreate -----------------------
(* The instance of TransactionalCreate for TLC.                            *)
EXTENDS TransactionalCreate, TLC

Symmetry == Permutations(Calls) \cup Permutations(Ids) \cup Permutations(Keys)
            \cup Permutations(Bodies)
=============================================================================
