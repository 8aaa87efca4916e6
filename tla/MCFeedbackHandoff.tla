------------------------- MODULE MCFeedbackHandoff -------------------------
(* Instances of FeedbackHandoff for TLC.                                   *)
EXTENDS FeedbackHandoff, TLC

(* Every non-empty selection.                                              *)
AnySelection == (SUBSET Samples) \ {{}}

Symmetry == Permutations(Annotators) \cup Permutations(Exporters) \cup Permutations(Senders)
            \cup Permutations(AnnIds) \cup Permutations(Notes) \cup Permutations(Datasets)
=============================================================================
