---------------------------- MODULE MCRowWindow ----------------------------
(* The instance of RowWindow for TLC. Ids are numbers, of which the order  *)
(* counts, and have no symmetry.                                           *)
EXTENDS RowWindow, TLC

Symmetry == UNION {Permutations(S) : S \in {Runs, Reviewers, Annotators, Pagers}}

(* What a client pages through depends on the samples alone, and what      *)
(* annotators do to each other on samples and annotations. A state has     *)
(* clients that page, or two annotators at once over two runs, or feedback *)
(* sets and one annotator at a time over all runs.                         *)
Paged  == annotation = {} /\ feedbackSet = {} /\ \A t \in Annotators : edit[t] = None
Unread == \A p \in Pagers : pager[p] = None
Apart  ==
  \/ Paged
  \/ Unread /\ feedbackSet = {} /\ Cardinality(sample) <= 2
  \/ /\ Unread
     /\ overlapped = {}
     /\ Cardinality({t \in Annotators : edit[t] # None}) <= 1
=============================================================================
