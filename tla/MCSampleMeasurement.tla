------------------------ MODULE MCSampleMeasurement ------------------------
(* An instance of SampleMeasurement for TLC.                               *)
EXTENDS SampleMeasurement, TLC

Symmetry == Permutations(Ids)
=============================================================================
