------------------------- MODULE MCArtifactStaging -------------------------
(* The instance of ArtifactStaging for TLC.                                *)
EXTENDS ArtifactStaging, TLC

Symmetry == Permutations(Calls) \cup Permutations(Data)
=============================================================================
