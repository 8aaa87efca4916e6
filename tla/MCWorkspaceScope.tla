-------------------------- MODULE MCWorkspaceScope --------------------------
(* The instance of WorkspaceScope for TLC.                                 *)
EXTENDS WorkspaceScope, TLC

Symmetry == Permutations(Calls) \cup Permutations(Ids) \cup Permutations(Workspaces)
=============================================================================
