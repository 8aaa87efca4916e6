------------------------- MODULE MCSchemaMigration -------------------------
(* The instance of SchemaMigration for TLC. Liveness is checked: there is  *)
(* no symmetry.                                                            *)
EXTENDS SchemaMigration
=============================================================================
