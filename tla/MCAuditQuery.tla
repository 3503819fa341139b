---------------------------- MODULE MCAuditQuery ----------------------------
(***************************************************************************)
(* Instances of AuditQuery for TLC: one query at any moment of the writers' *)
(* work, with a limit that ends it early and one that never does.          *)
(***************************************************************************)
EXTENDS AuditQuery, TLC

WriterSymmetry == Permutations(Writers)
=============================================================================
