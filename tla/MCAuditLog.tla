----------------------------- MODULE MCAuditLog -----------------------------
(***************************************************************************)
(* Instances of AuditLog for TLC.  The sizes are chosen against MaxBytes   *)
(* so that two small records share a file, a small and a large one do not, *)
(* and one record alone is over the limit.                                 *)
(***************************************************************************)
EXTENDS AuditLog, TLC

WriterSymmetry == Permutations(Writers)
=============================================================================
