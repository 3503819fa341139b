----------------------------- MODULE AuditTrail -----------------------------
(***************************************************************************)
(* What githost-mcp promises of its audit trail, without files, rotation   *)
(* or locks: records are numbered in the order they were acknowledged, the *)
(* trail keeps an unbroken run of the latest ones, and only the oldest end *)
(* is ever forgotten (README "Both files rotate by rename; entries are     *)
(* never truncated or rewritten").  AuditLog implements this.              *)
(***************************************************************************)
EXTENDS Naturals

VARIABLES
  count,     \* number of records acknowledged so far
  retained   \* the numbers of the records that can still be read

trailVars == <<count, retained>>

TrailInit ==
  /\ count = 0
  /\ retained = {}

\* A record is acknowledged: it gets the next number and can be read.
Record ==
  /\ count' = count + 1
  /\ retained' = retained \union {count + 1}

\* Retention is bounded: any number of the oldest records may be forgotten,
\* never a record with an older one kept, and never all of them.
Forget ==
  /\ \E kept \in SUBSET retained :
       /\ kept # {}
       /\ \A n \in kept, m \in retained \ kept : m < n
       /\ retained' = kept
  /\ UNCHANGED count

TrailNext == Record \/ Forget

TrailSpec == TrailInit /\ [][TrailNext]_trailVars
=============================================================================
