------------------------------- MODULE MCCommit -------------------------------
(***************************************************************************)
(* Instances of Commit for TLC: one agent may write everything, the other  *)
(* the documents only; one remote of every kind.                           *)
(***************************************************************************)
EXTENDS Commit, TLC

CONSTANTS developer, writer, code, docs

MCScope == (developer :> {code, docs}) @@ (writer :> {docs})
MCRemotes == Kinds
MCKind == [r \in MCRemotes |-> r]
===============================================================================
