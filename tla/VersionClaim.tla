---------------------------- MODULE VersionClaim ----------------------------
(***************************************************************************)
(* What releasing one version promises, without plans, failures or the     *)
(* bookkeeping of a rollback: the tag on the remote is a claim.  One call  *)
(* at a time holds it, and only its holder publishes and withdraws; a call *)
(* that has uploaded to a registry or has succeeded never gives it up      *)
(* (docstring of release: "PyPI and npm are immutable").  Release          *)
(* implements this.                                                        *)
(***************************************************************************)

CONSTANTS
  Calls,        \* calls of release for the version
  Retractable,  \* targets whose releases can be deleted
  Final         \* targets whose uploads cannot

VARIABLES
  holder,   \* the call that holds the claim: {} or one call
  out,      \* who has published at each target: {} or one call
  winners   \* calls that have succeeded

claimVars == <<holder, out, winners>>

ClaimInit ==
  /\ holder = {}
  /\ out = [t \in Retractable \union Final |-> {}]
  /\ winners = {}

Claim(c) ==
  /\ holder = {}
  /\ holder' = {c}
  /\ UNCHANGED <<out, winners>>

Publish(c) ==
  /\ holder = {c}
  /\ \E t \in Retractable \union Final :
       out[t] = {} /\ out' = [out EXCEPT ![t] = {c}]
  /\ UNCHANGED <<holder, winners>>

\* Under the claim still, so that nobody publishes meanwhile.
Withdraw(c) ==
  /\ holder = {c}
  /\ c \notin winners
  /\ \E t \in Retractable :
       out[t] = {c} /\ out' = [out EXCEPT ![t] = {}]
  /\ UNCHANGED <<holder, winners>>

GiveUp(c) ==
  /\ holder = {c}
  /\ c \notin winners
  /\ \A t \in Final : out[t] # {c}
  /\ holder' = {}
  /\ UNCHANGED <<out, winners>>

Win(c) ==
  /\ holder = {c}
  /\ winners' = winners \union {c}
  /\ UNCHANGED <<holder, out>>

ClaimNext == \E c \in Calls : Claim(c) \/ Publish(c) \/ Withdraw(c) \/ GiveUp(c) \/ Win(c)

ClaimSpec == ClaimInit /\ [][ClaimNext]_claimVars
=============================================================================
