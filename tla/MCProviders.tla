----------------------------- MODULE MCProviders -----------------------------
(***************************************************************************)
(* Instances of Providers for TLC: two calls, and room for one release to  *)
(* be deleted and made again.                                              *)
(***************************************************************************)
EXTENDS Providers

CONSTANTS c1, c2
=============================================================================
