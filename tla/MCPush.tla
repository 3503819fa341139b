-------------------------------- MODULE MCPush --------------------------------
(***************************************************************************)
(* Instances of Push for TLC: two calls, each in a clone of its own.       *)
(***************************************************************************)
EXTENDS Push, TLC

CONSTANTS here, there, first, second

\* One clone knows another default, from before; the other knows none.
MCHeadRef == (here :> "other") @@ (there :> "none")
MCCloneOf == (first :> here) @@ (second :> there)
===============================================================================
