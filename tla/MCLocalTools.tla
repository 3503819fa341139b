----------------------------- MODULE MCLocalTools -----------------------------
(***************************************************************************)
(* Instances of LocalTools for TLC: two calls, two repositories whose      *)
(* destination is the same path, and a grant from every source.            *)
(***************************************************************************)
EXTENDS LocalTools, TLC

CONSTANTS c1, c2, here, there

CallSymmetry == Permutations(Calls)

NoPolicy ==
  [state |-> "absent", roots |-> Areas, all |-> TRUE, agents |-> {}, explicit |-> {}]
Unlisted == [NoPolicy EXCEPT !.state = "loaded"]
Listed(globs, deny) ==
  [Unlisted EXCEPT !.agents =
    {[read |-> {}, write |-> Areas, globs |-> globs, deny |-> deny]}]
Itemized ==
  [Unlisted EXCEPT !.explicit = {Unscoped({"personal"}, {"personal"})}]

Manifest(access) == [a \in Areas |-> access]

From(env, policy, access) == [env |-> env, policy |-> policy, manifest |-> Manifest(access)]

MCSources ==
  {From({"personal", "worktrees"}, Unlisted, "none"),
   From({}, Listed(FALSE, TRUE), "none"),
   From({}, Listed(TRUE, FALSE), "readwrite"),
   From({}, Itemized, "readwrite"),
   From({}, Unlisted, "readwrite"),
   From({}, [Unlisted EXCEPT !.state = "unreadable"], "readwrite"),
   From({}, NoPolicy, "readonly")}
===============================================================================
