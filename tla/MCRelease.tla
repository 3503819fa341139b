------------------------------ MODULE MCRelease ------------------------------
(***************************************************************************)
(* Instances of Release for TLC.  Three calls in two clones: two of them   *)
(* share a working copy and meet at the local tag, the third meets them at *)
(* the remote and shares the process of the second.                        *)
(***************************************************************************)
EXTENDS Release, TLC

CONSTANTS c1, c2, c3, here, there, s1, s2

MCCloneOf == (c1 :> here) @@ (c2 :> here) @@ (c3 :> there)
MCServerOf == (c1 :> s1) @@ (c2 :> s2) @@ (c3 :> s2)
MCTwoCallsCloneOf == (c1 :> here) @@ (c2 :> there)
MCTwoCallsServerOf == (c1 :> s1) @@ (c2 :> s2)

Request(targetSet, repoSet) == [targets |-> targetSet, repos |-> repoSet]

\* GitHub is named without its repository.
MCRequests == {Request({"github", "gitea", "gitlab", "npm"}, {"gitea", "gitlab"})}

MCClaimRequests ==
  {Request({"github", "gitea", "gitlab", "pypi", "npm"}, {"github", "gitea", "gitlab"}),
   Request({"github", "npm"}, {"github", "gitea"}),
   Request({"gitea", "gitlab"}, {"gitea"})}
=============================================================================
