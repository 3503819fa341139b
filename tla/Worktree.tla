------------------------------- MODULE Worktree -------------------------------
(***************************************************************************)
(* git_worktree: add, list and remove.  The destination is made of the     *)
(* base name of the main checkout and a name, so the same name in two      *)
(* repositories of one base name is one destination.                       *)
(***************************************************************************)
EXTENDS Checkout

StartWorktree(c) ==
  /\ subject = "worktree"
  /\ \/ Start(c, "worktree_list", "look", {AnyRepo}, {"main"}, {FALSE})
     \/ Start(c, "worktree_add", "check", Repos, Topics, {FALSE})
     \/ Start(c, "worktree_remove", "look", Repos, {"main"}, {FALSE})
     \/ Refused(c, "invalid_argument")

\* The repository and the destination are both write targets.
WriteBoth(c) == MayWrite("personal") /\ MayWrite(area)

ListWorktrees(c) ==
  /\ At(c, "worktree_list", "look")
  /\ \/ ~MayRead("personal") /\ Complain(c, "PathNotAllowed")
     \/ MayRead("personal") /\ (Pass(c, "finish") \/ BadArgument(c))

\* Arguments, the destination, then the base: without one the remote is asked
\* for its default branch and that is fetched.
CheckAdd(c) ==
  /\ At(c, "worktree_add", "check")
  /\ \/ ~WriteBoth(c) /\ Complain(c, "PathNotAllowed")
     \/ /\ WriteBoth(c)
        /\ \/ BadArgument(c)
           \/ ~Occupied /\ (Pass(c, "add") \/ Complain(c, "GitCommandError"))

\* git worktree add -b makes the branch first, unless there is one of that name.
AddBranch(c) ==
  /\ At(c, "worktree_add", "add")
  /\ \/ Complain(c, "GitCommandError")
     \/ LET branch == <<ask[c].repo, ask[c].name>>
        IN  /\ refs.topic[branch] = Nobody
            /\ refs' = [refs EXCEPT !.topic[branch] = c]
            /\ Go(c, "tree")
            /\ UNCHANGED <<spot, registered>>

\* Then it refuses a path that is taken, or still registered here; the branch
\* stays.
AddWorktree(c) ==
  /\ At(c, "worktree_add", "tree")
  /\ \/ Complain(c, "GitCommandError")
     \/ /\ ~Occupied /\ ask[c].repo \notin registered
        /\ spot' = [Dir(ask[c].repo, c) EXCEPT !.kind = "worktree"]
        /\ registered' = registered \union {ask[c].repo}
        /\ Go(c, "open")
        /\ UNCHANGED refs

\* The new worktree is opened for its sha: another call may have removed it, or
\* reading it fails.  What git made stays.
OpenWorktree(c) ==
  /\ At(c, "worktree_add", "open")
  /\ \/ spot.kind = "worktree" /\ Pass(c, "finish")
     \/ Complain(c, "RepoNotFound")

\* Only a worktree that this repository has registered at the destination.
LookRegistered(c) ==
  /\ At(c, "worktree_remove", "look")
  /\ \/ ~WriteBoth(c) /\ Complain(c, "PathNotAllowed")
     \/ /\ WriteBoth(c)
        /\ \/ BadArgument(c)
           \/ ask[c].repo \in registered /\ Pass(c, "remove")

\* Mutant: the worktree is removed with force.
RemoveForced(c) ==
  /\ At(c, "worktree_remove", "remove")
  /\ \/ Complain(c, "GitCommandError")
     \/ /\ ask[c].repo \in registered
        /\ spot.kind \in {"none", "worktree"}
        /\ spot' = Empty
        /\ registered' = registered \ {ask[c].repo}
        /\ Go(c, "prune")
        /\ UNCHANGED refs

\* git worktree remove, without force: a worktree that holds work, or a path
\* that is no worktree any more, is refused; one that is gone is unregistered.
RemoveWorktree(c) ==
  /\ At(c, "worktree_remove", "remove")
  /\ \/ Complain(c, "GitCommandError")
     \/ /\ ask[c].repo \in registered
        /\ spot.kind = "none" \/ (spot.kind = "worktree" /\ spot.repo = ask[c].repo /\ ~spot.dirty)
        /\ spot' = Empty
        /\ registered' = registered \ {ask[c].repo}
        /\ Go(c, "prune")
        /\ UNCHANGED refs

\* git worktree prune drops what is registered and not there.
Prune(c) ==
  /\ At(c, "worktree_remove", "prune")
  /\ \/ Complain(c, "GitCommandError")
     \/ /\ registered' = IF spot.kind = "worktree" THEN registered ELSE registered \ {ask[c].repo}
        /\ Go(c, "finish")
        /\ UNCHANGED <<spot, refs>>

WorktreeStep(c) ==
  \/ StartWorktree(c)
  \/ ListWorktrees(c)
  \/ CheckAdd(c)
  \/ AddBranch(c)
  \/ AddWorktree(c)
  \/ OpenWorktree(c)
  \/ LookRegistered(c)
  \/ RemoveWorktree(c)
  \/ Prune(c)
===============================================================================
