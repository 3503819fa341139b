-------------------------------- MODULE Clone --------------------------------
(***************************************************************************)
(* git_clone: guards, destination, mkdir, git clone, the check of what was *)
(* written, and the removal of the directory when any of it fails.         *)
(***************************************************************************)
EXTENDS Checkout

\* Provider, owner and name are checked before the call has an AuditCtx.
StartClone(c) ==
  /\ subject = "clone"
  /\ \/ Start(c, "git_clone", "check", Repos, {"main"}, BOOLEAN)
     \/ \E class \in {"invalid_argument", "missing_argument", "not_owned"} : Refused(c, class)

\* ensure_whole_tree_writer and ensure_no_branch_for_denied_paths.
OutOfScope(c) == grant.globs \/ (grant.deny /\ ask[c].extra)

\* The checks of the body, in any order but the last: an occupied destination
\* is refused whatever is there.  A gitea owner that is no organization is not
\* owned; asking may fail.
CheckDestination(c) ==
  /\ At(c, "git_clone", "check")
  /\ \/ BadArgument(c)
     \/ ~MayWrite(area) /\ Complain(c, "PathNotAllowed")
     \/ OutOfScope(c) /\ Complain(c, "WriteGlobDenied")
     \/ area = "gitea" /\ \E e \in {"NotOwned", "ValueError"} : Complain(c, e)
     \/ /\ MayWrite(area) /\ ~OutOfScope(c)
        /\ IF Occupied THEN Complain(c, "AlreadyExists") ELSE Pass(c, "mkdir")

\* Mutant: an existing directory is good enough.
MakesDirIfNeeded(c) ==
  /\ At(c, "git_clone", "mkdir")
  /\ spot' = IF Occupied THEN spot ELSE Dir(ask[c].repo, c)
  /\ Go(c, "clone")
  /\ UNCHANGED <<registered, refs>>

\* Mutant: a destination that has been taken meanwhile is cleaned up, too.
CleansAnyDir(c) ==
  /\ At(c, "git_clone", "mkdir")
  /\ \/ Occupied /\ exc' = [exc EXCEPT ![c] = "AlreadyExists"] /\ Goto(c, "cleanup")
        /\ UNCHANGED <<faults, pending, answer, trail, localVars>>
     \/ /\ ~Occupied
        /\ spot' = Dir(ask[c].repo, c)
        /\ Go(c, "clone")
        /\ UNCHANGED <<registered, refs>>

\* os.mkdir takes the destination, or finds that somebody did since the check.
MakeDir(c) ==
  /\ At(c, "git_clone", "mkdir")
  /\ \/ Complain(c, IF Occupied THEN "AlreadyExists" ELSE "PermissionError")
     \/ /\ ~Occupied
        /\ spot' = Dir(ask[c].repo, c)
        /\ Go(c, "clone")
        /\ UNCHANGED <<registered, refs>>

\* A failure from here on: the directory goes first.
Abandon(c, e) ==
  /\ Goto(c, "cleanup")
  /\ exc' = [exc EXCEPT ![c] = e]
  /\ UNCHANGED <<faults, pending, answer, trail, localVars>>

\* git clone ends, or fails, or is killed after CLONE_TIMEOUT_S.  Only the
\* remote knows what its tree holds.
RunClone(c) ==
  /\ At(c, "git_clone", "clone")
  /\ \/ /\ \E d \in BOOLEAN : spot' = [spot EXCEPT !.kind = "tree", !.denied = d]
        /\ Go(c, "inspect")
        /\ UNCHANGED <<registered, refs>>
     \/ Abandon(c, "GitCommandError")

\* Mutant: a denied path is refused like any argument, and the tree stays.
RefusesOnly(c) ==
  /\ At(c, "git_clone", "inspect")
  /\ IF grant.deny /\ spot.denied THEN Complain(c, "WriteGlobDenied") ELSE Pass(c, "finish")

\* Every path of the tree against the deny globs, then HEAD.
Inspect(c) ==
  /\ At(c, "git_clone", "inspect")
  /\ IF grant.deny /\ spot.denied
       THEN Abandon(c, "WriteGlobDenied")
       ELSE Pass(c, "finish") \/ Abandon(c, "RepoNotFound")

\* Mutant: what is in the directory goes, the directory stays.
EmptiesDir(c) ==
  /\ At(c, "git_clone", "cleanup")
  /\ Goto(c, "fail")
  /\ spot' = [spot EXCEPT !.kind = "emptied"]
  /\ UNCHANGED <<faults, pending, exc, answer, trail, subject, area, sources, registered, refs, ask>>

\* rmtree(dest, ignore_errors=True), and the exception goes on.
Cleanup(c) ==
  /\ At(c, "git_clone", "cleanup")
  /\ Goto(c, "fail")
  /\ spot' = Empty \/ ("rmtree" \in faults /\ UNCHANGED spot)
  /\ UNCHANGED <<faults, pending, exc, answer, trail, subject, area, sources, registered, refs, ask>>

CloneStep(c) ==
  \/ StartClone(c)
  \/ CheckDestination(c)
  \/ MakeDir(c)
  \/ RunClone(c)
  \/ Inspect(c)
  \/ Cleanup(c)
===============================================================================
