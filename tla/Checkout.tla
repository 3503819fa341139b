------------------------------- MODULE Checkout -------------------------------
(***************************************************************************)
(* What the local tools of tools/git_local.py meet at: one destination in  *)
(* the file system, computed by the convention and so the same for several *)
(* repositories, and the refs of one checkout.  Git and the operator act   *)
(* on both.                                                                *)
(***************************************************************************)
EXTENDS ToolCall, Grants

CONSTANTS
  Repos,      \* repositories whose destination is the same path
  SourceSet   \* what the grant is resolved from, one in each behaviour

\* What the calls of a behaviour are about.
Subjects == {"clone", "worktree", "refs"}
Names == {"main", "topic"}
\* Branches that a worktree is asked with: none of them is there at first.
Topics == {"fix", "feature"}

VARIABLES
  subject,     \* "clone", "worktree" or "refs"
  area,        \* where the destination is
  sources,     \* what the grant was resolved from when the server started
  spot,        \* what is at the destination
  registered,  \* repositories that have a worktree registered at it
  refs,        \* branches, HEAD and one tag of a checkout
  ask          \* the arguments of each call

localVars == <<subject, area, sources, spot, registered, refs, ask>>
vars == <<callVars, localVars>>

Nobody == "nobody"
Actors == Calls \union {"person", Nobody}

ASSUME CheckoutAssumption ==
  /\ Repos # {}
  /\ SourceSet \subseteq Sources
  /\ Calls \intersect {"person", Nobody} = {}

\* by: who made it.  denied: its tree holds a path the deny globs match.
\* dirty: there is work in it that is not committed.
Spot ==
  [kind: {"none", "dir", "tree", "worktree"}, repo: Repos \union {Nobody}, by: Actors,
   denied: BOOLEAN, dirty: BOOLEAN]

Empty == [kind |-> "none", repo |-> Nobody, by |-> Nobody, denied |-> FALSE, dirty |-> FALSE]
Dir(repo, who) == [Empty EXCEPT !.kind = "dir", !.repo = repo, !.by = who]

\* branch: who made it.  head: a branch, or detached.  topic: who made the branch
\* of a worktree, in each repository.
Refs ==
  [branch: [Names -> Actors], head: Names \union {"detached"}, tag: Actors, remoteTag: Actors,
   topic: [Repos \X Topics -> Actors]]

\* extra: branch= of git_clone, push= of git_tag.
AnyRepo == CHOOSE r \in Repos : TRUE
Ask ==
  [tool: {"none", "git_clone", "worktree_list", "worktree_add", "worktree_remove", "branch_list",
          "branch_create", "branch_delete", "git_checkout", "git_tag"},
   repo: Repos, name: Names \union Topics, extra: BOOLEAN]

Occupied == spot.kind # "none"
grant == Resolved(sources)

CheckoutInit ==
  /\ CallInit
  /\ subject \in Subjects
  /\ area \in CASE subject = "clone" -> {"personal", "gitea"}
                [] subject = "worktree" -> {"worktrees"}
                [] OTHER -> {"personal"}
  /\ sources \in SourceSet
  /\ spot = Empty
  /\ registered = {}
  /\ refs = [branch |-> [n \in Names |-> IF n = "main" THEN "person" ELSE Nobody],
             head |-> "main", tag |-> Nobody, remoteTag |-> Nobody,
             topic |-> [b \in Repos \X Topics |-> Nobody]]
  /\ ask \in [Calls -> [tool: {"none"}, repo: {AnyRepo}, name: {"main"}, extra: {FALSE}]]

(***************************************************************************)
(* Steps of a body                                                         *)
(***************************************************************************)

At(c, tool, p) == phase[c] = p /\ ask[c].tool = tool

\* A call gets past its guards with arguments of its tool.
Start(c, tool, first, repos, names, extras) ==
  /\ Enter(c, first)
  /\ \E r \in repos, n \in names, extra \in extras :
       ask' = [ask EXCEPT ![c] = [tool |-> tool, repo |-> r, name |-> n, extra |-> extra]]
  /\ UNCHANGED <<subject, area, sources, spot, registered, refs>>

Refused(c, class) == audit_rejection(c, class) /\ UNCHANGED localVars

Complain(c, e) ==
  /\ Raise(c, e)
  /\ UNCHANGED <<faults, pending, answer, trail, localVars>>

\* Which of the errors about arguments it is, or about a path that is no
\* repository, makes no difference; InvalidArgument stands for them all.
BadArgument(c) == Complain(c, "InvalidArgument")

\* The body goes on; what it did to the file system or the refs is said beside.
Go(c, p) ==
  /\ Goto(c, p)
  /\ UNCHANGED <<faults, pending, exc, answer, trail, subject, area, sources, ask>>

Pass(c, p) == Go(c, p) /\ UNCHANGED <<spot, registered, refs>>

\* finish("ok") before the answer is complete.
RecordFirst(c, then) ==
  \/ /\ Written(c, <<"ok", "">>, "none")
     /\ Goto(c, then)
     /\ UNCHANGED <<faults, pending, exc, answer, localVars>>
  \/ "dirs" \in faults /\ Complain(c, "OSError")

Return(c) ==
  /\ Goto(c, "done")
  /\ Tell(c, "ok")
  /\ UNCHANGED <<faults, pending, exc, trail, localVars>>

\* validate_read_path and validate_write_path raise PathNotAllowed, also when
\* there are no roots at all.
MayRead(a) == a \in grant.read
MayWrite(a) == a \in grant.write

Finish(c) == (FinishOk(c) \/ FinishError(c)) /\ UNCHANGED localVars
Disappear(c) == Vanish(c) /\ UNCHANGED localVars

(***************************************************************************)
(* The operator, with other tools                                          *)
(***************************************************************************)

\* Nobody but its call touches a directory that is being cloned: the comment
\* at the mkdir leaves that case for later.
BeingCloned == \E c \in Calls : phase[c] \notin Ended /\ spot.by = c /\ ask[c].tool = "git_clone"

Person ==
  /\ "web" \in faults
  /\ \/ /\ subject # "refs" /\ ~Occupied
        /\ spot' = Dir(Nobody, "person")
        /\ UNCHANGED refs
     \/ /\ Occupied /\ ~BeingCloned
        /\ spot' \in {Empty, [spot EXCEPT !.dirty = TRUE]}
        /\ UNCHANGED refs
     \/ /\ subject = "refs"
        /\ \E h \in {n \in Names : refs.branch[n] # Nobody} \union {"detached"} :
             refs' = [refs EXCEPT !.head = h]
        /\ UNCHANGED spot
  /\ UNCHANGED <<callVars, subject, area, sources, registered, ask>>
===============================================================================
