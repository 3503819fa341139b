------------------------------ MODULE LocalTools ------------------------------
(***************************************************************************)
(* Calls of the local tools that make and remove whole trees and refs, for *)
(* an agent with any grant, beside an operator who does the same by hand.  *)
(***************************************************************************)
EXTENDS Clone, Worktree, LocalRefs

Init == CheckoutInit

Run(c) == CloneStep(c) \/ WorktreeStep(c) \/ RefsStep(c) \/ Finish(c)

\* Every call has ended.
Over == (\A c \in Calls : phase[c] \in Ended) /\ UNCHANGED vars

Next == (\E c \in Calls : Run(c) \/ Disappear(c)) \/ Person \/ Over

Spec == Init /\ [][Next]_vars

(***************************************************************************)
(* Properties                                                              *)
(***************************************************************************)

TypeOK ==
  /\ phase \in [Calls -> Ended \union
       {"idle", "check", "mkdir", "clone", "inspect", "cleanup", "look", "add", "tree", "open", "remove",
        "prune", "branch", "listed", "created", "head", "name", "switch", "tag", "push", "finish",
        "fail"}]
  /\ exc \in [Calls -> DOMAIN ByType \union
       {"none", "ValueError", "OSError", "PermissionError", "GitCommandError", "TypeError"}]
  /\ answer \in [Calls -> {"none", "ok", "error", "raised"}]
  /\ spot \in Spot
  /\ registered \subseteq Repos
  /\ refs \in Refs
  /\ ask \in [Calls -> Ask]

\* A clone that is about to be reported is the call's own, of the repository it
\* asked for, and within its scope: no other call for the same destination got
\* into it, whatever happened between the check, the mkdir and the clone.
OkMeansOwnTree ==
  \A c \in Calls : At(c, "git_clone", "finish") =>
    /\ spot.kind = "tree" /\ spot.by = c /\ spot.repo = ask[c].repo
    /\ ~grant.globs
    /\ ~(grant.deny /\ (ask[c].extra \/ spot.denied))

\* An error answer leaves nothing in the way of a retry, and nothing on disk
\* that the agent may not have: not the clone, the worktree, the branch or the
\* tag that the call made.  Except when the removal itself failed, when the
\* record of the success could not be written or came first, or when a tag was
\* made and its push failed; and except that a worktree add undoes nothing: its
\* branch stays when git refuses the tree, branch and tree stay when the tree
\* cannot be opened, and then a retry is refused.
Leftover(c) ==
  \/ spot.by = c \/ refs.tag = c
  \/ \E n \in Names : refs.branch[n] = c
  \/ \E b \in Repos \X Topics : refs.topic[b] = c
Unopened(c, e) == ask[c].tool = "worktree_add" /\ e = "RepoNotFound"
Excused(c) ==
  \/ "rmtree" \in faults
  \/ \E i \in DOMAIN trail[c] :
       trail[c][i].result[1] = "ok" \/ trail[c][i].exc = "OSError" \/ Unopened(c, trail[c][i].exc)
  \/ ask[c].tool = "git_tag" /\ ask[c].extra
  \/ ask[c].tool = "worktree_add" /\ spot.by # c
ErrorLeavesNothing ==
  \A c \in Calls : answer[c] = "error" /\ ~Excused(c) => ~Leftover(c)

\* A call removes a tree only if it made it itself or, for worktree remove, if
\* it is a worktree of its repository and holds no work that is not committed;
\* and it replaces none.
OnlyOwnRemoved ==
  [][\A c \in Calls :
       phase'[c] # phase[c] /\ spot.by # Nobody /\ spot'.by # spot.by =>
         \/ spot.by = c /\ ask[c].tool = "git_clone"
         \/ /\ ask[c].tool = "worktree_remove"
            /\ spot.kind = "worktree" /\ spot.repo = ask[c].repo /\ ~spot.dirty]_vars

\* What an agent may write is what the first source that speaks says.  A policy
\* that can be read speaks even when it does not name the agent: the manifest
\* then adds nothing.
Entitled(a) ==
  \/ a \in sources.env
  \/ /\ sources.env = {} /\ sources.policy.state = "loaded"
     /\ \/ \E e \in sources.policy.agents : a \in e.write
        \/ sources.policy.agents = {} /\ \E e \in sources.policy.explicit : a \in e.write
  \/ /\ sources.env = {} /\ sources.policy.state # "loaded"
     /\ sources.manifest[a] = "readwrite"
GrantRespected ==
  [][\A c \in Calls : phase'[c] # phase[c] =>
       /\ <<spot', registered'>> # <<spot, registered>> => Entitled(area)
       /\ refs' # refs => Entitled("personal")]_vars
===============================================================================
