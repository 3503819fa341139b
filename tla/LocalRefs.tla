------------------------------ MODULE LocalRefs ------------------------------
(***************************************************************************)
(* git_branch, git_checkout and git_tag on one checkout.                   *)
(***************************************************************************)
EXTENDS Checkout

StartRefs(c) ==
  /\ subject = "refs"
  /\ \/ Start(c, "branch_list", "branch", {AnyRepo}, {"main"}, {FALSE})
     \/ \E t \in {"branch_create", "branch_delete"} :
          Start(c, t, "branch", {AnyRepo}, Names, {FALSE})
     \/ Start(c, "git_checkout", "switch", {AnyRepo}, {"main"}, {FALSE})
     \/ Start(c, "git_tag", "tag", {AnyRepo}, {"main"}, BOOLEAN)

\* Path and arguments: list needs read access only, and an unknown action is
\* found last.
Invalid(c) ==
  /\ phase[c] \in {"branch", "switch", "tag"}
  /\ BadArgument(c) \/ Complain(c, "GitCommandError")

Outside(c) ==
  /\ phase[c] \in {"branch", "switch", "tag"}
  /\ IF ask[c].tool = "branch_list" THEN ~MayRead("personal") ELSE ~MayWrite("personal")
  /\ Complain(c, "PathNotAllowed")

ListBranches(c) ==
  /\ At(c, "branch_list", "branch")
  /\ MayRead("personal")
  /\ Pass(c, "listed")

\* create_head: the checkout stays where it is.
CreateBranch(c) ==
  /\ At(c, "branch_create", "branch")
  /\ MayWrite("personal")
  /\ refs.branch[ask[c].name] = Nobody
  /\ refs' = [refs EXCEPT !.branch[ask[c].name] = c]
  /\ Go(c, "created")
  /\ UNCHANGED <<spot, registered>>

\* git refuses to delete the branch that is checked out.
DeleteBranch(c) ==
  /\ At(c, "branch_delete", "branch")
  /\ MayWrite("personal")
  /\ refs.branch[ask[c].name] # Nobody
  /\ refs.head # ask[c].name
  /\ refs' = [refs EXCEPT !.branch[ask[c].name] = Nobody]
  /\ Go(c, "finish")
  /\ UNCHANGED <<spot, registered>>

\* list and create record their success and then read HEAD for the answer:
\* create looks first whether it is detached.
RecordBranch(c) ==
  \/ At(c, "branch_list", "listed") /\ RecordFirst(c, "name")
  \/ At(c, "branch_create", "created") /\ RecordFirst(c, "head")

LookDetached(c) ==
  /\ At(c, "branch_create", "head")
  /\ IF refs.head = "detached" THEN Return(c) ELSE Pass(c, "name")

\* Mutant: a detached HEAD ends the call without a second record.
NameSwallowed(c) ==
  /\ phase[c] = "name"
  /\ IF refs.head = "detached"
       THEN Goto(c, "done") /\ Tell(c, "error") /\ UNCHANGED <<faults, pending, exc, trail, localVars>>
       ELSE Return(c)

\* active_branch raises on a detached HEAD.
NameBranch(c) ==
  /\ phase[c] = "name"
  /\ IF refs.head = "detached" THEN Complain(c, "TypeError") ELSE Return(c)

\* git_checkout: a branch, or any other ref, which detaches.
Switch(c) ==
  /\ At(c, "git_checkout", "switch")
  /\ MayWrite("personal")
  /\ \E h \in {n \in Names : refs.branch[n] # Nobody} \union {"detached"} :
       refs' = [refs EXCEPT !.head = h]
  /\ Go(c, "finish")
  /\ UNCHANGED <<spot, registered>>

CreateTag(c) ==
  /\ At(c, "git_tag", "tag")
  /\ MayWrite("personal")
  /\ refs.tag = Nobody
  /\ refs' = [refs EXCEPT !.tag = c]
  /\ Go(c, IF ask[c].extra THEN "push" ELSE "finish")
  /\ UNCHANGED <<spot, registered>>

\* The push gets through, with its answer or without; or it raises.
PushTag(c) ==
  /\ At(c, "git_tag", "push")
  /\ \/ Complain(c, "ValueError")
     \/ /\ refs.remoteTag = Nobody
        /\ refs' = [refs EXCEPT !.remoteTag = c]
        /\ UNCHANGED <<spot, registered>>
        /\ \/ Go(c, "finish")
           \/ /\ "lost" \in faults
              /\ Raise(c, "ValueError")
              /\ UNCHANGED <<faults, pending, answer, trail, subject, area, sources, ask>>

\* A push that is refused by a flag is answered in the body: the local tag
\* stays, and the answer says so.
TagRefused(c) ==
  /\ At(c, "git_tag", "push")
  /\ AnswerInBody(c, "PushRejected")
  /\ UNCHANGED localVars

RefsStep(c) ==
  \/ StartRefs(c)
  \/ Invalid(c)
  \/ Outside(c)
  \/ ListBranches(c)
  \/ CreateBranch(c)
  \/ DeleteBranch(c)
  \/ RecordBranch(c)
  \/ LookDetached(c)
  \/ NameBranch(c)
  \/ Switch(c)
  \/ CreateTag(c)
  \/ PushTag(c)
  \/ TagRefused(c)
===============================================================================
