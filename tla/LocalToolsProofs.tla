--------------------------- MODULE LocalToolsProofs ---------------------------
(***************************************************************************)
(* Theorems about the calls that make and remove trees and refs, for any   *)
(* number of calls and repositories, every grant and every set of faults.  *)
(***************************************************************************)
EXTENDS LocalTools, ToolCallProofs

(***************************************************************************)
(* The inductive invariant                                                 *)
(***************************************************************************)

\* Phases in which a call has made nothing yet.
Before ==
  {"idle", "check", "mkdir", "look", "add", "remove", "prune", "branch", "listed", "switch", "tag"}

\* Only the tools that make a thing own one, and only once they have made it.
Ownership(c) ==
  /\ spot.by = c =>
       /\ phase[c] \notin Before \union {"tree"}
       /\ \/ ask[c].tool = "git_clone" /\ spot.kind \in {"dir", "tree"}
          \/ ask[c].tool = "worktree_add" /\ spot.kind = "worktree"
  /\ \A n \in Names : refs.branch[n] = c => phase[c] \notin Before /\ ask[c].tool = "branch_create"
  /\ refs.tag = c => phase[c] \notin Before /\ ask[c].tool = "git_tag"
  /\ \A b \in Repos \X Topics :
       refs.topic[b] = c => phase[c] \notin Before /\ ask[c].tool = "worktree_add"

\* What was checked still holds where it is acted upon.
Permitted(c) ==
  /\ phase[c] \in {"mkdir", "clone", "inspect", "cleanup"} =>
       ask[c].tool = "git_clone" /\ MayWrite(area)
  /\ phase[c] \in {"add", "tree", "remove", "prune"} => WriteBoth(c)
  /\ phase[c] = "push" => MayWrite("personal") /\ ask[c].tool = "git_tag" /\ ask[c].extra

\* How far a clone has come.
Progress(c) ==
  ask[c].tool = "git_clone" =>
    /\ phase[c] \in {"mkdir", "clone", "inspect", "finish"} => ~OutOfScope(c)
    /\ phase[c] \in {"clone", "inspect", "cleanup", "finish"} => spot.by = c
    /\ phase[c] \in {"clone", "inspect", "finish"} => spot.repo = ask[c].repo
    /\ phase[c] \in {"inspect", "finish"} => spot.kind = "tree"
    /\ phase[c] = "finish" => ~(grant.deny /\ spot.denied)

\* The tools for branches write their record before the answer is complete.
Recorded(c) ==
  phase[c] \in {"head", "name"} =>
    trail[c] # <<>> /\ Last(c).result[1] = "ok" /\ (Last(c).kept \/ "append" \in faults)

\* A call that fails has removed what it made, or its record will excuse it.
Cleared(c) ==
  Leftover(c) =>
    /\ phase[c] = "fail" => Excused(c) \/ exc[c] = "OSError" \/ Unopened(c, exc[c])
    /\ phase[c] = "done" /\ answer[c] = "error" => Excused(c)

CallInv(c) == Ownership(c) /\ Permitted(c) /\ Progress(c) /\ Recorded(c) /\ Cleared(c)

IInv ==
  /\ TypeOK
  /\ TellInv
  /\ spot.kind = "none" => spot = Empty
  /\ sources \in Sources /\ area \in Areas
  /\ \A c \in Calls : CallInv(c)

(***************************************************************************)
(* Type correctness                                                        *)
(***************************************************************************)

LEMMA ErrorTypes ==
  {"InvalidArgument", "PathNotAllowed", "RepoNotFound", "AlreadyExists", "WriteGlobDenied",
   "NotOwned"} \subseteq DOMAIN ByType
BY DEF ByType

LEMMA ARepo == AnyRepo \in Repos
BY CheckoutAssumption DEF AnyRepo

LEMMA ActorsAre ==
  /\ Nobody \in Actors /\ "person" \in Actors /\ Calls \subseteq Actors
  /\ Nobody \notin Calls /\ "person" \notin Calls
BY CheckoutAssumption DEF Actors, Nobody

LEMMA SpotsAre ==
  /\ Empty \in Spot
  /\ \A repo \in Repos \union {Nobody}, who \in Actors : Dir(repo, who) \in Spot
BY ActorsAre DEF Empty, Dir, Spot

LEMMA InitTypes == Init => TypeOK
<1> SUFFICES ASSUME Init PROVE TypeOK
  OBVIOUS
<1>1. phase \in [Calls -> {"idle"}] /\ exc \in [Calls -> {"none"}] /\ answer \in [Calls -> {"none"}]
  BY DEF Init, CheckoutInit, CallInit
<1>2. spot \in Spot /\ registered \subseteq Repos
  BY SpotsAre DEF Init, CheckoutInit
<1>3. refs \in Refs
  BY ActorsAre DEF Init, CheckoutInit, Refs, Names, Topics
<1>4. ask \in [Calls -> Ask]
  BY ARepo DEF Init, CheckoutInit, Ask, Names
<1> QED
  BY <1>1, <1>2, <1>3, <1>4 DEF TypeOK, Ended

\* The start of a call changes its arguments and its phase.
LEMMA StartTypes ==
  ASSUME TypeOK, NEW c \in Calls, NEW first \in {"check", "look", "branch", "switch", "tag"},
         Enter(c, first), UNCHANGED <<spot, registered, refs>>,
         \E a \in Ask : ask' = [ask EXCEPT ![c] = a]
  PROVE  TypeOK'
<1>1. /\ phase' = [phase EXCEPT ![c] = first]
      /\ UNCHANGED <<exc, answer, spot, registered, refs>>
  BY DEF Enter, Goto
<1>2. ask' \in [Calls -> Ask]
  BY DEF TypeOK
<1> QED
  BY <1>1, <1>2 DEF TypeOK

LEMMA RefusalTypes ==
  ASSUME TypeOK, NEW c \in Calls, NEW class, Refused(c, class)
  PROVE  TypeOK'
<1>1. /\ phase' = [phase EXCEPT ![c] = "done"] /\ UNCHANGED <<exc, localVars>>
      /\ answer' = [answer EXCEPT ![c] = "error"] \/ answer' = [answer EXCEPT ![c] = "raised"]
  BY DEF Refused, audit_rejection, Goto, Tell
<1> QED
  BY <1>1 DEF TypeOK, localVars, Ended

LEMMA ComplaintTypes ==
  ASSUME TypeOK, NEW c \in Calls, NEW e, Complain(c, e),
         e \in {"InvalidArgument", "PathNotAllowed", "RepoNotFound", "AlreadyExists",
                "WriteGlobDenied", "NotOwned", "ValueError", "OSError", "PermissionError",
                "GitCommandError", "TypeError"}
  PROVE  TypeOK'
BY ErrorTypes DEF TypeOK, Complain, Raise, Goto, localVars

LEMMA CloneTypes ==
  ASSUME TypeOK, NEW c \in Calls, CloneStep(c)
  PROVE  TypeOK'
<1>1. CASE StartClone(c)
  <2>1. CASE Start(c, "git_clone", "check", Repos, {"main"}, BOOLEAN)
    BY <2>1, StartTypes DEF Start, Ask, Names
  <2>2. ASSUME NEW class, Refused(c, class) PROVE TypeOK'
    BY <2>2, RefusalTypes
  <2> QED
    BY <1>1, <2>1, <2>2 DEF StartClone
<1>2. CASE CheckDestination(c)
  <2>1. CASE Pass(c, "mkdir")
    BY <2>1 DEF Pass, Go, Goto, TypeOK
  <2> QED
    BY <1>2, <2>1, ComplaintTypes DEF CheckDestination, BadArgument
<1>3. CASE MakeDir(c)
  <2>1. CASE /\ spot' = Dir(ask[c].repo, c) /\ Go(c, "clone") /\ UNCHANGED <<registered, refs>>
    <3>1. spot' \in Spot
      BY <2>1, SpotsAre, ActorsAre DEF TypeOK, Ask
    <3> QED
      BY <2>1, <3>1 DEF Go, Goto, TypeOK
  <2> QED
    BY <1>3, <2>1, ComplaintTypes DEF MakeDir
<1>4. ASSUME NEW e \in {"GitCommandError", "WriteGlobDenied", "RepoNotFound"}, Abandon(c, e)
      PROVE  TypeOK'
  BY <1>4, ErrorTypes DEF Abandon, Goto, TypeOK, localVars
<1>5. CASE RunClone(c)
  <2>1. ASSUME NEW d \in BOOLEAN, spot' = [spot EXCEPT !.kind = "tree", !.denied = d]
        PROVE  spot' \in Spot
    BY <2>1 DEF TypeOK, Spot
  <2>2. CASE spot' \in Spot /\ Go(c, "inspect") /\ UNCHANGED <<registered, refs>>
    BY <2>2 DEF Go, Goto, TypeOK
  <2> QED
    BY <1>4, <1>5, <2>1, <2>2 DEF RunClone
<1>6. CASE Inspect(c)
  <2>1. CASE Pass(c, "finish")
    BY <2>1 DEF Pass, Go, Goto, TypeOK
  <2> QED
    BY <1>4, <1>6, <2>1 DEF Inspect
<1>7. CASE Cleanup(c)
  <2>1. spot' \in Spot
    BY <1>7, SpotsAre DEF Cleanup, TypeOK
  <2> QED
    BY <1>7, <2>1 DEF Cleanup, Goto, TypeOK
<1> QED
  BY <1>1, <1>2, <1>3, <1>5, <1>6, <1>7 DEF CloneStep

LEMMA WorktreeTypes ==
  ASSUME TypeOK, NEW c \in Calls, WorktreeStep(c)
  PROVE  TypeOK'
<1>0. ASSUME NEW p \in {"add", "open", "remove", "prune", "finish"}, Pass(c, p)
      PROVE  TypeOK'
  BY <1>0 DEF Pass, Go, Goto, TypeOK
<1>1. CASE StartWorktree(c)
  <2>1. CASE \/ Start(c, "worktree_list", "look", {AnyRepo}, {"main"}, {FALSE})
             \/ Start(c, "worktree_add", "check", Repos, Topics, {FALSE})
             \/ Start(c, "worktree_remove", "look", Repos, {"main"}, {FALSE})
    <3>2. CASE Start(c, "worktree_list", "look", {AnyRepo}, {"main"}, {FALSE})
      BY ARepo, <3>2, StartTypes DEF Start, Ask, Names
    <3>3. CASE Start(c, "worktree_add", "check", Repos, Topics, {FALSE})
      BY ARepo, <3>3, StartTypes DEF Start, Ask, Names
    <3>4. CASE Start(c, "worktree_remove", "look", Repos, {"main"}, {FALSE})
      BY ARepo, <3>4, StartTypes DEF Start, Ask, Names
    <3> QED
      BY <2>1, <3>2, <3>3, <3>4
  <2>2. CASE Refused(c, "invalid_argument")
    BY <2>2, RefusalTypes
  <2> QED
    BY <1>1, <2>1, <2>2 DEF StartWorktree
<1>2. CASE ListWorktrees(c) \/ CheckAdd(c) \/ OpenWorktree(c) \/ LookRegistered(c)
  BY <1>0, <1>2, ComplaintTypes
  DEF ListWorktrees, CheckAdd, OpenWorktree, LookRegistered, BadArgument
<1>3. CASE AddWorktree(c)
  <2>1. CASE /\ spot' = [Dir(ask[c].repo, c) EXCEPT !.kind = "worktree"]
             /\ registered' = registered \union {ask[c].repo}
             /\ Go(c, "open") /\ UNCHANGED refs
    <3>1. Dir(ask[c].repo, c) \in Spot /\ registered' \subseteq Repos
      BY <2>1, SpotsAre, ActorsAre DEF TypeOK, Ask
    <3>2. spot' \in Spot
      BY <2>1, <3>1 DEF Spot
    <3> QED
      BY <2>1, <3>1, <3>2 DEF Go, Goto, TypeOK
  <2> QED
    BY <1>3, <2>1, ComplaintTypes DEF AddWorktree
<1>4. CASE RemoveWorktree(c) \/ Prune(c)
  <2>1. ASSUME spot' \in {spot, Empty}, registered' \subseteq registered,
               Go(c, "prune") \/ Go(c, "finish"), UNCHANGED refs
        PROVE  TypeOK'
    <3>1. spot' \in Spot
      BY <2>1, SpotsAre DEF TypeOK
    <3> QED
      BY <2>1, <3>1 DEF Go, Goto, TypeOK
  <2> QED
    BY <1>4, <2>1, ComplaintTypes DEF RemoveWorktree, Prune
<1>5. CASE AddBranch(c)
  <2>1. CASE /\ refs' = [refs EXCEPT !.topic[<<ask[c].repo, ask[c].name>>] = c]
             /\ Go(c, "tree") /\ UNCHANGED <<spot, registered>>
    <3>1. refs' \in Refs
      BY <2>1, ActorsAre DEF TypeOK, Refs
    <3> QED
      BY <2>1, <3>1 DEF Go, Goto, TypeOK
  <2> QED
    BY <1>5, <2>1, ComplaintTypes DEF AddBranch
<1> QED
  BY <1>1, <1>2, <1>3, <1>4, <1>5 DEF WorktreeStep

LEMMA RefsTypes ==
  ASSUME TypeOK, NEW c \in Calls, RefsStep(c)
  PROVE  TypeOK'
<1>0. ASSUME NEW p \in {"listed", "name"}, Pass(c, p)
      PROVE  TypeOK'
  BY <1>0 DEF Pass, Go, Goto, TypeOK
<1>1. CASE Return(c)
  BY <1>1 DEF Return, Goto, Tell, TypeOK, localVars, Ended
<1>2. ASSUME NEW p \in {"name", "head"}, RecordFirst(c, p)
      PROVE  TypeOK'
  <2>1. CASE Goto(c, p) /\ UNCHANGED <<exc, answer, localVars>>
    BY <2>1 DEF Goto, TypeOK, localVars
  <2> QED
    BY <1>2, <2>1, ComplaintTypes DEF RecordFirst
<1>3. ASSUME NEW p \in {"created", "finish", "push"}, refs' \in Refs,
             Go(c, p), UNCHANGED <<spot, registered>>
      PROVE  TypeOK'
  BY <1>3 DEF Go, Goto, TypeOK
<1>4. CASE StartRefs(c)
  <2>2. CASE Start(c, "branch_list", "branch", {AnyRepo}, {"main"}, {FALSE})
    BY ARepo, <2>2, StartTypes DEF Start, Ask, Names
  <2>3. CASE Start(c, "branch_create", "branch", {AnyRepo}, Names, {FALSE})
    BY ARepo, <2>3, StartTypes DEF Start, Ask, Names
  <2>4. CASE Start(c, "branch_delete", "branch", {AnyRepo}, Names, {FALSE})
    BY ARepo, <2>4, StartTypes DEF Start, Ask, Names
  <2>5. CASE Start(c, "git_checkout", "switch", {AnyRepo}, {"main"}, {FALSE})
    BY ARepo, <2>5, StartTypes DEF Start, Ask, Names
  <2>6. CASE Start(c, "git_tag", "tag", {AnyRepo}, {"main"}, BOOLEAN)
    BY ARepo, <2>6, StartTypes DEF Start, Ask, Names
  <2> QED
    BY <1>4, <2>2, <2>3, <2>4, <2>5, <2>6 DEF StartRefs
<1>5. CASE \/ Invalid(c) \/ Outside(c) \/ ListBranches(c) \/ RecordBranch(c)
           \/ LookDetached(c) \/ NameBranch(c)
  BY <1>0, <1>1, <1>2, <1>5, ComplaintTypes
  DEF Invalid, Outside, ListBranches, RecordBranch, LookDetached, NameBranch, BadArgument
<1>6. CASE CreateBranch(c)
  <2>1. refs' \in Refs
    BY <1>6, ActorsAre DEF CreateBranch, TypeOK, Refs
  <2> QED
    BY <1>3, <1>6, <2>1 DEF CreateBranch
<1>7. CASE DeleteBranch(c)
  <2>1. refs' \in Refs
    BY <1>7, ActorsAre DEF DeleteBranch, TypeOK, Refs
  <2> QED
    BY <1>3, <1>7, <2>1 DEF DeleteBranch
<1>8. CASE Switch(c)
  <2>1. refs' \in Refs
    BY <1>8, ActorsAre DEF Switch, TypeOK, Refs
  <2> QED
    BY <1>3, <1>8, <2>1 DEF Switch
<1>9. CASE CreateTag(c)
  <2>1. refs' \in Refs
    BY <1>9, ActorsAre DEF CreateTag, TypeOK, Refs
  <2> QED
    BY <1>3, <1>9, <2>1 DEF CreateTag
<1>10. CASE PushTag(c)
  <2>1. ASSUME refs' = [refs EXCEPT !.remoteTag = c] PROVE refs' \in Refs
    BY <2>1, ActorsAre DEF TypeOK, Refs
  <2>2. CASE /\ refs' \in Refs /\ UNCHANGED <<spot, registered, answer, ask>>
             /\ Raise(c, "ValueError")
    BY <2>2 DEF Raise, Goto, TypeOK
  <2> QED
    BY <1>3, <1>10, <2>1, <2>2, ComplaintTypes DEF PushTag
<1>11. CASE TagRefused(c)
  <2>1. \/ phase' = [phase EXCEPT ![c] = "done"] /\ answer' = [answer EXCEPT ![c] = "error"]
           /\ UNCHANGED <<exc, localVars>>
        \/ Raise(c, "OSError") /\ UNCHANGED <<answer, localVars>>
    BY <1>11 DEF TagRefused, AnswerInBody, Goto, Tell
  <2> QED
    BY <2>1 DEF Raise, Goto, TypeOK, localVars, Ended
<1> QED
  BY <1>4, <1>5, <1>6, <1>7, <1>8, <1>9, <1>10, <1>11 DEF RefsStep

LEMMA EndTypes ==
  ASSUME TypeOK, NEW c \in Calls, Finish(c) \/ Disappear(c)
  PROVE  TypeOK'
<1>1. /\ UNCHANGED localVars
      /\ \E p \in {"done", "fail", "gone"} : phase' = [phase EXCEPT ![c] = p]
      /\ \E e \in {"none", "OSError", exc[c]} : exc' = [exc EXCEPT ![c] = e]
      /\ \E a \in {"ok", "error", "raised", answer[c]} : answer' = [answer EXCEPT ![c] = a]
  BY DEF Finish, Disappear, FinishOk, FinishError, Vanish, Raise, Goto, Tell, TypeOK
<1> QED
  BY <1>1 DEF TypeOK, localVars, Ended

LEMMA PersonTypes == TypeOK /\ Person => TypeOK'
<1> SUFFICES ASSUME TypeOK, Person PROVE TypeOK'
  OBVIOUS
<1>1. UNCHANGED <<phase, exc, answer, registered, ask>>
  BY DEF Person, callVars
<1>2. spot' \in Spot
  <2>1. [spot EXCEPT !.dirty = TRUE] \in Spot
    BY DEF TypeOK, Spot
  <2>2. spot' \in {spot, Dir(Nobody, "person"), Empty, [spot EXCEPT !.dirty = TRUE]}
    BY DEF Person
  <2>3. Dir(Nobody, "person") \in Spot
    BY SpotsAre, ActorsAre
  <2> QED
    BY <2>1, <2>2, <2>3, SpotsAre DEF TypeOK
<1>3. refs' \in Refs
  BY DEF Person, TypeOK, Refs
<1> QED
  BY <1>1, <1>2, <1>3 DEF TypeOK

LEMMA TypesStep == TypeOK /\ [Next]_vars => TypeOK'
<1> SUFFICES ASSUME TypeOK, [Next]_vars PROVE TypeOK'
  OBVIOUS
<1>1. CASE UNCHANGED vars
  BY <1>1 DEF vars, callVars, localVars, TypeOK
<1> QED
  BY <1>1, CloneTypes, WorktreeTypes, RefsTypes, EndTypes, PersonTypes DEF Next, Run, Over

\* Type correctness for any calls, any repositories and any grants.
THEOREM LocalTypes == Spec => []TypeOK
BY InitTypes, TypesStep, PTL DEF Spec
(***************************************************************************)
(* What a step tells                                                       *)
(***************************************************************************)

\* A branch tool records its success and goes on.
TellsEarly(c) ==
  /\ phase[c] \in {"listed", "created"}
  /\ \E p \in {"head", "name"} : Goto(c, p)
  /\ Written(c, <<"ok", "">>, "none")
  /\ UNCHANGED <<faults, pending, exc, answer>>

\* Everything a step of a local tool can tell.
Says(c) ==
  \/ Silent(c)
  \/ Enter(c, "check") \/ Enter(c, "look") \/ Enter(c, "branch") \/ Enter(c, "switch") \/ Enter(c, "tag")
  \/ \E class \in ReasonClasses \ {"other"} : audit_rejection(c, class)
  \/ TellsEarly(c)
  \/ Return(c) /\ phase[c] \in {"head", "name"}
  \/ phase[c] = "push" /\ \E detail : AnswerInBody(c, detail)
  \/ FinishOk(c) \/ FinishError(c) \/ Vanish(c)

LEMMA BodySilent ==
  ASSUME NEW c \in Calls, NEW a, phase[c] # "done", Complain(c, a) \/ Abandon(c, a) \/ Go(c, a)
  PROVE  Silent(c)
BY DEF Complain, Abandon, Go, Raise, Silent, Alone

LEMMA CloneSays ==
  ASSUME NEW c \in Calls, CloneStep(c)
  PROVE  Says(c)
<1>1. CASE StartClone(c)
  BY <1>1 DEF StartClone, Start, Refused, Says, ReasonClasses
<1>2. CASE CheckDestination(c)
  BY <1>2, BodySilent DEF CheckDestination, At, BadArgument, Pass, Says
<1>3. CASE MakeDir(c)
  BY <1>3, BodySilent DEF MakeDir, At, Says
<1>4. CASE RunClone(c)
  BY <1>4, BodySilent DEF RunClone, At, Says
<1>5. CASE Inspect(c)
  BY <1>5, BodySilent DEF Inspect, At, Pass, Says
<1>6. CASE Cleanup(c)
  BY <1>6 DEF Cleanup, At, Says, Silent, Alone
<1> QED
  BY <1>1, <1>2, <1>3, <1>4, <1>5, <1>6 DEF CloneStep

LEMMA WorktreeSays ==
  ASSUME NEW c \in Calls, WorktreeStep(c)
  PROVE  Says(c)
<1>1. CASE StartWorktree(c)
  BY <1>1 DEF StartWorktree, Start, Refused, Says, ReasonClasses
<1>2. CASE ListWorktrees(c)
  BY <1>2, BodySilent DEF ListWorktrees, At, BadArgument, Pass, Says
<1>3. CASE CheckAdd(c)
  BY <1>3, BodySilent DEF CheckAdd, At, BadArgument, Pass, Says
<1>4. CASE AddBranch(c) \/ AddWorktree(c)
  BY <1>4, BodySilent DEF AddBranch, AddWorktree, At, Says
<1>5. CASE OpenWorktree(c)
  BY <1>5, BodySilent DEF OpenWorktree, At, Pass, Says
<1>6. CASE LookRegistered(c)
  BY <1>6, BodySilent DEF LookRegistered, At, BadArgument, Pass, Says
<1>7. CASE RemoveWorktree(c)
  BY <1>7, BodySilent DEF RemoveWorktree, At, Says
<1>8. CASE Prune(c)
  BY <1>8, BodySilent DEF Prune, At, Says
<1> QED
  BY <1>1, <1>2, <1>3, <1>4, <1>5, <1>6, <1>7, <1>8 DEF WorktreeStep

LEMMA RefsSays ==
  ASSUME NEW c \in Calls, RefsStep(c)
  PROVE  Says(c)
<1>1. CASE StartRefs(c)
  BY <1>1 DEF StartRefs, Start, Says
<1>2. CASE Invalid(c) \/ Outside(c)
  BY <1>2, BodySilent DEF Invalid, Outside, BadArgument, Says
<1>3. CASE ListBranches(c) \/ CreateBranch(c) \/ DeleteBranch(c) \/ Switch(c) \/ CreateTag(c)
  BY <1>3, BodySilent DEF ListBranches, CreateBranch, DeleteBranch, Switch, CreateTag, At, Pass, Says
<1>4. CASE RecordBranch(c)
  <2>1. ASSUME NEW p \in {"head", "name"}, phase[c] \in {"listed", "created"}, RecordFirst(c, p)
        PROVE  Says(c)
    <3>1. CASE Complain(c, "OSError")
      BY <2>1, <3>1, BodySilent DEF Says
    <3> QED
      BY <2>1, <3>1 DEF RecordFirst, TellsEarly, Says
  <2> QED
    BY <1>4, <2>1 DEF RecordBranch, At
<1>5. CASE LookDetached(c) \/ NameBranch(c)
  BY <1>5, BodySilent DEF LookDetached, NameBranch, At, Pass, Says
<1>6. CASE PushTag(c)
  BY <1>6, BodySilent DEF PushTag, At, Says, Silent, Alone, Raise
<1>7. CASE TagRefused(c)
  BY <1>7 DEF TagRefused, At, Says
<1> QED
  BY <1>1, <1>2, <1>3, <1>4, <1>5, <1>6, <1>7 DEF RefsStep

LEMMA StepSays ==
  ASSUME NEW c \in Calls, Run(c) \/ Disappear(c)
  PROVE  Says(c)
<1>1. CASE Finish(c) \/ Disappear(c)
  BY <1>1 DEF Finish, Disappear, Says
<1> QED
  BY <1>1, CloneSays, WorktreeSays, RefsSays DEF Run

LEMMA StepTells ==
  ASSUME TellInv, NEW c \in Calls, Recorded(c), Says(c)
  PROVE  TellInv'
<1>1. CASE TellsEarly(c)
  <2>1. /\ OnCalls(trail)' /\ \A d \in Calls : \E R : trail'[d] \in Seq(R)
        /\ \A d \in Calls \ {c} : trail'[d] = trail[d]
    BY <1>1, WrittenIsLast DEF TellInv, TellsEarly
  <2>2. Alone(c) /\ UNCHANGED <<answer, pending>> /\ answer[c] = "none"
    BY <1>1 DEF TellsEarly, Alone, TellInv, Told
  <2>3. Told(c)' /\ OnCalls(answer)'
    BY <2>2 DEF Told, TellInv, CallTypes
  <2> QED
    BY <2>1, <2>2, <2>3, OneTells
<1>2. CASE Return(c) /\ phase[c] \in {"head", "name"}
  <2>1. Alone(c) /\ UNCHANGED <<trail, pending>>
    BY <1>2 DEF Return, Alone
  <2>2. /\ OnCalls(answer)' /\ answer'[c] = "ok" /\ phase'[c] = "done"
        /\ \A d \in Calls \ {c} : answer'[d] = answer[d]
    BY <1>2 DEF Return, Tell, Goto, TellInv, CallTypes, OnCalls
  <2>3. Told(c)'
    BY <1>2, <2>1, <2>2 DEF Told, Borne, Recorded, Last, Alone
  <2> QED
    BY <2>1, <2>2, <2>3, OneTells DEF TellInv, CallTypes
<1>3. CASE phase[c] = "push" /\ \E detail : AnswerInBody(c, detail)
  BY <1>3, AnswerTells
<1> QED
  BY <1>1, <1>2, <1>3, SilentTells, EnterTells, RejectionTells, FinishTells, VanishTells DEF Says

(***************************************************************************)
(* What a step can do to others                                            *)
(***************************************************************************)

\* What a call does to the destination: it takes it when it is free, works on
\* what is its own, or removes a worktree.
SpotStep(c) ==
  \/ UNCHANGED spot
  \/ spot.kind = "none" /\ spot'.by = c
  \/ spot.by = c /\ spot'.by = c
  \/ spot.by = c /\ spot' = Empty
  \/ spot.kind \in {"none", "worktree"} /\ spot' = Empty

RefsChange(c) ==
  /\ \A n \in Names : refs'.branch[n] \in {refs.branch[n], c, Nobody}
  /\ refs'.tag \in {refs.tag, c}
  /\ \A b \in Repos \X Topics : refs'.topic[b] \in {refs.topic[b], c}

Footprint(c) ==
  /\ UNCHANGED <<faults, area, sources>>
  /\ \A d \in Calls \ {c} :
       /\ phase'[d] = phase[d] /\ exc'[d] = exc[d] /\ answer'[d] = answer[d]
       /\ trail'[d] = trail[d] /\ ask'[d] = ask[d]
  /\ SpotStep(c)
  /\ RefsChange(c)

\* What one call does leaves the others what they rely on.
LEMMA OthersKept ==
  ASSUME IInv, NEW c \in Calls, Footprint(c), NEW d \in Calls \ {c}
  PROVE  CallInv(d)'
<1>1. CallInv(d) /\ d # Nobody
  BY ActorsAre DEF IInv
<1>2. /\ UNCHANGED <<faults, area, sources>>
      /\ phase'[d] = phase[d] /\ exc'[d] = exc[d] /\ answer'[d] = answer[d]
      /\ trail'[d] = trail[d] /\ ask'[d] = ask[d]
  BY DEF Footprint
<1>3. spot'.by = d => UNCHANGED spot
  BY <1>1 DEF Footprint, SpotStep, Empty
<1>4. spot.by = d /\ spot.kind \in {"dir", "tree"} => UNCHANGED spot
  BY DEF Footprint, SpotStep
<1>5. /\ \A n \in Names : refs'.branch[n] = d => refs.branch[n] = d
      /\ refs'.tag = d => refs.tag = d
      /\ \A b \in Repos \X Topics : refs'.topic[b] = d => refs.topic[b] = d
  BY <1>1 DEF Footprint, RefsChange
<1>6. /\ MayWrite(area)' <=> MayWrite(area)
      /\ MayWrite("personal")' <=> MayWrite("personal")
      /\ grant' = grant
  BY <1>2 DEF MayWrite, grant
<1>7. Ownership(d)'
  BY <1>1, <1>2, <1>3, <1>5 DEF CallInv, Ownership
<1>8. Permitted(d)'
  BY <1>1, <1>2, <1>6 DEF CallInv, Permitted, WriteBoth
<1>9. Progress(d)'
  BY <1>1, <1>2, <1>4, <1>6 DEF CallInv, Progress, Ownership, OutOfScope, Before
<1>10. Recorded(d)'
  BY <1>1, <1>2 DEF CallInv, Recorded, Last
<1>11. Cleared(d)'
  BY <1>1, <1>2, <1>3, <1>5 DEF CallInv, Cleared, Leftover, Excused, Unopened
<1> QED
  BY <1>7, <1>8, <1>9, <1>10, <1>11 DEF CallInv

(***************************************************************************)
(* What a step leaves of the call's own invariant                          *)
(***************************************************************************)

\* The part of Footprint that is not in the frame of ToolCall.
Touches(c) ==
  /\ UNCHANGED <<area, sources>>
  /\ \A d \in Calls \ {c} : ask'[d] = ask[d]
  /\ SpotStep(c)
  /\ RefsChange(c)
  /\ spot'.kind = "none" => spot' = Empty

Good(c) == Touches(c) /\ CallInv(c)'

LEMMA TouchesNothing ==
  ASSUME IInv, NEW c \in Calls, UNCHANGED <<area, sources, ask, spot, refs>>
  PROVE  Touches(c)
BY DEF IInv, Touches, SpotStep, RefsChange

\* A call that has made nothing.
LEMMA NothingYet ==
  ASSUME IInv, NEW c \in Calls, phase[c] \in Before
  PROVE  ~Leftover(c)
BY DEF IInv, CallInv, Ownership, Leftover

\* The guards that were passed stay passed.
LEMMA SamePermits ==
  ASSUME UNCHANGED <<area, sources>>, NEW c \in Calls, ask'[c] = ask[c]
  PROVE  /\ MayWrite(area)' <=> MayWrite(area)
         /\ MayWrite("personal")' <=> MayWrite("personal")
         /\ WriteBoth(c)' <=> WriteBoth(c)
         /\ OutOfScope(c)' <=> OutOfScope(c)
         /\ grant' = grant
BY DEF MayWrite, WriteBoth, OutOfScope, grant

LEMMA RecordedExcuses ==
  ASSUME IInv, NEW c \in Calls, phase[c] \in {"head", "name"}
  PROVE  Excused(c)
<1>1. trail[c] # <<>> /\ Last(c).result[1] = "ok"
  BY DEF IInv, CallInv, Recorded
<1>2. PICK R : trail[c] \in Seq(R)
  BY DEF IInv, TellInv, CallTypes
<1>3. Len(trail[c]) \in DOMAIN trail[c]
  BY <1>1, <1>2
<1> QED
  BY <1>1, <1>3 DEF Excused, Last

\* A body that raises has nothing to remove, or is excused.
LEMMA ComplaintGood ==
  ASSUME IInv, NEW c \in Calls, NEW e, Complain(c, e),
         phase[c] \in Before \/ Excused(c) \/ e = "OSError" \/ Unopened(c, e)
  PROVE  Good(c)
<1>1. /\ phase'[c] = "fail" /\ exc'[c] = e
      /\ UNCHANGED <<faults, trail, area, sources, spot, refs, ask>>
  BY DEF Complain, Raise, Goto, IInv, TypeOK, localVars
<1>2. Touches(c)
  BY <1>1, TouchesNothing
<1>3. (Leftover(c)' <=> Leftover(c)) /\ (Excused(c)' <=> Excused(c))
  BY <1>1 DEF Leftover, Excused, Unopened
<1>4. Cleared(c)'
  BY <1>1, <1>3, NothingYet DEF Cleared, Unopened
<1>5. Ownership(c)'
  BY <1>1 DEF IInv, CallInv, Ownership, Before
<1>6. Permitted(c)' /\ Progress(c)' /\ Recorded(c)'
  BY <1>1 DEF Permitted, Progress, Recorded
<1> QED
  BY <1>2, <1>4, <1>5, <1>6 DEF Good, CallInv

\* A body goes from one phase in which it owns nothing to another.
LEMMA ForwardGood ==
  ASSUME IInv, NEW c \in Calls, NEW p, Pass(c, p), phase[c] \in Before,
         p \notin {"tree", "clone", "inspect", "cleanup", "push", "head", "name", "fail", "done"},
         p = "mkdir" => ask[c].tool = "git_clone" /\ MayWrite(area) /\ ~OutOfScope(c),
         p \in {"add", "remove", "prune"} => WriteBoth(c),
         p = "finish" => ask[c].tool # "git_clone"
  PROVE  Good(c)
<1>1. phase'[c] = p /\ UNCHANGED <<faults, trail, area, sources, spot, refs, ask>>
  BY DEF Pass, Go, Goto, IInv, TypeOK
<1>2. Touches(c)
  BY <1>1, TouchesNothing
<1>3. ~Leftover(c) /\ ~Leftover(c)'
  BY <1>1, NothingYet DEF Leftover
<1>4. Ownership(c)' /\ Cleared(c)' /\ Recorded(c)'
  BY <1>1, <1>3 DEF Ownership, Leftover, Cleared, Recorded
<1>5. Permitted(c)' /\ Progress(c)'
  BY <1>1, SamePermits DEF Permitted, Progress
<1> QED
  BY <1>2, <1>4, <1>5 DEF Good, CallInv

\* The start of a call.
LEMMA StartGood ==
  ASSUME IInv, NEW c \in Calls, NEW tool, NEW first, NEW repos, NEW names, NEW extras,
         Start(c, tool, first, repos, names, extras),
         first \in {"check", "look", "branch", "switch", "tag"}
  PROVE  Good(c)
<1>1. /\ phase[c] = "idle" /\ phase'[c] = first
      /\ \A d \in Calls \ {c} : ask'[d] = ask[d]
      /\ UNCHANGED <<area, sources, spot, refs>>
  BY DEF Start, Enter, Goto, IInv, TypeOK
<1>2. Touches(c)
  BY <1>1 DEF IInv, Touches, SpotStep, RefsChange
<1>3. ~Leftover(c) /\ ~Leftover(c)'
  BY <1>1, NothingYet DEF Leftover, Before
<1>4. Ownership(c)' /\ Cleared(c)'
  BY <1>3 DEF Ownership, Leftover, Cleared
<1>5. Permitted(c)' /\ Progress(c)' /\ Recorded(c)'
  BY <1>1 DEF Permitted, Progress, Recorded
<1> QED
  BY <1>2, <1>4, <1>5 DEF Good, CallInv

LEMMA RefusalGood ==
  ASSUME IInv, NEW c \in Calls, NEW class, Refused(c, class)
  PROVE  Good(c)
<1>1. /\ phase[c] = "idle" /\ phase'[c] = "done"
      /\ UNCHANGED <<area, sources, spot, refs, ask>>
  BY DEF Refused, audit_rejection, Goto, IInv, TypeOK, localVars
<1>2. Touches(c)
  BY <1>1, TouchesNothing
<1>3. ~Leftover(c) /\ ~Leftover(c)'
  BY <1>1, NothingYet DEF Leftover, Before
<1>4. Ownership(c)' /\ Cleared(c)'
  BY <1>3 DEF Ownership, Leftover, Cleared
<1>5. Permitted(c)' /\ Progress(c)' /\ Recorded(c)'
  BY <1>1 DEF Permitted, Progress, Recorded
<1> QED
  BY <1>2, <1>4, <1>5 DEF Good, CallInv

\* The end of a call.
LEMMA EndGood ==
  ASSUME IInv, NEW c \in Calls, Finish(c) \/ Disappear(c)
  PROVE  Good(c)
<1>1. UNCHANGED <<faults, area, sources, spot, refs, ask>>
  BY DEF Finish, FinishOk, FinishError, Disappear, Vanish, localVars
<1>2. Touches(c)
  BY <1>1, TouchesNothing
<1>3. Leftover(c)' <=> Leftover(c)
  BY <1>1 DEF Leftover
<1>5. phase'[c] \in {"done", "fail", "gone"}
  BY DEF Finish, FinishOk, FinishError, Disappear, Vanish, Raise, Goto, IInv, TypeOK
<1>6. Ownership(c)' /\ Permitted(c)' /\ Progress(c)' /\ Recorded(c)'
  BY <1>1, <1>5 DEF IInv, CallInv, Ownership, Permitted, Progress, Recorded, Before
<1>7. Cleared(c)'
  <2>1. CASE FinishOk(c)
    <3>1. \/ phase'[c] = "done" /\ answer'[c] = "ok"
          \/ phase'[c] = "fail" /\ exc'[c] = "OSError"
      BY <2>1 DEF FinishOk, Goto, Tell, Raise, IInv, TypeOK
    <3> QED
      BY <3>1 DEF Cleared
  <2>2. CASE FinishError(c) /\ "dirs" \in faults /\ Tell(c, "raised")
    BY <2>2 DEF FinishError, Goto, Tell, IInv, TypeOK, Cleared
  <2>3. CASE FinishError(c) /\ Written(c, ErrorResult(exc[c]), exc[c])
    <3>1. /\ \A i \in DOMAIN trail[c] : i \in DOMAIN trail'[c] /\ trail'[c][i] = trail[c][i]
          /\ \E i \in DOMAIN trail'[c] : IsRecord(trail'[c][i], ErrorResult(exc[c]), exc[c])
      BY <2>3, WrittenIsLast DEF IInv, TellInv
    <3>2. Excused(c) => Excused(c)'
      BY <1>1, <3>1 DEF Excused, Unopened
    <3>3. exc[c] = "OSError" \/ Unopened(c, exc[c]) => Excused(c)'
      BY <1>1, <3>1 DEF Excused, Unopened, IsRecord
    <3>4. Leftover(c) => Excused(c) \/ exc[c] = "OSError" \/ Unopened(c, exc[c])
      BY <2>3 DEF IInv, CallInv, Cleared, FinishError
    <3> QED
      BY <1>3, <3>2, <3>3, <3>4 DEF Cleared
  <2>4. CASE Vanish(c)
    BY <2>4 DEF Vanish, Goto, IInv, TypeOK, Cleared
  <2> QED
    BY <2>1, <2>2, <2>3, <2>4 DEF Finish, FinishError, Disappear
<1> QED
  BY <1>2, <1>6, <1>7 DEF Good, CallInv
LEMMA CloneGood ==
  ASSUME IInv, NEW c \in Calls, CloneStep(c)
  PROVE  Good(c)
<1>0. TypeOK /\ CallInv(c)
  BY DEF IInv
<1>1. CASE StartClone(c)
  BY <1>1, StartGood, RefusalGood DEF StartClone
<1>2. CASE CheckDestination(c)
  BY <1>2, ComplaintGood, ForwardGood DEF CheckDestination, At, BadArgument, Before
<1>3. CASE MakeDir(c)
  <2>1. phase[c] = "mkdir" /\ ask[c].tool = "git_clone" /\ MayWrite(area) /\ ~OutOfScope(c)
    BY <1>0, <1>3 DEF MakeDir, At, CallInv, Permitted, Progress
  <2>2. CASE /\ ~Occupied /\ spot' = Dir(ask[c].repo, c) /\ Go(c, "clone")
             /\ UNCHANGED <<registered, refs>>
    <3>1. /\ phase'[c] = "clone" /\ UNCHANGED <<faults, trail, answer, exc, area, sources, refs, ask>>
      BY <1>0, <2>2 DEF Go, Goto, TypeOK
    <3>2. spot.kind = "none" /\ spot'.by = c /\ spot'.kind = "dir" /\ spot'.repo = ask[c].repo
      BY <2>2 DEF Occupied, Dir, Empty
    <3>3. Touches(c)
      BY <3>1, <3>2 DEF Touches, SpotStep, RefsChange
    <3>4. Ownership(c)'
      BY <1>0, <2>1, <3>1, <3>2 DEF CallInv, Ownership, Before
    <3>5. Permitted(c)' /\ Progress(c)' /\ Recorded(c)' /\ Cleared(c)'
      BY <2>1, <3>1, <3>2, SamePermits DEF Permitted, Progress, Recorded, Cleared
    <3> QED
      BY <3>3, <3>4, <3>5 DEF Good, CallInv
  <2> QED
    BY <1>3, <2>1, <2>2, ComplaintGood DEF MakeDir, Before
<1>4. ASSUME NEW e, Abandon(c, e), phase[c] \in {"clone", "inspect"}, ask[c].tool = "git_clone"
      PROVE  Good(c)
  <2>1. phase'[c] = "cleanup" /\ UNCHANGED <<area, sources, spot, refs, ask>>
    BY <1>0, <1>4 DEF Abandon, Goto, TypeOK, localVars
  <2>2. Touches(c)
    BY <2>1, TouchesNothing
  <2>3. Ownership(c)' /\ Permitted(c)' /\ Progress(c)'
    BY <1>0, <1>4, <2>1, SamePermits DEF CallInv, Ownership, Permitted, Progress, Before
  <2>4. Recorded(c)' /\ Cleared(c)'
    BY <2>1 DEF Recorded, Cleared
  <2> QED
    BY <2>2, <2>3, <2>4 DEF Good, CallInv
<1>5. CASE RunClone(c)
  <2>1. phase[c] = "clone" /\ ask[c].tool = "git_clone"
    BY <1>5 DEF RunClone, At
  <2>2. ASSUME NEW d \in BOOLEAN, spot' = [spot EXCEPT !.kind = "tree", !.denied = d],
               Go(c, "inspect"), UNCHANGED <<registered, refs>>
        PROVE  Good(c)
    <3>1. phase'[c] = "inspect" /\ UNCHANGED <<area, sources, refs, ask>>
      BY <1>0, <2>2 DEF Go, Goto, TypeOK
    <3>2. spot.by = c /\ spot'.by = c /\ spot'.kind = "tree" /\ spot'.repo = ask[c].repo
      BY <1>0, <2>1, <2>2 DEF CallInv, Progress, TypeOK, Spot
    <3>3. Touches(c)
      BY <3>1, <3>2 DEF Touches, SpotStep, RefsChange
    <3>4. Ownership(c)'
      BY <1>0, <2>1, <3>1, <3>2 DEF CallInv, Ownership, Before
    <3>5. Permitted(c)' /\ Progress(c)' /\ Recorded(c)' /\ Cleared(c)'
      BY <1>0, <2>1, <3>1, <3>2, SamePermits
      DEF CallInv, Permitted, Progress, Recorded, Cleared
    <3> QED
      BY <3>3, <3>4, <3>5 DEF Good, CallInv
  <2> QED
    BY <1>4, <1>5, <2>1, <2>2 DEF RunClone
<1>6. CASE Inspect(c)
  <2>1. phase[c] = "inspect" /\ ask[c].tool = "git_clone"
    BY <1>6 DEF Inspect, At
  <2>2. CASE Pass(c, "finish") /\ ~(grant.deny /\ spot.denied)
    <3>1. phase'[c] = "finish" /\ UNCHANGED <<area, sources, spot, refs, ask>>
      BY <1>0, <2>2 DEF Pass, Go, Goto, TypeOK
    <3>2. Touches(c)
      BY <3>1, TouchesNothing
    <3>3. Ownership(c)' /\ Permitted(c)'
      BY <1>0, <2>1, <3>1 DEF CallInv, Ownership, Permitted, Before
    <3>4. Progress(c)'
      BY <1>0, <2>1, <2>2, <3>1, SamePermits DEF CallInv, Progress
    <3>5. Recorded(c)' /\ Cleared(c)'
      BY <3>1 DEF Recorded, Cleared
    <3> QED
      BY <3>2, <3>3, <3>4, <3>5 DEF Good, CallInv
  <2> QED
    BY <1>4, <1>6, <2>1, <2>2 DEF Inspect
<1>7. CASE Cleanup(c)
  <2>1. /\ phase'[c] = "fail" /\ spot.by = c
        /\ UNCHANGED <<faults, trail, area, sources, refs, ask>>
        /\ ask[c].tool = "git_clone"
        /\ spot' = Empty \/ ("rmtree" \in faults /\ UNCHANGED spot)
    BY <1>0, <1>7 DEF Cleanup, At, Goto, TypeOK, CallInv, Progress
  <2>2. Touches(c)
    BY <2>1, TouchesNothing DEF Touches, SpotStep, RefsChange
  <2>3. Ownership(c)'
    BY <1>0, <2>1, ActorsAre DEF CallInv, Ownership, Before, Empty
  <2>4. Permitted(c)' /\ Progress(c)' /\ Recorded(c)'
    BY <2>1 DEF Permitted, Progress, Recorded
  <2>5. Cleared(c)'
    <3>1. CASE spot' = Empty
      BY <1>0, <2>1, <3>1, ActorsAre DEF CallInv, Ownership, Cleared, Leftover, Empty
    <3>2. CASE "rmtree" \in faults
      BY <2>1, <3>2 DEF Cleared, Excused
    <3> QED
      BY <2>1, <3>1, <3>2
  <2> QED
    BY <2>2, <2>3, <2>4, <2>5 DEF Good, CallInv
<1> QED
  BY <1>1, <1>2, <1>3, <1>5, <1>6, <1>7 DEF CloneStep

LEMMA WorktreeGood ==
  ASSUME IInv, NEW c \in Calls, WorktreeStep(c)
  PROVE  Good(c)
<1>0. TypeOK /\ CallInv(c)
  BY DEF IInv
<1>1. CASE StartWorktree(c)
  BY <1>1, StartGood, RefusalGood DEF StartWorktree
<1>2. CASE ListWorktrees(c) \/ CheckAdd(c) \/ LookRegistered(c)
  BY <1>2, ComplaintGood, ForwardGood
  DEF ListWorktrees, CheckAdd, LookRegistered, At, BadArgument, Before
<1>3. CASE AddWorktree(c)
  <2>1. phase[c] = "tree" /\ ask[c].tool = "worktree_add" /\ spot.by # c
    BY <1>0, <1>3 DEF AddWorktree, At, CallInv, Ownership
  <2>2. CASE /\ ~Occupied
             /\ spot' = [Dir(ask[c].repo, c) EXCEPT !.kind = "worktree"]
             /\ Go(c, "open") /\ UNCHANGED refs
    <3>1. phase'[c] = "open" /\ UNCHANGED <<area, sources, refs, ask>>
      BY <1>0, <2>2 DEF Go, Goto, TypeOK
    <3>2. spot.kind = "none" /\ spot'.by = c /\ spot'.kind = "worktree"
      BY <2>2 DEF Occupied, Dir, Empty
    <3>3. Touches(c)
      BY <3>1, <3>2 DEF Touches, SpotStep, RefsChange
    <3>4. Ownership(c)'
      BY <1>0, <2>1, <3>1, <3>2 DEF CallInv, Ownership, Before
    <3>5. Permitted(c)' /\ Progress(c)' /\ Recorded(c)' /\ Cleared(c)'
      BY <2>1, <3>1 DEF Permitted, Progress, Recorded, Cleared
    <3> QED
      BY <3>3, <3>4, <3>5 DEF Good, CallInv
  <2>3. Excused(c)
    BY <2>1 DEF Excused
  <2> QED
    BY <1>3, <2>2, <2>3, ComplaintGood DEF AddWorktree
<1>4. CASE OpenWorktree(c)
  <2>1. phase[c] = "open" /\ ask[c].tool = "worktree_add"
    BY <1>4 DEF OpenWorktree, At
  <2>2. CASE Pass(c, "finish")
    <3>1. phase'[c] = "finish" /\ UNCHANGED <<area, sources, spot, refs, ask>>
      BY <1>0, <2>2 DEF Pass, Go, Goto, TypeOK
    <3>2. Touches(c)
      BY <3>1, TouchesNothing
    <3>3. Ownership(c)' /\ Permitted(c)' /\ Progress(c)'
      BY <1>0, <2>1, <3>1 DEF CallInv, Ownership, Permitted, Progress, Before
    <3>4. Recorded(c)' /\ Cleared(c)'
      BY <3>1 DEF Recorded, Cleared
    <3> QED
      BY <3>2, <3>3, <3>4 DEF Good, CallInv
  <2>3. CASE Complain(c, "RepoNotFound")
    BY <2>1, <2>3, ComplaintGood DEF Unopened
  <2> QED
    BY <1>4, <2>2, <2>3 DEF OpenWorktree
<1>5. CASE RemoveWorktree(c) \/ Prune(c)
  <2>1. /\ phase[c] \in {"remove", "prune"} /\ ask[c].tool = "worktree_remove"
        /\ phase[c] \in Before /\ WriteBoth(c)
    BY <1>0, <1>5 DEF RemoveWorktree, Prune, At, Before, CallInv, Permitted
  <2>2. ASSUME NEW p \in {"prune", "finish"}, Go(c, p), UNCHANGED refs,
               \/ UNCHANGED spot
               \/ spot.kind \in {"none", "worktree"} /\ spot' = Empty
        PROVE  Good(c)
    <3>1. phase'[c] = p /\ UNCHANGED <<area, sources, refs, ask>>
      BY <1>0, <2>2 DEF Go, Goto, TypeOK
    <3>2. Touches(c)
      BY <2>2, <3>1 DEF IInv, Touches, SpotStep, RefsChange
    <3>3. ~Leftover(c)'
      BY <2>1, <2>2, NothingYet, ActorsAre DEF Leftover, Empty
    <3>4. Ownership(c)' /\ Cleared(c)'
      BY <3>3 DEF Ownership, Leftover, Cleared
    <3>5. Permitted(c)' /\ Progress(c)' /\ Recorded(c)'
      BY <2>1, <2>2, <3>1, SamePermits DEF Permitted, Progress, Recorded
    <3> QED
      BY <3>2, <3>4, <3>5 DEF Good, CallInv
  <2> QED
    BY <1>5, <2>1, <2>2, ComplaintGood DEF RemoveWorktree, Prune
<1>6. CASE AddBranch(c)
  <2>1. phase[c] = "add" /\ ask[c].tool = "worktree_add" /\ WriteBoth(c)
    BY <1>0, <1>6 DEF AddBranch, At, CallInv, Permitted
  <2>2. CASE /\ refs' = [refs EXCEPT !.topic[<<ask[c].repo, ask[c].name>>] = c]
             /\ Go(c, "tree") /\ UNCHANGED <<spot, registered>>
    <3>1. phase'[c] = "tree" /\ UNCHANGED <<area, sources, spot, ask>>
      BY <1>0, <2>2 DEF Go, Goto, TypeOK
    <3>2. /\ refs'.branch = refs.branch /\ refs'.tag = refs.tag
          /\ \A b \in Repos \X Topics : refs'.topic[b] \in {refs.topic[b], c}
      BY <1>0, <2>2 DEF TypeOK, Refs
    <3>3. Touches(c)
      BY <3>1, <3>2 DEF IInv, Touches, SpotStep, RefsChange
    <3>4. ~Leftover(c)
      BY <2>1, NothingYet DEF Before
    <3>5. Ownership(c)'
      BY <2>1, <3>1, <3>2, <3>4 DEF Ownership, Leftover, Before
    <3>6. Permitted(c)' /\ Progress(c)' /\ Recorded(c)' /\ Cleared(c)'
      BY <2>1, <3>1, SamePermits DEF Permitted, Progress, Recorded, Cleared
    <3> QED
      BY <3>3, <3>5, <3>6 DEF Good, CallInv
  <2> QED
    BY <1>6, <2>1, <2>2, ComplaintGood DEF AddBranch, Before
<1> QED
  BY <1>1, <1>2, <1>3, <1>4, <1>5, <1>6 DEF WorktreeStep

LEMMA RefsGood ==
  ASSUME IInv, NEW c \in Calls, RefsStep(c)
  PROVE  Good(c)
<1>0. TypeOK /\ CallInv(c)
  BY DEF IInv
<1>1. CASE StartRefs(c)
  BY <1>1, StartGood DEF StartRefs
<1>2. CASE Invalid(c) \/ Outside(c)
  BY <1>2, ComplaintGood DEF Invalid, Outside, BadArgument, Before
<1>3. CASE ListBranches(c)
  BY <1>3, ForwardGood DEF ListBranches, At, Before
<1>4. ASSUME Return(c) PROVE Good(c)
  <2>1. phase'[c] = "done" /\ answer'[c] = "ok" /\ UNCHANGED <<area, sources, spot, refs, ask>>
    BY <1>0, <1>4 DEF Return, Goto, Tell, TypeOK, localVars
  <2>2. Touches(c)
    BY <2>1, TouchesNothing
  <2>3. Ownership(c)' /\ Permitted(c)' /\ Progress(c)' /\ Recorded(c)' /\ Cleared(c)'
    BY <1>0, <2>1 DEF CallInv, Ownership, Permitted, Progress, Recorded, Cleared, Before
  <2> QED
    BY <2>2, <2>3 DEF Good, CallInv
<1>5. ASSUME NEW p \in {"head", "name"}, phase[c] \in {"listed", "created"}, RecordFirst(c, p)
      PROVE  Good(c)
  <2>1. CASE Written(c, <<"ok", "">>, "none") /\ Goto(c, p) /\ UNCHANGED <<faults, localVars>>
    <3>1. phase'[c] = p /\ UNCHANGED <<area, sources, spot, refs, ask>>
      BY <1>0, <2>1 DEF Goto, TypeOK, localVars
    <3>2. Touches(c)
      BY <3>1, TouchesNothing
    <3>3. trail'[c] # <<>> /\ Last(c)'.result[1] = "ok" /\ (Last(c)'.kept \/ "append" \in faults')
      <4>1. PICK r, e : r = <<"ok", "">> /\ e = "none"
        OBVIOUS
      <4>2. Written(c, r, e) /\ r[1] = "ok"
        BY <2>1, <4>1
      <4>3. CallTypes
        BY DEF IInv, TellInv
      <4>4. trail'[c] # <<>> /\ IsRecord(Last(c)', r, e) /\ UNCHANGED faults
        BY <2>1, <4>2, <4>3, WrittenIsLast
      <4> QED
        BY <4>2, <4>4 DEF IsRecord
    <3>4. Recorded(c)'
      BY <3>3 DEF Recorded
    <3>5. Ownership(c)' /\ Permitted(c)' /\ Progress(c)' /\ Cleared(c)'
      BY <1>0, <1>5, <3>1 DEF CallInv, Ownership, Permitted, Progress, Cleared, Before
    <3> QED
      BY <3>2, <3>4, <3>5 DEF Good, CallInv
  <2> QED
    BY <1>5, <2>1, ComplaintGood DEF RecordFirst
<1>6. CASE RecordBranch(c)
  BY <1>5, <1>6 DEF RecordBranch, At
<1>7. CASE LookDetached(c) \/ NameBranch(c)
  <2>1. phase[c] \in {"head", "name"} /\ Excused(c)
    BY <1>7, RecordedExcuses DEF LookDetached, NameBranch, At
  <2>2. CASE Pass(c, "name")
    <3>1. phase'[c] = "name" /\ UNCHANGED <<faults, area, sources, spot, refs, ask, trail>>
      BY <1>0, <2>2 DEF Pass, Go, Goto, TypeOK
    <3>2. Touches(c)
      BY <3>1, TouchesNothing
    <3>3. Recorded(c)'
      BY <1>0, <2>1, <3>1 DEF CallInv, Recorded, Last
    <3>4. Ownership(c)' /\ Permitted(c)' /\ Progress(c)' /\ Cleared(c)'
      BY <1>0, <2>1, <3>1 DEF CallInv, Ownership, Permitted, Progress, Cleared, Before
    <3> QED
      BY <3>2, <3>3, <3>4 DEF Good, CallInv
  <2> QED
    BY <1>4, <1>7, <2>1, <2>2, ComplaintGood DEF LookDetached, NameBranch
<1>8. ASSUME NEW p \in {"created", "finish", "push"}, Go(c, p), UNCHANGED spot, RefsChange(c),
             phase[c] \in Before, ask[c].tool # "git_clone",
             \A n \in Names : refs'.branch[n] = c => ask[c].tool = "branch_create",
             refs'.tag = c => ask[c].tool = "git_tag",
             refs'.topic = refs.topic,
             p = "push" => MayWrite("personal") /\ ask[c].tool = "git_tag" /\ ask[c].extra
      PROVE  Good(c)
  <2>1. phase'[c] = p /\ UNCHANGED <<area, sources, spot, ask>>
    BY <1>0, <1>8 DEF Go, Goto, TypeOK
  <2>2. Touches(c)
    BY <1>8, <2>1 DEF IInv, Touches, SpotStep
  <2>3. spot.by # c /\ \A b \in Repos \X Topics : refs'.topic[b] # c
    BY <1>8, NothingYet DEF Leftover
  <2>4. Ownership(c)'
    BY <1>8, <2>1, <2>3 DEF Ownership, Before
  <2>5. Permitted(c)' /\ Progress(c)' /\ Recorded(c)' /\ Cleared(c)'
    BY <1>8, <2>1, SamePermits DEF Permitted, Progress, Recorded, Cleared
  <2> QED
    BY <2>2, <2>4, <2>5 DEF Good, CallInv
<1>9. ASSUME phase[c] \in Before
      PROVE  refs.tag # c /\ \A n \in Names : refs.branch[n] # c
  BY <1>9, NothingYet DEF Leftover
<1>10. CASE CreateBranch(c)
  <2>1. /\ phase[c] \in Before /\ ask[c].tool = "branch_create" /\ Go(c, "created") /\ UNCHANGED spot
        /\ refs' = [refs EXCEPT !.branch[ask[c].name] = c]
    BY <1>10 DEF CreateBranch, At, Before
  <2>2. RefsChange(c) /\ refs'.tag = refs.tag /\ refs'.topic = refs.topic
    BY <1>0, <2>1 DEF RefsChange, TypeOK, Refs
  <2> QED
    BY <1>8, <1>9, <2>1, <2>2
<1>11. CASE DeleteBranch(c)
  <2>1. /\ phase[c] \in Before /\ ask[c].tool = "branch_delete" /\ Go(c, "finish") /\ UNCHANGED spot
        /\ refs' = [refs EXCEPT !.branch[ask[c].name] = Nobody]
    BY <1>11 DEF DeleteBranch, At, Before
  <2>2. /\ RefsChange(c) /\ refs'.tag = refs.tag /\ refs'.topic = refs.topic
        /\ \A n \in Names : refs'.branch[n] \in {refs.branch[n], Nobody}
    BY <1>0, <2>1 DEF RefsChange, TypeOK, Refs
  <2> QED
    BY <1>8, <1>9, <2>1, <2>2, ActorsAre
<1>12. CASE Switch(c)
  <2>1. /\ phase[c] \in Before /\ ask[c].tool = "git_checkout" /\ Go(c, "finish") /\ UNCHANGED spot
    BY <1>12 DEF Switch, At, Before
  <2>2. /\ RefsChange(c) /\ refs'.tag = refs.tag /\ refs'.branch = refs.branch
        /\ refs'.topic = refs.topic
    BY <1>0, <1>12 DEF Switch, RefsChange, TypeOK, Refs
  <2> QED
    BY <1>8, <1>9, <2>1, <2>2
<1>13. CASE CreateTag(c)
  <2>1. /\ phase[c] \in Before /\ ask[c].tool = "git_tag" /\ UNCHANGED spot /\ MayWrite("personal")
        /\ \/ Go(c, "push") /\ ask[c].extra
           \/ Go(c, "finish")
    BY <1>13 DEF CreateTag, At, Before
  <2>2. RefsChange(c) /\ refs'.branch = refs.branch /\ refs'.topic = refs.topic
    BY <1>0, <1>13 DEF CreateTag, RefsChange, TypeOK, Refs
  <2> QED
    BY <1>8, <1>9, <2>1, <2>2
<1>14. CASE PushTag(c) \/ TagRefused(c)
  <2>1. phase[c] = "push" /\ ask[c].tool = "git_tag" /\ ask[c].extra
    BY <1>0, <1>14 DEF PushTag, TagRefused, At, CallInv, Permitted
  <2>2. Excused(c)
    BY <2>1 DEF Excused
  <2>3. ASSUME phase'[c] \in {"finish", "fail", "done"}, UNCHANGED <<area, sources, spot, ask>>,
               refs'.branch = refs.branch, refs'.tag = refs.tag, refs'.topic = refs.topic
        PROVE  Good(c)
    <3>1. Touches(c)
      BY <2>3 DEF IInv, Touches, SpotStep, RefsChange
    <3>2. Ownership(c)' /\ Permitted(c)' /\ Progress(c)' /\ Recorded(c)'
      BY <1>0, <2>1, <2>3 DEF CallInv, Ownership, Permitted, Progress, Recorded, Before
    <3>3. Cleared(c)'
      BY <2>1, <2>3 DEF Cleared, Excused
    <3> QED
      BY <3>1, <3>2, <3>3 DEF Good, CallInv
  <2>4. ASSUME PushTag(c) PROVE Good(c)
    <3>1. CASE Complain(c, "ValueError")
      BY <2>2, <3>1, ComplaintGood
    <3>2. CASE /\ refs' = [refs EXCEPT !.remoteTag = c] /\ UNCHANGED <<spot, area, sources, ask>>
               /\ Goto(c, "finish") \/ Goto(c, "fail")
      BY <1>0, <2>3, <3>2 DEF Goto, TypeOK, Refs
    <3> QED
      BY <2>4, <3>1, <3>2 DEF PushTag, Go, Raise
  <2>5. ASSUME TagRefused(c) PROVE Good(c)
    BY <1>0, <2>3, <2>5 DEF TagRefused, AnswerInBody, Goto, Raise, TypeOK, localVars
  <2> QED
    BY <1>14, <2>4, <2>5
<1> QED
  BY <1>1, <1>2, <1>3, <1>6, <1>7, <1>10, <1>11, <1>12, <1>13, <1>14 DEF RefsStep
(***************************************************************************)
(* The invariant is inductive                                              *)
(***************************************************************************)

LEMMA FrameKept ==
  ASSUME IInv, NEW c \in Calls, Says(c)
  PROVE  /\ UNCHANGED faults
         /\ \A d \in Calls \ {c} :
              /\ phase'[d] = phase[d] /\ exc'[d] = exc[d] /\ answer'[d] = answer[d]
              /\ trail'[d] = trail[d]
<1>0. TypeOK /\ CallTypes
  BY DEF IInv, TellInv
<1>1. CASE \/ Silent(c) \/ Enter(c, "check") \/ Enter(c, "look") \/ Enter(c, "branch")
           \/ Enter(c, "switch") \/ Enter(c, "tag") \/ Vanish(c) \/ Return(c)
  BY <1>0, <1>1 DEF Silent, Alone, Enter, Vanish, Return, Goto, Tell, TypeOK
<1>2. ASSUME NEW class, audit_rejection(c, class)
      PROVE  /\ UNCHANGED faults
             /\ \A d \in Calls \ {c} :
                  /\ phase'[d] = phase[d] /\ exc'[d] = exc[d] /\ answer'[d] = answer[d]
                  /\ trail'[d] = trail[d]
  BY <1>0, <1>2 DEF audit_rejection, Written, Goto, Tell, TypeOK, CallTypes, OnCalls
<1>3. CASE TellsEarly(c) \/ FinishOk(c) \/ FinishError(c) \/ \E detail : AnswerInBody(c, detail)
  BY <1>0, <1>3
  DEF TellsEarly, FinishOk, FinishError, AnswerInBody, Written, Goto, Tell, Raise, TypeOK,
      CallTypes, OnCalls
<1> QED
  BY <1>1, <1>2, <1>3 DEF Says

\* Any step of a call keeps the invariant of every call.
LEMMA StepGood ==
  ASSUME IInv, NEW c \in Calls, Run(c) \/ Disappear(c)
  PROVE  Footprint(c) /\ (spot'.kind = "none" => spot' = Empty) /\ \A d \in Calls : CallInv(d)'
<1>1. Says(c)
  BY StepSays
<1>2. Good(c)
  BY CloneGood, WorktreeGood, RefsGood, EndGood DEF Run
<1>3. Footprint(c)
  BY <1>1, <1>2, FrameKept DEF Footprint, Good, Touches
<1> QED
  BY <1>2, <1>3, OthersKept DEF Good, Touches

LEMMA PersonGood ==
  ASSUME IInv, Person
  PROVE  (spot'.kind = "none" => spot' = Empty) /\ \A d \in Calls : CallInv(d)'
<1>0. TypeOK
  BY DEF IInv
<1>1. UNCHANGED <<callVars, area, sources, ask>>
  BY DEF Person
<1>2. /\ refs'.tag = refs.tag /\ refs'.branch = refs.branch /\ refs'.topic = refs.topic
  BY <1>0 DEF Person, TypeOK, Refs
<1>3. \/ UNCHANGED spot
      \/ spot = Empty /\ spot' = Dir(Nobody, "person")
      \/ Occupied /\ ~BeingCloned /\ spot' = Empty
      \/ Occupied /\ ~BeingCloned /\ spot' = [spot EXCEPT !.dirty = TRUE]
  BY DEF Person, IInv, Occupied
<1>4. spot'.kind = "none" => spot' = Empty
  BY <1>0, <1>3 DEF IInv, Occupied, Dir, Empty, TypeOK, Spot
<1>5. ASSUME NEW d \in Calls
      PROVE  CallInv(d)'
  <2>1. CallInv(d)
    BY DEF IInv
  <2>2. spot'.by = d => spot.by = d /\ spot'.kind = spot.kind
    <3>1. Empty.by # d /\ Dir(Nobody, "person").by # d
      BY ActorsAre DEF Dir, Empty
    <3>2. /\ [spot EXCEPT !.dirty = TRUE].by = spot.by
          /\ [spot EXCEPT !.dirty = TRUE].kind = spot.kind
      BY <1>0 DEF TypeOK, Spot
    <3> QED
      BY <1>3, <3>1, <3>2
  <2>3. spot.by = d /\ ask[d].tool = "git_clone" /\ phase[d] \notin Ended => UNCHANGED spot
    BY <1>3, ActorsAre DEF BeingCloned, Empty
  <2>4. Ownership(d)'
    BY <1>1, <1>2, <2>1, <2>2 DEF CallInv, Ownership, callVars
  <2>5. Permitted(d)'
    BY <1>1, <2>1, SamePermits DEF CallInv, Permitted, callVars
  <2>6. Progress(d)'
    BY <1>1, <2>1, <2>3, SamePermits DEF CallInv, Progress, callVars, Ended
  <2>7. Recorded(d)'
    BY <1>1, <2>1 DEF CallInv, Recorded, callVars, Last
  <2>8. Cleared(d)'
    BY <1>1, <1>2, <2>1, <2>2 DEF CallInv, Cleared, Leftover, Excused, Unopened, callVars
  <2> QED
    BY <2>4, <2>5, <2>6, <2>7, <2>8 DEF CallInv
<1> QED
  BY <1>4, <1>5

LEMMA StutterKeeps == IInv /\ UNCHANGED vars => IInv'
<1> SUFFICES ASSUME IInv, UNCHANGED vars PROVE IInv'
  OBVIOUS
<1>1. UNCHANGED <<faults, phase, pending, exc, answer, trail, subject, area, sources, spot, registered,
                  refs, ask>>
  BY DEF vars, callVars, localVars
<1>2. TypeOK' /\ TellInv'
  BY <1>1 DEF IInv, TypeOK, TellInv, CallTypes, OnCalls, Told, Borne, Last
<1>3. ASSUME NEW d \in Calls PROVE CallInv(d)'
  <2>1. CallInv(d)
    BY DEF IInv
  <2>2. Ownership(d)' /\ Permitted(d)' /\ Progress(d)'
    BY <1>1, <2>1, SamePermits DEF CallInv, Ownership, Permitted, Progress
  <2>3. Recorded(d)' /\ Cleared(d)'
    BY <1>1, <2>1 DEF CallInv, Recorded, Last, Cleared, Leftover, Excused, Unopened
  <2> QED
    BY <2>2, <2>3 DEF CallInv
<1> QED
  BY <1>1, <1>2, <1>3 DEF IInv

LEMMA IInvStep == IInv /\ [Next]_vars => IInv'
<1> SUFFICES ASSUME IInv, [Next]_vars PROVE IInv'
  OBVIOUS
<1>1. TypeOK'
  BY TypesStep DEF IInv
<1>2. ASSUME NEW c \in Calls, Run(c) \/ Disappear(c)
      PROVE  IInv'
  <2>1. Recorded(c) /\ TellInv
    BY DEF IInv, CallInv
  <2>2. TellInv'
    BY <1>2, <2>1, StepSays, StepTells
  <2>3. UNCHANGED <<sources, area>>
    BY <1>2, StepGood DEF Footprint
  <2> QED
    BY <1>1, <1>2, <2>2, <2>3, StepGood DEF IInv
<1>3. CASE Person
  <2>1. UNCHANGED <<callVars, sources, area>>
    BY <1>3 DEF Person
  <2>2. TellInv'
    BY <2>1 DEF IInv, callVars, TellInv, CallTypes, OnCalls, Told, Borne, Last
  <2> QED
    BY <1>1, <1>3, <2>1, <2>2, PersonGood DEF IInv
<1> QED
  BY <1>2, <1>3, StutterKeeps DEF Next, Over

LEMMA IInvInit == Init => IInv
<1> SUFFICES ASSUME Init PROVE IInv
  OBVIOUS
<1>1. TellInv
  BY TellInvInit DEF Init, CheckoutInit
<1>2. spot = Empty /\ sources \in Sources /\ area \in Areas
  BY CheckoutAssumption DEF Init, CheckoutInit, Subjects, Areas
<1>3. ASSUME NEW c \in Calls PROVE CallInv(c)
  <2>1. /\ phase[c] = "idle" /\ spot.by # c /\ refs.tag # c
        /\ \A n \in Names : refs.branch[n] # c
        /\ \A b \in Repos \X Topics : refs.topic[b] # c
    BY ActorsAre DEF Init, CheckoutInit, CallInit, Empty
  <2> QED
    BY <2>1 DEF CallInv, Ownership, Permitted, Progress, Recorded, Cleared
<1> QED
  BY <1>1, <1>2, <1>3, InitTypes DEF IInv

LEMMA IInvAlways == Spec => []IInv
BY IInvInit, IInvStep, PTL DEF Spec

(***************************************************************************)
(* Theorems                                                                *)
(***************************************************************************)

\* Whatever answer an agent gets from a local tool is in the trail, unless its
\* record could not be appended.
THEOREM LocalAnswersTold == Spec => []AnswersTold
<1>1. IInv => AnswersTold
  BY TellInvTells DEF IInv
<1> QED
  BY <1>1, IInvAlways, PTL

\* However many calls clone to one destination, with people about, the clone
\* that is reported is the caller's own and within its scope.
THEOREM ReportedCloneIsOwn == Spec => []OkMeansOwnTree
<1>1. IInv => OkMeansOwnTree
  BY DEF IInv, CallInv, Progress, OkMeansOwnTree, At, OutOfScope
<1> QED
  BY <1>1, IInvAlways, PTL

\* A failed call has left nothing that would be in the way of its retry, but for
\* what ErrorLeavesNothing excepts.
THEOREM FailedCallLeavesNothing == Spec => []ErrorLeavesNothing
<1>1. IInv => ErrorLeavesNothing
  <2> SUFFICES ASSUME IInv, NEW c \in Calls, answer[c] = "error", ~Excused(c), Leftover(c)
               PROVE  FALSE
    BY DEF ErrorLeavesNothing
  <2>1. phase[c] = "done"
    BY DEF IInv, TellInv, Told
  <2> QED
    BY <2>1 DEF IInv, CallInv, Cleared
<1> QED
  BY <1>1, IInvAlways, PTL

\* Which step of a call makes something else of the destination.
LEMMA WhoRemoves ==
  ASSUME IInv, NEW c \in Calls, Run(c) \/ Disappear(c), spot.by # Nobody, spot'.by # spot.by
  PROVE  \/ spot.by = c /\ ask[c].tool = "git_clone"
         \/ /\ ask[c].tool = "worktree_remove"
            /\ spot.kind = "worktree" /\ spot.repo = ask[c].repo /\ ~spot.dirty
<1>0. CallInv(c) /\ Occupied
  BY DEF IInv, Occupied, Empty
<1>1. CASE CloneStep(c)
  <2>1. CASE Cleanup(c)
    BY <1>0, <2>1 DEF Cleanup, At, CallInv, Progress
  <2>2. CASE RunClone(c)
    BY <1>0, <2>2 DEF RunClone, At, CallInv, Progress
  <2>3. CASE MakeDir(c)
    BY <1>0, <2>3 DEF MakeDir, Complain, localVars
  <2>4. CASE StartClone(c) \/ CheckDestination(c) \/ Inspect(c)
    BY <2>4 DEF StartClone, CheckDestination, Inspect, Start, Refused, BadArgument, Complain,
                Pass, Abandon, localVars
  <2> QED
    BY <1>1, <2>1, <2>2, <2>3, <2>4 DEF CloneStep
<1>2. CASE WorktreeStep(c)
  <2>1. CASE RemoveWorktree(c)
    BY <1>0, <2>1 DEF RemoveWorktree, At, Occupied, Complain, localVars
  <2>2. CASE AddWorktree(c)
    BY <1>0, <2>2 DEF AddWorktree, Complain, localVars
  <2>3. CASE \/ StartWorktree(c) \/ ListWorktrees(c) \/ CheckAdd(c) \/ AddBranch(c)
             \/ OpenWorktree(c) \/ LookRegistered(c) \/ Prune(c)
    BY <2>3 DEF StartWorktree, ListWorktrees, CheckAdd, AddBranch, OpenWorktree, LookRegistered, Prune,
                Start, Refused, BadArgument, Complain, Pass, localVars
  <2> QED
    BY <1>2, <2>1, <2>2, <2>3 DEF WorktreeStep
<1>3. CASE RefsStep(c) \/ Finish(c) \/ Disappear(c)
  <2>1. UNCHANGED spot
    BY <1>3 DEF RefsStep, StartRefs, Invalid, Outside, ListBranches, CreateBranch, DeleteBranch,
                RecordBranch, LookDetached, NameBranch, Switch, CreateTag, PushTag, TagRefused,
                Start, BadArgument, Complain, Pass, RecordFirst, Return, Finish, Disappear, localVars
  <2> QED
    BY <2>1
<1> QED
  BY <1>1, <1>2, <1>3 DEF Run

\* A step that moves a call is a step of that call.
LEMMA Mover ==
  ASSUME IInv, [Next]_vars, NEW c \in Calls, phase'[c] # phase[c]
  PROVE  Run(c) \/ Disappear(c)
<1>1. ASSUME NEW d \in Calls \ {c}, Run(d) \/ Disappear(d) PROVE FALSE
  BY <1>1, StepGood DEF Footprint
<1>2. ~Person /\ ~UNCHANGED vars
  BY DEF Person, vars, callVars
<1> QED
  BY <1>1, <1>2 DEF Next, Over

\* A tree goes only by the call that cloned it, or as an idle worktree of the
\* repository it belongs to.
THEOREM OnlyOwnTreesGo == Spec => OnlyOwnRemoved
<1>1. IInv /\ [Next]_vars =>
        [\A c \in Calls :
           phase'[c] # phase[c] /\ spot.by # Nobody /\ spot'.by # spot.by =>
             \/ spot.by = c /\ ask[c].tool = "git_clone"
             \/ /\ ask[c].tool = "worktree_remove"
                /\ spot.kind = "worktree" /\ spot.repo = ask[c].repo /\ ~spot.dirty]_vars
  BY Mover, WhoRemoves
<1> QED
  BY <1>1, IInvAlways, PTL DEF Spec, OnlyOwnRemoved

\* What the guards let through is what the first source that speaks allows.
LEMMA WriterEntitled ==
  ASSUME sources \in Sources, NEW a \in Areas, MayWrite(a)
  PROVE  Entitled(a)
<1>1. /\ sources.manifest \in [Areas -> {"none", "readonly", "readwrite"}]
      /\ sources.policy.agents \in SUBSET Entry /\ sources.policy.explicit \in SUBSET Entry
  BY DEF Sources
<1>2. a \in Resolved(sources).write
  BY DEF MayWrite, grant
<1>3. CASE sources.env # {}
  BY <1>2, <1>3 DEF Resolved, Unscoped, Entitled
<1>4. CASE sources.env = {} /\ sources.policy.state = "loaded"
  <2>1. a \in FromPolicy(sources.policy).write
    BY <1>2, <1>4 DEF Resolved
  <2>2. CASE sources.policy.agents # {}
    <3>1. The(sources.policy.agents) \in sources.policy.agents
      BY <2>2 DEF The
    <3>2. The(sources.policy.agents) \in Entry
      BY <1>1, <3>1
    <3>3. FromPolicy(sources.policy).write = The(sources.policy.agents).write
      BY <2>2, <3>2 DEF FromPolicy, Entry, Grant
    <3> QED
      BY <1>4, <2>1, <3>1, <3>3 DEF Entitled
  <2>3. CASE sources.policy.agents = {} /\ sources.policy.explicit # {}
    <3>1. The(sources.policy.explicit) \in sources.policy.explicit
      BY <2>3 DEF The
    <3> QED
      BY <1>4, <2>1, <2>3, <3>1 DEF Entitled, FromPolicy
  <2>4. CASE sources.policy.agents = {} /\ sources.policy.explicit = {}
    BY <2>1, <2>4 DEF FromPolicy, Nothing, Unscoped
  <2> QED
    BY <2>2, <2>3, <2>4
<1>5. CASE sources.env = {} /\ sources.policy.state # "loaded"
  BY <1>1, <1>2, <1>5 DEF Resolved, FromManifest, Unscoped, Entitled
<1> QED
  BY <1>3, <1>4, <1>5

\* Every step that writes was let through by the guard for what it writes.
LEMMA WritesPermitted ==
  ASSUME IInv, NEW c \in Calls, Run(c) \/ Disappear(c)
  PROVE  /\ <<spot', registered'>> # <<spot, registered>> => MayWrite(area)
         /\ refs' # refs => MayWrite("personal")
<1>0. CallInv(c)
  BY DEF IInv
<1>1. CASE CloneStep(c)
  <2>1. UNCHANGED <<registered, refs>>
    BY <1>1 DEF CloneStep, StartClone, CheckDestination, MakeDir, RunClone, Inspect, Cleanup,
                Start, Refused, BadArgument, Complain, Pass, Abandon, localVars
  <2>2. CASE Cleanup(c) \/ RunClone(c) \/ MakeDir(c)
    BY <1>0, <2>1, <2>2 DEF Cleanup, RunClone, MakeDir, At, CallInv, Permitted
  <2>3. CASE StartClone(c) \/ CheckDestination(c) \/ Inspect(c)
    BY <2>1, <2>3 DEF StartClone, CheckDestination, Inspect, Start, Refused, BadArgument,
                      Complain, Pass, Abandon, localVars
  <2> QED
    BY <1>1, <2>2, <2>3 DEF CloneStep
<1>2. CASE WorktreeStep(c)
  <2>2. CASE AddBranch(c) \/ AddWorktree(c) \/ RemoveWorktree(c) \/ Prune(c)
    BY <1>0, <2>2
    DEF AddBranch, AddWorktree, RemoveWorktree, Prune, At, CallInv, Permitted, WriteBoth
  <2>3. CASE \/ StartWorktree(c) \/ ListWorktrees(c) \/ CheckAdd(c) \/ OpenWorktree(c)
             \/ LookRegistered(c)
    BY <2>3
    DEF StartWorktree, ListWorktrees, CheckAdd, OpenWorktree, LookRegistered, Start, Refused,
        BadArgument, Complain, Pass, localVars
  <2> QED
    BY <1>2, <2>2, <2>3 DEF WorktreeStep
<1>3. CASE RefsStep(c)
  <2>1. UNCHANGED <<spot, registered>>
    BY <1>3 DEF RefsStep, StartRefs, Invalid, Outside, ListBranches, CreateBranch, DeleteBranch,
                RecordBranch, LookDetached, NameBranch, Switch, CreateTag, PushTag, TagRefused,
                Start, BadArgument, Complain, Pass, RecordFirst, Return, localVars
  <2>2. CASE CreateBranch(c) \/ DeleteBranch(c) \/ Switch(c) \/ CreateTag(c)
    BY <2>1, <2>2 DEF CreateBranch, DeleteBranch, Switch, CreateTag
  <2>3. CASE PushTag(c)
    BY <1>0, <2>1, <2>3 DEF PushTag, At, CallInv, Permitted
  <2>4. CASE \/ StartRefs(c) \/ Invalid(c) \/ Outside(c) \/ ListBranches(c) \/ RecordBranch(c)
             \/ LookDetached(c) \/ NameBranch(c) \/ TagRefused(c)
    BY <2>1, <2>4
    DEF StartRefs, Invalid, Outside, ListBranches, RecordBranch, LookDetached, NameBranch,
        TagRefused, Start, BadArgument, Complain, Pass, RecordFirst, Return, localVars
  <2> QED
    BY <1>3, <2>2, <2>3, <2>4 DEF RefsStep
<1>4. CASE Finish(c) \/ Disappear(c)
  BY <1>4 DEF Finish, Disappear, localVars
<1> QED
  BY <1>1, <1>2, <1>3, <1>4 DEF Run

\* What an agent's call makes or removes is where the first source that speaks
\* lets the agent write, whichever sources there are.
THEOREM WritersAreEntitled == Spec => GrantRespected
<1>1. IInv /\ [Next]_vars =>
        [\A c \in Calls : phase'[c] # phase[c] =>
           /\ <<spot', registered'>> # <<spot, registered>> => Entitled(area)
           /\ refs' # refs => Entitled("personal")]_vars
  <2> SUFFICES ASSUME IInv, [Next]_vars, NEW c \in Calls, phase'[c] # phase[c]
               PROVE  /\ <<spot', registered'>> # <<spot, registered>> => Entitled(area)
                      /\ refs' # refs => Entitled("personal")
    OBVIOUS
  <2>1. Run(c) \/ Disappear(c)
    BY Mover
  <2>2. sources \in Sources /\ area \in Areas /\ "personal" \in Areas
    BY DEF IInv, Areas
  <2> QED
    BY <2>1, <2>2, WritesPermitted, WriterEntitled
<1> QED
  BY <1>1, IInvAlways, PTL DEF Spec, GrantRespected
===============================================================================
