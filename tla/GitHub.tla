------------------------------- MODULE GitHub -------------------------------
(***************************************************************************)
(* tools/github.py: the requests of each tool, in their order, under the   *)
(* tool's name.  The read of the repository that opens every body goes     *)
(* with the request after it.                                              *)
(***************************************************************************)
EXTENDS Hosting

\* Kind of object, first request, arguments and guards of each tool.
GitHubTools ==
  [github_create_release |-> Tool("release", "write", {{"create"}}, BadRepo),
   github_get_release |-> Tool("release", "look", {{"get"}}, BadRepo),
   github_list_releases |-> Tool("release", "look", {{"get"}}, BadRepo),
   github_release_update |-> Tool("release", "look", Edits, BadRepo),
   github_release_delete |-> Tool("release", "look", {{"delete"}}, BadRepo),
   github_pr_create |-> Tool("pull", "write", {{"create"}}, BadRepo),
   github_pr_get |-> Tool("pull", "look", {{"get"}}, BadRepo),
   github_pr_list |-> Tool("pull", "look", {{"get"}}, BadRepo),
   github_pr_comments |-> Tool("pull", "look", {{"get"}}, BadRepo),
   github_pr_update |-> Tool("pull", "look",
     {{}, {"title"}, {"ready"}, {"title", "ready"}}, BadRepo),
   github_pr_merge |-> Tool("pull", "look", {{"merge"}}, BadEnum),
   github_pr_review |-> Tool("pull", "look", {{"get"}, {"submit"}, {"dismiss"}}, BadEnum),
   github_issue_read |-> Tool("issue", "look", {{"get"}}, BadEnum),
   github_issue_write |-> Tool("issue", "look",
     {{"create"}, {"add_comment"}, {"close"}, {"reopen"}} \union
     {{"update"}, {"update", "title"}}, BadEnum),
   github_workflow_list |-> Tool("run", "look", {{"get"}}, BadRepo),
   github_workflow_status |-> Tool("run", "look", {{"get"}}, BadRepo),
   github_actions |-> Tool("run", "look",
     {{"get"}, {"dispatch"}, {"rerun"}, {"cancel"}}, BadEnum),
   github_fork |-> Tool("repo", "write", {{"create"}}, {"bad_repo_format", "invalid_argument"}),
   github_repo_get |-> Tool("repo", "look", {{"get"}}, BadEnum),
   github_repo_create |-> Tool("repo", "look", {{v} : v \in Visibilities},
     {"invalid_argument", "missing_argument"})]

(***************************************************************************)
(* Tools that only read                                                    *)
(***************************************************************************)

github_get_release(c) == At(c, "github_get_release", "look") /\ Read(c, remote.there, "finish")
github_list_releases(c) == At(c, "github_list_releases", "look") /\ Read(c, TRUE, "finish")
github_pr_get(c) == At(c, "github_pr_get", "look") /\ Read(c, remote.there, "finish")
github_pr_list(c) == At(c, "github_pr_list", "look") /\ Read(c, TRUE, "finish")
github_pr_comments(c) == At(c, "github_pr_comments", "look") /\ Read(c, remote.there, "finish")
github_workflow_list(c) == At(c, "github_workflow_list", "look") /\ Read(c, TRUE, "finish")
github_workflow_status(c) ==
  At(c, "github_workflow_status", "look") /\ Read(c, remote.there, "finish")

\* A method other than list needs an issue_number.
github_issue_read(c) ==
  /\ At(c, "github_issue_read", "look")
  /\ Read(c, remote.there, "finish") \/ Complain(c, "MissingArgument")

\* A 404 is the answer exists: false.
github_repo_get(c) == At(c, "github_repo_get", "look") /\ Read(c, TRUE, "finish")

(***************************************************************************)
(* Releases                                                                *)
(***************************************************************************)

github_create_release(c) ==
  At(c, "github_create_release", "write") /\ Write(c, Free, Create(c), "finish")

\* update_release sends every field: the ones passed, and the others as they
\* were read.
SentBack(c) == [f \in Fields |-> IF Passed(c, f) THEN c ELSE call[c].seen.field[f]]

github_release_update(c) ==
  \/ At(c, "github_release_update", "look") /\ Read(c, remote.there, "write")
  \/ /\ At(c, "github_release_update", "write")
     /\ Write(c, StillSeen(c), Set(Fields, SentBack(c)), "finish")

\* Mutant: the tag is deleted from, not the release that was read.
DeletesByTag(c) ==
  \/ At(c, "github_release_delete", "look") /\ Read(c, remote.there, "write")
  \/ At(c, "github_release_delete", "write") /\ Write(c, remote.there, Remove, "finish")

github_release_delete(c) ==
  \/ At(c, "github_release_delete", "look") /\ Read(c, remote.there, "write")
  \/ At(c, "github_release_delete", "write") /\ Write(c, StillSeen(c), Remove, "finish")

(***************************************************************************)
(* Pull requests                                                           *)
(***************************************************************************)

\* The provider allows one open pull request for a head; here there is one.
github_pr_create(c) ==
  At(c, "github_pr_create", "write") /\ Write(c, Free, Create(c), "finish")

AfterEdit(c, seen) == IF Passed(c, "ready") /\ seen.draft THEN "ready" ELSE "reread"

\* Mutant: what was asked for is believed.
TrustsTheCall(c) ==
  /\ At(c, "github_pr_update", "reread")
  /\ Read(c, remote.there, "finish")

\* The state of the pull request now, not what was asked for: marking it ready
\* may be accepted and not take effect.
Reread(c) ==
  /\ At(c, "github_pr_update", "reread")
  /\ IF Passed(c, "ready") /\ remote.draft
       THEN Complain(c, "ValueError")
       ELSE Read(c, remote.there, "finish")

\* edit, mark_ready_for_review, get_pull: the first may stay done when a later
\* one fails.
github_pr_update(c) ==
  \/ /\ At(c, "github_pr_update", "look")
     /\ IF call[c].passed = {}
          THEN Complain(c, "MissingArgument")
          ELSE \/ Read(c, remote.there,
                       IF PassedFields(c) # {} THEN "write" ELSE AfterEdit(c, remote))
               \/ PassedFields(c) # {} /\ Complain(c, "BranchNameInvalid")
  \/ /\ At(c, "github_pr_update", "write")
     /\ Write(c, remote.there, Set(PassedFields(c), By(c)), AfterEdit(c, call[c].seen))
  \/ /\ At(c, "github_pr_update", "ready")
     /\ \E still \in BOOLEAN :
          Write(c, remote.there, [remote EXCEPT !.draft = @ /\ still], "reread")
  \/ Reread(c)

github_pr_merge(c) ==
  \/ At(c, "github_pr_merge", "look") /\ Read(c, remote.there, "write")
  \/ At(c, "github_pr_merge", "write") /\ Write(c, Mergeable, Move("merged"), "finish")

\* submit_review needs an event, and mostly a body; dismiss_review a review_id
\* and a message.
github_pr_review(c) ==
  \/ /\ At(c, "github_pr_review", "look")
     /\ Read(c, remote.there, IF Passed(c, "get") THEN "finish" ELSE "write")
  \/ /\ At(c, "github_pr_review", "write")
     /\ \/ Write(c, remote.there, Add(c), "finish")
        \/ \E e \in {"MissingArgument", "InvalidArgument"} : Complain(c, e)

(***************************************************************************)
(* Issues and workflow runs                                                *)
(***************************************************************************)

\* Mutant: the body ends before it has sent anything.
AnswersEarly(c) ==
  At(c, "github_issue_write", "look") /\ Read(c, remote.there, "finish")

\* Each method lacks an argument of its own, issue_number before the read and
\* the others after it.
github_issue_write(c) ==
  \/ /\ At(c, "github_issue_write", "look")
     /\ Read(c, remote.there, "write") \/ Complain(c, "MissingArgument")
  \/ /\ At(c, "github_issue_write", "write")
     /\ \/ ~NothingToUpdate(c) /\ Write(c, remote.there, IssueAfter(c), "finish")
        \/ Complain(c, "MissingArgument")

\* PyGithub answers a refused create_dispatch, rerun, rerun_failed_jobs or cancel
\* with False, and the body finishes like after any other.
RefusalIgnored(c) ==
  /\ Goto(c, "finish")
  /\ UNCHANGED <<faults, pending, exc, answer, trail, hostVars>>

github_actions(c) ==
  \/ /\ At(c, "github_actions", "look")
     /\ \/ Read(c, remote.there, IF Passed(c, "get") THEN "finish" ELSE "write")
        \/ Complain(c, "MissingArgument")
  \/ /\ At(c, "github_actions", "write")
     /\ Write(c, remote.there, RunAfter(c), "finish") \/ RefusalIgnored(c)

(***************************************************************************)
(* Repositories                                                            *)
(***************************************************************************)

\* Forking again returns the fork there is.
github_fork(c) ==
  /\ At(c, "github_fork", "write")
  /\ Write(c, TRUE, IF remote.there THEN remote ELSE Create(c), "finish")

\* Mutant: a read-back that fails fails the call.
CreateNotConfirmed(c) ==
  /\ At(c, "github_repo_create", "readback")
  /\ Complain(c, "ValueError")

\* The visibility is read first, then whether the repository is empty: the
\* second read can fail after the first.
Confirm(c) ==
  /\ At(c, "github_repo_create", "readback")
  /\ \E failed \in BOOLEAN :
       ReadBack(c, "none", failed) \/ ReadBack(c, remote.visibility, failed)

github_repo_create(c) ==
  \/ /\ At(c, "github_repo_create", "look")
     /\ Read(c, ~remote.there, "write") \/ (remote.there /\ Complain(c, "AlreadyExists"))
  \/ At(c, "github_repo_create", "write") /\ CreatedRepo(c)
  \/ Confirm(c)

GitHubStep(c) ==
  \/ Begin(c, GitHubTools)
  \/ github_get_release(c) \/ github_list_releases(c) \/ github_pr_get(c)
  \/ github_pr_list(c) \/ github_pr_comments(c) \/ github_workflow_list(c)
  \/ github_workflow_status(c) \/ github_issue_read(c) \/ github_repo_get(c)
  \/ github_create_release(c) \/ github_release_update(c) \/ github_release_delete(c)
  \/ github_pr_create(c) \/ github_pr_update(c) \/ github_pr_merge(c)
  \/ github_pr_review(c) \/ github_issue_write(c) \/ github_actions(c)
  \/ github_fork(c) \/ github_repo_create(c)
=============================================================================
