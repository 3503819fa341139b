------------------------------- MODULE GitLab -------------------------------
(***************************************************************************)
(* tools/gitlab.py, over python-gitlab: an object is read, changed in      *)
(* memory and saved, and a save sends the attributes that were assigned.   *)
(***************************************************************************)
EXTENDS Hosting

GitLabTools ==
  [gitlab_create_release |-> Tool("release", "write", {{"create"}}, BadRepo),
   gitlab_get_release |-> Tool("release", "look", {{"get"}}, BadRepo),
   gitlab_list_releases |-> Tool("release", "look", {{"get"}}, BadRepo),
   gitlab_release_update |-> Tool("release", "look", Edits, BadRepo),
   gitlab_release_delete |-> Tool("release", "write", {{"delete"}}, BadRepo),
   gitlab_mr_create |-> Tool("pull", "write", {{"create"}}, BadRepo),
   gitlab_mr_get |-> Tool("pull", "look", {{"get"}}, BadRepo),
   gitlab_mr_list |-> Tool("pull", "look", {{"get"}}, BadRepo),
   gitlab_mr_merge |-> Tool("pull", "look", {{"merge"}}, BadRepo),
   gitlab_mr_review |-> Tool("pull", "look", {{"get"}, {"approve"}}, BadEnum),
   gitlab_issue_read |-> Tool("issue", "look", {{"get"}}, BadEnum),
   gitlab_issue_write |-> Tool("issue", "look",
     {{"create"}, {"add_comment"}, {"close"}, {"reopen"}} \union
     {{"update"}, {"update", "title"}}, BadEnum),
   gitlab_pipeline |-> Tool("run", "look",
     {{"get"}, {"dispatch"}, {"rerun"}, {"cancel"}}, BadEnum)]

(***************************************************************************)
(* Releases                                                                *)
(***************************************************************************)

gitlab_create_release(c) ==
  At(c, "gitlab_create_release", "write") /\ Write(c, Free, Create(c), "finish")

gitlab_get_release(c) == At(c, "gitlab_get_release", "look") /\ Read(c, remote.there, "finish")
gitlab_list_releases(c) == At(c, "gitlab_list_releases", "look") /\ Read(c, TRUE, "finish")

\* Mutant: the release is saved whole.
SavesWhole(c) ==
  \/ At(c, "gitlab_release_update", "look") /\ Read(c, remote.there, "write")
  \/ /\ At(c, "gitlab_release_update", "write")
     /\ Write(c, remote.there,
              Set(Fields, [f \in Fields |-> IF Passed(c, f) THEN c ELSE call[c].seen.field[f]]),
              "finish")

\* A save with nothing assigned makes no request.
gitlab_release_update(c) ==
  \/ /\ At(c, "gitlab_release_update", "look")
     /\ Read(c, remote.there, IF PassedFields(c) = {} THEN "finish" ELSE "write")
  \/ /\ At(c, "gitlab_release_update", "write")
     /\ Write(c, remote.there, Set(PassedFields(c), By(c)), "finish")

gitlab_release_delete(c) ==
  At(c, "gitlab_release_delete", "write") /\ Write(c, remote.there, Remove, "finish")

(***************************************************************************)
(* Merge requests                                                          *)
(***************************************************************************)

gitlab_mr_create(c) ==
  At(c, "gitlab_mr_create", "write") /\ Write(c, Free, Create(c), "finish")

gitlab_mr_get(c) == At(c, "gitlab_mr_get", "look") /\ Read(c, remote.there, "finish")
gitlab_mr_list(c) == At(c, "gitlab_mr_list", "look") /\ Read(c, TRUE, "finish")

gitlab_mr_merge(c) ==
  \/ At(c, "gitlab_mr_merge", "look") /\ Read(c, remote.there, "write")
  \/ At(c, "gitlab_mr_merge", "write") /\ Write(c, Mergeable, Move("merged"), "finish")

\* approve and unapprove.
gitlab_mr_review(c) ==
  \/ /\ At(c, "gitlab_mr_review", "look")
     /\ Read(c, remote.there, IF Passed(c, "get") THEN "finish" ELSE "write")
  \/ At(c, "gitlab_mr_review", "write") /\ Write(c, remote.there, Add(c), "finish")

(***************************************************************************)
(* Issues and pipelines                                                    *)
(***************************************************************************)

gitlab_issue_read(c) ==
  /\ At(c, "gitlab_issue_read", "look")
  /\ Read(c, remote.there, "finish") \/ Complain(c, "MissingArgument")

gitlab_issue_write(c) ==
  \/ /\ At(c, "gitlab_issue_write", "look")
     /\ Read(c, remote.there, "write") \/ Complain(c, "MissingArgument")
  \/ /\ At(c, "gitlab_issue_write", "write")
     /\ \/ ~NothingToUpdate(c) /\ Write(c, remote.there, IssueAfter(c), "finish")
        \/ Complain(c, "MissingArgument")

gitlab_pipeline(c) ==
  \/ /\ At(c, "gitlab_pipeline", "look")
     /\ \/ Read(c, remote.there, IF Passed(c, "get") THEN "finish" ELSE "write")
        \/ Complain(c, "MissingArgument")
  \/ At(c, "gitlab_pipeline", "write") /\ Write(c, remote.there, RunAfter(c), "finish")

GitLabStep(c) ==
  \/ Begin(c, GitLabTools)
  \/ gitlab_create_release(c) \/ gitlab_get_release(c) \/ gitlab_list_releases(c)
  \/ gitlab_release_update(c) \/ gitlab_release_delete(c) \/ gitlab_mr_create(c)
  \/ gitlab_mr_get(c) \/ gitlab_mr_list(c) \/ gitlab_mr_merge(c) \/ gitlab_mr_review(c)
  \/ gitlab_issue_read(c) \/ gitlab_issue_write(c) \/ gitlab_pipeline(c)
=============================================================================
