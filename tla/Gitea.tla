-------------------------------- MODULE Gitea --------------------------------
(***************************************************************************)
(* tools/gitea.py: coroutines over httpx, one request each but for the     *)
(* tools that resolve a tag or look before they create.                    *)
(***************************************************************************)
EXTENDS Hosting

GiteaTools ==
  [gitea_create_release |-> Tool("release", "write", {{"create"}}, BadRepo),
   gitea_get_release |-> Tool("release", "look", {{"get"}}, BadRepo),
   gitea_list_releases |-> Tool("release", "look", {{"get"}}, BadRepo),
   gitea_release_update |->
     Tool("release", "look", Edits, {"bad_repo_format", "invalid_argument"}),
   gitea_release_delete |->
     Tool("release", "write", {{"delete"}}, {"bad_repo_format", "invalid_argument"}),
   gitea_pr_create |-> Tool("pull", "write", {{"create"}}, BadRepo),
   gitea_pr_get |-> Tool("pull", "look", {{"get"}}, BadRepo),
   gitea_pr_list |-> Tool("pull", "look", {{"get"}}, BadRepo),
   gitea_pr_comment |-> Tool("pull", "write", {{"add_comment"}}, BadRepo),
   gitea_pr_merge |-> Tool("pull", "write", {{"merge"}}, BadEnum),
   gitea_pr_review |-> Tool("pull", "write", {{"get"}, {"submit"}, {"dismiss"}}, BadEnum),
   gitea_issue_read |-> Tool("issue", "look", {{"get"}}, BadEnum),
   gitea_issue_write |-> Tool("issue", "write",
     {{"create"}, {"add_comment"}, {"close"}, {"reopen"}} \union
     {{"update"}, {"update", "title"}}, BadEnum),
   gitea_actions |-> Tool("run", "write", {{"get"}, {"dispatch"}, {"rerun"}}, BadEnum),
   gitea_repo_get |-> Tool("repo", "look", {{"get"}}, BadEnum),
   gitea_repo_create |-> Tool("repo", "look", {{v} : v \in Visibilities},
     {"invalid_argument", "missing_argument"})]

\* A method that only reads, of a tool that also writes.
ReadsOnly(c) == Passed(c, "get") /\ Read(c, remote.there, "finish")

(***************************************************************************)
(* Releases                                                                *)
(***************************************************************************)

gitea_create_release(c) ==
  At(c, "gitea_create_release", "write") /\ Write(c, Free, Create(c), "finish")

\* The first page of the list is searched: a release beyond it is not found.
gitea_get_release(c) == At(c, "gitea_get_release", "look") /\ Read(c, remote.there, "finish")
gitea_list_releases(c) == At(c, "gitea_list_releases", "look") /\ Read(c, TRUE, "finish")

\* The tag is resolved to an id, and the PATCH to the id sends what was passed.
gitea_release_update(c) ==
  \/ At(c, "gitea_release_update", "look") /\ Read(c, remote.there, "write")
  \/ /\ At(c, "gitea_release_update", "write")
     /\ Write(c, StillSeen(c), Set(PassedFields(c), By(c)), "finish")

gitea_release_delete(c) ==
  At(c, "gitea_release_delete", "write") /\ Write(c, remote.there, Remove, "finish")

(***************************************************************************)
(* Pull requests                                                           *)
(***************************************************************************)

gitea_pr_create(c) ==
  At(c, "gitea_pr_create", "write") /\ Write(c, Free, Create(c), "finish")

gitea_pr_get(c) == At(c, "gitea_pr_get", "look") /\ Read(c, remote.there, "finish")
gitea_pr_list(c) == At(c, "gitea_pr_list", "look") /\ Read(c, TRUE, "finish")

gitea_pr_comment(c) ==
  At(c, "gitea_pr_comment", "write") /\ Write(c, remote.there, Add(c), "finish")

\* Any 2xx is taken for merged.
gitea_pr_merge(c) ==
  At(c, "gitea_pr_merge", "write") /\ Write(c, Mergeable, Move("merged"), "finish")

gitea_pr_review(c) ==
  /\ At(c, "gitea_pr_review", "write")
  /\ \/ ReadsOnly(c)
     \/ /\ ~Passed(c, "get")
        /\ \/ Write(c, remote.there, Add(c), "finish")
           \/ \E e \in {"MissingArgument", "InvalidArgument"} : Complain(c, e)

(***************************************************************************)
(* Issues and runs                                                         *)
(***************************************************************************)

gitea_issue_read(c) ==
  /\ At(c, "gitea_issue_read", "look")
  /\ Read(c, remote.there, "finish") \/ Complain(c, "MissingArgument")

gitea_issue_write(c) ==
  /\ At(c, "gitea_issue_write", "write")
  /\ \/ ~NothingToUpdate(c) /\ Write(c, remote.there, IssueAfter(c), "finish")
     \/ Complain(c, "MissingArgument")

\* A workflow name that is no path segment raises a plain ValueError.
gitea_actions(c) ==
  /\ At(c, "gitea_actions", "write")
  /\ \/ ReadsOnly(c)
     \/ ~Passed(c, "get") /\ Write(c, remote.there, RunAfter(c), "finish")
     \/ Complain(c, "MissingArgument")

(***************************************************************************)
(* Repositories                                                            *)
(***************************************************************************)

gitea_repo_get(c) == At(c, "gitea_repo_get", "look") /\ Read(c, TRUE, "finish")

\* One read gives the visibility and the emptiness together.
ConfirmGitea(c) ==
  /\ At(c, "gitea_repo_create", "readback")
  /\ \/ \E failed \in BOOLEAN : ReadBack(c, "none", failed)
     \/ ReadBack(c, remote.visibility, FALSE)

\* The owner must be an organization, and the name free.
gitea_repo_create(c) ==
  \/ /\ At(c, "gitea_repo_create", "look")
     /\ \/ Complain(c, "InvalidArgument")
        \/ Read(c, ~remote.there, "write")
        \/ remote.there /\ Complain(c, "AlreadyExists")
  \/ At(c, "gitea_repo_create", "write") /\ CreatedRepo(c)
  \/ ConfirmGitea(c)

GiteaStep(c) ==
  \/ Begin(c, GiteaTools)
  \/ gitea_create_release(c) \/ gitea_get_release(c) \/ gitea_list_releases(c)
  \/ gitea_release_update(c) \/ gitea_release_delete(c) \/ gitea_pr_create(c)
  \/ gitea_pr_get(c) \/ gitea_pr_list(c) \/ gitea_pr_comment(c) \/ gitea_pr_merge(c)
  \/ gitea_pr_review(c) \/ gitea_issue_read(c) \/ gitea_issue_write(c)
  \/ gitea_actions(c) \/ gitea_repo_get(c) \/ gitea_repo_create(c)
=============================================================================
