------------------------------ MODULE Providers ------------------------------
(***************************************************************************)
(* Calls of one provider's tools meet at one object of it, under lost      *)
(* answers, time-outs, deaths, a failing audit directory, and people who   *)
(* use the web site.                                                       *)
(***************************************************************************)
EXTENDS GitHub, Gitea, GitLab, Woodpecker, Registry

CONSTANT Hosts   \* providers an instance looks at

ASSUME ProvidersAssumption == Hosts \subseteq Providers

Init == provider \in Hosts /\ HostingInit /\ kind \in Offers[provider]

\* What the code does next in a call, without what is done to it.
Run(c) ==
  \/ provider = "github" /\ GitHubStep(c)
  \/ provider = "gitea" /\ GiteaStep(c)
  \/ provider = "gitlab" /\ GitLabStep(c)
  \/ provider = "woodpecker" /\ WoodpeckerStep(c)
  \/ provider = "registry" /\ RegistryStep(c)
  \/ GiveUp(c)
  \/ Finish(c)

Over == (\A c \in Calls : phase[c] \in Ended \union {"hung"}) /\ UNCHANGED vars

Next == (\E c \in Calls : Run(c) \/ Hang(c) \/ Disappear(c)) \/ Person \/ Over

Spec == Init /\ [][Next]_vars

\* Threads and the event loop get to every call; providers answer or not.
FairSpec == Spec /\ \A c \in Calls : WF_vars(Run(c))

(***************************************************************************)
(* Properties                                                              *)
(***************************************************************************)

\* The tools there are.
Tools ==
  [github |-> GitHubTools, gitea |-> GiteaTools, gitlab |-> GitLabTools,
   woodpecker |-> WoodpeckerTools, registry |-> RegistryTools]
ToolNames == UNION {DOMAIN Tools[p] : p \in Providers}

TypeOK ==
  /\ phase \in [Calls -> Ended \union {"idle", "look", "write", "ready", "reread",
                                       "logs", "readback", "hung", "finish", "fail"}]
  /\ pending \in [Calls -> {"ok"} \X {"", "visibility_unconfirmed", "visibility_mismatch"}]
  /\ exc \in [Calls -> DOMAIN ByType \union {"none", "ValueError", "OSError"}]
  /\ answer \in [Calls -> {"none", "ok", "error", "raised"}]
  /\ \A c \in Calls : \A i \in DOMAIN trail[c] :
       ClassOf(trail[c][i].result, trail[c][i].exc) \in ReasonClasses \union {"none"}
  /\ provider \in Providers
  /\ kind \in Kinds
  /\ remote \in Object
  /\ call \in [Calls -> Call(ToolNames)]

\* Whether the arguments ask for a change that takes a request.
AsksForChange(c) == call[c].passed \intersect (Changes \union Fields) # {}

\* A success record stands for one change that the provider made and confirmed,
\* when the arguments asked for one (github_pr_update has two to make), and for
\* none when the call was to read; and a pull request is reported ready only
\* when it is.  The exception is github_actions, which does not look at what
\* PyGithub returns: it also records ok when GitHub refused the dispatch, the
\* rerun or the cancel, and made no change.
OkMeansApplied ==
  \A c \in Calls : \A i \in DOMAIN trail[c] :
    trail[c][i].result[1] = "ok" =>
      /\ AsksForChange(c) =>
           /\ ~call[c].lost
           /\ \/ call[c].made = 1
              \/ call[c].made = 2 /\ call[c].tool = "github_pr_update"
              \/ call[c].made = 0 /\ call[c].tool = "github_actions"
      /\ Passed(c, "get") => call[c].made = 0
      /\ Passed(c, "ready") => ~remote.draft

\* An error answer means that the provider changed nothing, so that a retry is
\* safe: unless its answer was lost, the record of the success could not be
\* written, or the tool makes several changes.
ErrorMeansUnchanged ==
  \A c \in Calls :
    /\ answer[c] = "error"
    /\ ~call[c].lost
    /\ \A i \in DOMAIN trail[c] : trail[c][i].result[2] # "OSError"
    /\ call[c].tool # "github_pr_update"
    => call[c].made = 0

\* The trail calls a repository plainly ok only if the provider gave it the
\* visibility that was asked for.
VisibilityTold ==
  \A c \in Calls : \A i \in DOMAIN trail[c] :
    /\ call[c].tool \in {"github_repo_create", "gitea_repo_create"}
    /\ trail[c][i].result = <<"ok", "">>
    => Passed(c, remote.visibility)

\* Whatever a step of a call changes in the object's fields, the call was
\* passed: an omitted field keeps what others have written, also when the call
\* fails half way.  The releases of GitHub are left to ReleaseFieldsKept.
FieldsKept(c) ==
  phase'[c] # phase[c] /\ remote'.id = remote.id =>
    \A f \in Fields : remote'.field[f] # remote.field[f] => f \in call[c].passed
OnlyPassedChange ==
  [][~(provider = "github" /\ kind = "release") => \A c \in Calls : FieldsKept(c)]_vars

\* What was read is what is written: a tool that resolves a tag first never
\* touches another release that has taken the tag since.
ResolvesTag == {"github_release_update", "github_release_delete", "gitea_release_update"}
WritesWhatItRead ==
  [][\A c \in Calls :
       phase'[c] # phase[c] /\ call[c].tool \in ResolvesTag /\ remote' # remote
       => remote.id = call[c].seen.id]_vars

\* Every call is answered, or its process is gone, though the provider may
\* hang; on GitLab a hung call hangs for good.
CallEnds ==
  \A c \in Calls :
    phase[c] # "idle" ~> phase[c] \in Ended \/ (phase[c] = "hung" /\ provider = "gitlab")

\* github_release_update's docstring: omitted fields keep their current values.
ReleaseFieldsKept == [][kind = "release" => \A c \in Calls : FieldsKept(c)]_vars
=============================================================================
