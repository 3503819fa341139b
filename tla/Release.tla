------------------------------- MODULE Release -------------------------------
(***************************************************************************)
(* The release tool of tools/release.py: tag, push, provider releases,     *)
(* registries, and _rollback.  Several calls for the same version run      *)
(* against several clones of one repository: by agents in processes of     *)
(* their own, or in one process interleaving at its awaits.  Every call    *)
(* that leaves the process is a step, and may be refused, may get through  *)
(* without its answer coming back, or may be the last the process does.    *)
(***************************************************************************)
EXTENDS Naturals, Sequences

CONSTANTS
  Calls,       \* calls of release for one version
  Clones,      \* working copies they are made in
  CloneOf,     \* the repo_path of each call
  ServerOf,    \* the process each call runs in
  Requests,    \* targets a call resolves to, and repositories passed with it
  FaultSets    \* what can go wrong outside, one set in each behaviour

Providers == {"github", "gitea", "gitlab"}
Registries == {"pypi", "npm"}

\* "reject": the other side refuses.  "lost": it does what was asked but the
\* call fails all the same.  "undelete": a deletion of the rollback fails.
\* "crash": the process dies, or the awaiting task is cancelled.  "hang": a
\* step without a timeout never answers.
FaultKinds == {"reject", "lost", "undelete", "crash", "hang"}

ASSUME ReleaseAssumption ==
  /\ CloneOf \in [Calls -> Clones]
  /\ Requests \subseteq [targets: SUBSET (Providers \union Registries), repos: SUBSET Providers]
  /\ FaultSets \subseteq SUBSET FaultKinds

\* Mutant: the rollback starts with the tag.
UndoPlanTagFirst == <<"git_tag", "git_tag_pushed", "github", "gitlab", "gitea">>

\* The steps in the order of the code, and the deletions in the order of
\* _rollback.
Plan == <<"git_tag", "git_tag_pushed", "github", "gitea", "gitlab", "pypi", "npm">>
UndoPlan == <<"github", "gitlab", "gitea", "git_tag", "git_tag_pushed">>

Steps == {"git_tag", "git_tag_pushed"} \union Providers \union Registries

\* Where a step leaves its mark: the local tag in the clone of the call, every
\* other in the one remote, provider or registry.
Places == (Clones \X {"git_tag"}) \union ({"remote"} \X (Steps \ {"git_tag"}))
Place(c, s) == IF s = "git_tag" THEN <<CloneOf[c], s>> ELSE <<"remote", s>>

VARIABLES
  faults,    \* what can go wrong in this behaviour
  at,        \* "new", "forward", "rollback", "hung", or how the call ended
  next,      \* index of the next step in Plan or UndoPlan
  targets,   \* effective_targets
  repos,     \* providers whose github_repo, gitea_repo, gitlab_project was passed
  created,   \* the list created, as a set
  claims,    \* calls whose answer says rolled_back
  owner      \* which call made the tag, release or upload: {} or one call

vars == <<faults, at, next, targets, repos, created, claims, owner>>

Ended == {"done", "failed", "refused", "dead"}

Init ==
  /\ faults \in FaultSets
  /\ at = [c \in Calls |-> "new"]
  /\ next = [c \in Calls |-> 1]
  /\ targets = [c \in Calls |-> {}]
  /\ repos = [c \in Calls |-> {}]
  /\ created = [c \in Calls |-> {}]
  /\ claims = {}
  /\ owner = [p \in Places |-> {}]

(***************************************************************************)
(* Helpers                                                                 *)
(***************************************************************************)

\* A provider is released to when it is a target and its repository was passed
\* too.  One that is named alone is stepped over in silence.
Released(c) == targets[c] \intersect repos[c] \intersect Providers

Wanted(c) == {"git_tag", "git_tag_pushed"} \union Released(c) \union (targets[c] \intersect Registries)

\* A name can be taken once: git refuses a second tag, providers a second
\* release for a tag, registries a second upload of a version.
Free(p) == owner[p] = {}

\* Mutants: a failed upload rolls back; a failed provider or push does not.
EverythingFatal(s) == s \in Steps
OnlyTagsFatal(s) == s \in {"git_tag", "git_tag_pushed"}
AllButPushFatal(s) == s \notin Registries \union {"git_tag_pushed"}

\* A failed upload is logged and passed over; any other failure rolls back.
Fatal(s) == s \notin Registries

\* Mutant: the remote tag counts as created with the local one.
RecordedWithTag(c, s, ok) ==
  IF s = "git_tag" /\ ok THEN created[c] \union {s, "git_tag_pushed"}
  ELSE IF ok /\ Fatal(s) THEN created[c] \union {s} ELSE created[c]

\* A step is entered in created once it has succeeded, and only then.
Recorded(c, s, ok) == IF ok /\ Fatal(s) THEN created[c] \union {s} ELSE created[c]

\* The first wanted step of a plan from index i on: the ifs around the others
\* fall through.
From(plan, wanted, i) ==
  CHOOSE j \in i .. Len(plan) + 1 :
    /\ j = Len(plan) + 1 \/ plan[j] \in wanted
    /\ \A k \in i .. j - 1 : plan[k] \notin wanted

Advance(c) == next' = [next EXCEPT ![c] = From(Plan, Wanted(c), @ + 1)]

\* Mutant: the rollback only warns of an orphan on Gitea.
UndoableWithoutGitea(c) == created[c] \ {"gitea"}

\* Mutant: the rollback does not look at what the call created.
UndoableUnchecked(c) == Wanted(c)

\* What _rollback deletes.
Undoable(c) == created[c]

\* The failure branch: an upload is passed over, anything else starts the
\* rollback.  The answer says rolled_back unless the tag step raised, which
\* may happen to a push and always happens to a refused create_tag.
Fail(c, s) ==
  IF Fatal(s)
    THEN /\ at' = [at EXCEPT ![c] = "rollback"]
         /\ next' = [next EXCEPT ![c] = From(UndoPlan, Undoable(c), 1)]
         /\ \/ s # "git_tag" /\ claims' = claims \union {c}
            \/ s \in {"git_tag", "git_tag_pushed"} /\ UNCHANGED claims
    ELSE /\ Advance(c)
         /\ UNCHANGED <<at, claims>>

(***************************************************************************)
(* release                                                                 *)
(***************************************************************************)

\* Path, dry run, unreadable or dirty repository: an answer before any change.
\* So is a tag of that name in the clone.
Refuse(c) ==
  /\ at[c] = "new"
  /\ at' = [at EXCEPT ![c] = "refused"]
  /\ UNCHANGED <<faults, next, targets, repos, created, claims, owner>>

\* The checks pass.  The tag is looked up here and created in a later step.
Begin(c) ==
  /\ at[c] = "new"
  /\ Free(Place(c, "git_tag"))
  /\ \E r \in Requests : /\ targets' = [targets EXCEPT ![c] = r.targets]
                        /\ repos' = [repos EXCEPT ![c] = r.repos]
  /\ at' = [at EXCEPT ![c] = "forward"]
  /\ UNCHANGED <<faults, next, created, claims, owner>>

AtStep(c, s) ==
  /\ at[c] = "forward"
  /\ next[c] <= Len(Plan)
  /\ s = Plan[next[c]]

\* The step does what it should and says so.
Make(c) ==
  \E s \in Steps :
    /\ AtStep(c, s)
    /\ Free(Place(c, s))
    /\ owner' = [owner EXCEPT ![Place(c, s)] = {c}]
    /\ created' = [created EXCEPT ![c] = Recorded(c, s, TRUE)]
    /\ Advance(c)
    /\ UNCHANGED <<faults, at, targets, repos, claims>>

\* The name is taken, or the other side refuses for its own reasons.
Rejected(c) ==
  \E s \in Steps :
    /\ AtStep(c, s)
    /\ "reject" \in faults \/ ~Free(Place(c, s))
    /\ created' = [created EXCEPT ![c] = Recorded(c, s, FALSE)]
    /\ Fail(c, s)
    /\ UNCHANGED <<faults, targets, repos, owner>>

\* The other side does it, the connection fails, and the step counts as failed.
AnswerLost(c) ==
  \E s \in Steps \ {"git_tag"} :
    /\ AtStep(c, s)
    /\ "lost" \in faults
    /\ Free(Place(c, s))
    /\ owner' = [owner EXCEPT ![Place(c, s)] = {c}]
    /\ Fail(c, s)
    /\ UNCHANGED <<faults, targets, repos, created>>

Succeed(c) ==
  /\ at[c] = "forward"
  /\ next[c] = Len(Plan) + 1
  /\ at' = [at EXCEPT ![c] = "done"]
  /\ UNCHANGED <<faults, next, targets, repos, created, claims, owner>>

(***************************************************************************)
(* _rollback                                                               *)
(***************************************************************************)

\* Mutant: a deletion that fails is tried again until it works.
UndoRetried(c) ==
  /\ at[c] = "rollback"
  /\ next[c] <= Len(UndoPlan)
  /\ IF "undelete" \in faults
       THEN UNCHANGED <<next, owner>>
       ELSE /\ owner' = [owner EXCEPT ![Place(c, UndoPlan[next[c]])] = {}]
            /\ next' = [next EXCEPT ![c] = From(UndoPlan, Undoable(c), @ + 1)]
  /\ UNCHANGED <<faults, at, targets, repos, created, claims>>

\* Deletions go by the name of the tag, not by what the call created; one that
\* fails is logged and passed over.
Undo(c) ==
  /\ at[c] = "rollback"
  /\ next[c] <= Len(UndoPlan)
  /\ \/ owner' = [owner EXCEPT ![Place(c, UndoPlan[next[c]])] = {}]
     \/ "undelete" \in faults /\ UNCHANGED owner
  /\ next' = [next EXCEPT ![c] = From(UndoPlan, Undoable(c), @ + 1)]
  /\ UNCHANGED <<faults, at, targets, repos, created, claims>>

\* Mutant: a rollback that left something ends in a state nobody expects.
FinishOrphaned(c) ==
  /\ at[c] = "rollback"
  /\ next[c] = Len(UndoPlan) + 1
  /\ at' = [at EXCEPT ![c] = IF "undelete" \in faults THEN "orphaned" ELSE "failed"]
  /\ UNCHANGED <<faults, next, targets, repos, created, claims, owner>>

Finish(c) ==
  /\ at[c] = "rollback"
  /\ next[c] = Len(UndoPlan) + 1
  /\ at' = [at EXCEPT ![c] = "failed"]
  /\ UNCHANGED <<faults, next, targets, repos, created, claims, owner>>

\* Nothing of a call survives its process; nobody resumes it.
Crash(c) ==
  /\ "crash" \in faults
  /\ at[c] \in {"forward", "rollback"}
  /\ at' = [at EXCEPT ![c] = "dead"]
  /\ claims' = claims \ {c}
  /\ UNCHANGED <<faults, next, targets, repos, created, owner>>

\* The push of the tag, its deletion and the GitLab client have no timeout: when
\* the other side falls silent, whether or not it did what was asked, the call
\* stays in the step.
Untimed == {"git_tag_pushed", "gitlab"}

Hang(c) ==
  /\ "hang" \in faults
  /\ \/ \E s \in Untimed :
          /\ AtStep(c, s)
          /\ \/ UNCHANGED owner
             \/ Free(Place(c, s)) /\ owner' = [owner EXCEPT ![Place(c, s)] = {c}]
     \/ /\ at[c] = "rollback"
        /\ next[c] <= Len(UndoPlan)
        /\ UndoPlan[next[c]] \in Untimed
        /\ UNCHANGED owner \/ owner' = [owner EXCEPT ![Place(c, UndoPlan[next[c]])] = {}]
  /\ at' = [at EXCEPT ![c] = "hung"]
  /\ claims' = claims \ {c}
  /\ UNCHANGED <<faults, next, targets, repos, created>>

\* These steps block the event loop, so a call that hangs in one holds up every
\* call of its process, until somebody kills it.
Stalled(c) == \E d \in Calls : at[d] = "hung" /\ ServerOf[d] = ServerOf[c]

Work(c) ==
  \/ Make(c)
  \/ Rejected(c)
  \/ AnswerLost(c)
  \/ Succeed(c)
  \/ Undo(c)
  \/ Finish(c)

\* A call that was begun goes on, or hangs.
Run(c) == ~Stalled(c) /\ (Work(c) \/ Hang(c))

Start(c) == ~Stalled(c) /\ (Refuse(c) \/ Begin(c))

\* Every call has been answered, or never will be.
Rest ==
  /\ \A c \in Calls : at[c] \in Ended \/ Stalled(c)
  /\ UNCHANGED vars

Next ==
  \/ \E c \in Calls : Start(c) \/ Run(c) \/ Crash(c)
  \/ Rest

Spec == Init /\ [][Next]_vars

\* A call that was begun runs on as long as its process does: the GitHub and
\* Gitea clients and the upload subprocesses have timeouts, local git steps end,
\* and none waits for another call.  A push or GitLab may answer or hang; fairness
\* says only that the call does not stop between steps.
FairSpec == Spec /\ \A c \in Calls : WF_vars(Run(c))

(***************************************************************************)
(* Properties                                                              *)
(***************************************************************************)

TypeOK ==
  /\ faults \in FaultSets
  /\ at \in [Calls -> {"new", "forward", "rollback", "hung"} \union Ended]
  /\ next \in [Calls -> 1 .. 8]
  /\ targets \in [Calls -> SUBSET (Providers \union Registries)]
  /\ repos \in [Calls -> SUBSET Providers]
  /\ created \in [Calls -> SUBSET Steps]
  /\ claims \subseteq Calls
  /\ owner \in [Places -> SUBSET Calls]

\* A tag or a release goes away only by the rollback of the call that made it:
\* a rejected push never deletes the tag somebody else released with.
OnlyOwnUndone ==
  [][\A p \in Places : \A c \in owner[p] \ owner'[p] :
       at[c] = "rollback" /\ (next'[c] # next[c] \/ at'[c] = "hung")]_vars

\* Nothing is released under a tag the remote does not have: while a call runs
\* forward, and ever after it has succeeded, its remote tag stands under each
\* of its releases and uploads.
TagUnderRelease ==
  \A c \in Calls : \A s \in Providers \union Registries :
    /\ at[c] \in {"forward", "done"}
    /\ owner[<<"remote", s>>] = {c}
    => owner[<<"remote", "git_tag_pushed">>] = {c}

\* An upload cannot be taken back, so the call that made it is never rolled
\* back and keeps its tag.
UploadIsFinal ==
  \A c \in Calls :
    (\E s \in Registries : owner[<<"remote", s>>] = {c}) =>
      /\ at[c] \notin {"rollback", "failed"}
      /\ owner[<<"remote", "git_tag_pushed">>] = {c}

\* "success" means this call's release stands at every provider that was named
\* together with its repository, and nowhere else, and "urls" has exactly those.
\* It does not mean the whole of "targets": the answer repeats a provider that was
\* named without its repository, and no release was tried there.
Urls(c) == created[c] \intersect Providers
SuccessComplete ==
  \A c \in Calls : at[c] = "done" =>
    /\ Urls(c) = {s \in targets[c] \intersect Providers : s \in repos[c]}
    /\ \A s \in Providers : s \in Urls(c) <=> owner[<<"remote", s>>] = {c}

\* The tag on the remote decides between calls for one version: at most one
\* ever succeeds, whatever clone or process it runs in.
OneReleasePerVersion ==
  \A c, d \in Calls : at[c] = "done" /\ at[d] = "done" => c = d

\* When every deletion is done, a failed call leaves nothing in the way of the
\* next try but, where answers get lost, the one thing it was not told it made.
\* A call that was refused leaves nothing at all.
Residue(c) == {s \in Steps : c \in owner[Place(c, s)]}
NoResidue ==
  \A c \in Calls :
    /\ at[c] = "refused" => Residue(c) = {}
    /\ at[c] = "failed" /\ "undelete" \notin faults =>
         /\ Residue(c) # {} => "lost" \in faults
         /\ \A s, t \in Residue(c) : s = t /\ s \notin created[c]

\* A call that was begun ends, unless it or another call of its process hangs in
\* a push or in GitLab: no refusal, lost answer or failed deletion keeps it, and
\* no hanging call of another process does.
CallEnds == \A c \in Calls : at[c] \in {"forward", "rollback"} ~> at[c] \in Ended \/ Stalled(c)

\* What the docstring and the field "rolled_back" of the answer say: after a
\* failure nothing this call created is left.
RolledBackIsTrue ==
  \A c \in claims : at[c] = "failed" => \A p \in Places : c \notin owner[p]

\* The remote tag is the claim of VersionClaim: it is taken before anything is
\* published, held while releases are deleted, and given up last.
Version == INSTANCE VersionClaim
  WITH Retractable <- Providers, Final <- Registries,
       holder <- owner[<<"remote", "git_tag_pushed">>],
       out <- [t \in Providers \union Registries |-> owner[<<"remote", t>>]],
       winners <- {c \in Calls : at[c] = "done"}

ImplementsClaim == Version!ClaimSpec
=============================================================================
