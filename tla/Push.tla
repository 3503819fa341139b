--------------------------------- MODULE Push ---------------------------------
(***************************************************************************)
(* git_push, git_push_force_with_lease, git_branch_delete_remote and       *)
(* git_pull of tools/git_local.py on one branch of one remote, used from   *)
(* several clones, with the verdicts of gitflags.py.  Each tool reads refs *)
(* first (the tip to report, the remote's default branch, the sha about to *)
(* be deleted) and acts on the remote in a later step; commits, rebases    *)
(* and other calls happen in between.                                      *)
(***************************************************************************)
EXTENDS Naturals

CONSTANTS
  Clones,      \* working copies of the repository
  Calls,       \* calls that may be in progress at once
  CloneOf,     \* the repo_path of each call
  HeadRef,     \* what <remote>/HEAD of each clone names, see Heads
  MaxCommits   \* bound: commits made

\* "this": the branch of the model; "other": another branch; "none": the clone
\* has no such ref.  It is from when the clone was made: no tool writes it, and a
\* fetch does not either.
Heads == {"this", "other", "none"}

ASSUME PushAssumption ==
  /\ CloneOf \in [Calls -> Clones]
  /\ HeadRef \in [Clones -> Heads]
  /\ MaxCommits \in Nat \ {0}

Commits == 1 .. MaxCommits
NoRef == 0

VARIABLES
  made,        \* commits 1 .. made exist
  past,        \* the commits reachable from each, itself included
  local,       \* tip of the branch in each clone
  track,       \* remote-tracking ref in each clone
  remote,      \* tip of the branch on the remote
  isDefault,   \* whether the remote's HEAD names this branch
  tells,       \* whether the server says what its HEAD names; some omit it
  call         \* each call in progress, with its answer once it has one

vars == <<made, past, local, track, remote, isDefault, tells, call>>

\* sha is what the answer will report, expected the argument expected_sha.
\* History: sent is what the call put on the remote, onDefault says that this was
\* the default branch then, renamed that the default changed while the call ran.
NoCall == [at |-> "idle", tool |-> "push", sha |-> NoRef, expected |-> NoRef, answer |-> "none",
           sent |-> NoRef, onDefault |-> FALSE, renamed |-> FALSE]

\* The clones start even with the remote.
Init ==
  /\ made = 1
  /\ past = [c \in Commits |-> IF c = 1 THEN {1} ELSE {}]
  /\ local = [k \in Clones |-> 1]
  /\ track = [k \in Clones |-> 1]
  /\ remote = 1
  /\ isDefault = FALSE
  /\ tells \in BOOLEAN
  /\ call = [c \in Calls |-> NoCall]

refs == <<made, past, local, track, remote>>
server == <<isDefault, tells>>

(***************************************************************************)
(* Helpers                                                                 *)
(***************************************************************************)

Begun(c, tool) ==
  [NoCall EXCEPT !.at = "read", !.tool = tool, !.sha = local[CloneOf[c]]]

\* Only an answer of success reports a sha; the argument is done with.
Answered(r, a) ==
  [r EXCEPT !.at = "idle", !.answer = a, !.expected = NoRef, !.sha = IF a \in {"ok", "deleted"} THEN @ ELSE NoRef]

Answer(c, a) == call' = [call EXCEPT ![c] = Answered(call[c], a)]

\* A push that got through: remote and tracking ref move, the call remembers.
Landed(c) ==
  LET k == CloneOf[c] IN
    /\ remote' = local[k]
    /\ track' = [track EXCEPT ![k] = local[k]]
    /\ call' = [call EXCEPT ![c].at = "reply", ![c].sent = local[k],
                            ![c].onDefault = isDefault]

FastForward(k) == remote = NoRef \/ remote \in past[local[k]]

\* What GitPython hands back for a push that did not land: an entry with an
\* error flag, no entry at all, or only good entries beside a list error.
Refusals ==
  {[flags |-> {"bad"}, error |-> FALSE], [flags |-> {}, error |-> FALSE],
   [flags |-> {"good"}, error |-> TRUE]}

\* Mutant: only the flags are looked at.
FailedByFlags(result) == "bad" \in result.flags

\* evaluate_push
Failed(result) == "bad" \in result.flags \/ result.flags = {} \/ result.error

\* Mutant: the lease is taken from the remote-tracking ref.
LeaseByTrackingRef(c) == remote # NoRef /\ remote = track[CloneOf[c]]

\* --force-with-lease=<branch>:<expected_sha>
LeaseHolds(c) == remote # NoRef /\ remote = call[c].expected

\* The branch is the default by what the clone has to say.
DefaultByClone(k) == HeadRef[k] # "other"

\* Mutant: the clone's word is taken whenever the remote has none, also when it
\* cannot be asked.
DefaultFromClone(k) == {IF tells THEN isDefault ELSE DefaultByClone(k), DefaultByClone(k)}

\* remote_default_branch: the remote's answer; the clone's, when the remote is
\* there but names no branch; and none, when the remote cannot be asked.  None
\* protects all.
DefaultAnswers(k) == {IF tells THEN isDefault ELSE DefaultByClone(k), TRUE}

(***************************************************************************)
(* Work in the clones, and the operator of the remote                      *)
(***************************************************************************)

NewCommit(k, before) ==
  /\ made < MaxCommits
  /\ made' = made + 1
  /\ past' = [past EXCEPT ![made + 1] = before \union {made + 1}]
  /\ local' = [local EXCEPT ![k] = made + 1]
  /\ UNCHANGED <<track, remote, server, call>>

\* git_commit moves the tip on.
CommitOn(k) == NewCommit(k, past[local[k]])

\* A rebase puts another commit in the place of the tip.
Rebase(k) == NewCommit(k, past[local[k]] \ {local[k]})

\* git_pull: fetch, then fast-forward, or nothing more when that is impossible.
Pull(k) ==
  /\ remote # NoRef
  /\ track' = [track EXCEPT ![k] = remote]
  /\ local' = [local EXCEPT ![k] = IF @ \in past[remote] THEN remote ELSE @]
  /\ UNCHANGED <<made, past, remote, server, call>>

\* The operator makes another branch the default; clones do not notice.
RenameDefault ==
  /\ isDefault' = ~isDefault
  /\ call' = [c \in Calls |-> [call[c] EXCEPT !.renamed = @ \/ call[c].at # "idle"]]
  /\ UNCHANGED <<refs, tells>>

(***************************************************************************)
(* git_push                                                                *)
(***************************************************************************)

\* The tip is read here and pushed in a later step.
StartPush(c) ==
  /\ call[c].at = "idle"
  /\ call' = [call EXCEPT ![c] = Begun(c, "push")]
  /\ UNCHANGED <<refs, server>>

\* The call has come to its push, with or without a lease.
AtPush(c) == <<call[c].at, call[c].tool>> \in {<<"read", "push">>, <<"lease", "lease">>}

\* Git's own conditions for moving the remote branch.
Allowed(c) == IF call[c].tool = "push" THEN FastForward(CloneOf[c]) ELSE LeaseHolds(c)

\* The push lands.
PushLands(c) ==
  /\ AtPush(c)
  /\ Allowed(c)
  /\ Landed(c)
  /\ UNCHANGED <<made, past, local, server>>

\* The push does not land, and either returns a result or raises.
PushRefused(c) ==
  /\ AtPush(c)
  /\ \/ \E result \in Refusals : Answer(c, IF Failed(result) THEN "error" ELSE "ok")
     \/ Answer(c, "error")
  /\ UNCHANGED <<refs, server>>

\* The remote takes the push and the connection fails: the call raises, and
\* the tracking ref stays behind.
PushAnswerLost(c) ==
  /\ AtPush(c)
  /\ Allowed(c)
  /\ remote' = local[CloneOf[c]]
  /\ call' = [call EXCEPT ![c] = [Answered(call[c], "error") EXCEPT !.onDefault = isDefault]]
  /\ UNCHANGED <<made, past, local, track, server>>

\* Mutant: the tip is read once more for the answer.
ReplyPushReread(c) ==
  /\ call[c].at = "reply"
  /\ call[c].tool = "push"
  /\ call' = [call EXCEPT ![c] = [Answered(call[c], "ok") EXCEPT !.sha = local[CloneOf[c]]]]
  /\ UNCHANGED <<refs, server>>

\* The sha read at the start is reported.
ReplyPush(c) ==
  /\ call[c].at = "reply"
  /\ call[c].tool = "push"
  /\ Answer(c, "ok")
  /\ UNCHANGED <<refs, server>>

(***************************************************************************)
(* git_push_force_with_lease                                               *)
(***************************************************************************)

StartLease(c) ==
  /\ call[c].at = "idle"
  /\ \E seen \in 1 .. made :
       call' = [call EXCEPT ![c] = [Begun(c, "lease") EXCEPT !.expected = seen]]
  /\ UNCHANGED <<refs, server>>

\* The default branch is refused, and so is one the remote cannot rule out.
AskDefault(c) ==
  /\ call[c].at = "read"
  /\ call[c].tool = "lease"
  /\ \E protected \in DefaultAnswers(CloneOf[c]) :
       \/ protected /\ Answer(c, "error")
       \/ ~protected /\ call' = [call EXCEPT ![c].at = "lease"]
  /\ UNCHANGED <<refs, server>>

\* What is reported is the tracking ref as it is now, if there is one.
ReplyLease(c) ==
  /\ call[c].at = "reply"
  /\ call[c].tool = "lease"
  /\ LET now == track[CloneOf[c]] IN
       call' = [call EXCEPT ![c] =
         [Answered(call[c], "ok") EXCEPT !.sha = IF now = NoRef THEN @ ELSE now]]
  /\ UNCHANGED <<refs, server>>

(***************************************************************************)
(* git_branch_delete_remote                                                *)
(***************************************************************************)

\* Mutant: a delete goes on as a push of the branch does.
LookRemoteAsPush(c) ==
  /\ call[c].at = "idle"
  /\ call' = [call EXCEPT ![c] = Begun(c, "delete")]
  /\ UNCHANGED <<refs, server>>

\* ls-remote: an absent branch is reported as such, the sha of a present one
\* is kept for the answer.
LookRemote(c) ==
  /\ call[c].at = "idle"
  /\ call' = [call EXCEPT ![c] =
       IF remote = NoRef THEN [NoCall EXCEPT !.tool = "delete", !.answer = "absent"]
       ELSE [NoCall EXCEPT !.at = "delete", !.tool = "delete", !.sha = remote]]
  /\ UNCHANGED <<refs, server>>

\* Deleting what is gone already succeeds just as well.
DeleteRemote(c) ==
  /\ call[c].at = "delete"
  /\ remote' = NoRef
  /\ track' = [track EXCEPT ![CloneOf[c]] = NoRef]
  /\ Answer(c, "deleted")
  /\ UNCHANGED <<made, past, local, server>>

\* The deletion is refused, or gets through without its answer.
DeleteFails(c) ==
  /\ call[c].at = "delete"
  /\ remote' \in {remote, NoRef}
  /\ Answer(c, "error")
  /\ UNCHANGED <<made, past, local, track, server>>

Next ==
  \/ \E k \in Clones : CommitOn(k) \/ Rebase(k) \/ Pull(k)
  \/ RenameDefault
  \/ \E c \in Calls :
       \/ StartPush(c)
       \/ PushLands(c)
       \/ PushRefused(c)
       \/ PushAnswerLost(c)
       \/ ReplyPush(c)
       \/ StartLease(c)
       \/ AskDefault(c)
       \/ ReplyLease(c)
       \/ LookRemote(c)
       \/ DeleteRemote(c)
       \/ DeleteFails(c)

Spec == Init /\ [][Next]_vars

(***************************************************************************)
(* Properties                                                              *)
(***************************************************************************)

TypeOK ==
  /\ made \in Commits
  /\ past \in [Commits -> SUBSET (1 .. made)]
  /\ local \in [Clones -> 1 .. made]
  /\ track \in [Clones -> 0 .. made]
  /\ remote \in 0 .. made
  /\ isDefault \in BOOLEAN
  /\ tells \in BOOLEAN
  /\ \A c \in Calls :
       /\ call[c].sha \in 0 .. made
       /\ call[c].sent \in 0 .. made
       /\ call[c].answer \in {"none", "ok", "error", "absent", "deleted"}
       /\ \/ call[c].at = "idle"
          \/ call[c].at \in {"read", "reply"} /\ call[c].tool \in {"push", "lease"}
          \/ call[c].at = call[c].tool /\ call[c].tool \in {"lease", "delete"}

\* A push replaces commits on the remote only if they are those the caller
\* named: whatever was pushed or fetched since, nobody's commit is overwritten
\* unseen.
OnlySeenReplaced ==
  [][remote # NoRef /\ remote' # NoRef /\ remote \notin past'[remote'] =>
       \E c \in Calls : call[c].at = "lease" /\ call'[c].at # "lease" /\ call[c].expected = remote]_vars

\* An answer of success is the remote's word: the call put a commit there.  And
\* the sha that a push reports is none the ref moved to afterwards: a commit
\* made while the call runs is named only if it was sent.
OkMeansSent ==
  \A c \in Calls : call[c].answer = "ok" =>
    /\ call[c].sent # NoRef
    /\ call[c].tool = "push" => call[c].sha <= call[c].sent

\* The remote's default branch is never rewritten, whatever a clone believes it
\* to be and whether or not the remote can be reached, unless it became the
\* default while the call was under way, or the server does not say what its
\* default is and the clone still names the one before.
DefaultProtected ==
  \A c \in Calls :
    call[c].tool = "lease" /\ call[c].onDefault =>
      call[c].renamed \/ (~tells /\ HeadRef[CloneOf[c]] = "other")
===============================================================================
