------------------------------- MODULE Hosting -------------------------------
(***************************************************************************)
(* What the tools of GitHub, Gitea, GitLab, Woodpecker and the registries  *)
(* share: the hosted object that calls meet at, and the requests they make *)
(* for it.  A tool body is a series of requests; everything local between  *)
(* two of them goes with the earlier one.  Other calls, and people at the  *)
(* web site, act between any two requests of a call.                       *)
(***************************************************************************)
EXTENDS ToolCall, FiniteSets

CONSTANTS
  Objects,   \* kinds of object an instance looks at
  MaxId      \* how many objects the provider may ever make under one name

Providers == {"github", "gitea", "gitlab", "woodpecker", "registry"}
Kinds == {"release", "pull", "issue", "run", "repo", "package"}

\* What each of them has.
Offers ==
  [p \in Providers |->
    CASE p = "woodpecker" -> {"run"}
      [] p = "registry" -> {"package"}
      [] p = "gitlab" -> Kinds \ {"repo", "package"}
      [] OTHER -> Kinds \ {"package"}]

ASSUME HostingAssumption == Objects \subseteq Kinds /\ MaxId \in Nat \ {0}

\* Two fields stand for title, body, base, name, description, draft flag ...
Fields == {"title", "body"}

\* What an update is passed: nothing, or one of them.  The two are alike, so
\* the other one stands for every field that is omitted.
Edits == {{}} \union {{f} : f \in Fields}

\* Who wrote a field last: a call, whoever made the object, or a person.
Authors == Calls \union {"maker", "person"}

Visibilities == {"public", "private"}

\* Methods, and the other arguments that matter.
Changes ==
  {"create", "delete", "merge", "submit", "dismiss", "approve", "add_comment", "close",
   "reopen", "dispatch", "rerun", "cancel"} \union Visibilities
Words == Changes \union Fields \union {"get", "update", "ready"}

VARIABLES
  provider,  \* whose tools the calls use
  kind,      \* what object they are about
  remote,    \* that object, as the provider has it
  call       \* what each call asks for and knows

hostVars == <<provider, kind, remote, call>>
vars == <<callVars, hostVars>>

\* id: which of the objects made under the name this is, there or deleted.
\* items: the issues, comments, reviews and runs that calls have added.
Object ==
  [there: BOOLEAN, id: 0..MaxId, field: [Fields -> Authors], state: {"open", "closed", "merged"},
   draft: BOOLEAN, items: SUBSET Calls, visibility: Visibilities]

\* tool, passed: the arguments, method and fields.  seen: what the call last
\* read.  made: requests that were done and answered.  lost: one was done and
\* not answered.
Call(tools) ==
  [tool: tools \union {"none"}, passed: SUBSET Words, seen: Object, made: 0..2, lost: BOOLEAN]

Made(id, who) ==
  [there |-> TRUE, id |-> id, field |-> [f \in Fields |-> who], state |-> "open", draft |-> FALSE,
   items |-> {}, visibility |-> "public"]

Absent == [Made(0, "maker") EXCEPT !.there = FALSE]

HostingInit ==
  /\ CallInit
  /\ kind \in Objects
  /\ \/ \E draft \in BOOLEAN :
          /\ draft => kind = "pull"
          /\ remote = [Made(1, "maker") EXCEPT !.draft = draft]
     \/ kind \in {"release", "pull", "repo", "package"} /\ remote = Absent
  /\ call = [c \in Calls |->
       [tool |-> "none", passed |-> {}, seen |-> Absent, made |-> 0, lost |-> FALSE]]

(***************************************************************************)
(* What requests do to the object                                          *)
(***************************************************************************)

Passed(c, w) == w \in call[c].passed
PassedFields(c) == call[c].passed \intersect Fields

\* PATCH: the fields sent get new values.
Set(fields, value) ==
  [remote EXCEPT !.field = [f \in Fields |-> IF f \in fields THEN value[f] ELSE remote.field[f]]]

By(c) == [f \in Fields |-> c]

Move(state) == [remote EXCEPT !.state = state]
Add(c) == [remote EXCEPT !.items = @ \union {c}]
Remove == [remote EXCEPT !.there = FALSE]
Create(c) == Made(remote.id + 1, c)
Free == ~remote.there /\ remote.id < MaxId

\* A release is named by its tag, or by the id that was read before.
StillSeen(c) == remote.there /\ remote.id = call[c].seen.id

\* Pull and merge requests that can be merged: open, and no draft.
Mergeable == remote.there /\ remote.state = "open" /\ ~remote.draft

\* The write of a method on issues, the same three services over.
IssueAfter(c) ==
  CASE Passed(c, "close") -> Move("closed")
    [] Passed(c, "reopen") -> Move("open")
    [] Passed(c, "update") -> Set(PassedFields(c), By(c))
    [] OTHER -> Add(c)

NothingToUpdate(c) == Passed(c, "update") /\ PassedFields(c) = {}

RunAfter(c) == IF Passed(c, "cancel") THEN Move("closed") ELSE Add(c)

(***************************************************************************)
(* Requests                                                                *)
(***************************************************************************)

\* Where a call waits for an answer, the read-back aside.
Waiting == {"look", "write", "ready", "reread", "logs"}

At(c, tool, p) == phase[c] = p /\ call[c].tool = tool

\* The classes a guard on the repository name, and one on a method, answer with.
BadRepo == {"bad_repo_format"}
BadEnum == {"bad_repo_format", "invalid_argument", "missing_argument"}

\* A call starts with arguments its guards let through, or is refused by one.
Begin(c, tools) ==
  \E t \in {t \in DOMAIN tools : tools[t].kind = kind} :
    \/ /\ Enter(c, tools[t].first)
       /\ \E p \in tools[t].args :
            call' = [call EXCEPT ![c].tool = t, ![c].passed = p]
       /\ UNCHANGED <<provider, kind, remote>>
    \/ /\ \E class \in tools[t].guards : audit_rejection(c, class)
       /\ UNCHANGED hostVars

Tool(k, first, args, guards) == [kind |-> k, first |-> first, args |-> args, guards |-> guards]

\* The body raises of its own accord, or because the provider's library did.
\* ValueError stands for every type that has no class of its own.
Complain(c, e) ==
  /\ Raise(c, e)
  /\ UNCHANGED <<faults, pending, answer, trail, hostVars>>

\* A read: the object as it is now, or an error.  The provider's error is a
\* ValueError whatever it was: github_call, gitlab_call and gitea_* rewrap it.
Read(c, found, then) ==
  \/ /\ found
     /\ call' = [call EXCEPT ![c].seen = remote]
     /\ Goto(c, then)
     /\ UNCHANGED <<faults, pending, exc, answer, trail, provider, kind, remote>>
  \/ Complain(c, "ValueError")

\* A write: done and answered; refused, always when it cannot be done; or done
\* with the answer lost, which the body cannot tell from a refusal.
Write(c, can, new, then) ==
  \/ /\ can
     /\ remote' = new
     /\ call' = [call EXCEPT ![c].made = @ + 1]
     /\ Goto(c, then)
     /\ UNCHANGED <<faults, pending, exc, answer, trail, provider, kind>>
  \/ /\ can
     /\ "lost" \in faults
     /\ remote' = new
     /\ call' = [call EXCEPT ![c].lost = TRUE]
     /\ Raise(c, "ValueError")
     /\ UNCHANGED <<faults, pending, answer, trail, provider, kind>>
  \/ Complain(c, "ValueError")

\* The provider may give a repository another visibility than it was asked for.
CreatedRepo(c) ==
  \E v \in Visibilities : Write(c, Free, [Create(c) EXCEPT !.visibility = v], "readback")

\* Mutant: what was read back goes into the record.
RawResult(reported, warning) == <<"ok", IF warning THEN reported ELSE "">>

\* bootstrap.readback_result: what the record says of the visibility, given
\* what was read back and whether there is a warning.
readback_result(reported, warning) ==
  <<"ok", CASE ~warning -> ""
            [] reported = "none" -> "visibility_unconfirmed"
            [] OTHER -> "visibility_mismatch">>

\* Mutant: the visibility read back is not compared.
WarnsOfFailureOnly(c, reported, failed) == failed \/ reported = "none"

\* bootstrap.readback_warning: there is one unless the read-back went through
\* and confirms the request.
readback_warning(c, reported, failed) == failed \/ reported \notin call[c].passed

\* The read-back is in a try of its own: it only changes what the record says.
ReadBack(c, reported, failed) ==
  /\ pending' = [pending EXCEPT ![c] =
       readback_result(reported, readback_warning(c, reported, failed))]
  /\ Goto(c, "finish")
  /\ UNCHANGED <<faults, exc, answer, trail, hostVars>>

\* The other side takes a request and says nothing.  A read-back that does is
\* one that failed.
Hang(c) ==
  /\ "hang" \in faults
  /\ phase[c] \in Waiting
  /\ Goto(c, "hung")
  /\ UNCHANGED <<faults, pending, exc, answer, trail, hostVars>>

\* Mutant: only the httpx clients have a timeout.
OnlyHttpxTimesOut == {"gitea", "woodpecker"}

\* PyGithub and the httpx clients give up after 15 or 30 s, and so do the programs
\* that a publish runs.  gitlab.Gitlab is made without a timeout.
TimesOut == Providers \ {"gitlab"}

GiveUp(c) ==
  /\ phase[c] = "hung"
  /\ provider \in TimesOut
  /\ Complain(c, "ValueError")

\* What the body has read goes with its frame.
Leaves(c) ==
  /\ call' = [call EXCEPT ![c].seen = Absent]
  /\ UNCHANGED <<provider, kind, remote>>

Finish(c) == (FinishOk(c) \/ FinishError(c)) /\ Leaves(c)
Disappear(c) == Vanish(c) /\ Leaves(c)

\* People edit at the web site, or delete a release and make it again.
Person ==
  /\ "web" \in faults
  /\ kind \in {"release", "pull", "issue"}
  /\ remote.there
  /\ \/ remote' = Set(Fields, By("person"))
     \/ /\ kind = "release"
        /\ remote.id < MaxId
        /\ remote' = Made(remote.id + 1, "person")
  /\ UNCHANGED <<callVars, provider, kind, call>>
=============================================================================
