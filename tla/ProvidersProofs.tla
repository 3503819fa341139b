--------------------------- MODULE ProvidersProofs ---------------------------
(***************************************************************************)
(* Theorems about the tools of the five providers, for any number of calls *)
(* of any of their tools, any objects and every set of faults.             *)
(***************************************************************************)
EXTENDS Providers, ToolCallProofs

(***************************************************************************)
(* The inductive invariant                                                 *)
(***************************************************************************)

\* Only github_pr_update makes several changes.
Several == {"github_pr_update"}
Creators == {"github_repo_create", "gitea_repo_create"}

\* A tool of the provider, for the kind of object, with arguments it takes.
Suits(t, p) ==
  /\ t \in DOMAIN Tools[provider]
  /\ Tools[provider][t].kind = kind
  /\ p \in Tools[provider][t].args

\* What a record of a success says of the object and of the call's requests.
Earned(c, result) ==
  /\ AsksForChange(c) => call[c].made > 0 \/ call[c].tool = "github_actions"
  /\ ~call[c].lost
  /\ Passed(c, "ready") => ~remote.draft
  /\ call[c].tool \in Creators =>
       remote.there /\ (result = <<"ok", "">> => Passed(c, remote.visibility))

\* How many requests a call has made by the phase it is in.
Requests(c) ==
  /\ call[c].tool \notin Several => call[c].made <= 1
  /\ phase[c] \in Waiting \union {"idle", "hung", "readback", "finish"} => ~call[c].lost
  /\ Passed(c, "get") => call[c].made = 0
  /\ phase[c] = "write" /\ Passed(c, "get") => provider = "gitea"
  /\ phase[c] \in {"idle", "look", "write"} => call[c].made = 0
  /\ phase[c] \in {"ready", "reread", "logs", "hung"} =>
       call[c].made = 0 \/ call[c].tool \in Several
  /\ phase[c] = "ready" => call[c].tool \in Several /\ call[c].made < 2
  /\ phase[c] \in {"ready", "reread", "readback"} /\ AsksForChange(c) => call[c].made > 0
  /\ phase[c] = "readback" => call[c].tool \in Creators /\ remote.there
  /\ phase[c] = "finish" => Earned(c, pending[c])
  /\ phase[c] = "fail" =>
       call[c].made = 0 \/ call[c].lost \/ exc[c] = "OSError" \/ call[c].tool \in Several

\* A call has one record at the end, if any.
Records(c) ==
  /\ trail[c] # <<>> => phase[c] = "done"
  /\ \A i \in DOMAIN trail[c] : trail[c][i].result[1] = "ok" => Earned(c, trail[c][i].result)
  /\ /\ answer[c] = "error" /\ ~call[c].lost /\ call[c].tool \notin Several
     /\ \A i \in DOMAIN trail[c] : trail[c][i].result[2] # "OSError"
     => call[c].made = 0

\* A call that its guards have let through has a tool of the provider.
Running(c) == phase[c] \notin {"idle", "done"} \/ call[c].tool # "none"

CallInv(c) ==
  /\ Running(c) => Suits(call[c].tool, call[c].passed)
  /\ ~Running(c) => call[c].passed = {} /\ call[c].made = 0
  /\ phase[c] = "idle" => ~Running(c)
  /\ Requests(c)
  /\ Records(c)

\* Only releases are deleted.
Lasting == kind # "release" /\ ~remote.there => remote.id = 0

IInv ==
  /\ TypeOK
  /\ TellInv
  /\ Lasting
  /\ \A c \in Calls : CallInv(c)

(***************************************************************************)
(* The tables of tools                                                     *)
(***************************************************************************)

Refusals == ReasonClasses \ {"other"}

\* What every tool's entry is like.
Entries(tools) ==
  \A t \in DOMAIN tools :
    /\ tools[t].first \in {"look", "write"}
    /\ tools[t].guards \subseteq Refusals
    /\ \A p \in tools[t].args : p \subseteq Words
    /\ \A p \in tools[t].args : "ready" \in p => t \in Several

\* No tool but those of Gitea starts with a write when it is to read.
LooksFirst(tools) ==
  \A t \in DOMAIN tools : tools[t].first = "write" => \A p \in tools[t].args : "get" \notin p

LEMMA WordsAre ==
  Words = {"create", "delete", "merge", "submit", "dismiss", "approve", "add_comment", "close",
           "reopen", "dispatch", "rerun", "cancel", "public", "private", "title", "body", "get",
           "update", "ready"}
BY DEF Words, Changes, Fields, Visibilities

LEMMA GuardsAre ==
  /\ BadRepo \subseteq Refusals /\ BadEnum \subseteq Refusals
  /\ {"bad_repo_format", "invalid_argument"} \subseteq Refusals
  /\ {"invalid_argument", "missing_argument"} \subseteq Refusals
  /\ {} \subseteq Refusals
BY DEF BadRepo, BadEnum, Refusals, ReasonClasses

LEMMA RegistryEntries == Entries(RegistryTools)
BY WordsAre, GuardsAre DEF Entries, RegistryTools, Tool

LEMMA WoodpeckerEntries == Entries(WoodpeckerTools)
BY WordsAre, GuardsAre DEF Entries, WoodpeckerTools, Tool

LEMMA GitLabEntries == Entries(GitLabTools)
<1> SUFFICES ASSUME NEW t \in DOMAIN GitLabTools
             PROVE  /\ GitLabTools[t].first \in {"look", "write"}
                    /\ GitLabTools[t].guards \subseteq Refusals
                    /\ \A p \in GitLabTools[t].args : p \subseteq Words
                    /\ \A p \in GitLabTools[t].args : "ready" \in p => t \in Several
  BY DEF Entries
<1>1. GitLabTools[t].first \in {"look", "write"}
  BY DEF GitLabTools, Tool
<1>2. GitLabTools[t].guards \subseteq Refusals
  BY GuardsAre DEF GitLabTools, Tool
<1>3. \A p \in GitLabTools[t].args : p \subseteq Words
  BY WordsAre DEF GitLabTools, Tool, Edits, Fields, Visibilities
<1>4. \A p \in GitLabTools[t].args : "ready" \in p => t \in Several
  BY DEF GitLabTools, Tool, Edits, Fields, Visibilities, Several
<1> QED
  BY <1>1, <1>2, <1>3, <1>4

LEMMA GiteaEntries == Entries(GiteaTools)
<1> SUFFICES ASSUME NEW t \in DOMAIN GiteaTools
             PROVE  /\ GiteaTools[t].first \in {"look", "write"}
                    /\ GiteaTools[t].guards \subseteq Refusals
                    /\ \A p \in GiteaTools[t].args : p \subseteq Words
                    /\ \A p \in GiteaTools[t].args : "ready" \in p => t \in Several
  BY DEF Entries
<1>1. GiteaTools[t].first \in {"look", "write"}
  BY DEF GiteaTools, Tool
<1>2. GiteaTools[t].guards \subseteq Refusals
  BY GuardsAre DEF GiteaTools, Tool
<1>3. \A p \in GiteaTools[t].args : p \subseteq Words
  BY WordsAre DEF GiteaTools, Tool, Edits, Fields, Visibilities
<1>4. \A p \in GiteaTools[t].args : "ready" \in p => t \in Several
  BY DEF GiteaTools, Tool, Edits, Fields, Visibilities, Several
<1> QED
  BY <1>1, <1>2, <1>3, <1>4

LEMMA GitHubEntries == Entries(GitHubTools)
<1> SUFFICES ASSUME NEW t \in DOMAIN GitHubTools
             PROVE  /\ GitHubTools[t].first \in {"look", "write"}
                    /\ GitHubTools[t].guards \subseteq Refusals
                    /\ \A p \in GitHubTools[t].args : p \subseteq Words
                    /\ \A p \in GitHubTools[t].args : "ready" \in p => t \in Several
  BY DEF Entries
<1>1. GitHubTools[t].first \in {"look", "write"}
  BY DEF GitHubTools, Tool
<1>2. GitHubTools[t].guards \subseteq Refusals
  BY GuardsAre DEF GitHubTools, Tool
<1>3. \A p \in GitHubTools[t].args : p \subseteq Words
  BY SMTT(60), WordsAre DEF GitHubTools, Tool, Edits, Fields, Visibilities
<1>4. \A p \in GitHubTools[t].args : "ready" \in p => t \in Several
  <2> SUFFICES ASSUME NEW p \in GitHubTools[t].args, "ready" \in p, t # "github_pr_update"
               PROVE  FALSE
    BY DEF Several
  <2> QED
    BY SMTT(60) DEF GitHubTools, Tool, Edits, Fields, Visibilities
<1> QED
  BY <1>1, <1>2, <1>3, <1>4


LEMMA NoneIsNoTool == \A p \in Providers : "none" \notin DOMAIN Tools[p]
BY DEF Providers, Tools, GitHubTools, GiteaTools, GitLabTools, WoodpeckerTools, RegistryTools

LEMMA CreatorsMakeRepos ==
  \A p \in Providers : \A t \in DOMAIN Tools[p] \intersect Creators : Tools[p][t].kind = "repo"
<1>1. \A t \in DOMAIN GitHubTools \intersect Creators : GitHubTools[t].kind = "repo"
  BY DEF GitHubTools, Creators, Tool
<1>2. \A t \in DOMAIN GiteaTools \intersect Creators : GiteaTools[t].kind = "repo"
  BY DEF GiteaTools, Creators, Tool
<1>3. \A tools \in {GitLabTools, WoodpeckerTools, RegistryTools} :
        DOMAIN tools \intersect Creators = {}
  BY DEF GitLabTools, WoodpeckerTools, RegistryTools, Creators, Tool
<1> QED
  BY <1>1, <1>2, <1>3 DEF Tools, Providers

LEMMA GitHubLooksFirst == LooksFirst(GitHubTools)
BY DEF LooksFirst, GitHubTools, Tool, Edits, Fields, Visibilities

LEMMA OthersLookFirst ==
  LooksFirst(GitLabTools) /\ LooksFirst(WoodpeckerTools) /\ LooksFirst(RegistryTools)
BY DEF LooksFirst, GitLabTools, WoodpeckerTools, RegistryTools, Tool, Edits, Fields, Visibilities

(***************************************************************************)
(* The shapes of steps                                                     *)
(***************************************************************************)

Raised == DOMAIN ByType \union {"ValueError"}

Complains(c) == phase[c] \in Waiting \union {"hung"} /\ \E e \in Raised : Complain(c, e)

\* Where a read may lead.
AfterLook(c, then) ==
  \/ then = "write" /\ phase[c] = "look" /\ ~Passed(c, "get")
  \/ then = "logs" /\ phase[c] = "reread" /\ Passed(c, "get")
  \/ then = "ready" /\ phase[c] = "look" /\ call[c].tool \in Several /\ PassedFields(c) = {}
  \/ then = "reread" /\ phase[c] = "look" /\ ~AsksForChange(c)
  \/ /\ then = "finish"
     /\ ~AsksForChange(c) \/ phase[c] = "reread"
     /\ Passed(c, "ready") => ~remote.draft
     /\ call[c].tool \notin Creators

Looks(c) ==
  /\ phase[c] \in Waiting
  /\ call' = [call EXCEPT ![c].seen = remote]
  /\ \E then : Goto(c, then) /\ AfterLook(c, then)
  /\ UNCHANGED <<faults, pending, exc, answer, trail, provider, kind, remote>>

\* What a write may do to the object, and where it may lead.
Fits(c) ==
  /\ ~Passed(c, "get")
  /\ remote' \in Object
  /\ remote'.draft => remote.draft
  /\ kind = "repo" /\ remote.there => remote' = remote
  /\ kind # "release" /\ ~remote'.there => remote'.id = 0
  /\ ~(provider = "github" /\ kind = "release") /\ remote'.id = remote.id =>
       \A f \in Fields : remote'.field[f] # remote.field[f] => Passed(c, f)
  /\ call[c].tool \in ResolvesTag => remote.id = call[c].seen.id

AfterWrite(c, then) ==
  \/ then = "finish" /\ call[c].tool \notin Creators /\ ~Passed(c, "ready")
  \/ then = "readback" /\ call[c].tool \in Creators /\ remote'.there
  \/ then \in {"ready", "reread"} /\ call[c].tool \in Several /\ (then = "ready" => phase[c] = "write")

Sends(c, then) ==
  /\ \/ call' = [call EXCEPT ![c].made = @ + 1] /\ Goto(c, then) /\ UNCHANGED exc
     \/ call' = [call EXCEPT ![c].lost = TRUE] /\ Raise(c, "ValueError")
  /\ UNCHANGED <<faults, pending, answer, trail, provider, kind>>

Writes(c) ==
  /\ phase[c] \in {"write", "ready"}
  /\ Fits(c)
  /\ \E then : Sends(c, then) /\ AfterWrite(c, then)

Confirms(c) ==
  /\ phase[c] = "readback"
  /\ \E reported \in {"none", remote.visibility}, failed \in BOOLEAN : ReadBack(c, reported, failed)

Refuses(c) ==
  /\ phase[c] \in Waiting /\ call[c].tool \notin Several
  /\ \E detail : AnswerInBody(c, detail) /\ UNCHANGED hostVars

Ignores(c) ==
  /\ phase[c] = "write" /\ call[c].tool = "github_actions" /\ ~Passed(c, "ready")
  /\ RefusalIgnored(c)

Begins(c) ==
  \/ /\ \E first \in {"look", "write"} : Enter(c, first)
     /\ \E t, p :
          /\ Suits(t, p)
          /\ phase'[c] = "write" /\ "get" \in p => provider = "gitea"
          /\ call' = [call EXCEPT ![c].tool = t, ![c].passed = p]
     /\ UNCHANGED <<provider, kind, remote>>
  \/ \E class \in Refusals : audit_rejection(c, class) /\ UNCHANGED hostVars

Shape(c) ==
  \/ Begins(c) \/ Complains(c) \/ Looks(c) \/ Writes(c) \/ Confirms(c) \/ Refuses(c)
  \/ Ignores(c)

\* A call in a body has a tool of the provider.
LEMMA InBody ==
  ASSUME IInv, NEW c \in Calls, phase[c] \notin {"idle", "done"}
  PROVE  Suits(call[c].tool, call[c].passed)
BY DEF IInv, CallInv, Running

LEMMA RaisedAre ==
  {"ValueError", "InvalidArgument", "MissingArgument", "BranchNameInvalid", "AlreadyExists",
   "PathNotAllowed"} \subseteq Raised
BY DEF Raised, ByType

\* A tool that is passed nothing but get reads, fails, or goes on to read.
LEMMA GetsShape ==
  ASSUME NEW c \in Calls, phase[c] \in Waiting, call[c].passed = {"get"},
         call[c].tool \notin Creators, NEW found, NEW then, Read(c, found, then),
         \/ then = "finish"
         \/ then = "reread" /\ phase[c] = "look"
         \/ then = "logs" /\ phase[c] = "reread"
  PROVE  Complains(c) \/ Looks(c)
<1>1. Passed(c, "get") /\ ~Passed(c, "ready") /\ ~AsksForChange(c)
  BY DEF Passed, AsksForChange, Changes, Fields, Visibilities
<1>2. AfterLook(c, then)
  BY <1>1 DEF AfterLook
<1> QED
  BY <1>2, RaisedAre DEF Read, Looks, Complains

(***************************************************************************)
(* What writes send                                                        *)
(***************************************************************************)

\* An object edited in place, only where the call was passed something.
Edited(c, new) ==
  /\ new \in Object /\ new.id = remote.id /\ new.there = remote.there
  /\ new.draft => remote.draft
  /\ \A f \in Fields : new.field[f] # remote.field[f] => Passed(c, f)

LEMMA MoveEdits ==
  ASSUME IInv, NEW c \in Calls, NEW state \in {"open", "closed", "merged"}
  PROVE  Edited(c, Move(state))
BY DEF IInv, TypeOK, Object, Edited, Move

LEMMA AddEdits ==
  ASSUME IInv, NEW c \in Calls
  PROVE  Edited(c, Add(c))
BY DEF IInv, TypeOK, Object, Edited, Add

LEMMA SetEdits ==
  ASSUME IInv, NEW c \in Calls
  PROVE  Edited(c, Set(PassedFields(c), By(c)))
<1> DEFINE new == [f \in Fields |-> IF f \in PassedFields(c) THEN By(c)[f] ELSE remote.field[f]]
<1>1. remote \in Object
  BY DEF IInv, TypeOK
<1>2. new \in [Fields -> Authors]
  BY <1>1 DEF Object, By, Authors
<1>3. \A f \in Fields : new[f] # remote.field[f] => Passed(c, f)
  BY DEF PassedFields, Passed
<1>4. Set(PassedFields(c), By(c)) = [remote EXCEPT !.field = new]
  BY DEF Set
<1> HIDE DEF new
<1> QED
  BY <1>1, <1>2, <1>3, <1>4 DEF Edited, Object

LEMMA IssueEdits ==
  ASSUME IInv, NEW c \in Calls
  PROVE  Edited(c, IssueAfter(c))
BY MoveEdits, AddEdits, SetEdits DEF IssueAfter

LEMMA RunEdits ==
  ASSUME IInv, NEW c \in Calls
  PROVE  Edited(c, RunAfter(c))
BY MoveEdits, AddEdits DEF RunAfter

LEMMA EditFits ==
  ASSUME IInv, NEW c \in Calls, Edited(c, remote'), kind # "repo", ~Passed(c, "get"),
         call[c].tool \in ResolvesTag => StillSeen(c)
  PROVE  Fits(c)
BY DEF IInv, Lasting, Edited, Fits, StillSeen

LEMMA MadeIs ==
  ASSUME NEW id \in 0..MaxId, NEW who \in Authors
  PROVE  /\ Made(id, who) \in Object /\ Made(id, who).id = id
         /\ ~Made(id, who).draft /\ Made(id, who).there
<1> DEFINE fields == [f \in Fields |-> who]
<1>1. fields \in [Fields -> Authors]
  OBVIOUS
<1>2. Made(id, who) = [there |-> TRUE, id |-> id, field |-> fields, state |-> "open",
                       draft |-> FALSE, items |-> {}, visibility |-> "public"]
  BY DEF Made
<1> HIDE DEF fields
<1> QED
  BY <1>1, <1>2 DEF Object, Visibilities

\* An object made anew.
LEMMA CreateFits ==
  ASSUME IInv, NEW c \in Calls, Free,
         \/ remote' = Create(c)
         \/ \E v \in Visibilities : remote' = [Create(c) EXCEPT !.visibility = v],
         ~Passed(c, "get"), call[c].tool \notin ResolvesTag
  PROVE  Fits(c) /\ remote'.there
<1>0. remote.id \in 0..MaxId
  BY DEF IInv, TypeOK, Object
<1>1. remote.id \in Nat /\ remote.id + 1 \in 0..MaxId
  BY <1>0, HostingAssumption DEF Free
<1>2. /\ remote' \in Object /\ remote'.id = remote.id + 1 /\ ~remote'.draft /\ remote'.there
  <2>1. /\ Create(c) \in Object /\ Create(c).id = remote.id + 1
        /\ ~Create(c).draft /\ Create(c).there
    BY <1>1, MadeIs DEF Create, Authors
  <2>2. ASSUME NEW v \in Visibilities, NEW o \in Object, NEW n, n = [o EXCEPT !.visibility = v]
        PROVE  n \in Object /\ n.id = o.id /\ n.draft = o.draft /\ n.there = o.there
    BY <2>2 DEF Object
  <2> QED
    BY <2>1, <2>2
<1>3. remote'.id # remote.id
  BY <1>1, <1>2
<1> QED
  BY <1>2, <1>3 DEF Fits, Free

\* A release deleted.
LEMMA RemoveFits ==
  ASSUME IInv, NEW c \in Calls, remote' = Remove, kind = "release", ~Passed(c, "get"),
         call[c].tool \in ResolvesTag => StillSeen(c)
  PROVE  Fits(c)
<1>1. /\ remote' \in Object /\ remote'.id = remote.id /\ remote'.draft = remote.draft
      /\ remote'.field = remote.field
  BY DEF IInv, TypeOK, Object, Remove
<1> QED
  BY <1>1 DEF Fits, StillSeen

LEMMA ComplaintShape ==
  ASSUME NEW c \in Calls, NEW e \in Raised, phase[c] \in Waiting, Complain(c, e)
  PROVE  Shape(c)
BY DEF Shape, Complains

LEMMA SentShape ==
  ASSUME NEW c \in Calls, NEW then, phase[c] \in {"write", "ready"}, Sends(c, then), Fits(c),
         AfterWrite(c, then)
  PROVE  Shape(c)
BY DEF Shape, Writes

\* Every tool may go from its first request to its write.
LEMMA LookShape ==
  ASSUME NEW c \in Calls, phase[c] = "look", ~Passed(c, "get"), NEW found, Read(c, found, "write")
  PROVE  Shape(c)
<1>1. Complain(c, "ValueError") \/ Looks(c)
  BY DEF Read, Looks, AfterLook, Waiting
<1> QED
  BY <1>1, ComplaintShape, RaisedAre DEF Shape, Waiting

LEMMA CreateShape ==
  ASSUME IInv, NEW c \in Calls, phase[c] = "write", call[c].passed = {"create"},
         call[c].tool \notin Creators \union ResolvesTag,
         Sends(c, "finish"), Free, remote' = Create(c)
  PROVE  Shape(c)
BY CreateFits, SentShape DEF AfterWrite, Passed

LEMMA EditShape ==
  ASSUME IInv, NEW c \in Calls, phase[c] = "write", call[c].passed \intersect {"get", "ready"} = {},
         call[c].tool \notin Creators, call[c].tool \in ResolvesTag => StillSeen(c),
         kind # "repo", Sends(c, "finish"), Edited(c, remote')
  PROVE  Shape(c)
BY EditFits, SentShape DEF AfterWrite, Passed

LEMMA RemoveShape ==
  ASSUME IInv, NEW c \in Calls, phase[c] = "write", call[c].passed = {"delete"},
         call[c].tool \notin Creators, call[c].tool \in ResolvesTag => StillSeen(c),
         kind = "release", Sends(c, "finish"), remote' = Remove
  PROVE  Shape(c)
BY RemoveFits, SentShape DEF AfterWrite, Passed

\* The repository that is created has a visibility of the provider's choice.
LEMMA CreatedShape ==
  ASSUME IInv, NEW c \in Calls, phase[c] = "write", ~Passed(c, "get"), call[c].tool \in Creators,
         CreatedRepo(c)
  PROVE  Shape(c)
<1>1. \/ Complain(c, "ValueError")
      \/ /\ Sends(c, "readback") /\ Free
         /\ \E v \in Visibilities : remote' = [Create(c) EXCEPT !.visibility = v]
  BY DEF CreatedRepo, Write, Sends
<1>2. call[c].tool \notin ResolvesTag
  BY DEF Creators, ResolvesTag
<1> QED
  BY <1>1, <1>2, CreateFits, SentShape, ComplaintShape, RaisedAre DEF AfterWrite, Waiting

\* The start of a call.
LEMMA BeginShape ==
  ASSUME IInv, NEW c \in Calls, Entries(Tools[provider]), Begin(c, Tools[provider]),
         provider = "gitea" \/ LooksFirst(Tools[provider])
  PROVE  Shape(c)
<1>1. PICK t \in DOMAIN Tools[provider] :
        /\ Tools[provider][t].kind = kind
        /\ \/ /\ Enter(c, Tools[provider][t].first)
              /\ \E p \in Tools[provider][t].args :
                   call' = [call EXCEPT ![c].tool = t, ![c].passed = p]
              /\ UNCHANGED <<provider, kind, remote>>
           \/ /\ \E class \in Tools[provider][t].guards : audit_rejection(c, class)
              /\ UNCHANGED hostVars
  BY DEF Begin
<1>2. CASE /\ Enter(c, Tools[provider][t].first)
           /\ \E p \in Tools[provider][t].args :
                call' = [call EXCEPT ![c].tool = t, ![c].passed = p]
           /\ UNCHANGED <<provider, kind, remote>>
  <2>1. phase'[c] = Tools[provider][t].first
    BY <1>2 DEF Enter, Goto, IInv, TypeOK
  <2> QED
    BY <1>1, <1>2, <2>1 DEF LooksFirst, Entries, Shape, Begins, Suits
<1> QED
  BY <1>1, <1>2 DEF Entries, Shape, Begins

(***************************************************************************)
(* GitHub                                                                  *)
(***************************************************************************)

LEMMA GitHubReads ==
  ASSUME IInv, provider = "github", NEW c \in Calls,
         \/ github_get_release(c) \/ github_list_releases(c) \/ github_pr_get(c)
         \/ github_pr_list(c) \/ github_pr_comments(c) \/ github_workflow_list(c)
         \/ github_workflow_status(c) \/ github_issue_read(c) \/ github_repo_get(c)
  PROVE  Shape(c)
<1> DEFINE readers ==
      {"github_get_release", "github_list_releases", "github_pr_get", "github_pr_list",
       "github_pr_comments", "github_workflow_list", "github_workflow_status",
       "github_issue_read", "github_repo_get"}
<1>3. \A t \in readers : GitHubTools[t].args = {{"get"}}
  BY DEF GitHubTools, Tool
<1>4. phase[c] = "look" /\ call[c].tool \in readers
  BY DEF At, github_get_release, github_list_releases, github_pr_get,
    github_pr_list, github_pr_comments, github_workflow_list, github_workflow_status,
    github_issue_read, github_repo_get
<1>5. call[c].passed \in GitHubTools[call[c].tool].args
  BY <1>4, InBody DEF Suits, Tools
<1>1. phase[c] = "look" /\ call[c].passed = {"get"} /\ call[c].tool \notin Creators
  BY <1>3, <1>4, <1>5 DEF Creators
<1>2. (\E found : Read(c, found, "finish")) \/ Complain(c, "MissingArgument")
  BY DEF github_get_release, github_list_releases, github_pr_get,
    github_pr_list, github_pr_comments, github_workflow_list, github_workflow_status,
    github_issue_read, github_repo_get
<1> QED
  BY <1>1, <1>2, GetsShape, RaisedAre DEF Shape, Complains, Waiting

LEMMA GitHubKnows ==
  ASSUME IInv, provider = "github", NEW c \in Calls, phase[c] \notin {"idle", "done"}
  PROVE  /\ call[c].tool \in DOMAIN GitHubTools
         /\ call[c].passed \in GitHubTools[call[c].tool].args
         /\ GitHubTools[call[c].tool].kind = kind
BY InBody DEF Suits, Tools

LEMMA GitHubCreates ==
  ASSUME IInv, provider = "github", NEW c \in Calls,
         github_create_release(c) \/ github_pr_create(c)
  PROVE  Shape(c)
<1> DEFINE tools == {"github_create_release", "github_pr_create"}
<1>1. phase[c] = "write" /\ call[c].tool \in tools
  BY DEF github_create_release, github_pr_create, At
<1>2. \A t \in tools : GitHubTools[t].args = {{"create"}}
  BY DEF GitHubTools, Tool
<1>3. /\ call[c].tool \notin Creators \union ResolvesTag
      /\ call[c].passed = {"create"}
  BY <1>1, <1>2, GitHubKnows DEF Creators, ResolvesTag
<1>4. Complain(c, "ValueError") \/ (Sends(c, "finish") /\ Free /\ remote' = Create(c))
  BY DEF github_create_release, github_pr_create, Write, Sends
<1> QED
  BY <1>1, <1>3, <1>4, CreateShape, ComplaintShape, RaisedAre DEF Waiting

LEMMA GitHubReleases ==
  ASSUME IInv, provider = "github", NEW c \in Calls,
         github_release_update(c) \/ github_release_delete(c)
  PROVE  Shape(c)
<1>1. /\ GitHubTools["github_release_update"].kind = "release"
      /\ GitHubTools["github_release_update"].args = Edits
      /\ GitHubTools["github_release_delete"].kind = "release"
      /\ GitHubTools["github_release_delete"].args = {{"delete"}}
  BY DEF GitHubTools, Tool
<1>2. CASE phase[c] = "look"
  <2>1. /\ call[c].tool \in {"github_release_update", "github_release_delete"}
        /\ \E found : Read(c, found, "write")
    BY <1>2 DEF github_release_update, github_release_delete, At
  <2>2. ~Passed(c, "get")
    BY <1>1, <1>2, <2>1, GitHubKnows DEF Edits, Fields, Passed
  <2> QED
    BY <1>2, <2>1, <2>2, LookShape
<1>3. CASE At(c, "github_release_update", "write")
  <2>1. kind = "release" /\ ~Passed(c, "get") /\ ~Passed(c, "ready")
    BY <1>1, <1>3, GitHubKnows DEF At, Edits, Fields, Passed
  <2>2. \/ Complain(c, "ValueError")
        \/ Sends(c, "finish") /\ StillSeen(c) /\ remote' = Set(Fields, SentBack(c))
    BY <1>3 DEF github_release_update, github_release_delete, At, Write, Sends
  <2>3. /\ Set(Fields, SentBack(c)) \in Object
        /\ Set(Fields, SentBack(c)).id = remote.id
        /\ Set(Fields, SentBack(c)).draft = remote.draft
    <3> DEFINE new == [f \in Fields |-> IF f \in Fields THEN SentBack(c)[f] ELSE remote.field[f]]
    <3>1. remote \in Object /\ call[c].seen.field \in [Fields -> Authors]
      BY DEF IInv, TypeOK, Call, Object
    <3>2. new \in [Fields -> Authors]
      BY <3>1 DEF SentBack, Authors
    <3>3. Set(Fields, SentBack(c)) = [remote EXCEPT !.field = new]
      BY DEF Set
    <3> HIDE DEF new
    <3> QED
      BY <3>1, <3>2, <3>3 DEF Object
  <2>4. CASE Sends(c, "finish") /\ StillSeen(c) /\ remote' = Set(Fields, SentBack(c))
    <3>1. Fits(c)
      BY <2>1, <2>3, <2>4 DEF Fits, StillSeen
    <3> QED
      BY <1>3, <2>1, <2>4, <3>1, SentShape DEF AfterWrite, At, Creators
  <2> QED
    BY <1>3, <2>2, <2>4, ComplaintShape, RaisedAre DEF At, Waiting
<1>4. CASE At(c, "github_release_delete", "write")
  <2>1. kind = "release" /\ call[c].passed = {"delete"}
    BY <1>1, <1>4, GitHubKnows DEF At
  <2>2. \/ Complain(c, "ValueError")
        \/ Sends(c, "finish") /\ StillSeen(c) /\ remote' = Remove
    BY <1>4 DEF github_release_update, github_release_delete, At, Write, Sends
  <2> QED
    BY <1>4, <2>1, <2>2, RemoveShape, ComplaintShape, RaisedAre DEF At, Waiting, Creators
<1> QED
  BY <1>2, <1>3, <1>4 DEF github_release_update, github_release_delete, At

LEMMA GitHubPullUpdates ==
  ASSUME IInv, provider = "github", NEW c \in Calls, github_pr_update(c)
  PROVE  Shape(c)
<1>1. /\ GitHubTools["github_pr_update"].kind = "pull"
      /\ GitHubTools["github_pr_update"].args = {{}, {"title"}, {"ready"}, {"title", "ready"}}
  BY DEF GitHubTools, Tool
<1>2. /\ call[c].tool = "github_pr_update" /\ phase[c] \in {"look", "write", "ready", "reread"}
      /\ phase[c] \in Waiting
  BY DEF github_pr_update, Reread, At, Waiting
<1>3. kind = "pull" /\ call[c].passed \in {{}, {"title"}, {"ready"}, {"title", "ready"}}
  BY <1>1, <1>2, GitHubKnows
<1>4. /\ ~Passed(c, "get") /\ call[c].tool \notin Creators \union ResolvesTag
      /\ call[c].tool \in Several
      /\ AsksForChange(c) <=> PassedFields(c) # {}
  BY <1>2, <1>3 DEF Passed, Creators, ResolvesTag, Several, AsksForChange, PassedFields, Changes,
                    Fields, Visibilities
<1>5. CASE phase[c] = "look"
  <2>1. \/ \E e \in Raised : Complain(c, e)
        \/ \E found : Read(c, found, IF PassedFields(c) # {} THEN "write" ELSE AfterEdit(c, remote))
    BY <1>5, RaisedAre DEF github_pr_update, Reread, At
  <2>2. AfterLook(c, IF PassedFields(c) # {} THEN "write" ELSE AfterEdit(c, remote))
    BY <1>4, <1>5 DEF AfterLook, AfterEdit
  <2> QED
    BY <1>2, <2>1, <2>2, ComplaintShape, RaisedAre DEF Read, Shape, Looks
<1>6. CASE phase[c] = "write"
  <2>1. \/ Complain(c, "ValueError")
        \/ /\ Sends(c, AfterEdit(c, call[c].seen)) /\ remote' = Set(PassedFields(c), By(c))
    BY <1>6 DEF github_pr_update, Reread, At, Write, Sends
  <2>2. AfterWrite(c, AfterEdit(c, call[c].seen))
    BY <1>4, <1>6 DEF AfterWrite, AfterEdit
  <2>3. remote' = Set(PassedFields(c), By(c)) => Fits(c)
    BY <1>3, <1>4, SetEdits, EditFits
  <2> QED
    BY <1>2, <1>6, <2>1, <2>2, <2>3, SentShape, ComplaintShape, RaisedAre
<1>7. CASE phase[c] = "ready"
  <2>1. \/ Complain(c, "ValueError")
        \/ /\ Sends(c, "reread")
           /\ \E still \in BOOLEAN : remote' = [remote EXCEPT !.draft = @ /\ still]
    BY <1>7 DEF github_pr_update, Reread, At, Write, Sends
  <2>2. ASSUME NEW still \in BOOLEAN, remote' = [remote EXCEPT !.draft = @ /\ still]
        PROVE  Fits(c)
    <3>1. Edited(c, remote')
      BY <2>2 DEF Edited, IInv, TypeOK, Object
    <3> QED
      BY <1>3, <1>4, <3>1, EditFits
  <2> QED
    BY <1>2, <1>4, <1>7, <2>1, <2>2, SentShape, ComplaintShape, RaisedAre DEF AfterWrite
<1>8. CASE phase[c] = "reread"
  <2>1. Complain(c, "ValueError") \/ (Looks(c) /\ ~(Passed(c, "ready") /\ remote.draft))
    BY <1>2, <1>4, <1>8 DEF github_pr_update, Reread, At, Read, Looks, AfterLook
  <2> QED
    BY <1>2, <2>1, ComplaintShape, RaisedAre DEF Shape
<1> QED
  BY <1>2, <1>5, <1>6, <1>7, <1>8

LEMMA GitHubPullsAndIssues ==
  ASSUME IInv, provider = "github", NEW c \in Calls,
         \/ github_pr_merge(c) \/ github_pr_review(c) \/ github_issue_write(c) \/ github_actions(c)
  PROVE  Shape(c)
<1> DEFINE tools == {"github_pr_merge", "github_pr_review", "github_issue_write", "github_actions"}
<1>1. /\ \A t \in tools : GitHubTools[t].kind # "repo"
      /\ \A t \in tools : \A p \in GitHubTools[t].args : "get" \in p => p = {"get"}
      /\ \A t \in tools : \A p \in GitHubTools[t].args : "ready" \notin p
      /\ \A p \in GitHubTools["github_pr_merge"].args \union GitHubTools["github_issue_write"].args :
           "get" \notin p
  BY DEF GitHubTools, Tool
<1>2. call[c].tool \in tools /\ phase[c] \in {"look", "write"}
  BY DEF github_pr_merge, github_pr_review, github_issue_write, github_actions, At
<1>3. /\ kind # "repo" /\ ~Passed(c, "ready")
      /\ Passed(c, "get") => call[c].passed = {"get"}
      /\ call[c].tool \in {"github_pr_merge", "github_issue_write"} => ~Passed(c, "get")
      /\ call[c].tool \notin Creators \union ResolvesTag
  BY <1>1, <1>2, GitHubKnows DEF Passed, Creators, ResolvesTag
<1>4. CASE phase[c] = "look"
  <2>1. \/ Complain(c, "MissingArgument")
        \/ ~Passed(c, "get") /\ \E found : Read(c, found, "write")
        \/ Passed(c, "get") /\ \E found : Read(c, found, "finish")
    BY <1>3, <1>4 DEF github_pr_merge, github_pr_review, github_issue_write, github_actions, At
  <2>2. CASE ~Passed(c, "get") /\ \E found : Read(c, found, "write")
    BY <1>4, <2>2, LookShape
  <2>3. CASE Passed(c, "get") /\ \E found : Read(c, found, "finish")
    BY <1>3, <1>4, <2>3, GetsShape DEF Shape, Waiting
  <2> QED
    BY <1>4, <2>1, <2>2, <2>3, ComplaintShape, RaisedAre DEF Waiting
<1>5. CASE phase[c] = "write"
  <2>1. call[c].passed \intersect {"get", "ready"} = {}
    BY <1>3, <1>5 DEF IInv, CallInv, Requests, Passed
  <2>2. \/ \E e \in Raised : Complain(c, e)
        \/ /\ Sends(c, "finish")
           /\ remote' \in {Move("merged"), Add(c), IssueAfter(c), RunAfter(c)}
        \/ call[c].tool = "github_actions" /\ RefusalIgnored(c)
    BY <1>5, RaisedAre
    DEF github_pr_merge, github_pr_review, github_issue_write, github_actions, At, Write, Sends
  <2>3. ASSUME remote' \in {Move("merged"), Add(c), IssueAfter(c), RunAfter(c)}
        PROVE  Edited(c, remote')
    BY <2>3, MoveEdits, AddEdits, IssueEdits, RunEdits
  <2> QED
    BY <1>3, <1>5, <2>1, <2>2, <2>3, EditShape, ComplaintShape DEF Waiting, Ignores, Shape
<1> QED
  BY <1>2, <1>4, <1>5

LEMMA GitHubRepos ==
  ASSUME IInv, provider = "github", NEW c \in Calls, github_fork(c) \/ github_repo_create(c)
  PROVE  Shape(c)
<1>1. /\ GitHubTools["github_fork"].kind = "repo"
      /\ GitHubTools["github_fork"].args = {{"create"}}
      /\ GitHubTools["github_repo_create"].kind = "repo"
      /\ GitHubTools["github_repo_create"].args = {{v} : v \in Visibilities}
  BY DEF GitHubTools, Tool
<1>2. CASE github_fork(c)
  <2>1. call[c].tool = "github_fork" /\ phase[c] = "write"
    BY <1>2 DEF github_fork, At
  <2>2. kind = "repo" /\ call[c].passed = {"create"}
    BY <1>1, <2>1, GitHubKnows
  <2>3. \/ Complain(c, "ValueError")
        \/ Sends(c, "finish") /\ remote.there /\ remote' = remote
        \/ Sends(c, "finish") /\ ~remote.there /\ remote' = Create(c)
    BY <1>2 DEF github_fork, Write, Sends
  <2>4. CASE Sends(c, "finish") /\ remote.there /\ remote' = remote
    <3>1. Fits(c)
      BY <2>1, <2>2, <2>4 DEF Fits, Passed, IInv, TypeOK, ResolvesTag
    <3> QED
      BY <2>1, <2>2, <2>4, <3>1, SentShape DEF AfterWrite, Creators, Passed
  <2>5. CASE Sends(c, "finish") /\ ~remote.there /\ remote' = Create(c)
    <3>1. Free
      BY <2>2, <2>5, HostingAssumption DEF Free, IInv, Lasting
    <3> QED
      BY <2>1, <2>2, <2>5, <3>1, CreateShape DEF Creators, ResolvesTag
  <2> QED
    BY <2>1, <2>3, <2>4, <2>5, ComplaintShape, RaisedAre DEF Waiting
<1>3. CASE github_repo_create(c)
  <2>1. call[c].tool = "github_repo_create" /\ phase[c] \in {"look", "write", "readback"}
    BY <1>3 DEF github_repo_create, Confirm, At
  <2>2. kind = "repo" /\ ~Passed(c, "get")
    BY <1>1, <2>1, GitHubKnows DEF Visibilities, Passed
  <2>3. CASE phase[c] = "look"
    <3>1. Complain(c, "AlreadyExists") \/ \E found : Read(c, found, "write")
      BY <1>3, <2>3 DEF github_repo_create, Confirm, At
    <3> QED
      BY <2>2, <2>3, <3>1, LookShape, ComplaintShape, RaisedAre DEF Waiting
  <2>4. CASE phase[c] = "write"
    BY <1>3, <2>1, <2>2, <2>4, CreatedShape DEF github_repo_create, Confirm, At, Creators
  <2>5. CASE phase[c] = "readback"
    BY <1>3, <2>5 DEF github_repo_create, Confirm, At, Confirms, Shape
  <2> QED
    BY <2>1, <2>3, <2>4, <2>5
<1> QED
  BY <1>2, <1>3

LEMMA GitHubShape ==
  ASSUME IInv, provider = "github", NEW c \in Calls, GitHubStep(c)
  PROVE  Shape(c)
BY GitHubEntries, GitHubLooksFirst, BeginShape, GitHubReads, GitHubCreates, GitHubReleases, GitHubPullUpdates,
   GitHubPullsAndIssues, GitHubRepos DEF GitHubStep, Tools

(***************************************************************************)
(* Gitea                                                                   *)
(***************************************************************************)

LEMMA GiteaKnows ==
  ASSUME IInv, provider = "gitea", NEW c \in Calls, phase[c] \notin {"idle", "done"}
  PROVE  /\ call[c].tool \in DOMAIN GiteaTools
         /\ call[c].passed \in GiteaTools[call[c].tool].args
         /\ GiteaTools[call[c].tool].kind = kind
BY InBody DEF Suits, Tools

LEMMA GiteaReads ==
  ASSUME IInv, provider = "gitea", NEW c \in Calls,
         \/ gitea_get_release(c) \/ gitea_list_releases(c) \/ gitea_pr_get(c) \/ gitea_pr_list(c)
         \/ gitea_issue_read(c) \/ gitea_repo_get(c)
  PROVE  Shape(c)
<1> DEFINE readers ==
      {"gitea_get_release", "gitea_list_releases", "gitea_pr_get", "gitea_pr_list",
       "gitea_issue_read", "gitea_repo_get"}
<1>1. \A t \in readers : GiteaTools[t].args = {{"get"}}
  BY DEF GiteaTools, Tool
<1>2. phase[c] = "look" /\ call[c].tool \in readers
  BY DEF At, gitea_get_release, gitea_list_releases, gitea_pr_get, gitea_pr_list,
         gitea_issue_read, gitea_repo_get
<1>3. call[c].passed = {"get"} /\ call[c].tool \notin Creators
  BY <1>1, <1>2, GiteaKnows DEF Creators
<1>4. (\E found : Read(c, found, "finish")) \/ Complain(c, "MissingArgument")
  BY DEF gitea_get_release, gitea_list_releases, gitea_pr_get, gitea_pr_list,
         gitea_issue_read, gitea_repo_get
<1> QED
  BY <1>2, <1>3, <1>4, GetsShape, ComplaintShape, RaisedAre DEF Shape, Waiting

LEMMA GiteaCreates ==
  ASSUME IInv, provider = "gitea", NEW c \in Calls,
         gitea_create_release(c) \/ gitea_pr_create(c)
  PROVE  Shape(c)
<1> DEFINE tools == {"gitea_create_release", "gitea_pr_create"}
<1>1. phase[c] = "write" /\ call[c].tool \in tools
  BY DEF gitea_create_release, gitea_pr_create, At
<1>2. \A t \in tools : GiteaTools[t].args = {{"create"}}
  BY DEF GiteaTools, Tool
<1>3. call[c].tool \notin Creators \union ResolvesTag /\ call[c].passed = {"create"}
  BY <1>1, <1>2, GiteaKnows DEF Creators, ResolvesTag
<1>4. Complain(c, "ValueError") \/ (Sends(c, "finish") /\ Free /\ remote' = Create(c))
  BY DEF gitea_create_release, gitea_pr_create, Write, Sends
<1> QED
  BY <1>1, <1>3, <1>4, CreateShape, ComplaintShape, RaisedAre DEF Waiting

LEMMA GiteaReleases ==
  ASSUME IInv, provider = "gitea", NEW c \in Calls,
         gitea_release_update(c) \/ gitea_release_delete(c)
  PROVE  Shape(c)
<1>1. /\ GiteaTools["gitea_release_update"].kind = "release"
      /\ GiteaTools["gitea_release_update"].args = Edits
      /\ GiteaTools["gitea_release_delete"].kind = "release"
      /\ GiteaTools["gitea_release_delete"].args = {{"delete"}}
  BY DEF GiteaTools, Tool
<1>2. CASE gitea_release_update(c)
  <2>1. call[c].tool = "gitea_release_update" /\ phase[c] \in {"look", "write"}
    BY <1>2 DEF gitea_release_update, At
  <2>2. kind = "release" /\ call[c].passed \intersect {"get", "ready"} = {}
    BY <1>1, <2>1, GiteaKnows DEF Edits, Fields
  <2>3. CASE phase[c] = "look"
    <3>1. \E found : Read(c, found, "write")
      BY <1>2, <2>3 DEF gitea_release_update, At
    <3> QED
      BY <2>2, <2>3, <3>1, LookShape DEF Passed
  <2>4. CASE phase[c] = "write"
    <3>1. \/ Complain(c, "ValueError")
          \/ Sends(c, "finish") /\ StillSeen(c) /\ remote' = Set(PassedFields(c), By(c))
      BY <1>2, <2>4 DEF gitea_release_update, At, Write, Sends
    <3> QED
      BY <2>1, <2>2, <2>4, <3>1, SetEdits, EditShape, ComplaintShape, RaisedAre
      DEF Creators, Waiting
  <2> QED
    BY <2>1, <2>3, <2>4
<1>3. CASE gitea_release_delete(c)
  <2>1. call[c].tool = "gitea_release_delete" /\ phase[c] = "write"
    BY <1>3 DEF gitea_release_delete, At
  <2>2. kind = "release" /\ call[c].passed = {"delete"}
    BY <1>1, <2>1, GiteaKnows
  <2>3. Complain(c, "ValueError") \/ (Sends(c, "finish") /\ remote' = Remove)
    BY <1>3 DEF gitea_release_delete, Write, Sends
  <2> QED
    BY <2>1, <2>2, <2>3, RemoveShape, ComplaintShape, RaisedAre DEF Creators, ResolvesTag, Waiting
<1> QED
  BY <1>2, <1>3

LEMMA GiteaWrites ==
  ASSUME IInv, provider = "gitea", NEW c \in Calls,
         \/ gitea_pr_comment(c) \/ gitea_pr_merge(c) \/ gitea_pr_review(c)
         \/ gitea_issue_write(c) \/ gitea_actions(c)
  PROVE  Shape(c)
<1> DEFINE tools ==
      {"gitea_pr_comment", "gitea_pr_merge", "gitea_pr_review", "gitea_issue_write",
       "gitea_actions"}
<1>1. /\ \A t \in tools : GiteaTools[t].kind # "repo"
      /\ \A t \in tools : \A p \in GiteaTools[t].args : "get" \in p => p = {"get"}
      /\ \A t \in tools : \A p \in GiteaTools[t].args : "ready" \notin p
      /\ \A t \in {"gitea_pr_comment", "gitea_pr_merge", "gitea_issue_write"} :
           \A p \in GiteaTools[t].args : "get" \notin p
  <2>1. \A t \in tools : GiteaTools[t].kind # "repo"
    BY DEF GiteaTools, Tool
  <2>2. \A t \in tools : \A p \in GiteaTools[t].args : "get" \in p => p = {"get"}
    BY DEF GiteaTools, Tool
  <2>3. \A t \in tools : \A p \in GiteaTools[t].args : "ready" \notin p
    BY DEF GiteaTools, Tool
  <2>4. \A t \in {"gitea_pr_comment", "gitea_pr_merge", "gitea_issue_write"} :
          \A p \in GiteaTools[t].args : "get" \notin p
    BY DEF GiteaTools, Tool
  <2> QED
    BY <2>1, <2>2, <2>3, <2>4
<1>2. call[c].tool \in tools /\ phase[c] = "write"
  BY DEF gitea_pr_comment, gitea_pr_merge, gitea_pr_review, gitea_issue_write, gitea_actions, At
<1>3. /\ kind # "repo" /\ ~Passed(c, "ready")
      /\ Passed(c, "get") => call[c].passed = {"get"}
      /\ call[c].tool \in {"gitea_pr_comment", "gitea_pr_merge", "gitea_issue_write"} =>
           ~Passed(c, "get")
      /\ call[c].tool \notin Creators \union ResolvesTag
  BY <1>1, <1>2, GiteaKnows DEF Passed, Creators, ResolvesTag
<1>4. \/ \E e \in Raised : Complain(c, e)
      \/ Passed(c, "get") /\ \E found : Read(c, found, "finish")
      \/ /\ Sends(c, "finish") /\ ~Passed(c, "get")
         /\ remote' \in {Move("merged"), Add(c), IssueAfter(c), RunAfter(c)}
  BY <1>3, RaisedAre
  DEF gitea_pr_comment, gitea_pr_merge, gitea_pr_review, gitea_issue_write, gitea_actions, At,
      ReadsOnly, Write, Sends
<1>5. ASSUME remote' \in {Move("merged"), Add(c), IssueAfter(c), RunAfter(c)}
      PROVE  Edited(c, remote')
  BY <1>5, MoveEdits, AddEdits, IssueEdits, RunEdits
<1>6. CASE Passed(c, "get") /\ \E found : Read(c, found, "finish")
  BY <1>2, <1>3, <1>6, GetsShape DEF Shape, Waiting
<1>7. CASE /\ Sends(c, "finish") /\ ~Passed(c, "get")
           /\ remote' \in {Move("merged"), Add(c), IssueAfter(c), RunAfter(c)}
  BY <1>2, <1>3, <1>5, <1>7, EditShape DEF Passed
<1> QED
  BY <1>2, <1>4, <1>6, <1>7, ComplaintShape DEF Waiting

LEMMA GiteaRepos ==
  ASSUME IInv, provider = "gitea", NEW c \in Calls, gitea_repo_create(c)
  PROVE  Shape(c)
<1>1. /\ GiteaTools["gitea_repo_create"].kind = "repo"
      /\ GiteaTools["gitea_repo_create"].args = {{v} : v \in Visibilities}
  BY DEF GiteaTools, Tool
<1>2. call[c].tool = "gitea_repo_create" /\ phase[c] \in {"look", "write", "readback"}
  BY DEF gitea_repo_create, ConfirmGitea, At
<1>3. ~Passed(c, "get")
  BY <1>1, <1>2, GiteaKnows DEF Visibilities, Passed
<1>4. CASE phase[c] = "look"
  <2>1. \/ \E e \in Raised : Complain(c, e)
        \/ \E found : Read(c, found, "write")
    BY <1>4, RaisedAre DEF gitea_repo_create, ConfirmGitea, At
  <2> QED
    BY <1>3, <1>4, <2>1, LookShape, ComplaintShape DEF Waiting
<1>5. CASE phase[c] = "write"
  BY <1>2, <1>3, <1>5, CreatedShape DEF gitea_repo_create, ConfirmGitea, At, Creators
<1>6. CASE phase[c] = "readback"
  BY <1>6 DEF gitea_repo_create, ConfirmGitea, At, Confirms, Shape
<1> QED
  BY <1>2, <1>4, <1>5, <1>6

LEMMA GiteaShape ==
  ASSUME IInv, provider = "gitea", NEW c \in Calls, GiteaStep(c)
  PROVE  Shape(c)
BY GiteaEntries, BeginShape, GiteaReads, GiteaCreates, GiteaReleases, GiteaWrites, GiteaRepos
DEF GiteaStep, Tools

(***************************************************************************)
(* GitLab                                                                  *)
(***************************************************************************)

LEMMA GitLabKnows ==
  ASSUME IInv, provider = "gitlab", NEW c \in Calls, phase[c] \notin {"idle", "done"}
  PROVE  /\ call[c].tool \in DOMAIN GitLabTools
         /\ call[c].passed \in GitLabTools[call[c].tool].args
         /\ GitLabTools[call[c].tool].kind = kind
BY InBody DEF Suits, Tools

LEMMA GitLabReads ==
  ASSUME IInv, provider = "gitlab", NEW c \in Calls,
         \/ gitlab_get_release(c) \/ gitlab_list_releases(c) \/ gitlab_mr_get(c)
         \/ gitlab_mr_list(c) \/ gitlab_issue_read(c)
  PROVE  Shape(c)
<1> DEFINE readers ==
      {"gitlab_get_release", "gitlab_list_releases", "gitlab_mr_get", "gitlab_mr_list",
       "gitlab_issue_read"}
<1>1. \A t \in readers : GitLabTools[t].args = {{"get"}}
  BY DEF GitLabTools, Tool
<1>2. phase[c] = "look" /\ call[c].tool \in readers
  BY DEF At, gitlab_get_release, gitlab_list_releases, gitlab_mr_get, gitlab_mr_list,
         gitlab_issue_read
<1>3. call[c].passed = {"get"} /\ call[c].tool \notin Creators
  BY <1>1, <1>2, GitLabKnows DEF Creators
<1>4. (\E found : Read(c, found, "finish")) \/ Complain(c, "MissingArgument")
  BY DEF gitlab_get_release, gitlab_list_releases, gitlab_mr_get, gitlab_mr_list,
         gitlab_issue_read
<1> QED
  BY <1>2, <1>3, <1>4, GetsShape, ComplaintShape, RaisedAre DEF Shape, Waiting

LEMMA GitLabCreates ==
  ASSUME IInv, provider = "gitlab", NEW c \in Calls,
         gitlab_create_release(c) \/ gitlab_mr_create(c)
  PROVE  Shape(c)
<1> DEFINE tools == {"gitlab_create_release", "gitlab_mr_create"}
<1>1. phase[c] = "write" /\ call[c].tool \in tools
  BY DEF gitlab_create_release, gitlab_mr_create, At
<1>2. \A t \in tools : GitLabTools[t].args = {{"create"}}
  BY DEF GitLabTools, Tool
<1>3. call[c].tool \notin Creators \union ResolvesTag /\ call[c].passed = {"create"}
  BY <1>1, <1>2, GitLabKnows DEF Creators, ResolvesTag
<1>4. Complain(c, "ValueError") \/ (Sends(c, "finish") /\ Free /\ remote' = Create(c))
  BY DEF gitlab_create_release, gitlab_mr_create, Write, Sends
<1> QED
  BY <1>1, <1>3, <1>4, CreateShape, ComplaintShape, RaisedAre DEF Waiting

LEMMA GitLabReleases ==
  ASSUME IInv, provider = "gitlab", NEW c \in Calls,
         gitlab_release_update(c) \/ gitlab_release_delete(c)
  PROVE  Shape(c)
<1>1. /\ GitLabTools["gitlab_release_update"].kind = "release"
      /\ GitLabTools["gitlab_release_update"].args = Edits
      /\ GitLabTools["gitlab_release_delete"].kind = "release"
      /\ GitLabTools["gitlab_release_delete"].args = {{"delete"}}
  BY DEF GitLabTools, Tool
<1>2. CASE gitlab_release_update(c)
  <2>1. call[c].tool = "gitlab_release_update" /\ phase[c] \in {"look", "write"}
    BY <1>2 DEF gitlab_release_update, At
  <2>2. kind = "release" /\ call[c].passed \in {{}, {"title"}, {"body"}}
    BY <1>1, <2>1, GitLabKnows DEF Edits, Fields
  <2>3. CASE phase[c] = "look"
    <3>1. \/ PassedFields(c) = {} /\ \E found : Read(c, found, "finish")
          \/ PassedFields(c) # {} /\ \E found : Read(c, found, "write")
      BY <1>2, <2>3 DEF gitlab_release_update, At
    <3>2. CASE PassedFields(c) = {} /\ \E found : Read(c, found, "finish")
      <4>1. call[c].passed = {}
        BY <2>2, <3>2 DEF PassedFields, Fields
      <4>2. AfterLook(c, "finish")
        BY <2>1, <4>1 DEF AfterLook, AsksForChange, Passed, Creators
      <4> QED
        BY <2>3, <3>2, <4>2, ComplaintShape, RaisedAre DEF Read, Looks, Shape, Waiting
    <3>3. CASE PassedFields(c) # {} /\ \E found : Read(c, found, "write")
      BY <2>2, <2>3, <3>3, LookShape DEF Passed
    <3> QED
      BY <3>1, <3>2, <3>3
  <2>4. CASE phase[c] = "write"
    <3>1. \/ Complain(c, "ValueError")
          \/ Sends(c, "finish") /\ remote' = Set(PassedFields(c), By(c))
      BY <1>2, <2>4 DEF gitlab_release_update, At, Write, Sends
    <3> QED
      BY <2>1, <2>2, <2>4, <3>1, SetEdits, EditShape, ComplaintShape, RaisedAre
      DEF Creators, ResolvesTag, Waiting
  <2> QED
    BY <2>1, <2>3, <2>4
<1>3. CASE gitlab_release_delete(c)
  <2>1. call[c].tool = "gitlab_release_delete" /\ phase[c] = "write"
    BY <1>3 DEF gitlab_release_delete, At
  <2>2. kind = "release" /\ call[c].passed = {"delete"}
    BY <1>1, <2>1, GitLabKnows
  <2>3. Complain(c, "ValueError") \/ (Sends(c, "finish") /\ remote' = Remove)
    BY <1>3 DEF gitlab_release_delete, Write, Sends
  <2> QED
    BY <2>1, <2>2, <2>3, RemoveShape, ComplaintShape, RaisedAre DEF Creators, ResolvesTag, Waiting
<1> QED
  BY <1>2, <1>3

LEMMA GitLabWrites ==
  ASSUME IInv, provider = "gitlab", NEW c \in Calls,
         \/ gitlab_mr_merge(c) \/ gitlab_mr_review(c) \/ gitlab_issue_write(c) \/ gitlab_pipeline(c)
  PROVE  Shape(c)
<1> DEFINE tools == {"gitlab_mr_merge", "gitlab_mr_review", "gitlab_issue_write", "gitlab_pipeline"}
<1>1. /\ \A t \in tools : GitLabTools[t].kind # "repo"
      /\ \A t \in tools : \A p \in GitLabTools[t].args : "get" \in p => p = {"get"}
      /\ \A t \in tools : \A p \in GitLabTools[t].args : "ready" \notin p
      /\ \A t \in {"gitlab_mr_merge", "gitlab_issue_write"} :
           \A p \in GitLabTools[t].args : "get" \notin p
  BY DEF GitLabTools, Tool
<1>2. call[c].tool \in tools /\ phase[c] \in {"look", "write"}
  BY DEF gitlab_mr_merge, gitlab_mr_review, gitlab_issue_write, gitlab_pipeline, At
<1>3. /\ kind # "repo" /\ ~Passed(c, "ready")
      /\ Passed(c, "get") => call[c].passed = {"get"}
      /\ call[c].tool \in {"gitlab_mr_merge", "gitlab_issue_write"} => ~Passed(c, "get")
      /\ call[c].tool \notin Creators \union ResolvesTag
  BY <1>1, <1>2, GitLabKnows DEF Passed, Creators, ResolvesTag
<1>4. CASE phase[c] = "look"
  <2>1. \/ Complain(c, "MissingArgument")
        \/ ~Passed(c, "get") /\ \E found : Read(c, found, "write")
        \/ Passed(c, "get") /\ \E found : Read(c, found, "finish")
    BY <1>3, <1>4 DEF gitlab_mr_merge, gitlab_mr_review, gitlab_issue_write, gitlab_pipeline, At
  <2>2. CASE ~Passed(c, "get") /\ \E found : Read(c, found, "write")
    BY <1>4, <2>2, LookShape
  <2>3. CASE Passed(c, "get") /\ \E found : Read(c, found, "finish")
    BY <1>3, <1>4, <2>3, GetsShape DEF Shape, Waiting
  <2> QED
    BY <1>4, <2>1, <2>2, <2>3, ComplaintShape, RaisedAre DEF Waiting
<1>5. CASE phase[c] = "write"
  <2>1. call[c].passed \intersect {"get", "ready"} = {}
    BY <1>3, <1>5 DEF IInv, CallInv, Requests, Passed
  <2>2. \/ \E e \in Raised : Complain(c, e)
        \/ /\ Sends(c, "finish")
           /\ remote' \in {Move("merged"), Add(c), IssueAfter(c), RunAfter(c)}
    BY <1>5, RaisedAre
    DEF gitlab_mr_merge, gitlab_mr_review, gitlab_issue_write, gitlab_pipeline, At, Write, Sends
  <2>3. ASSUME remote' \in {Move("merged"), Add(c), IssueAfter(c), RunAfter(c)}
        PROVE  Edited(c, remote')
    BY <2>3, MoveEdits, AddEdits, IssueEdits, RunEdits
  <2> QED
    BY <1>3, <1>5, <2>1, <2>2, <2>3, EditShape, ComplaintShape DEF Waiting
<1> QED
  BY <1>2, <1>4, <1>5

LEMMA GitLabShape ==
  ASSUME IInv, provider = "gitlab", NEW c \in Calls, GitLabStep(c)
  PROVE  Shape(c)
BY GitLabEntries, OthersLookFirst, BeginShape, GitLabReads, GitLabCreates, GitLabReleases, GitLabWrites
DEF GitLabStep, Tools

(***************************************************************************)
(* Woodpecker and the registries                                           *)
(***************************************************************************)

LEMMA WoodpeckerShape ==
  ASSUME IInv, provider = "woodpecker", NEW c \in Calls, WoodpeckerStep(c)
  PROVE  Shape(c)
<1> DEFINE writers == {"woodpecker_trigger", "woodpecker_pipeline_cancel"}
<1> DEFINE readers == {"woodpecker_list_pipelines", "woodpecker_get_logs", "woodpecker_status"}
<1>1. CASE Begin(c, WoodpeckerTools)
  BY <1>1, WoodpeckerEntries, OthersLookFirst, BeginShape DEF Tools
<1>2. CASE ~Begin(c, WoodpeckerTools)
  <2>1. /\ DOMAIN WoodpeckerTools = writers \union readers
        /\ \A t \in readers : WoodpeckerTools[t].args = {{"get"}}
        /\ \A t \in writers : WoodpeckerTools[t].args \subseteq {{"dispatch"}, {"cancel"}}
        /\ \A t \in writers \union readers : WoodpeckerTools[t].kind = "run"
    BY DEF WoodpeckerTools, Tool
  <2>2. phase[c] \in {"look", "write", "reread", "logs"}
    BY <1>2 DEF WoodpeckerStep, woodpecker_repo_id, woodpecker_trigger, woodpecker_list_pipelines,
                woodpecker_status, woodpecker_get_logs, woodpecker_pipeline_cancel, At
  <2>3. Suits(call[c].tool, call[c].passed)
    BY <2>2, InBody
  <2>4. /\ call[c].tool \in writers \union readers /\ kind = "run"
        /\ call[c].tool \in readers => call[c].passed = {"get"}
        /\ call[c].tool \in writers => call[c].passed \in {{"dispatch"}, {"cancel"}}
        /\ call[c].tool \notin Creators \union ResolvesTag \union Several
    BY <2>1, <2>3 DEF Suits, Tools, Creators, ResolvesTag, Several
  <2>5. CASE woodpecker_repo_id(c)
    <3>1. /\ phase[c] = "look"
          /\ \/ Passed(c, "get") /\ Read(c, TRUE, "reread")
             \/ ~Passed(c, "get") /\ Read(c, TRUE, "write")
      BY <2>5 DEF woodpecker_repo_id, At
    <3>2. CASE Passed(c, "get") /\ Read(c, TRUE, "reread")
      BY <2>4, <3>1, <3>2, GetsShape DEF Passed, Shape, Waiting
    <3>3. CASE ~Passed(c, "get") /\ Read(c, TRUE, "write")
      BY <3>1, <3>3, LookShape
    <3> QED
      BY <3>1, <3>2, <3>3
  <2>6. CASE woodpecker_trigger(c) \/ woodpecker_pipeline_cancel(c)
    <3>1. /\ phase[c] = "write" /\ call[c].tool \in writers
          /\ \/ Complain(c, "ValueError")
             \/ Sends(c, "finish") /\ remote' = RunAfter(c)
             \/ Refuse(c, "already_finished")
      BY <2>6 DEF woodpecker_trigger, woodpecker_pipeline_cancel, At, Write, Sends
    <3>2. CASE Sends(c, "finish") /\ remote' = RunAfter(c)
      BY <2>4, <3>1, <3>2, RunEdits, EditShape
    <3> QED
      BY <2>4, <3>1, <3>2, ComplaintShape, RaisedAre DEF Refuse, Refuses, Shape, Waiting
  <2>7. CASE woodpecker_list_pipelines(c) \/ woodpecker_status(c) \/ woodpecker_get_logs(c)
    <3>1. /\ phase[c] \in {"reread", "logs"} /\ call[c].tool \in readers
          /\ \/ \E found : Read(c, found, "finish")
             \/ phase[c] = "reread" /\ \E found : Read(c, found, "logs")
             \/ \E detail : Refuse(c, detail)
      BY <2>7 DEF woodpecker_list_pipelines, woodpecker_status, woodpecker_get_logs, At
    <3>2. CASE \/ \E found : Read(c, found, "finish")
               \/ phase[c] = "reread" /\ \E found : Read(c, found, "logs")
      BY <2>4, <3>1, <3>2, GetsShape DEF Shape, Waiting
    <3> QED
      BY <2>4, <3>1, <3>2 DEF Refuse, Refuses, Shape, Waiting
  <2> QED
    BY <1>2, <2>5, <2>6, <2>7 DEF WoodpeckerStep
<1> QED
  BY <1>1, <1>2

LEMMA RegistryShape ==
  ASSUME IInv, provider = "registry", NEW c \in Calls, RegistryStep(c)
  PROVE  Shape(c)
<1> DEFINE tools == {"pypi_publish", "npm_publish"}
<1>1. CASE Begin(c, RegistryTools)
  BY <1>1, RegistryEntries, OthersLookFirst, BeginShape DEF Tools
<1>2. CASE Prepare(c) \/ Upload(c)
  <2>1. /\ DOMAIN RegistryTools = tools
        /\ \A t \in tools : RegistryTools[t].args = {{"create"}}
    BY DEF RegistryTools, Tool
  <2>2. phase[c] \in {"look", "write"}
    BY <1>2 DEF Prepare, Upload
  <2>3. Suits(call[c].tool, call[c].passed)
    BY <2>2, InBody
  <2>4. /\ call[c].passed = {"create"}
        /\ call[c].tool \notin Creators \union ResolvesTag
    BY <2>1, <2>3 DEF Suits, Tools, Creators, ResolvesTag
  <2>5. CASE Prepare(c)
    <3>1. phase[c] = "look" /\ (Read(c, TRUE, "write") \/ Complain(c, "PathNotAllowed"))
      BY <2>5 DEF Prepare
    <3> QED
      BY <2>4, <3>1, LookShape, ComplaintShape, RaisedAre DEF Passed, Waiting
  <2>6. CASE Upload(c)
    <3>1. /\ phase[c] = "write"
          /\ Complain(c, "ValueError") \/ (Sends(c, "finish") /\ Free /\ remote' = Create(c))
      BY <2>6 DEF Upload, Write, Sends
    <3> QED
      BY <2>4, <3>1, CreateShape, ComplaintShape, RaisedAre DEF Waiting
  <2> QED
    BY <1>2, <2>5, <2>6
<1> QED
  BY <1>1, <1>2 DEF RegistryStep

(***************************************************************************)
(* Type correctness                                                        *)
(***************************************************************************)

\* What a call does next, and what is done to it.
Acts(c) == Shape(c) \/ Finish(c) \/ Hang(c) \/ Disappear(c)

LEMMA StepActs ==
  ASSUME IInv, NEW c \in Calls, Run(c) \/ Hang(c) \/ Disappear(c)
  PROVE  Acts(c)
<1>1. CASE GiveUp(c)
  BY <1>1, RaisedAre DEF GiveUp, Acts, Shape, Complains
<1> QED
  BY <1>1, GitHubShape, GiteaShape, GitLabShape, WoodpeckerShape, RegistryShape DEF Run, Acts

LEMMA AllEntries == \A p \in Providers : Entries(Tools[p])
BY GitHubEntries, GiteaEntries, GitLabEntries, WoodpeckerEntries, RegistryEntries
DEF Providers, Tools

LEMMA SuitsTypes ==
  ASSUME provider \in Providers, NEW t, NEW p, Suits(t, p)
  PROVE  t \in ToolNames /\ p \in SUBSET Words /\ ("ready" \in p => t \in Several)
<1>1. Entries(Tools[provider])
  BY AllEntries
<1>2. t \in DOMAIN Tools[provider] /\ p \in Tools[provider][t].args
  BY DEF Suits
<1> QED
  BY <1>1, <1>2 DEF Entries, ToolNames

\* Every record has a class, whatever it says.
LEMMA Classed ==
  ASSUME NEW result, NEW e
  PROVE  ClassOf(result, e) \in ReasonClasses \union {"none"}
<1>1. \A x \in DOMAIN ByType : ByType[x] \in ReasonClasses
  BY DEF ByType, ReasonClasses
<1>2. \A x \in DOMAIN ByResult : ByResult[x] \in ReasonClasses
  BY DEF ByResult, ReasonClasses
<1>3. "other" \in ReasonClasses
  BY DEF ReasonClasses
<1> QED
  BY <1>1, <1>2, <1>3 DEF ClassOf

\* The shape of the variables that steps of calls change.
Frame ==
  /\ phase \in [Calls -> Ended \union {"idle", "look", "write", "ready", "reread",
                                       "logs", "readback", "hung", "finish", "fail"}]
  /\ pending \in [Calls -> {"ok"} \X {"", "visibility_unconfirmed", "visibility_mismatch"}]
  /\ exc \in [Calls -> Raised \union {"none", "OSError"}]
  /\ answer \in [Calls -> {"none", "ok", "error", "raised"}]

LEMMA TypeParts ==
  TypeOK <=> /\ Frame /\ provider \in Providers /\ kind \in Kinds /\ remote \in Object
             /\ call \in [Calls -> Call(ToolNames)]
BY Classed DEF TypeOK, Frame, Raised

LEMMA NextTypes ==
  ASSUME Frame', provider' \in Providers, kind' \in Kinds, remote' \in Object,
         call' \in [Calls -> Call(ToolNames)]
  PROVE  TypeOK'
BY Classed DEF TypeOK, Frame, Raised

LEMMA FrameInit == CallInit => Frame
<1> SUFFICES ASSUME CallInit PROVE Frame
  OBVIOUS
<1>1. <<"ok", "">> \in {"ok"} \X {"", "visibility_unconfirmed", "visibility_mismatch"}
  OBVIOUS
<1>2. pending \in [Calls -> {"ok"} \X {"", "visibility_unconfirmed", "visibility_mismatch"}]
  BY <1>1 DEF CallInit
<1> QED
  BY <1>2 DEF CallInit, Frame, Ended

LEMMA AbsentIs == Absent \in Object /\ Absent.id = 0 /\ ~Absent.there
<1>1. 0 \in 0..MaxId /\ "maker" \in Authors
  BY HostingAssumption DEF Authors
<1>2. Made(0, "maker") \in Object /\ Made(0, "maker").id = 0
  BY <1>1, MadeIs
<1> QED
  BY <1>2 DEF Absent, Object

LEMMA InitTypes == Init => TypeOK
<1> SUFFICES ASSUME Init PROVE TypeOK
  OBVIOUS
<1>1. Frame
  BY FrameInit DEF Init, HostingInit
<1>2. provider \in Providers /\ kind \in Kinds
  BY ProvidersAssumption, HostingAssumption DEF Init, HostingInit
<1>3. 1 \in 0..MaxId /\ "maker" \in Authors
  BY HostingAssumption DEF Authors
<1>4. Made(1, "maker") \in Object
  BY <1>3, MadeIs
<1>5. \A draft \in BOOLEAN : [Made(1, "maker") EXCEPT !.draft = draft] \in Object
  BY <1>4 DEF Object
<1>6. remote \in Object
  BY <1>5, AbsentIs DEF Init, HostingInit
<1>7. [tool |-> "none", passed |-> {}, seen |-> Absent, made |-> 0, lost |-> FALSE]
        \in Call(ToolNames)
  BY AbsentIs DEF Call
<1>8. call \in [Calls -> Call(ToolNames)]
  BY <1>7 DEF Init, HostingInit
<1> QED
  BY <1>1, <1>2, <1>6, <1>8, TypeParts

(***************************************************************************)
(* What the calls change keeps its shape                                   *)
(***************************************************************************)

LEMMA CallOf ==
  ASSUME TypeOK, NEW c \in Calls
  PROVE  /\ call[c].tool \in ToolNames \union {"none"} /\ call[c].passed \in SUBSET Words
         /\ call[c].seen \in Object /\ call[c].made \in 0..2 /\ call[c].lost \in BOOLEAN
BY DEF TypeOK, Call

\* The calls keep their shape, and only one of them changes.
OneChanged(c) ==
  call' \in [Calls -> Call(ToolNames)] /\ \A d \in Calls \ {c} : call'[d] = call[d]

\* A call starts.
Asks(c, t, p) == call' = [call EXCEPT ![c].tool = t, ![c].passed = p]

LEMMA CallStarts ==
  ASSUME TypeOK, NEW c \in Calls, NEW t \in ToolNames, NEW p \in SUBSET Words,
         Asks(c, t, p)
  PROVE  /\ OneChanged(c)
         /\ call'[c].tool = t /\ call'[c].passed = p
         /\ call'[c].made = call[c].made /\ call'[c].lost = call[c].lost
<1> DEFINE k == [call[c] EXCEPT !.tool = t, !.passed = p]
<1>0. call \in [Calls -> Call(ToolNames)] /\ call[c] \in Call(ToolNames)
  BY DEF TypeOK
<1>1. /\ k \in Call(ToolNames)
      /\ k.tool = t /\ k.passed = p
      /\ k.made = call[c].made /\ k.lost = call[c].lost
  BY <1>0 DEF Call
<1>2. call' = [call EXCEPT ![c] = k]
  BY <1>0 DEF Asks
<1> QED
  BY <1>0, <1>1, <1>2 DEF OneChanged

\* It has read the object, or forgets it.
LEMMA CallReads ==
  ASSUME TypeOK, NEW c \in Calls, NEW o \in Object,
         call' = [call EXCEPT ![c].seen = o]
  PROVE  /\ OneChanged(c)
         /\ call'[c].tool = call[c].tool /\ call'[c].passed = call[c].passed
         /\ call'[c].made = call[c].made /\ call'[c].lost = call[c].lost
<1> DEFINE k == [call[c] EXCEPT !.seen = o]
<1>0. call \in [Calls -> Call(ToolNames)] /\ call[c] \in Call(ToolNames)
  BY DEF TypeOK
<1>1. /\ k \in Call(ToolNames)
      /\ k.tool = call[c].tool /\ k.passed = call[c].passed
      /\ k.made = call[c].made /\ k.lost = call[c].lost
  BY <1>0 DEF Call
<1>2. call' = [call EXCEPT ![c] = k]
  BY <1>0
<1> QED
  BY <1>0, <1>1, <1>2 DEF OneChanged

\* A request of it was done and answered.
LEMMA CallMakes ==
  ASSUME TypeOK, NEW c \in Calls, call[c].made < 2,
         call' = [call EXCEPT ![c].made = @ + 1]
  PROVE  /\ OneChanged(c)
         /\ call'[c].tool = call[c].tool /\ call'[c].passed = call[c].passed
         /\ call'[c].made = call[c].made + 1 /\ call'[c].lost = call[c].lost
<1> DEFINE k == [call[c] EXCEPT !.made = call[c].made + 1]
<1>0. call \in [Calls -> Call(ToolNames)] /\ call[c] \in Call(ToolNames)
  BY DEF TypeOK
<1>1. /\ k \in Call(ToolNames)
      /\ k.tool = call[c].tool /\ k.passed = call[c].passed
      /\ k.made = call[c].made + 1 /\ k.lost = call[c].lost
  BY <1>0 DEF Call
<1>2. call' = [call EXCEPT ![c] = k]
  BY <1>0
<1> QED
  BY <1>0, <1>1, <1>2 DEF OneChanged

\* A request of it was done, and the answer lost.
LEMMA CallLoses ==
  ASSUME TypeOK, NEW c \in Calls,
         call' = [call EXCEPT ![c].lost = TRUE]
  PROVE  /\ OneChanged(c)
         /\ call'[c].tool = call[c].tool /\ call'[c].passed = call[c].passed
         /\ call'[c].made = call[c].made /\ call'[c].lost
<1> DEFINE k == [call[c] EXCEPT !.lost = TRUE]
<1>0. call \in [Calls -> Call(ToolNames)] /\ call[c] \in Call(ToolNames)
  BY DEF TypeOK
<1>1. /\ k \in Call(ToolNames)
      /\ k.tool = call[c].tool /\ k.passed = call[c].passed
      /\ k.made = call[c].made /\ k.lost
  BY <1>0 DEF Call
<1>2. call' = [call EXCEPT ![c] = k]
  BY <1>0
<1> QED
  BY <1>0, <1>1, <1>2 DEF OneChanged

(***************************************************************************)
(* What each step leaves of the invariant                                  *)
(***************************************************************************)

\* What a call does leaves the others alone, and what they rely on.
Kept(c) ==
  /\ UNCHANGED <<faults, provider, kind>>
  /\ remote'.draft => remote.draft
  /\ kind = "repo" /\ remote.there => remote' = remote
  /\ \A d \in Calls \ {c} :
       /\ phase'[d] = phase[d] /\ pending'[d] = pending[d] /\ exc'[d] = exc[d]
       /\ answer'[d] = answer[d] /\ trail'[d] = trail[d] /\ call'[d] = call[d]

Good(c) == TypeOK' /\ Lasting' /\ Kept(c) /\ CallInv(c)'

LEMMA CreatorsRepo ==
  ASSUME IInv, NEW c \in Calls, call[c].tool \in Creators
  PROVE  kind = "repo"
<1>1. Suits(call[c].tool, call[c].passed) /\ provider \in Providers
  BY DEF IInv, TypeOK, CallInv, Running, Creators
<1> QED
  BY <1>1, CreatorsMakeRepos DEF Suits

LEMMA OthersKept ==
  ASSUME IInv, NEW c \in Calls, Kept(c), NEW d \in Calls \ {c}
  PROVE  CallInv(d)'
<1>1. CallInv(d)
  BY DEF IInv
<1>2. /\ phase'[d] = phase[d] /\ pending'[d] = pending[d] /\ exc'[d] = exc[d]
      /\ answer'[d] = answer[d] /\ trail'[d] = trail[d] /\ call'[d] = call[d]
      /\ provider' = provider /\ kind' = kind
  BY DEF Kept
<1>3. (Running(d) <=> Running(d)') /\ (Suits(call[d].tool, call[d].passed) =>
         Suits(call[d].tool, call[d].passed)')
  BY <1>2 DEF Running, Suits
<1>4. call[d].tool \in Creators => kind = "repo"
  BY CreatorsRepo
<1>5. ASSUME NEW r, Earned(d, r) PROVE Earned(d, r)'
  BY <1>2, <1>4, <1>5 DEF Earned, Kept, AsksForChange, Passed
<1>6. Requests(d)'
  BY <1>1, <1>2, <1>4, <1>5 DEF CallInv, Requests, Kept, AsksForChange, Passed
<1>7. Records(d)'
  BY <1>1, <1>2, <1>5 DEF CallInv, Records
<1> QED
  BY <1>1, <1>2, <1>3, <1>6, <1>7 DEF CallInv

LEMMA OnlyRecord ==
  ASSUME CallTypes, NEW c \in Calls, trail[c] = <<>>, NEW result, NEW e, Written(c, result, e)
  PROVE  /\ \A i \in DOMAIN trail'[c] : IsRecord(trail'[c][i], result, e)
         /\ \E i \in DOMAIN trail'[c] : IsRecord(trail'[c][i], result, e)
         /\ \A d \in Calls \ {c} : trail'[d] = trail[d]
BY WrittenIsLast

\* A call that has not ended has no record and no answer yet.
LEMMA NothingYet ==
  ASSUME IInv, NEW c \in Calls, phase[c] # "done"
  PROVE  trail[c] = <<>> /\ answer[c] = "none"
BY DEF IInv, CallInv, Records, TellInv, Told

LEMMA BeginsGood ==
  ASSUME IInv, NEW c \in Calls, Begins(c)
  PROVE  Good(c)
<1>0. /\ TypeOK /\ Frame /\ CallTypes /\ provider \in Providers /\ CallInv(c) /\ phase[c] = "idle"
      /\ trail[c] = <<>> /\ answer[c] = "none"
  BY NothingYet, TypeParts DEF IInv, TellInv, Begins, Enter, audit_rejection
<1>1. call[c].passed = {} /\ call[c].made = 0 /\ call[c].tool = "none" /\ ~call[c].lost
  BY <1>0 DEF CallInv, Running, Requests
<1>2. ASSUME NEW first \in {"look", "write"}, NEW t, NEW p, Enter(c, first), Suits(t, p),
             phase'[c] = "write" /\ "get" \in p => provider = "gitea",
             call' = [call EXCEPT ![c].tool = t, ![c].passed = p],
             UNCHANGED <<provider, kind, remote>>
      PROVE  Good(c)
  <2>1. t \in ToolNames /\ p \in SUBSET Words
    BY <1>0, <1>2, SuitsTypes
  <2>2. /\ OneChanged(c) /\ call'[c].tool = t /\ call'[c].passed = p
        /\ call'[c].made = call[c].made /\ call'[c].lost = call[c].lost
    <3>1. Asks(c, t, p)
      BY <1>2 DEF Asks
    <3> QED
      BY <1>0, <2>1, <3>1, CallStarts
  <2>3. /\ phase' = [phase EXCEPT ![c] = first] /\ UNCHANGED <<faults, pending, exc, answer, trail>>
    BY <1>2 DEF Enter, Goto
  <2>4. TypeOK'
    <3>1. Frame'
      BY <1>0, <2>3 DEF Frame
    <3> QED
      BY <1>0, <1>2, <2>2, <3>1, NextTypes, TypeParts DEF OneChanged
  <2>5. Kept(c) /\ Lasting'
    BY <1>0, <1>2, <2>2, <2>3 DEF Kept, OneChanged, Frame, IInv, Lasting
  <2>6. phase'[c] = first /\ Suits(call[c].tool, call[c].passed)'
    BY <1>0, <1>2, <2>2, <2>3 DEF Frame, Suits
  <2>7. Requests(c)'
    BY <1>1, <1>2, <2>2, <2>6 DEF Requests, Waiting, Passed
  <2>8. Records(c)'
    BY <1>0, <1>1, <2>2, <2>3 DEF Records
  <2> QED
    BY <2>4, <2>5, <2>6, <2>7, <2>8 DEF Good, CallInv, Running
<1>3. ASSUME NEW class \in Refusals, audit_rejection(c, class), UNCHANGED hostVars
      PROVE  Good(c)
  <2>1. /\ phase' = [phase EXCEPT ![c] = "done"]
        /\ UNCHANGED <<faults, pending, exc, provider, kind, remote, call>>
        /\ \/ Written(c, <<"denied", class>>, "none") /\ answer' = [answer EXCEPT ![c] = "error"]
           \/ answer' = [answer EXCEPT ![c] = "raised"] /\ UNCHANGED trail
    BY <1>3 DEF audit_rejection, Goto, Tell, hostVars
  <2>2. /\ \A i \in DOMAIN trail'[c] : trail'[c][i].result[1] = "denied"
        /\ \A d \in Calls \ {c} : trail'[d] = trail[d]
    <3> PICK r : r = <<"denied", class>>
      OBVIOUS
    <3>1. ASSUME Written(c, r, "none")
          PROVE  /\ \A i \in DOMAIN trail'[c] : trail'[c][i].result = r
                 /\ \A d \in Calls \ {c} : trail'[d] = trail[d]
      BY <1>0, <3>1, OnlyRecord DEF IsRecord
    <3>2. r[1] = "denied"
      OBVIOUS
    <3> QED
      BY <1>0, <2>1, <3>1, <3>2
  <2>3. TypeOK'
    <3>1. Frame'
      BY <1>0, <2>1 DEF Frame, Ended
    <3> QED
      BY <1>0, <2>1, <3>1, NextTypes, TypeParts
  <2>4. Kept(c) /\ Lasting'
    BY <1>0, <2>1, <2>2 DEF Kept, Frame, IInv, Lasting
  <2>5. Requests(c)'
    <3>1. phase'[c] = "done"
      BY <1>0, <2>1 DEF Frame
    <3> QED
      BY <1>1, <2>1, <3>1 DEF Requests, Waiting, Passed
  <2>6. Records(c)'
    BY <1>0, <1>1, <2>1, <2>2 DEF Records, Frame
  <2> QED
    BY <1>0, <1>1, <2>1, <2>3, <2>4, <2>5, <2>6 DEF Good, CallInv, Running, Frame
<1> QED
  BY <1>2, <1>3 DEF Begins

LEMMA ComplaintGood ==
  ASSUME IInv, NEW c \in Calls, NEW e \in Raised \union {"OSError"}, phase[c] # "done",
         UNCHANGED <<faults, pending, answer, trail, provider, kind, remote>>,
         phase' = [phase EXCEPT ![c] = "fail"], exc' = [exc EXCEPT ![c] = e],
         OneChanged(c), call'[c].tool = call[c].tool, call'[c].passed = call[c].passed,
         call'[c].made = call[c].made,
         \/ call[c].made = 0
         \/ call'[c].lost
         \/ e = "OSError"
         \/ call[c].tool \in Several,
         phase[c] # "idle"
  PROVE  Good(c)
<1>0. /\ TypeOK /\ Frame /\ CallInv(c) /\ trail[c] = <<>> /\ answer[c] = "none"
      /\ phase'[c] = "fail" /\ exc'[c] = e
  BY NothingYet, TypeParts DEF IInv, Frame
<1>1. TypeOK'
  <2>1. Frame'
    BY <1>0 DEF Frame
  <2> QED
    BY <1>0, <2>1, NextTypes, TypeParts DEF OneChanged
<1>2. Kept(c) /\ Lasting'
  BY <1>0 DEF Kept, OneChanged, Frame, IInv, Lasting
<1>3. Suits(call[c].tool, call[c].passed)'
  BY <1>0 DEF Suits, CallInv, Running
<1>4. Requests(c)'
  BY <1>0 DEF CallInv, Requests, Waiting, Passed
<1>5. Records(c)'
  BY <1>0 DEF Records
<1> QED
  BY <1>0, <1>1, <1>2, <1>3, <1>4, <1>5 DEF Good, CallInv, Running

LEMMA ComplainsGood ==
  ASSUME IInv, NEW c \in Calls, Complains(c)
  PROVE  Good(c)
<1>1. PICK e \in Raised : Complain(c, e)
  BY DEF Complains
<1>2. call[c].made = 0 \/ call[c].tool \in Several
  BY DEF IInv, CallInv, Requests, Complains, Waiting
<1>3. OneChanged(c)
  BY <1>1 DEF Complain, OneChanged, hostVars, IInv, TypeOK
<1> QED
  BY <1>1, <1>2, <1>3, ComplaintGood DEF Complains, Complain, Raise, Goto, hostVars, Waiting

\* The one tool that makes several changes asks for them with fields.
LEMMA ReadyAsks ==
  ASSUME IInv, NEW c \in Calls, phase[c] # "done", call[c].tool \in Several, PassedFields(c) = {}
  PROVE  ~AsksForChange(c)
<1>1. Suits(call[c].tool, call[c].passed) /\ provider \in Providers
  BY DEF IInv, TypeOK, CallInv, Running, Several
<1>2. \A p \in Providers : "github_pr_update" \in DOMAIN Tools[p] => p = "github"
  BY DEF Providers, Tools, GiteaTools, GitLabTools, WoodpeckerTools, RegistryTools
<1>3. GitHubTools["github_pr_update"].args = {{}, {"title"}, {"ready"}, {"title", "ready"}}
  BY DEF GitHubTools, Tool
<1>4. call[c].passed \in {{}, {"title"}, {"ready"}, {"title", "ready"}}
  BY <1>1, <1>2, <1>3 DEF Suits, Several, Tools
<1> QED
  BY <1>4 DEF AsksForChange, PassedFields, Changes, Fields, Visibilities

LEMMA LooksGood ==
  ASSUME IInv, NEW c \in Calls, Looks(c)
  PROVE  Good(c)
<1>0. /\ TypeOK /\ Frame /\ CallInv(c) /\ Requests(c) /\ remote \in Object
      /\ phase[c] \in Waiting
      /\ UNCHANGED <<faults, pending, exc, answer, trail, provider, kind, remote>>
  BY TypeParts DEF IInv, CallInv, Looks
<1>1. trail[c] = <<>> /\ answer[c] = "none"
  BY <1>0, NothingYet DEF Waiting
<1>2. PICK then : Goto(c, then) /\ AfterLook(c, then)
  BY DEF Looks
<1>3. /\ OneChanged(c) /\ call'[c].tool = call[c].tool /\ call'[c].passed = call[c].passed
      /\ call'[c].made = call[c].made /\ call'[c].lost = call[c].lost
  BY <1>0, CallReads DEF Looks
<1>4. then \in {"write", "logs", "ready", "reread", "finish"}
  BY <1>2 DEF AfterLook
<1>5. phase'[c] = then /\ \A d \in Calls \ {c} : phase'[d] = phase[d]
  BY <1>0, <1>2 DEF Frame, Goto
<1>6. TypeOK'
  <2>1. Frame'
    BY <1>0, <1>2, <1>4 DEF Frame, Goto
  <2> QED
    BY <1>0, <1>3, <2>1, NextTypes, TypeParts DEF OneChanged
<1>7. Kept(c) /\ Lasting'
  BY <1>0, <1>3, <1>5 DEF Kept, OneChanged, IInv, Lasting
<1>8. Suits(call[c].tool, call[c].passed)'
  BY <1>0, <1>3 DEF Suits, CallInv, Running, Waiting
<1>9. Requests(c)'
  <2>1. \A w : Passed(c, w)' <=> Passed(c, w)
    BY <1>3 DEF Passed
  <2>2. AsksForChange(c)' <=> AsksForChange(c)
    BY <1>3 DEF AsksForChange
  <2>3. CASE then = "finish"
    <3>1. Earned(c, pending[c])'
      BY <1>0, <1>2, <1>3, <2>1, <2>2, <2>3 DEF AfterLook, Requests, Waiting, Earned
    <3> QED
      BY <1>0, <1>3, <1>5, <2>1, <2>3, <3>1 DEF Requests, Waiting
  <2>4. CASE then \in {"logs", "write"}
    BY <1>0, <1>2, <1>3, <1>5, <2>1, <2>4 DEF Requests, AfterLook, Waiting
  <2>5. CASE then = "ready"
    <3>1. ~AsksForChange(c)
      BY <1>0, <1>2, <2>5, ReadyAsks DEF AfterLook
    <3> QED
      BY <1>0, <1>2, <1>3, <1>5, <2>1, <2>2, <2>5, <3>1 DEF Requests, Waiting, AfterLook
  <2>6. CASE then = "reread"
    BY <1>0, <1>2, <1>3, <1>5, <2>1, <2>2, <2>6 DEF Requests, AfterLook, Waiting
  <2> QED
    BY <1>4, <2>3, <2>4, <2>5, <2>6
<1>10. Records(c)'
  BY <1>0, <1>1 DEF Records
<1> QED
  BY <1>3, <1>4, <1>5, <1>6, <1>7, <1>8, <1>9, <1>10 DEF Good, CallInv, Running

LEMMA ConfirmsGood ==
  ASSUME IInv, NEW c \in Calls, Confirms(c)
  PROVE  Good(c)
<1>0. /\ TypeOK /\ Frame /\ CallInv(c) /\ Requests(c) /\ phase[c] = "readback"
      /\ UNCHANGED <<faults, exc, answer, trail, provider, kind, remote, call>>
  BY TypeParts DEF IInv, CallInv, Confirms, ReadBack, hostVars
<1>1. trail[c] = <<>> /\ answer[c] = "none"
  BY <1>0, NothingYet
<1>2. PICK reported \in {"none", remote.visibility}, failed \in BOOLEAN : ReadBack(c, reported, failed)
  BY DEF Confirms
<1>3. PICK result : result = readback_result(reported, readback_warning(c, reported, failed))
  OBVIOUS
<1>4. /\ phase' = [phase EXCEPT ![c] = "finish"] /\ pending' = [pending EXCEPT ![c] = result]
  BY <1>2, <1>3 DEF ReadBack, Goto
<1>5. result \in {"ok"} \X {"", "visibility_unconfirmed", "visibility_mismatch"}
  BY <1>3 DEF readback_result
<1>6. TypeOK'
  <2>1. Frame'
    BY <1>0, <1>4, <1>5 DEF Frame
  <2> QED
    BY <1>0, <2>1, NextTypes, TypeParts
<1>7. Kept(c) /\ Lasting'
  BY <1>0, <1>4 DEF Kept, Frame, IInv, Lasting
<1>8. Suits(call[c].tool, call[c].passed)'
  BY <1>0 DEF Suits, CallInv, Running
<1>9. phase'[c] = "finish" /\ pending'[c] = result
  BY <1>0, <1>4 DEF Frame
<1>10. result = <<"ok", "">> => Passed(c, remote.visibility)
  <2>1. "none" \notin call[c].passed
    BY <1>0, CallOf, WordsAre
  <2>2. readback_warning(c, reported, failed) => result # <<"ok", "">>
    BY <1>3 DEF readback_result
  <2>3. ~readback_warning(c, reported, failed) => reported \in call[c].passed
    BY DEF readback_warning
  <2> QED
    BY <1>2, <2>1, <2>2, <2>3 DEF Passed
<1>11. Requests(c)'
  <2>1. ~Passed(c, "ready")
    BY <1>0, InBody, SuitsTypes DEF TypeOK, Requests, Creators, Several, Passed
  <2> QED
    BY <1>0, <1>9, <1>10, <2>1 DEF Requests, Waiting, Earned, AsksForChange, Passed
<1>12. Records(c)'
  BY <1>0, <1>1 DEF Records
<1> QED
  BY <1>6, <1>7, <1>8, <1>9, <1>11, <1>12 DEF Good, CallInv, Running

LEMMA HangGood ==
  ASSUME IInv, NEW c \in Calls, Hang(c)
  PROVE  Good(c)
<1>0. /\ TypeOK /\ Frame /\ CallInv(c) /\ Requests(c) /\ phase[c] \in Waiting
      /\ phase' = [phase EXCEPT ![c] = "hung"]
      /\ UNCHANGED <<faults, pending, exc, answer, trail, provider, kind, remote, call>>
  BY TypeParts DEF IInv, CallInv, Hang, Goto, hostVars
<1>1. trail[c] = <<>> /\ answer[c] = "none"
  BY <1>0, NothingYet DEF Waiting
<1>2. TypeOK'
  <2>1. Frame'
    BY <1>0 DEF Frame
  <2> QED
    BY <1>0, <2>1, NextTypes, TypeParts
<1>3. Kept(c) /\ Lasting'
  BY <1>0 DEF Kept, Frame, IInv, Lasting
<1>4. phase'[c] = "hung" /\ Suits(call[c].tool, call[c].passed)'
  BY <1>0 DEF Suits, CallInv, Running, Waiting, Frame
<1>5. Requests(c)'
  BY <1>0, <1>4 DEF Requests, Waiting, AsksForChange, Passed
<1>6. Records(c)'
  BY <1>0, <1>1 DEF Records
<1> QED
  BY <1>2, <1>3, <1>4, <1>5, <1>6 DEF Good, CallInv, Running

LEMMA IgnoresGood ==
  ASSUME IInv, NEW c \in Calls, Ignores(c)
  PROVE  Good(c)
<1>0. /\ TypeOK /\ Frame /\ CallInv(c) /\ Requests(c) /\ phase[c] = "write"
      /\ call[c].tool = "github_actions" /\ ~Passed(c, "ready")
      /\ phase' = [phase EXCEPT ![c] = "finish"]
      /\ UNCHANGED <<faults, pending, exc, answer, trail, provider, kind, remote, call>>
  BY TypeParts DEF IInv, CallInv, Ignores, RefusalIgnored, Goto, hostVars
<1>1. trail[c] = <<>> /\ answer[c] = "none"
  BY <1>0, NothingYet
<1>2. TypeOK'
  <2>1. Frame'
    BY <1>0 DEF Frame
  <2> QED
    BY <1>0, <2>1, NextTypes, TypeParts
<1>3. Kept(c) /\ Lasting'
  BY <1>0 DEF Kept, Frame, IInv, Lasting
<1>4. phase'[c] = "finish" /\ Suits(call[c].tool, call[c].passed)'
  BY <1>0 DEF Suits, CallInv, Running, Frame
<1>5. Earned(c, pending[c])'
  BY <1>0 DEF Earned, Requests, Waiting, Passed, Creators, AsksForChange
<1>6. Requests(c)'
  BY <1>0, <1>4, <1>5 DEF Requests, Waiting, Passed
<1>7. Records(c)'
  BY <1>0, <1>1 DEF Records
<1> QED
  BY <1>2, <1>3, <1>4, <1>6, <1>7 DEF Good, CallInv, Running

LEMMA WritesGood ==
  ASSUME IInv, NEW c \in Calls, Writes(c)
  PROVE  Good(c)
<1>0. /\ TypeOK /\ Frame /\ CallInv(c) /\ Requests(c) /\ call[c].made \in 0..2
      /\ phase[c] \in {"write", "ready"} /\ phase[c] \in Waiting
  BY TypeParts, CallOf DEF IInv, CallInv, Writes, Waiting
<1>1. PICK then : Sends(c, then) /\ AfterWrite(c, then)
  BY DEF Writes
<1>2. Fits(c) /\ UNCHANGED <<faults, pending, answer, trail, provider, kind>>
  BY <1>1 DEF Writes, Sends
<1>3. Suits(call[c].tool, call[c].passed)
  BY <1>0, InBody
<1>4. ASSUME OneChanged(c), TypeOK', \A d \in Calls \ {c} : phase'[d] = phase[d] /\ exc'[d] = exc[d]
      PROVE  Kept(c) /\ Lasting'
  BY <1>2, <1>4 DEF Kept, OneChanged, Fits, Lasting
<1>5. CASE call' = [call EXCEPT ![c].lost = TRUE] /\ Raise(c, "ValueError")
  <2>1. /\ OneChanged(c) /\ call'[c].tool = call[c].tool /\ call'[c].passed = call[c].passed
        /\ call'[c].made = call[c].made /\ call'[c].lost
    BY <1>0, <1>5, CallLoses
  <2>2. /\ phase'[c] = "fail" /\ exc'[c] = "ValueError" /\ Frame'
        /\ \A d \in Calls \ {c} : phase'[d] = phase[d] /\ exc'[d] = exc[d]
    BY <1>0, <1>2, <1>5, RaisedAre DEF Frame, Raise, Goto
  <2>3. TypeOK'
    BY <1>0, <1>2, <2>1, <2>2, NextTypes, TypeParts DEF OneChanged, Fits
  <2>4. Suits(call[c].tool, call[c].passed)'
    BY <1>2, <1>3, <2>1 DEF Suits
  <2>5. Requests(c)'
    BY <1>0, <2>1, <2>2 DEF Requests, Waiting, Passed
  <2>6. Records(c)'
    BY <1>0, <1>2, NothingYet DEF Records
  <2> QED
    BY <1>4, <2>1, <2>2, <2>3, <2>4, <2>5, <2>6 DEF Good, CallInv, Running
<1>6. CASE call' = [call EXCEPT ![c].made = @ + 1] /\ Goto(c, then) /\ UNCHANGED exc
  <2>1. call[c].made < 2
    BY <1>0 DEF Requests
  <2>2. /\ OneChanged(c) /\ call'[c].tool = call[c].tool /\ call'[c].passed = call[c].passed
        /\ call'[c].made = call[c].made + 1 /\ call'[c].lost = call[c].lost
    BY <1>0, <1>6, <2>1, CallMakes
  <2>3. then \in {"finish", "readback", "ready", "reread"}
    BY <1>1 DEF AfterWrite
  <2>4. /\ phase'[c] = then /\ Frame'
        /\ \A d \in Calls \ {c} : phase'[d] = phase[d] /\ exc'[d] = exc[d]
    BY <1>0, <1>2, <1>6, <2>3 DEF Frame, Goto
  <2>5. TypeOK'
    BY <1>0, <1>2, <2>2, <2>4, NextTypes, TypeParts DEF OneChanged, Fits
  <2>6. Suits(call[c].tool, call[c].passed)'
    BY <1>2, <1>3, <2>2 DEF Suits
  <2>7. Requests(c)'
    <3>0. ~call[c].lost /\ (call[c].tool \notin Several => call[c].made = 0)
      BY <1>0 DEF Requests
    <3>1. /\ call'[c].made > 0 /\ ~Passed(c, "get")' /\ \A w : Passed(c, w)' <=> Passed(c, w)
          /\ ~call'[c].lost /\ (call'[c].tool \notin Several => call'[c].made <= 1)
      BY <1>0, <1>2, <2>2, <3>0 DEF Fits, Passed
    <3>2. CASE then = "finish"
      <4>1. Earned(c, pending[c])'
        BY <1>1, <2>2, <3>1, <3>2 DEF AfterWrite, Earned
      <4> QED
        BY <2>4, <3>1, <3>2, <4>1 DEF Requests, Waiting
    <3>3. CASE then = "readback"
      BY <1>1, <2>2, <2>4, <3>1, <3>3 DEF Requests, Waiting, AfterWrite
    <3>4. CASE then \in {"ready", "reread"}
      BY <1>0, <1>1, <2>2, <2>4, <3>1, <3>4 DEF Requests, Waiting, AfterWrite
    <3> QED
      BY <2>3, <3>2, <3>3, <3>4
  <2>8. Records(c)'
    BY <1>0, <1>2, NothingYet DEF Records
  <2> QED
    BY <1>4, <2>2, <2>3, <2>4, <2>5, <2>6, <2>7, <2>8 DEF Good, CallInv, Running
<1> QED
  BY <1>1, <1>5, <1>6 DEF Sends

\* A record that the call has earned, and the answer that goes with it.
EndsWith(c, result) ==
  \/ Tell(c, "ok") /\ Earned(c, result)
  \/ /\ Tell(c, "error") /\ result[1] # "ok"
     /\ \/ call[c].made = 0 \/ call[c].lost \/ call[c].tool \in Several
        \/ result[2] = "OSError"

\* A step that ends a call, with a record or without one.
LEMMA EndGood ==
  ASSUME IInv, NEW c \in Calls, NEW e, NEW next,
         phase[c] # "done", Suits(call[c].tool, call[c].passed),
         UNCHANGED <<faults, pending, provider, kind, remote>>,
         OneChanged(c), call'[c].tool = call[c].tool, call'[c].passed = call[c].passed,
         call'[c].made = call[c].made, call'[c].lost = call[c].lost,
         phase' = [phase EXCEPT ![c] = next], next \in Ended,
         exc' = exc \/ exc' = [exc EXCEPT ![c] = "none"],
         \/ /\ next = "done"
            /\ \E result : Written(c, result, e) /\ EndsWith(c, result)
         \/ UNCHANGED trail /\ answer' = [answer EXCEPT ![c] = "raised"]
         \/ UNCHANGED <<trail, answer>>
  PROVE  Good(c)
<1>0. /\ TypeOK /\ Frame /\ CallInv(c) /\ CallTypes /\ trail[c] = <<>> /\ answer[c] = "none"
      /\ Requests(c)
  BY NothingYet, TypeParts DEF IInv, TellInv, CallInv
<1>1. /\ phase'[c] = next /\ Frame'
      /\ \A d \in Calls \ {c} : phase'[d] = phase[d] /\ exc'[d] = exc[d] /\ answer'[d] = answer[d]
  BY <1>0 DEF Frame, EndsWith, Ended, Tell
<1>2. TypeOK'
  BY <1>0, <1>1, NextTypes, TypeParts DEF OneChanged
<1>3. /\ \A d \in Calls \ {c} : trail'[d] = trail[d]
      /\ \/ UNCHANGED trail /\ answer'[c] # "error"
         \/ /\ next = "done"
            /\ \E result : /\ EndsWith(c, result)
                           /\ \A i \in DOMAIN trail'[c] : trail'[c][i].result = result
                           /\ DOMAIN trail'[c] # {}
  <2>1. ASSUME NEW result, Written(c, result, e)
        PROVE  /\ \A d \in Calls \ {c} : trail'[d] = trail[d]
               /\ \A i \in DOMAIN trail'[c] : trail'[c][i].result = result
               /\ DOMAIN trail'[c] # {}
    <3>1. /\ \A i \in DOMAIN trail'[c] : IsRecord(trail'[c][i], result, e)
          /\ \E i \in DOMAIN trail'[c] : IsRecord(trail'[c][i], result, e)
          /\ \A d \in Calls \ {c} : trail'[d] = trail[d]
      BY <1>0, <2>1, OnlyRecord
    <3> QED
      BY <3>1 DEF IsRecord
  <2> QED
    BY <1>0, <2>1 DEF Frame
<1>4. Kept(c) /\ Lasting'
  BY <1>1, <1>3 DEF Kept, OneChanged, IInv, Lasting, TypeOK
<1>5. Suits(call[c].tool, call[c].passed)'
  BY DEF Suits
<1>6. Requests(c)'
  BY <1>0, <1>1 DEF Requests, Waiting, Ended, Passed
<1>7. Running(c)'
  <2>1. call[c].tool \in DOMAIN Tools[provider] /\ provider \in Providers
    BY <1>0, TypeParts DEF Suits
  <2> QED
    BY <2>1, NoneIsNoTool DEF Running
<1>8. Records(c)'
  <2>1. CASE UNCHANGED trail /\ answer'[c] # "error"
    BY <1>0, <2>1 DEF Records
  <2>2. ASSUME NEW result, next = "done", EndsWith(c, result), DOMAIN trail'[c] # {},
               \A i \in DOMAIN trail'[c] : trail'[c][i].result = result
        PROVE  Records(c)'
    <3>1. result[1] = "ok" => Earned(c, result)'
      BY <2>2 DEF EndsWith, Earned, AsksForChange, Passed
    <3>2. answer'[c] = "error" /\ ~call'[c].lost /\ call'[c].tool \notin Several /\ result[2] # "OSError"
          => call'[c].made = 0
      BY <1>0, <2>2 DEF EndsWith, Frame, Tell
    <3> QED
      BY <1>1, <2>2, <3>1, <3>2 DEF Records
  <2> QED
    BY <1>3, <2>1, <2>2
<1> QED
  BY <1>1, <1>2, <1>4, <1>5, <1>6, <1>7, <1>8 DEF Good, CallInv, Ended

LEMMA FinishGood ==
  ASSUME IInv, NEW c \in Calls, Finish(c)
  PROVE  Good(c)
<1>0. /\ TypeOK /\ Frame /\ Requests(c) /\ phase[c] \in {"finish", "fail"}
      /\ Leaves(c) /\ UNCHANGED <<faults, pending, provider, kind, remote>>
  BY TypeParts DEF IInv, CallInv, Finish, FinishOk, FinishError, Leaves
<1>1. /\ OneChanged(c) /\ call'[c].tool = call[c].tool /\ call'[c].passed = call[c].passed
      /\ call'[c].made = call[c].made /\ call'[c].lost = call[c].lost
  BY <1>0, AbsentIs, CallReads DEF Leaves
<1>2. Suits(call[c].tool, call[c].passed)
  BY <1>0, InBody
<1>3. CASE FinishOk(c)
  <2>1. CASE Written(c, pending[c], "none") /\ Goto(c, "done") /\ Tell(c, "ok") /\ UNCHANGED exc
    <3>1. EndsWith(c, pending[c])
      BY <1>0, <1>3, <2>1 DEF EndsWith, Requests, FinishOk
    <3> QED
      BY <1>0, <1>1, <1>2, <2>1, <3>1, EndGood DEF Goto, Ended
  <2>2. CASE "dirs" \in faults /\ Raise(c, "OSError") /\ UNCHANGED <<trail, answer>>
    BY <1>0, <1>1, <2>2, ComplaintGood DEF Raise, Goto
  <2> QED
    BY <1>3, <2>1, <2>2 DEF FinishOk
<1>4. CASE FinishError(c)
  <2>1. /\ phase[c] = "fail" /\ phase' = [phase EXCEPT ![c] = "done"]
        /\ exc' = [exc EXCEPT ![c] = "none"]
    BY <1>4 DEF FinishError, Goto
  <2>2. CASE Written(c, ErrorResult(exc[c]), exc[c]) /\ Tell(c, "error")
    <3>1. exc[c] = "OSError" => ErrorResult(exc[c])[2] = "OSError"
      BY DEF ErrorResult, Denials
    <3>2. ErrorResult(exc[c])[1] # "ok"
      BY ErrorResultFits
    <3>3. EndsWith(c, ErrorResult(exc[c]))
      BY <1>0, <2>1, <2>2, <3>1, <3>2 DEF EndsWith, Requests
    <3> QED
      BY <1>0, <1>1, <1>2, <2>1, <2>2, <3>3, EndGood DEF Ended
  <2>3. CASE "dirs" \in faults /\ Tell(c, "raised") /\ UNCHANGED trail
    BY <1>0, <1>1, <1>2, <2>1, <2>3, EndGood DEF Ended, Tell
  <2> QED
    BY <1>4, <2>2, <2>3 DEF FinishError
<1> QED
  BY <1>3, <1>4 DEF Finish

LEMMA RefusesGood ==
  ASSUME IInv, NEW c \in Calls, Refuses(c)
  PROVE  Good(c)
<1>0. /\ TypeOK /\ Requests(c) /\ phase[c] \in Waiting /\ call[c].tool \notin Several
      /\ UNCHANGED <<faults, pending, provider, kind, remote, call>>
  BY DEF IInv, CallInv, Refuses, AnswerInBody, hostVars
<1>1. OneChanged(c)
  BY <1>0 DEF OneChanged, TypeOK
<1>2. Suits(call[c].tool, call[c].passed) /\ call[c].made = 0
  BY <1>0, InBody DEF Requests, Waiting
<1>3. PICK detail : AnswerInBody(c, detail)
  BY DEF Refuses
<1>4. CASE /\ Written(c, <<"error", detail>>, "none") /\ Goto(c, "done") /\ Tell(c, "error")
           /\ UNCHANGED exc
  <2> PICK r : r = <<"error", detail>>
    OBVIOUS
  <2>1. EndsWith(c, r) /\ Written(c, r, "none")
    BY <1>2, <1>4 DEF EndsWith
  <2> QED
    BY <1>0, <1>1, <1>2, <1>4, <2>1, EndGood DEF Goto, Ended, Waiting
<1>5. CASE "dirs" \in faults /\ Raise(c, "OSError") /\ UNCHANGED <<trail, answer>>
  BY <1>0, <1>1, <1>2, <1>5, ComplaintGood DEF Raise, Goto, Waiting
<1> QED
  BY <1>3, <1>4, <1>5 DEF AnswerInBody

LEMMA DisappearGood ==
  ASSUME IInv, NEW c \in Calls, Disappear(c)
  PROVE  Good(c)
<1>0. /\ TypeOK /\ phase[c] \notin {"idle", "done"} /\ Leaves(c)
      /\ UNCHANGED <<faults, pending, exc, answer, trail, provider, kind, remote>>
      /\ phase' = [phase EXCEPT ![c] = "gone"]
  BY DEF IInv, Disappear, Vanish, Leaves, Ended, Goto
<1>1. /\ OneChanged(c) /\ call'[c].tool = call[c].tool /\ call'[c].passed = call[c].passed
      /\ call'[c].made = call[c].made /\ call'[c].lost = call[c].lost
  BY <1>0, AbsentIs, CallReads DEF Leaves
<1>2. Suits(call[c].tool, call[c].passed)
  BY <1>0, InBody
<1> QED
  BY <1>0, <1>1, <1>2, EndGood DEF Ended

LEMMA ActsGood ==
  ASSUME IInv, NEW c \in Calls, Acts(c)
  PROVE  Good(c)
BY BeginsGood, ComplainsGood, LooksGood, WritesGood, ConfirmsGood, RefusesGood, IgnoresGood,
   FinishGood, HangGood, DisappearGood DEF Acts, Shape

(***************************************************************************)
(* What each step tells                                                    *)
(***************************************************************************)

\* A read-back tells nothing yet, though it settles the result.
LEMMA ReadBackTells ==
  ASSUME TellInv, NEW c \in Calls, phase[c] # "done", NEW reported, NEW failed,
         ReadBack(c, reported, failed)
  PROVE  TellInv'
<1>1. PICK result : /\ pending' = [pending EXCEPT ![c] = result] /\ result[1] = "ok"
                    /\ phase' = [phase EXCEPT ![c] = "finish"]
  BY DEF ReadBack, readback_result, Goto
<1>2. UNCHANGED <<faults, exc, answer, trail>>
  BY DEF ReadBack
<1>3. CallTypes'
  BY <1>1, <1>2 DEF TellInv, CallTypes, OnCalls
<1>4. \A d \in Calls : Told(d)'
  BY <1>1, <1>2 DEF TellInv, CallTypes, OnCalls, Told, Borne, Last
<1> QED
  BY <1>3, <1>4 DEF TellInv

LEMMA ComplainTells ==
  ASSUME TellInv, NEW c \in Calls, phase[c] # "done", NEW e, Complain(c, e)
  PROVE  TellInv'
BY RaiseSilent, SilentTells DEF Complain

LEMMA WritesTells ==
  ASSUME TellInv, NEW c \in Calls, Writes(c)
  PROVE  TellInv'
<1>1. PICK then : Sends(c, then)
  BY DEF Writes
<1>2. phase[c] # "done" /\ UNCHANGED <<faults, pending, answer, trail>>
  BY <1>1 DEF Writes, Sends
<1>3. CASE Goto(c, then) /\ UNCHANGED exc
  BY <1>2, <1>3, SilentTells DEF Silent, Alone
<1>4. CASE Raise(c, "ValueError")
  BY <1>2, <1>4, RaiseSilent, SilentTells
<1> QED
  BY <1>1, <1>3, <1>4 DEF Sends

LEMMA LooksTells ==
  ASSUME TellInv, NEW c \in Calls, Looks(c)
  PROVE  TellInv'
BY SilentTells DEF Looks, Silent, Alone, Waiting

LEMMA BeginsTells ==
  ASSUME TellInv, NEW c \in Calls, Begins(c)
  PROVE  TellInv'
BY EnterTells, RejectionTells DEF Begins, Refusals

LEMMA ActsTells ==
  ASSUME TellInv, NEW c \in Calls, Acts(c)
  PROVE  TellInv'
<1>1. CASE Begins(c)
  BY <1>1, BeginsTells
<1>2. CASE Complains(c)
  BY <1>2, ComplainTells DEF Complains, Waiting
<1>3. CASE Looks(c)
  BY <1>3, LooksTells
<1>4. CASE Writes(c)
  BY <1>4, WritesTells
<1>5. CASE Confirms(c)
  BY <1>5, ReadBackTells DEF Confirms
<1>6. CASE Refuses(c)
  BY <1>6, AnswerTells DEF Refuses, Waiting
<1>7. CASE Finish(c)
  BY <1>7, FinishTells DEF Finish
<1>8. CASE Hang(c)
  BY <1>8, SilentTells DEF Hang, Silent, Alone, Waiting
<1>9. CASE Disappear(c)
  BY <1>9, VanishTells DEF Disappear
<1>10. CASE Ignores(c)
  BY <1>10, SilentTells DEF Ignores, RefusalIgnored, Silent, Alone
<1> QED
  BY <1>1, <1>2, <1>3, <1>4, <1>5, <1>6, <1>7, <1>8, <1>9, <1>10 DEF Acts, Shape

(***************************************************************************)
(* The invariant is inductive                                              *)
(***************************************************************************)

LEMMA IInvInit == Init => IInv
<1> SUFFICES ASSUME Init PROVE IInv
  OBVIOUS
<1>1. TypeOK /\ TellInv
  BY InitTypes, TellInvInit DEF Init, HostingInit
<1>2. Lasting
  <2>1. \A draft \in BOOLEAN : [Made(1, "maker") EXCEPT !.draft = draft].there
    BY DEF Made
  <2> QED
    BY <2>1, AbsentIs DEF Init, HostingInit, Lasting
<1>3. ASSUME NEW c \in Calls PROVE CallInv(c)
  <2>1. /\ phase[c] = "idle" /\ trail[c] = <<>> /\ answer[c] = "none"
        /\ call[c].tool = "none" /\ call[c].passed = {} /\ call[c].made = 0 /\ ~call[c].lost
    BY DEF Init, HostingInit, CallInit
  <2>2. DOMAIN trail[c] = {}
    BY <2>1
  <2> QED
    BY <2>1, <2>2 DEF CallInv, Running, Requests, Waiting, Records, Passed
<1> QED
  BY <1>1, <1>2, <1>3 DEF IInv

LEMMA ActsKeep ==
  ASSUME IInv, NEW c \in Calls, Acts(c)
  PROVE  IInv'
<1>1. Good(c)
  BY ActsGood
<1>2. \A d \in Calls \ {c} : CallInv(d)'
  BY <1>1, OthersKept DEF Good
<1>3. TellInv'
  BY ActsTells DEF IInv
<1> QED
  BY <1>1, <1>2, <1>3 DEF IInv, Good

LEMMA PersonKeeps ==
  ASSUME IInv, Person
  PROVE  IInv'
<1>0. /\ TypeOK /\ remote \in Object /\ remote.id \in 0..MaxId /\ remote.there
      /\ kind \in {"release", "pull", "issue"}
      /\ UNCHANGED <<faults, phase, pending, exc, answer, trail, provider, kind, call>>
  BY DEF IInv, TypeOK, Object, Person, callVars
<1>1. remote' \in Object /\ remote'.there /\ (remote'.draft => remote.draft)
  <2>1. CASE remote' = Set(Fields, By("person"))
    <3>1. Set(Fields, By("person")) = [remote EXCEPT !.field = [f \in Fields |-> "person"]]
      BY DEF Set, By
    <3>2. [f \in Fields |-> "person"] \in [Fields -> Authors]
      BY DEF Authors
    <3> DEFINE field == [f \in Fields |-> "person"]
    <3> HIDE DEF field
    <3>3. field \in [Fields -> Authors] /\ remote' = [remote EXCEPT !.field = field]
      BY <2>1, <3>1, <3>2 DEF field
    <3> QED
      BY <1>0, <3>3 DEF Object
  <2>2. CASE remote.id < MaxId /\ remote' = Made(remote.id + 1, "person")
    <3>1. remote.id + 1 \in 0..MaxId /\ "person" \in Authors
      BY <1>0, <2>2, HostingAssumption DEF Authors
    <3> QED
      BY <2>2, <3>1, MadeIs
  <2> QED
    BY <2>1, <2>2 DEF Person
<1>2. TypeOK'
  <2>1. Frame'
    BY <1>0, TypeParts DEF Frame
  <2> QED
    BY <1>0, <1>1, <2>1, NextTypes, TypeParts
<1>3. TellInv'
  BY <1>0 DEF IInv, TellInv, CallTypes, OnCalls, Told, Borne, Last
<1>4. ASSUME NEW d \in Calls PROVE CallInv(d)'
  <2>1. CallInv(d) /\ call[d].tool \notin Creators
    BY <1>0, CreatorsRepo DEF IInv
  <2>2. Running(d)' = Running(d) /\ Suits(call[d].tool, call[d].passed)' = Suits(call[d].tool, call[d].passed)
    BY <1>0 DEF Running, Suits
  <2>3. ASSUME NEW r, Earned(d, r) PROVE Earned(d, r)'
    BY <1>0, <1>1, <2>1, <2>3 DEF Earned, AsksForChange, Passed
  <2>4. Requests(d)'
    BY <1>0, <2>1, <2>3 DEF CallInv, Requests, AsksForChange, Passed
  <2>5. Records(d)'
    BY <1>0, <2>1, <2>3 DEF CallInv, Records
  <2> QED
    BY <1>0, <2>1, <2>2, <2>4, <2>5 DEF CallInv
<1> QED
  BY <1>1, <1>2, <1>3, <1>4 DEF IInv, Lasting

LEMMA StutterKeeps ==
  ASSUME IInv, UNCHANGED vars
  PROVE  IInv'
<1>0. /\ UNCHANGED <<faults, phase, pending, exc, answer, trail, provider, kind, remote, call>>
  BY DEF vars, callVars, hostVars
<1>1. TypeOK'
  <2>1. Frame'
    BY <1>0, TypeParts DEF IInv, Frame
  <2> QED
    BY <1>0, <2>1, NextTypes, TypeParts DEF IInv
<1>2. TellInv'
  BY <1>0 DEF IInv, TellInv, CallTypes, OnCalls, Told, Borne, Last
<1>3. ASSUME NEW d \in Calls PROVE CallInv(d)'
  BY <1>0 DEF IInv, CallInv, Running, Suits, Requests, Records, Earned, AsksForChange, Passed
<1> QED
  BY <1>0, <1>1, <1>2, <1>3 DEF IInv, Lasting

LEMMA IInvStep ==
  ASSUME IInv, [Next]_vars
  PROVE  IInv'
<1>1. CASE \E c \in Calls : Run(c) \/ Hang(c) \/ Disappear(c)
  BY <1>1, StepActs, ActsKeep
<1>2. CASE Person
  BY <1>2, PersonKeeps
<1>3. CASE Over \/ UNCHANGED vars
  BY <1>3, StutterKeeps DEF Over
<1> QED
  BY <1>1, <1>2, <1>3 DEF Next

LEMMA IInvAlways == Spec => []IInv
<1>1. Init => IInv
  BY IInvInit
<1>2. IInv /\ [Next]_vars => IInv'
  BY IInvStep
<1> QED
  BY <1>1, <1>2, PTL DEF Spec

(***************************************************************************)
(* Theorems                                                                *)
(***************************************************************************)

\* Every variable keeps to its type: a finished call's record has a class of
\* the closed vocabulary of errors.py, whatever the tool and the failure.
THEOREM HostingTypes == Spec => []TypeOK
<1>1. IInv => TypeOK
  BY DEF IInv
<1> QED
  BY <1>1, IInvAlways, PTL

\* Every answer of a provider's tool is in the trail, with the same verdict,
\* unless its record could not be appended.
THEOREM HostingAnswersTold == Spec => []AnswersTold
<1>1. IInv => AnswersTold
  BY TellInvTells DEF IInv
<1> QED
  BY <1>1, IInvAlways, PTL

\* A success record stands for a change made, when the arguments asked for one;
\* only github_actions also records ok for a change that GitHub refused.
THEOREM SuccessMeansApplied == Spec => []OkMeansApplied
<1>1. ASSUME IInv PROVE OkMeansApplied
  <2> SUFFICES ASSUME NEW c \in Calls, NEW i \in DOMAIN trail[c], trail[c][i].result[1] = "ok"
               PROVE  /\ AsksForChange(c) =>
                           /\ ~call[c].lost
                           /\ \/ call[c].made = 1
                              \/ call[c].made = 2 /\ call[c].tool = "github_pr_update"
                              \/ call[c].made = 0 /\ call[c].tool = "github_actions"
                      /\ Passed(c, "get") => call[c].made = 0
                      /\ Passed(c, "ready") => ~remote.draft
    BY DEF OkMeansApplied
  <2>1. Earned(c, trail[c][i].result) /\ Requests(c) /\ call[c].made \in 0 .. 2
    BY <1>1, CallOf, TypeParts DEF IInv, CallInv, Records
  <2>2. AsksForChange(c) => ~call[c].lost /\ (call[c].made > 0 \/ call[c].tool = "github_actions")
    BY <2>1 DEF Earned
  <2>3. call[c].made <= 1 \/ call[c].tool = "github_pr_update"
    BY <2>1 DEF Requests, Several
  <2>4. (Passed(c, "get") => call[c].made = 0) /\ (Passed(c, "ready") => ~remote.draft)
    BY <2>1 DEF Earned, Requests
  <2> QED
    BY <2>1, <2>2, <2>3, <2>4
<1> QED
  BY <1>1, IInvAlways, PTL

\* After an error answer a retry is safe: the provider changed nothing.
THEOREM FailureMeansUnchanged == Spec => []ErrorMeansUnchanged
<1>1. ASSUME IInv PROVE ErrorMeansUnchanged
  BY <1>1 DEF IInv, CallInv, Records, Several, ErrorMeansUnchanged
<1> QED
  BY <1>1, IInvAlways, PTL

\* A repository is called plainly ok only with the visibility asked for.
THEOREM VisibilityIsTold == Spec => []VisibilityTold
<1>1. ASSUME IInv PROVE VisibilityTold
  <2> SUFFICES ASSUME NEW c \in Calls, NEW i \in DOMAIN trail[c], call[c].tool \in Creators,
                      trail[c][i].result = <<"ok", "">>
               PROVE  Passed(c, remote.visibility)
    BY DEF VisibilityTold, Creators
  <2>1. trail[c][i].result[1] = "ok"
    <3>1. <<"ok", "">>[1] = "ok"
      OBVIOUS
    <3> QED
      BY <3>1, Zenon
  <2>2. Earned(c, trail[c][i].result)
    BY <1>1, <2>1 DEF IInv, CallInv, Records
  <2> QED
    BY <2>2 DEF Earned
<1> QED
  BY <1>1, IInvAlways, PTL

\* The call that moves, and what it does to the object, if anything.
LEMMA Mover ==
  ASSUME IInv, [Next]_vars, NEW c \in Calls, phase'[c] # phase[c], remote' # remote
  PROVE  Fits(c)
<1>1. ~UNCHANGED phase
  OBVIOUS
<1>2. PICK d \in Calls : Acts(d)
  BY <1>1, StepActs DEF Next, Person, Over, vars, callVars
<1>3. d = c
  BY <1>2, ActsGood DEF Good, Kept
<1> QED
  BY <1>2, <1>3
  DEF Acts, Shape, Begins, audit_rejection, Complains, Complain, Looks, Writes, Confirms,
      ReadBack, Refuses, Ignores, RefusalIgnored, Finish, Leaves, Hang, Disappear, hostVars

\* A tool changes no field that it was not passed.
THEOREM OnlyPassedFieldsChange == Spec => OnlyPassedChange
<1>1. ASSUME IInv, [Next]_vars
      PROVE  [~(provider = "github" /\ kind = "release") => \A c \in Calls : FieldsKept(c)]_vars
  BY <1>1, Mover DEF FieldsKept, Fits, Passed
<1> QED
  BY <1>1, IInvAlways, PTL DEF Spec, OnlyPassedChange

\* A tool that resolves a tag first writes to the release it resolved.
THEOREM OnlyWhatWasReadIsWritten == Spec => WritesWhatItRead
<1>1. ASSUME IInv, [Next]_vars
      PROVE  [\A c \in Calls :
                phase'[c] # phase[c] /\ call[c].tool \in ResolvesTag /\ remote' # remote
                => remote.id = call[c].seen.id]_vars
  BY <1>1, Mover DEF Fits
<1> QED
  BY <1>1, IInvAlways, PTL DEF Spec, WritesWhatItRead

\* How many steps a call has left at most.
StepsLeft(p) ==
  CASE p = "idle" -> 9
    [] p = "look" -> 8
    [] p = "write" -> 7
    [] p = "ready" -> 6
    [] p = "reread" -> 5
    [] p \in {"logs", "readback"} -> 4
    [] p = "hung" -> 3
    [] p = "finish" -> 2
    [] p = "fail" -> 1
    [] OTHER -> 0

\* The call comes nearer to its end, and no other further from it.
Shortens(c) ==
  /\ StepsLeft(phase'[c]) < StepsLeft(phase[c])
  /\ \A d \in Calls \ {c} : phase'[d] = phase[d]

LEMMA Ranks ==
  /\ StepsLeft("idle") = 9 /\ StepsLeft("look") = 8 /\ StepsLeft("write") = 7
  /\ StepsLeft("ready") = 6 /\ StepsLeft("reread") = 5 /\ StepsLeft("logs") = 4
  /\ StepsLeft("readback") = 4 /\ StepsLeft("hung") = 3 /\ StepsLeft("finish") = 2
  /\ StepsLeft("fail") = 1 /\ StepsLeft("done") = 0 /\ StepsLeft("gone") = 0
BY DEF StepsLeft

LEMMA ActsShorten ==
  ASSUME IInv, NEW c \in Calls, Acts(c)
  PROVE  StepsLeft(phase'[c]) < StepsLeft(phase[c])
<1>0. \A p : Goto(c, p) => phase'[c] = p
  BY DEF Goto, IInv, TypeOK
<1>1. CASE Begins(c)
  <2>1. phase[c] = "idle" /\ phase'[c] \in {"look", "write", "done"}
    BY <1>0, <1>1 DEF Begins, Enter, audit_rejection
  <2> QED
    BY <2>1, Ranks
<1>2. CASE Complains(c)
  <2>1. phase[c] \in Waiting \union {"hung"} /\ phase'[c] = "fail"
    BY <1>0, <1>2 DEF Complains, Complain, Raise
  <2> QED
    BY <2>1, Ranks DEF Waiting
<1>3. CASE Looks(c)
  <2>1. PICK then : AfterLook(c, then) /\ phase'[c] = then /\ phase[c] \in Waiting
    BY <1>0, <1>3 DEF Looks
  <2> QED
    BY <2>1, Ranks DEF AfterLook, Waiting
<1>4. CASE Writes(c)
  <2>1. PICK then : /\ AfterWrite(c, then) /\ phase'[c] \in {then, "fail"}
                    /\ phase[c] \in {"write", "ready"}
    BY <1>0, <1>4 DEF Writes, Sends, Raise
  <2> QED
    BY <2>1, Ranks DEF AfterWrite
<1>5. CASE Confirms(c)
  BY <1>0, <1>5, Ranks DEF Confirms, ReadBack
<1>6. CASE Refuses(c)
  <2>1. phase[c] \in Waiting /\ phase'[c] \in {"done", "fail"}
    BY <1>0, <1>6 DEF Refuses, AnswerInBody, Raise
  <2> QED
    BY <2>1, Ranks DEF Waiting
<1>7. CASE Finish(c)
  <2>1. \/ phase[c] = "finish" /\ phase'[c] \in {"done", "fail"}
        \/ phase[c] = "fail" /\ phase'[c] = "done"
    BY <1>0, <1>7 DEF Finish, FinishOk, FinishError, Raise
  <2> QED
    BY <2>1, Ranks
<1>8. CASE Hang(c)
  <2>1. phase[c] \in Waiting /\ phase'[c] = "hung"
    BY <1>0, <1>8 DEF Hang
  <2> QED
    BY <2>1, Ranks DEF Waiting
<1>9. CASE Disappear(c)
  <2>1. phase[c] \notin Ended \union {"idle"} /\ phase'[c] = "gone"
    BY <1>0, <1>9 DEF Disappear, Vanish
  <2>2. phase[c] \in {"look", "write", "ready", "reread", "logs", "readback", "hung", "finish", "fail"}
    BY <2>1 DEF Ended, IInv, TypeOK
  <2> QED
    BY <2>1, <2>2, Ranks
<1>10. CASE Ignores(c)
  BY <1>0, <1>10, Ranks DEF Ignores, RefusalIgnored
<1> QED
  BY <1>1, <1>2, <1>3, <1>4, <1>5, <1>6, <1>7, <1>8, <1>9, <1>10 DEF Acts, Shape

\* No failure, time-out or lost answer sends a call back, and no call or person
\* holds up another: whatever tool it is of, a call of any provider is over
\* within nine steps of its own.
THEOREM EveryStepIsProgress ==
  Spec => [][(\E c \in Calls : Shortens(c)) \/ ((Person \/ Over) /\ UNCHANGED phase)]_vars
<1>1. ASSUME IInv, [Next]_vars
      PROVE  [(\E c \in Calls : Shortens(c)) \/ ((Person \/ Over) /\ UNCHANGED phase)]_vars
  <2>1. ASSUME NEW c \in Calls, Run(c) \/ Hang(c) \/ Disappear(c) PROVE Shortens(c)
    <3>1. Acts(c)
      BY <1>1, <2>1, StepActs
    <3> QED
      BY <1>1, <3>1, ActsGood, ActsShorten DEF Good, Kept, Shortens
  <2>2. ASSUME Person \/ Over PROVE UNCHANGED phase
    BY <2>2 DEF Person, Over, vars, callVars
  <2> QED
    BY <1>1, <2>1, <2>2 DEF Next
<1> QED
  BY <1>1, IInvAlways, PTL DEF Spec
===============================================================================
