-------------------------------- MODULE Commit --------------------------------
(***************************************************************************)
(* git_add, git_commit and git_remote of tools/git_local.py on one         *)
(* checkout that several agents share.  Every agent has a server process   *)
(* of its own, so nothing orders their calls; what they share is the       *)
(* index, the remotes and the fork verdict cached in .git/config.  A       *)
(* commit reads the index twice (glob gate, tree) and the remotes once     *)
(* (identity), with a GitHub lookup in between.                            *)
(***************************************************************************)

CONSTANTS
  Agents,      \* agents that work in the checkout
  Paths,       \* files they stage
  Scope,       \* what the write_globs of each agent let through
  Remotes,     \* remotes that can be added
  Kind         \* what each remote is, see Kinds

\* "internal": our Gitea, a local path, or our account elsewhere.  "own": a
\* GitHub repository of ours.  "fork": one under our account that is a fork of
\* somebody else's.  "third": somebody else's.  "odd": a URL nobody can parse.
Kinds == {"internal", "own", "fork", "third", "odd"}

ASSUME CommitAssumption ==
  /\ Scope \in [Agents -> SUBSET Paths]
  /\ Kind \in [Remotes -> Kinds]

VARIABLES
  staged,    \* paths in the index that differ from HEAD
  remotes,   \* remotes of the checkout
  cache,     \* githost-mcp.upstream-provenance in .git/config
  call,      \* the git_commit each agent is in
  drift      \* history: a remote was added after the verdict was looked up

vars == <<staged, remotes, cache, call, drift>>

Modes == {"agent", "public"}
Verdicts == {"own", "third-party"}

\* asked is the argument "identity"; seen the remotes whose owner GitHub has to
\* tell.  History: late has the paths out of scope that were staged since the
\* gate, each with who staged it; added the remotes there that were added since
\* the commit read them.
NoCall == [at |-> "idle", asked |-> "auto", mode |-> "public", seen |-> {},
           verdict |-> "own", late |-> {}, added |-> {}]

Init ==
  /\ staged = {}
  /\ remotes = {}
  /\ cache = "none"
  /\ call = [a \in Agents |-> NoCall]
  /\ drift = FALSE

(***************************************************************************)
(* Helpers                                                                 *)
(***************************************************************************)

OfKind(set, kinds) == {r \in set : Kind[r] \in kinds}

\* github_forge_owned_repos: the remotes that do not say what they are.
Candidates(set) == OfKind(set, {"own", "fork"})

\* Mutant: one remote, as "origin" would be, decides alone.
OwnershipByOne(set) ==
  IF OfKind(set, {"odd"}) # {} THEN "undetermined"
  ELSE IF set # {} /\ Kind[CHOOSE r \in set : TRUE] = "third" THEN "public"
  ELSE "agent"

\* resolve_ownership: a remote that cannot be read decides nothing, any
\* third-party remote makes the checkout public, no remote leaves it internal.
Ownership(set) ==
  IF OfKind(set, {"odd"}) # {} THEN "undetermined"
  ELSE IF OfKind(set, {"third"}) # {} THEN "public"
  ELSE "agent"

\* classify_fork_provenance over the candidates: one fork of somebody else's
\* repository settles it.
Provenance(set) == IF OfKind(set, {"fork"}) # {} THEN "third-party" ELSE "own"

\* Mutant: without an answer the remotes are taken at their word.
ModeWithoutAnswerAgent == "agent"

\* A verdict nobody could give makes the commit public.
ModeWithoutAnswer == "public"

\* Mutant: the verdict is used as the mode.
ModeIsVerdict(verdict) == verdict

ModeOf(verdict) == IF verdict = "own" THEN "agent" ELSE "public"

Goto(a, label) == call' = [call EXCEPT ![a].at = label]
Decide(a, mode) == call' = [call EXCEPT ![a].at = "commit", ![a].mode = mode, ![a].seen = {}]
End(a) == call' = [call EXCEPT ![a] = NoCall]

(***************************************************************************)
(* git_add and git_remote                                                  *)
(***************************************************************************)

\* Every path named has to pass the agent's globs.
Stage(a) ==
  /\ \E paths \in SUBSET Scope[a] :
       /\ ~ (paths \subseteq staged)
       /\ staged' = staged \union paths
       /\ call' = [b \in Agents |->
            IF call[b].at = "idle" THEN call[b]
            ELSE [call[b] EXCEPT !.late = @ \union ((paths \ Scope[b]) \X {a})]]
  /\ UNCHANGED <<remotes, cache, drift>>

AddRemote(r) ==
  /\ r \notin remotes
  /\ remotes' = remotes \union {r}
  /\ call' = [b \in Agents |->
       IF call[b].at \in {"idle", "identity"} THEN call[b]
       ELSE [call[b] EXCEPT !.added = @ \union {r}]]
  /\ drift' = (drift \/ cache # "none" \/ \E a \in Agents : call[a].at \in {"cache", "lookup", "store"})
  /\ UNCHANGED <<staged, cache>>

RemoveRemote(r) ==
  /\ r \in remotes
  /\ remotes' = remotes \ {r}
  /\ call' = [b \in Agents |-> [call[b] EXCEPT !.added = @ \ {r}]]
  /\ UNCHANGED <<staged, cache, drift>>

(***************************************************************************)
(* git_commit                                                              *)
(***************************************************************************)

\* Mutant: the test is left to git_add.
GateOpen(a) == call[a].at = "idle"

\* The staged set is tested against the agent's globs, whoever staged it.  A
\* call that is denied changes nothing.
GatePassed(a) == call[a].at = "idle" /\ staged \subseteq Scope[a]

Gate(a) ==
  /\ GatePassed(a)
  /\ \E asked \in Modes \union {"auto"} :
       call' = [call EXCEPT ![a] = [NoCall EXCEPT !.at = "identity", !.asked = asked]]
  /\ UNCHANGED <<staged, remotes, cache, drift>>

\* _resolve_identity_mode up to the fork question: the caller's word, or the
\* remotes.  A remote that cannot be read denies the commit.
ReadRemotes(a) ==
  /\ call[a].at = "identity"
  /\ LET owned == IF call[a].asked = "auto" THEN Ownership(remotes) ELSE call[a].asked
         asks  == call[a].asked = "auto" /\ owned = "agent" /\ Candidates(remotes) # {}
     IN  \/ owned = "undetermined" /\ End(a)
         \/ owned \in Modes /\ ~asks /\ Decide(a, owned)
         \/ asks /\ call' = [call EXCEPT ![a].at = "cache", ![a].seen = Candidates(remotes)]
  /\ UNCHANGED <<staged, remotes, cache, drift>>

\* A cached verdict is taken whatever remotes it was given for.
ReadCache(a) ==
  /\ call[a].at = "cache"
  /\ IF cache # "none" THEN Decide(a, ModeOf(cache)) ELSE Goto(a, "lookup")
  /\ UNCHANGED <<staged, remotes, cache, drift>>

\* GitHub is asked about the candidates and answers, or does not.
Lookup(a) ==
  /\ call[a].at = "lookup"
  /\ \/ call' = [call EXCEPT ![a].at = "store", ![a].verdict = Provenance(call[a].seen)]
     \/ Decide(a, ModeWithoutAnswer)
  /\ UNCHANGED <<staged, remotes, cache, drift>>

\* The verdict goes to .git/config; a write that fails is only logged.
Store(a) ==
  /\ call[a].at = "store"
  /\ cache' = call[a].verdict \/ UNCHANGED cache
  /\ Decide(a, ModeOf(call[a].verdict))
  /\ UNCHANGED <<staged, remotes, drift>>

\* No public identity is configured, or it is an agent's: no commit.
NoPublicIdentity(a) ==
  /\ call[a].at = "commit"
  /\ call[a].mode = "public"
  /\ End(a)
  /\ UNCHANGED <<staged, remotes, cache, drift>>

\* The commit takes whatever is in the index now.
Record(a) ==
  /\ call[a].at = "commit"
  /\ staged' = {}
  /\ End(a)
  /\ UNCHANGED <<remotes, cache, drift>>

\* The agent's process dies.
Crash(a) ==
  /\ call[a].at # "idle"
  /\ End(a)
  /\ UNCHANGED <<staged, remotes, cache, drift>>

Next ==
  \/ \E a \in Agents :
       \/ Stage(a)
       \/ Gate(a)
       \/ ReadRemotes(a)
       \/ ReadCache(a)
       \/ Lookup(a)
       \/ Store(a)
       \/ NoPublicIdentity(a)
       \/ Record(a)
       \/ Crash(a)
  \/ \E r \in Remotes : AddRemote(r) \/ RemoveRemote(r)

Spec == Init /\ [][Next]_vars

(***************************************************************************)
(* Properties                                                              *)
(***************************************************************************)

TypeOK ==
  /\ staged \subseteq Paths
  /\ remotes \subseteq Remotes
  /\ cache \in Verdicts \union {"none"}
  /\ call \in [Agents -> [at : {"idle", "identity", "cache", "lookup", "store", "commit"},
                          asked : Modes \union {"auto"}, mode : Modes, seen : SUBSET Remotes,
                          verdict : Verdicts, late : SUBSET (Paths \X Agents), added : SUBSET Remotes]]
  /\ drift \in BOOLEAN

\* A commit takes what is in the index when it is made, not what the gate saw.
\* Still no path is in it that nobody was allowed to stage there: each is in the
\* scope of the commit's agent, or was staged since the gate by an agent whose
\* scope has it.  The second is the race that the gate leaves open.
CommitScoped ==
  \A a \in Agents : call[a].at # "idle" =>
    \A p \in staged \ Scope[a] : \E b \in Agents : <<p, b>> \in call[a].late /\ p \in Scope[b]

\* A commit that is about to carry the agent's identity by the remotes.
AgentByRemotes(a) == call[a].at = "commit" /\ call[a].asked = "auto" /\ call[a].mode = "agent"

\* However many remotes there are and whichever is "origin": a commit that
\* carries the agent's identity unasked stands beside no third-party remote and
\* none that cannot be read, but one added since the commit read the remotes.
\* For that one the code does not keep what it says of a remote added later,
\* that "commits made after that point resolve to public".
PublicBesideThirdParty ==
  \A a \in Agents : AgentByRemotes(a) => OfKind(remotes, {"third", "odd"}) \subseteq call[a].added

\* In a fork of somebody else's repository no commit carries the agent's
\* identity unasked, a remote added in the middle of it excepted: not when GitHub
\* cannot be reached, not when calls fill the cache at the same time, as long as
\* no remote is added behind a verdict.
PublicInFork ==
  ~drift => \A a \in Agents : AgentByRemotes(a) => OfKind(remotes, {"fork"}) \subseteq call[a].added

\* What identity.py says without that condition: a fork of a repository we do
\* not own is third-party.
ForkIsThirdParty ==
  \A a \in Agents : AgentByRemotes(a) => OfKind(remotes, {"fork"}) \subseteq call[a].added
===============================================================================
