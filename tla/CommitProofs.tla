----------------------------- MODULE CommitProofs -----------------------------
(***************************************************************************)
(* Theorems about Commit for any number of agents, files and remotes, and  *)
(* whatever the scopes are.                                                *)
(***************************************************************************)
EXTENDS Commit, TLAPS

(***************************************************************************)
(* Type correctness                                                        *)
(***************************************************************************)

CallType ==
  [at : {"idle", "identity", "cache", "lookup", "store", "commit"},
   asked : Modes \union {"auto"}, mode : Modes, seen : SUBSET Remotes,
   verdict : Verdicts, late : SUBSET (Paths \X Agents), added : SUBSET Remotes]

LEMMA NoCallType == NoCall \in CallType
BY DEF NoCall, CallType, Modes, Verdicts

\* Every verdict has a mode, and the mode without a verdict is one.
LEMMA ModesDecided ==
  /\ \A v : ModeOf(v) \in Modes
  /\ ModeWithoutAnswer \in Modes
  /\ \A set : Provenance(set) \in Verdicts
BY DEF ModeOf, ModeWithoutAnswer, Modes, Provenance, Verdicts

LEMMA TypeInit == Init => TypeOK
<1> SUFFICES ASSUME Init PROVE TypeOK
  OBVIOUS
<1> QED
  BY NoCallType DEF Init, TypeOK, CallType

LEMMA TypeStep == TypeOK /\ [Next]_vars => TypeOK'
<1> SUFFICES ASSUME TypeOK, [Next]_vars PROVE TypeOK'
  OBVIOUS
<1>0. call \in [Agents -> CallType]
  BY DEF TypeOK, CallType
<1> SUFFICES call' \in [Agents -> CallType]
             /\ staged' \subseteq Paths
             /\ remotes' \subseteq Remotes
             /\ cache' \in Verdicts \union {"none"}
             /\ drift' \in BOOLEAN
  BY DEF TypeOK, CallType
<1>1. ASSUME NEW a \in Agents, Stage(a)
      PROVE  call' \in [Agents -> CallType] /\ staged' \subseteq Paths
  <2>1. PICK paths \in SUBSET Scope[a] :
          /\ staged' = staged \union paths
          /\ call' = [b \in Agents |->
               IF call[b].at = "idle" THEN call[b]
               ELSE [call[b] EXCEPT !.late = @ \union ((paths \ Scope[b]) \X {a})]]
    BY <1>1 DEF Stage
  <2>2. paths \subseteq Paths
    BY CommitAssumption
  <2>3. ASSUME NEW b \in Agents
        PROVE  [call[b] EXCEPT !.late = @ \union ((paths \ Scope[b]) \X {a})] \in CallType
    <3>1. (paths \ Scope[b]) \X {a} \in SUBSET (Paths \X Agents)
      BY <2>2
    <3>2. call[b] \in CallType /\ call[b].late \union ((paths \ Scope[b]) \X {a}) \in SUBSET (Paths \X Agents)
      BY <1>0, <3>1 DEF CallType
    <3> QED
      BY <3>2 DEF CallType
  <2> QED
    BY <1>0, <2>1, <2>2, <2>3 DEF TypeOK
<1>2. ASSUME NEW r \in Remotes, AddRemote(r) \/ RemoveRemote(r)
      PROVE  call' \in [Agents -> CallType]
  <2>1. ASSUME NEW b \in Agents, NEW set \in SUBSET Remotes
        PROVE  [call[b] EXCEPT !.added = set] \in CallType
    BY <1>0 DEF CallType
  <2>2. \A b \in Agents : call[b].added \union {r} \in SUBSET Remotes /\ call[b].added \ {r} \in SUBSET Remotes
    BY <1>0 DEF CallType
  <2>3. ASSUME NEW b \in Agents
        PROVE  /\ [call[b] EXCEPT !.added = @ \union {r}] \in CallType
               /\ [call[b] EXCEPT !.added = @ \ {r}] \in CallType
               /\ call[b] \in CallType
    BY <2>1, <2>2, <1>0
  <2>4. CASE AddRemote(r)
    BY <2>3, <2>4 DEF AddRemote
  <2>5. CASE RemoveRemote(r)
    BY <2>3, <2>5 DEF RemoveRemote
  <2> QED
    BY <1>2, <2>4, <2>5
<1>3. ASSUME NEW a \in Agents, NEW mode \in Modes, Decide(a, mode)
      PROVE  call' \in [Agents -> CallType]
  <2> DEFINE r == [call[a] EXCEPT !.at = "commit", !.mode = mode, !.seen = {}]
  <2>1. r \in CallType
    <3>1. call[a] \in CallType
      BY <1>0
    <3> QED
      BY <3>1 DEF CallType
  <2>2. call' = [call EXCEPT ![a] = r]
    BY <1>0, <1>3 DEF Decide
  <2> HIDE DEF r
  <2> QED
    BY <1>0, <2>1, <2>2
<1>4. ASSUME NEW a \in Agents, End(a)
      PROVE  call' \in [Agents -> CallType]
  BY <1>0, <1>4, NoCallType DEF End
<1>5. ASSUME NEW a \in Agents, Gate(a)
      PROVE  call' \in [Agents -> CallType]
  <2>1. \A asked \in Modes \union {"auto"} :
          [NoCall EXCEPT !.at = "identity", !.asked = asked] \in CallType
    BY DEF NoCall, CallType, Modes, Verdicts
  <2> QED
    BY <1>0, <1>5, <2>1 DEF Gate
<1>6. ASSUME NEW a \in Agents, ReadRemotes(a)
      PROVE  call' \in [Agents -> CallType]
  <2>1. CASE End(a)
    BY <2>1, <1>4
  <2>2. CASE \E mode \in Modes : Decide(a, mode)
    BY <2>2, <1>3
  <2>3. CASE call' = [call EXCEPT ![a].at = "cache", ![a].seen = Candidates(remotes)]
    <3> DEFINE r == [call[a] EXCEPT !.at = "cache", !.seen = Candidates(remotes)]
    <3>1. r \in CallType
      BY <1>0 DEF TypeOK, CallType, Candidates, OfKind
    <3>2. call' = [call EXCEPT ![a] = r]
      BY <1>0, <2>3
    <3> HIDE DEF r
    <3> QED
      BY <1>0, <3>1, <3>2
  <2> QED
    BY <1>6, <2>1, <2>2, <2>3 DEF ReadRemotes
<1>7. ASSUME NEW a \in Agents, ReadCache(a)
      PROVE  call' \in [Agents -> CallType]
  <2>1. CASE Goto(a, "lookup")
    BY <2>1, <1>0 DEF Goto, CallType
  <2> QED
    BY <1>7, <2>1, <1>3, ModesDecided DEF ReadCache
<1>8. ASSUME NEW a \in Agents, Lookup(a)
      PROVE  call' \in [Agents -> CallType]
  <2>1. CASE call' = [call EXCEPT ![a].at = "store", ![a].verdict = Provenance(call[a].seen)]
    <3> DEFINE r == [call[a] EXCEPT !.at = "store", !.verdict = Provenance(call[a].seen)]
    <3>1. r \in CallType
      BY <1>0, ModesDecided DEF CallType
    <3>2. call' = [call EXCEPT ![a] = r]
      BY <1>0, <2>1
    <3> HIDE DEF r
    <3> QED
      BY <1>0, <3>1, <3>2
  <2> QED
    BY <1>8, <2>1, <1>3, ModesDecided DEF Lookup
<1>9. ASSUME NEW a \in Agents, Store(a)
      PROVE  call' \in [Agents -> CallType] /\ cache' \in Verdicts \union {"none"}
  <2>1. call[a].verdict \in Verdicts
    BY <1>0 DEF CallType
  <2> QED
    BY <1>9, <2>1, <1>3, ModesDecided DEF Store, TypeOK
<1>10. ASSUME NEW a \in Agents, Record(a)
       PROVE  call' \in [Agents -> CallType]
  BY <1>10, <1>4 DEF Record
<1>11. CASE \E a \in Agents : Stage(a)
  BY <1>11, <1>1 DEF Stage, TypeOK
<1>12. CASE \E a \in Agents : Gate(a) \/ ReadRemotes(a) \/ ReadCache(a) \/ Lookup(a)
  BY <1>12, <1>5, <1>6, <1>7, <1>8 DEF Gate, ReadRemotes, ReadCache, Lookup, TypeOK
<1>13. CASE \E a \in Agents : Store(a)
  BY <1>13, <1>9 DEF Store, TypeOK
<1>14. CASE \E a \in Agents : NoPublicIdentity(a) \/ Crash(a)
  BY <1>14, <1>4 DEF NoPublicIdentity, Crash, TypeOK
<1>15. CASE \E a \in Agents : Record(a)
  BY <1>15, <1>10 DEF Record, TypeOK
<1>16. CASE \E r \in Remotes : AddRemote(r) \/ RemoveRemote(r)
  BY <1>16, <1>2 DEF AddRemote, RemoveRemote, TypeOK
<1>17. CASE UNCHANGED vars
  BY <1>17, <1>0 DEF vars, TypeOK
<1> QED
  BY <1>11, <1>12, <1>13, <1>14, <1>15, <1>16, <1>17 DEF Next

\* Type correctness of the checkout and of every running commit.
THEOREM CommitTypes == Spec => []TypeOK
<1>1. Init => TypeOK
  BY TypeInit
<1>2. TypeOK /\ [Next]_vars => TypeOK'
  BY TypeStep
<1> QED
  BY <1>1, <1>2, PTL DEF Spec

(***************************************************************************)
(* What a step does to the call of an agent                                *)
(***************************************************************************)

\* The steps of one agent's call.
OwnStep(a) ==
  Gate(a) \/ ReadRemotes(a) \/ ReadCache(a) \/ Lookup(a) \/ Store(a)
    \/ NoPublicIdentity(a) \/ Record(a) \/ Crash(a)

\* A step of one agent's call leaves the remotes and the calls of the others
\* alone; only Store writes the cache.
LEMMA OwnStepFrame ==
  ASSUME TypeOK, NEW a \in Agents, OwnStep(a)
  PROVE  /\ UNCHANGED <<remotes, drift>>
         /\ \A b \in Agents \ {a} : call'[b] = call[b]
         /\ ~Store(a) => UNCHANGED cache
<1>0. call \in [Agents -> CallType]
  BY DEF TypeOK, CallType
<1>1. \A c : call' = [call EXCEPT ![a] = c] => \A b \in Agents \ {a} : call'[b] = call[b]
  BY <1>0
<1>2. (\E asked \in Modes \union {"auto"} :
         call' = [call EXCEPT ![a] = [NoCall EXCEPT !.at = "identity", !.asked = asked]])
        => \A b \in Agents \ {a} : call'[b] = call[b]
  <2> SUFFICES ASSUME NEW asked,
                      call' = [call EXCEPT ![a] = [NoCall EXCEPT !.at = "identity", !.asked = asked]]
               PROVE  \A b \in Agents \ {a} : call'[b] = call[b]
    OBVIOUS
  <2> DEFINE new == [NoCall EXCEPT !.at = "identity", !.asked = asked]
  <2>1. call' = [call EXCEPT ![a] = new]
    OBVIOUS
  <2> HIDE DEF new
  <2> QED
    BY <1>0, <2>1
<1> QED
  BY <1>0, <1>2 DEF OwnStep, Gate, ReadRemotes, ReadCache, Lookup, Store,
     NoPublicIdentity, Record, Crash, Decide, Goto, End

\* All of a call but its history.
SameCall(new, old) ==
  /\ new.at = old.at
  /\ new.asked = old.asked
  /\ new.mode = old.mode
  /\ new.seen = old.seen
  /\ new.verdict = old.verdict

\* A path staged is written down in the history of every call at most.
LEMMA StagingFrame ==
  ASSUME TypeOK, NEW a \in Agents, Stage(a), NEW b \in Agents
  PROVE  SameCall(call'[b], call[b]) /\ call'[b].added = call[b].added
<1>1. call[b] \in CallType
  BY DEF TypeOK, CallType
<1>2. \/ call'[b] = call[b]
      \/ \E paths : call'[b] = [call[b] EXCEPT !.late = @ \union ((paths \ Scope[b]) \X {a})]
  BY DEF Stage
<1> QED
  BY <1>1, <1>2 DEF CallType, SameCall

\* A remote that is added is noted by every commit past reading them; one that
\* is removed is forgotten.
LEMMA RemotesFrame ==
  ASSUME TypeOK, NEW r \in Remotes, AddRemote(r) \/ RemoveRemote(r), NEW b \in Agents
  PROVE  /\ SameCall(call'[b], call[b]) /\ call'[b].late = call[b].late
         /\ RemoveRemote(r) => remotes' = remotes \ {r} /\ call'[b].added = call[b].added \ {r}
         /\ AddRemote(r) /\ call[b].at \notin {"idle", "identity"}
              => remotes' = remotes \union {r} /\ call'[b].added = call[b].added \union {r}
<1>1. call[b] \in CallType
  BY DEF TypeOK, CallType
<1>2. CASE RemoveRemote(r)
  <2>1. call'[b] = [call[b] EXCEPT !.added = @ \ {r}] /\ remotes' = remotes \ {r}
    BY <1>2 DEF RemoveRemote
  <2>2. ~AddRemote(r)
    BY <1>2 DEF RemoveRemote, AddRemote
  <2> QED
    BY <1>1, <1>2, <2>1, <2>2 DEF CallType, SameCall
<1>3. CASE AddRemote(r)
  <2>1. /\ remotes' = remotes \union {r}
        /\ call[b].at \in {"idle", "identity"} => call'[b] = call[b]
        /\ call[b].at \notin {"idle", "identity"}
             => call'[b] = [call[b] EXCEPT !.added = @ \union {r}]
    BY <1>3 DEF AddRemote
  <2>2. ~RemoveRemote(r)
    BY <1>3 DEF RemoveRemote, AddRemote
  <2> QED
    BY <1>1, <2>1, <2>2 DEF CallType, SameCall
<1> QED
  BY <1>2, <1>3

\* Where a step of its own takes a call: out, to the gate, to the cache with
\* the remotes it read, or a step on with a mode.
LEMMA OwnStepCall ==
  ASSUME TypeOK, NEW a \in Agents, OwnStep(a)
  PROVE  \/ call'[a].at \in {"idle", "identity"}
         \/ ReadRemotes(a) /\ call'[a].at = "cache" /\ call'[a].seen = Candidates(remotes)
              /\ call[a].asked = "auto" /\ Ownership(remotes) = "agent"
         \/ ReadRemotes(a) /\ call'[a].at = "commit" /\ call'[a].asked = call[a].asked
              /\ (call[a].asked = "auto" => call'[a].mode = Ownership(remotes))
              /\ (call[a].asked = "auto" /\ call'[a].mode = "agent"
                    => Candidates(remotes) = {})
         \/ ReadCache(a) /\ call[a].at = "cache" /\ call'[a].at = "lookup"
              /\ call'[a].seen = call[a].seen /\ call'[a].added = call[a].added
         \/ ReadCache(a) /\ call[a].at = "cache" /\ call'[a].at = "commit"
              /\ call'[a].mode = ModeOf(cache) /\ call'[a].added = call[a].added
              /\ cache # "none"
         \/ Lookup(a) /\ call[a].at = "lookup" /\ call'[a].at = "store"
              /\ call'[a].seen = call[a].seen /\ call'[a].added = call[a].added
              /\ call'[a].verdict = Provenance(call[a].seen)
         \/ Lookup(a) /\ call'[a].at = "commit" /\ call'[a].mode = "public"
         \/ Store(a) /\ call[a].at = "store" /\ call'[a].at = "commit"
              /\ call'[a].mode = ModeOf(call[a].verdict)
              /\ call'[a].added = call[a].added
<1>0. call \in [Agents -> CallType]
  BY DEF TypeOK, CallType
<1>1. NoCall.at = "idle"
  BY DEF NoCall
<1>2. End(a) => call'[a].at = "idle"
  BY <1>0, <1>1 DEF End
<1>3. ASSUME NEW mode, Decide(a, mode)
      PROVE  /\ call'[a].at = "commit" /\ call'[a].mode = mode
             /\ call'[a].asked = call[a].asked /\ call'[a].added = call[a].added
  BY <1>0, <1>3 DEF Decide, CallType
<1>4. CASE Gate(a)
  <2>1. \A asked : [NoCall EXCEPT !.at = "identity", !.asked = asked].at = "identity"
    BY DEF NoCall
  <2>2. PICK asked : call' = [call EXCEPT ![a] = [NoCall EXCEPT !.at = "identity", !.asked = asked]]
    BY <1>4 DEF Gate
  <2> DEFINE new == [NoCall EXCEPT !.at = "identity", !.asked = asked]
  <2>3. new.at = "identity" /\ call' = [call EXCEPT ![a] = new]
    BY <2>1, <2>2
  <2> HIDE DEF new
  <2> QED
    BY <1>0, <2>3
<1>5. CASE ReadRemotes(a)
  <2> DEFINE owned == IF call[a].asked = "auto" THEN Ownership(remotes) ELSE call[a].asked
             asks  == call[a].asked = "auto" /\ owned = "agent" /\ Candidates(remotes) # {}
  <2>1. CASE End(a)
    BY <2>1, <1>2
  <2>2. CASE ~asks /\ Decide(a, owned)
    BY <2>2, <1>3, <1>5
  <2>3. CASE asks /\ call' = [call EXCEPT ![a].at = "cache", ![a].seen = Candidates(remotes)]
    BY <2>3, <1>0, <1>5 DEF CallType
  <2> QED
    BY <1>5, <2>1, <2>2, <2>3 DEF ReadRemotes
<1>6. CASE ReadCache(a)
  <2>1. CASE cache # "none"
    BY <1>6, <2>1, <1>3 DEF ReadCache
  <2>2. CASE cache = "none"
    BY <1>6, <2>2, <1>0 DEF ReadCache, Goto, CallType
  <2> QED
    BY <2>1, <2>2
<1>7. CASE Lookup(a)
  <2>1. CASE call' = [call EXCEPT ![a].at = "store", ![a].verdict = Provenance(call[a].seen)]
    BY <1>7, <2>1, <1>0 DEF Lookup, CallType
  <2>2. CASE Decide(a, ModeWithoutAnswer)
    BY <1>7, <2>2, <1>3 DEF ModeWithoutAnswer
  <2> QED
    BY <1>7, <2>1, <2>2 DEF Lookup
<1>8. CASE Store(a)
  BY <1>8, <1>3 DEF Store
<1>9. CASE NoPublicIdentity(a) \/ Record(a) \/ Crash(a)
  BY <1>9, <1>2 DEF NoPublicIdentity, Record, Crash
<1> QED
  BY <1>4, <1>5, <1>6, <1>7, <1>8, <1>9 DEF OwnStep

(***************************************************************************)
(* Beside a third-party remote                                             *)
(***************************************************************************)

\* A commit on its way to the agent's identity by what the remotes say.
TowardsAgent(c) ==
  \/ c.at \in {"cache", "lookup", "store"}
  \/ c.at = "commit" /\ c.asked = "auto" /\ c.mode = "agent"

\* The remotes that make a commit public, or deny it, by themselves.
Foreign(set) == OfKind(set, {"third", "odd"})

\* Already when it asks about forks, there is no such remote but one added since
\* it read them.
NoThirdPartySeen ==
  \A a \in Agents : TowardsAgent(call[a]) => Foreign(remotes) \subseteq call[a].added

LEMMA OwnershipAgent ==
  ASSUME NEW set, Ownership(set) = "agent"
  PROVE  Foreign(set) = {}
BY DEF Ownership, Foreign, OfKind

LEMMA NoThirdPartySeenStep ==
  TypeOK /\ NoThirdPartySeen /\ [Next]_vars => NoThirdPartySeen'
<1> SUFFICES ASSUME TypeOK, NoThirdPartySeen, [Next]_vars,
                    NEW b \in Agents, TowardsAgent(call'[b])
             PROVE  Foreign(remotes') \subseteq call'[b].added
  BY DEF NoThirdPartySeen, Foreign, OfKind
<1>1. ASSUME UNCHANGED remotes, TowardsAgent(call[b]), call'[b].added = call[b].added
      PROVE  Foreign(remotes') \subseteq call'[b].added
  BY <1>1 DEF NoThirdPartySeen
<1>2. CASE \E a \in Agents : Stage(a)
  BY <1>2, <1>1, StagingFrame DEF TowardsAgent, Stage, SameCall
<1>3. CASE \E a \in Agents : OwnStep(a)
  <2>1. PICK a \in Agents : OwnStep(a)
    BY <1>3
  <2>2. UNCHANGED remotes /\ (b # a => call'[b] = call[b])
    BY <2>1, OwnStepFrame
  <2>3. CASE b # a
    BY <2>2, <2>3, <1>1
  <2>4. CASE b = a
    <3>1. (TowardsAgent(call[a]) /\ call'[a].added = call[a].added) \/ Ownership(remotes) = "agent"
      BY <2>1, <2>4, OwnStepCall DEF TowardsAgent, ReadCache, Lookup, Store, ReadRemotes
    <3> QED
      BY <2>2, <2>4, <3>1, <1>1, OwnershipAgent
  <2> QED
    BY <2>3, <2>4
<1>4. CASE \E r \in Remotes : AddRemote(r) \/ RemoveRemote(r)
  <2>1. PICK r \in Remotes : AddRemote(r) \/ RemoveRemote(r)
    BY <1>4
  <2>2. TowardsAgent(call[b]) /\ call[b].at \notin {"idle", "identity"}
    BY <2>1, RemotesFrame DEF TowardsAgent, SameCall
  <2>3. Foreign(remotes) \subseteq call[b].added
    BY <2>2 DEF NoThirdPartySeen
  <2> QED
    BY <2>1, <2>2, <2>3, RemotesFrame DEF Foreign, OfKind
<1>5. CASE UNCHANGED vars
  BY <1>5, <1>1 DEF vars
<1> QED
  BY <1>2, <1>3, <1>4, <1>5 DEF Next, OwnStep

\* For any set of remotes, in any order of calls and of changes: no commit
\* carries the agent's identity unasked beside a third-party remote, or beside
\* one nobody can read, that was there when the commit read the remotes or was
\* added before.  Only one added in the middle of the commit goes unseen.
THEOREM ThirdPartyGetsPublic == Spec => []PublicBesideThirdParty
<1>1. Init => TypeOK /\ NoThirdPartySeen
  BY TypeInit DEF Init, NoThirdPartySeen, TowardsAgent, NoCall
<1>2. TypeOK /\ NoThirdPartySeen /\ [Next]_vars => (TypeOK /\ NoThirdPartySeen)'
  BY TypeStep, NoThirdPartySeenStep
<1>3. NoThirdPartySeen => PublicBesideThirdParty
  BY DEF NoThirdPartySeen, PublicBesideThirdParty, AgentByRemotes, TowardsAgent, Foreign
<1> QED
  BY <1>1, <1>2, <1>3, PTL DEF Spec

(***************************************************************************)
(* In a fork of somebody else's repository                                 *)
(***************************************************************************)

NoFork(set) == OfKind(set, {"fork"}) = {}

\* What one call knows of forks, when no remote was added behind the lookup.
CallForkSafe(c) ==
  /\ c.at \in {"cache", "lookup", "store"} => OfKind(remotes, {"fork"}) \subseteq c.seen
  /\ c.at = "store" /\ c.verdict = "own" => NoFork(c.seen)
  /\ c.at = "commit" /\ c.asked = "auto" /\ c.mode = "agent"
       => OfKind(remotes, {"fork"}) \subseteq c.added

\* The cached verdict and every verdict under way still cover the remotes.
ForkSafe ==
  ~drift => /\ cache = "own" => NoFork(remotes)
            /\ \A a \in Agents : CallForkSafe(call[a])

LEMMA NoForkFacts ==
  /\ \A set, sub : NoFork(set) /\ sub \subseteq set => NoFork(sub)
  /\ \A set, sub : NoFork(sub) /\ OfKind(set, {"fork"}) \subseteq sub => NoFork(set)
  /\ \A set : OfKind(set, {"fork"}) \subseteq Candidates(set)
  /\ \A set : Candidates(set) = {} => NoFork(set)
  /\ \A set : Provenance(set) = "own" => NoFork(set)
BY DEF NoFork, OfKind, Candidates, Provenance

LEMMA ForkSafeStep == TypeOK /\ ForkSafe /\ [Next]_vars => ForkSafe'
<1> SUFFICES ASSUME TypeOK, ForkSafe, [Next]_vars, ~drift'
             PROVE  /\ cache' = "own" => NoFork(remotes')
                    /\ \A b \in Agents : CallForkSafe(call[b])'
  BY DEF ForkSafe, NoFork, OfKind
<1>0. ~drift
  BY DEF Next, vars, Stage, Gate, ReadRemotes, ReadCache, Lookup, Store,
     NoPublicIdentity, Record, Crash, AddRemote, RemoveRemote
<1>1. /\ cache = "own" => NoFork(remotes)
      /\ \A b \in Agents : CallForkSafe(call[b])
  BY <1>0 DEF ForkSafe
<1>2. CASE \E a \in Agents : Stage(a)
  <2>1. PICK a \in Agents : Stage(a)
    BY <1>2
  <2>2. UNCHANGED <<remotes, cache>>
    BY <2>1 DEF Stage
  <2>3. ASSUME NEW b \in Agents PROVE CallForkSafe(call[b])'
    BY <2>1, <2>2, <1>1, StagingFrame DEF CallForkSafe, NoFork, OfKind, SameCall
  <2> QED
    BY <2>2, <2>3, <1>1
<1>3. CASE \E a \in Agents : OwnStep(a)
  <2>1. PICK a \in Agents : OwnStep(a)
    BY <1>3
  <2>2. UNCHANGED remotes /\ (\A b \in Agents \ {a} : call'[b] = call[b])
    BY <2>1, OwnStepFrame
  <2>3. CallForkSafe(call[a])
    BY <1>1
  <2>4. CallForkSafe(call[a])'
    <3>1. call[a].at \in {"cache", "lookup", "store"}
            => OfKind(remotes, {"fork"}) \subseteq call[a].seen
      BY <2>3 DEF CallForkSafe
    <3>2. ModeOf("own") = "agent" /\ \A v : ModeOf(v) = "agent" => v = "own"
      BY DEF ModeOf
    <3>3. Store(a) /\ call[a].verdict = "own" => NoFork(remotes)
      BY <2>3, <3>1, NoForkFacts DEF CallForkSafe, Store
    <3> QED
      BY <1>1, <2>1, <2>2, <3>1, <3>2, <3>3, OwnStepCall, NoForkFacts
      DEF CallForkSafe, Store, NoFork, OfKind
  <2>5. cache' = "own" => NoFork(remotes')
    <3>1. CASE ~Store(a)
      BY <2>1, <2>2, <3>1, <1>1, OwnStepFrame DEF OwnStep
    <3>2. CASE Store(a)
      <4>1. call[a].verdict = "own" => NoFork(remotes)
        BY <2>3, <3>2, NoForkFacts DEF CallForkSafe, Store
      <4> QED
        BY <2>2, <3>2, <4>1, <1>1 DEF Store
    <3> QED
      BY <3>1, <3>2
  <2> QED
    BY <2>2, <2>4, <2>5, <1>1 DEF CallForkSafe, NoFork, OfKind
<1>4. CASE \E r \in Remotes : AddRemote(r)
  <2>1. PICK r \in Remotes : AddRemote(r)
    BY <1>4
  <2>2. cache = "none" /\ cache' = cache
        /\ \A b \in Agents : call[b].at \notin {"cache", "lookup", "store"}
    BY <2>1 DEF AddRemote
  <2>3. ASSUME NEW b \in Agents PROVE CallForkSafe(call[b])'
    <3>1. CallForkSafe(call[b]) /\ SameCall(call'[b], call[b])
      BY <2>1, <1>1, RemotesFrame
    <3>2. CASE call[b].at = "commit"
      <4>1. remotes' = remotes \union {r} /\ call'[b].added = call[b].added \union {r}
        BY <2>1, <3>2, RemotesFrame
      <4> QED
        BY <3>1, <3>2, <4>1 DEF CallForkSafe, SameCall, OfKind
    <3>3. CASE call[b].at # "commit"
      BY <2>2, <3>1, <3>3 DEF CallForkSafe, SameCall
    <3> QED
      BY <3>2, <3>3
  <2> QED
    BY <2>2, <2>3
<1>5. CASE \E r \in Remotes : RemoveRemote(r)
  <2>1. PICK r \in Remotes : RemoveRemote(r)
    BY <1>5
  <2>2. remotes' = remotes \ {r} /\ cache' = cache
    BY <2>1 DEF RemoveRemote
  <2>3. ASSUME NEW b \in Agents PROVE CallForkSafe(call[b])'
    <3>1. /\ CallForkSafe(call[b]) /\ SameCall(call'[b], call[b])
          /\ call'[b].added = call[b].added \ {r}
      BY <2>1, <1>1, RemotesFrame
    <3> QED
      BY <2>2, <3>1 DEF CallForkSafe, SameCall, OfKind, NoFork
  <2> QED
    BY <2>2, <2>3, <1>1, NoForkFacts
<1>6. CASE UNCHANGED vars
  BY <1>6, <1>1 DEF vars, CallForkSafe, NoFork, OfKind
<1> QED
  BY <1>2, <1>3, <1>4, <1>5, <1>6 DEF Next, OwnStep

\* In a fork no commit carries the agent's identity unasked, whoever fills the
\* cache and whether or not GitHub answers, until a remote is added behind a
\* verdict; a fork added in the middle of a commit goes unseen.
THEOREM ForkGetsPublic == Spec => []PublicInFork
<1>1. Init => TypeOK /\ ForkSafe
  BY TypeInit DEF Init, ForkSafe, CallForkSafe, NoCall
<1>2. TypeOK /\ ForkSafe /\ [Next]_vars => (TypeOK /\ ForkSafe)'
  BY TypeStep, ForkSafeStep
<1>3. ForkSafe => PublicInFork
  BY DEF ForkSafe, CallForkSafe, PublicInFork, AgentByRemotes, NoFork
<1> QED
  BY <1>1, <1>2, <1>3, PTL DEF Spec

(***************************************************************************)
(* Scope                                                                   *)
(***************************************************************************)

\* A step of its own past the gate ends a call or leaves its history alone.
LEMMA LateKept ==
  ASSUME TypeOK, NEW a \in Agents, OwnStep(a), ~Gate(a)
  PROVE  \/ call'[a].at = "idle"
         \/ call[a].at # "idle" /\ call'[a].late = call[a].late
<1>0. call \in [Agents -> CallType] /\ NoCall.at = "idle"
  BY DEF TypeOK, CallType, NoCall
<1>1. \A mode : Decide(a, mode) => call'[a].late = call[a].late
  BY <1>0 DEF Decide, CallType
<1>2. End(a) => call'[a].at = "idle"
  BY <1>0 DEF End
<1>3. CASE ReadRemotes(a)
  <2>1. CASE call' = [call EXCEPT ![a].at = "cache", ![a].seen = Candidates(remotes)]
    BY <1>3, <2>1, <1>0 DEF ReadRemotes, CallType
  <2> QED
    BY <1>3, <2>1, <1>1, <1>2 DEF ReadRemotes
<1>4. CASE ReadCache(a)
  <2>1. CASE Goto(a, "lookup")
    BY <1>4, <2>1, <1>0 DEF ReadCache, Goto, CallType
  <2> QED
    BY <1>4, <2>1, <1>1 DEF ReadCache
<1>5. CASE Lookup(a)
  <2>1. CASE call' = [call EXCEPT ![a].at = "store", ![a].verdict = Provenance(call[a].seen)]
    BY <1>5, <2>1, <1>0 DEF Lookup, CallType
  <2> QED
    BY <1>5, <2>1, <1>1 DEF Lookup
<1>6. CASE Store(a)
  BY <1>6, <1>1 DEF Store
<1>7. CASE NoPublicIdentity(a) \/ Record(a) \/ Crash(a)
  BY <1>7, <1>2 DEF NoPublicIdentity, Record, Crash
<1> QED
  BY <1>3, <1>4, <1>5, <1>6, <1>7 DEF OwnStep

\* Somebody who may stage the path did so in the middle of the call.
StagedLate(c, p) == \E b \in Agents : <<p, b>> \in c.late /\ p \in Scope[b]

LEMMA ScopedStep == TypeOK /\ CommitScoped /\ [Next]_vars => CommitScoped'
<1> SUFFICES ASSUME TypeOK, CommitScoped, [Next]_vars,
                    NEW b \in Agents, call'[b].at # "idle", NEW p \in staged' \ Scope[b]
             PROVE  StagedLate(call'[b], p)
  BY DEF CommitScoped, StagedLate
<1>0. call[b] \in CallType
  BY DEF TypeOK, CallType
<1>1. ASSUME call[b].at # "idle", p \in staged, call[b].late \subseteq call'[b].late
      PROVE  StagedLate(call'[b], p)
  BY <1>1 DEF CommitScoped, StagedLate
<1>2. CASE \E a \in Agents : Stage(a)
  <2>0. PICK a \in Agents : Stage(a)
    BY <1>2
  <2>1. PICK paths \in SUBSET Scope[a] :
          /\ staged' = staged \union paths
          /\ call' = [c \in Agents |->
               IF call[c].at = "idle" THEN call[c]
               ELSE [call[c] EXCEPT !.late = @ \union ((paths \ Scope[c]) \X {a})]]
    BY <2>0 DEF Stage
  <2>2. call[b].at # "idle"
    BY <2>1
  <2>3. call'[b].late = call[b].late \union ((paths \ Scope[b]) \X {a})
    BY <2>1, <2>2, <1>0 DEF CallType
  <2>4. CASE p \in staged
    BY <2>2, <2>3, <2>4, <1>1
  <2>5. CASE p \in paths
    <3>1. <<p, a>> \in call'[b].late /\ p \in Scope[a]
      BY <2>3, <2>5
    <3> QED
      BY <3>1 DEF StagedLate
  <2> QED
    BY <2>1, <2>4, <2>5
<1>3. CASE \E a \in Agents : Record(a)
  BY <1>3 DEF Record
<1>4. CASE \E a \in Agents : OwnStep(a) /\ ~Record(a)
  <2>1. PICK a \in Agents : OwnStep(a) /\ ~Record(a)
    BY <1>4
  <2>2. UNCHANGED staged
    BY <2>1 DEF OwnStep, Gate, ReadRemotes, ReadCache, Lookup, Store, NoPublicIdentity, Crash
  <2>3. CASE b # a
    BY <2>1, <2>2, <2>3, <1>1, OwnStepFrame
  <2>4. CASE b = a /\ Gate(a)
    BY <2>2, <2>4 DEF Gate, GatePassed
  <2>5. CASE b = a /\ ~Gate(a)
    BY <2>1, <2>2, <2>5, <1>1, LateKept
  <2> QED
    BY <2>3, <2>4, <2>5
<1>5. CASE \E r \in Remotes : AddRemote(r) \/ RemoveRemote(r)
  <2>1. UNCHANGED staged
    BY <1>5 DEF AddRemote, RemoveRemote
  <2> QED
    BY <2>1, <1>1, <1>5, RemotesFrame DEF SameCall
<1>6. CASE UNCHANGED vars
  BY <1>6, <1>1 DEF vars
<1> QED
  BY <1>2, <1>3, <1>4, <1>5, <1>6 DEF Next, OwnStep

\* Whatever the scopes are, whoever staged and however many commit at once: a
\* path of a commit is in its agent's scope, or was staged in the middle of the
\* commit by an agent whose scope has it.
THEOREM CommitInScope == Spec => []CommitScoped
<1>1. Init => TypeOK /\ CommitScoped
  BY TypeInit DEF Init, CommitScoped, NoCall
<1>2. TypeOK /\ CommitScoped /\ [Next]_vars => (TypeOK /\ CommitScoped)'
  BY TypeStep, ScopedStep
<1> QED
  BY <1>1, <1>2, PTL DEF Spec
===============================================================================
