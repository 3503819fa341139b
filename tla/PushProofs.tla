------------------------------ MODULE PushProofs ------------------------------
(***************************************************************************)
(* Theorems about Push for any number of clones, calls and commits.        *)
(***************************************************************************)
EXTENDS Push, TLAPS

(***************************************************************************)
(* Type correctness                                                        *)
(***************************************************************************)

\* The fields of a call in progress, whatever commits exist.
CallType ==
  [at : {"idle", "read", "lease", "reply", "delete"}, tool : {"push", "lease", "delete"},
   sha : Nat, expected : Nat, answer : {"none", "ok", "error", "absent", "deleted"},
   sent : Nat, onDefault : BOOLEAN, renamed : BOOLEAN]

\* What a call may know of the commits, and where its tool may be.
CallOK(r) ==
  /\ r \in CallType
  /\ r.sha \in 0 .. made
  /\ r.sent \in 0 .. made
  /\ \/ r.at = "idle"
     \/ r.at \in {"read", "reply"} /\ r.tool \in {"push", "lease"}
     \/ r.at = r.tool /\ r.tool \in {"lease", "delete"}

TypeInv ==
  /\ TypeOK
  /\ call \in [Calls -> CallType]

\* The steps of one call.
CallStep(c) ==
  \/ StartPush(c) \/ PushLands(c) \/ PushRefused(c) \/ PushAnswerLost(c) \/ ReplyPush(c)
  \/ StartLease(c) \/ AskDefault(c) \/ ReplyLease(c)
  \/ LookRemote(c) \/ DeleteRemote(c) \/ DeleteFails(c)

LEMMA NextSteps ==
  ASSUME [Next]_vars
  PROVE  \/ \E k \in Clones : CommitOn(k) \/ Rebase(k) \/ Pull(k)
         \/ RenameDefault
         \/ \E c \in Calls : CallStep(c)
         \/ UNCHANGED vars
BY DEF Next, CallStep

\* No commit is a commit number too.
LEMMA NoRefType == NoRef \in Nat /\ \A n \in Nat : NoRef \in 0 .. n
BY DEF NoRef

LEMMA TypeInvInit == Init => TypeInv
<1> SUFFICES ASSUME Init PROVE TypeInv
  OBVIOUS
<1>1. made \in Commits /\ 1 \in Commits
  BY PushAssumption DEF Init, Commits
<1>2. past \in [Commits -> SUBSET (1 .. made)]
  BY <1>1 DEF Init
<1>3. NoCall \in CallType
  BY NoRefType DEF NoCall, CallType
<1>4. \A c \in Calls : call[c] = NoCall
  BY DEF Init
<1>5. local \in [Clones -> 1 .. made] /\ track \in [Clones -> 0 .. made] /\ remote \in 0 .. made
  BY DEF Init
<1> QED
  BY <1>1, <1>2, <1>3, <1>4, <1>5, NoRefType DEF Init, TypeInv, TypeOK, NoCall

\* A call's records stay well-formed under the operators that change them.
LEMMA AnsweredOK ==
  ASSUME NEW r, CallOK(r), made \in Nat, NEW a \in {"ok", "error", "absent", "deleted"}
  PROVE  CallOK(Answered(r, a)) /\ Answered(r, a).at = "idle" /\ Answered(r, a).answer = a
         /\ Answered(r, a).sent = r.sent /\ Answered(r, a).tool = r.tool
         /\ Answered(r, a).onDefault = r.onDefault /\ Answered(r, a).renamed = r.renamed
BY NoRefType DEF CallOK, CallType, Answered

LEMMA BegunOK ==
  ASSUME TypeInv, NEW c \in Calls, NEW tool \in {"push", "lease"}
  PROVE  CallOK(Begun(c, tool))
<1>1. local[CloneOf[c]] \in 1 .. made /\ made \in Nat
  BY PushAssumption DEF TypeInv, TypeOK, Commits
<1>2. local[CloneOf[c]] \in Nat /\ local[CloneOf[c]] \in 0 .. made /\ NoRef \in 0 .. made
  BY <1>1, NoRefType
<1> QED
  BY <1>2, NoRefType DEF CallOK, CallType, Begun, NoCall

LEMMA CallsOK == TypeInv => made \in Nat \ {0} /\ \A c \in Calls : CallOK(call[c])
BY PushAssumption DEF TypeInv, TypeOK, CallOK, Commits

\* A step of a call changes that call and no other; it makes no commit.
LEMMA CallStepFrame ==
  ASSUME TypeInv, NEW c \in Calls, CallStep(c)
  PROVE  /\ \E r : CallOK(r) /\ call' = [call EXCEPT ![c] = r]
         /\ UNCHANGED <<made, past, local, server>>
         /\ remote' \in {remote, NoRef, local[CloneOf[c]]}
         /\ track' \in [Clones -> 0 .. made]
<1>0. CallOK(call[c]) /\ made \in Nat \ {0} /\ CloneOf[c] \in Clones
  BY CallsOK, PushAssumption
<1>a. track \in [Clones -> 0 .. made] /\ remote \in 0 .. made
      /\ local[CloneOf[c]] \in 1 .. made
  BY <1>0 DEF TypeInv, TypeOK
<1>1. CASE StartPush(c)
  BY <1>1, <1>a, BegunOK DEF StartPush, refs
<1>2. CASE PushLands(c)
  <2> DEFINE r == [call[c] EXCEPT !.at = "reply", !.sent = local[CloneOf[c]],
                                  !.onDefault = isDefault]
  <2>1. CallOK(r)
    <3>1. isDefault \in BOOLEAN /\ local[CloneOf[c]] \in Nat
      BY <1>0, <1>a DEF TypeInv, TypeOK
    <3>2. call[c].tool \in {"push", "lease"}
      BY <1>2, <1>0 DEF PushLands, AtPush, CallOK
    <3>3. r \in CallType /\ r.sha = call[c].sha /\ r.sent = local[CloneOf[c]] /\ r.at = "reply"
          /\ r.tool = call[c].tool
      BY <1>0, <3>1 DEF CallOK, CallType
    <3> QED
      BY <1>0, <1>a, <3>2, <3>3 DEF CallOK
  <2>2. call' = [call EXCEPT ![c] = r]
    BY <1>2, <1>0 DEF PushLands, Landed, CallOK, CallType, TypeInv
  <2>3. track' \in [Clones -> 0 .. made]
    BY <1>2, <1>0, <1>a DEF PushLands, Landed
  <2> QED
    BY <1>2, <2>1, <2>2, <2>3 DEF PushLands, Landed
<1>3. CASE PushRefused(c)
  BY <1>3, <1>0, <1>a, AnsweredOK DEF PushRefused, Answer, refs
<1>4. CASE PushAnswerLost(c)
  <2> DEFINE r == [Answered(call[c], "error") EXCEPT !.onDefault = isDefault]
  <2>1. CallOK(r)
    BY <1>0, AnsweredOK DEF CallOK, CallType, TypeInv, TypeOK
  <2> QED
    BY <1>4, <2>1, <1>a DEF PushAnswerLost, TypeInv
<1>5. CASE ReplyPush(c)
  BY <1>5, <1>0, <1>a, AnsweredOK DEF ReplyPush, Answer, refs
<1>6. CASE StartLease(c)
  <2> PICK seen \in 1 .. made :
        call' = [call EXCEPT ![c] = [Begun(c, "lease") EXCEPT !.expected = seen]]
    BY <1>6 DEF StartLease
  <2>1. CallOK([Begun(c, "lease") EXCEPT !.expected = seen])
    BY <1>0, BegunOK DEF CallOK, CallType
  <2> QED
    BY <1>6, <2>1, <1>a DEF StartLease, refs
<1>7. CASE AskDefault(c)
  <2>1. CallOK([call[c] EXCEPT !.at = "lease"])
    BY <1>7, <1>0 DEF AskDefault, CallOK, CallType
  <2>2. CASE call' = [call EXCEPT ![c].at = "lease"]
    BY <1>7, <2>1, <2>2, <1>a DEF AskDefault, refs, TypeInv
  <2>3. CASE Answer(c, "error")
    BY <1>7, <2>3, <1>0, <1>a, AnsweredOK DEF AskDefault, Answer, refs
  <2> QED
    BY <1>7, <2>2, <2>3 DEF AskDefault
<1>8. CASE ReplyLease(c)
  <2> DEFINE now == track[CloneOf[c]]
             r == [Answered(call[c], "ok") EXCEPT !.sha = IF now = NoRef THEN @ ELSE now]
  <2>1. CallOK(r)
    <3>1. now \in 0 .. made
      BY <1>0, <1>a
    <3> HIDE DEF now
    <3> QED
      BY <3>1, <1>0, AnsweredOK DEF CallOK, CallType
  <2>2. call' = [call EXCEPT ![c] = r] /\ UNCHANGED <<refs, server>>
    BY <1>8 DEF ReplyLease
  <2> HIDE DEF r
  <2> QED
    BY <2>1, <2>2, <1>a DEF refs
<1>9. CASE LookRemote(c)
  <2>1. CallOK([NoCall EXCEPT !.tool = "delete", !.answer = "absent"])
    BY <1>0, NoRefType DEF CallOK, CallType, NoCall
  <2>2. CallOK([NoCall EXCEPT !.at = "delete", !.tool = "delete", !.sha = remote])
    <3>1. remote \in Nat /\ NoRef \in 0 .. made
      BY <1>0, <1>a, NoRefType
    <3> QED
      BY <3>1, <1>a, NoRefType DEF CallOK, CallType, NoCall
  <2> QED
    BY <1>9, <2>1, <2>2, <1>a DEF LookRemote, refs
<1>10. CASE DeleteRemote(c)
  BY <1>10, <1>0, <1>a, AnsweredOK, NoRefType DEF DeleteRemote, Answer
<1>11. CASE DeleteFails(c)
  BY <1>11, <1>0, <1>a, AnsweredOK DEF DeleteFails, Answer
<1> QED
  BY <1>1, <1>2, <1>3, <1>4, <1>5, <1>6, <1>7, <1>8, <1>9, <1>10, <1>11 DEF CallStep

\* A step outside of the calls' own: what it does to the calls.
LEMMA TypeInvStep == TypeInv /\ [Next]_vars => TypeInv'
<1> SUFFICES ASSUME TypeInv, [Next]_vars PROVE TypeInv'
  OBVIOUS
<1>0. made \in Nat \ {0} /\ \A c \in Calls : CallOK(call[c])
  BY CallsOK
<1>1. ASSUME NEW k \in Clones, NEW before \in SUBSET (1 .. made), NewCommit(k, before)
      PROVE  TypeInv'
  <2>1. made' = made + 1 /\ made' \in Commits
    BY <1>1, <1>0, PushAssumption DEF NewCommit, Commits
  <2>2. past' \in [Commits -> SUBSET (1 .. made')]
    <3>1. \A i \in Commits : past[i] \subseteq 1 .. made + 1
      BY <1>0 DEF TypeInv, TypeOK
    <3>2. before \union {made + 1} \subseteq 1 .. made + 1
      BY <1>0
    <3> QED
      BY <1>1, <2>1, <3>1, <3>2 DEF NewCommit, TypeInv, TypeOK
  <2>3. local' \in [Clones -> 1 .. made'] /\ track' \in [Clones -> 0 .. made']
        /\ remote' \in 0 .. made' /\ isDefault' \in BOOLEAN /\ tells' \in BOOLEAN
    BY <1>1, <1>0, <2>1 DEF NewCommit, TypeInv, TypeOK, server
  <2>4. \A c \in Calls : call[c].sha \in 0 .. made' /\ call[c].sent \in 0 .. made'
    BY <1>0, <2>1 DEF CallOK
  <2> QED
    BY <1>1, <2>1, <2>2, <2>3, <2>4 DEF NewCommit, TypeInv, TypeOK
<1>2. CASE \E k \in Clones : CommitOn(k) \/ Rebase(k)
  <2> PICK k \in Clones : CommitOn(k) \/ Rebase(k)
    BY <1>2
  <2>1. past[local[k]] \subseteq 1 .. made
    BY <1>0, PushAssumption DEF TypeInv, TypeOK, Commits
  <2> QED
    BY <2>1, <1>1 DEF CommitOn, Rebase
<1>3. CASE \E k \in Clones : Pull(k)
  BY <1>3, <1>0 DEF Pull, TypeInv, TypeOK, NoRef, server
<1>4. CASE RenameDefault
  <2>1. \A c \in Calls : [call[c] EXCEPT !.renamed = @ \/ call[c].at # "idle"] \in CallType
    BY <1>0 DEF CallOK, CallType
  <2>2. call' \in [Calls -> CallType]
    BY <1>4, <2>1 DEF RenameDefault
  <2>3. \A c \in Calls : /\ call'[c].sha = call[c].sha /\ call'[c].sent = call[c].sent
                         /\ call'[c].answer = call[c].answer /\ call'[c].at = call[c].at
                         /\ call'[c].tool = call[c].tool
    BY <1>4, <1>0 DEF RenameDefault, CallOK, CallType
  <2> QED
    BY <1>4, <2>2, <2>3 DEF RenameDefault, refs, TypeInv, TypeOK
<1>5. CASE \E c \in Calls : CallStep(c)
  <2> PICK c \in Calls : CallStep(c)
    BY <1>5
  <2> PICK r : CallOK(r) /\ call' = [call EXCEPT ![c] = r]
    BY CallStepFrame
  <2>1. UNCHANGED <<made, past, local, server>> /\ remote' \in {remote, NoRef, local[CloneOf[c]]}
        /\ track' \in [Clones -> 0 .. made]
    BY CallStepFrame
  <2>2. remote' \in 0 .. made
    <3>1. remote \in 0 .. made /\ NoRef \in 0 .. made /\ local[CloneOf[c]] \in 1 .. made
      BY <1>0, PushAssumption, NoRefType DEF TypeInv, TypeOK
    <3> QED
      BY <1>0, <2>1, <3>1
  <2>3. call' \in [Calls -> CallType]
    BY DEF TypeInv, CallOK
  <2>4. \A d \in Calls : CallOK(call'[d])
    BY <1>0 DEF TypeInv
  <2>5. \A d \in Calls : call'[d].answer \in {"none", "ok", "error", "absent", "deleted"}
    BY <2>3 DEF CallType
  <2> QED
    BY <2>1, <2>2, <2>3, <2>4, <2>5 DEF TypeInv, TypeOK, CallOK, server
<1>6. CASE UNCHANGED vars
  BY <1>6 DEF vars, TypeInv, TypeOK, Commits
<1> QED
  BY <1>2, <1>3, <1>4, <1>5, <1>6, NextSteps

LEMMA TypeInvAlways == Spec => []TypeInv
BY TypeInvInit, TypeInvStep, PTL DEF Spec

\* Type correctness of the refs and of every running call.
THEOREM PushTypes == Spec => []TypeOK
<1>1. TypeInv => TypeOK
  BY DEF TypeInv
<1> QED
  BY <1>1, TypeInvAlways, PTL

(***************************************************************************)
(* What an answer of success stands for                                    *)
(***************************************************************************)

\* Commits reach only older ones.
Older == \A n \in 1 .. made : past[n] \subseteq 1 .. n

LEMMA OlderStep == TypeInv /\ Older /\ [Next]_vars => Older'
<1> SUFFICES ASSUME TypeInv, Older, [Next]_vars PROVE Older'
  OBVIOUS
<1>0. made \in Nat \ {0} /\ past \in [Commits -> SUBSET (1 .. made)]
  BY CallsOK DEF TypeInv, TypeOK
<1>1. ASSUME NEW k \in Clones, NEW before \in SUBSET (1 .. made), NewCommit(k, before) PROVE Older'
  <2>1. made + 1 \in Commits /\ made' = made + 1
    BY <1>0, <1>1, PushAssumption DEF NewCommit, Commits
  <2>2. past'[made + 1] = before \union {made + 1}
        /\ \A n \in Commits \ {made + 1} : past'[n] = past[n]
    BY <1>0, <1>1, <2>1 DEF NewCommit
  <2>3. \A n \in 1 .. made : n \in Commits \ {made + 1}
    BY <1>0, <2>1, PushAssumption DEF Commits
  <2>4. \A n \in 1 .. made + 1 : n = made + 1 \/ n \in 1 .. made
    BY <1>0
  <2>5. before \union {made + 1} \subseteq 1 .. made + 1
    BY <1>0
  <2> QED
    BY <2>1, <2>2, <2>3, <2>4, <2>5 DEF Older
<1>2. CASE \E k \in Clones : CommitOn(k) \/ Rebase(k)
  <2> PICK k \in Clones : CommitOn(k) \/ Rebase(k)
    BY <1>2
  <2>1. past[local[k]] \subseteq 1 .. made
    BY <1>0, PushAssumption DEF TypeInv, TypeOK, Commits
  <2> QED
    BY <2>1, <1>1 DEF CommitOn, Rebase
<1>3. CASE UNCHANGED <<made, past>>
  BY <1>3 DEF Older
<1>4. CASE \E c \in Calls : CallStep(c)
  BY <1>3, <1>4, CallStepFrame
<1> QED
  BY <1>2, <1>3, <1>4, NextSteps DEF Pull, RenameDefault, refs, vars

\* The tip of a clone only ever moves to a newer commit: one just made, or one
\* that reaches it.
LEMMA TipsMoveOn ==
  ASSUME TypeInv, Older, [Next]_vars, NEW k \in Clones
  PROVE  local[k] \in Nat /\ local'[k] \in Nat /\ local[k] <= local'[k]
<1>0. made \in Nat \ {0} /\ local \in [Clones -> 1 .. made] /\ remote \in 0 .. made
  BY CallsOK DEF TypeInv, TypeOK
<1>1. local[k] \in Nat /\ local[k] <= made
  BY <1>0
<1>2. CASE UNCHANGED local
  BY <1>1, <1>2
<1>3. ASSUME NEW j \in Clones, NEW before, NewCommit(j, before)
      PROVE  local'[k] = local[k] \/ local'[k] = made + 1
  BY <1>0, <1>3 DEF NewCommit
<1>4. ASSUME NEW j \in Clones, Pull(j)
      PROVE  local'[k] = local[k] \/ (local'[k] = remote /\ local[k] <= remote)
  <2>1. CASE local'[k] = local[k]
    BY <2>1
  <2>2. CASE local'[k] # local[k]
    <3>1. local'[k] = remote /\ local[k] \in past[remote]
      BY <1>0, <1>4, <2>2 DEF Pull
    <3>2. remote \in 1 .. made
      BY <1>0, <1>4 DEF Pull, NoRef
    <3>3. local[k] \in 1 .. remote
      BY <3>1, <3>2 DEF Older
    <3> QED
      BY <3>1, <3>2, <3>3
  <2> QED
    BY <2>1, <2>2
<1>5. CASE local'[k] = local[k] \/ local'[k] = made + 1 \/ (local'[k] = remote /\ local[k] <= remote)
  BY <1>0, <1>1, <1>5
<1>6. CASE \E c \in Calls : CallStep(c)
  BY <1>2, <1>6, CallStepFrame
<1> QED
  BY <1>2, <1>3, <1>4, <1>5, <1>6, NextSteps DEF CommitOn, Rebase, RenameDefault, refs, vars

\* What a call has sent, and may report: before its push, a commit that its
\* branch has not gone behind; from then on, none newer than the one it sent.
Sent(r, tip) ==
  /\ r.answer = "ok" \/ r.at = "reply" =>
       r.sent # NoRef /\ (r.tool = "push" => r.sha <= r.sent)
  /\ r.at = "read" /\ r.tool = "push" => r.sha <= tip

SentInv ==
  /\ Older
  /\ \A c \in Calls : Sent(call[c], local[CloneOf[c]])

\* Every result that GitPython gives for a push that did not land is a failure.
LEMMA RefusalsFail == \A result \in Refusals : Failed(result)
BY DEF Refusals, Failed

LEMMA SentStep == TypeInv /\ SentInv /\ [Next]_vars => SentInv'
<1> SUFFICES ASSUME TypeInv, SentInv, [Next]_vars PROVE SentInv'
  OBVIOUS
<1> DEFINE Tip(c) == local[CloneOf[c]]
<1>0. made \in Nat \ {0} /\ \A c \in Calls : CallOK(call[c]) /\ Sent(call[c], Tip(c))
  BY CallsOK DEF SentInv
<1>t. \A c \in Calls : Tip(c) \in Nat \ {0} /\ Tip(c)' \in Nat /\ Tip(c) <= Tip(c)'
  BY TipsMoveOn, PushAssumption DEF SentInv, TypeInv, TypeOK
<1> SUFFICES \A c \in Calls : Sent(call'[c], Tip(c)')
  BY OlderStep DEF SentInv
\* Where the tip goes, a call may follow.
<1>m. ASSUME NEW c \in Calls, NEW r, CallOK(r), Sent(r, Tip(c)) PROVE Sent(r, Tip(c)')
  <2>1. r.sha \in Nat
    BY <1>m DEF CallOK, CallType
  <2>2. r.sha <= Tip(c) => r.sha <= Tip(c)'
    BY <1>t, <2>1
  <2> QED
    BY <1>m, <2>2 DEF Sent
<1>1. CASE UNCHANGED call
  BY <1>0, <1>1, <1>m
<1>2. CASE RenameDefault
  <2> SUFFICES ASSUME NEW c \in Calls PROVE Sent(call'[c], Tip(c)')
    OBVIOUS
  <2>1. CallOK(call[c]) /\ Sent(call[c], Tip(c)) /\ Tip(c)' = Tip(c)
    BY <1>0, <1>2 DEF RenameDefault, refs
  <2>2. call'[c] = [call[c] EXCEPT !.renamed = @ \/ call[c].at # "idle"]
    BY <1>2 DEF RenameDefault
  <2> QED
    BY <2>1, <2>2 DEF Sent, CallOK, CallType
<1>3. ASSUME NEW c \in Calls, CallStep(c) PROVE Sent(call'[c], Tip(c))
  <2>0. CallOK(call[c]) /\ Sent(call[c], Tip(c)) /\ call \in [Calls -> CallType] /\ Tip(c) \in Nat \ {0}
    BY <1>0, <1>t DEF TypeInv
  <2>1. CASE StartPush(c)
    BY <2>0, <2>1 DEF StartPush, Begun, NoCall, Sent
  <2>2. CASE PushLands(c)
    BY <2>0, <2>2 DEF PushLands, Landed, AtPush, CallOK, CallType, Sent, NoRef
  <2>3. CASE PushRefused(c)
    BY <1>0, <2>0, <2>3, AnsweredOK, RefusalsFail DEF PushRefused, Answer, Sent
  <2>4. CASE PushAnswerLost(c)
    BY <2>0, <2>4 DEF PushAnswerLost, Answered, CallOK, CallType, Sent
  <2>5. CASE ReplyPush(c)
    BY <2>0, <2>5 DEF ReplyPush, Answer, Answered, CallOK, CallType, Sent
  <2>6. CASE StartLease(c)
    BY <2>0, <2>6 DEF StartLease, Begun, NoCall, Sent
  <2>7. CASE AskDefault(c)
    BY <1>0, <2>0, <2>7, AnsweredOK DEF AskDefault, Answer, CallOK, CallType, Sent
  <2>8. CASE ReplyLease(c)
    BY <2>0, <2>8 DEF ReplyLease, Answered, CallOK, CallType, Sent
  <2>9. CASE LookRemote(c)
    BY <2>0, <2>9 DEF LookRemote, NoCall, Sent
  <2>10. CASE DeleteRemote(c)
    BY <1>0, <2>0, <2>10, AnsweredOK DEF DeleteRemote, Answer, Sent
  <2>11. CASE DeleteFails(c)
    BY <1>0, <2>0, <2>11, AnsweredOK DEF DeleteFails, Answer, Sent
  <2> QED
    BY <1>3, <2>1, <2>2, <2>3, <2>4, <2>5, <2>6, <2>7, <2>8, <2>9, <2>10, <2>11 DEF CallStep
<1>4. CASE \E c \in Calls : CallStep(c)
  <2> PICK c \in Calls : CallStep(c)
    BY <1>4
  <2>1. (\A d \in Calls \ {c} : call'[d] = call[d]) /\ local' = local
    BY CallStepFrame DEF TypeInv
  <2> QED
    BY <1>0, <1>3, <2>1
<1> QED
  BY <1>1, <1>2, <1>4, NextSteps DEF CommitOn, Rebase, NewCommit, Pull, vars

\* A push that answers ok has put a commit on the remote: no refusal, and no
\* result without an entry, passes for success.  It names a commit no newer than
\* the one it sent, whatever is committed, rebased or pulled in its clone while it runs.
THEOREM PushOkMeansSent == Spec => []OkMeansSent
<1>1. Init => SentInv
  <2>1. Init => \A c \in Calls : Sent(call[c], local[CloneOf[c]])
    BY DEF Init, Sent, NoCall
  <2>2. Init => Older
    BY PushAssumption DEF Init, Older, Commits
  <2> QED
    BY <2>1, <2>2 DEF SentInv
<1>2. SentInv => OkMeansSent
  BY DEF SentInv, Sent, OkMeansSent
<1> QED
  BY <1>1, <1>2, SentStep, TypeInvAlways, PTL DEF Spec

(***************************************************************************)
(* The default branch                                                      *)
(***************************************************************************)

\* The server leaves it to the clone to name the default, and the clone names
\* another branch.
Misnamed(c) == ~tells /\ HeadRef[CloneOf[c]] = "other"

\* Past the question, the branch is the remote's default only if it became so
\* since the call began, or was misnamed.
AskedDefault ==
  /\ DefaultProtected
  /\ \A c \in Calls : call[c].at = "lease" /\ isDefault => call[c].renamed \/ Misnamed(c)

LEMMA ProtectedStep == TypeInv /\ AskedDefault /\ [Next]_vars => AskedDefault'
<1> SUFFICES ASSUME TypeInv, AskedDefault, [Next]_vars PROVE AskedDefault'
  OBVIOUS
<1> DEFINE Kept(r, default, misnamed) ==
      /\ r.tool = "lease" /\ r.onDefault => r.renamed \/ misnamed
      /\ r.at = "lease" /\ default => r.renamed \/ misnamed
<1>0. /\ made \in Nat \ {0}
      /\ \A c \in Calls : CallOK(call[c]) /\ Kept(call[c], isDefault, Misnamed(c))
  BY CallsOK DEF AskedDefault, DefaultProtected, Misnamed
<1>t. tells' = tells
  <2>1. (\E c \in Calls : CallStep(c)) => tells' = tells
    BY CallStepFrame DEF server
  <2> QED
    BY <2>1, NextSteps DEF CommitOn, Rebase, NewCommit, Pull, RenameDefault, server, vars
<1>u. \A c \in Calls : Misnamed(c)' = Misnamed(c)
  BY <1>t DEF Misnamed
<1> SUFFICES \A c \in Calls : Kept(call'[c], isDefault', Misnamed(c))
  BY <1>u DEF AskedDefault, DefaultProtected, Misnamed
<1>1. CASE UNCHANGED <<call, isDefault>>
  BY <1>0, <1>1
<1>2. CASE RenameDefault
  <2> SUFFICES ASSUME NEW c \in Calls PROVE Kept(call'[c], isDefault', Misnamed(c))
    OBVIOUS
  <2>1. CallOK(call[c]) /\ Kept(call[c], isDefault, Misnamed(c))
    BY <1>0
  <2>2. call'[c] = [call[c] EXCEPT !.renamed = @ \/ call[c].at # "idle"]
    BY <1>2 DEF RenameDefault
  <2> QED
    BY <2>1, <2>2 DEF CallOK, CallType
<1>3. ASSUME NEW c \in Calls, CallStep(c) PROVE Kept(call'[c], isDefault, Misnamed(c))
  <2>0. CallOK(call[c]) /\ Kept(call[c], isDefault, Misnamed(c)) /\ call \in [Calls -> CallType]
    BY <1>0 DEF TypeInv
  <2>1. CASE StartPush(c)
    BY <2>0, <2>1 DEF StartPush, Begun, NoCall
  <2>2. CASE PushLands(c)
    BY <2>0, <2>2 DEF PushLands, Landed, AtPush, CallOK, CallType
  <2>3. CASE PushRefused(c)
    BY <1>0, <2>0, <2>3, AnsweredOK, RefusalsFail DEF PushRefused, Answer
  <2>4. CASE PushAnswerLost(c)
    BY <2>0, <2>4 DEF PushAnswerLost, Answered, AtPush, CallOK, CallType
  <2>5. CASE ReplyPush(c)
    BY <1>0, <2>0, <2>5, AnsweredOK DEF ReplyPush, Answer
  <2>6. CASE StartLease(c)
    BY <2>0, <2>6 DEF StartLease, Begun, NoCall
  <2>7. CASE AskDefault(c)
    <3>1. CASE Answer(c, "error")
      BY <1>0, <2>0, <3>1, AnsweredOK DEF Answer
    <3>2. CASE (~isDefault \/ Misnamed(c)) /\ call' = [call EXCEPT ![c].at = "lease"]
      BY <2>0, <3>2 DEF CallOK, CallType
    <3>3. ASSUME NEW protected \in DefaultAnswers(CloneOf[c]), ~protected
          PROVE  ~isDefault \/ Misnamed(c)
      BY <3>3 DEF DefaultAnswers, DefaultByClone, Misnamed, TypeInv, TypeOK
    <3> QED
      BY <2>7, <3>1, <3>2, <3>3 DEF AskDefault
  <2>8. CASE ReplyLease(c)
    BY <2>0, <2>8 DEF ReplyLease, Answered, CallOK, CallType
  <2>9. CASE LookRemote(c)
    BY <2>0, <2>9 DEF LookRemote, NoCall
  <2>10. CASE DeleteRemote(c)
    BY <1>0, <2>0, <2>10, AnsweredOK DEF DeleteRemote, Answer
  <2>11. CASE DeleteFails(c)
    BY <1>0, <2>0, <2>11, AnsweredOK DEF DeleteFails, Answer
  <2> QED
    BY <1>3, <2>1, <2>2, <2>3, <2>4, <2>5, <2>6, <2>7, <2>8, <2>9, <2>10, <2>11 DEF CallStep
<1>4. CASE \E c \in Calls : CallStep(c)
  <2> PICK c \in Calls : CallStep(c)
    BY <1>4
  <2>1. (\A d \in Calls \ {c} : call'[d] = call[d]) /\ isDefault' = isDefault
    BY CallStepFrame DEF TypeInv, server
  <2> QED
    BY <1>0, <1>3, <2>1
<1> QED
  BY <1>1, <1>2, <1>4, NextSteps DEF CommitOn, Rebase, NewCommit, Pull, server, vars

\* A push with a lease never rewrites the remote's default branch, whatever the
\* clones know of it, unless it became the default while the call ran, or the
\* server omits to say what its default is and the clone still names another.
THEOREM DefaultNeverRewritten == Spec => []DefaultProtected
<1>1. Init => AskedDefault
  BY DEF Init, AskedDefault, DefaultProtected, NoCall
<1>2. AskedDefault => DefaultProtected
  BY DEF AskedDefault
<1> QED
  BY <1>1, <1>2, ProtectedStep, TypeInvAlways, PTL DEF Spec

(***************************************************************************)
(* What a push replaces                                                    *)
(***************************************************************************)

\* Every commit is reachable from itself.
Reflexive == \A n \in 1 .. made : n \in past[n]

LEMMA ReflexiveStep == TypeInv /\ Reflexive /\ [Next]_vars => Reflexive'
<1> SUFFICES ASSUME TypeInv, Reflexive, [Next]_vars PROVE Reflexive'
  OBVIOUS
<1>0. made \in Nat \ {0} /\ past \in [Commits -> SUBSET (1 .. made)]
  BY CallsOK DEF TypeInv, TypeOK
<1>1. ASSUME NEW k \in Clones, NEW before, NewCommit(k, before) PROVE Reflexive'
  <2>1. made + 1 \in Commits /\ made' = made + 1
    BY <1>0, <1>1, PushAssumption DEF NewCommit, Commits
  <2>2. past'[made + 1] = before \union {made + 1}
        /\ \A n \in Commits \ {made + 1} : past'[n] = past[n]
    BY <1>0, <1>1, <2>1 DEF NewCommit
  <2>3. \A n \in 1 .. made : n \in Commits \ {made + 1}
    BY <1>0, <2>1, PushAssumption DEF Commits
  <2>4. \A n \in 1 .. made + 1 : n = made + 1 \/ n \in 1 .. made
    BY <1>0
  <2> QED
    BY <2>1, <2>2, <2>3, <2>4 DEF Reflexive
<1>2. CASE UNCHANGED <<made, past>>
  BY <1>2 DEF Reflexive
<1>3. CASE \E c \in Calls : CallStep(c)
  BY <1>2, <1>3, CallStepFrame
<1> QED
  BY <1>1, <1>2, <1>3, NextSteps DEF CommitOn, Rebase, Pull, RenameDefault, refs, vars

\* A step of a call that puts another commit on the remote is a push that
\* landed: a fast-forward, or one whose lease named what was there.
LEMMA RemoteMovesByPush ==
  ASSUME TypeInv, NEW c \in Calls, CallStep(c), remote' # remote, remote' # NoRef
  PROVE  /\ remote' = local[CloneOf[c]]
         /\ \/ FastForward(CloneOf[c])
            \/ call[c].at = "lease" /\ call'[c].at # "lease" /\ call[c].expected = remote
<1>0. CallOK(call[c]) /\ made \in Nat \ {0} /\ call \in [Calls -> CallType]
  BY CallsOK DEF TypeInv
<1>1. PushLands(c) \/ PushAnswerLost(c)
  BY DEF CallStep, StartPush, PushRefused, ReplyPush, StartLease, AskDefault, ReplyLease,
         LookRemote, DeleteRemote, DeleteFails, refs
<1>2. remote' = local[CloneOf[c]] /\ Allowed(c) /\ AtPush(c)
  BY <1>1 DEF PushLands, PushAnswerLost, Landed
<1>3. call'[c].at # "lease"
  <2>1. CASE PushLands(c)
    BY <1>0, <2>1 DEF PushLands, Landed, CallOK, CallType
  <2>2. CASE PushAnswerLost(c)
    BY <1>0, <2>2 DEF PushAnswerLost, Answered, CallOK, CallType
  <2> QED
    BY <1>1, <2>1, <2>2
<1> QED
  BY <1>2, <1>3 DEF Allowed, AtPush, LeaseHolds

\* Commits go from the remote only when the call that replaced them had named
\* the commit it found there: whatever happened between a read and the push,
\* nobody's work is overwritten unseen.
THEOREM OnlySeenAreReplaced == Spec => OnlySeenReplaced
<1> DEFINE Replaced == remote # NoRef /\ remote' # NoRef /\ remote \notin past'[remote']
           Named(c) == call[c].at = "lease" /\ call'[c].at # "lease" /\ call[c].expected = remote
<1>1. Init => Reflexive
  BY PushAssumption DEF Init, Reflexive, Commits
<1>2. TypeInv /\ Reflexive /\ [Next]_vars => [Replaced => \E c \in Calls : Named(c)]_vars
  <2> SUFFICES ASSUME TypeInv, Reflexive, [Next]_vars, Replaced
               PROVE  \E c \in Calls : Named(c)
    OBVIOUS
  <2>0. made \in Nat \ {0} /\ remote \in 1 .. made
    BY CallsOK DEF TypeInv, TypeOK, NoRef
  <2>1. CASE \E c \in Calls : CallStep(c)
    <3> PICK c \in Calls : CallStep(c)
      BY <2>1
    <3>1. past' = past
      BY CallStepFrame
    <3>2. remote' # remote
      BY <2>0, <3>1 DEF Reflexive
    <3> QED
      BY <3>1, <3>2, RemoteMovesByPush DEF FastForward
  <2>2. CASE UNCHANGED <<past, remote>>
    BY <2>0, <2>2 DEF Reflexive
  <2>3. ASSUME NEW k \in Clones, NEW before, NewCommit(k, before) PROVE FALSE
    <3>1. remote \in Commits \ {made + 1}
      BY <2>0, PushAssumption DEF TypeInv, TypeOK, Commits
    <3> QED
      BY <2>0, <2>3, <3>1 DEF NewCommit, Reflexive, TypeInv, TypeOK
  <2> QED
    BY <2>1, <2>2, <2>3, NextSteps DEF CommitOn, Rebase, Pull, RenameDefault, refs, vars
<1>3. Spec => []Reflexive
  BY <1>1, ReflexiveStep, TypeInvAlways, PTL DEF Spec
<1> QED
  BY <1>2, <1>3, TypeInvAlways, PTL DEF Spec, OnlySeenReplaced
===============================================================================
