----------------------------- MODULE ReleaseProofs -----------------------------
(***************************************************************************)
(* Theorems about Release for any number of calls and clones, any targets  *)
(* and any faults.                                                         *)
(***************************************************************************)
EXTENDS Release, TLAPS

(***************************************************************************)
(* The plans                                                               *)
(***************************************************************************)

\* Each step has one place in the order of the code, tags first and uploads last.
LEMMA PlanFacts ==
  /\ Len(Plan) = 7
  /\ \A i \in 1 .. 7 : Plan[i] \in Steps
  /\ \A i, j \in 1 .. 7 : Plan[i] = Plan[j] => i = j
  /\ \A s \in Steps : \E i \in 1 .. 7 : Plan[i] = s
  /\ \A i \in 1 .. 7 : Plan[i] \in Registries <=> i >= 6
  /\ \A i \in 1 .. 7 : Plan[i] = "git_tag" <=> i = 1
  /\ \A i \in 1 .. 7 : Plan[i] = "git_tag_pushed" <=> i = 2
BY DEF Plan, Steps, Providers, Registries

\* The rollback has a deletion for every step but the uploads.
LEMMA UndoPlanFacts ==
  /\ Len(UndoPlan) = 5
  /\ \A i \in 1 .. 5 : UndoPlan[i] \in Steps \ Registries
  /\ \A i, j \in 1 .. 5 : UndoPlan[i] = UndoPlan[j] => i = j
  /\ \A s \in Steps \ Registries : \E i \in 1 .. 5 : UndoPlan[i] = s
BY DEF UndoPlan, Steps, Providers, Registries

\* Where From lands: the first wanted step, or past the end.
Lands(plan, wanted, i, j) ==
  /\ j \in i .. Len(plan) + 1
  /\ j = Len(plan) + 1 \/ plan[j] \in wanted
  /\ \A k \in i .. j - 1 : plan[k] \notin wanted

LEMMA LandsStep ==
  ASSUME NEW plan, Len(plan) \in Nat, NEW wanted, NEW i \in 1 .. Len(plan),
         \E j : Lands(plan, wanted, i + 1, j)
  PROVE  \E j : Lands(plan, wanted, i, j)
<1> PICK j : Lands(plan, wanted, i + 1, j)
  OBVIOUS
<1>1. CASE plan[i] \in wanted
  <2>1. Lands(plan, wanted, i, i)
    BY <1>1 DEF Lands
  <2> QED
    BY <2>1
<1>2. CASE plan[i] \notin wanted
  <2>1. j \in i .. Len(plan) + 1
    BY DEF Lands
  <2>2. \A k \in i .. j - 1 : k = i \/ k \in i + 1 .. j - 1
    BY <2>1
  <2> QED
    BY <1>2, <2>1, <2>2 DEF Lands
<1> QED
  BY <1>1, <1>2

LEMMA LandsAtEnd ==
  ASSUME NEW plan, Len(plan) \in Nat, NEW wanted
  PROVE  Lands(plan, wanted, Len(plan) + 1, Len(plan) + 1)
BY DEF Lands

LEMMA FromLands ==
  ASSUME NEW plan, Len(plan) \in {5, 7}, NEW wanted, NEW i \in 1 .. Len(plan) + 1
  PROVE  Lands(plan, wanted, i, From(plan, wanted, i))
<1> DEFINE L(n) == \E j : Lands(plan, wanted, n, j)
<1>1. \A n \in 1 .. Len(plan) : L(n + 1) => L(n)
  BY LandsStep
<1>2. L(Len(plan) + 1)
  <2>1. Len(plan) \in Nat
    OBVIOUS
  <2>2. Lands(plan, wanted, Len(plan) + 1, Len(plan) + 1)
    BY <2>1, LandsAtEnd
  <2> QED
    BY <2>2
<1>3. L(i)
  <2> HIDE DEF L
  <2>1. CASE Len(plan) = 5
    <3>1. L(5)
      BY <1>1, <1>2, <2>1
    <3>2. L(4)
      BY <1>1, <3>1, <2>1
    <3>3. L(3)
      BY <1>1, <3>2, <2>1
    <3>4. L(2)
      BY <1>1, <3>3, <2>1
    <3>5. L(1)
      BY <1>1, <3>4, <2>1
    <3> QED
      BY <1>2, <2>1, <3>1, <3>2, <3>3, <3>4, <3>5
  <2>2. CASE Len(plan) = 7
    <3>1. L(7)
      BY <1>1, <1>2, <2>2
    <3>2. L(6)
      BY <1>1, <3>1, <2>2
    <3>3. L(5)
      BY <1>1, <3>2, <2>2
    <3>4. L(4)
      BY <1>1, <3>3, <2>2
    <3>5. L(3)
      BY <1>1, <3>4, <2>2
    <3>6. L(2)
      BY <1>1, <3>5, <2>2
    <3>7. L(1)
      BY <1>1, <3>6, <2>2
    <3> QED
      BY <1>2, <2>2, <3>1, <3>2, <3>3, <3>4, <3>5, <3>6, <3>7
  <2> QED
    BY <2>1, <2>2
<1>4. From(plan, wanted, i) = CHOOSE j \in i .. Len(plan) + 1 : Lands(plan, wanted, i, j)
  BY DEF From, Lands
<1>5. \E j \in i .. Len(plan) + 1 : Lands(plan, wanted, i, j)
  BY <1>3 DEF Lands
<1> QED
  BY <1>4, <1>5

\* A call that goes on does not miss a wanted step.
LEMMA AdvanceLands ==
  ASSUME NEW wanted, NEW n \in 1 .. 7
  PROVE  LET m == From(Plan, wanted, n + 1) IN
           /\ m \in n + 1 .. 8
           /\ m <= 7 => Plan[m] \in wanted
           /\ \A i \in 1 .. 7 : n < i /\ i < m => Plan[i] \notin wanted
<1>1. Len(Plan) \in {5, 7} /\ n + 1 \in 1 .. Len(Plan) + 1
  BY PlanFacts
<1>2. Lands(Plan, wanted, n + 1, From(Plan, wanted, n + 1))
  BY <1>1, FromLands
<1> QED
  BY <1>2, PlanFacts DEF Lands

\* So does the rollback, from its start and from each deletion.
LEMMA UndoLands ==
  ASSUME NEW wanted, NEW n \in 0 .. 5
  PROVE  LET m == From(UndoPlan, wanted, n + 1) IN
           /\ m \in n + 1 .. 6
           /\ m <= 5 => UndoPlan[m] \in wanted
           /\ \A i \in 1 .. 5 : n < i /\ i < m => UndoPlan[i] \notin wanted
<1>1. Len(UndoPlan) \in {5, 7} /\ n + 1 \in 1 .. Len(UndoPlan) + 1
  BY UndoPlanFacts
<1>2. Lands(UndoPlan, wanted, n + 1, From(UndoPlan, wanted, n + 1))
  BY <1>1, FromLands
<1>3. PICK m : m = From(UndoPlan, wanted, n + 1)
  OBVIOUS
<1>4. Lands(UndoPlan, wanted, n + 1, m) /\ Len(UndoPlan) = 5
  BY <1>2, <1>3, UndoPlanFacts
<1>5. /\ m \in n + 1 .. 6
      /\ m = 6 \/ UndoPlan[m] \in wanted
      /\ \A k \in n + 1 .. m - 1 : UndoPlan[k] \notin wanted
  BY <1>4 DEF Lands
<1>6. m <= 5 => UndoPlan[m] \in wanted
  BY <1>5
<1>7. \A i \in 1 .. 5 : n < i /\ i < m => UndoPlan[i] \notin wanted
  BY <1>5
<1> QED
  BY <1>3, <1>5, <1>6, <1>7

\* Places of different steps are different, whoever takes them.
LEMMA PlaceFacts ==
  /\ \A c \in Calls, s \in Steps : Place(c, s) \in Places
  /\ \A c, d \in Calls : \A s, t \in Steps : Place(c, s) = Place(d, t) => s = t
  /\ \A c \in Calls : \A s \in Steps \ {"git_tag"} : Place(c, s) = <<"remote", s>>
BY ReleaseAssumption DEF Place, Places

(***************************************************************************)
(* Type correctness                                                        *)
(***************************************************************************)

LEMMA NextSteps ==
  ASSUME [Next]_vars
  PROVE  \/ \E c \in Calls : \/ Refuse(c) \/ Begin(c) \/ Make(c) \/ Rejected(c) \/ AnswerLost(c)
                             \/ Succeed(c) \/ Undo(c) \/ Finish(c) \/ Crash(c) \/ Hang(c)
         \/ UNCHANGED vars
BY DEF Next, Start, Run, Work, Rest

LEMMA TypeInit == Init => TypeOK
BY DEF Init, TypeOK

\* The step a call is at has a place in its plan.
LEMMA AtStepFacts ==
  ASSUME TypeOK, NEW c \in Calls, NEW s \in Steps, AtStep(c, s)
  PROVE  next[c] \in 1 .. 7 /\ s = Plan[next[c]] /\ at[c] = "forward"
BY PlanFacts DEF TypeOK, AtStep

LEMMA AdvanceType ==
  ASSUME TypeOK, NEW c \in Calls, next[c] \in 1 .. 7, Advance(c)
  PROVE  next' \in [Calls -> 1 .. 8]
<1>1. From(Plan, Wanted(c), next[c] + 1) \in 1 .. 8
  BY AdvanceLands
<1> QED
  BY <1>1 DEF Advance, TypeOK

LEMMA FailType ==
  ASSUME TypeOK, NEW c \in Calls, NEW s \in Steps, AtStep(c, s), Fail(c, s)
  PROVE  /\ at' \in [Calls -> {"new", "forward", "rollback", "hung"} \union Ended]
         /\ next' \in [Calls -> 1 .. 8]
         /\ claims' \subseteq Calls
<1>1. CASE Fatal(s)
  <2>1. From(UndoPlan, Undoable(c), 0 + 1) \in 1 .. 8
    BY UndoLands
  <2> QED
    BY <1>1, <2>1 DEF Fail, TypeOK
<1>2. CASE ~Fatal(s)
  BY <1>2, AtStepFacts, AdvanceType DEF Fail, TypeOK
<1> QED
  BY <1>1, <1>2

LEMMA TypeStep == TypeOK /\ [Next]_vars => TypeOK'
<1> SUFFICES ASSUME TypeOK, [Next]_vars PROVE TypeOK'
  OBVIOUS
<1>1. ASSUME NEW c \in Calls, Refuse(c) PROVE TypeOK'
  BY <1>1 DEF Refuse, TypeOK, Ended
<1>2. ASSUME NEW c \in Calls, Begin(c) PROVE TypeOK'
  <2> PICK r \in Requests : /\ targets' = [targets EXCEPT ![c] = r.targets]
                            /\ repos' = [repos EXCEPT ![c] = r.repos]
    BY <1>2 DEF Begin
  <2>1. r.targets \in SUBSET (Providers \union Registries) /\ r.repos \in SUBSET Providers
    BY ReleaseAssumption
  <2> QED
    BY <1>2, <2>1 DEF Begin, TypeOK
<1>3. ASSUME NEW c \in Calls, Make(c) PROVE TypeOK'
  <2> PICK s \in Steps : /\ AtStep(c, s)
                         /\ owner' = [owner EXCEPT ![Place(c, s)] = {c}]
                         /\ created' = [created EXCEPT ![c] = Recorded(c, s, TRUE)]
                         /\ Advance(c)
                         /\ UNCHANGED <<faults, at, targets, repos, claims>>
    BY <1>3 DEF Make
  <2>1. next' \in [Calls -> 1 .. 8]
    BY AtStepFacts, AdvanceType
  <2>2. Recorded(c, s, TRUE) \subseteq Steps
    BY DEF Recorded, TypeOK
  <2> QED
    BY <2>1, <2>2 DEF TypeOK
<1>4. ASSUME NEW c \in Calls, Rejected(c) PROVE TypeOK'
  <2> PICK s \in Steps : /\ AtStep(c, s)
                         /\ created' = [created EXCEPT ![c] = Recorded(c, s, FALSE)]
                         /\ Fail(c, s)
                         /\ UNCHANGED <<faults, targets, repos, owner>>
    BY <1>4 DEF Rejected
  <2> QED
    BY FailType DEF Recorded, TypeOK
<1>5. ASSUME NEW c \in Calls, AnswerLost(c) PROVE TypeOK'
  <2> PICK s \in Steps : /\ AtStep(c, s)
                         /\ owner' = [owner EXCEPT ![Place(c, s)] = {c}]
                         /\ Fail(c, s)
                         /\ UNCHANGED <<faults, targets, repos, created>>
    BY <1>5 DEF AnswerLost
  <2> QED
    BY FailType DEF TypeOK
<1>6. ASSUME NEW c \in Calls, Succeed(c) PROVE TypeOK'
  BY <1>6 DEF Succeed, TypeOK, Ended
<1>7. ASSUME NEW c \in Calls, Undo(c) PROVE TypeOK'
  <2>1. next[c] \in 1 .. 5
    BY <1>7, UndoPlanFacts DEF Undo, TypeOK
  <2>2. From(UndoPlan, Undoable(c), next[c] + 1) \in 1 .. 8
    BY <2>1, UndoLands
  <2>3. owner' \in [Places -> SUBSET Calls]
    BY <1>7 DEF Undo, TypeOK
  <2> QED
    BY <1>7, <2>2, <2>3 DEF Undo, TypeOK
<1>8. ASSUME NEW c \in Calls, Finish(c) PROVE TypeOK'
  BY <1>8 DEF Finish, TypeOK, Ended
<1>9. ASSUME NEW c \in Calls, Crash(c) PROVE TypeOK'
  BY <1>9 DEF Crash, TypeOK, Ended
<1>10. CASE UNCHANGED vars
  BY <1>10 DEF vars, TypeOK
<1>11. ASSUME NEW c \in Calls, Hang(c) PROVE TypeOK'
  <2>1. owner' \in [Places -> SUBSET Calls]
    BY <1>11 DEF Hang, TypeOK
  <2> QED
    BY <1>11, <2>1 DEF Hang, TypeOK
<1> QED
  BY <1>1, <1>2, <1>3, <1>4, <1>5, <1>6, <1>7, <1>8, <1>9, <1>10, <1>11, NextSteps

\* Type correctness of the calls and of what they leave in the world.
THEOREM ReleaseTypes == Spec => []TypeOK
BY TypeInit, TypeStep, PTL DEF Spec

(***************************************************************************)
(* The inductive invariant: what a call owns, by where it is.  Calls meet  *)
(* only at places, so a step of one call keeps what is said of another as  *)
(* long as it touches no place the other owns.                             *)
(***************************************************************************)

Owned(c, s) == c \in owner[Place(c, s)]

\* A place is nobody's or one call's.
OneOwner == \A p \in Places : \A c, d \in owner[p] : c = d

\* What is somewhere in the world was put there by a step of its owner.
OwnsBySteps(c) == \A p \in Places : c \in owner[p] => \E s \in Steps : p = Place(c, s)

NotBegun(c) == next[c] = 1 /\ created[c] = {} /\ \A s \in Steps : ~Owned(c, s)

\* Going forward, every wanted step behind the call that may not fail is its own,
\* and no step before it.
Forward(c) ==
  /\ \A i \in 1 .. 7 : i < next[c] /\ Plan[i] \in Wanted(c) /\ Fatal(Plan[i]) => Owned(c, Plan[i])
  /\ \A i \in 1 .. 7 : i >= next[c] => ~Owned(c, Plan[i])
  /\ \A s \in created[c] : Owned(c, s)

\* Going back, the next deletion is of a step the call created, and what it
\* created and has not deleted is its own.
Backward(c) ==
  /\ next[c] \in 1 .. 6
  /\ next[c] <= 5 => UndoPlan[next[c]] \in created[c]
  /\ \A i \in 1 .. 5 : i >= next[c] /\ UndoPlan[i] \in created[c] => Owned(c, UndoPlan[i])
  /\ created[c] \intersect Providers # {} => "git_tag_pushed" \in created[c]

\* A call with an upload never goes back, and has its tag.
UploadKept(c) ==
  \A s \in Registries : Owned(c, s) =>
    at[c] \in {"forward", "done", "dead", "hung"} /\ Owned(c, "git_tag_pushed")

\* What stands and is not in the list created.
Untold(c) == {s \in Steps : Owned(c, s) /\ s \notin created[c]}

\* Going forward, only uploads are not in the list; from a failure on, only the
\* step whose answer was lost.  What is in it will be deleted, if deletions work.
Accounted(c) ==
  /\ at[c] \in {"forward", "done"} => Untold(c) \subseteq Registries
  /\ at[c] \in {"rollback", "failed"} =>
       \A s, t \in Untold(c) : s = t /\ "lost" \in faults
  /\ at[c] = "rollback" /\ "undelete" \notin faults =>
       \A s \in created[c] : Owned(c, s) => \E i \in 1 .. 5 : i >= next[c] /\ UndoPlan[i] = s
  /\ at[c] = "failed" /\ "undelete" \notin faults => \A s \in created[c] : ~Owned(c, s)

\* What a call creates it was asked for.
Asked(c) ==
  /\ created[c] \subseteq Wanted(c)
  /\ next[c] <= 7 => Plan[next[c]] \in Wanted(c)

CallInv(c) ==
  /\ created[c] \subseteq Steps \ Registries
  /\ OwnsBySteps(c)
  /\ at[c] \in {"new", "refused"} => NotBegun(c)
  /\ at[c] \in {"forward", "done"} => Forward(c)
  /\ at[c] = "done" => next[c] = 8
  /\ at[c] \in {"forward", "done"} => Asked(c)
  /\ at[c] = "rollback" => Backward(c)
  /\ UploadKept(c)
  /\ Accounted(c)

IInv ==
  /\ TypeOK
  /\ OneOwner
  /\ \A c \in Calls : CallInv(c)

LEMMA IInvInit == Init => IInv
<1> SUFFICES ASSUME Init PROVE IInv
  OBVIOUS
<1>1. TypeOK
  BY TypeInit
<1>2. \A c \in Calls, s \in Steps : ~Owned(c, s)
  BY PlaceFacts DEF Init, Owned
<1>3. OneOwner /\ \A c \in Calls : OwnsBySteps(c)
  BY DEF Init, OneOwner, OwnsBySteps
<1>4. Registries \subseteq Steps
  BY DEF Steps
<1> QED
  BY <1>1, <1>2, <1>3, <1>4 DEF Init, IInv, CallInv, NotBegun, UploadKept, Accounted, Untold

(***************************************************************************)
(* What a step does to the places, and to the other calls                  *)
(***************************************************************************)

\* A step that takes a free place, or clears one of the call's own.
Takes(c, s) == Free(Place(c, s)) /\ owner' = [owner EXCEPT ![Place(c, s)] = {c}]
Clears(c, s) == Owned(c, s) /\ owner' = [owner EXCEPT ![Place(c, s)] = {}]

LEMMA TakesFacts ==
  ASSUME IInv, NEW c \in Calls, NEW s \in Steps, Takes(c, s)
  PROVE  /\ OneOwner' /\ OwnsBySteps(c)'
         /\ \A t \in Steps : Owned(c, t)' <=> t = s \/ Owned(c, t)
         /\ \A d \in Calls \ {c} : \A p \in Places : d \in owner'[p] <=> d \in owner[p]
<1>1. owner \in [Places -> SUBSET Calls]
  BY DEF IInv, TypeOK
<1>2. \A p \in Places : owner'[p] = IF p = Place(c, s) THEN {c} ELSE owner[p]
  BY <1>1 DEF Takes
<1>3. owner[Place(c, s)] = {}
  BY DEF Takes, Free
<1>4. OneOwner'
  BY <1>2 DEF IInv, OneOwner
<1>5. OwnsBySteps(c)'
  BY <1>2 DEF IInv, CallInv, OwnsBySteps, Place
<1>6. \A t \in Steps : Owned(c, t)' <=> t = s \/ Owned(c, t)
  <2> SUFFICES ASSUME NEW t \in Steps
               PROVE  c \in owner'[Place(c, t)] <=> t = s \/ c \in owner[Place(c, t)]
    BY DEF Owned, Place
  <2> QED
    BY <1>2, PlaceFacts
<1> QED
  BY <1>2, <1>3, <1>4, <1>5, <1>6

LEMMA ClearsFacts ==
  ASSUME IInv, NEW c \in Calls, NEW s \in Steps, Clears(c, s)
  PROVE  /\ OneOwner' /\ OwnsBySteps(c)'
         /\ \A t \in Steps : Owned(c, t)' <=> t # s /\ Owned(c, t)
         /\ \A d \in Calls \ {c} : \A p \in Places : d \in owner'[p] <=> d \in owner[p]
<1>1. owner \in [Places -> SUBSET Calls]
  BY DEF IInv, TypeOK
<1>2. \A p \in Places : owner'[p] = IF p = Place(c, s) THEN {} ELSE owner[p]
  BY <1>1 DEF Clears
<1>3. owner[Place(c, s)] = {c}
  BY <1>1, PlaceFacts DEF Clears, Owned, IInv, OneOwner
<1>4. OneOwner'
  BY <1>2 DEF IInv, OneOwner
<1>5. OwnsBySteps(c)'
  BY <1>2 DEF IInv, CallInv, OwnsBySteps, Place
<1>6. \A t \in Steps : Owned(c, t)' <=> t # s /\ Owned(c, t)
  <2> SUFFICES ASSUME NEW t \in Steps
               PROVE  c \in owner'[Place(c, t)] <=> t # s /\ c \in owner[Place(c, t)]
    BY DEF Owned, Place
  <2> QED
    BY <1>2, PlaceFacts
<1> QED
  BY <1>2, <1>3, <1>4, <1>5, <1>6

\* A call whose variables and places are as they were is as it was.
LEMMA OthersKept ==
  ASSUME IInv, NEW d \in Calls, faults' = faults,
         at'[d] = at[d], next'[d] = next[d], targets'[d] = targets[d], repos'[d] = repos[d], created'[d] = created[d],
         \A p \in Places : d \in owner'[p] <=> d \in owner[p]
  PROVE  CallInv(d)'
<1>1. \A s \in Steps : Owned(d, s)' <=> Owned(d, s)
  BY PlaceFacts DEF Owned, Place
<1>2. OwnsBySteps(d)' /\ CallInv(d)
  BY DEF IInv, CallInv, OwnsBySteps, Place
<1>3. \A s \in Steps : s \in Wanted(d)' <=> s \in Wanted(d)
  BY DEF Wanted, Released
<1>4. NotBegun(d) => NotBegun(d)'
  BY <1>1 DEF NotBegun
<1>9. CallInv(d) /\ Asked(d) => Asked(d)'
  <2>1. CallInv(d) => created[d] \subseteq Steps
    BY DEF CallInv
  <2>2. next[d] \in 1 .. 8 /\ \A i \in 1 .. 7 : Plan[i] \in Steps
    BY PlanFacts DEF IInv, TypeOK
  <2> QED
    BY <1>3, <2>1, <2>2 DEF Asked
<1>5. CallInv(d) /\ Forward(d) => Forward(d)'
  BY <1>1, <1>3, PlanFacts DEF CallInv, Forward, Fatal
<1>6. Backward(d) => Backward(d)'
  BY <1>1, UndoPlanFacts DEF Backward
<1>7. UploadKept(d) => UploadKept(d)'
  BY <1>1 DEF UploadKept, Steps
<1>8. Accounted(d) => Accounted(d)'
  <2>1. Untold(d)' = Untold(d)
    BY <1>1 DEF Untold
  <2>2. CallInv(d) => created[d] \subseteq Steps
    BY DEF CallInv
  <2> QED
    BY <1>1, <1>2, <2>1, <2>2 DEF Accounted
<1> QED
  BY <1>2, <1>4, <1>5, <1>6, <1>7, <1>8, <1>9 DEF CallInv

(***************************************************************************)
(* What a step does to its own call                                        *)
(***************************************************************************)

\* A call at an upload has its tag: the push of the tag lies behind it.
LEMMA TagBehindUpload ==
  ASSUME IInv, NEW c \in Calls, at[c] = "forward", next[c] \in 6 .. 8
  PROVE  Owned(c, "git_tag_pushed")
BY PlanFacts DEF IInv, CallInv, Forward, Wanted, Fatal, Steps

\* So has a call that goes forward with a release.
LEMMA TagBehindRelease ==
  ASSUME IInv, NEW c \in Calls, at[c] \in {"forward", "done"},
         NEW s \in Providers \union Registries, Owned(c, s)
  PROVE  Owned(c, "git_tag_pushed")
<1>1. Forward(c) /\ next[c] \in 1 .. 8
  BY DEF IInv, CallInv, TypeOK
<1>2. PICK i \in 1 .. 7 : Plan[i] = s
  BY PlanFacts DEF Steps
<1>3. i < next[c] /\ i > 2
  BY <1>1, <1>2, PlanFacts DEF Forward, Providers, Registries
<1>4. 2 < next[c] /\ Plan[2] = "git_tag_pushed"
  BY <1>1, <1>3, PlanFacts
<1>5. "git_tag_pushed" \in Wanted(c) /\ Fatal("git_tag_pushed")
  BY DEF Wanted, Fatal, Registries
<1> QED
  BY <1>1, <1>4, <1>5 DEF Forward

\* The step behind a call that went forward.
LEMMA ForwardAdvances ==
  ASSUME IInv, NEW c \in Calls, NEW s \in Steps, AtStep(c, s), Advance(c),
         UNCHANGED <<at, targets, repos, faults>>,
         \A t \in Steps \ {s} : Owned(c, t)' <=> Owned(c, t),
         Owned(c, s)' \/ ~Fatal(s),
         created'[c] = created[c] \/ (Owned(c, s)' /\ Fatal(s) /\ created'[c] = created[c] \union {s}),
         Owned(c, s)' /\ s \notin Registries => s \in created'[c],
         OwnsBySteps(c)'
  PROVE  CallInv(c)'
<1> DEFINE n == next[c]
           m == From(Plan, Wanted(c), n + 1)
<1>0. TypeOK /\ CallInv(c) /\ n \in 1 .. 7 /\ s = Plan[n] /\ at[c] = "forward" /\ Forward(c)
  BY AtStepFacts DEF IInv, CallInv
<1>1. /\ m \in n + 1 .. 8 /\ (m <= 7 => Plan[m] \in Wanted(c))
      /\ \A i \in 1 .. 7 : n < i /\ i < m => Plan[i] \notin Wanted(c)
  BY <1>0, AdvanceLands
<1>2. next'[c] = m /\ at'[c] = "forward" /\ Wanted(c)' = Wanted(c)
  BY <1>0 DEF Advance, TypeOK, Wanted, Released
<1> HIDE DEF n, m
<1>3. ~Owned(c, s)
  BY <1>0 DEF Forward, n
<1>4. \A i \in 1 .. 7 : Plan[i] \in Steps /\ (Plan[i] = s <=> i = n)
  BY <1>0, PlanFacts
<1>5. Forward(c)'
  <2>1. ASSUME NEW i \in 1 .. 7, i < m, Plan[i] \in Wanted(c), Fatal(Plan[i]) PROVE Owned(c, Plan[i])'
    <3>1. CASE i < n
      BY <1>0, <1>4, <2>1, <3>1 DEF Forward, n
    <3>2. CASE i = n
      BY <1>0, <2>1, <3>2
    <3> QED
      BY <1>0, <1>1, <2>1, <3>1, <3>2
  <2>2. ASSUME NEW i \in 1 .. 7, i >= m PROVE ~Owned(c, Plan[i])'
    BY <1>0, <1>1, <1>4, <2>2 DEF Forward, n
  <2>3. ASSUME NEW t \in created'[c] PROVE Owned(c, t)'
    <3>1. CASE t = s
      BY <1>0, <1>3, <3>1, <2>3 DEF Forward
    <3>2. CASE t # s
      BY <1>0, <3>2, <2>3 DEF Forward, CallInv
    <3> QED
      BY <3>1, <3>2
  <2> QED
    BY <1>2, <2>1, <2>2, <2>3 DEF Forward, Fatal
<1>6. UploadKept(c)'
  <2>1. ASSUME NEW t \in Registries, Owned(c, t)' PROVE Owned(c, "git_tag_pushed")'
    <3>0. t \in Steps /\ "git_tag_pushed" \in Steps /\ t # "git_tag_pushed"
      BY DEF Steps, Registries
    <3>1. CASE t = s
      BY <1>0, <3>0, <3>1, TagBehindUpload, PlanFacts DEF n
    <3>2. CASE t # s
      <4>1. Owned(c, "git_tag_pushed")
        BY <1>0, <2>1, <3>0, <3>2 DEF CallInv, UploadKept
      <4> QED
        BY <1>3, <3>0, <4>1
    <3> QED
      BY <3>1, <3>2
  <2> QED
    BY <1>2, <2>1 DEF UploadKept
<1>7. Accounted(c)'
  <2>1. ASSUME NEW t \in Steps, Owned(c, t)', t \notin created'[c] PROVE t \in Registries
    <3>1. CASE t = s
      BY <2>1, <3>1
    <3>2. CASE t # s
      BY <1>0, <2>1, <3>2 DEF CallInv, Accounted, Untold
    <3> QED
      BY <3>1, <3>2
  <2>2. Untold(c)' \subseteq Registries
    BY <2>1 DEF Untold
  <2> QED
    BY <1>2, <2>2 DEF Accounted
<1>8. created'[c] \subseteq Steps \ Registries
  BY <1>0 DEF CallInv, Fatal
<1>9. Asked(c)'
  <2>1. s \in Wanted(c) /\ created[c] \subseteq Wanted(c)
    BY <1>0 DEF CallInv, Asked, n
  <2> QED
    BY <1>1, <1>2, <2>1 DEF Asked
<1> QED
  BY <1>2, <1>5, <1>6, <1>7, <1>8, <1>9 DEF CallInv

\* A step that fails leaves the call at the next one or at the start of its
\* rollback.
LEMMA FailKeeps ==
  ASSUME IInv, NEW c \in Calls, NEW s \in Steps, AtStep(c, s), Fail(c, s),
         UNCHANGED <<targets, repos, faults, created>>,
         \A t \in Steps \ {s} : Owned(c, t)' <=> Owned(c, t),
         Owned(c, s)' => "lost" \in faults,
         OwnsBySteps(c)'
  PROVE  CallInv(c)'
<1>0. TypeOK /\ CallInv(c) /\ next[c] \in 1 .. 7 /\ s = Plan[next[c]] /\ at[c] = "forward"
      /\ Forward(c)
  BY AtStepFacts DEF IInv, CallInv
<1>1. CASE ~Fatal(s)
  <2>1. Advance(c) /\ UNCHANGED at
    BY <1>1 DEF Fail
  <2>2. s \in Registries
    BY <1>1 DEF Fatal
  <2> QED
    BY <1>1, <2>1, <2>2, ForwardAdvances
<1>2. CASE Fatal(s)
  <2> DEFINE m == From(UndoPlan, created[c], 0 + 1)
  <2>1. m \in 1 .. 6 /\ (m <= 5 => UndoPlan[m] \in created[c])
        /\ \A i \in 1 .. 5 : i < m => UndoPlan[i] \notin created[c]
    BY UndoLands
  <2>2. at'[c] = "rollback" /\ next'[c] = m
    BY <1>0, <1>2 DEF Fail, Undoable, TypeOK
  <2> HIDE DEF m
  <2>3. \A t \in Registries : t \in Steps /\ t # s /\ ~Owned(c, t)
    <3> SUFFICES ASSUME NEW t \in Registries PROVE t \in Steps /\ t # s /\ ~Owned(c, t)
      OBVIOUS
    <3>1. t \in Steps /\ s \notin Registries
      BY <1>2 DEF Fatal, Steps
    <3>2. PICK i \in 1 .. 7 : Plan[i] = t
      BY <3>1, PlanFacts
    <3>3. i >= 6 /\ ~(next[c] >= 6)
      BY <1>0, <3>1, <3>2, PlanFacts
    <3>4. i >= next[c]
      BY <1>0, <3>3
    <3> QED
      BY <1>0, <3>1, <3>2, <3>4 DEF Forward
  <2>4. ~Owned(c, s) /\ s \notin created[c]
    BY <1>0 DEF Forward
  <2>5. Backward(c)'
    <3>1. \A i \in 1 .. 5 : UndoPlan[i] \in created[c] => Owned(c, UndoPlan[i])'
      BY <1>0, <2>4, UndoPlanFacts DEF Forward
    <3>2. ASSUME NEW p \in created[c] \intersect Providers PROVE "git_tag_pushed" \in created[c]
      <4>1. Owned(c, p)
        BY <1>0, <3>2 DEF Forward
      <4>2. Owned(c, "git_tag_pushed")
        BY <1>0, <3>2, <4>1, TagBehindRelease
      <4> QED
        BY <1>0, <4>2 DEF CallInv, Accounted, Untold, Steps, Registries
    <3> QED
      BY <2>1, <2>2, <3>1, <3>2 DEF Backward
  <2>6. UploadKept(c)'
    BY <2>3 DEF UploadKept
  <2>7. Accounted(c)'
    <3>1. ASSUME NEW t \in Untold(c)' PROVE t = s /\ "lost" \in faults
      <4>1. t \in Steps /\ t \notin created[c] /\ Owned(c, t)'
        BY <3>1 DEF Untold
      <4>2. Owned(c, t) => t \in Registries
        BY <1>0, <4>1 DEF CallInv, Accounted, Untold
      <4> QED
        BY <2>3, <4>1, <4>2
    <3>2. ASSUME NEW t \in created[c] PROVE \E i \in 1 .. 5 : i >= m /\ UndoPlan[i] = t
      <4>1. PICK i \in 1 .. 5 : UndoPlan[i] = t
        BY <1>0, <3>2, UndoPlanFacts DEF CallInv
      <4> QED
        BY <2>1, <3>2, <4>1
    <3> QED
      BY <2>2, <3>1, <3>2 DEF Accounted
  <2> QED
    BY <1>0, <2>2, <2>5, <2>6, <2>7 DEF CallInv
<1> QED
  BY <1>1, <1>2

LEMMA MakeKeeps ==
  ASSUME IInv, NEW c \in Calls, Make(c)
  PROVE  OneOwner' /\ \A d \in Calls : CallInv(d)'
<1> PICK s \in Steps : /\ AtStep(c, s)
                       /\ Takes(c, s)
                       /\ created' = [created EXCEPT ![c] = Recorded(c, s, TRUE)]
                       /\ Advance(c)
                       /\ UNCHANGED <<faults, at, targets, repos, claims>>
  BY DEF Make, Takes
<1>0. TypeOK
  BY DEF IInv
<1>1. /\ s \notin Registries => Fatal(s) /\ created'[c] = created[c] \union {s}
      /\ s \in Registries => ~Fatal(s) /\ created'[c] = created[c]
  BY <1>0 DEF Recorded, Fatal, TypeOK
<1>2. CallInv(c)'
  <2>1. Owned(c, s)' /\ OwnsBySteps(c)' /\ \A t \in Steps \ {s} : Owned(c, t)' <=> Owned(c, t)
    BY TakesFacts
  <2>2. s \notin Registries => Fatal(s) /\ s \in created'[c]
    BY <1>1
  <2>3. UNCHANGED <<at, targets, repos, faults>>
    OBVIOUS
  <2> QED
    BY <1>1, <2>1, <2>2, <2>3, ForwardAdvances
<1>3. \A d \in Calls \ {c} : next'[d] = next[d] /\ created'[d] = created[d]
  BY <1>0 DEF Advance, TypeOK
<1>4. \A d \in Calls \ {c} : CallInv(d)'
  BY <1>3, TakesFacts, OthersKept
<1> QED
  BY <1>2, <1>4, TakesFacts

\* A failing step of a call touches the others no more than any step does.
LEMMA FailFrame ==
  ASSUME TypeOK, NEW c \in Calls, NEW s \in Steps, Fail(c, s)
  PROVE  \A d \in Calls \ {c} : at'[d] = at[d] /\ next'[d] = next[d]
BY DEF Fail, Advance, TypeOK

LEMMA RejectedKeeps ==
  ASSUME IInv, NEW c \in Calls, Rejected(c)
  PROVE  OneOwner' /\ \A d \in Calls : CallInv(d)'
<1> PICK s \in Steps : /\ AtStep(c, s)
                       /\ created' = [created EXCEPT ![c] = Recorded(c, s, FALSE)]
                       /\ Fail(c, s)
                       /\ UNCHANGED <<faults, targets, repos, owner>>
  BY DEF Rejected
<1>0. TypeOK /\ created' = created
  BY DEF IInv, Recorded, TypeOK
<1>1. OneOwner' /\ OwnsBySteps(c)' /\ \A t \in Steps : Owned(c, t)' <=> Owned(c, t)
  BY DEF IInv, OneOwner, CallInv, OwnsBySteps, Owned, Place
<1>2. ~Owned(c, s)
  BY <1>0, AtStepFacts DEF IInv, CallInv, Forward
<1>3. CallInv(c)'
  BY <1>0, <1>1, <1>2, FailKeeps
<1>4. \A d \in Calls \ {c} : CallInv(d)'
  BY <1>0, FailFrame, OthersKept
<1> QED
  BY <1>1, <1>3, <1>4

LEMMA AnswerLostKeeps ==
  ASSUME IInv, NEW c \in Calls, AnswerLost(c)
  PROVE  OneOwner' /\ \A d \in Calls : CallInv(d)'
<1> PICK s \in Steps : /\ AtStep(c, s)
                       /\ "lost" \in faults
                       /\ Takes(c, s)
                       /\ Fail(c, s)
                       /\ UNCHANGED <<faults, targets, repos, created>>
  BY DEF AnswerLost, Takes
<1>0. TypeOK
  BY DEF IInv
<1>1. CallInv(c)'
  BY TakesFacts, FailKeeps
<1>2. \A d \in Calls \ {c} : CallInv(d)'
  BY <1>0, TakesFacts, FailFrame, OthersKept
<1> QED
  BY <1>1, <1>2, TakesFacts

\* A deletion clears a place of the call's own: the call created it.
LEMMA UndoIsOwn ==
  ASSUME IInv, NEW c \in Calls, Undo(c)
  PROVE  /\ next[c] \in 1 .. 5
         /\ UndoPlan[next[c]] \in Steps \ Registries
         /\ \/ Clears(c, UndoPlan[next[c]])
            \/ "undelete" \in faults /\ UNCHANGED owner
         /\ next'[c] \in next[c] + 1 .. 6
         /\ next'[c] <= 5 => UndoPlan[next'[c]] \in created[c]
         /\ \A i \in 1 .. 5 : next[c] < i /\ i < next'[c] => UndoPlan[i] \notin created[c]
<1>0. TypeOK /\ Backward(c) /\ next[c] \in 1 .. 5
  BY UndoPlanFacts DEF IInv, CallInv, Undo, TypeOK
<1>1. Owned(c, UndoPlan[next[c]])
  BY <1>0 DEF Backward
<1>2. next'[c] = From(UndoPlan, created[c], next[c] + 1)
  BY <1>0 DEF Undo, Undoable, TypeOK
<1> QED
  BY <1>0, <1>1, <1>2, UndoLands, UndoPlanFacts DEF Undo, Clears

LEMMA UndoKeeps ==
  ASSUME IInv, NEW c \in Calls, Undo(c)
  PROVE  OneOwner' /\ \A d \in Calls : CallInv(d)'
<1> PICK n : n = next[c]
  OBVIOUS
<1> PICK s : s = UndoPlan[n]
  OBVIOUS
<1>0. /\ TypeOK /\ CallInv(c) /\ Backward(c) /\ at[c] = "rollback" /\ n \in 1 .. 5
      /\ s \in Steps \ Registries /\ UNCHANGED <<faults, at, targets, repos, created>>
      /\ next'[c] \in n + 1 .. 6 /\ (next'[c] <= 5 => UndoPlan[next'[c]] \in created[c])
      /\ \A i \in 1 .. 5 : n < i /\ i < next'[c] => UndoPlan[i] \notin created[c]
  BY UndoIsOwn DEF IInv, CallInv, Undo
<1>1. \A d \in Calls \ {c} : next'[d] = next[d]
  BY <1>0 DEF Undo, TypeOK
<1>2. /\ OneOwner' /\ OwnsBySteps(c)'
      /\ \A t \in Steps : Owned(c, t)' => Owned(c, t)
      /\ \A t \in Steps \ {s} : Owned(c, t) => Owned(c, t)'
      /\ Owned(c, s)' => "undelete" \in faults
      /\ \A d \in Calls \ {c} : \A p \in Places : d \in owner'[p] <=> d \in owner[p]
  <2>1. CASE Clears(c, s)
    BY <1>0, <2>1, ClearsFacts
  <2>2. CASE "undelete" \in faults /\ UNCHANGED owner
    BY <2>2 DEF IInv, OneOwner, CallInv, OwnsBySteps, Owned, Place
  <2> QED
    BY <2>1, <2>2, UndoIsOwn
<1>3. \A d \in Calls \ {c} : CallInv(d)'
  BY <1>0, <1>1, <1>2, OthersKept
<1>4. \A i \in 1 .. 5 : UndoPlan[i] = s <=> i = n
  BY <1>0, UndoPlanFacts
<1>5. Backward(c)'
  <2>1. ASSUME NEW i \in 1 .. 5, i >= next'[c], UndoPlan[i] \in created[c]
        PROVE  Owned(c, UndoPlan[i])'
    BY <1>0, <1>2, <1>4, <2>1, UndoPlanFacts DEF Backward
  <2> QED
    BY <1>0, <2>1 DEF Backward
<1>6. UploadKept(c)'
  BY <1>0, <1>2 DEF CallInv, UploadKept, Steps
<1>7. Accounted(c)'
  <2>1. ASSUME "undelete" \notin faults, NEW t \in created[c], Owned(c, t)'
        PROVE  \E i \in 1 .. 5 : i >= next'[c] /\ UndoPlan[i] = t
    <3>1. t \in Steps /\ Owned(c, t) /\ t # s
      BY <1>0, <1>2, <2>1 DEF CallInv
    <3>2. PICK i \in 1 .. 5 : i >= n /\ UndoPlan[i] = t
      BY <1>0, <2>1, <3>1 DEF CallInv, Accounted
    <3>3. i # n /\ i >= next'[c]
      BY <1>0, <1>4, <2>1, <3>1, <3>2
    <3> QED
      BY <3>2, <3>3
  <2>2. Untold(c)' \subseteq Untold(c)
    BY <1>0, <1>2 DEF Untold
  <2>3. \A u, t \in Untold(c) : u = t /\ "lost" \in faults
    BY <1>0 DEF CallInv, Accounted
  <2> QED
    BY <1>0, <2>1, <2>2, <2>3 DEF Accounted
<1>8. CallInv(c)'
  BY <1>0, <1>2, <1>5, <1>6, <1>7 DEF CallInv
<1> QED
  BY <1>2, <1>3, <1>8

\* The other steps change only where the call is.
LEMMA MovesKeep ==
  ASSUME IInv, NEW c \in Calls, Refuse(c) \/ Begin(c) \/ Succeed(c) \/ Finish(c) \/ Crash(c)
  PROVE  OneOwner' /\ \A d \in Calls : CallInv(d)'
<1>0. TypeOK /\ CallInv(c) /\ UNCHANGED <<faults, next, created, owner>>
  BY DEF IInv, Refuse, Begin, Succeed, Finish, Crash
<1>1. \A d \in Calls \ {c} : at'[d] = at[d] /\ targets'[d] = targets[d] /\ repos'[d] = repos[d]
  BY <1>0 DEF Refuse, Begin, Succeed, Finish, Crash, TypeOK
<1>2. \A d \in Calls \ {c} : CallInv(d)'
  BY <1>0, <1>1, OthersKept
<1>3. OneOwner' /\ OwnsBySteps(c)' /\ \A t \in Steps : Owned(c, t)' <=> Owned(c, t)
  BY <1>0 DEF IInv, OneOwner, CallInv, OwnsBySteps, Owned, Place
<1>4. Registries \subseteq Steps /\ \A i \in 1 .. 7 : Plan[i] \in Steps
  BY PlanFacts DEF Steps
<1>5. ASSUME Refuse(c) PROVE CallInv(c)'
  <2>1. at'[c] = "refused" /\ at[c] = "new"
    BY <1>0, <1>5 DEF Refuse, TypeOK
  <2>2. NotBegun(c)'
    BY <1>0, <1>3, <2>1 DEF CallInv, NotBegun
  <2>3. UploadKept(c)'
    BY <1>0, <1>3, <1>4, <2>1 DEF CallInv, NotBegun, UploadKept
  <2>4. Accounted(c)'
    BY <2>1 DEF Accounted
  <2> QED
    BY <1>0, <1>3, <2>1, <2>2, <2>3, <2>4 DEF CallInv
<1>6. ASSUME Begin(c) PROVE CallInv(c)'
  <2>1. at'[c] = "forward" /\ at[c] = "new"
    BY <1>0, <1>6 DEF Begin, TypeOK
  <2>2. Forward(c)'
    BY <1>0, <1>3, <1>4, <2>1 DEF CallInv, NotBegun, Forward
  <2>3. UploadKept(c)'
    BY <1>0, <1>3, <1>4, <2>1 DEF CallInv, NotBegun, UploadKept
  <2>4. Accounted(c)'
    BY <1>0, <1>3, <2>1 DEF CallInv, NotBegun, Accounted, Untold
  <2>5. Asked(c)'
    <3>1. Plan[1] = "git_tag" /\ "git_tag" \in Wanted(c)'
      BY PlanFacts DEF Wanted
    <3> QED
      BY <1>0, <2>1, <3>1 DEF CallInv, NotBegun, Asked
  <2> QED
    BY <1>0, <1>3, <2>1, <2>2, <2>3, <2>4, <2>5 DEF CallInv
<1>7. ASSUME Succeed(c) PROVE CallInv(c)'
  <2>1. at'[c] = "done" /\ at[c] = "forward" /\ next[c] = 8 /\ Wanted(c)' = Wanted(c)
    BY <1>0, <1>7, PlanFacts DEF Succeed, TypeOK, Wanted, Released
  <2>2. Forward(c)'
    BY <1>0, <1>3, <1>4, <2>1 DEF CallInv, Forward, Fatal
  <2>3. UploadKept(c)'
    BY <1>0, <1>3, <2>1 DEF CallInv, UploadKept, Steps
  <2>4. Accounted(c)'
    BY <1>0, <1>3, <2>1 DEF CallInv, Accounted, Untold
  <2>5. Asked(c)'
    BY <1>0, <2>1 DEF CallInv, Asked
  <2> QED
    BY <1>0, <1>3, <2>1, <2>2, <2>3, <2>4, <2>5 DEF CallInv
<1>8. ASSUME Finish(c) PROVE CallInv(c)'
  <2>1. at'[c] = "failed" /\ at[c] = "rollback" /\ next[c] = 6
    BY <1>0, <1>8, UndoPlanFacts DEF Finish, TypeOK
  <2>2. UploadKept(c)'
    BY <1>0, <1>3, <1>4, <2>1 DEF CallInv, UploadKept
  <2>3. Accounted(c)'
    <3>1. Untold(c)' = Untold(c)
      BY <1>0, <1>3 DEF Untold
    <3>2. Accounted(c) /\ created[c] \subseteq Steps
      BY <1>0 DEF CallInv
    <3>3. "undelete" \notin faults => \A s \in created[c] : ~Owned(c, s)
      BY <2>1, <3>2 DEF Accounted
    <3> QED
      BY <1>0, <1>3, <2>1, <3>1, <3>2, <3>3 DEF Accounted
  <2> QED
    BY <1>0, <1>3, <2>1, <2>2, <2>3 DEF CallInv
<1>9. ASSUME Crash(c) PROVE CallInv(c)'
  <2>1. at'[c] = "dead" /\ at[c] \in {"forward", "rollback"} /\ "crash" \in faults
    BY <1>0, <1>9 DEF Crash, TypeOK
  <2>2. UploadKept(c)'
    BY <1>0, <1>3, <2>1 DEF CallInv, UploadKept, Steps
  <2>3. Accounted(c)'
    BY <1>0, <2>1 DEF Accounted
  <2> QED
    BY <1>0, <1>3, <2>1, <2>2, <2>3 DEF CallInv
<1> QED
  BY <1>2, <1>3, <1>5, <1>6, <1>7, <1>8, <1>9

\* A step that hangs has done what it should, or nothing.
LEMMA HangIs ==
  ASSUME IInv, NEW c \in Calls, Hang(c)
  PROVE  \/ UNCHANGED owner
         \/ \E s \in Untimed : AtStep(c, s) /\ Takes(c, s)
         \/ /\ at[c] = "rollback" /\ next[c] \in 1 .. 5 /\ UndoPlan[next[c]] \in Steps \ Registries
            /\ UndoPlan[next[c]] \in created[c] /\ Clears(c, UndoPlan[next[c]])
<1>1. ASSUME NEW s \in Untimed, AtStep(c, s), Free(Place(c, s)),
             owner' = [owner EXCEPT ![Place(c, s)] = {c}]
      PROVE  \E t \in Untimed : AtStep(c, t) /\ Takes(c, t)
  BY <1>1 DEF Takes
<1>2. ASSUME at[c] = "rollback", next[c] <= Len(UndoPlan),
             owner' = [owner EXCEPT ![Place(c, UndoPlan[next[c]])] = {}]
      PROVE  /\ next[c] \in 1 .. 5 /\ UndoPlan[next[c]] \in Steps \ Registries
             /\ UndoPlan[next[c]] \in created[c] /\ Clears(c, UndoPlan[next[c]])
  <2>1. Backward(c) /\ next[c] \in 1 .. 5
    BY <1>2, UndoPlanFacts DEF IInv, CallInv, TypeOK
  <2>2. UndoPlan[next[c]] \in created[c] /\ Owned(c, UndoPlan[next[c]])
    BY <2>1 DEF Backward
  <2> QED
    BY <1>2, <2>1, <2>2, UndoPlanFacts DEF Clears
<1> QED
  BY <1>1, <1>2 DEF Hang

LEMMA HangKeeps ==
  ASSUME IInv, NEW c \in Calls, Hang(c)
  PROVE  OneOwner' /\ \A d \in Calls : CallInv(d)'
<1>0. /\ TypeOK /\ CallInv(c) /\ UNCHANGED <<faults, next, targets, repos, created>>
      /\ at' = [at EXCEPT ![c] = "hung"] /\ at'[c] = "hung"
      /\ \A d \in Calls \ {c} : at'[d] = at[d]
  BY DEF IInv, Hang, TypeOK
<1>1. /\ OneOwner' /\ OwnsBySteps(c)'
      /\ \A t \in Registries : Owned(c, t)' => Owned(c, t)
      /\ at[c] # "rollback" /\ Owned(c, "git_tag_pushed") => Owned(c, "git_tag_pushed")'
      /\ \A d \in Calls \ {c} : \A p \in Places : d \in owner'[p] <=> d \in owner[p]
  <2>0. /\ Registries \subseteq Steps /\ "git_tag_pushed" \in Steps
        /\ Untimed \subseteq Steps \ Registries
    BY DEF Steps, Registries, Providers, Untimed
  <2>1. CASE UNCHANGED owner
    BY <2>1 DEF IInv, OneOwner, CallInv, OwnsBySteps, Owned, Place
  <2>2. ASSUME NEW s \in Untimed, Takes(c, s)
        PROVE  /\ OneOwner' /\ OwnsBySteps(c)'
               /\ \A t \in Registries : Owned(c, t)' => Owned(c, t)
               /\ Owned(c, "git_tag_pushed") => Owned(c, "git_tag_pushed")'
               /\ \A d \in Calls \ {c} : \A p \in Places : d \in owner'[p] <=> d \in owner[p]
    BY <2>0, <2>2, TakesFacts
  <2>3. ASSUME at[c] = "rollback", NEW s \in Steps \ Registries, Clears(c, s)
        PROVE  /\ OneOwner' /\ OwnsBySteps(c)'
               /\ \A t \in Registries : Owned(c, t)' => Owned(c, t)
               /\ \A d \in Calls \ {c} : \A p \in Places : d \in owner'[p] <=> d \in owner[p]
    BY <2>0, <2>3, ClearsFacts
  <2> QED
    BY <2>1, <2>2, <2>3, HangIs
<1>2. UploadKept(c)'
  <2>1. at[c] \in {"forward", "rollback"}
    BY DEF Hang, AtStep
  <2> QED
    BY <1>0, <1>1, <2>1 DEF CallInv, UploadKept
<1>3. Accounted(c)'
  BY <1>0 DEF Accounted
<1>4. CallInv(c)'
  BY <1>0, <1>1, <1>2, <1>3 DEF CallInv
<1>5. \A d \in Calls \ {c} : CallInv(d)'
  BY <1>0, <1>1, OthersKept
<1> QED
  BY <1>1, <1>4, <1>5

LEMMA IInvStep == IInv /\ [Next]_vars => IInv'
<1> SUFFICES ASSUME IInv, [Next]_vars PROVE IInv'
  OBVIOUS
<1>1. TypeOK'
  BY TypeStep DEF IInv
<1>2. CASE UNCHANGED vars
  <2>1. OneOwner' /\ \A d \in Calls : CallInv(d)'
    BY <1>2, OthersKept DEF vars, IInv, OneOwner
  <2> QED
    BY <1>1, <2>1 DEF IInv
<1> QED
  BY <1>1, <1>2, NextSteps, MakeKeeps, RejectedKeeps, AnswerLostKeeps, UndoKeeps, MovesKeep,
     HangKeeps DEF IInv

LEMMA IInvAlways == Spec => []IInv
BY IInvInit, IInvStep, PTL DEF Spec

(***************************************************************************)
(* Theorems                                                                *)
(***************************************************************************)

\* The registries and providers have their place on the remote side.
LEMMA RemotePlaces ==
  ASSUME IInv, NEW c \in Calls, NEW s \in Steps \ {"git_tag"}
  PROVE  owner[<<"remote", s>>] = {c} <=> Owned(c, s)
<1>1. <<"remote", s>> = Place(c, s) /\ Place(c, s) \in Places
  BY PlaceFacts
<1>2. owner[Place(c, s)] \subseteq Calls
  BY <1>1 DEF IInv, TypeOK
<1> QED
  BY <1>1, <1>2 DEF IInv, OneOwner, Owned

LEMMA RemoteSteps ==
  /\ Providers \union Registries \subseteq Steps \ {"git_tag"}
  /\ "git_tag_pushed" \in Steps \ {"git_tag"}
BY DEF Steps, Providers, Registries

\* Nothing is released under a tag that the remote does not have.
THEOREM TagStandsUnderRelease == Spec => []TagUnderRelease
<1>1. IInv => TagUnderRelease
  <2> SUFFICES ASSUME IInv, NEW c \in Calls, NEW s \in Providers \union Registries,
                      at[c] \in {"forward", "done"}, Owned(c, s)
               PROVE  Owned(c, "git_tag_pushed")
    BY RemotePlaces, RemoteSteps DEF TagUnderRelease
  <2> QED
    BY TagBehindRelease
<1> QED
  BY <1>1, IInvAlways, PTL

\* The call that made an upload is never rolled back and keeps its tag.
THEOREM UploadsAreFinal == Spec => []UploadIsFinal
<1>1. IInv => UploadIsFinal
  BY RemotePlaces, RemoteSteps DEF UploadIsFinal, IInv, CallInv, UploadKept
<1> QED
  BY <1>1, IInvAlways, PTL

\* A call that answers "success" has a release of its own at exactly the
\* providers named together with their repository, and "urls" says which.
THEOREM SuccessIsComplete == Spec => []SuccessComplete
<1>1. IInv => SuccessComplete
  <2> SUFFICES ASSUME IInv, NEW c \in Calls, at[c] = "done", NEW s \in Providers
               PROVE  /\ s \in created[c] <=> Owned(c, s)
                      /\ Owned(c, s) <=> s \in Released(c)
    <3>1. ASSUME IInv, NEW c \in Calls, NEW t \in Providers
          PROVE  owner[<<"remote", t>>] = {c} <=> Owned(c, t)
      BY <3>1, RemotePlaces, RemoteSteps
    <3> QED
      BY <3>1 DEF SuccessComplete, Urls, Released
  <2>1. Forward(c) /\ next[c] = 8 /\ Accounted(c) /\ Asked(c)
    BY DEF IInv, CallInv
  <2>2. s \in Steps /\ s \notin Registries /\ Fatal(s)
    BY DEF Steps, Fatal, Providers, Registries
  <2>3. s \in created[c] <=> Owned(c, s)
    BY <2>1, <2>2 DEF Forward, Accounted, Untold
  <2>4. s \in Released(c) => Owned(c, s)
    <3>1. s \in Released(c) => s \in Wanted(c)
      BY DEF Wanted
    <3> QED
      BY <2>1, <2>2, <3>1, PlanFacts DEF Forward
  <2>5. Owned(c, s) => s \in Released(c)
    BY <2>1, <2>3 DEF Asked, Wanted, Providers, Registries
  <2> QED
    BY <2>3, <2>4, <2>5
<1> QED
  BY <1>1, IInvAlways, PTL

\* At most one call for a version succeeds, whatever clones and processes the
\* calls run in: both would own the one tag on the remote.
THEOREM AtMostOneRelease == Spec => []OneReleasePerVersion
<1>1. IInv => OneReleasePerVersion
  <2> SUFFICES ASSUME IInv, NEW c \in Calls, NEW d \in Calls, at[c] = "done", at[d] = "done"
               PROVE  c = d
    BY DEF OneReleasePerVersion
  <2>1. ASSUME NEW e \in {c, d} PROVE Owned(e, "git_tag_pushed")
    <3>1. Forward(e) /\ next[e] = 8
      BY DEF IInv, CallInv
    <3>2. "git_tag_pushed" \in Wanted(e) /\ Fatal("git_tag_pushed")
      BY DEF Wanted, Fatal, Registries
    <3> QED
      BY <3>1, <3>2, PlanFacts, RemoteSteps DEF Forward
  <2> QED
    BY <2>1, PlaceFacts, RemoteSteps DEF IInv, OneOwner, Owned
<1> QED
  BY <1>1, IInvAlways, PTL

\* When every deletion is done, a failed call leaves at most one thing behind:
\* the one whose answer was lost.
THEOREM FailureLeavesNothing == Spec => []NoResidue
<1>1. IInv => NoResidue
  <2> SUFFICES ASSUME IInv, NEW c \in Calls
               PROVE  /\ at[c] = "refused" => Residue(c) = {}
                      /\ at[c] = "failed" /\ "undelete" \notin faults =>
                           /\ Residue(c) # {} => "lost" \in faults
                           /\ \A s, t \in Residue(c) : s = t /\ s \notin created[c]
    BY DEF NoResidue
  <2>1. CallInv(c) /\ Residue(c) = {s \in Steps : Owned(c, s)}
    BY DEF IInv, Residue, Owned
  <2>2. CASE at[c] = "refused"
    BY <2>1, <2>2 DEF CallInv, NotBegun
  <2>3. CASE at[c] = "failed" /\ "undelete" \notin faults
    <3>1. Residue(c) = Untold(c)
      BY <2>1, <2>3 DEF CallInv, Accounted, Untold
    <3> QED
      BY <2>1, <2>3, <3>1 DEF CallInv, Accounted, Untold
  <2> QED
    BY <2>2, <2>3
<1> QED
  BY <1>1, IInvAlways, PTL

\* A tag or a release goes away only by the rollback of the call that made it.
THEOREM OnlyOwnIsUndone == Spec => OnlyOwnUndone
<1> DEFINE Own(p, c) == at[c] = "rollback" /\ (next'[c] # next[c] \/ at'[c] = "hung")
           Undone == \A p \in Places : \A c \in owner[p] \ owner'[p] : Own(p, c)
<1>1. IInv /\ [Next]_vars => [Undone]_vars
  <2> SUFFICES ASSUME IInv, [Next]_vars, NEW p \in Places, NEW c \in owner[p] \ owner'[p]
               PROVE  Own(p, c)
    OBVIOUS
  <2>0. c \in Calls
    BY DEF IInv, TypeOK
  <2>1. ASSUME NEW d \in Calls, NEW s \in Steps, Takes(d, s) PROVE FALSE
    BY <2>0, <2>1, TakesFacts, PlaceFacts DEF IInv, TypeOK, Takes, Free
  <2>2. ASSUME NEW d \in Calls, Undo(d) PROVE Own(p, c)
    <3>1. next'[d] # next[d] /\ at[d] = "rollback"
      <4>1. at[d] = "rollback"
        BY <2>2 DEF Undo
      <4>2. next[d] \in 1 .. 5 /\ next'[d] \in next[d] + 1 .. 6
        BY <2>2, UndoIsOwn
      <4>3. next'[d] # next[d]
        BY <4>2
      <4> QED
        BY <4>1, <4>3
    <3>2. PICK s \in Steps : Clears(d, s)
      BY <2>2, UndoIsOwn
    <3>3. c = d
      BY <2>0, <3>2, ClearsFacts
    <3> QED
      BY <3>1, <3>3
  <2>3. ASSUME NEW d \in Calls, Make(d) \/ AnswerLost(d) PROVE FALSE
    BY <2>1, <2>3 DEF Make, AnswerLost, Takes
  <2>4. ASSUME UNCHANGED owner PROVE FALSE
    BY <2>4
  <2>5. ASSUME NEW d \in Calls, Hang(d) PROVE Own(p, c)
    <3>1. PICK s \in Steps : at[d] = "rollback" /\ Clears(d, s)
      <4>1. \A s \in Untimed : s \in Steps
        BY DEF Untimed, Steps, Providers
      <4> QED
        BY <2>1, <2>4, <2>5, <4>1, HangIs
    <3>2. c = d
      BY <2>0, <3>1, ClearsFacts
    <3>3. at'[d] = "hung"
      BY <2>5 DEF Hang, IInv, TypeOK
    <3> QED
      BY <3>1, <3>2, <3>3
  <2> QED
    BY <2>2, <2>3, <2>4, <2>5, NextSteps DEF Refuse, Begin, Rejected, Succeed, Finish, Crash, vars
<1> QED
  BY <1>1, IInvAlways, PTL DEF Spec, OnlyOwnUndone

(***************************************************************************)
(* The tag on the remote is a claim: a step is one of VersionClaim or      *)
(* leaves the claim, the releases and the successes as they are.           *)
(***************************************************************************)

Targets == Providers \union Registries
Holder == owner[<<"remote", "git_tag_pushed">>]
Out == [t \in Targets |-> owner[<<"remote", t>>]]
Winners == {c \in Calls : at[c] = "done"}

ClaimStep == Version!ClaimNext \/ UNCHANGED <<Holder, Out, Winners>>

\* Taking a place is claiming the version, publishing, or a local tag.
LEMMA TakingMaps ==
  ASSUME IInv, NEW c \in Calls, NEW s \in Steps, Takes(c, s), Winners' = Winners,
         s \in Targets => Owned(c, "git_tag_pushed")
  PROVE  ClaimStep
<1>1. owner \in [Places -> SUBSET Calls] /\ Place(c, s) \in Places
  BY PlaceFacts DEF IInv, TypeOK
<1>2. owner[Place(c, s)] = {} /\ \A p \in Places : owner'[p] = IF p = Place(c, s) THEN {c} ELSE owner[p]
  BY <1>1 DEF Takes, Free
<1>3. \A t \in Steps \ {"git_tag"} :
        /\ <<"remote", t>> \in Places
        /\ owner'[<<"remote", t>>] = IF t = s THEN {c} ELSE owner[<<"remote", t>>]
  BY <1>2, PlaceFacts
<1>4. CASE s = "git_tag"
  <2>1. \A t \in Steps \ {"git_tag"} : owner'[<<"remote", t>>] = owner[<<"remote", t>>]
    BY <1>3, <1>4
  <2>2. Holder' = Holder /\ Out' = Out
    BY <2>1, RemoteSteps DEF Holder, Out, Targets
  <2> QED
    BY <2>2 DEF ClaimStep
<1>5. CASE s = "git_tag_pushed"
  <2>1. Holder = {} /\ Holder' = {c}
    BY <1>2, <1>3, <1>5, PlaceFacts, RemoteSteps DEF Holder
  <2>2. Out' = Out
    <3>1. \A t \in Targets : owner'[<<"remote", t>>] = owner[<<"remote", t>>]
      BY <1>3, <1>5, RemoteSteps DEF Targets, Providers, Registries
    <3> QED
      BY <3>1 DEF Out
  <2>3. Version!Claim(c)
    BY <2>1, <2>2 DEF Version!Claim, Holder, Out, Winners, Targets
  <2> QED
    BY <2>3 DEF ClaimStep, Version!ClaimNext
<1>6. CASE s \in Targets
  <2>1. Holder = {c} /\ Holder' = Holder
    BY <1>3, <1>6, RemotePlaces, RemoteSteps DEF Holder, Targets, Providers, Registries
  <2>2. Out[s] = {} /\ Out' = [Out EXCEPT ![s] = {c}]
    <3>1. owner[<<"remote", s>>] = {}
      BY <1>2, <1>6, PlaceFacts, RemoteSteps DEF Targets
    <3>2. \A t \in Targets : owner'[<<"remote", t>>] = IF t = s THEN {c} ELSE owner[<<"remote", t>>]
      BY <1>3, RemoteSteps DEF Targets
    <3> QED
      BY <1>6, <3>1, <3>2 DEF Out
  <2>3. Version!Publish(c)
    BY <1>6, <2>1, <2>2 DEF Version!Publish, Holder, Out, Winners, Targets
  <2> QED
    BY <2>3 DEF ClaimStep, Version!ClaimNext
<1> QED
  BY <1>4, <1>5, <1>6 DEF Steps, Targets

\* Clearing one in a rollback is withdrawing a release while the version is
\* claimed, giving up the claim, or a local tag.
LEMMA ClearingMaps ==
  ASSUME IInv, NEW c \in Calls, NEW s \in Steps \ Registries, Clears(c, s), Winners' = Winners,
         at[c] = "rollback", s \in Providers => Owned(c, "git_tag_pushed")
  PROVE  ClaimStep
<1>1. owner \in [Places -> SUBSET Calls] /\ Place(c, s) \in Places
  BY PlaceFacts DEF IInv, TypeOK
<1>2. \A p \in Places : owner'[p] = IF p = Place(c, s) THEN {} ELSE owner[p]
  BY <1>1 DEF Clears
<1>3. \A t \in Steps \ {"git_tag"} :
        /\ <<"remote", t>> \in Places
        /\ owner'[<<"remote", t>>] = IF t = s THEN {} ELSE owner[<<"remote", t>>]
  BY <1>2, PlaceFacts
<1>4. c \notin Winners
  BY DEF Winners
<1>5. CASE s = "git_tag"
  <2>1. \A t \in Steps \ {"git_tag"} : owner'[<<"remote", t>>] = owner[<<"remote", t>>]
    BY <1>3, <1>5
  <2>2. Holder' = Holder /\ Out' = Out
    BY <2>1, RemoteSteps DEF Holder, Out, Targets
  <2> QED
    BY <2>2 DEF ClaimStep
<1>6. CASE s = "git_tag_pushed"
  <2>1. Holder = {c} /\ Holder' = {}
    BY <1>3, <1>6, RemotePlaces, RemoteSteps DEF Holder, Clears
  <2>2. Out' = Out
    <3>1. \A t \in Targets : owner'[<<"remote", t>>] = owner[<<"remote", t>>]
      BY <1>3, <1>6, RemoteSteps DEF Targets, Providers, Registries
    <3> QED
      BY <3>1 DEF Out
  <2>3. \A t \in Registries : Out[t] # {c}
    BY RemotePlaces, RemoteSteps DEF Out, Targets, IInv, CallInv, UploadKept
  <2>4. Version!GiveUp(c)
    BY <1>4, <2>1, <2>2, <2>3 DEF Version!GiveUp, Holder, Out, Winners, Targets
  <2> QED
    BY <2>4 DEF ClaimStep, Version!ClaimNext
<1>7. CASE s \in Providers
  <2>1. Holder = {c} /\ Holder' = Holder
    BY <1>3, <1>7, RemotePlaces, RemoteSteps DEF Holder, Providers
  <2>2. Out[s] = {c} /\ Out' = [Out EXCEPT ![s] = {}]
    <3>1. owner[<<"remote", s>>] = {c}
      BY <1>7, RemotePlaces, RemoteSteps DEF Clears
    <3>2. \A t \in Targets : owner'[<<"remote", t>>] = IF t = s THEN {} ELSE owner[<<"remote", t>>]
      BY <1>3, RemoteSteps DEF Targets
    <3> QED
      BY <1>7, <3>1, <3>2 DEF Out, Targets
  <2>3. Version!Withdraw(c)
    BY <1>4, <1>7, <2>1, <2>2 DEF Version!Withdraw, Holder, Out, Winners, Targets
  <2> QED
    BY <2>3 DEF ClaimStep, Version!ClaimNext
<1> QED
  BY <1>5, <1>6, <1>7 DEF Steps

\* A step that ends no call with success leaves the successes as they are.
LEMMA WinnersKept ==
  ASSUME \A d \in Calls : at'[d] = "done" <=> at[d] = "done"
  PROVE  Winners' = Winners
BY DEF Winners

LEMMA FailMaps ==
  ASSUME IInv, NEW c \in Calls, NEW s \in Steps, AtStep(c, s), Fail(c, s)
  PROVE  Winners' = Winners
<1>1. TypeOK /\ at[c] = "forward"
  BY AtStepFacts DEF IInv
<1>2. \A d \in Calls : at'[d] = "done" <=> at[d] = "done"
  BY <1>1 DEF Fail, TypeOK
<1> QED
  BY <1>2, WinnersKept

\* A call at a target has pushed its tag.
LEMMA TagBehindTarget ==
  ASSUME IInv, NEW c \in Calls, NEW s \in Targets, AtStep(c, s)
  PROVE  Owned(c, "git_tag_pushed")
<1>1. s \in Steps
  BY DEF Targets, Steps
<1>2. next[c] \in 1 .. 7 /\ s = Plan[next[c]] /\ at[c] = "forward" /\ Forward(c)
  BY <1>1, AtStepFacts DEF IInv, CallInv
<1>3. next[c] > 2 /\ Plan[2] = "git_tag_pushed"
  BY <1>2, PlanFacts DEF Targets, Providers, Registries
<1>4. "git_tag_pushed" \in Wanted(c) /\ Fatal("git_tag_pushed")
  BY DEF Wanted, Fatal, Registries
<1> QED
  BY <1>2, <1>3, <1>4 DEF Forward

LEMMA MakeMaps ==
  ASSUME IInv, NEW c \in Calls, Make(c)
  PROVE  ClaimStep
<1> PICK s \in Steps : AtStep(c, s) /\ Takes(c, s) /\ UNCHANGED at
  BY DEF Make, Takes
<1>1. Winners' = Winners
  BY WinnersKept
<1> QED
  BY <1>1, TagBehindTarget, TakingMaps

LEMMA AnswerLostMaps ==
  ASSUME IInv, NEW c \in Calls, AnswerLost(c)
  PROVE  ClaimStep
<1> PICK s \in Steps : AtStep(c, s) /\ Takes(c, s) /\ Fail(c, s)
  BY DEF AnswerLost, Takes
<1> QED
  BY FailMaps, TagBehindTarget, TakingMaps

LEMMA UndoMaps ==
  ASSUME IInv, NEW c \in Calls, Undo(c)
  PROVE  ClaimStep
<1>0. at[c] = "rollback" /\ UNCHANGED at /\ Backward(c)
  BY DEF Undo, IInv, CallInv
<1>1. /\ next[c] \in 1 .. 5 /\ UndoPlan[next[c]] \in Steps \ Registries
      /\ UndoPlan[next[c]] \in created[c]
  BY <1>0, UndoIsOwn DEF Backward
<1>2. Winners' = Winners
  BY <1>0, WinnersKept
<1>3. CASE Clears(c, UndoPlan[next[c]])
  <2>1. ASSUME UndoPlan[next[c]] \in Providers PROVE Owned(c, "git_tag_pushed")
    <3>1. "git_tag_pushed" \in created[c] /\ UndoPlan[5] = "git_tag_pushed"
      BY <1>0, <1>1, <2>1 DEF Backward, UndoPlan
    <3> QED
      BY <1>0, <1>1, <3>1 DEF Backward
  <2> QED
    BY <1>0, <1>1, <1>2, <1>3, <2>1, ClearingMaps
<1>4. CASE UNCHANGED owner
  BY <1>2, <1>4 DEF ClaimStep, Holder, Out
<1> QED
  BY <1>3, <1>4, UndoIsOwn

LEMMA HangMaps ==
  ASSUME IInv, NEW c \in Calls, Hang(c)
  PROVE  ClaimStep
<1>1. at' = [at EXCEPT ![c] = "hung"] /\ at[c] \in {"forward", "rollback"} /\ TypeOK
  BY DEF Hang, AtStep, IInv
<1>2. Winners' = Winners
  <2>1. \A d \in Calls : at'[d] = "done" <=> at[d] = "done"
    BY <1>1 DEF TypeOK
  <2> QED
    BY <2>1, WinnersKept
<1>3. CASE UNCHANGED owner
  BY <1>2, <1>3 DEF ClaimStep, Holder, Out
<1>4. ASSUME NEW s \in Untimed, AtStep(c, s), Takes(c, s) PROVE ClaimStep
  <2>1. s \in Steps /\ (s \in Targets => Owned(c, "git_tag_pushed"))
    BY <1>4, TagBehindTarget DEF Untimed, Steps, Targets, Providers
  <2> QED
    BY <1>2, <1>4, <2>1, TakingMaps
<1>5. ASSUME at[c] = "rollback", next[c] \in 1 .. 5, UndoPlan[next[c]] \in Steps \ Registries,
             UndoPlan[next[c]] \in created[c], Clears(c, UndoPlan[next[c]])
      PROVE  ClaimStep
  <2>0. Backward(c)
    BY <1>5 DEF IInv, CallInv
  <2>1. ASSUME UndoPlan[next[c]] \in Providers PROVE Owned(c, "git_tag_pushed")
    <3>1. "git_tag_pushed" \in created[c] /\ UndoPlan[5] = "git_tag_pushed"
      BY <1>5, <2>0, <2>1 DEF Backward, UndoPlan
    <3> QED
      BY <1>5, <2>0, <3>1 DEF Backward
  <2> QED
    BY <1>2, <1>5, <2>1, ClearingMaps
<1> QED
  BY <1>3, <1>4, <1>5, HangIs

LEMMA SucceedMaps ==
  ASSUME IInv, NEW c \in Calls, Succeed(c)
  PROVE  ClaimStep
<1>1. at[c] = "forward" /\ next[c] = 8 /\ UNCHANGED owner /\ at' = [at EXCEPT ![c] = "done"] /\ TypeOK
  BY PlanFacts DEF Succeed, IInv
<1>2. Winners' = Winners \union {c}
  BY <1>1 DEF Winners, TypeOK
<1>3. Holder = {c} /\ Holder' = Holder /\ Out' = Out
  BY <1>1, TagBehindUpload, RemotePlaces, RemoteSteps DEF Holder, Out
<1>4. Version!Win(c)
  BY <1>2, <1>3 DEF Version!Win, Holder, Out, Winners, Targets
<1> QED
  BY <1>4 DEF ClaimStep, Version!ClaimNext

LEMMA OthersMap ==
  ASSUME IInv, NEW c \in Calls, Refuse(c) \/ Begin(c) \/ Rejected(c) \/ Finish(c) \/ Crash(c)
  PROVE  ClaimStep
<1>1. UNCHANGED owner /\ TypeOK
  BY DEF IInv, Refuse, Begin, Rejected, Finish, Crash
<1>2. Winners' = Winners
  <2>1. CASE Rejected(c)
    BY <2>1, FailMaps DEF Rejected
  <2>2. CASE Refuse(c) \/ Begin(c) \/ Finish(c) \/ Crash(c)
    <3>1. \A d \in Calls : at'[d] = "done" <=> at[d] = "done"
      BY <1>1, <2>2 DEF Refuse, Begin, Finish, Crash, TypeOK
    <3> QED
      BY <3>1, WinnersKept
  <2> QED
    BY <2>1, <2>2
<1> QED
  BY <1>1, <1>2 DEF ClaimStep, Holder, Out

LEMMA ClaimInitMaps == Init => Version!ClaimInit
<1> SUFFICES ASSUME Init PROVE Version!ClaimInit
  OBVIOUS
<1>1. \A s \in Steps \ {"git_tag"} : <<"remote", s>> \in Places
  BY DEF Places
<1>2. Holder = {} /\ Winners = {} /\ Out = [t \in Targets |-> {}]
  BY <1>1, RemoteSteps DEF Init, Holder, Winners, Out, Targets
<1> QED
  BY <1>2 DEF Version!ClaimInit, Holder, Winners, Out, Targets

LEMMA ClaimStepMaps == IInv /\ [Next]_vars => [Version!ClaimNext]_(Version!claimVars)
<1> SUFFICES ASSUME IInv, [Next]_vars PROVE ClaimStep
  BY DEF ClaimStep, Version!claimVars, Holder, Out, Winners, Targets
<1>1. CASE UNCHANGED vars
  BY <1>1 DEF vars, ClaimStep, Holder, Out, Winners
<1> QED
  BY <1>1, NextSteps, MakeMaps, AnswerLostMaps, UndoMaps, SucceedMaps, OthersMap, HangMaps

\* The remote tag is taken before anything is published, held while releases are
\* deleted and given up last, by a call without an upload: Release implements
\* VersionClaim.
THEOREM ReleasesImplementClaim == Spec => ImplementsClaim
BY ClaimInitMaps, ClaimStepMaps, IInvAlways, PTL DEF Spec, ImplementsClaim, Version!ClaimSpec

\* Who has succeeded holds the claim, and so does who has uploaded; one call at
\* a time holds it.
ClaimInv ==
  /\ \A c, d \in Holder : c = d
  /\ Winners \subseteq Holder
  /\ \A t \in Registries : Out[t] \subseteq Holder

LEMMA ClaimInvStep == ClaimInv /\ [Version!ClaimNext]_(Version!claimVars) => ClaimInv'
<1> SUFFICES ASSUME ClaimInv, ClaimStep PROVE ClaimInv'
  BY DEF ClaimStep, Version!claimVars, Holder, Out, Winners, Targets
<1>1. CASE UNCHANGED <<Holder, Out, Winners>>
  BY <1>1 DEF ClaimInv
<1>2. ASSUME NEW c \in Calls, Version!Claim(c) PROVE ClaimInv'
  <2>1. Holder = {} /\ Holder' = {c} /\ Out' = Out /\ Winners' = Winners
    BY <1>2 DEF Version!Claim, Holder, Out, Winners, Targets
  <2> QED
    BY <2>1 DEF ClaimInv
<1>3. ASSUME NEW c \in Calls, Version!Publish(c) PROVE ClaimInv'
  <2>1. /\ Holder = {c} /\ Holder' = Holder /\ Winners' = Winners
        /\ \E t \in Targets : Out' = [Out EXCEPT ![t] = {c}]
    BY <1>3 DEF Version!Publish, Holder, Out, Winners, Targets
  <2>2. \A t \in Registries : Out'[t] = Out[t] \/ Out'[t] = {c}
    BY <2>1 DEF Out, Targets
  <2> QED
    BY <2>1, <2>2 DEF ClaimInv
<1>4. ASSUME NEW c \in Calls, Version!Withdraw(c) PROVE ClaimInv'
  <2>1. /\ Holder' = Holder /\ Winners' = Winners
        /\ \E t \in Providers : Out' = [Out EXCEPT ![t] = {}]
    BY <1>4 DEF Version!Withdraw, Holder, Out, Winners, Targets
  <2>2. \A t \in Registries : Out'[t] = Out[t]
    BY <2>1 DEF Out, Targets, Providers, Registries
  <2> QED
    BY <2>1, <2>2 DEF ClaimInv
<1>5. ASSUME NEW c \in Calls, Version!GiveUp(c) PROVE ClaimInv'
  <2>1. /\ Holder = {c} /\ Holder' = {} /\ Out' = Out /\ Winners' = Winners /\ c \notin Winners
        /\ \A t \in Registries : Out[t] # {c}
    BY <1>5 DEF Version!GiveUp, Holder, Out, Winners, Targets
  <2>2. Winners = {} /\ \A t \in Registries : Out[t] = {}
    BY <2>1 DEF ClaimInv
  <2> QED
    BY <2>1, <2>2 DEF ClaimInv
<1>6. ASSUME NEW c \in Calls, Version!Win(c) PROVE ClaimInv'
  <2>1. Holder = {c} /\ Holder' = Holder /\ Out' = Out /\ Winners' = Winners \union {c}
    BY <1>6 DEF Version!Win, Holder, Out, Winners, Targets
  <2> QED
    BY <2>1 DEF ClaimInv
<1> QED
  BY <1>1, <1>2, <1>3, <1>4, <1>5, <1>6 DEF ClaimStep, Version!ClaimNext

\* The claim is all it takes: whatever else a program does, if its tags,
\* releases and successes follow VersionClaim, one call at most succeeds.
THEOREM ClaimIsEnough == ImplementsClaim => []OneReleasePerVersion
<1>1. Version!ClaimInit => ClaimInv
  <2> SUFFICES ASSUME Version!ClaimInit PROVE ClaimInv
    OBVIOUS
  <2>1. Holder = {} /\ Winners = {} /\ Out = [t \in Targets |-> {}]
    BY DEF Version!ClaimInit, Holder, Winners, Out, Targets
  <2> QED
    BY <2>1 DEF ClaimInv, Targets
<1>2. ClaimInv => OneReleasePerVersion
  BY DEF ClaimInv, OneReleasePerVersion, Winners
<1> QED
  BY <1>1, <1>2, ClaimInvStep, PTL DEF ImplementsClaim, Version!ClaimSpec

(***************************************************************************)
(* Progress: what a call has before it.  No step but its own changes it,   *)
(* and each of those shortens it, so a call that keeps working ends: what  *)
(* CallEnds needs beside fairness.                                         *)
(***************************************************************************)

StepsLeft(c) ==
  CASE at[c] = "new" -> 16
    [] at[c] = "forward" -> 16 - next[c]
    [] at[c] = "rollback" -> 7 - next[c]
    [] OTHER -> 0

LEMMA FailShortens ==
  ASSUME IInv, NEW c \in Calls, NEW s \in Steps, AtStep(c, s), Fail(c, s)
  PROVE  /\ StepsLeft(c)' < StepsLeft(c)
         /\ \A d \in Calls \ {c} : StepsLeft(d)' = StepsLeft(d)
<1>1. TypeOK /\ at[c] = "forward" /\ next[c] \in 1 .. 7
  BY AtStepFacts DEF IInv
<1>2. CASE Fatal(s)
  <2>1. From(UndoPlan, Undoable(c), 0 + 1) \in 1 .. 6
    BY UndoLands
  <2>2. at'[c] = "rollback" /\ next'[c] \in 1 .. 6
    BY <1>1, <1>2, <2>1 DEF Fail, TypeOK
  <2> QED
    BY <1>1, <2>2, FailFrame DEF StepsLeft
<1>3. CASE ~Fatal(s)
  <2>1. From(Plan, Wanted(c), next[c] + 1) \in next[c] + 1 .. 8
    BY <1>1, AdvanceLands
  <2>2. at'[c] = "forward" /\ next'[c] \in next[c] + 1 .. 8
    BY <1>1, <1>3, <2>1 DEF Fail, Advance, TypeOK
  <2> QED
    BY <1>1, <2>2, FailFrame DEF StepsLeft
<1> QED
  BY <1>2, <1>3

\* Every step brings one call nearer to its end and leaves the others where they
\* are: no failure, lost answer or rollback sends a call back, none holds up
\* another, and a call ends after at most 16 steps of its own.
Shortens(c) ==
  /\ StepsLeft(c)' < StepsLeft(c)
  /\ \A d \in Calls \ {c} : StepsLeft(d)' = StepsLeft(d)

THEOREM EveryStepIsProgress ==
  Spec => [][\E c \in Calls : Shortens(c)]_vars
<1>1. IInv /\ [Next]_vars => [\E c \in Calls : Shortens(c)]_vars
  <2> SUFFICES ASSUME IInv, NEW c \in Calls,
                      \/ Refuse(c) \/ Begin(c) \/ Make(c) \/ Rejected(c) \/ AnswerLost(c)
                      \/ Succeed(c) \/ Undo(c) \/ Finish(c) \/ Crash(c) \/ Hang(c)
               PROVE  Shortens(c)
    BY NextSteps
  <2>0. TypeOK /\ next[c] \in 1 .. 8
    BY DEF IInv, TypeOK
  <2>1. ASSUME NEW d \in Calls, at'[d] = at[d], next'[d] = next[d]
        PROVE  StepsLeft(d)' = StepsLeft(d)
    BY <2>1 DEF StepsLeft
  <2>2. CASE Refuse(c) \/ Begin(c) \/ Crash(c)
    <3>1. \A d \in Calls \ {c} : at'[d] = at[d] /\ next'[d] = next[d]
      BY <2>0, <2>2 DEF Refuse, Begin, Crash, TypeOK
    <3>2. StepsLeft(c)' < StepsLeft(c)
      <4>1. CASE Refuse(c)
        BY <2>0, <4>1 DEF Refuse, StepsLeft, TypeOK
      <4>2. CASE Begin(c)
        BY <2>0, <4>2 DEF Begin, StepsLeft, TypeOK
      <4>3. CASE Crash(c)
        <5>1. at[c] = "rollback" => next[c] \in 1 .. 6
          BY DEF IInv, CallInv, Backward
        <5> QED
          BY <2>0, <4>3, <5>1 DEF Crash, StepsLeft, TypeOK
      <4> QED
        BY <2>2, <4>1, <4>2, <4>3
    <3> QED
      BY <2>1, <3>1, <3>2 DEF Shortens
  <2>3. CASE Make(c)
    <3> PICK s \in Steps : AtStep(c, s) /\ Advance(c) /\ UNCHANGED at
      BY <2>3 DEF Make
    <3>1. at[c] = "forward" /\ next[c] \in 1 .. 7
      BY <2>0, AtStepFacts
    <3>2. From(Plan, Wanted(c), next[c] + 1) \in next[c] + 1 .. 8
      BY <3>1, AdvanceLands
    <3>3. next'[c] \in next[c] + 1 .. 8 /\ \A d \in Calls \ {c} : next'[d] = next[d]
      BY <2>0, <3>2 DEF Advance, TypeOK
    <3> QED
      BY <2>1, <3>1, <3>3 DEF Shortens, StepsLeft
  <2>4. CASE Rejected(c) \/ AnswerLost(c)
    BY <2>4, FailShortens DEF Rejected, AnswerLost, Shortens
  <2>5. CASE Succeed(c) \/ Finish(c)
    <3>1. \A d \in Calls \ {c} : at'[d] = at[d] /\ next'[d] = next[d]
      BY <2>0, <2>5 DEF Succeed, Finish, TypeOK
    <3>2. StepsLeft(c)' < StepsLeft(c)
      BY <2>0, <2>5, PlanFacts, UndoPlanFacts DEF Succeed, Finish, StepsLeft, TypeOK
    <3> QED
      BY <2>1, <3>1, <3>2 DEF Shortens
  <2>6. CASE Undo(c)
    <3>1. at[c] = "rollback" /\ UNCHANGED at /\ \A d \in Calls \ {c} : next'[d] = next[d]
      BY <2>0, <2>6 DEF Undo, TypeOK
    <3>2. next[c] \in 1 .. 5 /\ next'[c] \in next[c] + 1 .. 6
      BY <2>6, UndoIsOwn
    <3> QED
      BY <2>1, <3>1, <3>2 DEF Shortens, StepsLeft
  <2>7. CASE Hang(c)
    <3>1. at'[c] = "hung" /\ \A d \in Calls \ {c} : at'[d] = at[d] /\ next'[d] = next[d]
      BY <2>0, <2>7 DEF Hang, TypeOK
    <3>2. at[c] = "forward" \/ (at[c] = "rollback" /\ next[c] \in 1 .. 6)
      BY <2>7 DEF Hang, AtStep, IInv, CallInv, Backward
    <3>3. StepsLeft(c)' < StepsLeft(c)
      BY <2>0, <3>1, <3>2 DEF StepsLeft
    <3> QED
      BY <2>1, <3>1, <3>3 DEF Shortens
  <2> QED
    BY <2>2, <2>3, <2>4, <2>5, <2>6, <2>7
<1> QED
  BY <1>1, IInvAlways, PTL DEF Spec
================================================================================
