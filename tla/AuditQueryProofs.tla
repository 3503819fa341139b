-------------------------- MODULE AuditQueryProofs --------------------------
(***************************************************************************)
(* Theorems about a query that runs beside any number of writers: what     *)
(* rotation does to the files can neither hide a record from it nor, when  *)
(* nothing was rotated, put its answer out of order.  And about the        *)
(* reading of one file: _reverse_lines gives the lines of every file, last *)
(* first, in blocks of any size.                                           *)
(***************************************************************************)
EXTENDS AuditQuery, AuditLogProofs, FiniteSetTheorems, SequenceTheorems

(***************************************************************************)
(* The records of a file, newest first                                     *)
(***************************************************************************)

\* How many records of a file are newer than one of them.
Newer(ids, n) == Cardinality({m \in ids : n < m})

LEMMA NewerCount ==
  ASSUME NEW ids \in SUBSET Nat, IsFiniteSet(ids), NEW n \in ids
  PROVE  Newer(ids, n) \in 0 .. Cardinality(ids) - 1
<1> DEFINE above == {m \in ids : n < m}
<1>1. above \in SUBSET ids /\ n \notin above
  OBVIOUS
<1>2. /\ IsFiniteSet(above) /\ Cardinality(above) <= Cardinality(ids)
      /\ Cardinality(ids) # Cardinality(above)
  BY <1>1, FS_Subset
<1>3. Cardinality(above) \in Nat /\ Cardinality(ids) \in Nat
  BY <1>2, FS_CardinalityType
<1>4. Newer(ids, n) = Cardinality(above)
  BY DEF Newer
<1> HIDE DEF above
<1> QED
  BY <1>2, <1>3, <1>4

LEMMA NewerOrders ==
  ASSUME NEW ids \in SUBSET Nat, IsFiniteSet(ids), NEW m \in ids, NEW n \in ids, m < n
  PROVE  Newer(ids, n) < Newer(ids, m)
<1> DEFINE below == {k \in ids : m < k}
           above == {k \in ids : n < k}
<1>0. \A k \in ids : k \in Int
  OBVIOUS
<1>1. above \in SUBSET below /\ n \in below /\ n \notin above /\ below \in SUBSET ids
  <2>1. \A k \in ids : n < k => m < k
    BY <1>0
  <2>2. ~(n < n)
    BY <1>0
  <2> QED
    BY <2>1, <2>2
<1>2. IsFiniteSet(below)
  BY <1>1, FS_Subset
<1>3. /\ IsFiniteSet(above) /\ Cardinality(above) <= Cardinality(below)
      /\ Cardinality(below) # Cardinality(above)
  BY <1>1, <1>2, FS_Subset
<1>4. Cardinality(above) \in Nat /\ Cardinality(below) \in Nat
  BY <1>2, <1>3, FS_CardinalityType
<1>5. Newer(ids, n) = Cardinality(above) /\ Newer(ids, m) = Cardinality(below)
  BY DEF Newer
<1> HIDE DEF above, below
<1> QED
  BY <1>3, <1>4, <1>5

\* Every place in the file is some record's.
LEMMA NewerReached ==
  ASSUME NEW ids \in SUBSET Nat, IsFiniteSet(ids), NEW k \in 0 .. Cardinality(ids) - 1
  PROVE  \E n \in ids : Newer(ids, n) = k
<1> DEFINE places == 0 .. Cardinality(ids) - 1
           place == [n \in ids |-> Newer(ids, n)]
<1>0. Cardinality(ids) \in Nat
  BY FS_CardinalityType
<1>1. IsFiniteSet(places) /\ Cardinality(places) = Cardinality(ids)
  BY <1>0, FS_Interval
<1>2. place \in Injection(ids, places)
  <2>1. place \in [ids -> places]
    BY NewerCount
  <2>2. ASSUME NEW m \in ids, NEW n \in ids, place[m] = place[n] PROVE m = n
    <3>1. Newer(ids, m) = Newer(ids, n)
      BY <2>2
    <3>2. Newer(ids, m) \in Int /\ Newer(ids, n) \in Int
      BY <1>0, NewerCount
    <3>3. CASE m < n
      BY <3>1, <3>2, <3>3, NewerOrders
    <3>4. CASE n < m
      BY <3>1, <3>2, <3>4, NewerOrders
    <3> QED
      BY <3>3, <3>4
  <2> QED
    BY <2>1, <2>2 DEF Injection, IsInjective
<1>3. place \in Surjection(ids, places)
  BY <1>1, <1>2, FS_Injection
<1>4. PICK n \in ids : place[n] = k
  BY <1>3 DEF Surjection
<1> QED
  BY <1>4

\* Every record is given once, newest first.
LEMMA ReadNewestFirst ==
  ASSUME NEW ids \in SUBSET Nat, IsFiniteSet(ids)
  PROVE  /\ NewestFirst(ids) \in Seq(ids) /\ NewestFirst(ids) \in Seq(Nat)
         /\ \A n \in ids : \E k \in DOMAIN NewestFirst(ids) : NewestFirst(ids)[k] = n
         /\ Descending(NewestFirst(ids))
<1> DEFINE s == NewestFirst(ids)
           total == Cardinality(ids)
<1>0. total \in Nat
  BY FS_CardinalityType
<1>1. /\ DOMAIN s = 1 .. total /\ s = [k \in 1 .. total |-> s[k]]
      /\ \A k \in 1 .. total : s[k] \in ids /\ Newer(ids, s[k]) = k - 1
  <2>1. s = [k \in 1 .. total |-> CHOOSE n \in ids : Newer(ids, n) = k - 1]
    BY DEF NewestFirst, Newer
  <2>2. ASSUME NEW k \in 1 .. total
        PROVE  \E n \in ids : Newer(ids, n) = k - 1
    BY <1>0, NewerReached
  <2> HIDE DEF s, total
  <2> QED
    BY <2>1, <2>2
<1> HIDE DEF s, total
<1>2. \A n \in ids : n \in Int /\ Newer(ids, n) \in 0 .. total - 1
  BY NewerCount DEF total
<1>3. \A n \in ids : Newer(ids, n) \in Int
  BY <1>0, <1>2
<1>4. \A m, n \in ids : m < n => Newer(ids, n) < Newer(ids, m)
  BY NewerOrders
<1>5. \A m, n \in ids : Newer(ids, n) <= Newer(ids, m) => m <= n
  <2> SUFFICES ASSUME NEW m \in ids, NEW n \in ids, ~(m <= n)
               PROVE  ~(Newer(ids, n) <= Newer(ids, m))
    OBVIOUS
  <2>1. n < m /\ Newer(ids, m) < Newer(ids, n)
    BY <1>2, <1>4
  <2>2. Newer(ids, m) \in Int /\ Newer(ids, n) \in Int
    BY <1>3
  <2> QED
    BY <2>1, <2>2
<1>6. s \in Seq(ids) /\ s \in Seq(Nat)
  <2>1. s \in [1 .. total -> ids] /\ s \in [1 .. total -> Nat]
    BY <1>1
  <2> QED
    BY <1>0, <2>1
<1>7. ASSUME NEW n \in ids PROVE \E k \in DOMAIN s : s[k] = n
  <2>1. PICK k \in 1 .. total : k = Newer(ids, n) + 1
    BY <1>0, <1>2
  <2>2. s[k] \in ids /\ Newer(ids, s[k]) = Newer(ids, n)
    BY <1>1, <1>2, <2>1
  <2>3. s[k] = n
    <3>1. Newer(ids, n) \in Int /\ s[k] \in Int /\ n \in Int
      BY <1>2, <1>3, <2>2
    <3>2. s[k] <= n /\ n <= s[k]
      BY <1>5, <2>2, <3>1
    <3> QED
      BY <3>1, <3>2
  <2> QED
    BY <1>1, <2>3
<1>8. Descending(s)
  <2> SUFFICES ASSUME NEW i \in 1 .. total, NEW j \in 1 .. total, i < j PROVE s[j] < s[i]
    BY <1>1 DEF Descending
  <2>1. s[i] \in ids /\ s[j] \in ids /\ Newer(ids, s[i]) = i - 1 /\ Newer(ids, s[j]) = j - 1
    BY <1>1
  <2>2. s[j] <= s[i]
    <3>1. Newer(ids, s[i]) <= Newer(ids, s[j])
      BY <1>0, <2>1
    <3> QED
      BY <1>5, <2>1, <3>1
  <2>3. s[j] # s[i] /\ s[i] \in Int /\ s[j] \in Int
    <3>1. i - 1 # j - 1
      BY <1>0
    <3>2. s[j] # s[i]
      BY <2>1, <3>1
    <3> QED
      BY <1>2, <2>1, <3>2
  <2> QED
    BY <2>2, <2>3
<1> QED
  BY <1>6, <1>7, <1>8 DEF s

(***************************************************************************)
(* The answer grows by a file                                              *)
(***************************************************************************)

Found(answer, n) == \E k \in DOMAIN answer : answer[k] = n

\* Only the end of what was read is cut off.
LEMMA ExtendedIs ==
  ASSUME NEW answer \in Seq(Nat), NEW ids \in SUBSET Nat, IsFiniteSet(ids), NEW limit \in Nat
  PROVE  \E all \in Seq(Nat) :
           /\ all = answer \o NewestFirst(ids)
           /\ Extended(answer, ids, limit) \in Seq(Nat)
           /\ Len(Extended(answer, ids, limit)) = IF Len(all) > limit THEN limit ELSE Len(all)
           /\ \A k \in DOMAIN Extended(answer, ids, limit) :
                k \in DOMAIN all /\ Extended(answer, ids, limit)[k] = all[k]
<1>1. PICK s \in Seq(Nat) : s = NewestFirst(ids)
  BY ReadNewestFirst
<1>2. PICK all : all = answer \o s /\ all \in Seq(Nat)
  BY ConcatProperties
<1>3. PICK r : r = Extended(answer, ids, limit)
  OBVIOUS
<1>4. r = IF Len(all) > limit THEN SubSeq(all, 1, limit) ELSE all
  BY <1>1, <1>2, <1>3 DEF Extended
<1> DEFINE Cut == /\ r \in Seq(Nat)
                  /\ Len(r) = IF Len(all) > limit THEN limit ELSE Len(all)
                  /\ \A k \in DOMAIN r : k \in DOMAIN all /\ r[k] = all[k]
<1>5. ASSUME Len(all) > limit PROVE Cut
  <2>1. r = SubSeq(all, 1, limit) /\ 1 \in Int /\ limit <= Len(all)
    BY <1>4, <1>5
  <2>2. r \in Seq(Nat) /\ Len(r) = limit /\ \A k \in 1 .. limit : r[k] = all[k]
    <3>1. \A k \in 1 .. limit : all[k] \in Nat
      BY <1>2, <2>1
    <3>2. /\ r \in Seq(Nat) /\ Len(r) = IF 1 <= limit THEN limit - 1 + 1 ELSE 0
          /\ \A k \in 1 .. limit - 1 + 1 : r[k] = all[1 + k - 1]
      BY <2>1, <3>1, SubSeqProperties
    <3> QED
      BY <3>2
  <2> QED
    BY <1>5, <2>2
<1>6. ASSUME ~(Len(all) > limit) PROVE Cut
  <2>1. r = all
    BY <1>4, <1>6
  <2> QED
    BY <1>2, <1>6, <2>1
<1> QED
  BY <1>1, <1>2, <1>3, <1>5, <1>6

\* What was found stays found; a record of the file is found, or cut off behind
\* newer ones; and the answer stays in order when the file is older than it.
LEMMA ExtendedFinds ==
  ASSUME NEW answer \in Seq(Nat), NEW ids \in SUBSET Nat, IsFiniteSet(ids), NEW limit \in Nat,
         Len(answer) < limit, NEW new, new = Extended(answer, ids, limit)
  PROVE  /\ new \in Seq(Nat) /\ Len(new) <= limit
         /\ \A n : Found(answer, n) => Found(new, n)
         /\ \A n \in ids : Found(new, n) \/ Len(new) = limit
         /\ \A k \in DOMAIN new : Found(answer, new[k]) \/ new[k] \in ids
         /\ Descending(answer) /\ (\A n \in ids : \A k \in DOMAIN answer : n < answer[k]) =>
              /\ Descending(new)
              /\ \A n \in ids : Found(new, n) \/ \A k \in DOMAIN new : n < new[k]
<1>1. PICK all \in Seq(Nat) :
        /\ all = answer \o NewestFirst(ids)
        /\ new \in Seq(Nat)
        /\ Len(new) = IF Len(all) > limit THEN limit ELSE Len(all)
        /\ \A k \in DOMAIN new : k \in DOMAIN all /\ new[k] = all[k]
  BY ExtendedIs
<1>2. PICK s \in Seq(ids) :
        /\ s = NewestFirst(ids)
        /\ \A n \in ids : \E k \in DOMAIN s : s[k] = n
        /\ Descending(s)
  BY ReadNewestFirst
<1>3. /\ Len(all) = Len(answer) + Len(s)
      /\ \A k \in 1 .. Len(answer) : all[k] = answer[k]
      /\ \A k \in 1 .. Len(s) : all[Len(answer) + k] = s[k]
  BY <1>1, <1>2
<1>4. /\ Len(answer) \in Nat /\ Len(s) \in Nat /\ Len(new) \in Nat /\ Len(all) \in Nat
      /\ DOMAIN answer = 1 .. Len(answer) /\ DOMAIN s = 1 .. Len(s)
      /\ DOMAIN new = 1 .. Len(new) /\ DOMAIN all = 1 .. Len(all)
  BY <1>1, <1>2
<1>5. \A k \in 1 .. Len(new) : k \in 1 .. Len(all) /\ new[k] = all[k]
  BY <1>1, <1>4
<1>6. \A k \in 1 .. Len(s) : s[k] \in ids
  BY <1>2
<1>7. Len(answer) <= Len(new) /\ Len(new) <= limit
  BY <1>1, <1>3, <1>4
<1>8. ASSUME NEW n, Found(answer, n) PROVE Found(new, n)
  <2>1. PICK k \in 1 .. Len(answer) : answer[k] = n
    BY <1>4, <1>8 DEF Found
  <2>2. k \in DOMAIN new /\ new[k] = answer[k]
    BY <1>3, <1>4, <1>7, <1>5
  <2> QED
    BY <2>1, <2>2 DEF Found
<1>9. \A k \in 1 .. Len(all) : k \in 1 .. Len(answer) \/ \E i \in 1 .. Len(s) : k = Len(answer) + i
  <2> SUFFICES ASSUME NEW k \in 1 .. Len(all), ~(k <= Len(answer))
               PROVE  \E i \in 1 .. Len(s) : k = Len(answer) + i
    BY <1>4
  <2>1. k - Len(answer) \in 1 .. Len(s) /\ k = Len(answer) + (k - Len(answer))
    BY <1>3, <1>4
  <2> QED
    BY <2>1
<1>10. \A k \in DOMAIN new : Found(answer, new[k]) \/ new[k] \in ids
  <2> SUFFICES ASSUME NEW k \in 1 .. Len(new) PROVE Found(answer, new[k]) \/ new[k] \in ids
    BY <1>4
  <2>1. k \in 1 .. Len(all) /\ new[k] = all[k]
    BY <1>5
  <2>2. CASE k \in 1 .. Len(answer)
    BY <1>3, <1>4, <2>1, <2>2 DEF Found
  <2>3. CASE k \notin 1 .. Len(answer)
    BY <1>3, <1>9, <1>6, <2>1, <2>3
  <2> QED
    BY <2>2, <2>3
<1>11. ASSUME NEW n \in ids PROVE Found(new, n) \/ Len(new) = limit
  <2>1. PICK k \in 1 .. Len(s) : s[k] = n
    BY <1>2, <1>4
  <2>2. CASE Len(new) = Len(all)
    <3>1. Len(answer) + k \in DOMAIN new /\ all[Len(answer) + k] = n
      BY <1>3, <1>4, <2>1, <2>2
    <3> QED
      BY <1>1, <3>1 DEF Found
  <2> QED
    BY <1>1, <2>2
<1>12. ASSUME Descending(answer), \A n \in ids : \A k \in DOMAIN answer : n < answer[k]
       PROVE  Descending(all)
  <2> SUFFICES ASSUME NEW i \in 1 .. Len(all), NEW j \in 1 .. Len(all), i < j
               PROVE  all[j] < all[i]
    BY <1>4 DEF Descending
  <2>1. CASE j \in 1 .. Len(answer)
    <3>1. i \in 1 .. Len(answer) /\ all[i] = answer[i] /\ all[j] = answer[j]
      BY <1>3, <1>4, <2>1
    <3> QED
      BY <1>4, <1>12, <2>1, <3>1 DEF Descending
  <2>2. CASE i \in 1 .. Len(answer) /\ j \notin 1 .. Len(answer)
    <3>1. PICK l \in 1 .. Len(s) : j = Len(answer) + l
      BY <1>9, <2>2
    <3>2. all[j] \in ids /\ all[i] = answer[i]
      BY <1>3, <1>6, <2>2, <3>1
    <3> QED
      BY <1>4, <1>12, <2>2, <3>2
  <2>3. CASE i \notin 1 .. Len(answer) /\ j \notin 1 .. Len(answer)
    <3>1. PICK k \in 1 .. Len(s), l \in 1 .. Len(s) : i = Len(answer) + k /\ j = Len(answer) + l
      BY <1>9, <2>3
    <3>2. k < l
      BY <1>4, <3>1
    <3>3. s[l] < s[k]
      BY <1>2, <1>4, <3>2 DEF Descending
    <3> QED
      BY <1>3, <3>1, <3>3
  <2> QED
    BY <1>4, <2>1, <2>2, <2>3
<1>13. ASSUME Descending(all) PROVE Descending(new)
  BY <1>1, <1>13 DEF Descending
<1>14. ASSUME Descending(all), NEW n \in ids, ~Found(new, n)
       PROVE  \A k \in DOMAIN new : n < new[k]
  <2>1. PICK l \in 1 .. Len(s) : s[l] = n
    BY <1>2, <1>4
  <2>2. Len(answer) + l \in DOMAIN all /\ all[Len(answer) + l] = n
    BY <1>3, <1>4, <2>1
  <2>3. Len(answer) + l \notin DOMAIN new
    BY <1>1, <1>14, <2>2 DEF Found
  <2>4. \A k \in DOMAIN new : k < Len(answer) + l
    BY <1>4, <2>2, <2>3
  <2> QED
    BY <1>1, <1>14, <2>2, <2>4 DEF Descending
<1> QED
  BY <1>1, <1>7, <1>8, <1>10, <1>11, <1>12, <1>13, <1>14

(***************************************************************************)
(* What the writers do to the files under a query                          *)
(***************************************************************************)

\* A file that is not there has no records.
Held == \A i \in Slots : ~disk[i].exists => disk[i].ids = {}

\* The three things a step does to the files.
Moves == \E k \in Slots : k + 1 \in Slots /\ disk' = Renamed(k, k + 1)
Drops ==
  \A i \in Slots : disk'[i].ids \subseteq disk[i].ids /\ (~disk'[i].exists => disk'[i].ids = {})
Adds ==
  /\ disk'[0].ids \subseteq disk[0].ids \union {written + 1} /\ disk'[0].exists
  /\ \A i \in Slots : i # 0 => disk'[i] = disk[i]

LEMMA DiskSteps ==
  ASSUME TypeInv, Held, [Next]_vars
  PROVE  Moves \/ Drops \/ Adds
<1> USE AuditAssumption
<1>0. TypeOK /\ ShiftInv /\ 0 \in Slots
  BY SlotZero DEF TypeInv
<1>1. ASSUME UNCHANGED disk PROVE Drops
  BY <1>1 DEF Drops, Held
<1>2. ASSUME NEW w \in Writers, Build(w) \/ TakeLock(w) PROVE Drops
  BY <1>1, <1>2 DEF Build, TakeLock
<1>3. ASSUME NEW w \in Writers, RemoveOldest(w) PROVE Drops
  BY <1>0, <1>3 DEF RemoveOldest, TypeOK, NoFile, Held, Drops
<1>4. ASSUME NEW w \in Writers, ShiftBackup(w) PROVE Moves \/ Drops
  <2>1. shift[w] \in Slots /\ shift[w] + 1 \in Slots
    BY <1>0, <1>4 DEF ShiftBackup, ShiftInv, Slots
  <2> QED
    BY <1>1, <1>4, <2>1 DEF ShiftBackup, Moves
<1>5. ASSUME NEW w \in Writers, RollLive(w) PROVE Moves \/ Drops
  <2>1. 0 \in Slots /\ 0 + 1 \in Slots
    BY <1>0, <1>5 DEF RollLive, ShiftInv, Rotating, Slots
  <2>2. disk' = Renamed(0, 0 + 1) \/ UNCHANGED disk
    BY <1>5 DEF RollLive
  <2> QED
    BY <1>1, <2>1, <2>2 DEF Moves
<1>6. ASSUME NEW w \in Writers, AppendRecord(w) PROVE Adds
  BY <1>0, <1>6 DEF AppendRecord, Appended, TypeOK, Adds
<1>7. ASSUME NEW w \in Writers, AppendFails(w) \/ AppendTorn(w) PROVE Drops
  BY <1>0, <1>1, <1>7
  DEF AppendFails, AppendTorn, CutShort, EmptyFile, NoFile, TypeOK, Held, Drops
<1>8. CASE Crash
  BY <1>1, <1>8 DEF Crash
<1>9. CASE UNCHANGED vars
  BY <1>1, <1>9 DEF vars
<1> QED
  BY <1>2, <1>3, <1>4, <1>5, <1>6, <1>7, <1>8, <1>9 DEF Next, Locked, Quiet

\* The records after a rename.
LEMMA RenamedIds ==
  ASSUME TypeOK, NEW k \in Slots, k + 1 \in Slots, disk' = Renamed(k, k + 1)
  PROVE  \A i \in Slots :
           /\ disk'[i].ids = IF i = k THEN {} ELSE IF i = k + 1 THEN disk[k].ids ELSE disk[i].ids
           /\ disk'[i].exists = IF i = k THEN FALSE
                                ELSE IF i = k + 1 THEN disk[k].exists ELSE disk[i].exists
BY AuditAssumption DEF Slots, Renamed, NoFile, TypeOK

LEMMA HeldStep ==
  ASSUME TypeInv, Held, [Next]_vars
  PROVE  Held'
<1>1. CASE Moves
  BY <1>1, RenamedIds DEF Moves, Held, TypeInv
<1>2. CASE Drops
  BY <1>2 DEF Drops, Held
<1>3. CASE Adds
  BY <1>3 DEF Adds, Held
<1> QED
  BY <1>1, <1>2, <1>3, DiskSteps

\* A record in a file came there from the same slot or a lower one, or is new.
LEMMA FromBelow ==
  ASSUME OrderInv, Held, [Next]_vars, NEW b \in Slots, NEW n \in disk'[b].ids
  PROVE  \/ \E a \in Slots : a <= b /\ n \in disk[a].ids
         \/ b = 0 /\ n = written + 1
<1>1. CASE Moves
  <2>1. PICK k \in Slots : k + 1 \in Slots /\ disk' = Renamed(k, k + 1)
    BY <1>1 DEF Moves
  <2>2. disk'[b].ids = IF b = k THEN {} ELSE IF b = k + 1 THEN disk[k].ids ELSE disk[b].ids
    BY <2>1, RenamedIds DEF OrderInv, TypeInv
  <2>3. b <= b /\ k <= k + 1
    BY AuditAssumption DEF Slots
  <2> QED
    BY <2>1, <2>2, <2>3
<1>2. CASE Drops
  BY <1>2, AuditAssumption DEF Drops, Slots
<1>3. CASE Adds
  BY <1>3, AuditAssumption DEF Adds, Slots
<1> QED
  BY <1>1, <1>2, <1>3, DiskSteps DEF OrderInv

\* A record is in one file only.
LEMMA OneSlot ==
  ASSUME OrderInv, NEW a \in Slots, NEW b \in Slots, NEW n, n \in disk[a].ids, n \in disk[b].ids
  PROVE  a = b
<1>1. a \in Int /\ b \in Int /\ n \in Int
  BY AuditAssumption DEF Slots, OrderInv, IdsKnown
<1> QED
  BY <1>1 DEF OrderInv, Ordered

LEMMA OneSlotNext ==
  ASSUME OrderInv', NEW a \in Slots, NEW b \in Slots, NEW n, n \in disk'[a].ids, n \in disk'[b].ids
  PROVE  a = b
<1>1. a \in Int /\ b \in Int /\ n \in Int
  BY AuditAssumption DEF Slots, OrderInv, IdsKnown
<1> QED
  BY <1>1 DEF OrderInv, Ordered, Slots

\* A record that can still be read has not moved down.
LEMMA MovesUp ==
  ASSUME OrderInv, Held, [Next]_vars, NEW i \in Slots, NEW n \in disk[i].ids, n \in Retained'
  PROVE  \E j \in Slots : i <= j /\ n \in disk'[j].ids
<1>1. PICK j \in Slots : n \in disk'[j].ids
  BY DEF Retained, Slots
<1>2. n # written + 1
  BY DEF OrderInv, TypeInv, TypeOK, IdsKnown
<1>3. PICK a \in Slots : a <= j /\ n \in disk[a].ids
  BY <1>1, <1>2, FromBelow
<1>4. a = i
  BY <1>3, OneSlot
<1> QED
  BY <1>1, <1>3, <1>4

\* When no record leaves a file, no backup gets one.
LEMMA BackupsStay ==
  ASSUME OrderInv, OrderInv', Held, [Next]_vars, \A i \in Slots : disk[i].ids \subseteq disk'[i].ids,
         NEW b \in Slots, b # 0, NEW n \in disk'[b].ids
  PROVE  n \in disk[b].ids
<1>1. PICK a \in Slots : n \in disk[a].ids
  BY FromBelow
<1>2. a = b
  BY <1>1, OneSlotNext
<1> QED
  BY <1>1, <1>2

(***************************************************************************)
(* The inductive invariant                                                 *)
(***************************************************************************)

Walking == query.at \in {"scan", "open"}

\* The query will still come to the file that the record is in.
Ahead(n) == \E i \in Slots : query.source <= i /\ n \in disk[i].ids

\* Where the walk is.
Place ==
  /\ query.at = "open" => query.source \in Slots /\ Len(query.answer) < query.limit
  /\ Walking /\ query.source = 0 => query.answer = <<>>

\* As long as there is room, a record that is not in the answer is ahead.
NothingBehind ==
  Walking /\ Len(query.answer) < query.limit =>
    \A n \in kept : Found(query.answer, n) \/ Ahead(n)

\* Without a rotation, the answer is in order and what is ahead is older.
Older(n) == \A k \in DOMAIN query.answer : n < query.answer[k]
AheadOlder == \A i \in Slots : query.source <= i => \A n \in disk[i].ids : Older(n)
QuietWalk ==
  Walking /\ ~moved =>
    /\ Descending(query.answer)
    /\ \A n \in kept :
         \/ Found(query.answer, n)
         \/ Older(n) /\ (Len(query.answer) = query.limit \/ Ahead(n))
    /\ AheadOlder

Walk == QueryType /\ Place /\ NothingBehind /\ QuietWalk /\ NeverSkips /\ QuietQueryExact

\* Without a live file there is no record, except between a roll and the next
\* live file.
Covered == Retained # {} => disk[0].exists \/ BetweenFiles

QueryInv == OrderInv /\ Held /\ Walk /\ Covered

LEMMA AheadIs ==
  /\ AheadOlder <=> \A n : Ahead(n) => Older(n)
  /\ AheadOlder' <=> \A n : Ahead(n)' => Older(n)'
BY DEF AheadOlder, Ahead, Slots

\* What the writers do under a query is what they do without one.
LEMMA QueryBeside == [QueryNext]_allVars => [Next]_vars
BY DEF QueryNext, Ask, NextSource, ReadSource, WriterStep, CrashAll, Rest, Next, allVars

\* The writers' steps under a query are those of AuditLog: every theorem about
\* AuditLog holds beside queries too.
THEOREM QueriesChangeNothing == QuerySpec => Spec
<1>1. QueryInit => Init
  BY DEF QueryInit
<1> QED
  BY <1>1, QueryBeside, PTL DEF QuerySpec, Spec

LEMMA QueryInvInit == QueryInit => QueryInv
<1> SUFFICES ASSUME QueryInit PROVE QueryInv
  OBVIOUS
<1>1. OrderInv /\ Held
  BY OrderInvInit DEF QueryInit, Init, NoFile, Held
<1>2. /\ query = [at |-> "idle", source |-> 0, limit |-> 0, answer |-> <<>>] /\ kept = {}
      /\ gap \in BOOLEAN
  BY DEF QueryInit, NoQuery
<1>4. Covered
  BY DEF QueryInit, Init, NoFile, Retained, Slots, Covered
<1>3. QueryType
  <2>1. <<>> \in Seq(Nat) /\ Len(<<>>) = 0
    OBVIOUS
  <2>2. 0 \in 0 .. BackupCount + 1 /\ 0 <= 0
    BY AuditAssumption
  <2>3. query.answer = <<>> /\ query.limit = 0
    BY <1>2
  <2>4. Len(query.answer) <= query.limit
    BY <2>1, <2>2, <2>3, Zenon
  <2>5. query \in [at: {"idle", "scan", "open", "answer", "none", "error"},
                   source: 0 .. BackupCount + 1, limit: Limits \union {0}, answer: Seq(Nat)]
    BY <1>2, <2>1, <2>2
  <2> QED
    BY <1>2, <2>4, <2>5 DEF QueryType, QueryInit
<1> QED
  BY <1>1, <1>2, <1>3, <1>4
  DEF QueryInv, Walk, Place, NothingBehind, QuietWalk, NeverSkips, QuietQueryExact, Counts, Walking

LEMMA QueryFields ==
  ASSUME QueryType
  PROVE  /\ query.at \in {"idle", "scan", "open", "answer", "none", "error"}
         /\ query.source \in 0 .. BackupCount + 1 /\ query.limit \in Nat
         /\ query.answer \in Seq(Nat) /\ Len(query.answer) \in Nat /\ Len(query.answer) <= query.limit
<1>1. query.answer \in Seq(Nat) /\ query.limit \in Limits \union {0}
  BY DEF QueryType
<1>2. Len(query.answer) \in Nat
  BY <1>1
<1>3. query.limit \in Nat
  <2>1. \A l \in Limits : l \in Nat
    BY QueryAssumption
  <2> QED
    BY <1>1, <2>1
<1> QED
  BY <1>1, <1>2, <1>3 DEF QueryType

LEMMA KnownNat ==
  ASSUME OrderInv
  PROVE  /\ \A i \in Slots : disk[i].ids \in SUBSET Nat /\ IsFiniteSet(disk[i].ids)
         /\ Retained \subseteq Nat
<1>1. \A i \in Slots : disk[i].ids \subseteq 1 .. written /\ written \in Nat
  BY DEF OrderInv, IdsKnown, TypeInv, TypeOK
<1>2. ASSUME NEW i \in Slots PROVE disk[i].ids \in SUBSET Nat /\ IsFiniteSet(disk[i].ids)
  <2>1. written \in Int /\ 1 \in Int /\ disk[i].ids \in SUBSET (1 .. written)
    BY <1>1
  <2>2. IsFiniteSet(1 .. written)
    BY <2>1, FS_Interval
  <2> QED
    BY <2>1, <2>2, FS_Subset
<1> QED
  BY <1>2 DEF Retained, Slots

(***************************************************************************)
(* The steps of the query                                                  *)
(***************************************************************************)

LEMMA FoundIs == \A s, n : n \in ToSet(s) <=> Found(s, n)
BY DEF ToSet, Found

LEMMA AskWalks ==
  ASSUME QueryInv, Ask
  PROVE  Walk'
<1>0. /\ UNCHANGED <<disk, written>> /\ kept' = Retained /\ Retained' = Retained /\ moved' = FALSE
      /\ gap' = BetweenFiles /\ gap' \in BOOLEAN
  BY DEF Ask, vars, Retained, Slots, BetweenFiles
<1>1. PICK l \in Limits, at \in {"scan", "none"} :
        /\ query' = [at |-> at, source |-> 0, limit |-> l, answer |-> <<>>]
        /\ at = "none" => ~disk[0].exists
  BY DEF Ask, NoQuery
<1>2. /\ query'.at = at /\ query'.source = 0 /\ query'.limit = l /\ query'.answer = <<>>
      /\ DOMAIN query'.answer = {} /\ Len(query'.answer) = 0
  BY <1>1
<1>3. l \in Nat /\ 0 \in 0 .. BackupCount + 1
  BY AuditAssumption, QueryAssumption
<1>4. QueryType'
  <2>1. <<>> \in Seq(Nat)
    OBVIOUS
  <2>2. query' \in [at: {"idle", "scan", "open", "answer", "none", "error"},
                    source: 0 .. BackupCount + 1, limit: Limits \union {0}, answer: Seq(Nat)]
    BY <1>1, <1>3, <2>1
  <2>3. Len(query'.answer) <= query'.limit
    BY <1>2, <1>3
  <2> QED
    BY <1>0, <2>2, <2>3 DEF QueryType
<1>5. ASSUME NEW n \in kept' PROVE Ahead(n)'
  <2>1. PICK i \in Slots : n \in disk'[i].ids
    BY <1>0 DEF Retained, Slots
  <2>2. 0 <= i
    BY AuditAssumption DEF Slots
  <2> QED
    BY <1>2, <2>1, <2>2 DEF Ahead, Slots
<1>6. Descending(query.answer)' /\ \A n : Older(n)'
  BY <1>2 DEF Descending, Older
<1>7. at = "none" /\ ~gap' => kept' = {}
  BY <1>0, <1>1 DEF QueryInv, Covered
<1> QED
  BY AheadIs, <1>2, <1>4, <1>5, <1>6, <1>7
  DEF Walk, Place, NothingBehind, QuietWalk, NeverSkips, QuietQueryExact, Counts, Walking

\* The walk ends: enough was found, or nothing is ahead.
LEMMA AnswerWalks ==
  ASSUME QueryInv, query.at = "scan", UNCHANGED <<disk, kept, moved, gap>>,
         query' = [query EXCEPT !.at = "answer"],
         Len(query.answer) >= query.limit \/ query.source > BackupCount
  PROVE  Walk'
<1>0. QueryType /\ Walking /\ NothingBehind /\ QuietWalk /\ Retained' = Retained
  BY DEF QueryInv, Walk, Walking, Retained, Slots
<1>1. /\ query'.at = "answer" /\ query'.source = query.source /\ query'.limit = query.limit
      /\ query'.answer = query.answer
  BY <1>0 DEF QueryType
<1>2. QueryType'
  BY <1>0, <1>1 DEF QueryType
<1>3. Len(query.answer) = query.limit \/ \A n : ~Ahead(n)
  BY <1>0, QueryFields, AuditAssumption DEF Ahead, Slots
<1>4. Len(query.answer) < query.limit => Len(query.answer) # query.limit
  BY <1>0, QueryFields
<1>5. NeverSkips'
  BY <1>0, <1>1, <1>3, <1>4, FoundIs DEF NothingBehind, NeverSkips, Counts
<1>6. QuietQueryExact'
  BY <1>0, <1>1, <1>3, FoundIs DEF QuietWalk, QuietQueryExact, Counts, Older
<1> QED
  BY <1>1, <1>2, <1>5, <1>6 DEF Walk, Place, NothingBehind, QuietWalk, Walking

\* A source that is there will be opened.
LEMMA OpenWalks ==
  ASSUME QueryInv, query.at = "scan", UNCHANGED <<disk, kept, moved, gap>>,
         query' = [query EXCEPT !.at = "open"],
         ~(Len(query.answer) >= query.limit), ~(query.source > BackupCount)
  PROVE  Walk'
<1>0. QueryType /\ Walking /\ NothingBehind /\ QuietWalk /\ Place /\ Retained' = Retained
  BY DEF QueryInv, Walk, Walking, Retained, Slots
<1>1. /\ query'.at = "open" /\ query'.source = query.source /\ query'.limit = query.limit
      /\ query'.answer = query.answer
  BY <1>0 DEF QueryType
<1>2. QueryType'
  BY <1>0, <1>1 DEF QueryType
<1>3. query.source \in Slots /\ Len(query.answer) < query.limit
  BY <1>0, QueryFields, AuditAssumption DEF Slots
<1>4. \A n : Ahead(n)' <=> Ahead(n)
  BY <1>1 DEF Ahead, Slots
<1>5. \A n : Older(n)' <=> Older(n)
  BY <1>1 DEF Older
<1> QED
  BY AheadIs, <1>0, <1>1, <1>2, <1>3, <1>4, <1>5
  DEF Walk, Place, NothingBehind, QuietWalk, NeverSkips, QuietQueryExact, Counts, Walking

\* A source that is missing is stepped over, and held nothing.
LEMMA SkipWalks ==
  ASSUME QueryInv, Walking, UNCHANGED <<disk, kept, moved, gap>>,
         query' = [query EXCEPT !.at = "scan", !.source = @ + 1],
         query.source \in Slots, ~disk[query.source].exists
  PROVE  Walk'
<1>0. QueryType /\ Held /\ NothingBehind /\ QuietWalk /\ Place /\ Retained' = Retained
  BY DEF QueryInv, Walk, Retained, Slots
<1>1. /\ query'.at = "scan" /\ query'.source = query.source + 1 /\ query'.limit = query.limit
      /\ query'.answer = query.answer
  BY <1>0 DEF QueryType
<1>2. query.source + 1 \in 0 .. BackupCount + 1 /\ query.source + 1 # 0
  BY AuditAssumption DEF Slots
<1>3. QueryType'
  BY <1>0, <1>1, <1>2 DEF QueryType
<1>4. ASSUME NEW n PROVE Ahead(n)' <=> Ahead(n)
  <2>1. n \notin disk[query.source].ids
    BY <1>0 DEF Held
  <2>2. \A i \in Slots : query.source + 1 <= i <=> query.source <= i /\ i # query.source
    BY AuditAssumption DEF Slots
  <2>3. \A i \in Slots : n \in disk[i].ids => i # query.source
    BY <2>1
  <2> QED
    BY <1>1, <2>2, <2>3 DEF Ahead, Slots
<1>5. \A n : Older(n)' <=> Older(n)
  BY <1>1 DEF Older
<1> QED
  BY AheadIs, <1>0, <1>1, <1>2, <1>3, <1>4, <1>5
  DEF Walk, Place, NothingBehind, QuietWalk, NeverSkips, QuietQueryExact, Counts, Walking

\* A source is read into the answer.
LEMMA ReadWalks ==
  ASSUME QueryInv, query.at = "open", UNCHANGED <<disk, kept, moved, gap>>,
         query' = [query EXCEPT !.at = "scan", !.source = @ + 1,
                                !.answer = Extended(@, disk[query.source].ids, query.limit)]
  PROVE  Walk'
<1>0. /\ QueryType /\ OrderInv /\ Walking /\ NothingBehind /\ QuietWalk /\ Place
      /\ Retained' = Retained
  BY DEF QueryInv, Walk, Walking, Retained, Slots
<1>1. PICK ids : ids = disk[query.source].ids
  OBVIOUS
<1>2. PICK new : new = Extended(query.answer, ids, query.limit)
  OBVIOUS
<1>3. /\ query'.at = "scan" /\ query'.source = query.source + 1 /\ query'.limit = query.limit
      /\ query'.answer = new
  BY <1>0, <1>1, <1>2 DEF QueryType
<1>4. query.source \in Slots /\ Len(query.answer) < query.limit
  BY <1>0 DEF Place
<1>5. /\ query.source + 1 \in 0 .. BackupCount + 1 /\ query.source + 1 # 0
      /\ \A i \in Slots : query.source <= i <=> i = query.source \/ query.source + 1 <= i
      /\ \A i \in Slots : query.source + 1 <= i => query.source < i
  BY <1>4, AuditAssumption DEF Slots
<1>6. ids \in SUBSET Nat /\ IsFiniteSet(ids)
  BY <1>0, <1>1, <1>4, KnownNat
<1>7. /\ new \in Seq(Nat) /\ Len(new) <= query.limit
      /\ \A n : Found(query.answer, n) => Found(new, n)
      /\ \A n \in ids : Found(new, n) \/ Len(new) = query.limit
      /\ \A k \in DOMAIN new : Found(query.answer, new[k]) \/ new[k] \in ids
      /\ Descending(query.answer) /\ (\A n \in ids : \A k \in DOMAIN query.answer : n < query.answer[k]) =>
           /\ Descending(new)
           /\ \A n \in ids : Found(new, n) \/ \A k \in DOMAIN new : n < new[k]
  BY <1>0, <1>2, <1>4, <1>6, QueryFields, ExtendedFinds
<1>8. QueryType'
  BY <1>0, <1>3, <1>5, <1>7 DEF QueryType
<1>9. ASSUME NEW n, Ahead(n) PROVE n \in ids \/ Ahead(n)'
  BY <1>1, <1>3, <1>5, <1>9 DEF Ahead, Slots
<1>10. ASSUME NEW n, Ahead(n)' PROVE Ahead(n) /\ \A m \in ids : n < m
  <2>1. PICK i \in Slots : query.source + 1 <= i /\ n \in disk[i].ids
    BY <1>3, <1>10 DEF Ahead, Slots
  <2>2. query.source < i /\ query.source <= i
    BY <1>5, <2>1
  <2> QED
    BY <1>0, <1>1, <1>4, <2>1, <2>2 DEF Ahead, OrderInv, Ordered
<1>11. NothingBehind'
  <2>1. Len(new) < query.limit => Len(new) # query.limit
    BY <1>0, <1>7, QueryFields
  <2> QED
    BY <1>0, <1>3, <1>4, <1>7, <1>9, <2>1 DEF NothingBehind
<1>12. ASSUME ~moved PROVE QuietWalk'
  <2>1. /\ Descending(query.answer)
        /\ \A n \in kept : Found(query.answer, n) \/ (Older(n) /\ Ahead(n))
        /\ \A n : Ahead(n) => Older(n)
    <3>1. Len(query.answer) # query.limit
      BY <1>0, <1>4, QueryFields
    <3>2. /\ Descending(query.answer)
          /\ \A n \in kept :
               \/ Found(query.answer, n)
               \/ Older(n) /\ (Len(query.answer) = query.limit \/ Ahead(n))
          /\ \A n : Ahead(n) => Older(n)
      BY AheadIs, <1>0, <1>12 DEF QuietWalk
    <3> QED
      BY <3>1, <3>2
  <2>2. \A n \in ids : Ahead(n)
    <3>1. query.source <= query.source
      BY <1>4, AuditAssumption DEF Slots
    <3> QED
      BY <1>1, <1>4, <3>1 DEF Ahead
  <2>3. /\ Descending(new)
        /\ \A n \in ids : Found(new, n) \/ \A k \in DOMAIN new : n < new[k]
    BY <1>7, <2>1, <2>2 DEF Older
  <2>4. ASSUME NEW n, Ahead(n)' PROVE \A k \in DOMAIN new : n < new[k]
    <3>1. Older(n) /\ \A m \in ids : n < m
      BY <1>10, <2>1, <2>4
    <3>2. ASSUME NEW m, Found(query.answer, m) PROVE n < m
      BY <3>1, <3>2 DEF Older, Found
    <3> QED
      BY <1>7, <3>1, <3>2
  <2>5. ASSUME NEW n \in kept, ~Found(new, n)
        PROVE  (\A k \in DOMAIN new : n < new[k]) /\ (Len(new) = query.limit \/ Ahead(n)')
    <3>1. Ahead(n)
      BY <1>7, <2>1, <2>5
    <3>2. CASE n \in ids
      BY <1>7, <2>3, <2>5, <3>2
    <3>3. CASE Ahead(n)'
      BY <2>4, <3>3
    <3> QED
      BY <1>9, <3>1, <3>2, <3>3
  <2> QED
    BY AheadIs, <1>3, <2>3, <2>4, <2>5 DEF QuietWalk, Older
<1> QED
  BY <1>3, <1>5, <1>8, <1>11, <1>12
  DEF Walk, Place, QuietWalk, NeverSkips, QuietQueryExact, Counts, Walking

\* The writers take a step under the query.
LEMMA WriterWalks ==
  ASSUME QueryInv, OrderInv', WriterStep
  PROVE  Walk'
<1>0. /\ QueryType /\ OrderInv /\ OrderInv' /\ Held /\ [Next]_vars
      /\ NothingBehind /\ QuietWalk /\ Place /\ NeverSkips /\ QuietQueryExact
  BY DEF QueryInv, Walk, WriterStep, Next
<1>1. /\ query' = query /\ kept' = kept \intersect Retained' /\ gap' = gap
      /\ moved' = (moved \/ \E i \in Slots : ~ (disk[i].ids \subseteq disk'[i].ids))
  BY DEF WriterStep
<1>2. QueryType'
  BY <1>0, <1>1 DEF QueryType
<1>3. ASSUME NEW n \in kept', Ahead(n) PROVE Ahead(n)'
  <2>1. PICK i \in Slots : query.source <= i /\ n \in disk[i].ids
    BY <1>3 DEF Ahead
  <2>2. n \in Retained'
    BY <1>1
  <2>3. PICK j \in Slots : i <= j /\ n \in disk'[j].ids
    BY <1>0, <2>1, <2>2, MovesUp
  <2>4. query.source <= j
    BY <1>0, <2>1, <2>3, QueryFields, AuditAssumption DEF Slots
  <2> QED
    BY <1>1, <2>3, <2>4 DEF Ahead, Slots
<1>4. \A n : Older(n)' <=> Older(n)
  BY <1>1 DEF Older
<1>5. ASSUME ~moved', query.source # 0, NEW n, Ahead(n)' PROVE Ahead(n)
  <2>1. PICK i \in Slots : query.source <= i /\ n \in disk'[i].ids
    BY <1>1, <1>5 DEF Ahead, Slots
  <2>2. i # 0
    BY <1>0, <1>5, <2>1, QueryFields, AuditAssumption DEF Slots
  <2>3. \A j \in Slots : disk[j].ids \subseteq disk'[j].ids
    BY <1>1, <1>5
  <2>4. n \in disk[i].ids
    BY <1>0, <2>1, <2>2, <2>3, BackupsStay
  <2> QED
    BY <2>1, <2>4 DEF Ahead
<1>6. NothingBehind'
  BY <1>0, <1>1, <1>3 DEF NothingBehind, Walking
<1>7. ASSUME Walking, ~moved' PROVE QuietWalk'
  <2>1. /\ Descending(query.answer)
        /\ \A n \in kept :
             \/ Found(query.answer, n)
             \/ Older(n) /\ (Len(query.answer) = query.limit \/ Ahead(n))
        /\ \A n : Ahead(n) => Older(n)
    BY AheadIs, <1>0, <1>1, <1>7 DEF QuietWalk
  <2>2. query.source = 0 => \A n : Older(n)
    BY <1>0, <1>7 DEF Place, Older
  <2>3. \A n : Ahead(n)' => Older(n)'
    BY <1>4, <1>5, <1>7, <2>1, <2>2
  <2> QED
    BY AheadIs, <1>1, <1>3, <1>4, <2>1, <2>3 DEF QuietWalk
<1>8. Place' /\ NeverSkips' /\ QuietQueryExact'
  BY <1>0, <1>1 DEF Place, NeverSkips, QuietQueryExact, Counts, Walking, Slots
<1> QED
  BY <1>1, <1>2, <1>6, <1>7, <1>8 DEF Walk, QuietWalk, Walking

\* The process dies, and the query with it.
LEMMA CrashWalks ==
  ASSUME QueryInv, CrashAll
  PROVE  Walk'
<1>0. query' = [at |-> "idle", source |-> 0, limit |-> 0, answer |-> <<>>] /\ kept' = {} /\ ~moved'
      /\ moved' \in BOOLEAN /\ gap' \in BOOLEAN
  BY DEF CrashAll, NoQuery
<1>1. QueryType'
  <2>1. <<>> \in Seq(Nat) /\ Len(<<>>) = 0
    OBVIOUS
  <2>2. 0 \in 0 .. BackupCount + 1 /\ 0 <= 0
    BY AuditAssumption
  <2>3. query'.answer = <<>> /\ query'.limit = 0
    BY <1>0
  <2>4. Len(query'.answer) <= query'.limit
    BY <2>1, <2>2, <2>3, Zenon
  <2>5. query' \in [at: {"idle", "scan", "open", "answer", "none", "error"},
                    source: 0 .. BackupCount + 1, limit: Limits \union {0}, answer: Seq(Nat)]
    BY <1>0, <2>1, <2>2
  <2> QED
    BY <1>0, <2>4, <2>5 DEF QueryType
<1> QED
  BY <1>0, <1>1 DEF Walk, Place, NothingBehind, QuietWalk, NeverSkips, QuietQueryExact, Counts, Walking

LEMMA NextSourceWalks ==
  ASSUME QueryInv, NextSource
  PROVE  Walk'
<1>0. /\ query.at = "scan" /\ Walking /\ UNCHANGED <<disk, kept, moved, gap>> /\ QueryType
      /\ query' = IF Len(query.answer) >= query.limit \/ query.source > BackupCount
                    THEN [query EXCEPT !.at = "answer"]
                  ELSE IF disk[query.source].exists THEN [query EXCEPT !.at = "open"]
                  ELSE [query EXCEPT !.source = @ + 1]
  BY DEF NextSource, vars, Walking, QueryInv, Walk
<1>1. CASE Len(query.answer) >= query.limit \/ query.source > BackupCount
  BY <1>0, <1>1, AnswerWalks
<1>2. CASE /\ ~(Len(query.answer) >= query.limit) /\ ~(query.source > BackupCount)
           /\ disk[query.source].exists
  BY <1>0, <1>2, OpenWalks
<1>3. CASE /\ ~(Len(query.answer) >= query.limit) /\ ~(query.source > BackupCount)
           /\ ~disk[query.source].exists
  <2>1. query.source \in Slots
    BY <1>0, <1>3, QueryFields, AuditAssumption DEF Slots
  <2>2. query' = [query EXCEPT !.at = "scan", !.source = @ + 1]
    BY <1>0, <1>3 DEF QueryType
  <2> QED
    BY <1>0, <1>3, <2>1, <2>2, SkipWalks
<1> QED
  BY <1>1, <1>2, <1>3

LEMMA ReadSourceWalks ==
  ASSUME QueryInv, ReadSource
  PROVE  Walk'
<1>0. /\ query.at = "open" /\ Walking /\ UNCHANGED <<disk, kept, moved, gap>> /\ QueryType
      /\ query.source \in Slots /\ Retained' = Retained
  BY DEF ReadSource, vars, Walking, QueryInv, Walk, Place, Retained, Slots
<1>1. CASE disk[query.source].exists
  BY <1>0, <1>1, ReadWalks DEF ReadSource
<1>2. CASE ~disk[query.source].exists /\ query.source # 0
  BY <1>0, <1>2, SkipWalks DEF ReadSource
<1>3. CASE ~disk[query.source].exists /\ query.source = 0
  <2>1. query' = [query EXCEPT !.at = "error"]
    BY <1>3 DEF ReadSource
  <2>2. /\ query'.at = "error" /\ query'.limit = query.limit /\ query'.answer = query.answer
        /\ query' \in [at: {"idle", "scan", "open", "answer", "none", "error"},
                       source: 0 .. BackupCount + 1, limit: Limits \union {0}, answer: Seq(Nat)]
    BY <1>0, <2>1 DEF QueryType
  <2>3. QueryType'
    BY <1>0, <2>2 DEF QueryType
  <2> QED
    BY <2>2, <2>3 DEF Walk, Place, NothingBehind, QuietWalk, NeverSkips, QuietQueryExact, Counts, Walking
<1> QED
  BY <1>1, <1>2, <1>3

LEMMA StutterWalks ==
  ASSUME QueryInv, UNCHANGED allVars
  PROVE  Walk'
<1>1. UNCHANGED <<query, kept, moved, gap, disk>>
  BY DEF allVars, vars, queryVars
<1>2. Walk
  BY DEF QueryInv
<1> QED
  BY AheadIs, <1>1, <1>2
  DEF Walk, QueryType, Place, NothingBehind, QuietWalk, NeverSkips, QuietQueryExact, Counts, Walking,
      Ahead, Older, Retained, Slots

\* Only a rename takes the live file away, and its writer goes on to append.
LEMMA CoveredStep ==
  ASSUME QueryInv, [QueryNext]_allVars
  PROVE  Covered'
<1>0. /\ OrderInv /\ Covered /\ pc \in [Writers -> {"idle", "ready"} \union Critical]
      /\ disk \in [Slots -> File] /\ 0 \in Slots
  BY AuditAssumption DEF QueryInv, OrderInv, TypeInv, TypeOK, Slots
<1>1. CASE UNCHANGED <<vars, unwritten>>
  BY <1>0, <1>1 DEF Covered, BetweenFiles, Retained, Slots, vars
<1>2. CASE WriterStep
  <2>0. unwritten' = (/\ ~disk'[0].exists
                      /\ unwritten \/ \E w \in Writers : (pc[w] = "append" /\ pc'[w] = "idle"))
    BY <1>2 DEF WriterStep
  <2>1. PICK w \in Writers : Build(w) \/ TakeLock(w) \/ Locked(w)
    BY <1>2 DEF WriterStep
  <2>2. CASE Build(w) \/ TakeLock(w)
    <3>1. /\ disk' = disk /\ \A v \in Writers : pc[v] = "append" => pc'[v] = "append"
      BY <1>0, <2>2 DEF Build, TakeLock, Goto
    <3> QED
      BY <1>0, <2>0, <3>1 DEF Covered, BetweenFiles, Retained, Slots
  <2>3. CASE RollLive(w)
    <3>1. pc'[w] = "append"
      BY <1>0, <2>3 DEF RollLive, Goto
    <3> QED
      BY <3>1 DEF Covered, BetweenFiles
  <2>4. CASE RemoveOldest(w) \/ ShiftBackup(w)
    <3>1. \A v \in Writers : pc[v] = "append" => pc'[v] = "append"
      BY <1>0, <2>4 DEF RemoveOldest, ShiftBackup, Goto
    <3>2. Retained' # {} => Retained # {}
      <4> SUFFICES ASSUME NEW n \in Retained' PROVE Retained # {}
        OBVIOUS
      <4>1. PICK b \in Slots : n \in disk'[b].ids
        BY DEF Retained, Slots
      <4>2. CASE disk'[b] = disk[b]
        BY <4>1, <4>2 DEF Retained
      <4>3. CASE disk'[b] # disk[b]
        <5>1. CASE RemoveOldest(w)
          <6>1. disk' = [disk EXCEPT ![BackupCount] = NoFile]
            BY <4>3, <5>1 DEF RemoveOldest
          <6>2. disk'[b] = NoFile
            BY <1>0, <4>3, <6>1
          <6> QED
            BY <4>1, <6>2 DEF NoFile
        <5>2. CASE ShiftBackup(w)
          <6>1. /\ shift[w] \in 0 .. BackupCount
                /\ disk' = [disk EXCEPT ![shift[w] + 1] = disk[shift[w]], ![shift[w]] = NoFile]
            BY <1>0, <4>3, <5>2 DEF ShiftBackup, Renamed, OrderInv, TypeInv, TypeOK
          <6>2. n \in disk[shift[w]].ids
            BY <1>0, <4>1, <4>3, <6>1 DEF NoFile, Slots
          <6> QED
            BY <6>1, <6>2 DEF Retained, Slots
        <5> QED
          BY <2>4, <5>1, <5>2
      <4> QED
        BY <4>2, <4>3
    <3>3. disk'[0] = disk[0]
      <4>1. CASE RemoveOldest(w)
        <5>1. BackupCount # 0
          BY <2>1, <4>1, AuditAssumption DEF QueryInv, OrderInv, TypeInv, ShiftInv, Rotating, RemoveOldest
        <5> QED
          BY <1>0, <4>1, <5>1 DEF RemoveOldest, Slots
      <4>2. CASE ShiftBackup(w)
        <5>1. shift[w] # 0 /\ shift[w] + 1 # 0
          BY <2>1, <4>2, AuditAssumption DEF ShiftBackup, QueryInv, OrderInv, TypeInv, ShiftInv
        <5>2. disk' = disk \/ disk' = [disk EXCEPT ![shift[w] + 1] = disk[shift[w]], ![shift[w]] = NoFile]
          BY <4>2 DEF ShiftBackup, Renamed
        <5> QED
          BY <1>0, <5>1, <5>2
      <4> QED
        BY <2>4, <4>1, <4>2
    <3> QED
      BY <1>0, <2>0, <3>1, <3>2, <3>3 DEF Covered, BetweenFiles
  <2>5. CASE AppendRecord(w) \/ AppendTorn(w)
    <3>1. disk'[0].exists
      BY <1>0, <2>5 DEF AppendRecord, AppendTorn, Appended, CutShort
    <3> QED
      BY <3>1 DEF Covered
  <2>6. CASE AppendFails(w)
    <3>1. pc[w] = "append" /\ pc'[w] = "idle"
      BY <1>0, <2>6 DEF AppendFails, LeaveLock, Goto
    <3> QED
      BY <2>0, <3>1 DEF Covered, BetweenFiles
  <2> QED
    BY <2>1, <2>2, <2>3, <2>4, <2>5, <2>6 DEF Locked
<1>3. CASE CrashAll
  <2>1. disk' = disk /\ unwritten' = BetweenFiles
    BY <1>3 DEF CrashAll, Crash
  <2> QED
    BY <1>0, <2>1 DEF Covered, BetweenFiles, Retained, Slots
<1> QED
  BY <1>1, <1>2, <1>3 DEF QueryNext, Ask, NextSource, ReadSource, Rest, allVars, queryVars

LEMMA QueryInvStep == QueryInv /\ [QueryNext]_allVars => QueryInv'
<1> SUFFICES ASSUME QueryInv, [QueryNext]_allVars PROVE QueryInv'
  OBVIOUS
<1>1. OrderInv' /\ Held' /\ Covered'
  BY QueryBeside, OrderInvStep, HeldStep, CoveredStep DEF QueryInv, OrderInv
<1>2. CASE Rest \/ UNCHANGED allVars
  BY <1>1, <1>2, StutterWalks DEF Rest, QueryInv
<1>3. CASE WriterStep
  BY <1>1, <1>3, WriterWalks DEF QueryInv
<1> QED
  BY <1>1, <1>2, <1>3, AskWalks, NextSourceWalks, ReadSourceWalks, CrashWalks
  DEF QueryNext, QueryInv

LEMMA QueryInvAlways == QuerySpec => []QueryInv
BY QueryInvInit, QueryInvStep, PTL DEF QuerySpec

(***************************************************************************)
(* Theorems                                                                *)
(***************************************************************************)

\* The files and the writers keep to their types beside a query, the query to
\* its own, and an answer to the limit it was asked with.
THEOREM QueryTypes == QuerySpec => []QueryTypeOK
<1>1. QueryInv => QueryTypeOK
  BY DEF QueryInv, Walk, QueryTypeOK, OrderInv, TypeInv
<1> QED
  BY <1>1, QueryInvAlways, PTL

\* However many rotations a query races, and whichever of their steps fail, an
\* answer with room left has every record that could be read all the time, the
\* answer that there is nothing included, unless that one was given between a
\* roll and the next live file.
THEOREM QueriesNeverSkip == QuerySpec => []NeverSkips
<1>1. QueryInv => NeverSkips
  BY DEF QueryInv, Walk
<1> QED
  BY <1>1, QueryInvAlways, PTL

\* A query that raced no rotation is newest first and leaves out only what is
\* older than everything in a full answer; finding no live file, and asked
\* outside the gap of a rotation, it leaves out nothing.
THEOREM QuietQueriesAreExact == QuerySpec => []QuietQueryExact
<1>1. QueryInv => QuietQueryExact
  BY DEF QueryInv, Walk
<1> QED
  BY <1>1, QueryInvAlways, PTL

\* What holds of the files holds beside a query, in every behaviour of the
\* writers and the query together: a query neither delays nor misplaces a write.
THEOREM TrailBesideQueries ==
  ASSUME Tolerated
  PROVE  QuerySpec => ImplementsTrail /\ []Unbroken /\ OnlyOldestForgotten
BY QueriesChangeNothing, FilesImplementTrail, NothingLostFromTheMiddle, OnlyTheOldestIsForgotten

THEOREM FilesBesideQueries ==
  /\ QuerySpec => []Ordered
  /\ Measured => (QuerySpec => []SizeBound)
BY QueriesChangeNothing, FilesNewestFirst, FilesStayBounded

\* Looks at a file that a query has before it, each a test and a read.
QuerySteps ==
  CASE query.at = "scan" -> 2 * (BackupCount + 1 - query.source) + 1
    [] query.at = "open" -> 2 * (BackupCount + 1 - query.source)
    [] OTHER -> 0

WalksOn ==
  query.at \in {"scan", "open"} =>
    \/ query' = query
    \/ QuerySteps' < QuerySteps

\* However often the files are rotated under it a query comes to its end: each
\* step of its own brings it nearer, and no step of a writer sends it back.
THEOREM QueriesEnd == QuerySpec => [][WalksOn]_allVars
<1>1. QueryInv /\ [QueryNext]_allVars => WalksOn
  <2> SUFFICES ASSUME QueryInv, [QueryNext]_allVars, query.at \in {"scan", "open"}
               PROVE  query' = query \/ QuerySteps' < QuerySteps
    BY DEF WalksOn
  <2>0. QueryType /\ query.source \in 0 .. BackupCount + 1 /\ BackupCount \in Nat
    BY AuditAssumption, QueryFields DEF QueryInv, Walk
  <2>1. query.at = "open" => query.source \in 0 .. BackupCount
    BY DEF QueryInv, Walk, Place, Slots
  <2>2. CASE NextSource
    <3>1. query.at = "scan"
      BY <2>2 DEF NextSource
    <3>2. \/ query'.at = "answer"
          \/ query'.at = "open" /\ query'.source = query.source
          \/ query'.at = "scan" /\ query'.source = query.source + 1
      BY <2>0, <2>2, <3>1 DEF NextSource, QueryType
    <3> QED
      BY <2>0, <3>1, <3>2 DEF QuerySteps
  <2>3. CASE ReadSource
    <3>1. query.at = "open"
      BY <2>3 DEF ReadSource
    <3>2. \/ query'.at = "error"
          \/ query'.at = "scan" /\ query'.source = query.source + 1
      BY <2>0, <2>3, <3>1 DEF ReadSource, QueryType
    <3> QED
      BY <2>0, <2>1, <3>1, <3>2 DEF QuerySteps
  <2>4. CASE CrashAll
    <3>1. query'.at = "idle"
      BY <2>4 DEF CrashAll, NoQuery
    <3> QED
      BY <2>0, <2>1, <3>1 DEF QuerySteps
  <2>5. CASE Ask
    BY <2>5 DEF Ask
  <2>6. CASE WriterStep \/ Rest \/ UNCHANGED allVars
    BY <2>6 DEF WriterStep, Rest, allVars, queryVars
  <2> QED
    BY <2>2, <2>3, <2>4, <2>5, <2>6 DEF QueryNext
<1> QED
  BY <1>1, QueryInvAlways, PTL DEF QuerySpec

(***************************************************************************)
(* Induction.  The theorems on induction of the library take an operator,  *)
(* which no prover here can instantiate; these take a set, and follow from *)
(* counting finite sets.                                                   *)
(***************************************************************************)

\* A set of numbers that has one has a least one.
LEMMA LeastNumber ==
  ASSUME NEW S \in SUBSET Nat, S # {}
  PROVE  \E n \in S : \A k \in S : n <= k
<1>1. PICK m \in S : TRUE
  OBVIOUS
<1> DEFINE ids == {k \in S : k <= m}
<1>2. ids \in SUBSET Nat /\ ids # {} /\ m \in Nat
  <2>1. m \in Nat /\ m <= m
    BY <1>1
  <2>2. m \in ids
    BY <1>1, <2>1
  <2> QED
    BY <2>1, <2>2
<1>2a. \A k \in S : k \in Nat /\ (k \in ids \/ m < k) /\ (k \in ids => k <= m)
  <2>1. \A k \in S : k \in Nat /\ (k <= m \/ m < k)
    BY <1>2
  <2> QED
    BY <2>1
<1>3. IsFiniteSet(ids) /\ Cardinality(ids) \in Nat
  BY <1>2, <1>2a, FS_BoundedSetOfNaturals, FS_CardinalityType
<1>4. Cardinality(ids) # 0
  BY <1>2, <1>3, FS_EmptySet
<1> HIDE DEF ids
<1>5. PICK n \in ids : Newer(ids, n) = Cardinality(ids) - 1
  BY <1>2, <1>3, <1>4, NewerReached
<1>6. ASSUME NEW k \in ids PROVE ~(k < n)
  <2>1. Newer(ids, k) \in 0 .. Cardinality(ids) - 1
    BY <1>2, <1>3, NewerCount
  <2>2. k < n => Newer(ids, n) < Newer(ids, k)
    BY <1>2, <1>3, NewerOrders
  <2> QED
    BY <1>3, <1>5, <2>1, <2>2
<1>7. n \in S /\ n <= m
  BY DEF ids
<1> QED
  BY <1>2, <1>2a, <1>6, <1>7

\* Mathematical induction, for a set of numbers.
LEMMA CountingUp ==
  ASSUME NEW S, 0 \in S, \A n \in Nat : n \in S => n + 1 \in S
  PROVE  \A n \in Nat : n \in S
<1> SUFFICES ASSUME Nat \ S # {} PROVE FALSE
  OBVIOUS
<1>1. PICK m \in Nat \ S : \A n \in Nat \ S : m <= n
  BY LeastNumber
<1>2. m - 1 \in Nat
  BY <1>1
<1>3. m - 1 \notin S
  <2>1. (m - 1) + 1 = m
    BY <1>1
  <2> QED
    BY <1>1, <1>2, <2>1
<1> QED
  BY <1>1, <1>2, <1>3

\* f begins with d, and F computes each of its values from the one before.
Unrolls(f, d, F, N) == f[0] = d /\ \A k \in 1 .. N : f[k] = F[k][f[k - 1]]

\* Such a function exists: what a recursive definition over numbers rests on.
LEMMA Unrolled ==
  ASSUME NEW D, NEW d \in D, NEW F \in [Nat -> [D -> D]], NEW N \in Nat
  PROVE  \E f \in [0 .. N -> D] : Unrolls(f, d, F, N)
<1> DEFINE Right(n, f) ==
             f \in [0 .. n -> D] /\ f[0] = d /\ \A k \in 1 .. n : f[k] = F[k][f[k - 1]]
           S == {n \in Nat : \E f \in [0 .. n -> D] : Right(n, f)}
<1>1. 0 \in S
  <2> DEFINE f == [k \in 0 .. 0 |-> d]
  <2>1. Right(0, f)
    OBVIOUS
  <2> QED
    BY <2>1
<1>2. ASSUME NEW n \in Nat, n \in S PROVE n + 1 \in S
  <2>1. PICK f \in [0 .. n -> D] : Right(n, f)
    BY <1>2
  <2> DEFINE g == [k \in 0 .. n + 1 |-> IF k = n + 1 THEN F[n + 1][f[n]] ELSE f[k]]
  <2>2. F[n + 1][f[n]] \in D
    <3>1. f[n] \in D
      BY <2>1
    <3>2. F[n + 1] \in [D -> D]
      OBVIOUS
    <3> QED
      BY <3>1, <3>2
  <2>3. g \in [0 .. n + 1 -> D]
    BY <2>1, <2>2
  <2>4. g[0] = d
    BY <2>1
  <2>5. ASSUME NEW k \in 1 .. n + 1 PROVE g[k] = F[k][g[k - 1]]
    <3>1. g[k - 1] = f[k - 1]
      OBVIOUS
    <3>2. CASE k = n + 1
      BY <3>1, <3>2
    <3>3. CASE k # n + 1
      BY <2>1, <3>1, <3>3
    <3> QED
      BY <3>2, <3>3
  <2> HIDE DEF g
  <2> QED
    BY <2>3, <2>4, <2>5
<1>3. PICK f \in [0 .. N -> D] : Right(N, f)
  <2> HIDE DEF S
  <2>1. N \in S
    BY <1>1, <1>2, CountingUp
  <2> QED
    BY <2>1 DEF S
<1> QED
  BY <1>3 DEF Unrolls

\* An element in front of a sequence, and a sequence taken apart.
LEMMA HeadTailCons ==
  ASSUME NEW S, NEW e \in S, NEW s \in Seq(S)
  PROVE  /\ <<e>> \o s \in Seq(S) /\ <<e>> \o s # <<>> /\ Len(<<e>> \o s) = Len(s) + 1
         /\ Head(<<e>> \o s) = e /\ Tail(<<e>> \o s) = s
<1> DEFINE t == <<e>> \o s
<1>1. <<e>> \in Seq(S) /\ Len(<<e>>) = 1 /\ <<e>>[1] = e /\ Len(s) \in Nat
  BY LenProperties
<1>2. /\ t \in Seq(S) /\ Len(t) = 1 + Len(s)
      /\ \A i \in 1 .. 1 + Len(s) : t[i] = IF i <= 1 THEN <<e>>[i] ELSE s[i - 1]
  BY <1>1, ConcatProperties
<1> HIDE DEF t
<1>3. t # <<>>
  BY <1>1, <1>2
<1>4. Head(t) = e
  <2>1. t[1] = e
    BY <1>1, <1>2
  <2> QED
    BY <1>2, <1>3, <2>1
<1>5. Tail(t) = s
  <2>1. /\ Tail(t) \in Seq(S) /\ Len(Tail(t)) = Len(s)
        /\ \A i \in 1 .. Len(s) : Tail(t)[i] = t[i + 1]
    BY <1>1, <1>2, <1>3, HeadTailProperties
  <2>2. ASSUME NEW i \in 1 .. Len(s) PROVE Tail(t)[i] = s[i]
    <3>1. i + 1 \in 1 .. 1 + Len(s) /\ ~(i + 1 <= 1) /\ (i + 1) - 1 = i
      BY <1>1
    <3> QED
      BY <1>2, <2>1, <3>1
  <2> QED
    BY <2>1, <2>2, SeqEqual
<1> QED
  BY <1>1, <1>2, <1>3, <1>4, <1>5 DEF t

LEMMA HeadThenTail ==
  ASSUME NEW S, NEW s \in Seq(S), s # <<>>
  PROVE  /\ Head(s) \in S /\ Tail(s) \in Seq(S) /\ Len(Tail(s)) = Len(s) - 1
         /\ s = <<Head(s)>> \o Tail(s)
<1>1. Len(s) \in Nat \ {0} /\ s[1] = Head(s)
  BY EmptySeq
<1>2. SubSeq(s, 1, Len(s)) = <<s[1]>> \o SubSeq(s, 2, Len(s))
  BY <1>1, SubSeqRecursiveFirst
<1> QED
  BY <1>1, <1>2, SubSeqFull, TailIsSubSeq, HeadTailProperties

\* Reverse of the community modules.
LEMMA ReverseType ==
  ASSUME NEW S, NEW s \in Seq(S)
  PROVE  /\ Reverse(s) \in Seq(S) /\ Len(Reverse(s)) = Len(s)
         /\ \A i \in 1 .. Len(s) : Reverse(s)[i] = s[(Len(s) - i) + 1]
<1>1. /\ Len(s) \in Nat
      /\ \A i \in 1 .. Len(s) : (Len(s) - i) + 1 \in 1 .. Len(s) /\ s[(Len(s) - i) + 1] \in S
  BY LenProperties
<1>2. Reverse(s) = [i \in 1 .. Len(s) |-> s[(Len(s) - i) + 1]]
  BY DEF Reverse
<1>3. Reverse(s) \in [1 .. Len(s) -> S]
  BY <1>1, <1>2
<1> QED
  BY <1>1, <1>2, <1>3

LEMMA ReverseTwice ==
  ASSUME NEW S, NEW s \in Seq(S)
  PROVE  Reverse(Reverse(s)) = s
<1> DEFINE r == Reverse(s)
           n == Len(s)
<1>1. n \in Nat /\ r \in Seq(S) /\ Len(r) = n /\ \A i \in 1 .. n : r[i] = s[(n - i) + 1]
  BY ReverseType, LenProperties
<1>2. /\ Reverse(r) \in Seq(S) /\ Len(Reverse(r)) = n
      /\ \A i \in 1 .. n : Reverse(r)[i] = r[(n - i) + 1]
  <2> HIDE DEF r, n
  <2> QED
    BY <1>1, ReverseType
<1> HIDE DEF r
<1>3. ASSUME NEW i \in 1 .. n PROVE Reverse(r)[i] = s[i]
  <2>1. (n - i) + 1 \in 1 .. n /\ (n - ((n - i) + 1)) + 1 = i
    BY <1>1
  <2> QED
    BY <1>1, <1>2, <2>1
<1>4. Reverse(r) = s
  BY <1>2, <1>3, SeqEqual
<1> QED
  BY <1>4 DEF r

LEMMA ReverseOfParts ==
  ASSUME NEW S, NEW s \in Seq(S), NEW t \in Seq(S)
  PROVE  Reverse(s \o t) = Reverse(t) \o Reverse(s)
<1> DEFINE m == Len(s)
           n == Len(t)
           u == s \o t
           back == Reverse(t)
           front == Reverse(s)
           left == Reverse(u)
           right == back \o front
<1>1. m \in Nat /\ n \in Nat
  BY LenProperties
<1>2. /\ u \in Seq(S) /\ Len(u) = m + n
      /\ \A i \in 1 .. m + n : u[i] = IF i <= m THEN s[i] ELSE t[i - m]
  BY ConcatProperties
<1>3. /\ left \in Seq(S) /\ Len(left) = m + n
      /\ \A i \in 1 .. m + n : left[i] = u[((m + n) - i) + 1]
  <2> HIDE DEF u
  <2>1. /\ left \in Seq(S) /\ Len(left) = Len(u)
        /\ \A i \in 1 .. Len(u) : left[i] = u[(Len(u) - i) + 1]
    BY <1>2, ReverseType
  <2> HIDE DEF left, m, n
  <2>2. PICK len : len = m + n
    OBVIOUS
  <2>3. /\ left \in Seq(S) /\ Len(left) = len
        /\ \A i \in 1 .. len : left[i] = u[(len - i) + 1]
    BY <1>2, <2>1, <2>2
  <2> QED
    BY <2>2, <2>3
<1>4. /\ front \in Seq(S) /\ Len(front) = m
      /\ back \in Seq(S) /\ Len(back) = n
      /\ \A i \in 1 .. m : front[i] = s[(m - i) + 1]
      /\ \A i \in 1 .. n : back[i] = t[(n - i) + 1]
  BY ReverseType
<1> HIDE DEF m, n, u, front, back
<1>5. /\ right \in Seq(S) /\ Len(right) = n + m
      /\ \A i \in 1 .. n + m : right[i] = IF i <= n THEN back[i] ELSE front[i - n]
  BY <1>4, ConcatProperties
<1> HIDE DEF left, right
<1>6. ASSUME NEW i \in 1 .. m + n PROVE left[i] = right[i]
  <2>1. PICK j \in 1 .. m + n : j = ((m + n) - i) + 1
    BY <1>1
  <2>2. i \in 1 .. n + m
    BY <1>1
  <2>3. left[i] = u[j] /\ u[j] = (IF j <= m THEN s[j] ELSE t[j - m])
    BY <1>2, <1>3, <2>1
  <2>4. right[i] = IF i <= n THEN back[i] ELSE front[i - n]
    BY <1>5, <2>2
  <2>5. CASE i <= n
    <3>1. ~(j <= m) /\ j - m = (n - i) + 1 /\ i \in 1 .. n
      BY <1>1, <2>1, <2>5
    <3>2. back[i] = t[(n - i) + 1]
      BY <1>4, <3>1
    <3> QED
      BY <2>3, <2>4, <2>5, <3>1, <3>2
  <2>6. CASE ~(i <= n)
    <3>1. j <= m /\ i - n \in 1 .. m /\ (m - (i - n)) + 1 = j
      BY <1>1, <2>1, <2>6
    <3>2. front[i - n] = s[(m - (i - n)) + 1]
      BY <1>4, <3>1
    <3>3. front[i - n] = s[j]
      BY <3>1, <3>2
    <3> QED
      BY <2>3, <2>4, <2>6, <3>1, <3>3
  <2> QED
    BY <2>5, <2>6
<1>7. left = right
  <2>1. Len(left) = Len(right) /\ \A i \in 1 .. Len(left) : left[i] = right[i]
    BY <1>1, <1>3, <1>5, <1>6
  <2> QED
    BY <1>3, <1>5, <2>1, SeqEqual
<1> QED
  BY <1>7 DEF left, right, u, back, front

(***************************************************************************)
(* The lines of a file                                                     *)
(***************************************************************************)

\* There is always a first line.
SomeLines == Seq(Seq(Bytes)) \ {<<>>}

\* A byte in front of some lines gives some lines again, and touches the first only.
LEMMA InFrontType ==
  ASSUME NEW c, c \in Bytes, NEW ls \in SomeLines
  PROVE  InFront(c, ls) \in SomeLines
<1>1. ls \in Seq(Seq(Bytes)) /\ ls # <<>>
  BY DEF SomeLines
<1>2. Head(ls) \in Seq(Bytes) /\ Tail(ls) \in Seq(Seq(Bytes))
  BY <1>1, HeadTailProperties
<1>3. <<>> \in Seq(Bytes) /\ <<c>> \in Seq(Bytes)
  OBVIOUS
<1>4. <<c>> \o Head(ls) \in Seq(Bytes)
  BY <1>2, <1>3, ConcatProperties
<1>5. ASSUME NEW l \in Seq(Bytes), NEW more \in Seq(Seq(Bytes)) PROVE <<l>> \o more \in SomeLines
  <2>1. <<l>> \in Seq(Seq(Bytes)) /\ <<l>> # <<>>
    OBVIOUS
  <2>2. <<l>> \o more \in Seq(Seq(Bytes))
    BY <2>1, ConcatProperties
  <2>3. <<l>> \o more # <<>>
    BY <2>1, ConcatEqualIffEmpty
  <2> QED
    BY <2>2, <2>3 DEF SomeLines
<1> QED
  BY <1>1, <1>2, <1>3, <1>4, <1>5 DEF InFront

\* The recursion of Lines.
Counted(bytes, last) ==
  last = [k \in 0 .. Len(bytes) |->
            IF k = 0 THEN << <<>> >> ELSE InFront(bytes[Len(bytes) - k + 1], last[k - 1])]

\* Byte strings that end alike have the same lines at their ends.
LEMMA CountedAlike ==
  ASSUME NEW a \in Seq(Bytes), NEW b \in Seq(Bytes), NEW f, NEW g, Counted(a, f), Counted(b, g),
         Len(a) <= Len(b), \A k \in 1 .. Len(a) : a[Len(a) - k + 1] = b[Len(b) - k + 1]
  PROVE  \A k \in 0 .. Len(a) : f[k] = g[k]
<1> DEFINE S == {k \in Nat : k <= Len(a) => f[k] = g[k]}
<1>0. Len(a) \in Nat /\ Len(b) \in Nat
  BY LenProperties
<1>1. 0 \in S
  <2>1. f[0] = << <<>> >> /\ g[0] = << <<>> >>
    BY <1>0 DEF Counted
  <2> QED
    BY <2>1
<1>2. ASSUME NEW k \in Nat, k \in S PROVE k + 1 \in S
  <2> SUFFICES ASSUME k + 1 <= Len(a) PROVE f[k + 1] = g[k + 1]
    OBVIOUS
  <2>1. k + 1 \in 1 .. Len(a) /\ k + 1 \in 0 .. Len(a) /\ k + 1 \in 0 .. Len(b) /\ k + 1 # 0
        /\ (k + 1) - 1 = k
    BY <1>0
  <2>2. f[k] = g[k]
    BY <1>0, <1>2
  <2>3. a[Len(a) - (k + 1) + 1] = b[Len(b) - (k + 1) + 1]
    BY <2>1
  <2>4. f[k + 1] = InFront(a[Len(a) - (k + 1) + 1], f[(k + 1) - 1])
    BY <2>1 DEF Counted
  <2>5. g[k + 1] = InFront(b[Len(b) - (k + 1) + 1], g[(k + 1) - 1])
    BY <2>1 DEF Counted
  <2> QED
    BY <2>1, <2>2, <2>3, <2>4, <2>5
<1> HIDE DEF S
<1>3. \A k \in Nat : k \in S
  BY <1>1, <1>2, CountingUp
<1> QED
  BY <1>0, <1>3 DEF S

\* The recursion has a solution, so that it says what Lines is.
LEMMA LinesCounted ==
  ASSUME NEW bytes \in Seq(Bytes)
  PROVE  \E last \in [0 .. Len(bytes) -> SomeLines] :
           Counted(bytes, last) /\ Lines(bytes) = last[Len(bytes)]
<1> DEFINE n == Len(bytes)
           F == [k \in Nat |-> [ls \in SomeLines |->
                   InFront(IF k \in 1 .. n THEN bytes[n - k + 1] ELSE Newline, ls)]]
<1>1. n \in Nat /\ \A k \in 1 .. n : n - k + 1 \in 1 .. n /\ bytes[n - k + 1] \in Bytes
  BY LenProperties
<1>2. << <<>> >> \in SomeLines
  BY DEF SomeLines
<1>3. F \in [Nat -> [SomeLines -> SomeLines]]
  <2>1. Newline \in Bytes
    BY DEF Bytes
  <2>2. ASSUME NEW k \in Nat, NEW ls \in SomeLines
        PROVE  InFront(IF k \in 1 .. n THEN bytes[n - k + 1] ELSE Newline, ls) \in SomeLines
    <3>1. (IF k \in 1 .. n THEN bytes[n - k + 1] ELSE Newline) \in Bytes
      BY <1>1, <2>1
    <3> QED
      BY <3>1, InFrontType
  <2> QED
    BY <2>2
<1>4. PICK f \in [0 .. n -> SomeLines] :
        f[0] = << <<>> >> /\ \A k \in 1 .. n : f[k] = F[k][f[k - 1]]
  <2> DEFINE none == << <<>> >>
  <2>0. n \in Nat /\ none \in SomeLines
    BY <1>1, <1>2
  <2> HIDE DEF F, n, none
  <2>1. \E f \in [0 .. n -> SomeLines] : Unrolls(f, none, F, n)
    BY <2>0, <1>3, Unrolled
  <2> QED
    BY <2>1 DEF none, Unrolls
<1>5. Counted(bytes, f)
  <2>1. ASSUME NEW k \in 0 .. n, k # 0
        PROVE  F[k][f[k - 1]] = InFront(bytes[n - k + 1], f[k - 1])
    <3>1. k \in Nat /\ k \in 1 .. n /\ k - 1 \in 0 .. n
      BY <1>1, <2>1
    <3>2. f[k - 1] \in SomeLines
      BY <3>1
    <3> QED
      BY <3>1, <3>2
  <2> HIDE DEF F
  <2>2. \A k \in 0 .. n : f[k] = IF k = 0 THEN << <<>> >> ELSE InFront(bytes[n - k + 1], f[k - 1])
    BY <1>1, <1>4, <2>1
  <2>3. f = [k \in 0 .. n |-> f[k]]
    BY <1>4
  <2> QED
    BY <2>2, <2>3 DEF Counted
<1> DEFINE last == CHOOSE l : Counted(bytes, l)
<1>6. Counted(bytes, last)
  BY <1>5
<1>7. Lines(bytes) = last[n]
  BY DEF Lines, Counted
<1> HIDE DEF last
<1>8. last = f
  <2>1. \A k \in 0 .. n : f[k] = last[k]
    BY <1>1, <1>5, <1>6, CountedAlike
  <2>2. f = [k \in 0 .. n |-> f[k]] /\ last = [k \in 0 .. n |-> last[k]]
    BY <1>5, <1>6 DEF Counted
  <2> QED
    BY <2>1, <2>2
<1> QED
  BY <1>4, <1>5, <1>7, <1>8

\* split never gives an empty list.
LEMMA LinesType ==
  ASSUME NEW bytes \in Seq(Bytes)
  PROVE  /\ Lines(bytes) \in SomeLines
         /\ Head(Lines(bytes)) \in Seq(Bytes) /\ Tail(Lines(bytes)) \in Seq(Seq(Bytes))
         /\ Lines(bytes) = <<Head(Lines(bytes))>> \o Tail(Lines(bytes))
<1>1. PICK last \in [0 .. Len(bytes) -> SomeLines] : Lines(bytes) = last[Len(bytes)]
  BY LinesCounted
<1>2. Lines(bytes) \in SomeLines
  BY <1>1, LenProperties
<1>3. PICK ls \in Seq(Seq(Bytes)) : ls = Lines(bytes) /\ ls # <<>>
  BY <1>2 DEF SomeLines
<1> QED
  BY <1>2, <1>3, HeadThenTail

LEMMA LinesOfNothing == Lines(<<>>) = << <<>> >>
<1>1. <<>> \in Seq(Bytes) /\ Len(<<>>) = 0
  BY EmptySeq
<1>2. PICK last \in [0 .. Len(<<>>) -> SomeLines] :
        Counted(<<>>, last) /\ Lines(<<>>) = last[Len(<<>>)]
  BY <1>1, LinesCounted
<1>3. last[0] = << <<>> >>
  BY <1>1, <1>2 DEF Counted
<1> QED
  BY <1>1, <1>2, <1>3

\* A byte more in front.
LEMMA LinesBehind ==
  ASSUME NEW c \in Bytes, NEW bytes \in Seq(Bytes)
  PROVE  Lines(<<c>> \o bytes) = InFront(c, Lines(bytes))
<1> DEFINE more == <<c>> \o bytes
           n == Len(bytes)
<1>0. n \in Nat /\ <<c>> \in Seq(Bytes) /\ Len(<<c>>) = 1 /\ <<c>>[1] = c
  BY LenProperties
<1>1. /\ more \in Seq(Bytes) /\ Len(more) = n + 1 /\ more[1] = c
      /\ \A k \in 1 .. n : bytes[n - k + 1] = more[(n + 1) - k + 1]
  <2>1. /\ more \in Seq(Bytes) /\ Len(more) = 1 + n
        /\ \A i \in 1 .. 1 + n : more[i] = IF i <= 1 THEN <<c>>[i] ELSE bytes[i - 1]
    BY <1>0, ConcatProperties
  <2> HIDE DEF more, n
  <2>2. ASSUME NEW k \in 1 .. n PROVE bytes[n - k + 1] = more[(n + 1) - k + 1]
    <3>1. (n + 1) - k + 1 \in 1 .. 1 + n /\ ~((n + 1) - k + 1 <= 1) /\ ((n + 1) - k + 1) - 1 = n - k + 1
      BY <1>0
    <3> QED
      BY <2>1, <3>1
  <2> QED
    BY <1>0, <2>1, <2>2
<1>2. PICK f : Counted(bytes, f) /\ Lines(bytes) = f[n]
  BY LinesCounted
<1>3. PICK g : Counted(more, g) /\ Lines(more) = g[Len(more)]
  BY <1>1, LinesCounted
<1> HIDE DEF more, n
<1>4. f[n] = g[n]
  <2>1. \A k \in 0 .. n : f[k] = g[k]
    <3>1. Len(bytes) = n
      BY DEF n
    <3> QED
      BY <1>0, <1>1, <1>2, <1>3, <3>1, CountedAlike
  <2> QED
    BY <1>0, <2>1
<1>5. g[n + 1] = InFront(c, g[n])
  <2>1. n + 1 \in 0 .. n + 1 /\ n + 1 # 0 /\ (n + 1) - (n + 1) + 1 = 1 /\ (n + 1) - 1 = n
    BY <1>0
  <2>2. g = [k \in 0 .. n + 1 |->
              IF k = 0 THEN << <<>> >> ELSE InFront(more[(n + 1) - k + 1], g[k - 1])]
    BY <1>1, <1>3 DEF Counted
  <2>3. g[n + 1] = InFront(more[(n + 1) - (n + 1) + 1], g[(n + 1) - 1])
    BY <2>1, <2>2
  <2> QED
    BY <1>1, <2>1, <2>3
<1> QED
  BY <1>1, <1>2, <1>3, <1>4, <1>5 DEF more

\* A byte in front of lines touches none but the first.
LEMMA InFrontJoin ==
  ASSUME NEW c \in Bytes, NEW ls \in SomeLines, NEW more \in Seq(Seq(Bytes))
  PROVE  ls \o more \in SomeLines /\ InFront(c, ls \o more) = InFront(c, ls) \o more
<1>1. ls \in Seq(Seq(Bytes)) /\ ls # <<>> /\ Len(ls) \in Nat \ {0} /\ Len(more) \in Nat
  BY EmptySeq, LenProperties DEF SomeLines
<1>2. Head(ls) \in Seq(Bytes) /\ Tail(ls) \in Seq(Seq(Bytes))
  BY <1>1, HeadThenTail
<1>3. ls = <<Head(ls)>> \o Tail(ls)
  BY <1>1, HeadThenTail
<1>4. Head(ls \o more) = Head(ls) /\ Tail(ls \o more) = Tail(ls) \o more
  <2> DEFINE l == Head(ls)
             rest == Tail(ls) \o more
  <2>1. <<l>> \in Seq(Seq(Bytes)) /\ rest \in Seq(Seq(Bytes))
    BY <1>2, ConcatProperties
  <2>2. ls \o more = <<l>> \o rest
    BY <1>2, <1>3, <2>1, ConcatAssociative
  <2> HIDE DEF l, rest
  <2>3. Head(<<l>> \o rest) = l /\ Tail(<<l>> \o rest) = rest
    BY <2>1, HeadTailCons
  <2> QED
    BY <2>2, <2>3 DEF l, rest
<1>5. ls \o more \in SomeLines
  <2>1. ls \o more \in Seq(Seq(Bytes)) /\ ls \o more # <<>>
    BY <1>1, ConcatProperties, ConcatEqualIffEmpty
  <2> QED
    BY <2>1 DEF SomeLines
<1>6. ASSUME NEW l \in Seq(Bytes), NEW rest \in Seq(Seq(Bytes))
      PROVE  <<l>> \o (rest \o more) = (<<l>> \o rest) \o more
  <2>1. <<l>> \in Seq(Seq(Bytes))
    OBVIOUS
  <2> QED
    BY <2>1, ConcatAssociative
<1>7. <<>> \in Seq(Bytes) /\ <<c>> \o Head(ls) \in Seq(Bytes)
  <2>1. <<>> \in Seq(Bytes) /\ <<c>> \in Seq(Bytes)
    OBVIOUS
  <2> QED
    BY <1>2, <2>1, ConcatProperties
<1>8. CASE c = Newline
  <2>1. << <<>> >> \o (ls \o more) = (<< <<>> >> \o ls) \o more
    BY <1>1, <1>6, <1>7
  <2> QED
    BY <1>5, <1>8, <2>1 DEF InFront
<1>9. CASE c # Newline
  <2>1. << <<c>> \o Head(ls) >> \o (Tail(ls) \o more) = (<< <<c>> \o Head(ls) >> \o Tail(ls)) \o more
    BY <1>2, <1>6, <1>7
  <2> QED
    BY <1>4, <1>5, <1>9, <2>1 DEF InFront
<1> QED
  BY <1>8, <1>9

\* Induction over byte strings.
LEMMA ByteByByte ==
  ASSUME NEW T, <<>> \in T,
         \A c \in Bytes : \A s \in Seq(Bytes) : s \in T => <<c>> \o s \in T
  PROVE  \A s \in Seq(Bytes) : s \in T
<1> DEFINE S == {n \in Nat : \A s \in Seq(Bytes) : Len(s) = n => s \in T}
<1>1. 0 \in S
  <2>1. \A s \in Seq(Bytes) : Len(s) = 0 => s = <<>>
    BY EmptySeq
  <2> QED
    BY <2>1
<1>2. ASSUME NEW n \in Nat, n \in S PROVE n + 1 \in S
  <2> SUFFICES ASSUME NEW s \in Seq(Bytes), Len(s) = n + 1 PROVE s \in T
    OBVIOUS
  <2>1. s # <<>>
    BY EmptySeq
  <2>2. Tail(s) \in Seq(Bytes) /\ Len(Tail(s)) = n /\ Head(s) \in Bytes
    BY <2>1, HeadThenTail
  <2>3. s = <<Head(s)>> \o Tail(s)
    BY <2>1, HeadThenTail
  <2>4. Tail(s) \in T
    BY <1>2, <2>2
  <2> QED
    BY <2>2, <2>3, <2>4
<1> HIDE DEF S
<1>3. \A n \in Nat : n \in S
  BY <1>1, <1>2, CountingUp
<1> QED
  BY <1>3, LenProperties DEF S

\* The first line has no line in it but itself.
LEMMA FirstLineWhole ==
  ASSUME NEW bytes \in Seq(Bytes)
  PROVE  Lines(Head(Lines(bytes))) = <<Head(Lines(bytes))>>
<1> DEFINE T == {s \in Seq(Bytes) : Lines(Head(Lines(s))) = <<Head(Lines(s))>>}
<1>1. <<>> \in T
  <2>1. Head(<< <<>> >>) = <<>> /\ <<>> \in Seq(Bytes)
    OBVIOUS
  <2> QED
    BY <2>1, LinesOfNothing
<1>2. ASSUME NEW c \in Bytes, NEW s \in Seq(Bytes), s \in T PROVE <<c>> \o s \in T
  <2>1. <<c>> \o s \in Seq(Bytes)
    BY HeadTailCons
  <2>2. Lines(<<c>> \o s) = InFront(c, Lines(s))
    BY LinesBehind
  <2>3. /\ Head(Lines(s)) \in Seq(Bytes) /\ Tail(Lines(s)) \in Seq(Seq(Bytes))
        /\ Lines(s) \in Seq(Seq(Bytes))
    BY LinesType DEF SomeLines
  <2>4. CASE c = Newline
    <3>1. Lines(<<c>> \o s) = << <<>> >> \o Lines(s)
      BY <2>2, <2>4 DEF InFront
    <3>2. <<>> \in Seq(Bytes)
      OBVIOUS
    <3>3. Head(Lines(<<c>> \o s)) = <<>>
      BY <2>3, <3>1, <3>2, HeadTailCons
    <3> QED
      BY <2>1, <3>3, LinesOfNothing
  <2>5. CASE c # Newline
    <3> DEFINE h == Head(Lines(s))
    <3>1. Lines(<<c>> \o s) = << <<c>> \o h >> \o Tail(Lines(s))
      BY <2>2, <2>5 DEF InFront
    <3>2. <<c>> \o h \in Seq(Bytes)
      BY <2>3, HeadTailCons
    <3>3. Head(Lines(<<c>> \o s)) = <<c>> \o h
      <4> DEFINE l == <<c>> \o h
      <4>1. l \in Seq(Bytes) /\ Lines(<<c>> \o s) = <<l>> \o Tail(Lines(s))
        BY <3>1, <3>2
      <4> HIDE DEF l
      <4>2. Head(<<l>> \o Tail(Lines(s))) = l
        BY <2>3, <4>1, HeadTailCons
      <4> QED
        BY <4>1, <4>2 DEF l
    <3>4. Lines(<<c>> \o h) = InFront(c, <<h>>)
      BY <1>2, <2>3, LinesBehind
    <3>5. Head(<<h>>) = h /\ Tail(<<h>>) = <<>>
      OBVIOUS
    <3>6. InFront(c, <<h>>) = << <<c>> \o h >> \o <<>>
      BY <2>5, <3>5 DEF InFront
    <3>7. << <<c>> \o h >> \in Seq(Seq(Bytes))
      BY <3>2
    <3>8. << <<c>> \o h >> \o <<>> = << <<c>> \o h >>
      BY <3>7, ConcatEmptySeq
    <3> QED
      BY <2>1, <3>3, <3>4, <3>6, <3>8
  <2> QED
    BY <2>4, <2>5
<1> HIDE DEF T
<1>3. bytes \in T
  BY <1>1, <1>2, ByteByByte
<1> QED
  BY <1>3 DEF T

\* What a block adds: the lines of two parts are those of the first part with
\* the first line of the second behind it, and the other lines of the second.
LEMMA LinesOfParts ==
  ASSUME NEW front \in Seq(Bytes), NEW back \in Seq(Bytes)
  PROVE  Lines(front \o back) = Lines(front \o Head(Lines(back))) \o Tail(Lines(back))
<1> DEFINE h == Head(Lines(back))
           t == Tail(Lines(back))
           T == {s \in Seq(Bytes) : Lines(s \o back) = Lines(s \o h) \o t}
<1>0. h \in Seq(Bytes) /\ t \in Seq(Seq(Bytes)) /\ Lines(back) = <<h>> \o t
  BY LinesType
<1> HIDE DEF h, t
<1>1. <<>> \in T
  <2>1. Lines(h) = <<h>>
    BY FirstLineWhole DEF h
  <2>2. <<>> \o back = back /\ <<>> \o h = h /\ <<>> \in Seq(Bytes)
    BY <1>0, ConcatEmptySeq
  <2>3. Lines(back) = Lines(h) \o t
    BY <1>0, <2>1
  <2> QED
    BY <2>2, <2>3
<1>2. ASSUME NEW c \in Bytes, NEW s \in Seq(Bytes), s \in T PROVE <<c>> \o s \in T
  <2>1. /\ <<c>> \in Seq(Bytes) /\ <<c>> \o s \in Seq(Bytes)
        /\ s \o back \in Seq(Bytes) /\ s \o h \in Seq(Bytes)
    BY <1>0, ConcatProperties, HeadTailCons
  <2>2. (<<c>> \o s) \o back = <<c>> \o (s \o back) /\ (<<c>> \o s) \o h = <<c>> \o (s \o h)
    BY <1>0, <2>1, ConcatAssociative
  <2>3. Lines(s \o back) = Lines(s \o h) \o t
    BY <1>2
  <2>4. /\ Lines(<<c>> \o (s \o back)) = InFront(c, Lines(s \o back))
        /\ Lines(<<c>> \o (s \o h)) = InFront(c, Lines(s \o h))
    BY <2>1, LinesBehind
  <2>5. InFront(c, Lines(s \o h) \o t) = InFront(c, Lines(s \o h)) \o t
    BY <1>0, <2>1, LinesType, InFrontJoin
  <2> QED
    BY <2>1, <2>2, <2>3, <2>4, <2>5
<1> HIDE DEF T
<1>3. front \in T
  BY <1>1, <1>2, ByteByByte
<1> QED
  BY <1>3 DEF T, h, t

(***************************************************************************)
(* The loop                                                                *)
(***************************************************************************)

Passes == [tail : Seq(Bytes), lines : Seq(Seq(Bytes))]

\* The loop invariant: the lines given and the one held back are those of the
\* bytes read so far.
Faithful(before, bytes) == Lines(bytes) = <<before.tail>> \o Reverse(before.lines)

\* A pass keeps the loop invariant, whatever block it reads.
LEMMA StepFaithful ==
  ASSUME NEW block \in Seq(Bytes), NEW before \in Passes
  PROVE  /\ Step(block, before) \in Passes
         /\ \A bytes \in Seq(Bytes) :
              Faithful(before, bytes) => Faithful(Step(block, before), block \o bytes)
<1> DEFINE ls == Lines(block \o before.tail)
<1>1. before.tail \in Seq(Bytes) /\ before.lines \in Seq(Seq(Bytes))
  BY DEF Passes
<1>2. block \o before.tail \in Seq(Bytes)
  BY <1>1, ConcatProperties
<1>3. Head(ls) \in Seq(Bytes) /\ Tail(ls) \in Seq(Seq(Bytes)) /\ ls = <<Head(ls)>> \o Tail(ls)
  BY <1>2, LinesType
<1>4. Step(block, before) = [tail |-> Head(ls), lines |-> before.lines \o Reverse(Tail(ls))]
  BY DEF Step
<1> DEFINE after == Step(block, before)
<1> HIDE DEF ls
<1>5. after.tail = Head(ls) /\ after.lines = before.lines \o Reverse(Tail(ls))
  BY <1>4
<1>6. Reverse(Tail(ls)) \in Seq(Seq(Bytes)) /\ Reverse(before.lines) \in Seq(Seq(Bytes))
  BY <1>1, <1>3, ReverseType
<1>7. after \in Passes
  <2>1. before.lines \o Reverse(Tail(ls)) \in Seq(Seq(Bytes))
    BY <1>1, <1>6, ConcatProperties
  <2> QED
    BY <1>3, <1>4, <2>1 DEF Passes
<1>8. ASSUME NEW bytes \in Seq(Bytes), Faithful(before, bytes)
      PROVE  Faithful(after, block \o bytes)
  <2>1. Lines(bytes) = <<before.tail>> \o Reverse(before.lines)
    BY <1>8 DEF Faithful
  <2>2. Head(Lines(bytes)) = before.tail /\ Tail(Lines(bytes)) = Reverse(before.lines)
    BY <1>1, <1>6, <2>1, HeadTailCons
  <2>3. Lines(block \o bytes) = ls \o Reverse(before.lines)
    BY <2>2, LinesOfParts DEF ls
  <2>4. Reverse(after.lines) = Tail(ls) \o Reverse(before.lines)
    <3>1. Reverse(before.lines \o Reverse(Tail(ls))) = Reverse(Reverse(Tail(ls))) \o Reverse(before.lines)
      BY <1>1, <1>6, ReverseOfParts
    <3>2. Reverse(Reverse(Tail(ls))) = Tail(ls)
      BY <1>3, ReverseTwice
    <3> QED
      BY <1>5, <3>1, <3>2
  <2>5. ls \o Reverse(before.lines) = <<Head(ls)>> \o (Tail(ls) \o Reverse(before.lines))
    <3>1. <<Head(ls)>> \in Seq(Seq(Bytes))
      BY <1>3
    <3> QED
      BY <1>3, <1>6, <3>1, ConcatAssociative
  <2> HIDE DEF after
  <2> QED
    BY <1>5, <2>3, <2>4, <2>5 DEF Faithful
<1> QED
  BY <1>7, <1>8

LEMMA Division ==
  ASSUME NEW n \in Nat, NEW d \in Nat \ {0}
  PROVE  n \div d \in Nat /\ (n \div d) * d <= n /\ n < (n \div d) * d + d
OBVIOUS

LEMMA Multiples ==
  ASSUME NEW k \in Nat, NEW d \in Nat
  PROVE  k * d \in Nat /\ (k + 1) * d = k * d + d /\ 0 * d = 0
OBVIOUS

\* The blocks are adjacent and reach the beginning of the file.
LEMMA Starts ==
  ASSUME NEW file \in Seq(Bytes), NEW block_size \in Nat \ {0}
  PROVE  /\ Start(file, block_size, 0) = Len(file)
         /\ \A k \in Nat : Start(file, block_size, k) \in 0 .. Len(file)
         /\ \A k \in Nat : Start(file, block_size, k + 1) <= Start(file, block_size, k)
         /\ (Len(file) + block_size - 1) \div block_size \in Nat
         /\ Start(file, block_size, (Len(file) + block_size - 1) \div block_size) = 0
<1> DEFINE n == Len(file)
           blocks == (n + block_size - 1) \div block_size
<1>1. n \in Nat /\ n + block_size - 1 \in Nat
  BY LenProperties
<1>2. blocks \in Nat /\ n <= blocks * block_size /\ blocks * block_size \in Nat
  <2> HIDE DEF n
  <2>1. blocks \in Nat /\ n + block_size - 1 < blocks * block_size + block_size
    BY <1>1, Division
  <2> HIDE DEF blocks
  <2>2. blocks * block_size \in Nat
    BY <2>1, Multiples
  <2> QED
    BY <1>1, <2>1, <2>2
<1> HIDE DEF blocks, n
<1>3. \A k \in Nat : Start(file, block_size, k) = IF k * block_size < n THEN n - k * block_size ELSE 0
  BY DEF Start, n
<1>4. Start(file, block_size, 0) = n
  <2>1. 0 * block_size = 0
    BY Multiples
  <2>2. Start(file, block_size, 0) = IF 0 * block_size < n THEN n - 0 * block_size ELSE 0
    BY <1>3
  <2>3. IF 0 < n THEN n - 0 = n ELSE 0 = n
    BY <1>1
  <2> QED
    BY <2>1, <2>2, <2>3
<1>5. ASSUME NEW k \in Nat
      PROVE  Start(file, block_size, k) \in 0 .. n /\ Start(file, block_size, k + 1) <= Start(file, block_size, k)
  <2>1. PICK m \in Nat : m = k * block_size /\ (k + 1) * block_size = m + block_size
    BY Multiples
  <2>2. Start(file, block_size, k) = IF m < n THEN n - m ELSE 0
    BY <1>3, <2>1
  <2>3. Start(file, block_size, k + 1) = IF m + block_size < n THEN n - (m + block_size) ELSE 0
    <3>1. k + 1 \in Nat
      OBVIOUS
    <3> QED
      BY <1>3, <2>1, <3>1
  <2> QED
    BY <1>1, <2>2, <2>3
<1>8. Start(file, block_size, blocks) = 0
  <2>1. PICK m \in Nat : m = blocks * block_size /\ ~(m < n)
    BY <1>1, <1>2
  <2> QED
    BY <1>2, <1>3, <2>1
<1> QED
  BY <1>2, <1>4, <1>5, <1>8 DEF n, blocks

\* What is read in pass k.
Block(file, block_size, k) ==
  SubSeq(file, Start(file, block_size, k) + 1, Start(file, block_size, k - 1))

\* What has been read after k passes.
Behind(file, block_size, k) == SubSeq(file, Start(file, block_size, k) + 1, Len(file))

\* A pass adds its block in front of what has been read.
LEMMA Blocks ==
  ASSUME NEW file \in Seq(Bytes), NEW block_size \in Nat \ {0}, NEW k \in Nat
  PROVE  /\ Behind(file, block_size, k) \in Seq(Bytes)
         /\ k # 0 => Block(file, block_size, k) \in Seq(Bytes)
         /\ k # 0 => Behind(file, block_size, k) = Block(file, block_size, k) \o Behind(file, block_size, k - 1)
<1> DEFINE n == Len(file)
           from == Start(file, block_size, k)
           to == Start(file, block_size, k - 1)
<1>1. n \in Nat /\ \A i \in 1 .. n : file[i] \in Bytes
  BY LenProperties
<1>2. from \in 0 .. n /\ (k # 0 => to \in from .. n)
  <2>1. from \in 0 .. n
    BY Starts
  <2>2. ASSUME k # 0 PROVE to \in 0 .. n /\ from <= to
    <3>1. k - 1 \in Nat /\ (k - 1) + 1 = k
      BY <2>2
    <3>2. Start(file, block_size, (k - 1) + 1) <= Start(file, block_size, k - 1)
      BY <3>1, Starts
    <3>3. Start(file, block_size, k - 1) \in 0 .. Len(file)
      BY <3>1, Starts
    <3> QED
      BY <3>1, <3>2, <3>3
  <2> HIDE DEF from, to, n
  <2> QED
    BY <1>1, <2>1, <2>2
<1> HIDE DEF from, to
<1>3. SubSeq(file, from + 1, n) \in Seq(Bytes)
  <2>1. from + 1 \in Int /\ n \in Int /\ \A i \in from + 1 .. n : file[i] \in Bytes
    BY <1>1, <1>2
  <2> HIDE DEF n
  <2> QED
    BY <2>1, SubSeqProperties
<1>4. ASSUME k # 0
      PROVE  /\ SubSeq(file, from + 1, to) \in Seq(Bytes)
             /\ SubSeq(file, from + 1, to) \o SubSeq(file, to + 1, n) = SubSeq(file, from + 1, n)
  <2>1. from + 1 \in Int /\ to \in Int /\ \A i \in from + 1 .. to : file[i] \in Bytes
    BY <1>1, <1>2, <1>4
  <2>2. from + 1 \in 1 .. n + 1 /\ to \in (from + 1) - 1 .. n /\ n \in to .. n
    BY <1>1, <1>2, <1>4
  <2>3. SubSeq(file, from + 1, to) \in Seq(Bytes)
    BY <2>1, SubSeqProperties
  <2>4. SubSeq(file, from + 1, to) \o SubSeq(file, to + 1, n) = SubSeq(file, from + 1, n)
    BY <2>2, ConcatAdjacentSubSeq
  <2> QED
    BY <2>3, <2>4
<1> QED
  BY <1>3, <1>4 DEF Block, Behind, from, to, n

\* The recursion of _reverse_lines.
Loops(file, block_size, read) ==
  read = [k \in 0 .. (Len(file) + block_size - 1) \div block_size |->
            IF k = 0 THEN [tail |-> <<>>, lines |-> <<>>]
            ELSE Step(SubSeq(file, Start(file, block_size, k) + 1, Start(file, block_size, k - 1)), read[k - 1])]

LEMMA LoopRuns ==
  ASSUME NEW file \in Seq(Bytes), NEW block_size \in Nat \ {0}
  PROVE  \E read : Loops(file, block_size, read)
<1> DEFINE blocks == (Len(file) + block_size - 1) \div block_size
           before == [tail |-> <<>>, lines |-> <<>>]
           F == [k \in Nat |-> [p \in Passes |->
                   Step(IF k = 0 THEN <<>> ELSE Block(file, block_size, k), p)]]
<1>1. blocks \in Nat
  BY Starts
<1>2. before \in Passes
  BY DEF Passes
<1>3. F \in [Nat -> [Passes -> Passes]]
  <2>1. ASSUME NEW k \in Nat, NEW p \in Passes
        PROVE  Step(IF k = 0 THEN <<>> ELSE Block(file, block_size, k), p) \in Passes
    <3>1. <<>> \in Seq(Bytes)
      OBVIOUS
    <3>2. (IF k = 0 THEN <<>> ELSE Block(file, block_size, k)) \in Seq(Bytes)
      BY <3>1, Blocks
    <3> QED
      BY <3>2, StepFaithful
  <2> QED
    BY <2>1
<1>4. PICK f \in [0 .. blocks -> Passes] : Unrolls(f, before, F, blocks)
  <2> HIDE DEF F, blocks, before
  <2> QED
    BY <1>1, <1>2, <1>3, Unrolled
<1>5. ASSUME NEW k \in 0 .. blocks
      PROVE  f[k] = IF k = 0 THEN before ELSE Step(Block(file, block_size, k), f[k - 1])
  <2> HIDE DEF blocks, before
  <2>1. CASE k = 0
    BY <1>4, <2>1 DEF Unrolls
  <2>2. CASE k # 0
    <3>1. k \in Nat /\ k \in 1 .. blocks /\ k - 1 \in 0 .. blocks
      BY <1>1, <2>2
    <3>2. f[k - 1] \in Passes
      BY <1>4, <3>1
    <3>3. F[k][f[k - 1]] = Step(Block(file, block_size, k), f[k - 1])
      BY <2>2, <3>1, <3>2
    <3>4. f[k] = F[k][f[k - 1]]
      <4> HIDE DEF F
      <4> QED
        BY <1>4, <3>1 DEF Unrolls
    <3> QED
      BY <2>2, <3>3, <3>4
  <2> QED
    BY <2>1, <2>2
<1>6. f = [k \in 0 .. blocks |-> IF k = 0 THEN before ELSE Step(Block(file, block_size, k), f[k - 1])]
  <2> HIDE DEF blocks, before
  <2>1. f = [k \in 0 .. blocks |-> f[k]]
    BY <1>4
  <2> QED
    BY <1>5, <2>1
<1>7. Loops(file, block_size, f)
  BY <1>6 DEF Loops, Block
<1> QED
  BY <1>7

\* After each pass the lines given and the one held back are those of what was read.
LEMMA LoopFaithful ==
  ASSUME NEW file \in Seq(Bytes), NEW block_size \in Nat \ {0}, NEW read, Loops(file, block_size, read)
  PROVE  \A k \in 0 .. (Len(file) + block_size - 1) \div block_size :
           read[k] \in Passes /\ Faithful(read[k], Behind(file, block_size, k))
<1> DEFINE blocks == (Len(file) + block_size - 1) \div block_size
           S == {k \in Nat : k <= blocks =>
                   read[k] \in Passes /\ Faithful(read[k], Behind(file, block_size, k))}
<1>1. blocks \in Nat
  BY Starts
<1>2. \A k \in 0 .. blocks :
        read[k] = IF k = 0 THEN [tail |-> <<>>, lines |-> <<>>]
                  ELSE Step(Block(file, block_size, k), read[k - 1])
  BY DEF Loops, Block
<1> HIDE DEF blocks
<1>3. 0 \in S
  <2> DEFINE before == [tail |-> <<>>, lines |-> <<>>]
  <2>1. read[0] = before
    BY <1>1, <1>2
  <2>2. before \in Passes
    BY DEF Passes
  <2>3. Behind(file, block_size, 0) = <<>>
    <3>1. Len(file) + 1 \in Int /\ Len(file) \in Int /\ Len(file) < Len(file) + 1
      BY LenProperties
    <3>2. SubSeq(file, Len(file) + 1, Len(file)) = <<>>
      BY <3>1, SubSeqEmpty
    <3>3. Start(file, block_size, 0) = Len(file)
      BY Starts
    <3> QED
      BY <3>2, <3>3 DEF Behind
  <2>4. <<before.tail>> \o Reverse(before.lines) = << <<>> >>
    <3>1. <<>> \in Seq(Seq(Bytes)) /\ Len(<<>>) = 0 /\ << <<>> >> \in Seq(Seq(Bytes))
      OBVIOUS
    <3>2. Reverse(<<>>) \in Seq(Seq(Bytes)) /\ Len(Reverse(<<>>)) = 0
      BY <3>1, ReverseType
    <3>3. Reverse(<<>>) = <<>>
      BY <3>2, EmptySeq
    <3>4. << <<>> >> \o <<>> = << <<>> >>
      BY <3>1, ConcatEmptySeq
    <3>5. before.tail = <<>> /\ before.lines = <<>>
      OBVIOUS
    <3> QED
      BY <3>3, <3>4, <3>5
  <2> HIDE DEF before
  <2> QED
    BY <2>1, <2>2, <2>3, <2>4, LinesOfNothing DEF Faithful
<1>4. ASSUME NEW k \in Nat, k \in S PROVE k + 1 \in S
  <2> SUFFICES ASSUME k + 1 <= blocks
               PROVE  read[k + 1] \in Passes /\ Faithful(read[k + 1], Behind(file, block_size, k + 1))
    OBVIOUS
  <2>1. k + 1 \in Nat /\ k + 1 \in 0 .. blocks /\ k + 1 # 0 /\ (k + 1) - 1 = k
    BY <1>1
  <2>2. read[k] \in Passes /\ Faithful(read[k], Behind(file, block_size, k))
    BY <1>1, <1>4
  <2>3. read[k + 1] = Step(Block(file, block_size, k + 1), read[k])
    BY <1>2, <2>1
  <2>4. /\ Behind(file, block_size, k) \in Seq(Bytes) /\ Block(file, block_size, k + 1) \in Seq(Bytes)
        /\ Behind(file, block_size, k + 1) = Block(file, block_size, k + 1) \o Behind(file, block_size, k)
    <3>1. Behind(file, block_size, k + 1) = Block(file, block_size, k + 1) \o Behind(file, block_size, (k + 1) - 1)
      BY <2>1, Blocks
    <3> QED
      BY <2>1, <3>1, Blocks
  <2> QED
    BY <2>2, <2>3, <2>4, StepFaithful
<1> HIDE DEF S
<1>5. \A k \in Nat : k \in S
  BY <1>3, <1>4, CountingUp
<1>6. ASSUME NEW k \in 0 .. blocks
      PROVE  read[k] \in Passes /\ Faithful(read[k], Behind(file, block_size, k))
  <2>1. k \in S /\ k <= blocks
    BY <1>1, <1>5
  <2> QED
    BY <2>1 DEF S
<1> QED
  BY <1>6 DEF blocks

\* _reverse_lines: a file of any length, read from its end in blocks of any block_size, gives its
\* lines last first, without an empty first one.
THEOREM ReadBackwards ==
  ASSUME NEW file \in Seq(Bytes), NEW block_size \in Nat \ {0}
  PROVE  LET whole == Reverse(Lines(file))
         IN  _reverse_lines(file, block_size)
               = IF whole[Len(whole)] = <<>> THEN Front(whole) ELSE whole
<1> DEFINE blocks == (Len(file) + block_size - 1) \div block_size
           read == CHOOSE r : Loops(file, block_size, r)
           end == read[blocks]
           whole == Reverse(Lines(file))
<1>1. Loops(file, block_size, read)
  BY LoopRuns
<1>2. _reverse_lines(file, block_size) = IF end.tail = <<>> THEN end.lines ELSE Append(end.lines, end.tail)
  BY DEF _reverse_lines, Loops
<1> HIDE DEF read
<1>3. end \in Passes /\ Faithful(end, file)
  <2>1. blocks \in 0 .. blocks
    <3>1. blocks \in Nat
      BY Starts
    <3> HIDE DEF blocks
    <3> QED
      BY <3>1
  <2>2. Behind(file, block_size, blocks) = file
    <3>1. Start(file, block_size, blocks) = 0
      BY Starts
    <3>2. SubSeq(file, 1, Len(file)) = file
      BY SubSeqFull
    <3> HIDE DEF blocks
    <3> QED
      BY <3>1, <3>2 DEF Behind
  <2> QED
    BY <1>1, <2>1, <2>2, LoopFaithful
<1> HIDE DEF end
<1>4. end.tail \in Seq(Bytes) /\ end.lines \in Seq(Seq(Bytes))
  BY <1>3 DEF Passes
<1> DEFINE t == end.tail
           ls == end.lines
<1> HIDE DEF t, ls
<1>5. whole = Append(ls, t)
  <2>1. Lines(file) = <<t>> \o Reverse(ls)
    BY <1>3 DEF Faithful, t, ls
  <2>2. ls \in Seq(Seq(Bytes)) /\ t \in Seq(Bytes) /\ <<t>> \in Seq(Seq(Bytes)) /\ Len(<<t>>) = 1
    BY <1>4 DEF t, ls
  <2>3. Reverse(ls) \in Seq(Seq(Bytes)) /\ Reverse(Reverse(ls)) = ls
    BY <2>2, ReverseType, ReverseTwice
  <2>4. whole = Reverse(Reverse(ls)) \o Reverse(<<t>>)
    BY <2>1, <2>2, <2>3, ReverseOfParts
  <2>5. Reverse(<<t>>) = <<t>>
    BY DEF Reverse
  <2>6. whole = ls \o <<t>>
    BY <2>3, <2>4, <2>5
  <2> HIDE DEF whole
  <2> QED
    BY <2>2, <2>6, AppendIsConcat
<1>6. /\ ls \in Seq(Seq(Bytes)) /\ Len(ls) \in Nat /\ Len(whole) = Len(ls) + 1
      /\ whole \in Seq(Seq(Bytes))
      /\ whole[Len(whole)] = t /\ \A i \in 1 .. Len(ls) : whole[i] = ls[i]
  <2>1. ls \in Seq(Seq(Bytes)) /\ t \in Seq(Bytes)
    BY <1>4 DEF t, ls
  <2> HIDE DEF whole
  <2> QED
    BY <1>5, <2>1, AppendProperties, LenProperties
<1> HIDE DEF whole
<1>7. Front(whole) = ls
  <2>1. Front(whole) = SubSeq(whole, 1, Len(ls))
    BY <1>6 DEF Front
  <2>2. \A i \in 1 .. Len(ls) : whole[i] \in Seq(Bytes)
    BY <1>6, LenProperties
  <2>3. /\ SubSeq(whole, 1, Len(ls)) \in Seq(Seq(Bytes))
        /\ Len(SubSeq(whole, 1, Len(ls))) = IF 1 <= Len(ls) THEN Len(ls) - 1 + 1 ELSE 0
        /\ \A i \in 1 .. Len(ls) - 1 + 1 : SubSeq(whole, 1, Len(ls))[i] = whole[1 + i - 1]
    BY <1>6, <2>2, SubSeqProperties
  <2>4. /\ Len(SubSeq(whole, 1, Len(ls))) = Len(ls)
        /\ \A i \in 1 .. Len(ls) : SubSeq(whole, 1, Len(ls))[i] = ls[i]
    BY <1>6, <2>3
  <2> QED
    BY <1>6, <2>1, <2>3, <2>4, SeqEqual
<1>8. _reverse_lines(file, block_size) = IF t = <<>> THEN ls ELSE Append(ls, t)
  BY <1>2 DEF t, ls
<1>9. _reverse_lines(file, block_size) = IF whole[Len(whole)] = <<>> THEN Front(whole) ELSE whole
  BY <1>5, <1>6, <1>7, <1>8
<1> QED
  BY <1>9 DEF whole

\* So the files of the first states of the runs are read right, however many
\* bytes they may have.
THEOREM FilesReadRight == QuerySpec => []ReverseLinesExact
<1>1. ReverseLinesExact
  <2> SUFFICES ASSUME NEW read \in Files \X (1 .. MaxFile + 1)
               PROVE  LET whole == Reverse(Lines(read[1]))
                      IN  _reverse_lines(read[1], read[2])
                            = IF whole[Len(whole)] = <<>> THEN Front(whole) ELSE whole
    BY DEF ReverseLinesExact, Misread
  <2>1. read[1] \in Files /\ read[2] \in 1 .. MaxFile + 1
    OBVIOUS
  <2>2. read[1] \in Seq(Bytes)
    BY <2>1 DEF Files
  <2>3. read[2] \in Nat \ {0}
    BY <2>1, ReverseLinesAssumption
  <2> QED
    BY <2>2, <2>3, ReadBackwards
<1> QED
  BY <1>1, PTL
=============================================================================
