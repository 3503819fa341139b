--------------------------- MODULE AuditLogProofs ---------------------------
(***************************************************************************)
(* Theorems about AuditLog for every number of writers, backups, records   *)
(* and for every choice of failing steps.                                  *)
(***************************************************************************)
EXTENDS AuditLog, TLAPS

(***************************************************************************)
(* Type correctness                                                        *)
(***************************************************************************)

LEMMA NoFileIsFile == NoFile \in File /\ EmptyFile \in File
BY DEF NoFile, EmptyFile, File

LEMMA SlotZero == 0 \in Slots
BY AuditAssumption DEF Slots

\* A rename between two slots leaves a disk of files.
LEMMA RenamedType ==
  ASSUME disk \in [Slots -> File], NEW src \in Slots, NEW dst \in Slots
  PROVE  Renamed(src, dst) \in [Slots -> File]
BY NoFileIsFile DEF Renamed

\* LeaveLock keeps the types of the variables it sets.
LEMMA LeaveLockType ==
  ASSUME TypeOK, NEW w \in Writers, LeaveLock(w)
  PROVE  /\ pc' \in [Writers -> {"idle", "ready"} \union Critical]
         /\ size' \in [Writers -> Nat]
         /\ shift' \in [Writers -> 0 .. BackupCount]
         /\ holder' \in SUBSET Writers
BY AuditAssumption DEF LeaveLock, Goto, TypeOK

\* The loop variable of a writer that is shifting names a backup with a
\* successor slot.
ShiftInv ==
  \A w \in Writers :
    /\ pc[w] \in Rotating => BackupCount \in Nat \ {0}
    /\ pc[w] = "shift" => shift[w] \in 1 .. BackupCount - 1

\* TypeOK needs ShiftInv: only a loop variable above 0 can be decremented.
TypeInv == TypeOK /\ ShiftInv

LEMMA TypeInvInit == Init => TypeInv
<1> SUFFICES ASSUME Init PROVE TypeInv
  OBVIOUS
<1>1. TypeOK
  BY AuditAssumption, NoFileIsFile DEF Init, TypeOK, Critical, Rotating
<1>2. ShiftInv
  BY DEF Init, ShiftInv, Rotating
<1> QED
  BY <1>1, <1>2 DEF TypeInv

LEMMA TypeInvStep == TypeInv /\ [Next]_vars => TypeInv'
<1> SUFFICES ASSUME TypeOK, ShiftInv, [Next]_vars
             PROVE  TypeInv'
  BY DEF TypeInv
<1> USE AuditAssumption DEF TypeInv
<1>1. ASSUME NEW w \in Writers, Build(w)
      PROVE  TypeInv'
  <2>1. TypeOK'
    BY <1>1 DEF Build, Goto, TypeOK
  <2>2. ShiftInv'
    BY <1>1 DEF Build, Goto, TypeOK, ShiftInv, Rotating
  <2> QED
    BY <2>1, <2>2
<1>2. ASSUME NEW w \in Writers, TakeLock(w)
      PROVE  TypeInv'
  <2>1. TypeOK'
    BY <1>2 DEF TakeLock, Goto, TypeOK, Critical, Rotating
  <2>2. ShiftInv'
    BY <1>2 DEF TakeLock, Goto, TypeOK, ShiftInv, Rotating, NeedsRotation
  <2> QED
    BY <2>1, <2>2
<1>3. ASSUME NEW w \in Writers, RemoveOldest(w)
      PROVE  TypeInv'
  <2>1. BackupCount \in Nat \ {0}
    BY <1>3 DEF RemoveOldest, ShiftInv, Rotating
  <2>2. TypeOK'
    BY <1>3, <2>1, NoFileIsFile
    DEF RemoveOldest, Goto, TypeOK, Critical, Rotating, Slots
  <2>3. ShiftInv'
    BY <1>3, <2>1 DEF RemoveOldest, Goto, TypeOK, ShiftInv, Rotating
  <2> QED
    BY <2>2, <2>3
<1>4. ASSUME NEW w \in Writers, ShiftBackup(w)
      PROVE  TypeInv'
  <2>1. shift[w] \in 1 .. BackupCount - 1
    BY <1>4 DEF ShiftBackup, ShiftInv
  <2>2. shift[w] \in Slots /\ shift[w] + 1 \in Slots
    BY <2>1 DEF Slots
  <2>3. disk' \in [Slots -> File]
    BY <1>4, <2>2, RenamedType DEF ShiftBackup, TypeOK
  <2>4. TypeOK'
    BY <1>4, <2>1, <2>3 DEF ShiftBackup, Goto, TypeOK, Critical, Rotating
  <2>5. ShiftInv'
    BY <1>4, <2>1 DEF ShiftBackup, Goto, TypeOK, ShiftInv, Rotating
  <2> QED
    BY <2>4, <2>5
<1>5. ASSUME NEW w \in Writers, RollLive(w)
      PROVE  TypeInv'
  <2>1. 0 \in Slots /\ 1 \in Slots
    BY <1>5 DEF RollLive, ShiftInv, Rotating, Slots
  <2>2. disk' \in [Slots -> File]
    BY <1>5, <2>1, RenamedType DEF RollLive, TypeOK
  <2>3. TypeOK'
    BY <1>5, <2>2 DEF RollLive, Goto, TypeOK, Critical, Rotating
  <2>4. ShiftInv'
    BY <1>5 DEF RollLive, Goto, TypeOK, ShiftInv, Rotating
  <2> QED
    BY <2>3, <2>4
<1>6. ASSUME NEW w \in Writers, AppendRecord(w)
      PROVE  TypeInv'
  <2>1. written + 1 \in Nat
    BY DEF TypeOK
  <2>2. Appended(disk[0], size[w], written + 1) \in File
    BY <2>1, SlotZero DEF Appended, File, TypeOK
  <2>3. disk' \in [Slots -> File]
    BY <1>6, <2>2, SlotZero DEF AppendRecord, TypeOK
  <2>4. TypeOK'
    BY <1>6, <2>1, <2>3, LeaveLockType DEF AppendRecord, TypeOK
  <2>5. ShiftInv'
    BY <1>6 DEF AppendRecord, LeaveLock, Goto, TypeOK, ShiftInv, Rotating
  <2> QED
    BY <2>4, <2>5
<1>7. ASSUME NEW w \in Writers, AppendFails(w)
      PROVE  TypeInv'
  <2>1. disk' \in [Slots -> File]
    BY <1>7, NoFileIsFile, SlotZero DEF AppendFails, TypeOK
  <2>2. TypeOK'
    BY <1>7, <2>1, LeaveLockType DEF AppendFails, TypeOK
  <2>3. ShiftInv'
    BY <1>7 DEF AppendFails, LeaveLock, Goto, TypeOK, ShiftInv, Rotating
  <2> QED
    BY <2>2, <2>3
<1>8. ASSUME NEW w \in Writers, AppendTorn(w)
      PROVE  TypeInv'
  <2>1. PICK part \in 1 .. (size[w] - 1) : disk' = [disk EXCEPT ![0] = CutShort(disk[0], part)]
    BY <1>8 DEF AppendTorn
  <2>2. CutShort(disk[0], part) \in File
    <3>1. size[w] \in Nat /\ disk[0] \in File
      BY SlotZero DEF TypeOK
    <3>2. part \in Nat
      BY <3>1
    <3> QED
      BY <3>1, <3>2 DEF CutShort, File
  <2>3. disk' \in [Slots -> File]
    BY <2>1, <2>2, SlotZero DEF TypeOK
  <2>4. TypeOK'
    BY <1>8, <2>3, LeaveLockType DEF AppendTorn, TypeOK
  <2>5. ShiftInv'
    BY <1>8 DEF AppendTorn, LeaveLock, Goto, TypeOK, ShiftInv, Rotating
  <2> QED
    BY <2>4, <2>5
<1>9. CASE Crash
  <2>1. TypeOK'
    BY <1>9 DEF Crash, TypeOK
  <2>2. ShiftInv'
    BY <1>9 DEF Crash, ShiftInv, Rotating
  <2> QED
    BY <2>1, <2>2
<1>10. CASE UNCHANGED vars
  BY <1>10 DEF vars, TypeOK, ShiftInv
<1> QED
  BY <1>1, <1>2, <1>3, <1>4, <1>5, <1>6, <1>7, <1>8, <1>9, <1>10
  DEF Next, Locked, Quiet

\* Every variable keeps its type, whatever step of a rotation or a write fails.
THEOREM TypeCorrect == Spec => []TypeOK
<1>1. Spec => []TypeInv
  BY TypeInvInit, TypeInvStep, PTL DEF Spec
<1>2. TypeInv => TypeOK
  BY DEF TypeInv
<1> QED
  BY <1>1, <1>2, PTL

(***************************************************************************)
(* Order: newest first across the files, whatever fails                    *)
(***************************************************************************)

\* Only numbers already given out are in the files.
IdsKnown == \A i \in Slots : disk[i].ids \subseteq 1 .. written

OrderInv == TypeInv /\ IdsKnown /\ Ordered

\* Moving a file one slot up, over whatever was there, keeps the order: its
\* records stay newer than those above and older than those below.
LEMMA RenameKeepsOrder ==
  ASSUME TypeOK, IdsKnown, Ordered, NEW k \in Slots, k + 1 \in Slots,
         disk' = Renamed(k, k + 1), UNCHANGED written
  PROVE  IdsKnown' /\ Ordered'
<1> USE AuditAssumption DEF Slots
<1>1. \A i \in Slots :
        disk'[i].ids = IF i = k THEN {} ELSE IF i = k + 1 THEN disk[k].ids ELSE disk[i].ids
  BY DEF Renamed, NoFile, TypeOK
<1>2. IdsKnown'
  BY <1>1 DEF IdsKnown
<1>3. ASSUME NEW i \in Slots, NEW j \in Slots, i < j,
             NEW newer \in disk'[i].ids, NEW older \in disk'[j].ids
      PROVE  older < newer
  <2>1. PICK a \in Slots, b \in Slots : a < b /\ newer \in disk[a].ids /\ older \in disk[b].ids
    BY <1>1, <1>3
  <2> QED
    BY <2>1 DEF Ordered
<1> QED
  BY <1>2, <1>3 DEF Ordered

\* A step that only removes records from files keeps the order.
LEMMA FewerKeepOrder ==
  ASSUME IdsKnown, Ordered, UNCHANGED written,
         \A i \in Slots : disk'[i].ids \subseteq disk[i].ids
  PROVE  IdsKnown' /\ Ordered'
BY DEF IdsKnown, Ordered

LEMMA OrderInvStep == OrderInv /\ [Next]_vars => OrderInv'
<1> SUFFICES ASSUME TypeInv, TypeOK, ShiftInv, IdsKnown, Ordered, [Next]_vars
             PROVE  IdsKnown' /\ Ordered'
  BY TypeInvStep DEF OrderInv, TypeInv
<1> USE AuditAssumption
<1>1. ASSUME UNCHANGED <<disk, written>>
      PROVE  IdsKnown' /\ Ordered'
  BY <1>1 DEF IdsKnown, Ordered
<1>2. ASSUME NEW w \in Writers, Build(w) \/ TakeLock(w)
      PROVE  IdsKnown' /\ Ordered'
  BY <1>1, <1>2 DEF Build, TakeLock
<1>3. ASSUME NEW w \in Writers, RemoveOldest(w)
      PROVE  IdsKnown' /\ Ordered'
  <2>1. UNCHANGED written
    BY <1>3 DEF RemoveOldest
  <2>2. \A i \in Slots : disk'[i].ids \subseteq disk[i].ids
    BY <1>3 DEF RemoveOldest, TypeOK, NoFile
  <2> QED
    BY <2>1, <2>2, FewerKeepOrder
<1>4. ASSUME NEW w \in Writers, ShiftBackup(w)
      PROVE  IdsKnown' /\ Ordered'
  <2>1. shift[w] \in Slots /\ shift[w] + 1 \in Slots
    BY <1>4 DEF ShiftBackup, ShiftInv, Slots
  <2>2. UNCHANGED written /\ (disk' = Renamed(shift[w], shift[w] + 1) \/ UNCHANGED disk)
    BY <1>4 DEF ShiftBackup
  <2> QED
    BY <1>1, <2>1, <2>2, RenameKeepsOrder
<1>5. ASSUME NEW w \in Writers, RollLive(w)
      PROVE  IdsKnown' /\ Ordered'
  <2>1. 0 \in Slots /\ 0 + 1 \in Slots
    BY <1>5 DEF RollLive, ShiftInv, Rotating, Slots
  <2>2. UNCHANGED written /\ (disk' = Renamed(0, 0 + 1) \/ UNCHANGED disk)
    BY <1>5 DEF RollLive
  <2> QED
    BY <1>1, <2>1, <2>2, RenameKeepsOrder
<1>6. ASSUME NEW w \in Writers, AppendRecord(w)
      PROVE  IdsKnown' /\ Ordered'
  <2>1. written \in Nat /\ written' = written + 1
    BY <1>6 DEF AppendRecord, TypeOK
  <2>2. disk'[0].ids \subseteq disk[0].ids \union {written + 1}
    BY <1>6, SlotZero DEF AppendRecord, Appended, TypeOK
  <2>3. \A i \in Slots : i # 0 => disk'[i] = disk[i]
    BY <1>6 DEF AppendRecord, TypeOK
  <2>4. IdsKnown'
    BY <2>1, <2>2, <2>3, SlotZero DEF IdsKnown
  <2>5. ASSUME NEW i \in Slots, NEW j \in Slots, i < j,
               NEW newer \in disk'[i].ids, NEW older \in disk'[j].ids
        PROVE  older < newer
    <3>1. j # 0 /\ older \in disk[j].ids /\ older \in 1 .. written
      BY <2>3, <2>5 DEF Slots, IdsKnown
    <3>2. CASE newer \in disk[i].ids
      BY <2>5, <3>1, <3>2 DEF Ordered
    <3>3. CASE newer \notin disk[i].ids
      BY <2>1, <2>2, <2>3, <2>5, <3>1, <3>3
    <3> QED
      BY <3>2, <3>3
  <2> QED
    BY <2>4, <2>5 DEF Ordered
<1>7. ASSUME NEW w \in Writers, AppendFails(w) \/ AppendTorn(w)
      PROVE  IdsKnown' /\ Ordered'
  <2>1. UNCHANGED written
    BY <1>7 DEF AppendFails, AppendTorn
  <2>2. \A i \in Slots : disk'[i].ids \subseteq disk[i].ids
    BY <1>7, SlotZero DEF AppendFails, AppendTorn, CutShort, EmptyFile, NoFile, TypeOK
  <2> QED
    BY <2>1, <2>2, FewerKeepOrder
<1>8. CASE Crash
  BY <1>1, <1>8 DEF Crash
<1>9. CASE UNCHANGED vars
  BY <1>1, <1>9 DEF vars
<1> QED
  BY <1>2, <1>3, <1>4, <1>5, <1>6, <1>7, <1>8, <1>9 DEF Next, Locked, Quiet

LEMMA OrderInvInit == Init => OrderInv
<1> SUFFICES ASSUME Init PROVE IdsKnown /\ Ordered
  BY TypeInvInit DEF OrderInv
<1>1. \A i \in Slots : disk[i].ids = {}
  BY DEF Init, NoFile
<1> QED
  BY <1>1 DEF IdsKnown, Ordered

LEMMA OrderInvAlways == Spec => []OrderInv
BY OrderInvInit, OrderInvStep, PTL DEF Spec

\* The files stay newest first however many steps of however many rotations
\* fail or are cut off, so a record is in at most one file.
THEOREM FilesNewestFirst == Spec => []Ordered
<1>1. OrderInv => Ordered
  BY DEF OrderInv
<1> QED
  BY <1>1, OrderInvAlways, PTL

(***************************************************************************)
(* Retention: the files implement AuditTrail when no backup rename fails   *)
(* and no line is torn                                                     *)
(***************************************************************************)

\* The failures under which nothing but the oldest records is ever lost.
Tolerated == Faults \intersect {"shift", "torn"} = {}

\* One writer at a time is between the size test and the append.
Mutex == \A w \in Writers : pc[w] \in Critical => holder = {w}

\* A file holds records as soon as it has bytes, and no line is torn.
Filled ==
  \A i \in Slots :
    /\ ~disk[i].torn
    /\ disk[i].bytes # 0 => disk[i].ids # {}
    /\ ~disk[i].exists => disk[i].ids = {}

\* The slot the next rename lands on is empty, or is the last one.
Gap ==
  \A w \in Writers :
    /\ pc[w] = "shift" /\ shift[w] + 1 # BackupCount => disk[shift[w] + 1].ids = {}
    /\ pc[w] = "roll" /\ 1 # BackupCount => disk[1].ids = {}

\* Only a live file with records in it is rotated.
LiveKept == \A w \in Writers : pc[w] \in Rotating => disk[0].ids # {}

KeepInv == OrderInv /\ Mutex /\ Filled /\ Gap /\ LiveKept /\ Unbroken

LEMMA InRetained ==
  /\ \A n : n \in Retained <=> \E i \in Slots : n \in disk[i].ids
  /\ \A n : n \in Retained' <=> \E i \in Slots : n \in disk'[i].ids
BY DEF Retained

\* Whatever the trail allows keeps it unbroken.
LEMMA TrailStepUnbroken ==
  ASSUME written \in Nat, Retained \subseteq 1 .. written, Unbroken,
         [Trail!TrailNext]_(Trail!trailVars)
  PROVE  Unbroken'
<1>1. CASE Trail!Record
  BY <1>1 DEF Trail!Record, Unbroken
<1>2. CASE Trail!Forget
  BY <1>2 DEF Trail!Forget, Unbroken
<1>3. CASE UNCHANGED Trail!trailVars
  BY <1>3 DEF Trail!trailVars, Unbroken
<1> QED
  BY <1>1, <1>2, <1>3 DEF Trail!TrailNext

\* Losing the contents of the last slot is forgetting the oldest records.
LEMMA DropLastSlot ==
  ASSUME TypeOK, Ordered, UNCHANGED written, BackupCount \in Nat \ {0},
         disk[0].ids # {},
         \A n : n \in Retained' <=> \E i \in Slots \ {BackupCount} : n \in disk[i].ids
  PROVE  Trail!Forget
<1>1. Retained' # {}
  BY SlotZero
<1>2. Retained' \subseteq Retained
  BY InRetained
<1>3. ASSUME NEW n \in Retained', NEW m \in Retained \ Retained'
      PROVE  m < n
  <2>1. PICK i \in Slots \ {BackupCount} : n \in disk[i].ids
    BY <1>3
  <2>2. m \in disk[BackupCount].ids
    BY <1>3, InRetained
  <2>3. i < BackupCount /\ BackupCount \in Slots
    BY <2>1 DEF Slots
  <2> QED
    BY <2>1, <2>2, <2>3 DEF Ordered
<1> QED
  BY <1>1, <1>2, <1>3 DEF Trail!Forget

\* A rename onto a slot that is empty or last is a stutter or a Forget.
LEMMA RenameRefines ==
  ASSUME TypeOK, Ordered, UNCHANGED written, BackupCount \in Nat \ {0},
         NEW k \in Slots, k + 1 \in Slots, disk' = Renamed(k, k + 1),
         disk[0].ids # {}, k + 1 # BackupCount => disk[k + 1].ids = {}
  PROVE  [Trail!TrailNext]_(Trail!trailVars)
<1>1. \A i \in Slots :
        disk'[i].ids = IF i = k THEN {} ELSE IF i = k + 1 THEN disk[k].ids ELSE disk[i].ids
  BY DEF Renamed, NoFile, TypeOK, Slots
<1>2. CASE k + 1 = BackupCount
  <2>1. \A n : n \in Retained' <=> \E i \in Slots \ {BackupCount} : n \in disk[i].ids
    BY <1>1, <1>2, InRetained, AuditAssumption DEF Slots
  <2> QED
    BY <2>1, DropLastSlot DEF Trail!TrailNext
<1>3. CASE k + 1 # BackupCount
  <2>1. \A n : n \in Retained' <=> n \in Retained
    BY <1>1, <1>3, InRetained DEF Slots
  <2>2. Retained' = Retained
    BY <2>1
  <2> QED
    BY <2>2 DEF Trail!trailVars
<1> QED
  BY <1>2, <1>3

\* Every step of the files is a step of the trail or leaves it alone.
LEMMA StepRefines ==
  ASSUME Tolerated, KeepInv, [Next]_vars
  PROVE  [Trail!TrailNext]_(Trail!trailVars)
<1> USE AuditAssumption
<1>0. TypeOK /\ ShiftInv /\ IdsKnown /\ Ordered /\ Filled /\ Gap /\ LiveKept
  BY DEF KeepInv, OrderInv, TypeInv
<1>1. ASSUME UNCHANGED <<disk, written>>
      PROVE  UNCHANGED Trail!trailVars
  BY <1>1 DEF Trail!trailVars, Retained
<1>2. ASSUME NEW w \in Writers, Build(w) \/ TakeLock(w)
      PROVE  UNCHANGED Trail!trailVars
  BY <1>1, <1>2 DEF Build, TakeLock
<1>3. ASSUME NEW w \in Writers, RemoveOldest(w)
      PROVE  [Trail!TrailNext]_(Trail!trailVars)
  <2>1. BackupCount \in Nat \ {0} /\ disk[0].ids # {} /\ UNCHANGED written
    BY <1>0, <1>3 DEF RemoveOldest, ShiftInv, LiveKept, Rotating
  <2>2. CASE UNCHANGED disk
    BY <1>1, <2>1, <2>2
  <2>3. CASE disk' = [disk EXCEPT ![BackupCount] = NoFile]
    <3>1. \A n : n \in Retained' <=> \E i \in Slots \ {BackupCount} : n \in disk[i].ids
      BY <1>0, <2>3, InRetained DEF NoFile, TypeOK
    <3> QED
      BY <1>0, <2>1, <3>1, DropLastSlot DEF Trail!TrailNext
  <2> QED
    BY <1>3, <2>2, <2>3 DEF RemoveOldest
<1>4. ASSUME NEW w \in Writers, ShiftBackup(w)
      PROVE  [Trail!TrailNext]_(Trail!trailVars)
  <2>1. /\ shift[w] \in Slots /\ shift[w] + 1 \in Slots /\ UNCHANGED written
        /\ BackupCount \in Nat \ {0} /\ disk[0].ids # {}
        /\ shift[w] + 1 # BackupCount => disk[shift[w] + 1].ids = {}
    BY <1>0, <1>4 DEF ShiftBackup, ShiftInv, LiveKept, Gap, Rotating, Slots
  <2>2. CASE UNCHANGED disk
    BY <1>1, <2>1, <2>2
  <2>3. CASE disk' = Renamed(shift[w], shift[w] + 1)
    BY <1>0, <2>1, <2>3, RenameRefines
  <2> QED
    BY <1>4, <2>2, <2>3 DEF ShiftBackup
<1>5. ASSUME NEW w \in Writers, RollLive(w)
      PROVE  [Trail!TrailNext]_(Trail!trailVars)
  <2>1. /\ 0 \in Slots /\ 0 + 1 \in Slots /\ UNCHANGED written
        /\ BackupCount \in Nat \ {0} /\ disk[0].ids # {}
        /\ 0 + 1 # BackupCount => disk[0 + 1].ids = {}
    BY <1>0, <1>5 DEF RollLive, ShiftInv, LiveKept, Gap, Rotating, Slots
  <2>2. CASE UNCHANGED disk
    BY <1>1, <2>1, <2>2
  <2>3. CASE disk' = Renamed(0, 0 + 1)
    BY <1>0, <2>1, <2>3, RenameRefines
  <2> QED
    BY <1>5, <2>2, <2>3 DEF RollLive
<1>6. ASSUME NEW w \in Writers, AppendRecord(w)
      PROVE  Trail!Record
  <2>1. disk'[0].ids = disk[0].ids \union {written + 1}
    BY <1>0, <1>6, SlotZero DEF AppendRecord, Appended, TypeOK, Filled
  <2>2. \A i \in Slots : i # 0 => disk'[i] = disk[i]
    BY <1>0, <1>6 DEF AppendRecord, TypeOK
  <2>3. \A n : n \in Retained' <=> n \in Retained \union {written + 1}
    BY <2>1, <2>2, SlotZero, InRetained
  <2> QED
    BY <1>6, <2>3 DEF AppendRecord, Trail!Record
<1>7. ASSUME NEW w \in Writers, AppendFails(w)
      PROVE  UNCHANGED Trail!trailVars
  <2>1. \A i \in Slots : disk'[i].ids = disk[i].ids
    <3>1. CASE UNCHANGED disk
      BY <3>1
    <3>2. CASE ~disk[0].exists /\ disk' = [disk EXCEPT ![0] = EmptyFile]
      <4>1. disk[0].ids = {} /\ EmptyFile.ids = {}
        BY <1>0, <3>2, SlotZero DEF Filled, EmptyFile, NoFile
      <4>2. disk'[0] = EmptyFile /\ \A i \in Slots \ {0} : disk'[i] = disk[i]
        BY <1>0, <3>2, SlotZero DEF TypeOK
      <4> QED
        BY <4>1, <4>2
    <3> QED
      BY <1>7, <3>1, <3>2 DEF AppendFails
  <2>2. \A n : n \in Retained' <=> n \in Retained
    BY <2>1, InRetained
  <2> QED
    BY <1>7, <2>2 DEF AppendFails, Trail!trailVars
<1>8. ASSUME NEW w \in Writers, AppendTorn(w)
      PROVE  FALSE
  BY <1>8 DEF AppendTorn, Tolerated
<1>9. CASE Crash
  BY <1>1, <1>9 DEF Crash
<1>10. CASE UNCHANGED vars
  BY <1>1, <1>10 DEF vars
<1> QED
  BY <1>2, <1>3, <1>4, <1>5, <1>6, <1>7, <1>8, <1>9, <1>10
  DEF Next, Locked, Quiet, Trail!TrailNext

\* A writer outside the lock is not in any critical step, so what the lock
\* holder does to the disk disturbs nobody else's Gap or LiveKept.
LEMMA OthersOutside ==
  ASSUME Mutex, NEW w \in Writers, pc[w] \in Critical
  PROVE  \A v \in Writers : v # w => pc[v] \notin Critical
BY DEF Mutex

LEMMA MutexStep ==
  ASSUME TypeOK, Mutex, [Next]_vars
  PROVE  Mutex'
<1>1. ASSUME NEW w \in Writers, Build(w)
      PROVE  Mutex'
  BY <1>1 DEF Build, Goto, Mutex, TypeOK, Critical, Rotating
<1>2. ASSUME NEW w \in Writers, TakeLock(w)
      PROVE  Mutex'
  <2>1. \A v \in Writers : pc[v] \notin Critical
    BY <1>2 DEF TakeLock, Mutex
  <2>2. holder' = {w} /\ \A v \in Writers : v # w => pc'[v] = pc[v]
    BY <1>2 DEF TakeLock, Goto, TypeOK
  <2> QED
    BY <2>1, <2>2 DEF Mutex
<1>3. ASSUME NEW w \in Writers, RemoveOldest(w) \/ ShiftBackup(w) \/ RollLive(w)
      PROVE  Mutex'
  <2>1. pc[w] \in Critical /\ UNCHANGED holder
    BY <1>3 DEF RemoveOldest, ShiftBackup, RollLive, Critical, Rotating
  <2>2. \A v \in Writers : v # w => pc'[v] = pc[v]
    BY <1>3 DEF RemoveOldest, ShiftBackup, RollLive, Goto, TypeOK
  <2> QED
    BY <2>1, <2>2 DEF Mutex
<1>4. ASSUME NEW w \in Writers, AppendRecord(w) \/ AppendFails(w) \/ AppendTorn(w)
      PROVE  Mutex'
  <2>1. pc[w] \in Critical /\ LeaveLock(w)
    BY <1>4 DEF AppendRecord, AppendFails, AppendTorn, Critical
  <2>2. \A v \in Writers : pc'[v] \notin Critical
    BY <2>1, OthersOutside DEF LeaveLock, Goto, TypeOK, Critical, Rotating
  <2> QED
    BY <2>2 DEF Mutex
<1>5. CASE Crash
  BY <1>5 DEF Crash, Mutex, Critical, Rotating
<1>6. CASE UNCHANGED vars
  BY <1>6 DEF vars, Mutex
<1> QED
  BY <1>1, <1>2, <1>3, <1>4, <1>5, <1>6 DEF Next, Locked, Quiet

LEMMA FilledStep ==
  ASSUME Tolerated, TypeInv, Filled, [Next]_vars
  PROVE  Filled'
<1> USE AuditAssumption
<1>0. TypeOK /\ ShiftInv
  BY DEF TypeInv
<1>1. ASSUME UNCHANGED disk
      PROVE  Filled'
  BY <1>1 DEF Filled
<1>2. ASSUME NEW k \in Slots, k + 1 \in Slots, disk' = Renamed(k, k + 1)
      PROVE  Filled'
  BY <1>0, <1>2 DEF Renamed, NoFile, TypeOK, Filled
<1>3. ASSUME NEW w \in Writers, RemoveOldest(w)
      PROVE  Filled'
  BY <1>0, <1>3 DEF RemoveOldest, NoFile, TypeOK, Filled
<1>4. ASSUME NEW w \in Writers, ShiftBackup(w)
      PROVE  Filled'
  <2>1. shift[w] \in Slots /\ shift[w] + 1 \in Slots
    BY <1>0, <1>4 DEF ShiftBackup, ShiftInv, Slots
  <2> QED
    BY <1>1, <1>2, <1>4, <2>1 DEF ShiftBackup
<1>5. ASSUME NEW w \in Writers, RollLive(w)
      PROVE  Filled'
  <2>1. 0 \in Slots /\ 0 + 1 \in Slots
    BY <1>0, <1>5 DEF RollLive, ShiftInv, Rotating, Slots
  <2>2. disk' = Renamed(0, 0 + 1) \/ UNCHANGED disk
    BY <1>5 DEF RollLive
  <2> QED
    BY <1>1, <1>2, <2>1, <2>2
<1>6. ASSUME NEW w \in Writers, AppendRecord(w)
      PROVE  Filled'
  BY <1>0, <1>6, SlotZero DEF AppendRecord, Appended, TypeOK, Filled
<1>7. ASSUME NEW w \in Writers, AppendFails(w)
      PROVE  Filled'
  BY <1>0, <1>7, SlotZero DEF AppendFails, EmptyFile, NoFile, TypeOK, Filled
<1>8. ASSUME NEW w \in Writers, AppendTorn(w)
      PROVE  FALSE
  BY <1>8 DEF AppendTorn, Tolerated
<1>9. ASSUME NEW w \in Writers, Build(w) \/ TakeLock(w)
      PROVE  Filled'
  BY <1>1, <1>9 DEF Build, TakeLock
<1>10. CASE Crash \/ UNCHANGED vars
  BY <1>1, <1>10 DEF Crash, vars
<1> QED
  BY <1>3, <1>4, <1>5, <1>6, <1>7, <1>8, <1>9, <1>10 DEF Next, Locked, Quiet

\* The rotation opens the gap it renames into, from the last slot down.
LEMMA GapStep ==
  ASSUME Tolerated, TypeInv, Mutex, Filled, Gap, LiveKept, [Next]_vars
  PROVE  Gap' /\ LiveKept'
<1> USE AuditAssumption
<1>0. TypeOK /\ ShiftInv
  BY DEF TypeInv
<1>1. ASSUME NEW w \in Writers, Build(w)
      PROVE  Gap' /\ LiveKept'
  BY <1>0, <1>1 DEF Build, Goto, TypeOK, Gap, LiveKept, Rotating
<1>2. ASSUME NEW w \in Writers, TakeLock(w)
      PROVE  Gap' /\ LiveKept'
  <2>1. NeedsRotation(w) => disk[0].ids # {}
    BY SlotZero DEF NeedsRotation, Filled
  <2> QED
    BY <1>0, <1>2, <2>1 DEF TakeLock, Goto, TypeOK, Gap, LiveKept, Rotating
<1>3. ASSUME NEW w \in Writers, pc[w] \in Critical,
             \A v \in Writers : v # w => pc'[v] = pc[v],
             pc'[w] = "shift" /\ shift'[w] + 1 # BackupCount => disk'[shift'[w] + 1].ids = {},
             pc'[w] = "roll" /\ 1 # BackupCount => disk'[1].ids = {},
             pc'[w] \in Rotating => disk'[0].ids # {}
      PROVE  Gap' /\ LiveKept'
  <2>1. \A v \in Writers : v # w => pc'[v] \notin Rotating
    BY <1>3, OthersOutside DEF Critical
  <2> QED
    BY <1>3, <2>1 DEF Gap, LiveKept, Rotating
<1>4. ASSUME NEW w \in Writers, RemoveOldest(w)
      PROVE  Gap' /\ LiveKept'
  <2>1. pc[w] \in Critical /\ \A v \in Writers : v # w => pc'[v] = pc[v]
    BY <1>0, <1>4 DEF RemoveOldest, Goto, TypeOK, Critical, Rotating
  <2>2. pc'[w] = IF BackupCount > 1 THEN "shift" ELSE "roll"
    BY <1>0, <1>4 DEF RemoveOldest, Goto, TypeOK
  <2>3. shift'[w] + 1 = BackupCount
    BY <1>0, <1>4 DEF RemoveOldest, TypeOK
  <2>4. BackupCount # 0 /\ disk[0].ids # {}
    BY <1>0, <1>4 DEF RemoveOldest, ShiftInv, LiveKept, Rotating
  <2>5. disk'[0].ids # {}
    BY <1>0, <1>4, <2>4, SlotZero DEF RemoveOldest, TypeOK
  <2> QED
    BY <1>3, <2>1, <2>2, <2>3, <2>4, <2>5
<1>5. ASSUME NEW w \in Writers, ShiftBackup(w)
      PROVE  Gap' /\ LiveKept'
  <2> DEFINE i == shift[w]
  <2>1. pc[w] \in Critical /\ \A v \in Writers : v # w => pc'[v] = pc[v]
    BY <1>0, <1>5 DEF ShiftBackup, Goto, TypeOK, Critical, Rotating
  <2>2. i \in 1 .. BackupCount - 1 /\ i \in Slots /\ i + 1 \in Slots
    BY <1>0, <1>5 DEF ShiftBackup, ShiftInv, Slots
  <2>3. /\ pc'[w] = IF i > 1 THEN "shift" ELSE "roll"
        /\ shift'[w] = i - 1
    BY <1>0, <1>5 DEF ShiftBackup, Goto, TypeOK
  <2>4. disk'[i].ids = {}
    BY <1>0, <1>5, <2>2 DEF ShiftBackup, Tolerated, Renamed, NoFile, TypeOK, Filled
  <2>5. disk[0].ids # {}
    BY <1>5 DEF ShiftBackup, LiveKept, Rotating
  <2>6. disk'[0].ids # {}
    BY <1>0, <1>5, <2>2, <2>5, SlotZero DEF ShiftBackup, Renamed, TypeOK
  <2> QED
    BY <1>3, <2>1, <2>2, <2>3, <2>4, <2>6
<1>6. ASSUME NEW w \in Writers, RollLive(w)
      PROVE  Gap' /\ LiveKept'
  <2>1. pc[w] \in Critical /\ \A v \in Writers : v # w => pc'[v] = pc[v]
    BY <1>0, <1>6 DEF RollLive, Goto, TypeOK, Critical, Rotating
  <2>2. pc'[w] = "append"
    BY <1>0, <1>6 DEF RollLive, Goto, TypeOK
  <2> QED
    BY <1>3, <2>1, <2>2 DEF Rotating
<1>7. ASSUME NEW w \in Writers, AppendRecord(w) \/ AppendFails(w) \/ AppendTorn(w)
      PROVE  Gap' /\ LiveKept'
  <2>1. pc[w] \in Critical /\ LeaveLock(w)
    BY <1>7 DEF AppendRecord, AppendFails, AppendTorn, Critical
  <2>2. pc'[w] = "idle" /\ \A v \in Writers : v # w => pc'[v] = pc[v]
    BY <1>0, <2>1 DEF LeaveLock, Goto, TypeOK
  <2> QED
    BY <1>3, <2>1, <2>2 DEF Rotating
<1>8. CASE Crash
  BY <1>8 DEF Crash, Gap, LiveKept, Rotating
<1>9. CASE UNCHANGED vars
  BY <1>9 DEF vars, Gap, LiveKept
<1> QED
  BY <1>1, <1>2, <1>4, <1>5, <1>6, <1>7, <1>8, <1>9 DEF Next, Locked, Quiet

LEMMA KeepInvInit == Init => KeepInv
<1> SUFFICES ASSUME Init PROVE KeepInv
  OBVIOUS
<1>1. \A i \in Slots : disk[i] = NoFile
  BY DEF Init
<1>2. Mutex /\ Gap /\ LiveKept
  BY DEF Init, Mutex, Gap, LiveKept, Critical, Rotating
<1>3. Filled
  BY <1>1 DEF Filled, NoFile
<1>4. Unbroken
  BY <1>1, InRetained DEF Unbroken, NoFile
<1> QED
  BY <1>2, <1>3, <1>4, OrderInvInit DEF KeepInv

LEMMA KeepInvStep == Tolerated /\ KeepInv /\ [Next]_vars => KeepInv'
<1> SUFFICES ASSUME Tolerated, KeepInv, [Next]_vars
             PROVE  KeepInv'
  OBVIOUS
<1>1. TypeInv /\ TypeOK /\ IdsKnown
  BY DEF KeepInv, OrderInv, TypeInv
<1>2. Retained \subseteq 1 .. written /\ written \in Nat
  BY <1>1, InRetained DEF IdsKnown, TypeOK
<1>3. Unbroken'
  BY <1>2, StepRefines, TrailStepUnbroken DEF KeepInv
<1> QED
  BY <1>1, <1>3, OrderInvStep, MutexStep, FilledStep, GapStep DEF KeepInv

LEMMA KeepInvAlways ==
  ASSUME Tolerated
  PROVE  Spec => []KeepInv
<1>1. KeepInv /\ [Next]_vars => KeepInv'
  BY KeepInvStep
<1> QED
  BY <1>1, KeepInvInit, PTL DEF Spec

\* When neither a backup rename fails nor a line is torn, no record is ever
\* lost behind an older one that survives, at whatever point the process dies.
THEOREM NothingLostFromTheMiddle ==
  ASSUME Tolerated
  PROVE  Spec => []Unbroken
<1>1. KeepInv => Unbroken
  BY DEF KeepInv
<1> QED
  BY <1>1, KeepInvAlways, PTL

\* Under the same condition the rotating files implement the append-only
\* trail that forgets from its old end alone.
THEOREM FilesImplementTrail ==
  ASSUME Tolerated
  PROVE  Spec => ImplementsTrail
<1>1. Init => Trail!TrailInit
  <2> SUFFICES ASSUME Init PROVE Trail!TrailInit
    OBVIOUS
  <2>1. \A n : n \notin Retained
    BY InRetained DEF Init, NoFile
  <2> QED
    BY <2>1 DEF Init, Trail!TrailInit
<1>2. KeepInv /\ [Next]_vars => [Trail!TrailNext]_(Trail!trailVars)
  BY StepRefines
<1> QED
  BY <1>1, <1>2, KeepInvAlways, PTL DEF Spec, ImplementsTrail, Trail!TrailSpec

\* Under the same condition a record leaves the files only with the oldest
\* backup: no rename lands on a file that still holds some.
THEOREM OnlyTheOldestIsForgotten ==
  ASSUME Tolerated
  PROVE  Spec => OnlyOldestForgotten
<1>1. ASSUME KeepInv, [Next]_vars
      PROVE  Retained \ Retained' \subseteq disk[BackupCount].ids
  <2> USE AuditAssumption
  <2>0. TypeOK /\ ShiftInv /\ Filled /\ Gap
    BY <1>1 DEF KeepInv, OrderInv, TypeInv
  <2>1. ASSUME \A i \in Slots \ {BackupCount} : \A n \in disk[i].ids : \E j \in Slots : n \in disk'[j].ids
        PROVE  Retained \ Retained' \subseteq disk[BackupCount].ids
    BY <2>1, InRetained
  <2>2. ASSUME NEW k \in Slots, k + 1 \in Slots, disk' = Renamed(k, k + 1) \/ UNCHANGED disk,
               k + 1 # BackupCount => disk[k + 1].ids = {}
        PROVE  Retained \ Retained' \subseteq disk[BackupCount].ids
    <3>1. CASE UNCHANGED disk
      BY <2>1, <3>1
    <3>2. CASE disk' = Renamed(k, k + 1)
      <4>1. \A i \in Slots :
              disk'[i].ids = IF i = k THEN {} ELSE IF i = k + 1 THEN disk[k].ids ELSE disk[i].ids
        BY <2>0, <2>2, <3>2 DEF Renamed, NoFile, TypeOK, Slots
      <4>2. ASSUME NEW i \in Slots \ {BackupCount}, NEW n \in disk[i].ids
            PROVE  \E j \in Slots : n \in disk'[j].ids
        <5>1. CASE i = k
          BY <2>2, <4>1, <4>2, <5>1 DEF Slots
        <5>2. CASE i # k
          BY <2>2, <4>1, <4>2, <5>2
        <5> QED
          BY <5>1, <5>2
      <4> QED
        BY <2>1, <4>2
    <3> QED
      BY <2>2, <3>1, <3>2
  <2>3. ASSUME NEW w \in Writers, RemoveOldest(w)
        PROVE  Retained \ Retained' \subseteq disk[BackupCount].ids
    BY <2>0, <2>1, <2>3 DEF RemoveOldest, TypeOK
  <2>4. ASSUME NEW w \in Writers, ShiftBackup(w)
        PROVE  Retained \ Retained' \subseteq disk[BackupCount].ids
    <3>1. /\ shift[w] \in Slots /\ shift[w] + 1 \in Slots
          /\ shift[w] + 1 # BackupCount => disk[shift[w] + 1].ids = {}
          /\ disk' = Renamed(shift[w], shift[w] + 1) \/ UNCHANGED disk
      BY <2>0, <2>4 DEF ShiftBackup, ShiftInv, Gap, Slots
    <3> QED
      BY <2>2, <3>1
  <2>5. ASSUME NEW w \in Writers, RollLive(w)
        PROVE  Retained \ Retained' \subseteq disk[BackupCount].ids
    <3>1. /\ 0 \in Slots /\ 0 + 1 \in Slots
          /\ 0 + 1 # BackupCount => disk[0 + 1].ids = {}
          /\ disk' = Renamed(0, 0 + 1) \/ UNCHANGED disk
      BY <2>0, <2>5 DEF RollLive, ShiftInv, Gap, Rotating, Slots
    <3> QED
      BY <2>2, <3>1
  <2>6. ASSUME NEW w \in Writers, AppendRecord(w) \/ AppendFails(w)
        PROVE  Retained \ Retained' \subseteq disk[BackupCount].ids
    <3>1. \A i \in Slots : disk[i].ids \subseteq disk'[i].ids
      BY <2>0, <2>6, SlotZero
      DEF AppendRecord, Appended, AppendFails, TypeOK, Filled
    <3> QED
      BY <2>1, <3>1
  <2>7. ASSUME NEW w \in Writers, AppendTorn(w) PROVE FALSE
    BY <2>7 DEF AppendTorn, Tolerated
  <2>8. ASSUME UNCHANGED disk
        PROVE  Retained \ Retained' \subseteq disk[BackupCount].ids
    BY <2>1, <2>8
  <2> QED
    BY <1>1, <2>3, <2>4, <2>5, <2>6, <2>7, <2>8
    DEF Next, Locked, Quiet, Build, TakeLock, Crash, vars
<1> QED
  BY <1>1, KeepInvAlways, PTL DEF Spec, OnlyOldestForgotten

(***************************************************************************)
(* Disk use: a file outgrows the limit only as the home of one record      *)
(***************************************************************************)

\* The failures that let a file grow: a size that cannot be read, and a live
\* file that cannot be moved aside.
Measured == Faults \intersect {"stat", "roll"} = {}

\* A file without bytes holds no record.
Weighed == \A i \in Slots : disk[i].bytes = 0 => disk[i].ids = {}

\* The record at hand has a length, and what is about to be appended to holds
\* nothing or has room for it.
Room ==
  \A w \in Writers :
    /\ pc[w] # "idle" => size[w] > 0
    /\ pc[w] = "append" => disk[0].bytes = 0 \/ disk[0].bytes + size[w] <= MaxBytes

\* SizeBound is not inductive: the size test is made under the lock, up to
\* BackupCount + 2 steps before the append it is made for.
SizeInv == TypeInv /\ Mutex /\ Weighed /\ Room /\ SizeBound

LEMMA SizeInvStep ==
  ASSUME Measured, MaxBytes > 0, BackupCount > 0, SizeInv, [Next]_vars
  PROVE  SizeInv'
<1> USE AuditAssumption
<1>0. TypeOK /\ ShiftInv /\ Mutex /\ Weighed /\ Room /\ SizeBound /\ MaxBytes \in Nat
  BY DEF SizeInv, TypeInv
<1> DEFINE Light(f) == f.bytes <= MaxBytes \/ \A m, n \in f.ids : m = n
<1>1. ASSUME \A i \in Slots : \/ disk'[i] = NoFile \/ disk'[i] = EmptyFile
                              \/ \E j \in Slots : disk'[i] = disk[j]
      PROVE  Weighed' /\ SizeBound'
  BY <1>0, <1>1 DEF Weighed, SizeBound, NoFile, EmptyFile
<1>2. ASSUME NEW w \in Writers, pc[w] \in Critical, \A v \in Writers \ {w} : pc'[v] = pc[v] /\ size'[v] = size[v],
             pc'[w] # "idle" => size'[w] = size[w],
             pc'[w] = "append" => disk'[0].bytes = 0
      PROVE  Room'
  <2>1. \A v \in Writers \ {w} : pc'[v] \notin Critical
    BY <1>0, <1>2, OthersOutside
  <2>2. pc[w] # "idle"
    BY <1>2 DEF Critical, Rotating
  <2> QED
    BY <1>0, <1>2, <2>1, <2>2 DEF Room, Critical
<1>3. ASSUME NEW w \in Writers, Build(w)
      PROVE  Weighed' /\ Room' /\ SizeBound'
  <2>1. Weighed' /\ SizeBound'
    BY <1>0, <1>3 DEF Build, Weighed, SizeBound
  <2>2. pc'[w] = "ready" /\ size'[w] > 0 /\ UNCHANGED disk
    BY <1>0, <1>3 DEF Build, Goto, TypeOK
  <2>3. \A v \in Writers \ {w} : pc'[v] = pc[v] /\ size'[v] = size[v]
    BY <1>0, <1>3 DEF Build, Goto, TypeOK
  <2> QED
    BY <1>0, <2>1, <2>2, <2>3 DEF Room
<1>4. ASSUME NEW w \in Writers, TakeLock(w)
      PROVE  Weighed' /\ Room' /\ SizeBound'
  <2>1. Weighed' /\ SizeBound'
    BY <1>0, <1>4 DEF TakeLock, Weighed, SizeBound
  <2>2. /\ pc[w] = "ready" /\ UNCHANGED <<size, disk>>
        /\ pc'[w] = IF NeedsRotation(w) THEN "oldest" ELSE "append"
        /\ \A v \in Writers \ {w} : pc'[v] = pc[v]
    BY <1>0, <1>4 DEF TakeLock, Goto, TypeOK, Measured
  <2>3. size[w] \in Nat /\ disk[0].bytes \in Nat
    BY <1>0, SlotZero DEF TypeOK, File
  <2>4. ~NeedsRotation(w) => disk[0].bytes = 0 \/ disk[0].bytes + size[w] <= MaxBytes
    BY <1>0, <2>3 DEF NeedsRotation
  <2> QED
    BY <1>0, <2>1, <2>2, <2>4 DEF Room
<1>5. ASSUME NEW w \in Writers, RemoveOldest(w)
      PROVE  Weighed' /\ Room' /\ SizeBound'
  <2>1. Weighed' /\ SizeBound'
    BY <1>0, <1>1, <1>5 DEF RemoveOldest, TypeOK
  <2>2. /\ pc[w] \in Critical /\ pc'[w] # "append" /\ UNCHANGED size
        /\ \A v \in Writers \ {w} : pc'[v] = pc[v]
    BY <1>0, <1>5 DEF RemoveOldest, Goto, TypeOK, Critical, Rotating
  <2> QED
    BY <1>2, <2>1, <2>2
<1>6. ASSUME NEW w \in Writers, ShiftBackup(w)
      PROVE  Weighed' /\ Room' /\ SizeBound'
  <2>1. shift[w] \in Slots /\ shift[w] + 1 \in Slots
    BY <1>0, <1>6 DEF ShiftBackup, ShiftInv, Slots
  <2>2. Weighed' /\ SizeBound'
    BY <1>0, <1>1, <1>6, <2>1 DEF ShiftBackup, Renamed, TypeOK
  <2>3. /\ pc[w] \in Critical /\ pc'[w] # "append" /\ UNCHANGED size
        /\ \A v \in Writers \ {w} : pc'[v] = pc[v]
    BY <1>0, <1>6 DEF ShiftBackup, Goto, TypeOK, Critical, Rotating
  <2> QED
    BY <1>2, <2>2, <2>3
<1>7. ASSUME NEW w \in Writers, RollLive(w)
      PROVE  Weighed' /\ Room' /\ SizeBound'
  <2>1. disk' = Renamed(0, 1) /\ 0 \in Slots /\ 1 \in Slots
    BY <1>0, <1>7 DEF RollLive, ShiftInv, Rotating, Slots, Measured
  <2>2. Weighed' /\ SizeBound' /\ disk'[0].bytes = 0
    BY <1>0, <1>1, <2>1 DEF Renamed, TypeOK, NoFile
  <2>3. /\ pc[w] \in Critical /\ UNCHANGED size
        /\ \A v \in Writers \ {w} : pc'[v] = pc[v]
    BY <1>0, <1>7 DEF RollLive, Goto, TypeOK, Critical, Rotating
  <2> QED
    BY <1>2, <2>2, <2>3
<1>8. ASSUME NEW w \in Writers, AppendRecord(w) \/ AppendFails(w) \/ AppendTorn(w)
      PROVE  Weighed' /\ Room' /\ SizeBound'
  <2>1. pc[w] = "append" /\ LeaveLock(w)
    BY <1>8 DEF AppendRecord, AppendFails, AppendTorn
  <2>2. /\ pc[w] \in Critical /\ pc'[w] = "idle"
        /\ \A v \in Writers \ {w} : pc'[v] = pc[v] /\ size'[v] = size[v]
    BY <1>0, <2>1 DEF LeaveLock, Goto, TypeOK, Critical
  <2>3. Room'
    BY <1>2, <2>2
  <2>4. /\ size[w] \in Nat \ {0} /\ disk[0] \in File
        /\ disk[0].bytes = 0 => disk[0].ids = {}
        /\ disk[0].bytes = 0 \/ disk[0].bytes + size[w] <= MaxBytes
    BY <1>0, <2>1, SlotZero DEF Room, Weighed, TypeOK
  <2>5. ASSUME NEW f, f.bytes # 0, Light(f), disk' = [disk EXCEPT ![0] = f]
        PROVE  Weighed' /\ SizeBound'
    BY <1>0, <2>5, SlotZero DEF Weighed, SizeBound, TypeOK
  <2>6. CASE AppendRecord(w)
    <3> DEFINE f == Appended(disk[0], size[w], written + 1)
    <3>1. /\ f.bytes = disk[0].bytes + size[w] /\ f.bytes \in Nat \ {0}
          /\ f.ids \subseteq disk[0].ids \union {written + 1}
      BY <2>4 DEF Appended, File
    <3>2. Light(f)
      BY <2>4, <3>1
    <3> QED
      BY <2>3, <2>5, <2>6, <3>1, <3>2 DEF AppendRecord
  <2>7. CASE AppendFails(w)
    BY <1>0, <1>1, <2>3, <2>7 DEF AppendFails, TypeOK
  <2>8. CASE AppendTorn(w)
    <3>1. PICK part \in 1 .. (size[w] - 1) : disk' = [disk EXCEPT ![0] = CutShort(disk[0], part)]
      BY <2>8 DEF AppendTorn
    <3> DEFINE f == CutShort(disk[0], part)
    <3>2. f.bytes = disk[0].bytes + part /\ f.ids = disk[0].ids
      BY DEF CutShort
    <3>3. disk[0].bytes \in Nat /\ part \in Nat \ {0} /\ part < size[w]
      BY <2>4 DEF File
    <3>4. f.bytes # 0 /\ Light(f)
      BY <1>0, <2>4, <3>2, <3>3
    <3> QED
      BY <2>3, <2>5, <3>1, <3>4
  <2> QED
    BY <1>8, <2>6, <2>7, <2>8
<1>9. ASSUME Crash
      PROVE  Weighed' /\ Room' /\ SizeBound'
  <2>1. UNCHANGED disk /\ \A w \in Writers : pc'[w] = "idle"
    BY <1>9 DEF Crash
  <2>2. Room'
    BY <2>1 DEF Room
  <2> QED
    BY <1>1, <2>1, <2>2
<1>10. ASSUME UNCHANGED vars
       PROVE  Weighed' /\ Room' /\ SizeBound'
  <2>1. Room'
    BY <1>0, <1>10 DEF vars, Room
  <2>2. UNCHANGED disk
    BY <1>10 DEF vars
  <2> QED
    BY <1>1, <2>1, <2>2
<1>11. Weighed' /\ Room' /\ SizeBound'
  BY <1>3, <1>4, <1>5, <1>6, <1>7, <1>8, <1>9, <1>10 DEF Next, Locked, Quiet
<1> QED
  BY <1>0, <1>11, TypeInvStep, MutexStep DEF SizeInv

LEMMA SizeInvInit == Init => SizeInv
<1> SUFFICES ASSUME Init PROVE Mutex /\ Weighed /\ Room /\ SizeBound
  BY TypeInvInit DEF SizeInv
<1>1. Mutex /\ Room
  BY DEF Init, Mutex, Room, Critical, Rotating
<1>2. Weighed /\ SizeBound
  BY DEF Init, Weighed, SizeBound, NoFile
<1> QED
  BY <1>1, <1>2

\* When the live file can be measured and moved aside, no file outgrows
\* audit_log_max_bytes but to hold a single record, even if backups cannot be
\* shifted, lines are torn or the process dies between the test and the append.
THEOREM FilesStayBounded ==
  ASSUME Measured
  PROVE  Spec => []SizeBound
<1>1. CASE MaxBytes > 0 /\ BackupCount > 0
  <2>1. SizeInv /\ [Next]_vars => SizeInv'
    BY <1>1, SizeInvStep
  <2>2. SizeInv => SizeBound
    BY DEF SizeInv
  <2> QED
    BY <2>1, <2>2, SizeInvInit, PTL DEF Spec
<1>2. CASE ~(MaxBytes > 0 /\ BackupCount > 0)
  <2>1. SizeBound
    BY <1>2 DEF SizeBound
  <2>2. [Next]_vars => SizeBound'
    BY <1>2 DEF SizeBound
  <2> QED
    BY <2>1, <2>2, PTL DEF Spec
<1> QED
  BY <1>1, <1>2

(***************************************************************************)
(* The promise, and the lock                                               *)
(***************************************************************************)

\* What AuditTrail promises is enough for a reader: whatever implements it has
\* no gap, and never forgets the latest record.
THEOREM TrailIsEnough ==
  ImplementsTrail => [](Unbroken /\ (written # 0 => written \in Retained))
<1> DEFINE Latest == written # 0 => written \in Retained
           TrailInv == written \in Nat /\ Retained \subseteq 1 .. written /\ Unbroken /\ Latest
<1>1. Trail!TrailInit => TrailInv
  BY DEF Trail!TrailInit, Unbroken
<1>2. TrailInv /\ [Trail!TrailNext]_(Trail!trailVars) => TrailInv'
  <2> SUFFICES ASSUME TrailInv, [Trail!TrailNext]_(Trail!trailVars) PROVE TrailInv'
    OBVIOUS
  <2>1. Unbroken'
    BY TrailStepUnbroken
  <2>2. CASE Trail!Record
    BY <2>1, <2>2 DEF Trail!Record
  <2>3. CASE Trail!Forget
    <3> PICK still \in SUBSET Retained :
          still # {} /\ (\A n \in still, m \in Retained \ still : m < n) /\ Retained' = still
      BY <2>3 DEF Trail!Forget
    <3>1. written' = written
      BY <2>3 DEF Trail!Forget
    <3>2. written # 0 => written \in still
      <4> SUFFICES ASSUME written # 0, written \notin still PROVE FALSE
        OBVIOUS
      <4>1. PICK n \in still : written < n
        OBVIOUS
      <4>2. n \in 1 .. written /\ written \in Nat
        OBVIOUS
      <4> QED
        BY <4>1, <4>2
    <3> QED
      BY <2>1, <3>1, <3>2
  <2>4. CASE UNCHANGED Trail!trailVars
    <3>1. written' = written /\ Retained' = Retained
      BY <2>4 DEF Trail!trailVars
    <3> QED
      BY <2>1, <3>1
  <2> QED
    BY <2>2, <2>3, <2>4 DEF Trail!TrailNext
<1>3. TrailInv => Unbroken /\ (written # 0 => written \in Retained)
  OBVIOUS
<1> QED
  BY <1>1, <1>2, <1>3, PTL DEF ImplementsTrail, Trail!TrailSpec

\* System calls a writer inside the lock has before it.
LockSteps(w) ==
  CASE pc[w] = "oldest" -> BackupCount + 2
    [] pc[w] = "shift"  -> shift[w] + 2
    [] pc[w] = "roll"   -> 2
    [] pc[w] = "append" -> 1
    [] OTHER            -> 0

\* Nobody outside the critical steps holds the lock.
LockInv == TypeInv /\ Mutex /\ \A w \in holder : pc[w] \in Critical

LEMMA LockInvInit == Init => LockInv
<1> SUFFICES ASSUME Init PROVE LockInv
  OBVIOUS
<1>1. Mutex /\ \A w \in holder : pc[w] \in Critical
  BY DEF Init, Mutex, Critical, Rotating
<1> QED
  BY <1>1, TypeInvInit DEF LockInv

\* What each step does to the lock and to whoever holds it.
HolderGoesOn ==
  \A w \in holder :
    \/ holder' = {}
    \/ holder' = {w} /\ LockSteps(w)' \in 1 .. LockSteps(w) - 1
    \/ UNCHANGED <<holder, disk, written>> /\ LockSteps(w)' = LockSteps(w)

LEMMA LockStep ==
  ASSUME LockInv, [Next]_vars
  PROVE  HolderGoesOn /\ \A w \in holder' : pc'[w] \in Critical
<1> USE AuditAssumption
<1> DEFINE Goal == HolderGoesOn /\ \A w \in holder' : pc'[w] \in Critical
<1>0. TypeOK /\ ShiftInv /\ Mutex /\ \A w \in holder : holder = {w} /\ w \in Writers
  BY DEF LockInv, TypeInv, Mutex, TypeOK
<1>1. ASSUME NEW w \in Writers, Build(w) PROVE Goal
  <2>1. w \notin holder
    BY <1>1 DEF Build, LockInv, Critical, Rotating
  <2>2. UNCHANGED <<holder, disk, written, shift>> /\ \A v \in Writers \ {w} : pc'[v] = pc[v]
    BY <1>0, <1>1 DEF Build, Goto, TypeOK
  <2>3. \A v \in holder : pc'[v] = pc[v] /\ shift'[v] = shift[v]
    BY <1>0, <2>1, <2>2
  <2> QED
    BY <2>2, <2>3 DEF HolderGoesOn, LockSteps, LockInv
<1>2. ASSUME NEW w \in Writers, TakeLock(w) PROVE Goal
  <2>1. holder = {} /\ holder' = {w}
    BY <1>2 DEF TakeLock
  <2>2. pc'[w] \in Critical
    BY <1>0, <1>2 DEF TakeLock, Goto, TypeOK, Critical, Rotating
  <2> QED
    BY <2>1, <2>2 DEF HolderGoesOn
<1>3. ASSUME NEW w \in Writers, RemoveOldest(w) \/ ShiftBackup(w) \/ RollLive(w) PROVE Goal
  <2>1. holder = {w} /\ holder' = holder
    BY <1>0, <1>3 DEF RemoveOldest, ShiftBackup, RollLive, Mutex, Critical, Rotating
  <2>2. CASE RemoveOldest(w)
    <3>1. /\ pc[w] = "oldest" /\ shift'[w] = BackupCount - 1 /\ BackupCount \in Nat \ {0}
          /\ pc'[w] = IF BackupCount > 1 THEN "shift" ELSE "roll"
      BY <1>0, <2>2 DEF RemoveOldest, Goto, TypeOK, ShiftInv, Rotating
    <3>2. LockSteps(w) = BackupCount + 2 /\ LockSteps(w)' \in 1 .. BackupCount + 1 /\ pc'[w] \in Critical
      BY <3>1 DEF LockSteps, Critical, Rotating
    <3> QED
      BY <2>1, <3>1, <3>2 DEF HolderGoesOn
  <2>3. CASE ShiftBackup(w)
    <3>1. /\ pc[w] = "shift" /\ shift'[w] = shift[w] - 1 /\ shift[w] \in Nat \ {0}
          /\ pc'[w] = IF shift[w] > 1 THEN "shift" ELSE "roll"
      BY <1>0, <2>3 DEF ShiftBackup, Goto, TypeOK, ShiftInv
    <3>2. LockSteps(w) = shift[w] + 2 /\ LockSteps(w)' \in 1 .. shift[w] + 1 /\ pc'[w] \in Critical
      BY <3>1 DEF LockSteps, Critical, Rotating
    <3> QED
      BY <2>1, <3>1, <3>2 DEF HolderGoesOn
  <2>4. CASE RollLive(w)
    <3>1. pc[w] = "roll" /\ pc'[w] = "append"
      BY <1>0, <2>4 DEF RollLive, Goto, TypeOK
    <3>2. LockSteps(w) = 2 /\ LockSteps(w)' = 1 /\ pc'[w] \in Critical
      BY <3>1 DEF LockSteps, Critical
    <3> QED
      BY <2>1, <3>2 DEF HolderGoesOn
  <2> QED
    BY <1>3, <2>2, <2>3, <2>4
<1>4. ASSUME NEW w \in Writers, AppendRecord(w) \/ AppendFails(w) \/ AppendTorn(w) PROVE Goal
  BY <1>4 DEF AppendRecord, AppendFails, AppendTorn, LeaveLock, HolderGoesOn
<1>5. CASE Crash
  BY <1>5 DEF Crash, HolderGoesOn
<1>6. CASE UNCHANGED vars
  BY <1>6 DEF vars, HolderGoesOn, LockSteps, LockInv
<1> QED
  BY <1>1, <1>2, <1>3, <1>4, <1>5, <1>6 DEF Next, Locked, Quiet

\* While a writer holds the lock a step either frees it, or is the holder's and
\* leaves it fewer system calls to make, or is another thread's and touches
\* neither the files nor the holder; BackupCount + 2 of its own steps, and it is
\* out.  With the fairness of the holder that is what LockFreed needs.
THEOREM HolderComesOut ==
  Spec => /\ [][HolderGoesOn]_vars
          /\ [](\A w \in holder : LockSteps(w) \in 1 .. BackupCount + 2)
<1>1. LockInv /\ [Next]_vars => LockInv'
  BY LockStep, TypeInvStep, MutexStep DEF LockInv, TypeInv
<1>2. LockInv /\ [Next]_vars => HolderGoesOn
  BY LockStep
<1>3. LockInv => \A w \in holder : LockSteps(w) \in 1 .. BackupCount + 2
  <2> SUFFICES ASSUME LockInv, NEW w \in holder PROVE LockSteps(w) \in 1 .. BackupCount + 2
    OBVIOUS
  <2>1. pc[w] \in Critical /\ shift[w] \in 0 .. BackupCount /\ BackupCount \in Nat
    BY AuditAssumption DEF LockInv, TypeInv, TypeOK
  <2> QED
    BY <2>1 DEF LockSteps, Critical, Rotating
<1> QED
  BY <1>1, <1>2, <1>3, LockInvInit, PTL DEF Spec
=============================================================================
