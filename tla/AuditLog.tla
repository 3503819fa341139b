------------------------------ MODULE AuditLog ------------------------------
(***************************************************************************)
(* write_audit_entry and _rotate_if_needed of audit.py, system call by     *)
(* system call.  Tool calls run on a thread pool; each thread that         *)
(* finishes a call is a writer.  The module-level _write_lock serialises   *)
(* check, rotation and append; every rename or remove is a step of its own *)
(* because it can fail (and be tolerated) or be the last thing the process *)
(* does before it dies.                                                    *)
(*                                                                         *)
(* A record is its number, given when its append is acknowledged.  A file  *)
(* is the set of numbers it holds as readable lines, its length in bytes,  *)
(* and whether it ends in a line cut short.                                *)
(***************************************************************************)
EXTENDS Integers

CONSTANTS
  Writers,       \* threads that finish tool calls
  MaxBytes,      \* config.audit_log_max_bytes
  BackupCount,   \* config.audit_log_backup_count
  Sizes,         \* encoded lengths a record can have
  Faults,        \* which system calls may fail, and whether the process may die
  MaxRecords     \* bound: records acknowledged or in flight

FaultKinds == {"stat", "oldest", "shift", "roll", "append", "torn", "crash"}

ASSUME AuditAssumption ==
  /\ MaxBytes \in Int
  /\ BackupCount \in Nat
  /\ Sizes \subseteq Nat \ {0}
  /\ Faults \subseteq FaultKinds
  /\ MaxRecords \in Nat

VARIABLES
  pc,        \* where each writer is
  size,      \* length of the record a writer has built, 0 when it has none
  shift,     \* the loop variable i of _rotate_if_needed
  holder,    \* {} or the one writer inside _write_lock
  disk,      \* disk[0] is the live file, disk[i] is <path>.i
  written    \* number of acknowledged records

vars == <<pc, size, shift, holder, disk, written>>

Slots == 0 .. BackupCount

\* Bound: torn lines are tried only on a live file shorter than this.
TornLimit == 2 * MaxBytes

File == [exists: BOOLEAN, ids: SUBSET Nat, bytes: Nat, torn: BOOLEAN]
NoFile == [exists |-> FALSE, ids |-> {}, bytes |-> 0, torn |-> FALSE]
EmptyFile == [NoFile EXCEPT !.exists = TRUE]

Rotating == {"oldest", "shift", "roll"}
Critical == Rotating \union {"append"}

Init ==
  /\ pc = [w \in Writers |-> "idle"]
  /\ size = [w \in Writers |-> 0]
  /\ shift = [w \in Writers |-> 0]
  /\ holder = {}
  /\ disk = [i \in Slots |-> NoFile]
  /\ written = 0

(***************************************************************************)
(* Helpers                                                                 *)
(***************************************************************************)

Goto(w, label) == pc' = [pc EXCEPT ![w] = label]

\* os.replace(src, dst): whatever dst was is gone.
Renamed(src, dst) == [disk EXCEPT ![dst] = disk[src], ![src] = NoFile]

\* Mutant: the incoming record is left out of the size test.
NeedsRotationLate(w) ==
  /\ MaxBytes > 0
  /\ BackupCount > 0
  /\ disk[0].bytes > MaxBytes

\* The size test of _rotate_if_needed.  A missing live file has no bytes.
NeedsRotation(w) ==
  /\ MaxBytes > 0
  /\ BackupCount > 0
  /\ disk[0].bytes # 0
  /\ disk[0].bytes + size[w] > MaxBytes

\* A line written behind a torn one joins it and neither can be parsed.
Appended(f, s, n) ==
  [exists |-> TRUE,
   ids    |-> IF f.torn THEN f.ids ELSE f.ids \union {n},
   bytes  |-> f.bytes + s,
   torn   |-> FALSE]

\* Only part of a line reached the file.
CutShort(f, part) ==
  [exists |-> TRUE, ids |-> f.ids, bytes |-> f.bytes + part, torn |-> TRUE]

\* Leaving the with-block releases the lock whatever happened inside it.
LeaveLock(w) ==
  /\ Goto(w, "idle")
  /\ holder' = {}
  /\ size' = [size EXCEPT ![w] = 0]
  /\ shift' = [shift EXCEPT ![w] = 0]

InFlight == {w \in Writers : pc[w] # "idle"}

(***************************************************************************)
(* write_audit_entry                                                       *)
(***************************************************************************)

\* The record is built, scrubbed and signed before the lock is asked for.
Build(w) ==
  /\ pc[w] = "idle"
  /\ written < MaxRecords
  /\ \E s \in Sizes : size' = [size EXCEPT ![w] = s]
  /\ Goto(w, "ready")
  /\ UNCHANGED <<shift, holder, disk, written>>

\* Mutant: check and rotation run without the lock.
TakeLockUnguarded(w) ==
  /\ pc[w] = "ready"
  /\ holder' = {w}
  /\ Goto(w, IF NeedsRotation(w) THEN "oldest" ELSE "append")
  /\ UNCHANGED <<size, shift, disk, written>>

\* Enter the lock and decide on rotation.  A getsize that fails counts as "no
\* file yet" and skips the rotation.
TakeLock(w) ==
  /\ pc[w] = "ready"
  /\ holder = {}
  /\ holder' = {w}
  /\ \/ Goto(w, IF NeedsRotation(w) THEN "oldest" ELSE "append")
     \/ "stat" \in Faults /\ Goto(w, "append")
  /\ UNCHANGED <<size, shift, disk, written>>

\* Mutant: the loop starts one backup too low.
RemoveOldestShort(w) ==
  /\ pc[w] = "oldest"
  /\ disk' = [disk EXCEPT ![BackupCount] = NoFile]
  /\ shift' = [shift EXCEPT ![w] = BackupCount - 2]
  /\ Goto(w, IF BackupCount > 2 THEN "shift" ELSE "roll")
  /\ UNCHANGED <<size, holder, written>>

\* os.remove(oldest).  The loop that follows counts down from BackupCount - 1.
RemoveOldest(w) ==
  /\ pc[w] = "oldest"
  /\ \/ disk' = [disk EXCEPT ![BackupCount] = NoFile]
     \/ "oldest" \in Faults /\ UNCHANGED disk
  /\ shift' = [shift EXCEPT ![w] = BackupCount - 1]
  /\ Goto(w, IF BackupCount > 1 THEN "shift" ELSE "roll")
  /\ UNCHANGED <<size, holder, written>>

\* One pass of the loop: <path>.i becomes <path>.(i+1) when it exists.
ShiftBackup(w) ==
  /\ pc[w] = "shift"
  /\ LET i == shift[w] IN
       /\ \/ disk[i].exists /\ disk' = Renamed(i, i + 1)
          \/ (~disk[i].exists \/ "shift" \in Faults) /\ UNCHANGED disk
       /\ shift' = [shift EXCEPT ![w] = i - 1]
       /\ Goto(w, IF i > 1 THEN "shift" ELSE "roll")
  /\ UNCHANGED <<size, holder, written>>

\* Mutant: the live file is copied aside and left in place.
RollLiveByCopy(w) ==
  /\ pc[w] = "roll"
  /\ disk' = [disk EXCEPT ![1] = disk[0]]
  /\ Goto(w, "append")
  /\ UNCHANGED <<size, shift, holder, written>>

\* Mutant: the live file is truncated when it cannot be moved aside.
RollLiveOrTruncate(w) ==
  /\ pc[w] = "roll"
  /\ disk' = Renamed(0, 1) \/ disk' = [disk EXCEPT ![0] = EmptyFile]
  /\ Goto(w, "append")
  /\ UNCHANGED <<size, shift, holder, written>>

\* os.replace(live, <path>.1).  On failure the write goes on unrotated.
RollLive(w) ==
  /\ pc[w] = "roll"
  /\ \/ disk' = Renamed(0, 1)
     \/ "roll" \in Faults /\ UNCHANGED disk
  /\ Goto(w, "append")
  /\ UNCHANGED <<size, shift, holder, written>>

\* open(path, "a") and the write: the record is acknowledged.
AppendRecord(w) ==
  /\ pc[w] = "append"
  /\ written' = written + 1
  /\ disk' = [disk EXCEPT ![0] = Appended(disk[0], size[w], written + 1)]
  /\ LeaveLock(w)

\* Mutant: the failed write returns without leaving the lock.
AppendFailsHolding(w) ==
  /\ pc[w] = "append"
  /\ "append" \in Faults
  /\ Goto(w, "idle")
  /\ UNCHANGED <<size, shift, holder, disk, written>>

\* The open or the write raises OSError, which is logged and swallowed: the
\* open may already have created the file.
AppendFails(w) ==
  /\ pc[w] = "append"
  /\ "append" \in Faults
  /\ \/ UNCHANGED disk
     \/ ~disk[0].exists /\ disk' = [disk EXCEPT ![0] = EmptyFile]
  /\ LeaveLock(w)
  /\ UNCHANGED written

\* The device fills part-way through the line: some of its bytes stay behind
\* without the newline.
AppendTorn(w) ==
  /\ pc[w] = "append"
  /\ "torn" \in Faults
  /\ disk[0].bytes < TornLimit
  /\ \E part \in 1 .. (size[w] - 1) : disk' = [disk EXCEPT ![0] = CutShort(disk[0], part)]
  /\ LeaveLock(w)
  /\ UNCHANGED written

\* The process dies between two system calls and is started again by PM2: the
\* threads and the lock are gone, the files are as they were.
Crash ==
  /\ "crash" \in Faults
  /\ InFlight # {}
  /\ pc' = [w \in Writers |-> "idle"]
  /\ size' = [w \in Writers |-> 0]
  /\ shift' = [w \in Writers |-> 0]
  /\ holder' = {}
  /\ UNCHANGED <<disk, written>>

Locked(w) ==
  \/ RemoveOldest(w)
  \/ ShiftBackup(w)
  \/ RollLive(w)
  \/ AppendRecord(w)
  \/ AppendFails(w)
  \/ AppendTorn(w)

\* No call is being finished and none has to come: the server may stay idle.
Quiet ==
  /\ InFlight = {}
  /\ UNCHANGED vars

Next ==
  \/ \E w \in Writers : Build(w) \/ TakeLock(w) \/ Locked(w)
  \/ Crash
  \/ Quiet

Spec == Init /\ [][Next]_vars

\* A thread that holds the lock is running Python code with no wait in it, so
\* it is scheduled to the end of the block.  Which waiting thread gets a free
\* threading.Lock is up to the system: some one of them does.
FairSpec ==
  /\ Spec
  /\ \A w \in Writers : WF_vars(Locked(w))
  /\ WF_vars(\E w \in Writers : TakeLock(w))

(***************************************************************************)
(* Properties                                                              *)
(***************************************************************************)

TypeOK ==
  /\ pc \in [Writers -> {"idle", "ready"} \union Critical]
  /\ size \in [Writers -> Nat]
  /\ shift \in [Writers -> 0 .. BackupCount]
  /\ holder \in SUBSET Writers
  /\ disk \in [Slots -> File]
  /\ written \in Nat

\* The numbers of the records a reader of all the files can still find.
Retained == UNION {disk[i].ids : i \in Slots}

\* Whatever step fails or wherever the process dies, ".1 is newest" stays
\* true: every record in a file is newer than every record in a file with a
\* higher number, so no record is in two files and audit_log_query's walk
\* from the live file to the last backup is newest first.
Ordered ==
  \A i, j \in Slots : i < j =>
    \A newer \in disk[i].ids, older \in disk[j].ids : older < newer

\* No acknowledged record is lost from the middle: when a record can be read,
\* so can every later one ("entries are never truncated or rewritten").
Unbroken ==
  \A n \in Retained : \A m \in n .. written : m \in Retained

\* With rotation on, a file outgrows audit_log_max_bytes only as the home of
\* one oversized record, so the trail's disk use is bounded.
SizeBound ==
  MaxBytes > 0 /\ BackupCount > 0 =>
    \A i \in Slots :
      disk[i].bytes <= MaxBytes \/ \A m, n \in disk[i].ids : m = n

\* Records leave the trail only with the oldest backup; a rename never lands
\* on a file that still holds some.
OnlyOldestForgotten ==
  [][Retained \ Retained' \subseteq disk[BackupCount].ids]_vars

\* A write ends by leaving the lock, whichever of its steps failed.
LockFreed == \A w \in Writers : w \in holder ~> w \notin holder

\* The files implement the trail of AuditTrail.
Trail == INSTANCE AuditTrail WITH count <- written, retained <- Retained

ImplementsTrail == Trail!TrailSpec
=============================================================================
