----------------------------- MODULE AuditQuery -----------------------------
(***************************************************************************)
(* audit_log_query of tools/audit_query.py running beside the writers of   *)
(* AuditLog.  The query takes no lock.  It walks the live file and then    *)
(* the backups by name, testing each for existence and then opening it,    *)
(* while a writer may be renaming the very same files one slot up.  Once a *)
(* file is open a rename no longer matters and the file only grows, so the *)
(* read of one file is one step.                                           *)
(***************************************************************************)
EXTENDS AuditLog, ReverseLines

CONSTANT Limits   \* values callers give "limit"

ASSUME QueryAssumption == Limits \subseteq Nat

VARIABLES
  query,     \* the query in progress or last finished
  kept,      \* history: records readable ever since the query began
  moved,     \* history: a record left some file since the query began
  unwritten, \* history: the last append to end left no live file behind it
  gap        \* history: the query began between a roll and the next live file

queryVars == <<query, kept, moved, unwritten, gap>>
allVars == <<vars, queryVars>>

NoQuery == [at |-> "idle", source |-> 0, limit |-> 0, answer |-> <<>>]

QueryInit ==
  /\ Init
  /\ query = NoQuery
  /\ kept = {}
  /\ moved = FALSE
  /\ unwritten = FALSE
  /\ gap = FALSE

\* The live file is gone: a writer has rolled it away and is about to append, or
\* that append failed or died and no later one has made the file again.
BetweenFiles == ~disk[0].exists /\ (unwritten \/ \E w \in Writers : pc[w] = "append")

\* _reverse_lines: the records of a file, the last appended first.
NewestFirst(ids) ==
  [k \in 1 .. Cardinality(ids) |-> CHOOSE n \in ids : Cardinality({m \in ids : n < m}) = k - 1]

\* The records of a file in file order.
OldestFirst(ids) == SetToSortSeq(ids, LAMBDA m, n : m < n)

\* Mutant: a file is read in file order.
ExtendedInFileOrder(answer, ids, limit) ==
  LET all == answer \o OldestFirst(ids)
  IN  IF Len(all) > limit THEN SubSeq(all, 1, limit) ELSE all

\* Mutant: the limit is tested between files only.
ExtendedUncut(answer, ids, limit) == answer \o NewestFirst(ids)

\* The inner loop of the query: it stops in mid-file once limit is reached.
Extended(answer, ids, limit) ==
  LET all == answer \o NewestFirst(ids)
  IN  IF Len(all) > limit THEN SubSeq(all, 1, limit) ELSE all

\* The query begins.  Without a live file it answers at once that there is
\* nothing, before it has looked at any backup.
Ask ==
  /\ query.at = "idle"
  /\ \E l \in Limits :
       query' = [NoQuery EXCEPT !.at = IF disk[0].exists THEN "scan" ELSE "none", !.limit = l]
  /\ kept' = Retained
  /\ moved' = FALSE
  /\ gap' = BetweenFiles
  /\ UNCHANGED <<vars, unwritten>>

\* Mutant: a missing source ends the walk instead of being stepped over.
NextSourceStops ==
  /\ query.at = "scan"
  /\ query' =
       IF Len(query.answer) >= query.limit \/ query.source > BackupCount
         THEN [query EXCEPT !.at = "answer"]
       ELSE IF disk[query.source].exists THEN [query EXCEPT !.at = "open"]
       ELSE [query EXCEPT !.at = "answer"]
  /\ UNCHANGED <<vars, kept, moved, unwritten, gap>>

\* The head of the loop over the sources: enough found, or none left, or the
\* next source is missing, or it is there and will be opened.
NextSource ==
  /\ query.at = "scan"
  /\ query' =
       IF Len(query.answer) >= query.limit \/ query.source > BackupCount
         THEN [query EXCEPT !.at = "answer"]
       ELSE IF disk[query.source].exists THEN [query EXCEPT !.at = "open"]
       ELSE [query EXCEPT !.source = @ + 1]
  /\ UNCHANGED <<vars, kept, moved, unwritten, gap>>

\* The source is opened and read.  If it went away since the test, the live
\* file fails the query and a backup is skipped with a warning.
ReadSource ==
  /\ query.at = "open"
  /\ LET f == disk[query.source] IN
       query' =
         IF f.exists
           THEN [query EXCEPT !.at = "scan", !.source = @ + 1,
                              !.answer = Extended(@, f.ids, query.limit)]
         ELSE IF query.source = 0 THEN [query EXCEPT !.at = "error"]
         ELSE [query EXCEPT !.at = "scan", !.source = @ + 1]
  /\ UNCHANGED <<vars, kept, moved, unwritten, gap>>

\* A writer takes a step; the history notes what it does to the records.
WriterStep ==
  /\ \E w \in Writers : Build(w) \/ TakeLock(w) \/ Locked(w)
  /\ kept' = kept \intersect Retained'
  /\ moved' = (moved \/ \E i \in Slots : ~ (disk[i].ids \subseteq disk'[i].ids))
  /\ unwritten' =
       (/\ ~disk'[0].exists
        /\ unwritten \/ \E w \in Writers : (pc[w] = "append" /\ pc'[w] = "idle"))
  /\ UNCHANGED <<query, gap>>

\* A crash takes the query with it.
CrashAll ==
  /\ Crash
  /\ query' = NoQuery
  /\ kept' = {}
  /\ moved' = FALSE
  /\ unwritten' = BetweenFiles
  /\ gap' = FALSE

\* The caller has its answer.
Answered == query.at \in {"answer", "none", "error"}

Rest ==
  /\ InFlight = {}
  /\ Answered
  /\ UNCHANGED allVars

QueryNext == Ask \/ NextSource \/ ReadSource \/ WriterStep \/ CrashAll \/ Rest

QuerySpec == QueryInit /\ [][QueryNext]_allVars

\* The writers are scheduled as in AuditLog.
FairQuerySpec ==
  /\ QuerySpec
  /\ \A w \in Writers : WF_allVars(WriterStep /\ Locked(w))
  /\ WF_allVars(WriterStep /\ \E w \in Writers : TakeLock(w))

(***************************************************************************)
(* Properties                                                              *)
(***************************************************************************)

QueryType ==
  /\ query \in [at: {"idle", "scan", "open", "answer", "none", "error"},
                source: 0 .. BackupCount + 1, limit: Limits \union {0}, answer: Seq(Nat)]
  /\ Len(query.answer) <= query.limit
  /\ kept \subseteq Retained
  /\ moved \in BOOLEAN
  /\ gap \in BOOLEAN

QueryTypeOK == TypeOK /\ QueryType

Descending(s) == \A i, j \in DOMAIN s : i < j => s[j] < s[i]

\* The answers the two properties below speak of: every one but an error and
\* the empty answer of a query that began between a roll and the next live
\* file.  That one hides every backup, although the code says of its walk over
\* them that rotation must not silently shrink the window: a file that is
\* missing for that long is the one case in which it does.
Counts == query.at = "answer" \/ (query.at = "none" /\ ~gap)

\* Rotation moves files in the direction the query walks, so a query that
\* races it may meet a file twice but cannot step past one: every record that
\* could be read during the whole query is in an answer with room for it.  The
\* early answer that there is nothing is one of those: outside the gap of a
\* rotation a missing live file means that there really is no record.
NeverSkips ==
  Counts /\ Len(query.answer) < query.limit => kept \subseteq ToSet(query.answer)

\* A query during which nothing was rotated gives the newest records, newest
\* first, and leaves out only older ones, even beside concurrent appends; one
\* that finds no live file and is outside the gap leaves out none.
QuietQueryExact ==
  Counts /\ ~moved =>
    /\ Descending(query.answer)
    /\ \A n \in kept \ ToSet(query.answer) :
         /\ Len(query.answer) = query.limit
         /\ \A i \in DOMAIN query.answer : n < query.answer[i]

\* Whatever the size of a block is, wherever a line meets its boundary and
\* however long it is, reading a file by blocks loses, splits and reorders no
\* line.  No state matters to this: the antecedent has TLC evaluate it once.
ReverseLinesExact == QueryInit => Misread = {}

\* What the docstring says of every answer: "newest first".
AnswersNewestFirst == query.at = "answer" => Descending(query.answer)
=============================================================================
