----------------------------- MODULE ReverseLines -----------------------------
(***************************************************************************)
(* _reverse_lines of tools/audit_query.py: a file is read from its end in  *)
(* blocks, and its lines are given last first.  A block may begin in the   *)
(* middle of a line, which is then held back for the block before it.      *)
(* AuditQuery takes the result for granted (NewestFirst).                  *)
(***************************************************************************)
EXTENDS Naturals, Sequences, SequencesExt

CONSTANT MaxFile  \* bound: bytes of a file

ASSUME ReverseLinesAssumption == MaxFile \in Nat

Newline == "newline"
Bytes == {Newline, "x", "y"}
Files == UNION {[1 .. n -> Bytes] : n \in 0 .. MaxFile}

\* A newline begins a line in front of those behind it, any other byte is the
\* first of the line behind it.
InFront(byte, lines) ==
  IF byte = Newline THEN << <<>> >> \o lines
  ELSE << <<byte>> \o Head(lines) >> \o Tail(lines)

\* bytes.split: one more line than there are newlines.
Lines(bytes) ==
  LET last[k \in 0 .. Len(bytes)] ==  \* the lines of the last k bytes
        IF k = 0 THEN << <<>> >> ELSE InFront(bytes[Len(bytes) - k + 1], last[k - 1])
  IN  last[Len(bytes)]

\* Where block k from the end starts: the first block of the file may be short.
Start(file, size, k) == IF k * size < Len(file) THEN Len(file) - k * size ELSE 0

\* Mutant: every line of a block is given at once.
NothingHeld(block, before) ==
  [tail |-> <<>>, lines |-> before.lines \o Reverse(Lines(block))]

\* The first element may continue into the block before, so it is held back.
Step(block, before) ==
  LET lines == Lines(block \o before.tail)
  IN  [tail |-> Head(lines), lines |-> before.lines \o Reverse(Tail(lines))]

_reverse_lines(file, size) ==
  LET blocks == (Len(file) + size - 1) \div size
      read[k \in 0 .. blocks] ==
        IF k = 0 THEN [tail |-> <<>>, lines |-> <<>>]
        ELSE Step(SubSeq(file, Start(file, size, k) + 1, Start(file, size, k - 1)), read[k - 1])
      end == read[blocks]
  IN  IF end.tail = <<>> THEN end.lines ELSE Append(end.lines, end.tail)

\* The files and block sizes for which the lines are not those of the whole
\* file, last first and without an empty first one.
Misread ==
  {read \in Files \X (1 .. MaxFile + 1) :
     LET whole == Reverse(Lines(read[1]))
     IN  _reverse_lines(read[1], read[2])
           # IF whole[Len(whole)] = <<>> THEN Front(whole) ELSE whole}
===============================================================================
