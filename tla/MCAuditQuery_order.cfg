\* A query races a rotation in which nothing fails.
CONSTANTS
  w1 = w1
  w2 = w2
  Writers = {w1, w2}
  MaxBytes = 4
  BackupCount = 3
  Sizes = {2, 5}
  Faults = {}
  MaxRecords = 6
  MaxFile = 5
  Limits = {2, 9}
SPECIFICATION QuerySpec
SYMMETRY WriterSymmetry
INVARIANTS AnswersNewestFirst
