\* A query races rotations that fail to forget or to append, and crashes.
CONSTANTS
  w1 = w1
  w2 = w2
  Writers = {w1, w2}
  MaxBytes = 4
  BackupCount = 2
  Sizes = {2, 5}
  Faults = {"oldest", "append", "crash"}
  MaxRecords = 4
  MaxFile = 5
  Limits = {2, 9}
SPECIFICATION FairQuerySpec
INVARIANTS Unbroken SizeBound QueryTypeOK NeverSkips QuietQueryExact ReverseLinesExact
PROPERTIES OnlyOldestForgotten ImplementsTrail LockFreed
