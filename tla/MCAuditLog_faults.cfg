\* Every step may fail and the process may die.
CONSTANTS
  w1 = w1
  w2 = w2
  Writers = {w1, w2}
  MaxBytes = 3
  BackupCount = 3
  Sizes = {2}
  Faults = {"stat", "oldest", "shift", "roll", "append", "torn", "crash"}
  MaxRecords = 4
SPECIFICATION Spec
SYMMETRY WriterSymmetry
INVARIANTS Ordered
