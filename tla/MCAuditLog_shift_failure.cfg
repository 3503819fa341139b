\* Only the rename of a backup may fail.
CONSTANTS
  w1 = w1
  w2 = w2
  Writers = {w1, w2}
  MaxBytes = 4
  BackupCount = 3
  Sizes = {2, 5}
  Faults = {"shift"}
  MaxRecords = 9
SPECIFICATION Spec
SYMMETRY WriterSymmetry
PROPERTIES OnlyOldestForgotten
