SPECIFICATION Spec
CONSTANTS
  s1 = s1
  s2 = s2
  Sessions = {s1, s2}
  Dates = {1, 2}
  MemoryLimit = 2
  MaxLimit = 2
  DefaultLimit = 1
  MaxBatch = 2
  MaxRows = 4
  MaxStarts = 2
SYMMETRY Symmetry
CHECK_DEADLOCK FALSE
INVARIANTS
  TypeOK
  KeptIsWindow
  AckedIsDurable
  StoredOnce
  ReadsAreLatest
