SPECIFICATION Spec
CONSTANTS
  Threads = {t1, t2}
  Nothing = Nothing
  MaxTime = 2
  MaxDepth = 2
  MaxUses = 3
INVARIANTS
  TypeOK
  OwnUsesReport
  NeverTooLong
  RaisesOnlyAcrossThreads
SYMMETRY Symmetry
