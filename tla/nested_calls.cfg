\* Three threads of two processes; any two keys may ask for each other.
CONSTANTS
  c1 = c1
  c2 = c2
  c3 = c3
  Callers = {c1, c2, c3}
  Processes <- TwoProcesses
  Keys = {k1, k2}
  None = None
  MayCrash = TRUE
  MaxDepth = 2
  MaxCalls = 2
SPECIFICATION FairSpec
INVARIANTS TypeOK OneCallPerKey OrderedNeverStuck
PROPERTIES StuckForever CallsEnd
