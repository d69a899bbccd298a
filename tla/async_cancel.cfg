\* Three tasks that are cancelled at any await and call again, their jobs running
\* on the threads of the pool without them.
CONSTANTS
  Tasks = {t1, t2, t3}
  Workers = {w1, w2}
  Nobody = Nobody
  Keys = {k1}
  Values = {v1, v2}
  None = None
  Predicates <- NoPredicate
  Ops = {"get_or_set_async", "get_or_set", "delete", "close"}
  MaxCalls = 2
  MayCancel = TRUE
SYMMETRY Symmetry
SPECIFICATION Spec
INVARIANTS TypeOK Exclusive
PROPERTIES ComputesOnce LeaksOnlyAroundLock
