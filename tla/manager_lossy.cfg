\* Two threads, every operation, rows evicted and cleared under them.
CONSTANTS
  c1 = c1
  c2 = c2
  c3 = c3
  m1 = m1
  m2 = m2
  Callers = {c1, c2}
  Managers = {m1}
  Mgr <- OneProcess
  Keys = {k1}
  Values = {v1, v2}
  None = None
  Undecodable = {v2}
  Predicates <- OneStale
  Ops = {"get_or_set", "get", "set", "delete", "has", "clear", "stats", "close"}
  MaxCalls = 3
  MayCrash = FALSE
  MayEvict = TRUE
  MayExpire = TRUE
SPECIFICATION Spec
INVARIANT NoOrphanLock
PROPERTY LossesAddOne
