\* Two threads of one process and one of another; processes die at any step.
CONSTANTS
  c1 = c1
  c2 = c2
  c3 = c3
  m1 = m1
  m2 = m2
  Callers = {c1, c2, c3}
  Managers = {m1, m2}
  Mgr <- TwoProcesses
  Keys = {k1}
  Values = {v1, v2}
  None = None
  Undecodable = {}
  Predicates <- OneStale
  Ops = {"get_or_set", "close"}
  MaxCalls = 1
  MayCrash = TRUE
  MayEvict = FALSE
  MayExpire = TRUE
SPECIFICATION Spec
INVARIANTS SingleFlight NoWastedCompute
PROPERTY ComputesOnce
