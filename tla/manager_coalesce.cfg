\* Two threads of one process and one of another ask for two keys; no row is ever lost.
CONSTANTS
  c1 = c1
  c2 = c2
  c3 = c3
  m1 = m1
  m2 = m2
  Callers = {c1, c2, c3}
  Managers = {m1, m2}
  Mgr <- TwoProcesses
  Keys = {k1, k2}
  Values = {v1, v2}
  None = None
  Undecodable = {}
  Predicates <- NoPredicate
  Ops = {"get_or_set", "close"}
  MaxCalls = 1
  MayCrash = FALSE
  MayEvict = FALSE
  MayExpire = FALSE
SPECIFICATION FairSpec
INVARIANT Agreement
PROPERTY CallsReturn
