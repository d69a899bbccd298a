\* As many tasks as pool threads, none cancelled.
CONSTANTS
  Tasks = {t1, t2}
  Workers = {w1, w2}
  Nobody = Nobody
  Keys = {k1}
  Values = {v1, v2}
  None = None
  Predicates <- OneStale
  Ops = {"get_or_set_async", "set", "delete", "clear", "close"}
  MaxCalls = 2
  MayCancel = FALSE
SPECIFICATION FairSpec
PROPERTY TasksReturn
