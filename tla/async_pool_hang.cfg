\* One task more than pool threads, all asking for one key.
CONSTANTS
  Tasks = {t1, t2, t3}
  Workers = {w1, w2}
  Nobody = Nobody
  Keys = {k1}
  Values = {v1, v2}
  None = None
  Predicates <- NoPredicate
  Ops = {"get_or_set_async"}
  MaxCalls = 1
  MayCancel = FALSE
SPECIFICATION FairSpec
PROPERTY TasksReturn
