CONSTANTS
  Callers = {c1, c2, c3}
  Keys = {k1}
  None = None
  Modes = {"cached", "refresh", "bypass"}
  MaxVersion = 3
  MaxCalls = 1
  MayClose = TRUE
  MayForget = TRUE
SYMMETRY CallerSymmetry
SPECIFICATION Spec
INVARIANTS
  TypeOK
  
  OpenStoresAreReal
PROPERTY OnlyRefreshesGoBack
