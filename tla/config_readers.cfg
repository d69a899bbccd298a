\* Two threads open caches or retry operations between two installations.
CONSTANTS
  info = info
  t1 = t1
  t2 = t2
  Texts <- Writings
  Strip <- Stripped
  Blank = ""
  Levels = {info}
  Unknown = Unknown
  Candidates <- Snapshots
  Default <- BuiltIn
  Openers = {t1, t2}
  Environ <- Environment
  NoPath = NoPath
  Explicit <- Places
  Namespaces <- Scopes
  Sizes = {5}
  NoSize = NoSize
  Retriers = {t1, t2}
  Given = "given"
  Project <- ProjectTypes
  Errors <- Failures
  NoError = NoError
  Waits <- WaitsFor
  NoWait = NoWait
  Stops <- StopsAt
  NoStop = NoStop
  Contexts <- Added
  MaxChars = 6
  MaxAttempts = 3
  MaxInstalls = 1
CHECK_DEADLOCK FALSE
SPECIFICATION Spec
INVARIANTS TypeOK MadeBelowRoots OpensOfItsTime SinkKeepsNumbers LogsOwnAttempt
  OneTypePerCallback MessagesBounded
SYMMETRY Symmetry
