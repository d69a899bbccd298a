\* Two threads set up logging twice each while the application has its say.
CONSTANTS
  info = info
  error = error
  pkg = pkg
  pkgPadded = pkgPadded
  spaces = spaces
  other = other
  Root = Root
  NotSet = NotSet
  Blank = Blank
  Unknown = Unknown
  Threads = {t1, t2}
  Packages = {pkg}
  Texts = {pkg, pkgPadded, other, spaces, Blank}
  Strip <- Stripped
  Loggers = {Root, pkg, other}
  Levels = {info, error}
  LevelMaps <- Maps
  Candidates <- Snapshots
  Default <- Quietly
  MaxCalls = 2
SYMMETRY ThreadSymmetry
SPECIFICATION Spec
INVARIANTS TypeOK HandlersBounded LoggersRouted LevelsOfOneSnapshot
PROPERTY KeepsAppRouting
