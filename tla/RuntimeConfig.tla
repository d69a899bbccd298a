---------------------------- MODULE RuntimeConfig ----------------------------
(***************************************************************************)
(* The configuration registry (src/py_lib_runtime/_internal/config/): one  *)
(* snapshot is installed, readers take it whole, and install_config        *)
(* replaces it under a lock.  A snapshot is normalized and validated when  *)
(* it is built.  Left out are the default level of local packages, which   *)
(* a call of the logging set-up may replace by any other, and values of    *)
(* the wrong Python type.                                                  *)
(***************************************************************************)
EXTENDS Integers, Sequences

CONSTANTS
  Texts,        \* what callers write for a name
  Strip,        \* Strip[x]: x without the white space around it
  Blank,        \* the empty text
  Levels,       \* the numeric levels
  Unknown,      \* a level name stdlib does not know
  Candidates,   \* the snapshots callers try to build
  Default       \* the one build_default_config builds

\* `exact` is FALSE for a level given by name in lower case: validation looks
\* the name up in upper case, Logger.setLevel as it is written.
Snapshot == [third : Levels \cup {Unknown}, exact : BOOLEAN, quiet : Seq(Texts),
             env : Texts, size : Int, scheduled : Texts, exhausted : Texts]

VARIABLE installed   \* _installed_config

Names(s) == {s[i] : i \in DOMAIN s}

\* tuple(dict.fromkeys(names)): the first occurrence of every name stays.
Distinct(names) ==
  LET f[n \in 0..Len(names)] ==
        IF n = 0 THEN << >>
        ELSE IF names[n] \in Names(f[n - 1]) THEN f[n - 1]
        ELSE Append(f[n - 1], names[n])
  IN f[Len(names)]

\* Faulty variant: names that are the same once stripped are told apart.
NormalizeNamesAsGiven(names) ==
  LET distinct == Distinct(names) IN [i \in DOMAIN distinct |-> Strip[distinct[i]]]

\* _normalize_name_tuple: names are stripped before they are compared.
NormalizeNames(names) == Distinct([i \in DOMAIN names |-> Strip[names[i]]])

\* Faulty variant: the names outside the tuple stay as they are written.
NormalizeQuiet(c) == [c EXCEPT !.quiet = NormalizeNames(@)]

\* __post_init__ of PyLibRuntimeConfig and of LoggingSettings.
Normalize(c) ==
  [c EXCEPT !.quiet = NormalizeNames(@), !.env = Strip[@],
            !.scheduled = Strip[@], !.exhausted = Strip[@]]

NamesIn(c) == Names(c.quiet) \cup {c.env, c.scheduled, c.exhausted}

\* Every name is there, the level is one and the size is positive.
Valid(c) ==
  /\ \A x \in NamesIn(c) : Strip[x] # Blank
  /\ c.third \in Levels
  /\ c.size > 0

ConfigInit == installed = Default

\* Build a snapshot and install it; one that is refused is never installed.
Install(c) == Valid(c) /\ installed' = Normalize(c)
Refuse(c) == ~Valid(c) /\ UNCHANGED installed

\* What a reader may find: names without white space around them, none of
\* them blank and no quiet one twice, a level and a size that count.
ConfigOK ==
  /\ installed \in Snapshot
  /\ \A x \in NamesIn(installed) : x # Blank /\ Strip[x] = x
  /\ installed.third \in Levels /\ installed.size > 0
  /\ \A i, j \in DOMAIN installed.quiet :
       installed.quiet[i] = installed.quiet[j] => i = j

ASSUME ConfigAssumption ==
  /\ Strip \in [Texts -> Texts] /\ \A x \in Texts : Strip[Strip[x]] = Strip[x]
  /\ Blank \in Texts /\ Unknown \notin Levels
  /\ Candidates \subseteq Snapshot
  /\ Default \in Snapshot /\ Valid(Default) /\ Normalize(Default) = Default
=============================================================================
