---------------------------- MODULE LoggingSetup ----------------------------
(***************************************************************************)
(* The logging set-up (src/py_lib_runtime/_internal/logging/service.py):   *)
(* threads of one process set up, all at once, the logging state of the    *)
(* whole process: the handlers of stdlib loggers, their levels and the     *)
(* configuration of structlog.  Nothing locks it as a whole; a step of a   *)
(* thread is one look at it or one change to it.  The application has its  *)
(* own root handler and its own structlog configuration, if it wants them, *)
(* and installs runtime configurations.                                    *)
(***************************************************************************)
EXTENDS RuntimeConfig, FiniteSets, SequencesExt

CONSTANTS
  Threads,
  Loggers,      \* names of stdlib loggers, the root's among them
  Packages,     \* the packages that get loggers
  Root,         \* the root logger
  NotSet,       \* the level of a logger nobody has set
  LevelMaps,    \* the maps of levels given to set_module_log_levels, in order
  MaxCalls      \* bound: calls of one thread

Setting == [name : Loggers, level : Levels \cup {Unknown}]

ASSUME LoggingAssumption ==
  /\ IsFiniteSet(Threads)
  /\ Packages \subseteq Loggers \ {Root} /\ Root \in Loggers
  /\ {Strip[x] : x \in Texts} \ {Blank} \subseteq Loggers
  /\ NotSet \notin Levels /\ Unknown # NotSet
  /\ LevelMaps \subseteq Seq(Setting)
  /\ MaxCalls \in Nat

VARIABLES
  streams,    \* stream handlers configure_logging has put on the root logger
  appHandler, \* the application has put a handler on it
  nulls,      \* nulls[p]: null handlers on the logger of package p
  structlog,  \* its configuration: "default", "library", or "application", one
              \* of the application's with a logger factory of its own
  level,      \* level[n]: the level of logger n
  pc, op, package, calls, outcome,
  settings,   \* the LoggingSettings of a configure call
  todo,       \* the levels a call still has to set, in order
  began,      \* structlog when the thread's call began
  alone       \* no other call that sets levels was under way, or has begun
              \* since, when the thread's last one ran

handlers == <<streams, appHandler, nulls>>
call == <<op, package, calls, began>>
vars == <<installed, streams, appHandler, nulls, structlog, level, pc, op,
          package, calls, outcome, settings, todo, began, alone>>

Configures == {"configure_package_logging", "configure_logging"}
SettersOfLevels == Configures \cup {"set_module_log_levels"}
Operations == SettersOfLevels \cup
              {"get_logger", "add_library_null_handler",
               "configure_structlog_for_library", "install_config"}

Locations == {"idle", "settings", "look", "route", "package", "null_check",
              "null_add", "root_check", "root_add", "root_level", "structlog",
              "levels"}

Init ==
  /\ ConfigInit
  /\ streams = 0
  /\ appHandler = FALSE
  /\ nulls = [p \in Packages |-> 0]
  /\ structlog = "default"
  /\ level = [n \in Loggers |-> NotSet]
  /\ pc = [t \in Threads |-> "idle"]
  /\ op = [t \in Threads |-> "install_config"]
  /\ package \in {[t \in Threads |-> p] : p \in Packages}
  /\ calls = [t \in Threads |-> 0]
  /\ outcome = [t \in Threads |-> "none"]
  /\ settings = [t \in Threads |-> Default]
  /\ todo = [t \in Threads |-> << >>]
  /\ began = [t \in Threads |-> structlog]
  /\ alone = [t \in Threads |-> FALSE]

At(t, l) == pc[t] = l
\* A call under way has no outcome yet.
Goto(t, l) == pc' = [pc EXCEPT ![t] = l] /\ outcome' = [outcome EXCEPT ![t] = "none"]
End(t, o) == pc' = [pc EXCEPT ![t] = "idle"] /\ outcome' = [outcome EXCEPT ![t] = o]

-----------------------------------------------------------------------------
(* The calls.                                                               *)

Begin(t, o) ==
  /\ At(t, "idle")
  /\ calls[t] < MaxCalls
  /\ calls' = [calls EXCEPT ![t] = @ + 1]
  /\ op' = [op EXCEPT ![t] = o]
  /\ began' = [began EXCEPT ![t] = structlog]

\* A call that sets levels begins: it is alone if no other is under way, and
\* the others no longer are.
Disturb(t) ==
  alone' = [u \in Threads |->
              /\ u = t
              /\ \A d \in Threads \ {t} : At(d, "idle") \/ op[d] \notin SettersOfLevels]

InstallConfig(t) ==
  /\ Begin(t, "install_config")
  /\ \E c \in Candidates : \/ Install(c) /\ End(t, "returned")
                           \/ Refuse(c) /\ End(t, "raised")
  /\ UNCHANGED <<handlers, structlog, level, package, settings, todo, alone>>

\* get_logger and the two set-up functions of libraries.
Library(t) ==
  /\ \/ Begin(t, "get_logger") /\ Goto(t, "look")
     \/ Begin(t, "configure_structlog_for_library") /\ Goto(t, "look")
     \/ Begin(t, "add_library_null_handler") /\ Goto(t, "package")
  /\ \E p \in Packages : package' = [package EXCEPT ![t] = p]
  /\ UNCHANGED <<installed, handlers, structlog, level, settings, todo, alone>>

ConfigurePackageLogging(t) ==
  /\ Begin(t, "configure_package_logging") /\ Goto(t, "settings")
  /\ \E p \in Packages : package' = [package EXCEPT ![t] = p]
  /\ Disturb(t)
  /\ UNCHANGED <<installed, handlers, structlog, level, settings, todo>>

\* configure_logging with settings that the caller has made.
ConfigureLogging(t) ==
  /\ Begin(t, "configure_logging") /\ Goto(t, "null_check")
  /\ \E p \in Packages : package' = [package EXCEPT ![t] = p]
  /\ \E c \in Candidates : Valid(c) /\ settings' = [settings EXCEPT ![t] = Normalize(c)]
  /\ Disturb(t)
  /\ UNCHANGED <<installed, handlers, structlog, level, todo>>

SetModuleLogLevels(t) ==
  /\ Begin(t, "set_module_log_levels") /\ Goto(t, "levels")
  /\ \E m \in LevelMaps : todo' = [todo EXCEPT ![t] = m]
  /\ Disturb(t)
  /\ UNCHANGED <<installed, handlers, structlog, level, package, settings>>

-----------------------------------------------------------------------------
(* configure_structlog_for_library and add_library_null_handler.            *)

AfterRouting(t) ==
  IF op[t] = "get_logger" THEN Goto(t, "package") ELSE End(t, "returned")

\* Faulty variant: structlog is configured whatever it is set to.
LookBlindly(t) ==
  /\ At(t, "look")
  /\ Goto(t, "route")
  /\ UNCHANGED <<installed, handlers, structlog, level, call, settings, todo, alone>>

\* Only the default configuration is replaced.
Look(t) ==
  /\ At(t, "look")
  /\ \/ structlog = "default" /\ Goto(t, "route")
     \/ structlog # "default" /\ AfterRouting(t)
  /\ UNCHANGED <<installed, handlers, structlog, level, call, settings, todo, alone>>

Route(t) ==
  /\ At(t, "route")
  /\ structlog' = "library"
  /\ AfterRouting(t)
  /\ UNCHANGED <<installed, handlers, level, call, settings, todo, alone>>

\* The name is None, which get_logger allows, or blank, or a package's.
Package(t) ==
  /\ At(t, "package")
  /\ \/ Goto(t, "null_check")
     \/ op[t] = "get_logger" /\ End(t, "unnamed")
     \/ End(t, "raised")
  /\ UNCHANGED <<installed, handlers, structlog, level, call, settings, todo, alone>>

AfterNull(t) ==
  IF op[t] \in Configures THEN Goto(t, "root_check") ELSE End(t, "returned")

NullCheck(t) ==
  /\ At(t, "null_check")
  /\ \/ nulls[package[t]] > 0 /\ AfterNull(t)
     \/ nulls[package[t]] = 0 /\ Goto(t, "null_add")
  /\ UNCHANGED <<installed, handlers, structlog, level, call, settings, todo, alone>>

\* Faulty variant: the handler is made and never added.
NullForgotten(t) ==
  /\ At(t, "null_add")
  /\ AfterNull(t)
  /\ UNCHANGED <<installed, handlers, structlog, level, call, settings, todo, alone>>

NullAdd(t) ==
  /\ At(t, "null_add")
  /\ nulls' = [nulls EXCEPT ![package[t]] = @ + 1]
  /\ AfterNull(t)
  /\ UNCHANGED <<installed, streams, appHandler, structlog, level, call, settings, todo, alone>>

-----------------------------------------------------------------------------
(* configure_package_logging and configure_logging.                         *)

\* build_logging_settings takes what it needs of one snapshot; a blank name
\* or a level it does not know makes it raise.
Settings(t) ==
  /\ At(t, "settings")
  /\ \/ /\ settings' = [settings EXCEPT ![t] = installed]
        /\ Goto(t, "null_check")
     \/ End(t, "raised") /\ UNCHANGED settings
  /\ UNCHANGED <<installed, handlers, structlog, level, call, todo, alone>>

\* Faulty variant: the root always gets a stream handler.
RootCheckSkipped(t) ==
  /\ At(t, "root_check")
  /\ Goto(t, "root_add")
  /\ UNCHANGED <<installed, handlers, structlog, level, call, settings, todo, alone>>

RootCheck(t) ==
  /\ At(t, "root_check")
  /\ Goto(t, IF streams = 0 /\ ~appHandler THEN "root_add" ELSE "root_level")
  /\ UNCHANGED <<installed, handlers, structlog, level, call, settings, todo, alone>>

RootAdd(t) ==
  /\ At(t, "root_add")
  /\ streams' = streams + 1
  /\ Goto(t, "root_level")
  /\ UNCHANGED <<installed, appHandler, nulls, structlog, level, call, settings, todo, alone>>

\* Faulty variant: the level is read from the installed configuration again.
RootLevelInstalled(t) ==
  /\ At(t, "root_level")
  /\ \/ /\ installed.exact
        /\ level' = [level EXCEPT ![Root] = installed.third]
        /\ Goto(t, "structlog")
     \/ ~installed.exact /\ End(t, "raised") /\ UNCHANGED level
  /\ UNCHANGED <<installed, handlers, structlog, call, settings, todo, alone>>

\* root.setLevel, which refuses a level name in lower case.
RootLevel(t) ==
  /\ At(t, "root_level")
  /\ \/ /\ settings[t].exact
        /\ level' = [level EXCEPT ![Root] = settings[t].third]
        /\ Goto(t, "structlog")
     \/ ~settings[t].exact /\ End(t, "raised") /\ UNCHANGED level
  /\ UNCHANGED <<installed, handlers, structlog, call, settings, todo, alone>>

\* module_levels: the package, then the quiet names, of which it may be one.
ModuleLevels(p, packageLevel, s) ==
  LET quiet == {i \in DOMAIN s.quiet : s.quiet[i] = p}
      others == IF quiet = {} THEN s.quiet ELSE RemoveAt(s.quiet, CHOOSE i \in quiet : TRUE)
      names == <<p>> \o others
  IN [i \in DOMAIN names |->
        [name |-> names[i],
         level |-> IF names[i] \in Names(s.quiet) THEN s.third ELSE packageLevel]]

\* The level of the package comes from the call, the environment or the
\* settings; a name stdlib does not know counts as INFO, so it is never unset.
PackageLevels == Levels

\* structlog.configure replaces whatever configuration there is.
ConfigureStructlog(t) ==
  /\ At(t, "structlog")
  /\ structlog' = "library"
  /\ \E l \in PackageLevels : todo' = [todo EXCEPT ![t] = ModuleLevels(package[t], l, settings[t])]
  /\ Goto(t, "levels")
  /\ UNCHANGED <<installed, handlers, level, call, settings, alone>>

\* One turn of the loop of set_module_log_levels; a level it does not know is
\* skipped.
SetLevel(t) ==
  /\ At(t, "levels") /\ todo[t] # << >>
  /\ LET s == Head(todo[t]) IN
       level' = IF s.level = Unknown THEN level ELSE [level EXCEPT ![s.name] = s.level]
  /\ todo' = [todo EXCEPT ![t] = Tail(@)]
  /\ Goto(t, "levels")
  /\ UNCHANGED <<installed, handlers, structlog, call, settings, alone>>

LevelsDone(t) ==
  /\ At(t, "levels") /\ todo[t] = << >>
  /\ End(t, "returned")
  /\ UNCHANGED <<installed, handlers, structlog, level, call, settings, todo, alone>>

-----------------------------------------------------------------------------
(* The application.                                                         *)

AppConfiguresStructlog ==
  /\ structlog # "application"
  /\ structlog' = "application"
  /\ UNCHANGED <<installed, handlers, level, pc, call, outcome, settings, todo, alone>>

AppAddsHandler ==
  /\ ~appHandler
  /\ appHandler' = TRUE
  /\ UNCHANGED <<installed, streams, nulls, structlog, level, pc, call, outcome,
                 settings, todo, alone>>

Finished ==
  /\ \A t \in Threads : At(t, "idle") /\ calls[t] = MaxCalls
  /\ UNCHANGED vars

-----------------------------------------------------------------------------

Call(t) ==
  \/ InstallConfig(t) \/ Library(t)
  \/ ConfigurePackageLogging(t) \/ ConfigureLogging(t) \/ SetModuleLogLevels(t)

Step(t) ==
  \/ Look(t) \/ Route(t) \/ Package(t) \/ NullCheck(t) \/ NullAdd(t)
  \/ Settings(t) \/ RootCheck(t) \/ RootAdd(t) \/ RootLevel(t)
  \/ ConfigureStructlog(t) \/ SetLevel(t) \/ LevelsDone(t)

Next ==
  \/ \E t \in Threads : Call(t) \/ Step(t)
  \/ AppConfiguresStructlog \/ AppAddsHandler
  \/ Finished

Spec == Init /\ [][Next]_vars
-----------------------------------------------------------------------------
(* Properties.                                                              *)

\* Every variable holds a value of its type; what is installed is valid.
TypeOK ==
  /\ ConfigOK
  /\ streams \in Nat
  /\ appHandler \in BOOLEAN
  /\ nulls \in [Packages -> Nat]
  /\ structlog \in {"default", "library", "application"}
  /\ level \in [Loggers -> Levels \cup {NotSet}]
  /\ pc \in [Threads -> Locations]
  /\ op \in [Threads -> Operations]
  /\ package \in [Threads -> Packages]
  /\ calls \in [Threads -> 0..MaxCalls]
  /\ outcome \in [Threads -> {"none", "returned", "unnamed", "raised"}]
  /\ settings \in [Threads -> Snapshot]
  /\ todo \in [Threads -> Seq(Setting)]
  /\ began \in [Threads -> {"default", "library", "application"}]
  /\ alone \in [Threads -> BOOLEAN]

\* However often the threads set up, the handlers they leave are no more than
\* the threads: only calls that checked at the same time add twice.
HandlersBounded ==
  /\ streams <= Cardinality(Threads)
  /\ \A p \in Packages : nulls[p] <= Cardinality(Threads)

\* A logger handed out by get_logger goes through stdlib or where the
\* application sends it, and its package has a null handler, for ever after.
LoggersRouted ==
  \A t \in Threads :
    At(t, "idle") /\ op[t] = "get_logger" /\ outcome[t] # "none" =>
      /\ structlog # "default"
      /\ outcome[t] = "returned" => nulls[package[t]] > 0

\* A structlog configuration of the application's is replaced by an explicit
\* set-up, or by a library whose call began when there was none.
KeepsAppRouting ==
  [][structlog = "application" /\ structlog' # "application" =>
       \E t \in Threads : /\ pc'[t] # pc[t]
                          /\ \/ op[t] \in Configures
                             \/ began[t] = "default"]_vars

\* When a configure call is not disturbed by another call that sets levels,
\* the levels it leaves are those of the one snapshot it read, or was given,
\* whatever was installed meanwhile, for the root and the quiet names, its own
\* package too.
LevelsOfOneSnapshot ==
  \A t \in Threads :
    /\ At(t, "idle") /\ op[t] \in Configures
    /\ outcome[t] = "returned" /\ alone[t]
    => /\ \A n \in {Root} \cup Names(settings[t].quiet) : level[n] = settings[t].third
       /\ level[package[t]] # NotSet
=============================================================================
