------------------------- MODULE LoggingSetupProofs -------------------------
(***************************************************************************)
(* Proofs about LoggingSetup, for any number of threads, packages and      *)
(* calls: duplicate handlers are bounded by the threads that set up, the   *)
(* loggers get_logger hands out stay routed, the application's own routing *)
(* is respected, and the levels of an undisturbed call belong together.    *)
(***************************************************************************)
EXTENDS LoggingSetup, RuntimeConfigProofs, FiniteSetTheorems, SequenceTheorems, TLAPS

-----------------------------------------------------------------------------
(* Handlers.                                                                *)

\* The threads that have decided to add a handler to the root logger, and
\* those that have decided to add a null handler to package p.
RootAdders == {t \in Threads : pc[t] = "root_add"}
NullAdders(p) == {t \in Threads : pc[t] = "null_add" /\ package[t] = p}

\* The part of the types the argument needs.
ThreadTypes ==
  /\ pc \in [Threads -> Locations]
  /\ op \in [Threads -> Operations]
  /\ package \in [Threads -> Packages]
  /\ outcome \in [Threads -> {"none", "returned", "unnamed", "raised"}]
  /\ streams \in Nat
  /\ nulls \in [Packages -> Nat]

\* The inductive invariant: a handler that is there and one that somebody is
\* about to add count alike.
HandlersInv ==
  /\ ThreadTypes
  /\ streams + Cardinality(RootAdders) <= Cardinality(Threads)
  /\ \A p \in Packages : nulls[p] + Cardinality(NullAdders(p)) <= Cardinality(Threads)

\* The size of a set of threads is a number, no larger than that of them all.
LEMMA ThreadsCount ==
  ASSUME NEW S \in SUBSET Threads
  PROVE  /\ IsFiniteSet(S)
         /\ Cardinality(S) \in Nat
         /\ Cardinality(S) <= Cardinality(Threads)
         /\ Cardinality(Threads) \in Nat
BY LoggingAssumption, FS_Subset, FS_CardinalityType

\* A smaller set of threads counts less.
LEMMA FewerThreads ==
  ASSUME NEW S \in SUBSET Threads, NEW R \in SUBSET S
  PROVE  Cardinality(R) <= Cardinality(S)
BY ThreadsCount, FS_Subset

\* A set that loses a thread counts one less.
LEMMA OneThreadLess ==
  ASSUME NEW S \in SUBSET Threads, NEW t \in S
  PROVE  Cardinality(S \ {t}) = Cardinality(S) - 1
BY ThreadsCount, FS_RemoveElement

\* Every step keeps those types.
LEMMA ThreadTypesStep ==
  ASSUME ThreadTypes, [Next]_vars
  PROVE  ThreadTypes'
<1> USE DEF ThreadTypes, At, Goto, End, Locations, Operations, SettersOfLevels, Configures
<1>1. ASSUME NEW t \in Threads, Call(t) PROVE ThreadTypes'
  BY <1>1 DEF Call, InstallConfig, Library, ConfigurePackageLogging,
              ConfigureLogging, SetModuleLogLevels, Begin, handlers
<1>2. ASSUME NEW t \in Threads, Look(t) \/ Route(t) \/ Package(t) PROVE ThreadTypes'
  BY <1>2 DEF Look, Route, Package, AfterRouting, handlers, call
<1>3. ASSUME NEW t \in Threads, NullCheck(t) \/ NullAdd(t) PROVE ThreadTypes'
  BY <1>3 DEF NullCheck, NullAdd, AfterNull, handlers, call
<1>4. ASSUME NEW t \in Threads, Settings(t) \/ RootCheck(t) \/ RootAdd(t) \/ RootLevel(t)
      PROVE  ThreadTypes'
  BY <1>4 DEF Settings, RootCheck, RootAdd, RootLevel, handlers, call
<1>5. ASSUME NEW t \in Threads, ConfigureStructlog(t) \/ SetLevel(t) \/ LevelsDone(t)
      PROVE  ThreadTypes'
  BY <1>5 DEF ConfigureStructlog, SetLevel, LevelsDone, handlers, call
<1>6. CASE AppConfiguresStructlog \/ AppAddsHandler \/ Finished \/ UNCHANGED vars
  BY <1>6 DEF AppConfiguresStructlog, AppAddsHandler, Finished, handlers, call, vars
<1> QED
  BY <1>1, <1>2, <1>3, <1>4, <1>5, <1>6 DEF Next, Step

\* A step of a thread that neither decides to add a handler nor adds one
\* takes the thread away from those about to add, if anything.
LEMMA HandlersKept ==
  ASSUME HandlersInv, ThreadTypes', NEW t \in Threads,
         UNCHANGED <<streams, nulls>>,
         \A u \in Threads \ {t} : pc'[u] = pc[u] /\ package'[u] = package[u],
         pc'[t] \notin {"root_add", "null_add"}
  PROVE  HandlersInv'
<1>1. RootAdders' \subseteq RootAdders /\ RootAdders \subseteq Threads
  BY DEF RootAdders
<1>2. \A p \in Packages : NullAdders(p)' \subseteq NullAdders(p) /\ NullAdders(p) \subseteq Threads
  BY DEF NullAdders
<1>3. Cardinality(RootAdders') <= Cardinality(RootAdders)
  BY <1>1, FewerThreads
<1>4. \A p \in Packages : Cardinality(NullAdders(p)') <= Cardinality(NullAdders(p))
  BY <1>2, FewerThreads
<1>5. /\ Cardinality(RootAdders) \in Nat /\ Cardinality(RootAdders') \in Nat
      /\ \A p \in Packages : Cardinality(NullAdders(p)) \in Nat /\ Cardinality(NullAdders(p)') \in Nat
      /\ Cardinality(Threads) \in Nat
  BY <1>1, <1>2, ThreadsCount
<1> QED
  BY <1>3, <1>4, <1>5 DEF HandlersInv, ThreadTypes

\* Deciding to add: there is nothing yet, so the threads alone are counted.
LEMMA RootCheckKeeps ==
  ASSUME HandlersInv, ThreadTypes', NEW t \in Threads, RootCheck(t)
  PROVE  HandlersInv'
<1> USE DEF RootCheck, HandlersInv, ThreadTypes, At, Goto, Locations, handlers, call
<1>1. CASE pc'[t] = "root_level"
  BY <1>1, HandlersKept
<1>2. CASE pc'[t] = "root_add"
  <2>1. streams' = 0
    BY <1>2
  <2>2. Cardinality(RootAdders') <= Cardinality(Threads) /\ Cardinality(RootAdders') \in Nat
    BY ThreadsCount DEF RootAdders
  <2>3. \A p \in Packages : NullAdders(p)' = NullAdders(p)
    BY <1>2 DEF NullAdders
  <2> QED
    BY <2>1, <2>2, <2>3
<1> QED
  BY <1>1, <1>2

\* The same for the null handlers of a package.
LEMMA NullCheckKeeps ==
  ASSUME HandlersInv, ThreadTypes', NEW t \in Threads, NullCheck(t)
  PROVE  HandlersInv'
<1> USE DEF NullCheck, HandlersInv, ThreadTypes, At, Goto, End, AfterNull, Locations, handlers, call
<1>1. CASE pc'[t] # "null_add"
  BY <1>1, HandlersKept
<1>2. CASE pc'[t] = "null_add"
  <2>1. nulls[package[t]] = 0 /\ UNCHANGED <<nulls, streams>>
    BY <1>2
  <2>2. RootAdders' = RootAdders
    BY <1>2 DEF RootAdders
  <2>3. ASSUME NEW p \in Packages
        PROVE  nulls'[p] + Cardinality(NullAdders(p)') <= Cardinality(Threads)
    <3>1. CASE p = package[t]
      <4>1. Cardinality(NullAdders(p)') <= Cardinality(Threads) /\ Cardinality(NullAdders(p)') \in Nat
        BY ThreadsCount DEF NullAdders
      <4> QED
        BY <2>1, <3>1, <4>1
    <3>2. CASE p # package[t]
      <4>1. NullAdders(p)' = NullAdders(p)
        BY <3>2 DEF NullAdders
      <4> QED
        BY <2>1, <4>1
    <3> QED
      BY <3>1, <3>2
  <2> QED
    BY <2>1, <2>2, <2>3
<1> QED
  BY <1>1, <1>2

\* Adding: one handler more, one thread less.
LEMMA RootAddKeeps ==
  ASSUME HandlersInv, ThreadTypes', NEW t \in Threads, RootAdd(t)
  PROVE  HandlersInv'
<1> USE DEF RootAdd, HandlersInv, ThreadTypes, At, Goto, Locations, call
<1>1. RootAdders' = RootAdders \ {t} /\ t \in RootAdders /\ RootAdders \subseteq Threads
  BY DEF RootAdders
<1>2. Cardinality(RootAdders') = Cardinality(RootAdders) - 1
  BY <1>1, OneThreadLess
<1>3. Cardinality(RootAdders) \in Nat /\ Cardinality(Threads) \in Nat
  BY <1>1, ThreadsCount
<1>4. \A p \in Packages : NullAdders(p)' = NullAdders(p)
  BY DEF NullAdders
<1> QED
  BY <1>2, <1>3, <1>4

\* The same for the null handlers of a package.
LEMMA NullAddKeeps ==
  ASSUME HandlersInv, ThreadTypes', NEW t \in Threads, NullAdd(t)
  PROVE  HandlersInv'
<1> USE DEF NullAdd, HandlersInv, ThreadTypes, At, Goto, End, AfterNull, Locations, call
<1>1. pc'[t] \notin {"root_add", "null_add"} /\ pc[t] = "null_add" /\ package' = package
  OBVIOUS
<1>2. \A u \in Threads \ {t} : pc'[u] = pc[u]
  OBVIOUS
<1>3. RootAdders' = RootAdders
  BY <1>1, <1>2 DEF RootAdders
<1>4. ASSUME NEW p \in Packages
      PROVE  nulls'[p] + Cardinality(NullAdders(p)') <= Cardinality(Threads)
  <2>1. NullAdders(p) \subseteq Threads /\ Cardinality(NullAdders(p)) \in Nat
        /\ Cardinality(Threads) \in Nat
    BY ThreadsCount DEF NullAdders
  <2>2. CASE p = package[t]
    <3>1. t \in NullAdders(p) /\ NullAdders(p)' = NullAdders(p) \ {t}
      BY <1>1, <1>2, <2>2 DEF NullAdders
    <3>2. Cardinality(NullAdders(p)') = Cardinality(NullAdders(p)) - 1
      BY <2>1, <3>1, OneThreadLess
    <3> QED
      BY <2>1, <2>2, <3>2
  <2>3. CASE p # package[t]
    <3>1. NullAdders(p)' = NullAdders(p)
      BY <1>1, <1>2, <2>3 DEF NullAdders
    <3> QED
      BY <2>3, <3>1
  <2> QED
    BY <2>2, <2>3
<1> QED
  BY <1>3, <1>4

\* Every step keeps the count of the handlers.
LEMMA HandlersStep ==
  ASSUME HandlersInv, [Next]_vars
  PROVE  HandlersInv'
<1>0. ThreadTypes /\ ThreadTypes'
  BY ThreadTypesStep DEF HandlersInv
<1>1. ASSUME NEW t \in Threads, Call(t) PROVE HandlersInv'
  <2>1. /\ UNCHANGED <<streams, nulls>>
        /\ \A u \in Threads \ {t} : pc'[u] = pc[u] /\ package'[u] = package[u]
        /\ pc'[t] \notin {"root_add", "null_add"}
    BY <1>0, <1>1 DEF Call, InstallConfig, Library, ConfigurePackageLogging,
       ConfigureLogging, SetModuleLogLevels, Begin, handlers, ThreadTypes, At, Goto, End
  <2> QED
    BY <1>0, <2>1, HandlersKept
<1>2. ASSUME NEW t \in Threads,
             \/ Look(t) \/ Route(t) \/ Package(t) \/ Settings(t) \/ RootLevel(t)
             \/ ConfigureStructlog(t) \/ SetLevel(t) \/ LevelsDone(t)
      PROVE  HandlersInv'
  <2>1. /\ UNCHANGED <<streams, nulls>>
        /\ \A u \in Threads \ {t} : pc'[u] = pc[u] /\ package'[u] = package[u]
        /\ pc'[t] \notin {"root_add", "null_add"}
    BY <1>0, <1>2 DEF Look, Route, Package, Settings, RootLevel, ConfigureStructlog,
       SetLevel, LevelsDone, AfterRouting, handlers, call, ThreadTypes, At, Goto, End
  <2> QED
    BY <1>0, <2>1, HandlersKept
<1>3. CASE AppConfiguresStructlog \/ AppAddsHandler \/ Finished \/ UNCHANGED vars
  <2>1. UNCHANGED <<streams, nulls, pc, package>>
    BY <1>3 DEF AppConfiguresStructlog, AppAddsHandler, Finished, handlers, call, vars
  <2>2. RootAdders' = RootAdders /\ \A p \in Packages : NullAdders(p)' = NullAdders(p)
    BY <2>1 DEF RootAdders, NullAdders
  <2> QED
    BY <1>0, <2>1, <2>2 DEF HandlersInv
<1> QED
  BY <1>0, <1>1, <1>2, <1>3, RootCheckKeeps, RootAddKeeps, NullCheckKeeps, NullAddKeeps
  DEF Next, Step

\* Nothing is there at first.
LEMMA HandlersInit == Init => HandlersInv
<1> SUFFICES ASSUME Init PROVE HandlersInv
  OBVIOUS
<1>1. ThreadTypes
  BY DEF Init, ThreadTypes, Locations, Operations, SettersOfLevels, Configures
<1>2. RootAdders = {} /\ \A p \in Packages : NullAdders(p) = {}
  BY DEF Init, RootAdders, NullAdders
<1>3. Cardinality({}) = 0 /\ Cardinality(Threads) \in Nat
  BY FS_EmptySet, ThreadsCount
<1>4. streams + Cardinality(RootAdders) <= Cardinality(Threads)
  BY <1>2, <1>3 DEF Init
<1>5. ASSUME NEW p \in Packages
      PROVE  nulls[p] + Cardinality(NullAdders(p)) <= Cardinality(Threads)
  <2>1. nulls[p] = 0 /\ NullAdders(p) = {}
    BY <1>2 DEF Init
  <2> QED
    BY <1>3, <2>1
<1> QED
  BY <1>1, <1>4, <1>5 DEF HandlersInv

\* However often they set up, the threads never leave more stream handlers on
\* the root logger, or null handlers on a package's, than they are.
THEOREM HandlersStayBounded == Spec => []HandlersBounded
<1>1. HandlersInv => HandlersBounded
  <2> SUFFICES ASSUME HandlersInv PROVE HandlersBounded
    OBVIOUS
  <2>1. Cardinality(RootAdders) \in Nat /\ Cardinality(Threads) \in Nat
    BY ThreadsCount DEF RootAdders
  <2>2. \A p \in Packages : Cardinality(NullAdders(p)) \in Nat
    BY ThreadsCount DEF NullAdders
  <2> QED
    BY <2>1, <2>2 DEF HandlersInv, ThreadTypes, HandlersBounded
<1>2. HandlersInv /\ [Next]_vars => HandlersInv'
  BY HandlersStep
<1> QED
  BY <1>1, <1>2, HandlersInit, PTL DEF Spec

-----------------------------------------------------------------------------
(* Routing.                                                                 *)

\* No step takes routing back: structlog never returns to its default, and no
\* null handler is removed.
Progress ==
  /\ structlog # "default" => structlog' # "default"
  /\ \A p \in Packages : nulls'[p] >= nulls[p]

\* That holds of every step.
LEMMA NeverBack ==
  ASSUME ThreadTypes, [Next]_vars
  PROVE  Progress
<1> USE DEF ThreadTypes, Progress
<1>1. ASSUME NEW t \in Threads, Call(t) PROVE Progress
  BY <1>1 DEF Call, InstallConfig, Library, ConfigurePackageLogging,
     ConfigureLogging, SetModuleLogLevels, handlers
<1>2. ASSUME NEW t \in Threads, Step(t) PROVE Progress
  BY SMTT(30), <1>2 DEF Step, Look, Route, Package, NullCheck, NullAdd, Settings, RootCheck,
     RootAdd, RootLevel, ConfigureStructlog, SetLevel, LevelsDone, handlers
<1>3. CASE AppConfiguresStructlog \/ AppAddsHandler \/ Finished \/ UNCHANGED vars
  BY <1>3 DEF AppConfiguresStructlog, AppAddsHandler, Finished, handlers, vars
<1> QED
  BY <1>1, <1>2, <1>3 DEF Next

\* The inductive invariant, for one thread: a get_logger call that has got past
\* the routing of structlog, or past the null handler, finds them done.
Routed(t) ==
  op[t] = "get_logger" =>
    /\ pc[t] \in {"idle", "look", "route", "package", "null_check", "null_add"}
    /\ pc[t] \in {"package", "null_check", "null_add"} => structlog # "default"
    /\ pc[t] = "idle" /\ outcome[t] # "none" => structlog # "default"
    /\ pc[t] = "idle" /\ outcome[t] = "returned" => nulls[package[t]] > 0

\* It survives whatever the others do while the thread stands still.
LEMMA StandsStill ==
  ASSUME ThreadTypes, ThreadTypes', Progress, NEW t \in Threads, Routed(t),
         pc'[t] = pc[t], op'[t] = op[t], package'[t] = package[t], outcome'[t] = outcome[t]
  PROVE  Routed(t)'
BY DEF Routed, Progress, ThreadTypes

\* Every step keeps it for every thread.
LEMMA RoutedStep ==
  ASSUME ThreadTypes, \A t \in Threads : Routed(t), [Next]_vars
  PROVE  \A t \in Threads : Routed(t)'
<1>0. ThreadTypes' /\ Progress
  BY ThreadTypesStep, NeverBack
<1>1. ASSUME NEW u \in Threads, Call(u) PROVE \A t \in Threads : Routed(t)'
  <2>1. Routed(u)'
    BY <1>0, <1>1 DEF Call, InstallConfig, Library, ConfigurePackageLogging,
       ConfigureLogging, SetModuleLogLevels, Begin, Goto, End, At, Routed, ThreadTypes
  <2>2. \A t \in Threads \ {u} : /\ pc'[t] = pc[t] /\ op'[t] = op[t]
                                /\ package'[t] = package[t] /\ outcome'[t] = outcome[t]
    BY <1>1 DEF Call, InstallConfig, Library, ConfigurePackageLogging,
       ConfigureLogging, SetModuleLogLevels, Begin, Goto, End, At, ThreadTypes
  <2> QED
    BY <1>0, <2>1, <2>2, StandsStill
<1>2. ASSUME NEW u \in Threads, Step(u) PROVE \A t \in Threads : Routed(t)'
  <2>1. UNCHANGED <<op, package>>
    BY <1>2 DEF Step, Look, Route, Package, NullCheck, NullAdd, Settings, RootCheck,
       RootAdd, RootLevel, ConfigureStructlog, SetLevel, LevelsDone, call
  <2>2. \A t \in Threads \ {u} : pc'[t] = pc[t] /\ outcome'[t] = outcome[t]
    BY <1>2 DEF Step, Look, Route, Package, NullCheck, NullAdd, Settings, RootCheck,
       RootAdd, RootLevel, ConfigureStructlog, SetLevel, LevelsDone, AfterRouting,
       AfterNull, Goto, End, ThreadTypes
  <2>3. ASSUME op[u] = "get_logger" PROVE Routed(u)'
    <3>1. Look(u) \/ Route(u) \/ Package(u) \/ NullCheck(u) \/ NullAdd(u)
      BY <1>2, <2>3 DEF Step, Routed, At, Settings, RootCheck, RootAdd, RootLevel,
         ConfigureStructlog, SetLevel, LevelsDone
    <3> USE DEF AfterRouting, AfterNull, Goto, End, At, Routed, ThreadTypes
    <3>2. CASE Look(u)
      BY <1>0, <2>1, <2>3, <3>2 DEF Look
    <3>3. CASE Route(u)
      BY <1>0, <2>1, <2>3, <3>3 DEF Route
    <3>4. CASE Package(u)
      BY <1>0, <2>1, <2>3, <3>4 DEF Package
    <3>5. CASE NullCheck(u)
      BY <1>0, <2>1, <2>3, <3>5 DEF NullCheck, handlers, Configures
    <3>6. CASE NullAdd(u)
      <4>1. nulls'[package[u]] = nulls[package[u]] + 1 /\ structlog' = structlog
        BY <3>6 DEF NullAdd
      <4>2. pc[u] = "null_add" /\ pc'[u] = "idle" /\ outcome'[u] = "returned"
        BY <2>3, <3>6 DEF NullAdd, Configures
      <4> QED
        BY <2>1, <2>3, <4>1, <4>2
    <3> QED
      BY <3>1, <3>2, <3>3, <3>4, <3>5, <3>6
  <2>4. ASSUME op[u] # "get_logger" PROVE Routed(u)'
    BY <2>1, <2>4 DEF Routed
  <2> QED
    BY <1>0, <2>1, <2>2, <2>3, <2>4, StandsStill
<1>3. CASE AppConfiguresStructlog \/ AppAddsHandler \/ Finished \/ UNCHANGED vars
  <2>1. UNCHANGED <<pc, op, package, outcome>>
    BY <1>3 DEF AppConfiguresStructlog, AppAddsHandler, Finished, call, vars
  <2> QED
    BY <1>0, <2>1, StandsStill
<1> QED
  BY <1>1, <1>2, <1>3 DEF Next

\* Whatever the other threads and the application do, a logger that
\* get_logger handed out never falls back to the default of structlog, and
\* its package keeps a null handler.
THEOREM LoggersStayRouted == Spec => []LoggersRouted
<1> DEFINE RoutedInv == ThreadTypes /\ \A t \in Threads : Routed(t)
<1>1. Init => RoutedInv
  BY HandlersInit DEF Init, HandlersInv, Routed
<1>2. RoutedInv /\ [Next]_vars => RoutedInv'
  BY ThreadTypesStep, RoutedStep
<1>3. RoutedInv => LoggersRouted
  BY DEF LoggersRouted, Routed, At
<1> QED
  BY <1>1, <1>2, <1>3, PTL DEF Spec

-----------------------------------------------------------------------------
(* Types, and the levels a call sets.                                       *)

\* A sequence without the element at k, and that element, have all names.
LEMMA NamesAround ==
  ASSUME NEW S, NEW q \in Seq(S), NEW k \in DOMAIN q
  PROVE  /\ RemoveAt(q, k) \in Seq(S)
         /\ Names(RemoveAt(q, k)) \cup {q[k]} = Names(q)
<1> DEFINE a == SubSeq(q, 1, k - 1)
           b == SubSeq(q, k + 1, Len(q))
<1>1. k \in 1..Len(q) /\ Len(q) \in Nat /\ k \in Nat
  OBVIOUS
<1>2. /\ a \in Seq(S) /\ Len(a) = k - 1
      /\ \A i \in 1..k-1 : a[i] = q[i]
  BY <1>1
<1>3. /\ b \in Seq(S) /\ Len(b) = Len(q) - k
      /\ \A i \in 1..(Len(q) - k) : b[i] = q[k + i]
  BY <1>1
<1> HIDE DEF a, b
<1>4. /\ a \o b \in Seq(S) /\ Len(a \o b) = Len(q) - 1
      /\ DOMAIN (a \o b) = 1..(Len(q) - 1)
      /\ \A i \in 1..(Len(q) - 1) : (a \o b)[i] = IF i <= k - 1 THEN q[i] ELSE q[i + 1]
  <2>1. /\ a \o b \in Seq(S) /\ Len(a \o b) = Len(a) + Len(b)
        /\ \A i \in 1..Len(a) + Len(b) :
             (a \o b)[i] = IF i <= Len(a) THEN a[i] ELSE b[i - Len(a)]
    BY <1>2, <1>3, ConcatProperties, Zenon
  <2>2. ASSUME NEW i \in 1..(Len(q) - 1), i <= k - 1 PROVE (a \o b)[i] = q[i]
    BY <1>1, <1>2, <1>3, <2>1, <2>2, SMTT(30)
  <2>3. ASSUME NEW i \in 1..(Len(q) - 1), ~(i <= k - 1) PROVE (a \o b)[i] = q[i + 1]
    <3> DEFINE j == i - (k - 1)
    <3>1. j \in 1..(Len(q) - k) /\ k + j = i + 1 /\ i \in 1..Len(a) + Len(b) /\ j = i - Len(a)
      BY <1>1, <1>2, <1>3, <2>3, SMTT(30)
    <3>2. (a \o b)[i] = b[j]
      BY <1>2, <2>1, <2>3, <3>1
    <3> HIDE DEF j
    <3> QED
      BY <1>3, <3>1, <3>2
  <2>4. Len(a \o b) = Len(q) - 1 /\ DOMAIN (a \o b) = 1..(Len(q) - 1)
    BY <1>1, <1>2, <1>3, <2>1, SMTT(30)
  <2> QED
    BY <2>1, <2>2, <2>3, <2>4
<1>5. Names(a \o b) \cup {q[k]} = Names(q)
  <2>1. \A i \in 1..(Len(q) - 1) : (a \o b)[i] \in Names(q)
    <3>1. DOMAIN q = 1..Len(q)
      OBVIOUS
    <3>2. \A i \in 1..(Len(q) - 1) : i \in DOMAIN q /\ i + 1 \in DOMAIN q
      BY <1>1, <3>1
    <3> QED
      BY <1>4, <3>2 DEF Names
  <2>2. q[k] \in Names(q)
    BY DEF Names
  <2>3. ASSUME NEW i \in DOMAIN q, i # k PROVE q[i] \in Names(a \o b)
    <3>1. CASE i < k
      <4>1. i \in 1..(Len(q) - 1) /\ (a \o b)[i] = q[i]
        BY <1>1, <1>4, <3>1, SMTT(30)
      <4> QED
        BY <1>4, <4>1 DEF Names
    <3>2. CASE i > k
      <4>1. i - 1 \in 1..(Len(q) - 1) /\ (a \o b)[i - 1] = q[i]
        BY <1>1, <1>4, <3>2, SMTT(30)
      <4> QED
        BY <1>4, <4>1 DEF Names
    <3> QED
      BY <1>1, <2>3, <3>1, <3>2
  <2>4. Names(a \o b) \subseteq Names(q)
    BY <1>4, <2>1 DEF Names
  <2> QED
    BY <2>2, <2>3, <2>4 DEF Names
<1> QED
  BY <1>4, <1>5 DEF RemoveAt, a, b

\* The names to keep quiet are names of loggers.
LEMMA QuietAreLoggers ==
  ASSUME NEW s, ReadyToRead(s)
  PROVE  Names(s.quiet) \subseteq Loggers
<1>1. Names(s.quiet) \subseteq Texts
  BY DEF ReadyToRead, Snapshot, Names
<1>2. \A x \in Names(s.quiet) : x # Blank /\ Strip[x] = x
  BY DEF ReadyToRead, NamesIn
<1> QED
  BY <1>1, <1>2, LoggingAssumption

\* The levels a configure call sets: one for its package and each quiet name,
\* that of the snapshot for the quiet ones.
LEMMA ModuleLevelsAre ==
  ASSUME NEW p \in Packages, NEW l \in Levels, NEW s, ReadyToRead(s),
         NEW m, m = ModuleLevels(p, l, s)
  PROVE  /\ m \in Seq(Setting)
         /\ \A i \in DOMAIN m : m[i].name \in {p} \cup Names(s.quiet)
         /\ \A n \in {p} \cup Names(s.quiet) : \E i \in DOMAIN m : m[i].name = n
         /\ \A i \in DOMAIN m :
              m[i].level = IF m[i].name \in Names(s.quiet) THEN s.third ELSE l
<1> DEFINE quiet == {i \in DOMAIN s.quiet : s.quiet[i] = p}
           k == CHOOSE i \in quiet : TRUE
           others == IF quiet = {} THEN s.quiet ELSE RemoveAt(s.quiet, k)
           names == <<p>> \o others
<1>1. Names(s.quiet) \subseteq Loggers
  BY QuietAreLoggers
<1>2. s.quiet \in Seq(Loggers)
  BY <1>1 DEF ReadyToRead, Snapshot, Names
<1>3. others \in Seq(Loggers) /\ {p} \cup Names(others) = {p} \cup Names(s.quiet)
  <2>1. CASE quiet = {}
    BY <1>2, <2>1
  <2>2. CASE quiet # {}
    <3>1. k \in quiet
      BY <2>2
    <3> HIDE DEF k
    <3>2. k \in DOMAIN s.quiet /\ s.quiet[k] = p
      BY <3>1
    <3>3. /\ RemoveAt(s.quiet, k) \in Seq(Loggers)
          /\ Names(RemoveAt(s.quiet, k)) \cup {p} = Names(s.quiet)
      BY <1>2, <3>2, NamesAround
    <3> QED
      BY <2>2, <3>3
  <2> QED
    BY <2>1, <2>2
<1> HIDE DEF others
<1>4. p \in Loggers /\ Len(others) \in Nat
  BY <1>3, LoggingAssumption
<1>5. /\ names \in Seq(Loggers) /\ DOMAIN names = 1..(Len(others) + 1) /\ names[1] = p
      /\ \A i \in 1..Len(others) : names[i + 1] = others[i]
  BY <1>3, <1>4
<1>6. Names(names) = {p} \cup Names(s.quiet)
  <2>1. {names[i] : i \in 1..(Len(others) + 1)} = {p} \cup {others[i] : i \in 1..Len(others)}
    <3>1. \A i \in 1..(Len(others) + 1) : i = 1 \/ (i - 1 \in 1..Len(others) /\ names[i] = others[i - 1])
      BY <1>4, <1>5
    <3>2. \A i \in 1..Len(others) : i + 1 \in 1..(Len(others) + 1)
      BY <1>4
    <3>3. 1 \in 1..(Len(others) + 1)
      BY <1>4
    <3> HIDE DEF names
    <3>4. \A i \in 1..(Len(others) + 1) :
            names[i] = p \/ \E j \in 1..Len(others) : names[i] = others[j]
      BY <1>5, <3>1
    <3>5. \A j \in 1..Len(others) : \E i \in 1..(Len(others) + 1) : others[j] = names[i]
      BY <1>5, <3>2
    <3>6. \E i \in 1..(Len(others) + 1) : p = names[i]
      BY <1>5, <3>3
    <3> QED
      BY <3>4, <3>5, <3>6, SMTT(30)
  <2>2. DOMAIN others = 1..Len(others)
    BY <1>3
  <2> QED
    BY <1>3, <1>5, <2>1, <2>2 DEF Names
<1>7. m = [i \in DOMAIN names |->
             [name |-> names[i],
              level |-> IF names[i] \in Names(s.quiet) THEN s.third ELSE l]]
  BY DEF ModuleLevels, others
<1> HIDE DEF names
<1>8. /\ DOMAIN m = DOMAIN names /\ \A i \in DOMAIN m : m[i].name = names[i]
      /\ \A i \in DOMAIN m :
           /\ m[i].level = IF m[i].name \in Names(s.quiet) THEN s.third ELSE l
           /\ m[i] \in Setting
  BY <1>5, <1>7 DEF Setting, ReadyToRead
<1>9. m \in Seq(Setting)
  BY <1>4, <1>5, <1>8, <1>7
<1>10. /\ \A i \in DOMAIN m : m[i].name \in Names(names)
       /\ \A n \in Names(names) : \E i \in DOMAIN m : m[i].name = n
  BY <1>8 DEF Names
<1> QED
  BY <1>6, <1>8, <1>9, <1>10

\* The types that HandlersInv does not have.
OtherTypes ==
  /\ appHandler \in BOOLEAN
  /\ structlog \in {"default", "library", "application"}
  /\ level \in [Loggers -> Levels \cup {NotSet}]
  /\ calls \in [Threads -> 0..MaxCalls]
  /\ todo \in [Threads -> Seq(Setting)]
  /\ began \in [Threads -> {"default", "library", "application"}]
  /\ alone \in [Threads -> BOOLEAN]

\* What is installed, and the settings taken of it, are ready to read.
ConfigsReady ==
  /\ ConfigOK
  /\ settings \in [Threads -> Snapshot]
  /\ \A t \in Threads : ReadyToRead(settings[t])

\* The inductive invariant.
TypesInv == ThreadTypes /\ OtherTypes /\ ConfigsReady

\* It holds at first.
LEMMA TypesInit == Init => TypesInv
<1> SUFFICES ASSUME Init PROVE TypesInv
  OBVIOUS
<1>1. ConfigOK /\ Default \in Snapshot
  BY ConfigOKInit, DefaultIsReady DEF Init, ReadyToRead
<1>2. ConfigsReady
  BY <1>1, DefaultIsReady DEF Init, ConfigsReady
<1>3. << >> \in Seq(Setting) /\ 0 \in 0..MaxCalls
  BY LoggingAssumption
<1>4. OtherTypes
  BY <1>3 DEF Init, OtherTypes
<1>5. ThreadTypes
  BY HandlersInit DEF HandlersInv
<1> QED
  BY <1>2, <1>4, <1>5 DEF TypesInv

\* Every step leaves the configurations ready.
LEMMA ConfigsStep ==
  ASSUME ConfigsReady, [Next]_vars
  PROVE  ConfigsReady'
<1>1. CASE UNCHANGED <<installed, settings>>
  <2>1. ConfigOK'
    BY <1>1, ConfigOKStep DEF ConfigsReady
  <2> QED
    BY <1>1, <2>1 DEF ConfigsReady, ReadyToRead, NamesIn
<1>2. ASSUME NEW t \in Threads, InstallConfig(t) PROVE ConfigsReady'
  <2>1. ConfigOK' /\ settings' = settings
    BY <1>2, ConfigOKStep DEF ConfigsReady, InstallConfig
  <2> QED
    BY <2>1 DEF ConfigsReady, ReadyToRead, NamesIn
<1>3. ASSUME NEW t \in Threads, Settings(t) PROVE ConfigsReady'
  <2>1. ConfigOK'
    BY <1>3, ConfigOKStep DEF ConfigsReady, Settings
  <2>2. ReadyToRead(installed) /\ installed \in Snapshot
    BY ReadyIsOK DEF ConfigsReady, ReadyToRead
  <2>3. settings' = settings \/ settings' = [settings EXCEPT ![t] = installed]
    BY <1>3 DEF Settings
  <2>4. \A u \in Threads : settings'[u] = settings[u] \/ settings'[u] = installed
    BY <2>3 DEF ConfigsReady
  <2>5. settings' \in [Threads -> Snapshot]
    BY <2>2, <2>3 DEF ConfigsReady
  <2>6. ASSUME NEW s, NEW u \in Threads, s = settings'[u] PROVE ReadyToRead(s)
    BY <2>2, <2>4, <2>6 DEF ConfigsReady
  <2>7. \A u \in Threads : ReadyToRead(settings'[u])
    BY <2>6
  <2> QED
    BY <2>1, <2>5, <2>7 DEF ConfigsReady
<1>4. ASSUME NEW t \in Threads, ConfigureLogging(t) PROVE ConfigsReady'
  <2>1. ConfigOK'
    BY <1>4, ConfigOKStep DEF ConfigsReady, ConfigureLogging
  <2>2. PICK c \in Candidates :
          Valid(c) /\ settings' = [settings EXCEPT ![t] = Normalize(c)]
    BY <1>4 DEF ConfigureLogging
  <2>3. ReadyToRead(Normalize(c)) /\ Normalize(c) \in Snapshot
    BY <2>2, NormalizedIsReady, ConfigAssumption DEF ReadyToRead
  <2>4. \A u \in Threads : settings'[u] = settings[u] \/ settings'[u] = Normalize(c)
    BY <2>2 DEF ConfigsReady
  <2>5. settings' \in [Threads -> Snapshot]
    BY <2>2, <2>3 DEF ConfigsReady
  <2>6. ASSUME NEW s, NEW u \in Threads, s = settings'[u] PROVE ReadyToRead(s)
    BY <2>3, <2>4, <2>6 DEF ConfigsReady
  <2>7. \A u \in Threads : ReadyToRead(settings'[u])
    BY <2>6
  <2> QED
    BY <2>1, <2>5, <2>7 DEF ConfigsReady
<1> QED
  BY <1>1, <1>2, <1>3, <1>4 DEF Next, Call, Step, Library, ConfigurePackageLogging,
     SetModuleLogLevels, Look, Route, Package, NullCheck, NullAdd, RootCheck, RootAdd,
     RootLevel, ConfigureStructlog, SetLevel, LevelsDone, AppConfiguresStructlog,
     AppAddsHandler, Finished, vars

\* Every step keeps the other types.
LEMMA OtherTypesStep ==
  ASSUME TypesInv, [Next]_vars
  PROVE  OtherTypes'
<1> USE DEF TypesInv, OtherTypes
<1>1. ASSUME NEW t \in Threads, Call(t) PROVE OtherTypes'
  <2>1. UNCHANGED <<structlog, appHandler, level>>
    BY <1>1 DEF Call, InstallConfig, Library, ConfigurePackageLogging,
       ConfigureLogging, SetModuleLogLevels,
       handlers
  <2>2. /\ calls' \in [Threads -> 0..MaxCalls]
        /\ began' \in [Threads -> {"default", "library", "application"}]
    <3>1. PICK o : Begin(t, o)
      BY <1>1 DEF Call, InstallConfig, Library, ConfigurePackageLogging,
         ConfigureLogging, SetModuleLogLevels
    <3>2. calls[t] + 1 \in 0..MaxCalls
      BY <3>1, LoggingAssumption DEF Begin
    <3> QED
      BY <3>1, <3>2 DEF Begin
  <2>3. todo' \in [Threads -> Seq(Setting)]
    <3>1. \A m \in LevelMaps : m \in Seq(Setting)
      BY LoggingAssumption
    <3> QED
      BY <1>1, <3>1 DEF Call, InstallConfig, Library, ConfigurePackageLogging,
         ConfigureLogging, SetModuleLogLevels
  <2>4. alone' \in [Threads -> BOOLEAN]
    BY <1>1 DEF Call, InstallConfig, Library, ConfigurePackageLogging,
       ConfigureLogging, SetModuleLogLevels, Disturb
  <2> QED
    BY <2>1, <2>2, <2>3, <2>4
<1>2. ASSUME NEW t \in Threads, \/ Look(t) \/ Route(t) \/ Package(t) \/ NullCheck(t)
                                \/ NullAdd(t) \/ RootCheck(t) \/ RootAdd(t)
                                \/ LevelsDone(t) \/ Settings(t)
      PROVE  OtherTypes'
  BY <1>2 DEF Look, Route, Package, NullCheck, NullAdd, RootCheck, RootAdd, LevelsDone,
     Settings, handlers, call
<1>3. ASSUME NEW t \in Threads, RootLevel(t) PROVE OtherTypes'
  <2>1. settings[t].third \in Levels
    BY DEF ConfigsReady, ReadyToRead
  <2> QED
    BY <1>3, <2>1 DEF RootLevel, handlers, call
<1>4. ASSUME NEW t \in Threads, ConfigureStructlog(t) PROVE OtherTypes'
  <2>1. ASSUME NEW l \in PackageLevels
        PROVE  ModuleLevels(package[t], l, settings[t]) \in Seq(Setting)
    BY ModuleLevelsAre DEF ConfigsReady, ThreadTypes, PackageLevels
  <2>2. todo' \in [Threads -> Seq(Setting)]
    BY <1>4, <2>1 DEF ConfigureStructlog
  <2> QED
    BY <1>4, <2>2 DEF ConfigureStructlog, handlers, call
<1>5. ASSUME NEW t \in Threads, SetLevel(t) PROVE OtherTypes'
  <2>1. todo[t] \in Seq(Setting) /\ todo[t] # << >>
    BY <1>5 DEF SetLevel
  <2>2. Head(todo[t]) \in Setting /\ Tail(todo[t]) \in Seq(Setting)
    BY <2>1
  <2>3. todo' \in [Threads -> Seq(Setting)]
    BY <1>5, <2>2 DEF SetLevel
  <2>4. level' \in [Loggers -> Levels \cup {NotSet}]
    BY <1>5, <2>2 DEF SetLevel, Setting
  <2> QED
    BY <1>5, <2>3, <2>4 DEF SetLevel, handlers, call
<1>6. CASE AppConfiguresStructlog \/ AppAddsHandler \/ Finished \/ UNCHANGED vars
  BY <1>6 DEF AppConfiguresStructlog, AppAddsHandler, Finished, handlers, call, vars
<1> QED
  BY <1>1, <1>2, <1>3, <1>4, <1>5, <1>6 DEF Next, Step

\* Every step keeps the invariant.
LEMMA TypesStep ==
  ASSUME TypesInv, [Next]_vars
  PROVE  TypesInv'
BY ThreadTypesStep, OtherTypesStep, ConfigsStep DEF TypesInv

\* Every variable keeps its type, and what is installed stays valid, with any
\* threads, names and snapshots.
THEOREM LoggingTypes == Spec => []TypeOK
<1>1. TypesInv /\ [Next]_vars => TypesInv'
  BY TypesStep
<1>2. TypesInv => TypeOK
  BY DEF TypesInv, ThreadTypes, OtherTypes, ConfigsReady, TypeOK
<1> QED
  BY <1>1, <1>2, TypesInit, PTL DEF Spec

\* A step of one thread leaves the others where they are.
LEMMA OthersStand ==
  ASSUME TypesInv, NEW u \in Threads, Call(u) \/ Step(u), NEW t \in Threads \ {u}
  PROVE  /\ pc'[t] = pc[t] /\ op'[t] = op[t] /\ package'[t] = package[t]
         /\ outcome'[t] = outcome[t] /\ began'[t] = began[t]
         /\ settings'[t] = settings[t] /\ todo'[t] = todo[t]
         /\ alone'[t] => alone[t]
<1> USE DEF TypesInv, ThreadTypes, OtherTypes, ConfigsReady
<1>1. CASE Call(u)
  BY <1>1 DEF Call, InstallConfig, Library, ConfigurePackageLogging,
     ConfigureLogging, SetModuleLogLevels,
     Begin, Goto, End, Disturb
<1>2. CASE Step(u)
  <2>1. UNCHANGED <<op, package, began, alone>>
    BY <1>2 DEF Step, Look, Route, Package, NullCheck, NullAdd, Settings, RootCheck,
       RootAdd, RootLevel, ConfigureStructlog, SetLevel, LevelsDone, call
  <2>2. pc'[t] = pc[t] /\ outcome'[t] = outcome[t]
    BY <1>2 DEF Step, Look, Route, Package, NullCheck, NullAdd, Settings, RootCheck,
       RootAdd, RootLevel, ConfigureStructlog, SetLevel, LevelsDone, AfterRouting,
       AfterNull, Goto, End
  <2>3. settings'[t] = settings[t] /\ todo'[t] = todo[t]
    BY <1>2 DEF Step, Look, Route, Package, NullCheck, NullAdd, Settings, RootCheck,
       RootAdd, RootLevel, ConfigureStructlog, SetLevel, LevelsDone
  <2> QED
    BY <2>1, <2>2, <2>3
<1> QED
  BY <1>1, <1>2

\* A step of the application, or none, leaves all threads where they are.
LEMMA AllStand ==
  ASSUME AppConfiguresStructlog \/ AppAddsHandler \/ Finished \/ UNCHANGED vars
  PROVE  UNCHANGED <<pc, op, package, outcome, began, settings, todo, alone, level>>
BY DEF AppConfiguresStructlog, AppAddsHandler, Finished, call, vars

\* A step inside a call is of the operation that the thread began.
LEMMA StepsInside ==
  ASSUME NEW u \in Threads, Step(u)
  PROVE  UNCHANGED <<op, package, began, alone>> /\ pc[u] # "idle"
BY DEF Step, Look, Route, Package, NullCheck, NullAdd, Settings, RootCheck, RootAdd,
   RootLevel, ConfigureStructlog, SetLevel, LevelsDone, call, At

-----------------------------------------------------------------------------
(* The application's routing.                                               *)

\* Where the steps of the calls are: those of the configure calls and of
\* set_module_log_levels, and those that look at structlog.
StepsOf(t) ==
  /\ pc[t] \in {"settings", "root_check", "root_add", "root_level", "structlog"} =>
       op[t] \in Configures
  /\ pc[t] = "levels" => op[t] \in SettersOfLevels
  /\ op[t] \in SettersOfLevels => pc[t] \notin {"look", "route", "package"}

\* A call about to route found the default, so it was there when it began.
SinceBegan(t) ==
  /\ pc[t] = "look" /\ began[t] # "default" => structlog # "default"
  /\ pc[t] = "route" => began[t] = "default"

\* The inductive invariant of routing.
RoutingInv == TypesInv /\ \A t \in Threads : StepsOf(t) /\ SinceBegan(t)

\* Every step keeps it.
LEMMA RoutingStep ==
  ASSUME RoutingInv, [Next]_vars
  PROVE  RoutingInv'
<1>0. TypesInv /\ TypesInv' /\ Progress
  BY TypesStep, NeverBack DEF RoutingInv, TypesInv
<1>1. ASSUME NEW u \in Threads, Call(u) \/ Step(u), NEW t \in Threads \ {u}
      PROVE  StepsOf(t)' /\ SinceBegan(t)'
  BY <1>0, <1>1, OthersStand DEF RoutingInv, StepsOf, SinceBegan, Progress
<1>2. ASSUME NEW u \in Threads, Call(u) PROVE StepsOf(u)' /\ SinceBegan(u)'
  <2> USE DEF TypesInv, ThreadTypes, OtherTypes
  <2>1. structlog' = structlog /\ began'[u] = structlog
    BY <1>0, <1>2 DEF Call, InstallConfig, Library, ConfigurePackageLogging,
       ConfigureLogging, SetModuleLogLevels, Begin, handlers
  <2>2. StepsOf(u)'
    BY <1>0, <1>2 DEF Call, InstallConfig, Library, ConfigurePackageLogging,
       ConfigureLogging, SetModuleLogLevels, Begin, Goto, End, StepsOf, SettersOfLevels, Configures
  <2>3. pc'[u] # "route"
    BY <1>0, <1>2 DEF Call, InstallConfig, Library, ConfigurePackageLogging,
       ConfigureLogging, SetModuleLogLevels, Goto, End
  <2> QED
    BY <2>1, <2>2, <2>3 DEF SinceBegan
<1>3. ASSUME NEW u \in Threads, Step(u) PROVE StepsOf(u)' /\ SinceBegan(u)'
  <2>0. UNCHANGED <<op, began>> /\ StepsOf(u) /\ SinceBegan(u)
    BY <1>3, StepsInside DEF RoutingInv
  <2>1. StepsOf(u)'
    BY <1>0, <1>3, <2>0 DEF Step, Look, Route, Package, NullCheck, NullAdd, Settings,
       RootCheck, RootAdd, RootLevel, ConfigureStructlog, SetLevel, LevelsDone,
       AfterRouting, AfterNull, At, Goto, End, StepsOf, SettersOfLevels, Configures,
       TypesInv, ThreadTypes
  <2>2. pc'[u] # "look" /\ (pc'[u] = "route" => pc[u] = "look" /\ structlog = "default")
    BY <1>0, <1>3 DEF Step, Look, Route, Package, NullCheck, NullAdd, Settings,
       RootCheck, RootAdd, RootLevel, ConfigureStructlog, SetLevel, LevelsDone,
       AfterRouting, AfterNull, At, Goto, End, TypesInv, ThreadTypes
  <2> QED
    BY <2>0, <2>1, <2>2 DEF SinceBegan
<1>4. CASE AppConfiguresStructlog \/ AppAddsHandler \/ Finished \/ UNCHANGED vars
  BY <1>0, <1>4, AllStand DEF RoutingInv, StepsOf, SinceBegan, Progress
<1>5. ASSUME NEW u \in Threads, Call(u) \/ Step(u)
      PROVE  \A t \in Threads : StepsOf(t)' /\ SinceBegan(t)'
  BY <1>1, <1>2, <1>3, <1>5
<1>6. CASE \E u \in Threads : Call(u) \/ Step(u)
  BY <1>0, <1>5, <1>6 DEF RoutingInv
<1> QED
  BY <1>4, <1>6 DEF Next

\* It holds at first.
LEMMA RoutingInit == Init => RoutingInv
BY TypesInit DEF Init, RoutingInv, StepsOf, SinceBegan, SettersOfLevels, Configures

\* No step takes the application's routing away but one of an explicit set-up,
\* or of a library's call that began when there was none.
LEMMA RoutingKept ==
  ASSUME RoutingInv, [Next]_vars, structlog = "application", structlog' # "application"
  PROVE  \E t \in Threads : /\ pc'[t] # pc[t]
                            /\ \/ op[t] \in Configures
                               \/ began[t] = "default"
<1>1. PICK u \in Threads : Route(u) \/ ConfigureStructlog(u)
  BY DEF Next, Call, Step, InstallConfig, Library, ConfigurePackageLogging,
     ConfigureLogging, SetModuleLogLevels, Look, Package, NullCheck, NullAdd, Settings,
     RootCheck, RootAdd, RootLevel, SetLevel, LevelsDone, AppConfiguresStructlog, AppAddsHandler, Finished,
     handlers, vars
<1>2. pc'[u] # pc[u]
  BY <1>1 DEF Route, ConfigureStructlog, AfterRouting, At, Goto, End, RoutingInv,
     TypesInv, ThreadTypes
<1>3. op[u] \in Configures \/ began[u] = "default"
  BY <1>1 DEF Route, ConfigureStructlog, At, RoutingInv, StepsOf, SinceBegan
<1> QED
  BY <1>2, <1>3

\* A configuration of the application's own is only ever replaced by an
\* explicit set-up, or by a library whose call began when there was none.
THEOREM AppRoutingIsKept == Spec => KeepsAppRouting
<1>1. RoutingInv /\ [Next]_vars => RoutingInv'
  BY RoutingStep
<1>2. RoutingInv /\ [Next]_vars =>
        [structlog = "application" /\ structlog' # "application" =>
           \E t \in Threads : /\ pc'[t] # pc[t]
                              /\ \/ op[t] \in Configures
                                 \/ began[t] = "default"]_vars
  BY RoutingKept
<1> QED
  BY <1>1, <1>2, RoutingInit, PTL DEF Spec, KeepsAppRouting

-----------------------------------------------------------------------------
(* Levels.                                                                  *)

\* An undisturbed call is the only one that sets levels.
OnlyOne(t) ==
  alone[t] => \A d \in Threads \ {t} : pc[d] = "idle" \/ op[d] \notin SettersOfLevels

\* Logger n has the level that the snapshot of thread t wants; one is still to
\* be set for it.
AsWanted(t, n) == level[n] = settings[t].third
Pending(t, n) == \E i \in DOMAIN todo[t] : todo[t][i].name = n

\* What is still to be set is what the snapshot wants.
Wanted(t) ==
  \A i \in DOMAIN todo[t] :
    /\ todo[t][i].name \in {package[t]} \cup Names(settings[t].quiet)
    /\ todo[t][i].level \in Levels
    /\ todo[t][i].name \in Names(settings[t].quiet) => todo[t][i].level = settings[t].third

\* In the loop over the levels, each is set or still to set.
InTheLoop(t) ==
  /\ Wanted(t)
  /\ AsWanted(t, Root)
  /\ \A n \in Names(settings[t].quiet) : AsWanted(t, n) \/ Pending(t, n)
  /\ level[package[t]] # NotSet \/ Pending(t, package[t])

\* An undisturbed configure call on its way.
OnItsWay(t) ==
  op[t] \in Configures /\ alone[t] =>
    /\ pc[t] = "structlog" => AsWanted(t, Root)
    /\ pc[t] = "levels" => InTheLoop(t)
    /\ pc[t] = "idle" /\ outcome[t] = "returned" =>
         /\ \A n \in {Root} \cup Names(settings[t].quiet) : AsWanted(t, n)
         /\ level[package[t]] # NotSet

\* The inductive invariant of levels.
LevelsInv == RoutingInv /\ \A t \in Threads : OnlyOne(t) /\ OnItsWay(t)

\* Every step leaves an undisturbed call the only one that sets levels.
LEMMA OnlyOneStep ==
  ASSUME LevelsInv, [Next]_vars, NEW t \in Threads
  PROVE  OnlyOne(t)'
<1> USE DEF LevelsInv, RoutingInv, TypesInv, ThreadTypes, OtherTypes
<1>1. ASSUME NEW u \in Threads,
             ConfigurePackageLogging(u) \/ ConfigureLogging(u) \/ SetModuleLogLevels(u)
      PROVE  OnlyOne(t)'
  <2>1. alone' = [v \in Threads |->
                    /\ v = u
                    /\ \A d \in Threads \ {u} : pc[d] = "idle" \/ op[d] \notin SettersOfLevels]
    BY <1>1 DEF ConfigurePackageLogging, ConfigureLogging, SetModuleLogLevels, Disturb, At
  <2>2. \A d \in Threads \ {u} : pc'[d] = pc[d] /\ op'[d] = op[d]
    BY <1>1, OthersStand DEF Call
  <2> QED
    BY <2>1, <2>2 DEF OnlyOne
<1>2. ASSUME NEW u \in Threads, InstallConfig(u) \/ Library(u)
      PROVE  OnlyOne(t)'
  <2>1. op'[u] \notin SettersOfLevels /\ alone' = alone
    BY <1>2 DEF InstallConfig, Library, Begin, SettersOfLevels, Configures
  <2>2. \A d \in Threads \ {u} : pc'[d] = pc[d] /\ op'[d] = op[d]
    BY <1>2, OthersStand DEF Call
  <2> QED
    BY <2>1, <2>2 DEF OnlyOne
<1>3. ASSUME NEW u \in Threads, Step(u) PROVE OnlyOne(t)'
  <2>1. op' = op /\ alone' = alone /\ pc[u] # "idle"
    BY <1>3, StepsInside
  <2>2. \A d \in Threads \ {u} : pc'[d] = pc[d]
    BY <1>3, OthersStand
  <2> QED
    BY <2>1, <2>2 DEF OnlyOne
<1>4. CASE AppConfiguresStructlog \/ AppAddsHandler \/ Finished \/ UNCHANGED vars
  BY <1>4, AllStand DEF OnlyOne
<1> QED
  BY <1>1, <1>2, <1>3, <1>4 DEF Next, Call

\* A call that stands still while no level changes is where it was.
LEMMA WayKept ==
  ASSUME NEW t \in Threads, OnItsWay(t), level' = level,
         pc'[t] = pc[t], op'[t] = op[t], package'[t] = package[t],
         outcome'[t] = outcome[t], settings'[t] = settings[t], todo'[t] = todo[t],
         alone'[t] => alone[t]
  PROVE  OnItsWay(t)'
BY DEF OnItsWay, InTheLoop, Wanted, AsWanted, Pending

\* One turn of the loop sets the first level there is still to set.
LEMMA OneTurn ==
  ASSUME RoutingInv, NEW t \in Threads, SetLevel(t), InTheLoop(t)
  PROVE  InTheLoop(t)'
<1> DEFINE s == Head(todo[t])
<1> USE DEF RoutingInv, TypesInv, ThreadTypes, OtherTypes, ConfigsReady
<1>1. /\ todo[t] \in Seq(Setting) /\ Len(todo[t]) \in Nat /\ Len(todo[t]) # 0
      /\ DOMAIN todo[t] = 1..Len(todo[t]) /\ s = todo[t][1] /\ s \in Setting
  BY DEF SetLevel
<1>2. /\ DOMAIN todo'[t] = 1..(Len(todo[t]) - 1)
      /\ \A i \in 1..(Len(todo[t]) - 1) : todo'[t][i] = todo[t][i + 1]
  <2>1. todo'[t] = Tail(todo[t])
    BY DEF SetLevel
  <2> QED
    BY <1>1, <2>1
<1>3. /\ UNCHANGED <<package, settings>>
      /\ s.level # Unknown => level' = [level EXCEPT ![s.name] = s.level]
  BY DEF SetLevel, call
<1>4. 1 \in DOMAIN todo[t]
  BY <1>1
<1>5. /\ s.name \in {package[t]} \cup Names(settings[t].quiet)
      /\ s.level \in Levels
      /\ s.name \in Names(settings[t].quiet) => s.level = settings[t].third
  BY <1>1, <1>4 DEF InTheLoop, Wanted
<1> HIDE DEF s
<1>6. level' = [level EXCEPT ![s.name] = s.level]
  BY <1>3, <1>5, ConfigAssumption
<1>7. s.name \in Loggers /\ s.level # NotSet
  BY <1>1, <1>5, LoggingAssumption DEF Setting
<1>8. \A n \in Loggers : level'[n] = IF n = s.name THEN s.level ELSE level[n]
  BY <1>6, <1>7
<1>9. \A i \in 1..(Len(todo[t]) - 1) : i + 1 \in DOMAIN todo[t]
  BY <1>1
<1>10. Wanted(t)'
  <2>1. \A i \in DOMAIN todo'[t] : i + 1 \in DOMAIN todo[t] /\ todo'[t][i] = todo[t][i + 1]
    BY <1>2, <1>9
  <2>2. Wanted(t)
    BY DEF InTheLoop
  <2> QED
    <3>1. ASSUME NEW i \in DOMAIN todo'[t], NEW w, w = todo'[t][i]
          PROVE  /\ w.name \in {package[t]} \cup Names(settings[t].quiet)
                 /\ w.level \in Levels
                 /\ w.name \in Names(settings[t].quiet) => w.level = settings[t].third
      BY <2>1, <2>2, <3>1 DEF Wanted
    <3> QED
      BY <1>3, <3>1 DEF Wanted
<1>11. ASSUME NEW n, Pending(t, n), n # s.name PROVE Pending(t, n)'
  <2>1. PICK i \in DOMAIN todo[t] : todo[t][i].name = n
    BY <1>11 DEF Pending
  <2>2. i # 1
    BY <1>1, <1>11, <2>1
  <2>3. i - 1 \in 1..(Len(todo[t]) - 1) /\ (i - 1) + 1 = i
    BY <1>1, <2>1, <2>2
  <2>4. todo'[t][i - 1].name = n
    BY <1>2, <2>1, <2>3
  <2> QED
    BY <1>2, <2>3, <2>4 DEF Pending
<1>12. ASSUME NEW n \in Names(settings[t].quiet), AsWanted(t, n) \/ Pending(t, n)
       PROVE  AsWanted(t, n)' \/ Pending(t, n)'
  <2>1. n \in Loggers
    BY <1>12, QuietAreLoggers
  <2>2. CASE n = s.name
    BY <1>3, <1>5, <1>8, <2>1, <2>2 DEF AsWanted
  <2>3. CASE n # s.name
    BY <1>3, <1>8, <1>11, <1>12, <2>1, <2>3 DEF AsWanted
  <2> QED
    BY <2>2, <2>3
<1>13. AsWanted(t, Root)'
  <2>1. Root \in Loggers /\ Root # package[t]
    BY LoggingAssumption
  <2>2. AsWanted(t, Root)
    BY DEF InTheLoop
  <2> QED
    BY <1>3, <1>5, <1>8, <2>1, <2>2 DEF AsWanted
<1>14. level'[package[t]] # NotSet \/ Pending(t, package[t])'
  <2>1. package[t] \in Loggers
    BY LoggingAssumption
  <2>2. level[package[t]] # NotSet \/ Pending(t, package[t])
    BY DEF InTheLoop
  <2>3. CASE package[t] = s.name
    BY <1>7, <1>8, <2>1, <2>3
  <2>4. CASE package[t] # s.name
    <3>1. ASSUME NEW n, n = package[t], Pending(t, n) PROVE Pending(t, n)'
      BY <1>11, <2>4, <3>1
    <3>2. Pending(t, package[t]) => Pending(t, package[t])'
      BY <1>3, <3>1 DEF Pending
    <3> QED
      BY <1>3, <1>8, <2>1, <2>2, <2>4, <3>2
  <2> QED
    BY <2>3, <2>4
<1>15. \A n \in Names(settings[t].quiet) : AsWanted(t, n) \/ Pending(t, n)
  BY DEF InTheLoop
<1>16. \A n \in Names(settings'[t].quiet) : AsWanted(t, n)' \/ Pending(t, n)'
  BY <1>3, <1>12, <1>15
<1>17. level'[package'[t]] # NotSet \/ Pending(t, package[t])'
  BY <1>3, <1>14 DEF Pending
<1> QED
  BY <1>10, <1>13, <1>16, <1>17 DEF InTheLoop

\* The loop begins with all levels to set.
LEMMA LoopBegins ==
  ASSUME RoutingInv, NEW t \in Threads, ConfigureStructlog(t), AsWanted(t, Root)
  PROVE  InTheLoop(t)'
<1>0. /\ package[t] \in Packages /\ ReadyToRead(settings[t])
      /\ todo \in [Threads -> Seq(Setting)]
  BY DEF RoutingInv, TypesInv, ThreadTypes, OtherTypes, ConfigsReady
<1>1. PICK l \in Levels :
        todo' = [todo EXCEPT ![t] = ModuleLevels(package[t], l, settings[t])]
  BY DEF ConfigureStructlog, PackageLevels
<1> DEFINE m == ModuleLevels(package[t], l, settings[t])
<1>2. /\ \A i \in DOMAIN m : m[i].name \in {package[t]} \cup Names(settings[t].quiet)
      /\ \A n \in {package[t]} \cup Names(settings[t].quiet) : \E i \in DOMAIN m : m[i].name = n
      /\ \A i \in DOMAIN m :
           m[i].level = IF m[i].name \in Names(settings[t].quiet) THEN settings[t].third ELSE l
  <2> DEFINE s == settings[t]
             p == package[t]
  <2>1. p \in Packages /\ ReadyToRead(s) /\ l \in Levels /\ m = ModuleLevels(p, l, s)
    BY <1>0, <1>1
  <2> HIDE DEF m, s, p
  <2>2. /\ \A i \in DOMAIN m : m[i].name \in {p} \cup Names(s.quiet)
        /\ \A n \in {p} \cup Names(s.quiet) : \E i \in DOMAIN m : m[i].name = n
        /\ \A i \in DOMAIN m :
             m[i].level = IF m[i].name \in Names(s.quiet) THEN s.third ELSE l
    BY <2>1, ModuleLevelsAre
  <2> QED
    BY <2>2 DEF s, p
<1>3. todo'[t] = m /\ UNCHANGED <<package, settings, level>>
  BY <1>0, <1>1 DEF ConfigureStructlog, call
<1>4. settings[t].third \in Levels
  BY <1>0 DEF ReadyToRead
<1> HIDE DEF m
<1>6. Wanted(t)'
  BY <1>2, <1>3, <1>4 DEF Wanted
<1>8. \A n \in {package'[t]} \cup Names(settings'[t].quiet) : \E i \in DOMAIN todo'[t] : todo'[t][i].name = n
  BY <1>2, <1>3
<1>9. AsWanted(t, Root)'
  BY <1>3 DEF AsWanted
<1> QED
  BY <1>6, <1>8, <1>9 DEF InTheLoop, Pending

\* A step of an undisturbed configure call brings it further.
LEMMA WayAhead ==
  ASSUME LevelsInv, NEW u \in Threads, Step(u),
         op[u] \in Configures, alone[u]
  PROVE  OnItsWay(u)'
<1> USE DEF LevelsInv, RoutingInv, TypesInv, ThreadTypes, OtherTypes, ConfigsReady
<1>0. /\ UNCHANGED <<op, package, began, alone>>
      /\ OnItsWay(u) /\ StepsOf(u)
  BY StepsInside
<1>1. CASE ConfigureStructlog(u)
  <2>1. pc[u] = "structlog" /\ pc'[u] = "levels"
    BY <1>1 DEF ConfigureStructlog, At, Goto
  <2>2. AsWanted(u, Root)
    BY <1>0, <2>1 DEF OnItsWay
  <2>3. InTheLoop(u)'
    BY <1>1, <2>2, LoopBegins
  <2> QED
    BY <2>1, <2>3 DEF OnItsWay
<1>2. CASE SetLevel(u)
  <2>1. pc[u] = "levels" /\ pc'[u] = "levels"
    BY <1>2 DEF SetLevel, At, Goto
  <2>2. InTheLoop(u)
    BY <1>0, <2>1 DEF OnItsWay
  <2>3. InTheLoop(u)'
    BY <1>2, <2>2, OneTurn
  <2> QED
    BY <2>1, <2>3 DEF OnItsWay
<1>3. CASE LevelsDone(u)
  <2>1. pc[u] = "levels" /\ pc'[u] = "idle" /\ todo[u] = << >> /\ UNCHANGED <<level, settings>>
    BY <1>3 DEF LevelsDone, At, End
  <2>2. InTheLoop(u)
    BY <1>0, <2>1 DEF OnItsWay
  <2>3. \A n : ~Pending(u, n)
    BY <2>1 DEF Pending
  <2>4. /\ \A n \in {Root} \cup Names(settings[u].quiet) : AsWanted(u, n)
        /\ level[package[u]] # NotSet
    BY <2>2, <2>3 DEF InTheLoop
  <2> QED
    BY <1>0, <2>1, <2>4 DEF OnItsWay, AsWanted
<1>4. CASE RootLevel(u)
  <2>1. CASE pc'[u] = "structlog"
    <3>1. level' = [level EXCEPT ![Root] = settings[u].third] /\ settings' = settings
      BY <1>4, <2>1 DEF RootLevel, Goto, End
    <3>2. AsWanted(u, Root)'
      BY <3>1, LoggingAssumption DEF AsWanted
    <3> QED
      BY <2>1, <3>2 DEF OnItsWay
  <2>2. CASE pc'[u] # "structlog"
    BY <1>4, <2>2 DEF RootLevel, Goto, End, OnItsWay
  <2> QED
    BY <2>1, <2>2
<1>5. CASE \/ Look(u) \/ Route(u) \/ Package(u) \/ NullCheck(u) \/ NullAdd(u)
           \/ Settings(u) \/ RootCheck(u) \/ RootAdd(u)
  <2>1. pc'[u] \notin {"structlog", "levels"} /\ (pc'[u] = "idle" => outcome'[u] # "returned")
    BY <1>0, <1>5 DEF Look, Route, Package, NullCheck, NullAdd, Settings, RootCheck,
       RootAdd, AfterRouting, AfterNull, At, Goto, End, StepsOf, SettersOfLevels, Configures
  <2> QED
    BY <2>1 DEF OnItsWay
<1> QED
  BY <1>1, <1>2, <1>3, <1>4, <1>5 DEF Step

\* Every step keeps a call on its way: it is the only one to set levels.
LEMMA OnItsWayStep ==
  ASSUME LevelsInv, [Next]_vars, NEW t \in Threads
  PROVE  OnItsWay(t)'
<1>0. TypesInv /\ RoutingInv /\ OnItsWay(t) /\ OnlyOne(t)
  BY DEF LevelsInv, RoutingInv
<1>1. ASSUME NEW u \in Threads, Call(u) PROVE OnItsWay(t)'
  <2>1. level' = level
    BY <1>1 DEF Call, InstallConfig, Library, ConfigurePackageLogging,
       ConfigureLogging, SetModuleLogLevels
  <2>2. CASE t = u
    <3>1. op'[u] \in Configures => pc'[u] \in {"settings", "null_check"}
      BY <1>0, <1>1 DEF Call, InstallConfig, Library, ConfigurePackageLogging,
         ConfigureLogging, SetModuleLogLevels, Begin, Goto, End, TypesInv, ThreadTypes,
         Configures
    <3> QED
      BY <2>2, <3>1 DEF OnItsWay
  <2>3. CASE t # u
    BY <1>0, <1>1, <2>1, <2>3, OthersStand, WayKept
  <2> QED
    BY <2>2, <2>3
<1>2. ASSUME NEW u \in Threads, Step(u) PROVE OnItsWay(t)'
  <2>0. UNCHANGED <<op, package, began, alone>> /\ pc[u] # "idle"
    BY <1>2, StepsInside
  <2>1. CASE op[t] \notin Configures \/ ~alone[t]
    BY <2>0, <2>1 DEF OnItsWay
  <2>2. CASE op[t] \in Configures /\ alone[t] /\ t = u
    BY <1>2, <2>2, WayAhead
  <2>3. CASE op[t] \in Configures /\ alone[t] /\ t # u
    <3>1. op[u] \notin SettersOfLevels
      BY <1>0, <2>0, <2>3 DEF OnlyOne
    <3>2. StepsOf(u)
      BY <1>0 DEF RoutingInv
    <3>3. ~RootLevel(u) /\ ~SetLevel(u)
      BY <3>1, <3>2 DEF RootLevel, SetLevel, At, StepsOf, SettersOfLevels, Configures
    <3>4. level' = level
      BY <1>2, <3>3 DEF Step, Look, Route, Package, NullCheck, NullAdd, Settings,
         RootCheck, RootAdd, ConfigureStructlog, LevelsDone
    <3> QED
      BY <1>0, <1>2, <2>3, <3>4, OthersStand, WayKept
  <2> QED
    BY <2>1, <2>2, <2>3
<1>3. CASE AppConfiguresStructlog \/ AppAddsHandler \/ Finished \/ UNCHANGED vars
  BY <1>0, <1>3, AllStand, WayKept
<1> QED
  BY <1>1, <1>2, <1>3 DEF Next

\* A configure call that no other setter of levels disturbs leaves the levels
\* of the one snapshot it read, whatever is installed meanwhile: on the root,
\* on the names to keep quiet, and some level on its own package.
THEOREM LevelsBelongTogether == Spec => []LevelsOfOneSnapshot
<1>1. Init => LevelsInv
  <2> SUFFICES ASSUME Init PROVE LevelsInv
    OBVIOUS
  <2>1. \A t \in Threads : OnlyOne(t) /\ OnItsWay(t)
    BY DEF Init, OnlyOne, OnItsWay
  <2> QED
    BY <2>1, RoutingInit DEF LevelsInv
<1>2. LevelsInv /\ [Next]_vars => LevelsInv'
  BY RoutingStep, OnlyOneStep, OnItsWayStep DEF LevelsInv
<1>3. LevelsInv => LevelsOfOneSnapshot
  BY DEF LevelsInv, LevelsOfOneSnapshot, OnItsWay, AsWanted, At
<1> QED
  BY <1>1, <1>2, <1>3, PTL DEF Spec
=============================================================================
