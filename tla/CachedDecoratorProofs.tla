------------------------ MODULE CachedDecoratorProofs ------------------------
(***************************************************************************)
(* Theorems about CachedDecorator, for every number of callers, keys,      *)
(* versions of the source and calls, whatever modes they call in.          *)
(***************************************************************************)
EXTENDS CachedDecorator, TLAPS

USE ModesAssumption, NoneAssumption
USE DEF cache, call, history, Locations, ModeNames, Versions, At, Goto, Proceed, Return, Raise

-----------------------------------------------------------------------------
(* Types.                                                                   *)

LEMMA InitType == Init => TypeOK
BY DEF Init, TypeOK

\* Replacing an entry keeps the types.
LEMMA WriteType ==
  ASSUME TypeOK, NEW c \in Callers, Write(c)
  PROVE  /\ cell' \in [Keys -> Versions \cup {None}]
         /\ wrote' \in [Callers -> BOOLEAN]
         /\ overtaken' \in [Callers -> SUBSET ModeNames]
<1>1. ASSUME NEW d \in Callers PROVE overtaken[d] \cup {mode[c]} \subseteq ModeNames
  BY DEF TypeOK
<1> QED
  BY <1>1 DEF TypeOK, Write

\* Every step keeps every variable in its type.
LEMMA NextType == TypeOK /\ [Next]_vars => TypeOK'
<1> SUFFICES ASSUME TypeOK, [Next]_vars PROVE TypeOK'
  OBVIOUS
<1> USE DEF TypeOK
<1>1. ASSUME NEW c \in Callers, Call(c) PROVE TypeOK'
  BY <1>1 DEF Call
<1>2. ASSUME NEW c \in Callers, EmitMissFirst(c) PROVE TypeOK'
  BY <1>2 DEF EmitMissFirst, Emit
<1>3. ASSUME NEW c \in Callers, Get(c) PROVE TypeOK'
  BY <1>3 DEF Get
<1>4. ASSUME NEW c \in Callers, Func(c) PROVE TypeOK'
  BY <1>4 DEF Func
<1>5. ASSUME NEW c \in Callers, Leave(c) PROVE TypeOK'
  <2>1. CASE Write(c)
    BY <1>5, <2>1, WriteType DEF Leave
  <2>2. CASE UNCHANGED <<cell, wrote, overtaken>>
    BY <1>5, <2>2 DEF Leave
  <2> QED
    BY <1>5, <2>1, <2>2 DEF Leave
<1>6. ASSUME NEW c \in Callers, Set(c) PROVE TypeOK'
  <2>1. CASE Write(c)
    BY <1>6, <2>1, WriteType DEF Set
  <2>2. CASE UNCHANGED <<cell, wrote, overtaken>>
    BY <1>6, <2>2 DEF Set
  <2> QED
    BY <1>6, <2>1, <2>2 DEF Set
<1>7. ASSUME NEW c \in Callers, EmitHit(c) PROVE TypeOK'
  BY <1>7 DEF EmitHit, Emit
<1>8. ASSUME NEW c \in Callers, EmitMiss(c) PROVE TypeOK'
  BY <1>8 DEF EmitMiss, Emit
<1>9. ASSUME NEW c \in Callers, EmitStore(c) PROVE TypeOK'
  BY <1>9 DEF EmitStore, Emit
<1>10. CASE Change
  BY <1>10 DEF Change
<1>11. CASE Close
  BY <1>11 DEF Close
<1>12. ASSUME NEW k \in Keys, Forget(k) PROVE TypeOK'
  BY <1>12 DEF Forget
<1>13. CASE Finished
  BY <1>13 DEF Finished, vars
<1>14. CASE UNCHANGED vars
  BY <1>14 DEF vars
<1> QED
  BY <1>1, <1>2, <1>3, <1>4, <1>5, <1>6, <1>7, <1>8, <1>9, <1>10, <1>11, <1>12,
     <1>13, <1>14 DEF Next, Step

\* Whatever the callers do, every variable keeps its type.
THEOREM DecoratorTypes == Spec => []TypeOK
<1> QED
  BY InitType, NextType, PTL DEF Spec

-----------------------------------------------------------------------------
(* Events.                                                                  *)

\* What a call has reported, run and written at each of its points.
Told(c) ==
  /\ pc[c] \in {"emit_miss_first", "get", "emit_hit"} =>
       emitted[c] = {} /\ ~ran[c] /\ ~wrote[c]
  /\ pc[c] = "emit_miss_first" => mode[c] # "cached"
  /\ pc[c] = "get" => mode[c] = "cached"
  /\ pc[c] = "func" =>
       /\ emitted[c] = IF mode[c] = "cached" THEN {} ELSE {"miss"}
       /\ ~ran[c] /\ ~wrote[c]
  /\ pc[c] = "leave" => mode[c] = "cached" /\ emitted[c] = {} /\ ran[c] /\ ~wrote[c]
  /\ pc[c] = "set" => mode[c] = "refresh" /\ emitted[c] = {"miss"} /\ ran[c] /\ ~wrote[c]
  /\ pc[c] = "emit_miss" =>
       /\ emitted[c] = {} /\ ran[c]
       /\ wrote[c] => result[c] # None
       /\ open /\ result[c] # None => wrote[c]
  /\ pc[c] = "emit_store" => emitted[c] = {"miss"} /\ ran[c] /\ (open => wrote[c])

\* The inductive invariant of the events.
EventsInv ==
  /\ TypeOK
  /\ \A c \in Callers : Told(c)
  /\ EventsMatch
  /\ OpenStoresAreReal

\* A step of one caller tells nothing about the calls of the others.
LEMMA EventsStep == EventsInv /\ [Next]_vars => EventsInv'
<1> SUFFICES ASSUME EventsInv, [Next]_vars PROVE EventsInv'
  OBVIOUS
<1>0. TypeOK /\ TypeOK'
  BY NextType DEF EventsInv
<1> DEFINE Of(c) ==
      /\ Told(c)
      /\ pc[c] = "idle" /\ outcome[c] # "none" => EventsTell(c)
      /\ "store" \in emitted[c] /\ open => wrote[c]
      Others(c) == \A d \in Callers \ {c} :
        /\ pc'[d] = pc[d] /\ mode'[d] = mode[d] /\ result'[d] = result[d]
        /\ emitted'[d] = emitted[d] /\ ran'[d] = ran[d] /\ wrote'[d] = wrote[d]
        /\ outcome'[d] = outcome[d]
<1>a. \A c \in Callers : Of(c)
  BY DEF EventsInv, EventsMatch, OpenStoresAreReal, At
<1> SUFFICES \A c \in Callers : Of(c)'
  BY <1>0 DEF EventsInv, EventsMatch, OpenStoresAreReal, At
\* Only c moves.
<1>b. ASSUME NEW c \in Callers,
             Others(c), open' = open, Of(c)'
      PROVE  \A d \in Callers : Of(d)'
  BY <1>a, <1>b DEF Told, EventsTell
<1>1. ASSUME NEW c \in Callers, Call(c) PROVE \A d \in Callers : Of(d)'
  <2>1. Of(c)'
    BY <1>0, <1>1 DEF Call, TypeOK, Told, EventsTell
  <2>2. Others(c) /\ open' = open
    BY <1>0, <1>1 DEF Call, TypeOK
  <2> QED
    BY <1>b, <2>1, <2>2
<1>2. ASSUME NEW c \in Callers, EmitMissFirst(c) PROVE \A d \in Callers : Of(d)'
  <2>1. Of(c)'
    BY <1>0, <1>a, <1>2 DEF EmitMissFirst, Emit, TypeOK, Told, EventsTell
  <2> QED
    BY <1>0, <1>2, <1>b, <2>1 DEF EmitMissFirst, Emit, TypeOK
<1>3. ASSUME NEW c \in Callers, Get(c) PROVE \A d \in Callers : Of(d)'
  <2>1. Of(c)'
    BY <1>0, <1>a, <1>3 DEF Get, TypeOK, Told, EventsTell
  <2> QED
    BY <1>0, <1>3, <1>b, <2>1 DEF Get, TypeOK
<1>4. ASSUME NEW c \in Callers, Func(c) PROVE \A d \in Callers : Of(d)'
  <2>1. Of(c)'
    BY <1>0, <1>a, <1>4 DEF Func, TypeOK, Told, EventsTell
  <2>2. Others(c) /\ open' = open
    BY <1>0, <1>4 DEF Func, TypeOK
  <2> QED
    BY <1>b, <2>1, <2>2
<1>5. ASSUME NEW c \in Callers, Leave(c) PROVE \A d \in Callers : Of(d)'
  <2>1. Of(c)'
    BY <1>0, <1>a, <1>5 DEF Leave, Write, TypeOK, Told, EventsTell
  <2> QED
    BY <1>0, <1>5, <1>b, <2>1 DEF Leave, Write, TypeOK
<1>6. ASSUME NEW c \in Callers, Set(c) PROVE \A d \in Callers : Of(d)'
  <2>1. Of(c)'
    BY <1>0, <1>a, <1>6 DEF Set, Write, TypeOK, Told, EventsTell
  <2> QED
    BY <1>0, <1>6, <1>b, <2>1 DEF Set, Write, TypeOK
<1>7. ASSUME NEW c \in Callers, EmitHit(c) PROVE \A d \in Callers : Of(d)'
  <2>1. Of(c)'
    BY <1>0, <1>a, <1>7 DEF EmitHit, Emit, TypeOK, Told, EventsTell
  <2>2. Others(c) /\ open' = open
    BY <1>0, <1>7 DEF EmitHit, Emit, TypeOK
  <2> QED
    BY <1>b, <2>1, <2>2
<1>8. ASSUME NEW c \in Callers, EmitMiss(c) PROVE \A d \in Callers : Of(d)'
  <2>1. Of(c)'
    BY <1>0, <1>a, <1>8 DEF EmitMiss, Emit, TypeOK, Told, EventsTell
  <2> QED
    BY <1>0, <1>8, <1>b, <2>1, SMTT(30) DEF EmitMiss, Emit, TypeOK
<1>9. ASSUME NEW c \in Callers, EmitStore(c) PROVE \A d \in Callers : Of(d)'
  <2>1. Of(c)'
    BY <1>0, <1>a, <1>9 DEF EmitStore, Emit, TypeOK, Told, EventsTell
  <2> QED
    BY <1>0, <1>9, <1>b, <2>1 DEF EmitStore, Emit, TypeOK
\* Nobody moves; the manager may be closed.
<1>c. ASSUME UNCHANGED <<pc, mode, result, emitted, ran, wrote, outcome>>, open' => open
      PROVE  \A c \in Callers : Of(c)'
  BY <1>a, <1>c DEF Told, EventsTell
<1>10. CASE Change
  BY <1>10, <1>c DEF Change
<1>11. CASE Close
  BY <1>11, <1>c DEF Close
<1>12. ASSUME NEW k \in Keys, Forget(k) PROVE \A c \in Callers : Of(c)'
  BY <1>12, <1>c DEF Forget
<1>13. CASE Finished \/ UNCHANGED vars
  BY <1>13, <1>c DEF Finished, vars
<1> QED
  BY <1>1, <1>2, <1>3, <1>4, <1>5, <1>6, <1>7, <1>8, <1>9, <1>10, <1>11, <1>12,
     <1>13 DEF Next, Step

LEMMA EventsInvHolds == Spec => []EventsInv
<1>1. Init => EventsInv
  BY InitType DEF Init, EventsInv, Told, EventsMatch, EventsTell, At, OpenStoresAreReal
<1> QED
  BY <1>1, EventsStep, PTL DEF Spec

\* The events of a call that is over agree with what it did, however the calls
\* of others, the closing of the manager and exceptions in callbacks fall.
THEOREM EventsAgree == Spec => []EventsMatch
<1>1. EventsInv => EventsMatch
  BY DEF EventsInv
<1> QED
  BY <1>1, EventsInvHolds, PTL

\* A store that was reported on a manager still open was made.
THEOREM ReportedStoresAreReal == Spec => []OpenStoresAreReal
<1>1. EventsInv => OpenStoresAreReal
  BY DEF EventsInv
<1> QED
  BY <1>1, EventsInvHolds, PTL

-----------------------------------------------------------------------------
(* Older results.                                                           *)

\* A caller that computes behind the lock holds it, unless the manager was
\* closed before; then it stores nothing.
HoldsLock(c) ==
  mode[c] = "cached" /\ pc[c] \in {"func", "leave"} /\ open => holder[key[c]] = c

\* A result about to be stored is as new as the entry, or was overtaken since
\* its function ran; behind the lock only a forced refresh overtakes.
InOrder(c) ==
  pc[c] \in {"leave", "set"} =>
    /\ result[c] # None /\ cell[key[c]] # None /\ overtaken[c] = {} =>
         cell[key[c]] <= result[c]
    /\ pc[c] = "leave" /\ open => overtaken[c] \subseteq {"refresh"}

\* The inductive invariant of the order of stores.
OrderInv ==
  /\ EventsInv
  /\ \A k \in Keys : cell[k] # None => cell[k] <= version
  /\ \A c \in Callers : result[c] # None => result[c] <= version
  /\ \A c \in Callers : HoldsLock(c) /\ InOrder(c)

\* What a store does to the calls that computed before it.
LEMMA WriteOrder ==
  ASSUME OrderInv, EventsInv', NEW c \in Callers, Write(c),
         pc[c] \in {"leave", "set"}, result[c] # None, open,
         UNCHANGED <<open, version, mode, key, result>>,
         \A d \in Callers \ {c} : pc'[d] = pc[d],
         pc'[c] \notin {"func", "leave", "set"},
         \A k \in Keys : holder[k] # c => holder'[k] = holder[k]
  PROVE  OrderInv'
<1> USE DEF OrderInv, EventsInv, TypeOK, Write
<1>1. \A k \in Keys : cell'[k] # None => cell'[k] <= version'
  OBVIOUS
<1>2. \A d \in Callers : result'[d] # None => result'[d] <= version'
  OBVIOUS
<1>3. ASSUME NEW d \in Callers PROVE HoldsLock(d)'
  BY DEF HoldsLock
<1>4. ASSUME NEW d \in Callers PROVE InOrder(d)'
  <2>1. CASE d = c
    BY <2>1 DEF InOrder
  <2>2. CASE d # c /\ key[d] # key[c]
    BY <2>2 DEF InOrder
  <2>3. CASE d # c /\ key[d] = key[c]
    <3>1. overtaken'[d] = overtaken[d] \cup {mode[c]}
      BY <2>3
    <3>2. ASSUME pc[d] = "leave" PROVE mode[c] = "refresh"
      BY <2>3, <3>2 DEF Told, HoldsLock
    <3> QED
      BY <2>3, <3>1, <3>2 DEF InOrder
  <2> QED
    BY <2>1, <2>2, <2>3
<1> QED
  BY <1>1, <1>2, <1>3, <1>4

LEMMA OrderStep == OrderInv /\ [Next]_vars => OrderInv'
<1> SUFFICES ASSUME OrderInv, [Next]_vars PROVE OrderInv'
  OBVIOUS
<1>0. EventsInv' /\ TypeOK' /\ TypeOK
  BY EventsStep DEF OrderInv, EventsInv
<1> DEFINE Rest == /\ \A k \in Keys : cell[k] # None => cell[k] <= version
                   /\ \A c \in Callers : result[c] # None => result[c] <= version
                   /\ \A c \in Callers : HoldsLock(c) /\ InOrder(c)
<1> SUFFICES Rest'
  BY <1>0 DEF OrderInv
<1>a. Rest
  BY DEF OrderInv
<1> HIDE DEF Rest
\* A caller that is not about to store moves, and stores nothing.
<1>b. ASSUME NEW c \in Callers,
             \A d \in Callers \ {c} :
               /\ pc'[d] = pc[d] /\ mode'[d] = mode[d] /\ key'[d] = key[d]
               /\ result'[d] = result[d] /\ overtaken'[d] = overtaken[d],
             result'[c] # None => result'[c] <= version,
             pc'[c] \notin {"func", "leave", "set"},
             \A k \in Keys : holder[k] # c => holder'[k] = holder[k],
             UNCHANGED <<cell, open, version>>
      PROVE  Rest'
  BY <1>0, <1>a, <1>b, SMTT(30) DEF Rest, HoldsLock, InOrder, TypeOK
\* Nobody moves; entries go, the source changes, the manager is closed.
<1>c. ASSUME UNCHANGED <<pc, mode, key, result, overtaken, holder>>,
             \A k \in Keys : cell'[k] \in {cell[k], None},
             version <= version', open' => open
      PROVE  Rest'
  BY <1>0, <1>a, <1>c DEF Rest, HoldsLock, InOrder, TypeOK
<1>1. ASSUME NEW c \in Callers, Call(c) PROVE Rest'
  BY <1>0, <1>1, <1>b DEF Call, TypeOK
<1>2. ASSUME NEW c \in Callers, EmitMissFirst(c) PROVE Rest'
  <2>1. CASE pc'[c] = "idle"
    BY <1>0, <1>2, <1>a, <1>b, <2>1 DEF EmitMissFirst, TypeOK, Rest
  <2>2. CASE pc' = [pc EXCEPT ![c] = "func"]
    <3>1. mode[c] # "cached"
      BY <1>2 DEF EmitMissFirst, OrderInv, EventsInv, Told
    <3> QED
      BY <1>0, <1>2, <1>a, <2>2, <3>1 DEF EmitMissFirst, TypeOK, Rest, HoldsLock, InOrder
  <2> QED
    BY <1>0, <1>2, <2>1, <2>2 DEF EmitMissFirst, TypeOK
<1>3. ASSUME NEW c \in Callers, Get(c) PROVE Rest'
  <2>1. CASE pc'[c] # "func"
    BY <1>0, <1>3, <1>a, <1>b, <2>1 DEF Get, TypeOK, Rest
  <2>2. CASE pc'[c] = "func"
    BY <1>0, <1>3, <1>a, <2>2 DEF Get, TypeOK, Rest, HoldsLock, InOrder
  <2> QED
    BY <2>1, <2>2
<1>4. ASSUME NEW c \in Callers, Func(c) PROVE Rest'
  <2>1. CASE pc'[c] = "idle"
    BY <1>0, <1>4, <1>a, <1>b, <2>1 DEF Func, TypeOK, Rest
  <2>2. CASE pc'[c] # "idle"
    <3>1. UNCHANGED <<cell, holder, open, version, mode, key>> /\ result'[c] \in {version, None}
      BY <1>0, <1>4, <2>2 DEF Func, TypeOK
    <3>2. overtaken'[c] = {}
      BY <1>0, <1>4 DEF Func, TypeOK
    <3>3. HoldsLock(c)' /\ InOrder(c)'
      BY <1>0, <1>4, <1>a, <2>2, <3>1, <3>2 DEF Func, TypeOK, Rest, HoldsLock, InOrder
    <3>4. ASSUME NEW d \in Callers \ {c} PROVE HoldsLock(d)' /\ InOrder(d)'
      BY <1>0, <1>4, <1>a, <2>2, <3>1 DEF Func, TypeOK, Rest, HoldsLock, InOrder
    <3>5. \A d \in Callers : result'[d] # None => result'[d] <= version'
      BY <1>0, <1>4, <1>a, <2>2, <3>1 DEF Func, TypeOK, Rest
    <3> QED
      BY <1>a, <3>1, <3>3, <3>4, <3>5 DEF Rest
  <2> QED
    BY <2>1, <2>2
<1>5. ASSUME NEW c \in Callers, Leave(c) PROVE Rest'
  <2>1. CASE result[c] # None /\ open /\ Write(c)
    BY <1>0, <1>5, <2>1, WriteOrder DEF Leave, TypeOK, OrderInv, Rest
  <2>2. CASE UNCHANGED <<cell, wrote, overtaken>>
    BY <1>0, <1>5, <1>a, <1>b, <2>2 DEF Leave, TypeOK, Rest
  <2> QED
    BY <1>5, <2>1, <2>2 DEF Leave
<1>6. ASSUME NEW c \in Callers, Set(c) PROVE Rest'
  <2>1. CASE result[c] # None /\ open /\ Write(c)
    BY <1>0, <1>6, <2>1, WriteOrder DEF Set, TypeOK, OrderInv, Rest
  <2>2. CASE UNCHANGED <<cell, wrote, overtaken>>
    BY <1>0, <1>6, <1>a, <1>b, <2>2 DEF Set, TypeOK, Rest
  <2> QED
    BY <1>6, <2>1, <2>2 DEF Set
<1>7. ASSUME NEW c \in Callers, EmitHit(c) PROVE Rest'
  BY <1>0, <1>7, <1>a, <1>b DEF EmitHit, TypeOK, Rest
<1>8. ASSUME NEW c \in Callers, EmitMiss(c) PROVE Rest'
  BY <1>0, <1>8, <1>a, <1>b DEF EmitMiss, TypeOK, Rest
<1>9. ASSUME NEW c \in Callers, EmitStore(c) PROVE Rest'
  BY <1>0, <1>9, <1>a, <1>b DEF EmitStore, TypeOK, Rest
<1>10. CASE Change
  BY <1>0, <1>10, <1>c DEF Change, TypeOK
<1>11. CASE Close
  BY <1>0, <1>11, <1>c DEF Close, TypeOK
<1>12. ASSUME NEW k \in Keys, Forget(k) PROVE Rest'
  BY <1>0, <1>12, <1>c DEF Forget, TypeOK
<1>13. CASE Finished \/ UNCHANGED vars
  BY <1>0, <1>13, <1>c DEF Finished, vars, TypeOK
<1> QED
  BY <1>1, <1>2, <1>3, <1>4, <1>5, <1>6, <1>7, <1>8, <1>9, <1>10, <1>11, <1>12,
     <1>13 DEF Next, Step

\* What a step that takes an entry back to an older one is.
GoesBack(k) == cell[k] # None /\ cell'[k] # None /\ cell'[k] < cell[k]
RacesRefresh(k) ==
  \E c \in Callers : /\ key[c] = k /\ ~wrote[c] /\ wrote'[c]
                     /\ overtaken[c] # {}
                     /\ "refresh" \in overtaken[c] \cup {mode[c]}

LEMMA OlderOnlyByRefresh ==
  ASSUME OrderInv, [Next]_vars, NEW k \in Keys, GoesBack(k)
  PROVE  RacesRefresh(k)
<1> USE DEF OrderInv, EventsInv, TypeOK, GoesBack
\* Only a store changes an entry to another.
<1>1. PICK c \in Callers :
        pc[c] \in {"leave", "set"} /\ result[c] # None /\ Write(c) /\ (pc[c] = "leave" => open)
  <2>1. ASSUME NEW c \in Callers, Leave(c) \/ Set(c)
        PROVE  pc[c] \in {"leave", "set"} /\ result[c] # None /\ Write(c) /\ (pc[c] = "leave" => open)
    BY <2>1 DEF Leave, Set
  <2>2. ASSUME NEW j \in Keys, Forget(j) PROVE FALSE
    BY <2>2 DEF Forget
  <2>3. cell' # cell
    OBVIOUS
  <2> QED
    BY <2>1, <2>2, <2>3 DEF Next, Step, Call, EmitMissFirst, Get, Func, EmitHit, EmitMiss,
                            EmitStore, Change, Close, Finished, vars
<1>2. key[c] = k /\ cell'[k] = result[c]
  BY <1>1 DEF Write
<1>3. ~wrote[c] /\ wrote'[c]
  BY <1>1 DEF Write, Told
<1>4. overtaken[c] # {}
  BY <1>1, <1>2 DEF InOrder
<1>5. "refresh" \in overtaken[c] \cup {mode[c]}
  BY <1>1, <1>4 DEF InOrder, Told
<1> QED
  BY <1>2, <1>3, <1>4, <1>5 DEF RacesRefresh

\* The cache goes back to an older result only where a forced refresh is one
\* of the two calls that race.
THEOREM OnlyRefreshesRace == Spec => OnlyRefreshesGoBack
<1>1. Init => OrderInv
  BY InitType DEF Init, OrderInv, EventsInv, Told, EventsMatch, EventsTell, At,
                  OpenStoresAreReal, HoldsLock, InOrder
<1>2. OrderInv /\ [Next]_vars => OrderInv'
  BY OrderStep
<1>3. OrderInv /\ [Next]_vars =>
        [\A k \in Keys :
           cell[k] # None /\ cell'[k] # None /\ cell'[k] < cell[k]
             => \E c \in Callers : /\ key[c] = k /\ ~wrote[c] /\ wrote'[c]
                                   /\ overtaken[c] # {}
                                   /\ "refresh" \in overtaken[c] \cup {mode[c]}]_vars
  BY OlderOnlyByRefresh DEF GoesBack, RacesRefresh
<1> QED
  BY <1>1, <1>2, <1>3, PTL DEF Spec, OnlyRefreshesGoBack
=============================================================================
