------------------------- MODULE CacheManagerProofs -------------------------
(***************************************************************************)
(* Theorems about CacheManager, for every number of threads, managers,     *)
(* keys, entries and calls, and about what managers store, StoredEntries,  *)
(* for every payload and threshold.                                        *)
(***************************************************************************)
EXTENDS CacheManager, StoredEntries, FiniteSetTheorems, WellFoundedInduction, TLAPS

USE DEF Critical, Locations, Outcomes, OpNames, store, stats, args

-----------------------------------------------------------------------------
(* Types.                                                                   *)

\* What a write or a lock does to the table, evicted rows included, keeps
\* its type.
LEMMA PutEntryType ==
  ASSUME TypeOK, NEW k \in Keys, NEW v \in Values \cup {None}, PutEntry(k, v)
  PROVE  /\ entry' \in [Keys -> Values \cup {None}]
         /\ lockRow' \subseteq lockRow
BY DEF TypeOK, PutEntry

LEMMA PutLockType ==
  ASSUME TypeOK, NEW k \in Keys, PutLock(k)
  PROVE  /\ entry' \in [Keys -> Values \cup {None}]
         /\ lockRow' \subseteq lockRow \cup {k}
BY DEF TypeOK, PutLock

LEMMA InitType == Init => TypeOK
BY CallersAssumption, ValuesAssumption DEF Init, TypeOK

\* Every step keeps every variable in its type.
LEMMA NextType == TypeOK /\ [Next]_vars => TypeOK'
<1> SUFFICES ASSUME TypeOK, [Next]_vars PROVE TypeOK'
  OBVIOUS
<1> USE CallersAssumption, ValuesAssumption
<1>1. ASSUME NEW c \in Callers, Invoke(c) PROVE TypeOK'
  BY <1>1 DEF TypeOK, Invoke, At, Goto, Conclude
<1>2. ASSUME NEW c \in Callers, Check(c) PROVE TypeOK'
  BY <1>2 DEF TypeOK, Check, At, Goto, Conclude, Carry
<1>3. ASSUME NEW c \in Callers, UseFails(c) PROVE TypeOK'
  BY <1>3 DEF TypeOK, UseFails, At, Goto, Conclude
<1>4. ASSUME NEW c \in Callers, Get(c) PROVE TypeOK'
  BY <1>4 DEF TypeOK, Get, Use, At, Goto, Conclude, Hit, Miss
<1>5. ASSUME NEW c \in Callers, Set(c) PROVE TypeOK'
  <2>1. PICK v \in Values : PutEntry(key[c], v) /\ Conclude(c, "done", v)
    BY <1>5 DEF Set
  <2>2. key[c] \in Keys
    BY DEF TypeOK
  <2>3. /\ entry' \in [Keys -> Values \cup {None}]
        /\ lockRow' \subseteq lockRow
    BY <2>1, <2>2, PutEntryType
  <2> QED
    BY <1>5, <2>1, <2>3 DEF TypeOK, Set, Use, At, Goto, Conclude
<1>6. ASSUME NEW c \in Callers, Delete(c) PROVE TypeOK'
  BY <1>6 DEF TypeOK, Delete, Use, At, Goto, Conclude
<1>7. ASSUME NEW c \in Callers, Has(c) PROVE TypeOK'
  BY <1>7 DEF TypeOK, Has, Use, At, Goto, Conclude
<1>26. ASSUME NEW c \in Callers, Stats(c) PROVE TypeOK'
  BY <1>26 DEF TypeOK, Stats, Use, At, Goto, Conclude
<1>8. ASSUME NEW c \in Callers, Clear(c) PROVE TypeOK'
  BY <1>8 DEF TypeOK, Clear, Use, At, Goto, Conclude
<1>9. ASSUME NEW c \in Callers, Close(c) PROVE TypeOK'
  BY <1>9 DEF TypeOK, Close, Use, At, Goto, Conclude
<1>10. ASSUME NEW c \in Callers, Probe(c) PROVE TypeOK'
  BY <1>10 DEF TypeOK, Probe, Lookup, At, Goto, Conclude, Carry, Hit
<1>11. ASSUME NEW c \in Callers, Lock(c) PROVE TypeOK'
  BY <1>11 DEF TypeOK, Lock, At, Goto, Conclude, Carry
<1>12. ASSUME NEW c \in Callers, Acquire(c) PROVE TypeOK'
  <2>1. key[c] \in Keys /\ PutLock(key[c])
    BY <1>12 DEF TypeOK, Acquire
  <2>2. /\ entry' \in [Keys -> Values \cup {None}]
        /\ lockRow' \subseteq lockRow \cup {key[c]}
    BY <2>1, PutLockType
  <2> QED
    BY <1>12, <2>1, <2>2 DEF TypeOK, Acquire, At, Goto, Carry
<1>13. ASSUME NEW c \in Callers, Poll(c) PROVE TypeOK'
  BY <1>13 DEF TypeOK, Poll, vars
<1>14. ASSUME NEW c \in Callers, Recheck(c) PROVE TypeOK'
  BY <1>14 DEF TypeOK, Recheck, At, Goto, Carry
<1>15. ASSUME NEW c \in Callers, Reread(c) PROVE TypeOK'
  BY <1>15 DEF TypeOK, Reread, Lookup, At, Goto, Conclude, Carry, Hit
<1>16. ASSUME NEW c \in Callers, Factory(c) PROVE TypeOK'
  BY <1>16 DEF TypeOK, Factory, At, Goto, Conclude, Miss
<1>17. ASSUME NEW c \in Callers, Store(c) PROVE TypeOK'
  BY <1>17 DEF TypeOK, Store, At, Goto, Conclude, Carry, Miss
<1>18. ASSUME NEW c \in Callers, Write(c) PROVE TypeOK'
  <2>1. key[c] \in Keys /\ val[c] \in Values \cup {None}
    BY DEF TypeOK
  <2>2. CASE PutEntry(key[c], val[c]) /\ Miss(c) /\ Conclude(c, "miss", val[c])
    <3>1. /\ entry' \in [Keys -> Values \cup {None}]
          /\ lockRow' \subseteq lockRow
      BY <2>1, <2>2, PutEntryType
    <3> QED
      BY <1>18, <2>1, <2>2, <3>1 DEF TypeOK, Write, At, Goto, Conclude, Miss
  <2>3. CASE Conclude(c, "raised", None) /\ UNCHANGED <<store, stats>>
    BY <1>18, <2>3 DEF TypeOK, Write, At, Goto, Conclude
  <2> QED
    BY <1>18, <2>2, <2>3 DEF Write
<1>19. ASSUME NEW c \in Callers, Release(c) PROVE TypeOK'
  BY <1>19 DEF TypeOK, Release, At, Goto, Carry
<1>20. ASSUME NEW c \in Callers, Bypass(c) PROVE TypeOK'
  BY <1>20 DEF TypeOK, Bypass, At, Goto, Conclude
<1>21. ASSUME NEW m \in Managers, Open(m) PROVE TypeOK'
  BY <1>21 DEF TypeOK, Open
<1>22. ASSUME NEW m \in Managers, Crash(m) PROVE TypeOK'
  BY <1>22 DEF TypeOK, Crash
<1>23. ASSUME NEW k \in Keys, Expire(k) PROVE TypeOK'
  BY <1>23 DEF TypeOK, Expire
<1>24. CASE Finished
  BY <1>24 DEF TypeOK, Finished, vars
<1>25. CASE UNCHANGED vars
  BY <1>25 DEF TypeOK, vars
<1> QED
  BY <1>1, <1>2, <1>3, <1>4, <1>5, <1>6, <1>7, <1>8, <1>9, <1>10, <1>11,
     <1>12, <1>13, <1>14, <1>15, <1>16, <1>17, <1>18, <1>19, <1>20, <1>21,
     <1>22, <1>23, <1>24, <1>25, <1>26 DEF Next, Step

\* Whatever the threads do, every variable keeps its type.
THEOREM TypesHold == Spec => []TypeOK
<1>1. Init => TypeOK
  BY InitType
<1>2. TypeOK /\ [Next]_vars => TypeOK'
  BY NextType
<1> QED
  BY <1>1, <1>2, PTL DEF Spec

-----------------------------------------------------------------------------
(* The lock.                                                                *)

\* No lock row disappears while its holder computes: the directory never
\* reaches its size limit and nobody calls clear.
NoLockLoss == ~MayEvict /\ "clear" \notin Ops

\* A call only ever reaches the code of an operation the threads do call.
Called(c) == pc[c] \in {"check", "use"} => op[c] \in Ops

\* The inductive invariant: a thread in the locked block has its row, and
\* shares it with no other.
LockInv ==
  /\ TypeOK
  /\ \A c \in Callers : Called(c)
  /\ \A c \in Callers : InCritical(c) => key[c] \in lockRow
  /\ SingleFlight

\* Without eviction a write touches one entry and a lock adds one row.
LEMMA PutEntryExact ==
  ASSUME ~MayEvict, NEW k, NEW v, PutEntry(k, v)
  PROVE  /\ entry' = [j \in Keys |-> IF j = k THEN v ELSE entry[j]]
         /\ lockRow' = lockRow
BY DEF PutEntry, Culled

LEMMA PutLockExact ==
  ASSUME ~MayEvict, TypeOK, NEW k, PutLock(k)
  PROVE  /\ entry' = entry
         /\ lockRow' = lockRow \cup {k}
BY DEF PutLock, Culled, TypeOK

LEMMA LockInvStep ==
  ASSUME NoLockLoss, LockInv, [Next]_vars
  PROVE  LockInv'
<1>0. TypeOK'
  BY NextType DEF LockInv
<1> DEFINE Rest == /\ \A c \in Callers : Called(c)
                   /\ \A c \in Callers : InCritical(c) => key[c] \in lockRow
                   /\ SingleFlight
<1> SUFFICES Rest'
  BY <1>0 DEF LockInv
<1> USE DEF LockInv, TypeOK, SingleFlight, InCritical, Called, At, Goto
\* A thread that stays out of the locked block, and leaves the rows alone.
<1>a. ASSUME NEW c \in Callers,
             \A d \in Callers \ {c} :
                pc'[d] = pc[d] /\ key'[d] = key[d] /\ op'[d] = op[d],
             ~InCritical(c)', Called(c)', lockRow' = lockRow
      PROVE  Rest'
  BY <1>a, <1>0, SMTT(30)
\* A thread that moves inside the locked block.
<1>b. ASSUME NEW c \in Callers, NEW l \in Critical,
             InCritical(c), pc' = [pc EXCEPT ![c] = l],
             UNCHANGED <<op, key, lockRow>>
      PROVE  Rest'
  BY <1>b, <1>0
<1>1. ASSUME NEW c \in Callers, Invoke(c) PROVE Rest'
  BY <1>1, <1>a, <1>0 DEF Invoke
<1>2. ASSUME NEW c \in Callers, Check(c) PROVE Rest'
  BY <1>2, <1>a, <1>0 DEF Check
<1>3. ASSUME NEW c \in Callers, UseFails(c) PROVE Rest'
  BY <1>3, <1>a, <1>0 DEF UseFails
<1>4. ASSUME NEW c \in Callers, Get(c) PROVE Rest'
  BY <1>4, <1>a, <1>0 DEF Get, Use
<1>5. ASSUME NEW c \in Callers, Set(c) PROVE Rest'
  <2>1. lockRow' = lockRow
    BY <1>5, PutEntryExact DEF Set, NoLockLoss
  <2> QED
    BY <1>5, <1>a, <1>0, <2>1 DEF Set, Use
<1>6. ASSUME NEW c \in Callers, Delete(c) PROVE Rest'
  BY <1>6, <1>a, <1>0 DEF Delete, Use
<1>7. ASSUME NEW c \in Callers, Has(c) PROVE Rest'
  BY <1>7, <1>a, <1>0 DEF Has, Use
<1>26. ASSUME NEW c \in Callers, Stats(c) PROVE Rest'
  BY <1>26, <1>a, <1>0 DEF Stats, Use
<1>8. ASSUME NEW c \in Callers, Clear(c) PROVE Rest'
  BY <1>8 DEF Clear, Use, NoLockLoss
<1>9. ASSUME NEW c \in Callers, Close(c) PROVE Rest'
  BY <1>9, <1>a, <1>0 DEF Close, Use
<1>10. ASSUME NEW c \in Callers, Probe(c) PROVE Rest'
  BY <1>10, <1>a, <1>0 DEF Probe, Lookup
<1>11. ASSUME NEW c \in Callers, Lock(c) PROVE Rest'
  BY <1>11, <1>a, <1>0 DEF Lock
<1>12. ASSUME NEW c \in Callers, Acquire(c) PROVE Rest'
  <2>1. lockRow' = lockRow \cup {key[c]}
    BY <1>12, PutLockExact DEF Acquire, NoLockLoss
  <2>2. \A d \in Callers : InCritical(d) => key[d] # key[c]
    BY <1>12 DEF Acquire
  <2> QED
    BY <1>12, <1>0, <2>1, <2>2 DEF Acquire
<1>13. ASSUME NEW c \in Callers, Poll(c) PROVE Rest'
  BY <1>13 DEF Poll, vars
<1>14. ASSUME NEW c \in Callers, Recheck(c) PROVE Rest'
  BY <1>14, <1>b DEF Recheck
<1>15. ASSUME NEW c \in Callers, Reread(c) PROVE Rest'
  BY <1>15, <1>b DEF Reread, Lookup
<1>16. ASSUME NEW c \in Callers, Factory(c) PROVE Rest'
  BY <1>16, <1>b DEF Factory
<1>17. ASSUME NEW c \in Callers, Store(c) PROVE Rest'
  BY <1>17, <1>b DEF Store
<1>18. ASSUME NEW c \in Callers, Write(c) PROVE Rest'
  <2>1. lockRow' = lockRow
    BY <1>18, PutEntryExact DEF Write, NoLockLoss
  <2> QED
    BY <1>18, <1>b, <2>1 DEF Write
<1>19. ASSUME NEW c \in Callers, Release(c) PROVE Rest'
  <2>1. \A d \in Callers : d # c /\ InCritical(d) => key[d] # key[c]
    BY <1>19 DEF Release
  <2> QED
    BY <1>19, <1>0, <2>1 DEF Release
<1>20. ASSUME NEW c \in Callers, Bypass(c) PROVE Rest'
  BY <1>20, <1>a, <1>0 DEF Bypass
<1>21. ASSUME NEW m \in Managers, Open(m) PROVE Rest'
  BY <1>21 DEF Open
<1>22. ASSUME NEW m \in Managers, Crash(m) PROVE Rest'
  BY <1>22, <1>0 DEF Crash
<1>23. ASSUME NEW k \in Keys, Expire(k) PROVE Rest'
  BY <1>23 DEF Expire
<1>24. CASE UNCHANGED vars
  BY <1>24 DEF vars
<1>25. CASE Finished
  BY <1>24, <1>25 DEF Finished
<1> QED
  BY <1>1, <1>2, <1>3, <1>4, <1>5, <1>6, <1>7, <1>8, <1>9, <1>10, <1>11,
     <1>12, <1>13, <1>14, <1>15, <1>16, <1>17, <1>18, <1>19, <1>20, <1>21,
     <1>22, <1>23, <1>24, <1>25, <1>26 DEF Next, Step

LEMMA LockInvHolds == NoLockLoss => (Spec => []LockInv)
<1> SUFFICES ASSUME NoLockLoss PROVE Spec => []LockInv
  OBVIOUS
<1>1. Init => LockInv
  BY InitType DEF Init, LockInv, Called, InCritical, SingleFlight
<1>2. LockInv /\ [Next]_vars => LockInv'
  BY LockInvStep
<1> QED
  BY <1>1, <1>2, PTL DEF Spec

\* While no lock row is lost, at most one thread of all the processes on the
\* directory is computing an entry of a key, even if processes die.
THEOREM OneFlightPerKey == NoLockLoss => (Spec => []SingleFlight)
<1>1. LockInv => SingleFlight
  BY DEF LockInv
<1> QED
  BY <1>1, LockInvHolds, PTL

-----------------------------------------------------------------------------
(* No row outlives its call.                                                *)

LEMMA NoOrphanStep ==
  ASSUME ~MayCrash, TypeOK, NoOrphanLock, [Next]_vars
  PROVE  NoOrphanLock'
<1>0. TypeOK'
  BY NextType
<1> USE DEF NoOrphanLock, InCritical, TypeOK, At, Goto
\* A step that keeps the threads of the locked block there, and adds no row.
<1>a. ASSUME \A d \in Callers : InCritical(d) => InCritical(d)' /\ key'[d] = key[d],
             lockRow' \subseteq lockRow
      PROVE  NoOrphanLock'
  BY <1>a, <1>0
<1>1. ASSUME NEW c \in Callers, Invoke(c) PROVE NoOrphanLock'
  BY <1>1, <1>a DEF Invoke
<1>2. ASSUME NEW c \in Callers, Check(c) PROVE NoOrphanLock'
  BY <1>2, <1>a DEF Check
<1>3. ASSUME NEW c \in Callers, UseFails(c) PROVE NoOrphanLock'
  BY <1>3, <1>a DEF UseFails
<1>4. ASSUME NEW c \in Callers, Get(c) PROVE NoOrphanLock'
  BY <1>4, <1>a DEF Get, Use
<1>5. ASSUME NEW c \in Callers, Set(c) PROVE NoOrphanLock'
  <2>1. lockRow' \subseteq lockRow
    BY <1>5 DEF Set, PutEntry
  <2> QED
    BY <1>5, <1>a, <2>1 DEF Set, Use
<1>6. ASSUME NEW c \in Callers, Delete(c) PROVE NoOrphanLock'
  BY <1>6, <1>a DEF Delete, Use
<1>7. ASSUME NEW c \in Callers, Has(c) PROVE NoOrphanLock'
  BY <1>7, <1>a DEF Has, Use
<1>26. ASSUME NEW c \in Callers, Stats(c) PROVE NoOrphanLock'
  BY <1>26, <1>a DEF Stats, Use
<1>8. ASSUME NEW c \in Callers, Clear(c) PROVE NoOrphanLock'
  BY <1>8 DEF Clear
<1>9. ASSUME NEW c \in Callers, Close(c) PROVE NoOrphanLock'
  BY <1>9, <1>a DEF Close, Use
<1>10. ASSUME NEW c \in Callers, Probe(c) PROVE NoOrphanLock'
  BY <1>10, <1>a DEF Probe, Lookup
<1>11. ASSUME NEW c \in Callers, Lock(c) PROVE NoOrphanLock'
  BY <1>11, <1>a DEF Lock
<1>12. ASSUME NEW c \in Callers, Acquire(c) PROVE NoOrphanLock'
  <2>1. lockRow' \subseteq lockRow \cup {key[c]}
    BY <1>12 DEF Acquire, PutLock
  <2>2. InCritical(c)' /\ key' = key
    BY <1>12 DEF Acquire
  <2>3. \A d \in Callers : InCritical(d) => InCritical(d)'
    BY <1>12 DEF Acquire
  <2> QED
    BY <2>1, <2>2, <2>3
<1>13. ASSUME NEW c \in Callers, Poll(c) PROVE NoOrphanLock'
  BY <1>13 DEF Poll, vars
<1>14. ASSUME NEW c \in Callers, Recheck(c) PROVE NoOrphanLock'
  BY <1>14, <1>a DEF Recheck
<1>15. ASSUME NEW c \in Callers, Reread(c) PROVE NoOrphanLock'
  BY <1>15, <1>a DEF Reread, Lookup
<1>16. ASSUME NEW c \in Callers, Factory(c) PROVE NoOrphanLock'
  BY <1>16, <1>a DEF Factory
<1>17. ASSUME NEW c \in Callers, Store(c) PROVE NoOrphanLock'
  BY <1>17, <1>a DEF Store
<1>18. ASSUME NEW c \in Callers, Write(c) PROVE NoOrphanLock'
  <2>1. lockRow' \subseteq lockRow
    BY <1>18 DEF Write, PutEntry
  <2> QED
    BY <1>18, <1>a, <2>1 DEF Write
<1>19. ASSUME NEW c \in Callers, Release(c) PROVE NoOrphanLock'
  BY <1>19 DEF Release
<1>20. ASSUME NEW c \in Callers, Bypass(c) PROVE NoOrphanLock'
  BY <1>20, <1>a DEF Bypass
<1>21. ASSUME NEW m \in Managers, Open(m) PROVE NoOrphanLock'
  BY <1>21 DEF Open
<1>22. ASSUME NEW m \in Managers, Crash(m) PROVE NoOrphanLock'
  BY <1>22 DEF Crash
<1>23. ASSUME NEW k \in Keys, Expire(k) PROVE NoOrphanLock'
  BY <1>23 DEF Expire
<1>24. CASE UNCHANGED vars
  BY <1>24 DEF vars
<1>25. CASE Finished
  BY <1>24, <1>25 DEF Finished
<1> QED
  BY <1>1, <1>2, <1>3, <1>4, <1>5, <1>6, <1>7, <1>8, <1>9, <1>10, <1>11,
     <1>12, <1>13, <1>14, <1>15, <1>16, <1>17, <1>18, <1>19, <1>20, <1>21,
     <1>22, <1>23, <1>24, <1>25, <1>26 DEF Next, Step

\* If no process dies, no lock row outlives the call that added it: not on an
\* exception, a closed manager, an eviction or a clear.
THEOREM LocksAreDropped == ~MayCrash => (Spec => []NoOrphanLock)
<1> SUFFICES ASSUME ~MayCrash PROVE Spec => []NoOrphanLock
  OBVIOUS
<1>1. Init => NoOrphanLock
  BY DEF Init, NoOrphanLock
<1>2. TypeOK /\ NoOrphanLock /\ [Next]_vars => NoOrphanLock'
  BY NoOrphanStep
<1> QED
  BY <1>1, <1>2, TypesHold, PTL DEF Spec

-----------------------------------------------------------------------------
(* Losses of lock rows.                                                     *)

\* The calls that compute a key can be counted.
LEMMA ComputingCounts ==
  ASSUME NEW S \in SUBSET Callers
  PROVE  IsFiniteSet(S) /\ Cardinality(S) \in Nat
BY CallersAssumption, FS_Subset, FS_CardinalityType

\* Nobody begins to compute: at worst the row is lost.
LEMMA NobodyBegins ==
  ASSUME NEW k \in Keys, Computing(k)' \subseteq Computing(k)
  PROVE  /\ Unguarded(k)' <= Unguarded(k) + 1
         /\ (k \in lockRow => k \in lockRow') => ~(Unguarded(k)' > Unguarded(k))
<1>1. Computing(k) \subseteq Callers
  BY DEF Computing
<1>2. /\ Cardinality(Computing(k)) \in Nat /\ Cardinality(Computing(k)') \in Nat
      /\ Cardinality(Computing(k)') <= Cardinality(Computing(k))
  BY <1>1, ComputingCounts, FS_Subset
<1> QED
  BY <1>2 DEF Unguarded

\* Who drops the lock of a key stops computing it.
LEMMA OneStops ==
  ASSUME TypeOK, NEW c \in Callers, Release(c), NEW k \in Keys
  PROVE  ~(Unguarded(k)' > Unguarded(k)) /\ Unguarded(k)' <= Unguarded(k) + 1
<1> USE DEF Release, At, Goto, TypeOK
<1>1. CASE key[c] # k
  <2>1. Computing(k)' \subseteq Computing(k) /\ (k \in lockRow => k \in lockRow')
    BY <1>1 DEF Computing, InCritical
  <2> QED
    BY <2>1, NobodyBegins
<1>2. CASE key[c] = k
  <2>1. Computing(k)' = Computing(k) \ {c} /\ c \in Computing(k)
    BY <1>2 DEF Computing, InCritical
  <2>2. IsFiniteSet(Computing(k)) /\ Cardinality(Computing(k)) \in Nat
    BY ComputingCounts DEF Computing
  <2>3. Cardinality(Computing(k)') = Cardinality(Computing(k)) - 1
    BY <2>1, <2>2, FS_RemoveElement
  <2> QED
    BY <2>2, <2>3 DEF Unguarded
<1> QED
  BY <1>1, <1>2

\* Who takes the lock of a key begins to compute it, beside the row added, if
\* that is not culled at once.
LEMMA OneBegins ==
  ASSUME TypeOK, NEW c \in Callers, Acquire(c), NEW k \in Keys
  PROVE  /\ Unguarded(k)' <= Unguarded(k) + 1
         /\ ~MayEvict => ~(Unguarded(k)' > Unguarded(k))
<1> USE DEF Acquire, At, Goto, TypeOK
<1>0. ~MayEvict => lockRow' = lockRow \cup {key[c]}
  BY DEF PutLock, Culled
<1>1. CASE key[c] # k
  <2>1. Computing(k)' \subseteq Computing(k)
    BY <1>1 DEF Computing, InCritical
  <2> QED
    BY <1>0, <2>1, NobodyBegins
<1>2. CASE key[c] = k
  <2>1. Computing(k)' = Computing(k) \cup {c} /\ c \notin Computing(k)
    BY <1>2 DEF Computing, InCritical
  <2>2. IsFiniteSet(Computing(k)) /\ Cardinality(Computing(k)) \in Nat
    BY ComputingCounts DEF Computing
  <2>3. Cardinality(Computing(k)') = Cardinality(Computing(k)) + 1
    BY <2>1, <2>2, FS_AddElement
  <2>4. k \notin lockRow
    BY <1>2
  <2> QED
    BY <1>0, <1>2, <2>2, <2>3, <2>4 DEF Unguarded
<1> QED
  BY <1>1, <1>2

\* What one step does to the calls that compute a key.
LEMMA LossStep ==
  ASSUME TypeOK, [Next]_vars, NEW k \in Keys
  PROVE  /\ Unguarded(k)' <= Unguarded(k) + 1
         /\ Unguarded(k)' > Unguarded(k)
              => \E c \in Callers : Loses(c) /\ pc'[c] # pc[c]
<1> DEFINE Bounded == /\ Unguarded(k)' <= Unguarded(k) + 1
                      /\ Unguarded(k)' > Unguarded(k)
                           => \E c \in Callers : Loses(c) /\ pc'[c] # pc[c]
           Fewer == Computing(k)' \subseteq Computing(k)
<1> USE DEF TypeOK
<1>1. ASSUME Fewer, lockRow' = lockRow PROVE Bounded
  BY <1>1, NobodyBegins
<1>2. ASSUME Fewer, NEW c \in Callers, Loses(c), pc'[c] # pc[c] PROVE Bounded
  BY <1>2, NobodyBegins
<1> SUFFICES Bounded
  OBVIOUS
<1> HIDE DEF Bounded
<1>3. ASSUME NEW c \in Callers,
             \/ Invoke(c) \/ Check(c) \/ UseFails(c) \/ Get(c) \/ Delete(c) \/ Has(c)
             \/ Stats(c) \/ Close(c) \/ Probe(c) \/ Lock(c) \/ Poll(c) \/ Bypass(c)
      PROVE  Bounded
  <2>1. Fewer /\ lockRow' = lockRow
    BY <1>3 DEF Invoke, Check, UseFails, Get, Delete, Has, Stats, Close, Use, Probe,
       Lookup, Lock, Poll, Bypass, At, Goto, vars, Computing, InCritical
  <2> QED
    BY <1>1, <2>1
<1>4. ASSUME NEW c \in Callers, Recheck(c) \/ Reread(c) \/ Factory(c) \/ Store(c)
      PROVE  Bounded
  <2>1. Fewer /\ lockRow' = lockRow
    BY <1>4 DEF Recheck, Reread, Lookup, Factory, Store, At, Goto, Computing, InCritical
  <2> QED
    BY <1>1, <2>1
<1>5. ASSUME NEW c \in Callers, Clear(c) PROVE Bounded
  <2>1. Fewer /\ Loses(c) /\ pc'[c] # pc[c]
    BY <1>5 DEF Clear, Use, At, Goto, Loses, Computing, InCritical
  <2> QED
    BY <1>2, <2>1
<1>6. ASSUME NEW c \in Callers, Set(c) \/ Write(c) PROVE Bounded
  <2>1. Fewer /\ pc'[c] # pc[c]
    BY <1>6 DEF Set, Write, Use, At, Goto, Computing, InCritical
  <2>2. CASE MayEvict
    <3>1. Loses(c)
      BY <1>6, <2>2 DEF Set, Write, Use, At, Loses
    <3> QED
      BY <1>2, <2>1, <3>1
  <2>3. CASE ~MayEvict
    <3>1. lockRow' = lockRow
      BY <1>6, <2>3 DEF Set, Write, PutEntry, Culled
    <3> QED
      BY <1>1, <2>1, <3>1
  <2> QED
    BY <2>2, <2>3
<1>7. ASSUME NEW c \in Callers, Acquire(c) PROVE Bounded
  <2>1. pc'[c] # pc[c] /\ (MayEvict => Loses(c))
    BY <1>7 DEF Acquire, At, Goto, Loses
  <2> QED
    BY <1>7, <2>1, OneBegins DEF Bounded
<1>8. ASSUME NEW c \in Callers, Release(c) PROVE Bounded
  BY <1>8, OneStops DEF Bounded
<1>9. CASE (\E m \in Managers : Open(m) \/ Crash(m)) \/ (\E j \in Keys : Expire(j))
           \/ Finished \/ UNCHANGED vars
  <2>1. Fewer /\ lockRow' = lockRow
    BY <1>9 DEF Open, Crash, Expire, Finished, vars, Computing, InCritical
  <2> QED
    BY <1>1, <2>1
<1> QED
  BY <1>3, <1>4, <1>5, <1>6, <1>7, <1>8, <1>9 DEF Next, Step

\* Every loss of rows, by a clear or by a full directory, lets at most one more
\* call compute a key beside the holder of its lock, and nothing else does:
\* with any threads, crashes and late releases.
THEOREM CallsDoNotPileUp == Spec => LossesAddOne
<1>1. TypeOK /\ [Next]_vars =>
        [\A k \in Keys :
           /\ Unguarded(k)' <= Unguarded(k) + 1
           /\ Unguarded(k)' > Unguarded(k)
                => \E c \in Callers : Loses(c) /\ pc'[c] # pc[c]]_vars
  BY LossStep
<1> QED
  BY <1>1, TypesHold, PTL DEF Spec, LossesAddOne

-----------------------------------------------------------------------------
(* What a holder computes is still wanted.                                  *)

\* Nobody stores without the lock.
NoBlindStore == "set" \notin Ops

\* What a thread about to store may rely on.  On a closed manager the second
\* lookup was skipped, but then nothing is stored.
Fresh(c) ==
  \/ pc[c] = "write"
  \/ pc[c] \in {"factory", "store"} /\ IsOpen(c)
  => entry[key[c]] \notin accepts[c]

FreshInv ==
  /\ LockInv
  /\ \A c \in Callers : Fresh(c)
  /\ \A c \in Callers : pc[c] \in {"store", "write"} => val[c] \in Values

LEMMA FreshStep ==
  ASSUME NoLockLoss, NoBlindStore, FreshInv, [Next]_vars
  PROVE  FreshInv'
<1>0. LockInv' /\ TypeOK'
  BY LockInvStep DEF FreshInv, LockInv
<1> DEFINE Rest == /\ \A c \in Callers : Fresh(c)
                   /\ \A c \in Callers : pc[c] \in {"store", "write"} => val[c] \in Values
<1> SUFFICES Rest'
  BY <1>0 DEF FreshInv
<1> USE ValuesAssumption DEF FreshInv, LockInv, TypeOK, Fresh, IsOpen, At, Goto
\* A thread not about to store moves, and entries stay or go.
<1>a. ASSUME NEW c \in Callers,
             \A d \in Callers \ {c} : /\ pc'[d] = pc[d] /\ key'[d] = key[d]
                                      /\ accepts'[d] = accepts[d] /\ val'[d] = val[d],
             pc'[c] \notin {"factory", "store", "write"},
             \A k \in Keys : entry'[k] \in {entry[k], None},
             \A m \in Managers : handle'[m] \in {handle[m], "closed"}
      PROVE  Rest'
  BY <1>a, <1>0, CallersAssumption, SMTT(30)
<1>1. ASSUME NEW c \in Callers, Invoke(c) PROVE Rest'
  BY <1>1, <1>a DEF Invoke, Conclude
<1>2. ASSUME NEW c \in Callers, Check(c) PROVE Rest'
  BY <1>2, <1>a DEF Check, Conclude, Carry
<1>3. ASSUME NEW c \in Callers, UseFails(c) PROVE Rest'
  BY <1>3, <1>a DEF UseFails, Conclude
<1>4. ASSUME NEW c \in Callers, Get(c) PROVE Rest'
  BY <1>4, <1>a DEF Get, Use, Conclude
<1>5. ASSUME NEW c \in Callers, Set(c) PROVE Rest'
  BY <1>5 DEF Set, Use, NoBlindStore, Called
<1>6. ASSUME NEW c \in Callers, Delete(c) PROVE Rest'
  BY <1>6, <1>a DEF Delete, Use, Conclude
<1>7. ASSUME NEW c \in Callers, Has(c) PROVE Rest'
  BY <1>7, <1>a DEF Has, Use, Conclude
<1>26. ASSUME NEW c \in Callers, Stats(c) PROVE Rest'
  BY <1>26, <1>a DEF Stats, Use, Conclude
<1>8. ASSUME NEW c \in Callers, Clear(c) PROVE Rest'
  BY <1>8, <1>a DEF Clear, Use, Conclude
<1>9. ASSUME NEW c \in Callers, Close(c) PROVE Rest'
  BY <1>9, <1>a DEF Close, Use, Conclude
<1>10. ASSUME NEW c \in Callers, Probe(c) PROVE Rest'
  BY <1>10, <1>a DEF Probe, Lookup, Conclude, Carry
<1>11. ASSUME NEW c \in Callers, Lock(c) PROVE Rest'
  BY <1>11, <1>a DEF Lock, Conclude, Carry
<1>12. ASSUME NEW c \in Callers, Acquire(c) PROVE Rest'
  <2>1. entry' = entry
    BY <1>12, PutLockExact DEF Acquire, NoLockLoss
  <2> QED
    BY <1>12, <1>a, <2>1 DEF Acquire, Carry
<1>13. ASSUME NEW c \in Callers, Poll(c) PROVE Rest'
  BY <1>13 DEF Poll, vars
<1>14. ASSUME NEW c \in Callers, Recheck(c) PROVE Rest'
  BY <1>14, <1>0 DEF Recheck, Carry
<1>15. ASSUME NEW c \in Callers, Reread(c) PROVE Rest'
  BY <1>15, <1>0 DEF Reread, Lookup, Conclude, Carry
<1>16. ASSUME NEW c \in Callers, Factory(c) PROVE Rest'
  BY <1>16, <1>0 DEF Factory, Conclude
<1>17. ASSUME NEW c \in Callers, Store(c) PROVE Rest'
  BY <1>17, <1>0 DEF Store, Conclude, Carry
<1>18. ASSUME NEW c \in Callers, Write(c) PROVE Rest'
  <2>1. \A k \in Keys \ {key[c]} : entry'[k] = entry[k]
    BY <1>18, PutEntryExact DEF Write, NoLockLoss
  <2>2. \A d \in Callers \ {c} : InCritical(d) => key[d] # key[c]
    BY <1>18 DEF Write, InCritical, SingleFlight
  <2> QED
    BY <1>18, <1>0, <2>1, <2>2 DEF Write, Conclude, InCritical
<1>19. ASSUME NEW c \in Callers, Release(c) PROVE Rest'
  BY <1>19, <1>a DEF Release, Carry
<1>20. ASSUME NEW c \in Callers, Bypass(c) PROVE Rest'
  BY <1>20, <1>a DEF Bypass, Conclude
<1>21. ASSUME NEW m \in Managers, Open(m) PROVE Rest'
  BY <1>21, <1>0, CallersAssumption DEF Open
<1>22. ASSUME NEW m \in Managers, Crash(m) PROVE Rest'
  BY <1>22, <1>0, CallersAssumption DEF Crash
<1>23. ASSUME NEW k \in Keys, Expire(k) PROVE Rest'
  BY <1>23, <1>0 DEF Expire
<1>24. CASE UNCHANGED vars
  BY <1>24 DEF vars
<1>25. CASE Finished
  BY <1>24, <1>25 DEF Finished
<1> QED
  BY <1>1, <1>2, <1>3, <1>4, <1>5, <1>6, <1>7, <1>8, <1>9, <1>10, <1>11,
     <1>12, <1>13, <1>14, <1>15, <1>16, <1>17, <1>18, <1>19, <1>20, <1>21,
     <1>22, <1>23, <1>24, <1>25, <1>26 DEF Next, Step

LEMMA FreshHolds == NoLockLoss /\ NoBlindStore => (Spec => []FreshInv)
<1> SUFFICES ASSUME NoLockLoss, NoBlindStore PROVE Spec => []FreshInv
  OBVIOUS
<1>1. Init => FreshInv
  BY InitType DEF Init, FreshInv, LockInv, Called, Fresh, InCritical, SingleFlight
<1>2. FreshInv /\ [Next]_vars => FreshInv'
  BY FreshStep
<1> QED
  BY <1>1, <1>2, PTL DEF Spec

\* A thread that computes on an open manager has nothing usable to read, for
\* as long as it computes, if locks are not lost and nobody stores without one.
THEOREM ComputesOnlyWhatIsMissing ==
  NoLockLoss /\ NoBlindStore => (Spec => []NoWastedCompute)
<1>1. FreshInv => NoWastedCompute
  BY DEF FreshInv, Fresh, NoWastedCompute
<1> QED
  BY <1>1, FreshHolds, PTL

-----------------------------------------------------------------------------
(* What callers were told stays true.                                       *)

\* An entry, once stored, is there for good: locks and entries are not lost,
\* nobody stores without the lock, and every caller accepts every entry.
EntriesStay ==
  /\ NoLockLoss /\ NoBlindStore
  /\ ~MayExpire /\ "delete" \notin Ops
  /\ Predicates = {Values}

\* A thread has no outcome before it leaves its call.
Undecided(c) == pc[c] \notin {"idle", "release"} => outcome[c] = "none"

\* What a thread got as a hit or as a stored miss is what is stored.
StillStored(c) ==
  outcome[c] \in {"hit", "miss"} /\ val[c] # None => entry[key[c]] = val[c]

\* The inductive invariant.
AgreementInv ==
  /\ FreshInv
  /\ \A c \in Callers : Undecided(c) /\ StillStored(c)

LEMMA AgreementStep ==
  ASSUME EntriesStay, AgreementInv, [Next]_vars
  PROVE  AgreementInv'
<1>0. FreshInv' /\ TypeOK'
  BY FreshStep DEF AgreementInv, EntriesStay, FreshInv, LockInv
<1> DEFINE Rest == \A c \in Callers : Undecided(c) /\ StillStored(c)
<1> SUFFICES Rest'
  BY <1>0 DEF AgreementInv
<1> USE ValuesAssumption DEF AgreementInv, FreshInv, LockInv, TypeOK, Undecided,
        StillStored, IsOpen, At, Goto
\* One thread moves, and no entry changes.
<1>a. ASSUME NEW c \in Callers,
             \A d \in Callers \ {c} : /\ pc'[d] = pc[d] /\ key'[d] = key[d]
                                      /\ outcome'[d] = outcome[d] /\ val'[d] = val[d],
             entry' = entry,
             Undecided(c)', StillStored(c)'
      PROVE  Rest'
  BY <1>a, <1>0
\* One thread moves without an outcome of its call, or with none to speak of.
<1>b. ASSUME NEW c \in Callers,
             \A d \in Callers \ {c} : /\ pc'[d] = pc[d] /\ key'[d] = key[d]
                                      /\ outcome'[d] = outcome[d] /\ val'[d] = val[d],
             entry' = entry,
             \/ outcome'[c] = "none"
             \/ pc'[c] \in {"idle", "release"} /\ outcome'[c] \notin {"hit", "miss"}
             \/ pc'[c] \in {"idle", "release"} /\ val'[c] = None
      PROVE  Rest'
  BY <1>b, <1>a
<1>1. ASSUME NEW c \in Callers, Invoke(c) PROVE Rest'
  BY <1>1, <1>b DEF Invoke, Conclude
<1>2. ASSUME NEW c \in Callers, Check(c) PROVE Rest'
  BY <1>2, <1>b DEF Check, Conclude, Carry
<1>3. ASSUME NEW c \in Callers, UseFails(c) PROVE Rest'
  BY <1>3, <1>b DEF UseFails, Conclude
<1>4. ASSUME NEW c \in Callers, Get(c) PROVE Rest'
  BY <1>4, <1>a DEF Get, Use, Conclude
<1>5. ASSUME NEW c \in Callers, Set(c) PROVE Rest'
  BY <1>5 DEF Set, Use, EntriesStay, NoBlindStore, Called
<1>6. ASSUME NEW c \in Callers, Delete(c) PROVE Rest'
  BY <1>6 DEF Delete, Use, EntriesStay, Called
<1>7. ASSUME NEW c \in Callers, Has(c) PROVE Rest'
  BY <1>7, <1>b DEF Has, Use, Conclude
<1>26. ASSUME NEW c \in Callers, Stats(c) PROVE Rest'
  BY <1>26, <1>b DEF Stats, Use, Conclude
<1>8. ASSUME NEW c \in Callers, Clear(c) PROVE Rest'
  BY <1>8 DEF Clear, Use, EntriesStay, NoLockLoss, Called
<1>9. ASSUME NEW c \in Callers, Close(c) PROVE Rest'
  BY <1>9, <1>b DEF Close, Use, Conclude
<1>10. ASSUME NEW c \in Callers, Probe(c) PROVE Rest'
  BY <1>10, <1>a DEF Probe, Lookup, Conclude, Carry
<1>11. ASSUME NEW c \in Callers, Lock(c) PROVE Rest'
  BY <1>11, <1>b DEF Lock, Conclude, Carry
<1>12. ASSUME NEW c \in Callers, Acquire(c) PROVE Rest'
  <2>1. entry' = entry
    BY <1>12, PutLockExact DEF Acquire, EntriesStay, NoLockLoss
  <2> QED
    BY <1>12, <1>b, <2>1 DEF Acquire, Carry
<1>13. ASSUME NEW c \in Callers, Poll(c) PROVE Rest'
  BY <1>13 DEF Poll, vars
<1>14. ASSUME NEW c \in Callers, Recheck(c) PROVE Rest'
  BY <1>14, <1>b DEF Recheck, Carry
<1>15. ASSUME NEW c \in Callers, Reread(c) PROVE Rest'
  BY <1>15, <1>a DEF Reread, Lookup, Conclude, Carry
<1>16. ASSUME NEW c \in Callers, Factory(c) PROVE Rest'
  BY <1>16, <1>b DEF Factory, Conclude
<1>17. ASSUME NEW c \in Callers, Store(c) PROVE Rest'
  BY <1>17, <1>b DEF Store, Conclude, Carry
\* A store finds no entry, so it contradicts nobody.
<1>18. ASSUME NEW c \in Callers, Write(c) PROVE Rest'
  <2>1. CASE Conclude(c, "raised", None) /\ UNCHANGED <<store, stats>>
    BY <1>18, <2>1, <1>b DEF Write, Conclude
  <2>2. CASE PutEntry(key[c], val[c]) /\ Conclude(c, "miss", val[c])
    <3>1. entry' = [j \in Keys |-> IF j = key[c] THEN val[c] ELSE entry[j]]
      BY <2>2, PutEntryExact DEF EntriesStay, NoLockLoss
    <3>2. entry[key[c]] = None
      BY <1>18 DEF Write, Fresh, EntriesStay
    <3>3. \A d \in Callers \ {c} :
            outcome[d] \in {"hit", "miss"} /\ val[d] # None => key[d] # key[c]
      BY <3>2
    <3> QED
      BY <1>18, <2>2, <3>1, <3>3, <1>0 DEF Write, Conclude
  <2> QED
    BY <1>18, <2>1, <2>2 DEF Write
<1>19. ASSUME NEW c \in Callers, Release(c) PROVE Rest'
  BY <1>19, <1>a DEF Release, Carry
<1>20. ASSUME NEW c \in Callers, Bypass(c) PROVE Rest'
  BY <1>20, <1>b DEF Bypass, Conclude
<1>21. ASSUME NEW m \in Managers, Open(m) PROVE Rest'
  BY <1>21 DEF Open
<1>22. ASSUME NEW m \in Managers, Crash(m) PROVE Rest'
  BY <1>22, <1>0 DEF Crash
<1>23. ASSUME NEW k \in Keys, Expire(k) PROVE Rest'
  BY <1>23 DEF Expire, EntriesStay
<1>24. CASE UNCHANGED vars
  BY <1>24 DEF vars
<1>25. CASE Finished
  BY <1>24, <1>25 DEF Finished
<1> QED
  BY <1>1, <1>2, <1>3, <1>4, <1>5, <1>6, <1>7, <1>8, <1>9, <1>10, <1>11,
     <1>12, <1>13, <1>14, <1>15, <1>16, <1>17, <1>18, <1>19, <1>20, <1>21,
     <1>22, <1>23, <1>24, <1>25, <1>26 DEF Next, Step

\* Where entries stay, all callers of a key, in any process, were given the
\* same entry, however managers close, reopen and die: what each was given
\* is what is stored.
THEOREM CallersAgree == EntriesStay => (Spec => []Agreement)
<1> SUFFICES ASSUME EntriesStay PROVE Spec => []Agreement
  OBVIOUS
<1>1. Init => AgreementInv
  <2>1. Init => FreshInv
    BY InitType DEF Init, FreshInv, LockInv, Called, Fresh, InCritical, SingleFlight
  <2> QED
    BY <2>1 DEF Init, AgreementInv, Undecided, StillStored
<1>2. AgreementInv /\ [Next]_vars => AgreementInv'
  BY AgreementStep
<1>3. AgreementInv => Agreement
  BY DEF AgreementInv, StillStored, Agreement, Answered
<1> QED
  BY <1>1, <1>2, <1>3, PTL DEF Spec

-----------------------------------------------------------------------------
(* CacheManager implements ComputeOnce, if locks are not lost and nobody     *)
(* stores without one.                                                       *)

\* The threads of S that were in flight on entry are no longer; nobody else
\* and no entry is touched.
Lands(S) ==
  /\ entry' = entry
  /\ \A c \in Callers \ S :
       /\ InFlight(c)' <=> InFlight(c)
       /\ InFlight(c) => key'[c] = key[c] /\ accepts'[c] = accepts[c]
  /\ \A c \in S : ~InFlight(c)'

\* A step that neither starts nor ends a flight leaves the abstract state.
LEMMA FlightsSame ==
  ASSUME entry' = entry,
         \A c \in Callers :
           /\ InFlight(c)' <=> InFlight(c)
           /\ InFlight(c) => key'[c] = key[c] /\ accepts'[c] = accepts[c]
  PROVE  UNCHANGED CO!vars
<1>1. flights' = flights
  <2>1. ASSUME NEW k \in Keys
        PROVE  {c \in Callers : InFlight(c)' /\ key'[c] = k}
                 = {c \in Callers : InFlight(c) /\ key[c] = k}
    OBVIOUS
  <2>2. ASSUME NEW k \in Keys
        PROVE  {[who |-> c, accepts |-> accepts'[c]] :
                  c \in {d \in Callers : InFlight(d)' /\ key'[d] = k}}
                 = {[who |-> c, accepts |-> accepts[c]] :
                  c \in {d \in Callers : InFlight(d) /\ key[d] = k}}
    OBVIOUS
  <2> QED
    BY <2>2 DEF flights
<1> QED
  BY <1>1 DEF CO!vars

\* Flights that end with nothing stored are an abstract Leave.
LEMMA FlightsLand ==
  ASSUME NEW S \in SUBSET Callers, Lands(S)
  PROVE  CO!Leave(S)
<1> DEFINE here(k) == {c \in Callers : InFlight(c) /\ key[c] = k}
           there(k) == {c \in Callers : InFlight(c)' /\ key'[c] = k}
<1>1. ASSUME NEW k \in Keys
      PROVE  {[who |-> c, accepts |-> accepts'[c]] : c \in there(k)}
               = {f \in flights[k] : f.who \notin S}
  <2>1. flights[k] = {[who |-> c, accepts |-> accepts[c]] : c \in here(k)}
    BY DEF flights
  <2>2. there(k) = here(k) \ S
    BY DEF Lands
  <2>3. \A c \in there(k) : accepts'[c] = accepts[c]
    BY DEF Lands
  <2> QED
    BY <2>1, <2>2, <2>3
<1>2. flights' = [k \in Keys |-> {f \in flights[k] : f.who \notin S}]
  BY <1>1 DEF flights
<1> QED
  BY <1>2 DEF CO!Leave, Lands

\* Taking the lock of a key starts its flight, and no other flies there.
LEMMA FlightBegins ==
  ASSUME LockInv, LockInv', NEW c \in Callers,
         key[c] \notin lockRow, InFlight(c)', entry' = entry,
         UNCHANGED <<key, accepts>>,
         \A d \in Callers \ {c} : InFlight(d)' <=> InFlight(d),
         ~InFlight(c)
  PROVE  CO!Begin(key[c], [who |-> c, accepts |-> accepts[c]])
<1> DEFINE k == key[c]
           f == [who |-> c, accepts |-> accepts[c]]
<1>1. \A d \in Callers : InFlight(d) => key[d] # k
  BY DEF LockInv, InCritical, InFlight
<1>2. k \in Keys
  BY DEF LockInv, TypeOK
<1>3. flights[k] = {}
  BY <1>1, <1>2 DEF flights
<1>4. ASSUME NEW j \in Keys
      PROVE  flights'[j] = IF j = k THEN {f} ELSE flights[j]
  <2>1. {d \in Callers : InFlight(d)' /\ key'[d] = j}
          = IF j = k THEN {c} ELSE {d \in Callers : InFlight(d) /\ key[d] = j}
    BY <1>1
  <2> QED
    BY <2>1, <1>1 DEF flights
<1>5. flights' = [flights EXCEPT ![k] = {f}]
  BY <1>2, <1>4 DEF flights
<1> QED
  BY <1>3, <1>5 DEF CO!Begin

\* Storing an entry over one the flight could not use ends the flight.
LEMMA FlightPublishes ==
  ASSUME FreshInv, NEW c \in Callers, pc[c] = "write", ~InFlight(c)',
         \A d \in Callers \ {c} : InFlight(d)' <=> InFlight(d),
         UNCHANGED <<key, accepts>>,
         entry' = [j \in Keys |-> IF j = key[c] THEN val[c] ELSE entry[j]]
  PROVE  CO!Publish(key[c], [who |-> c, accepts |-> accepts[c]], val[c])
<1> DEFINE k == key[c]
           f == [who |-> c, accepts |-> accepts[c]]
<1>0. InFlight(c) /\ k \in Keys
  BY DEF FreshInv, LockInv, TypeOK, InFlight
<1>1. \A d \in Callers : InFlight(d) /\ key[d] = k <=> d = c
  BY <1>0 DEF FreshInv, LockInv, SingleFlight, InCritical, InFlight
<1>2. flights[k] = {f}
  BY <1>0, <1>1 DEF flights
<1>3. entry[k] \notin f.accepts
  BY DEF FreshInv, Fresh
<1>4. entry' = [entry EXCEPT ![k] = val[c]]
  BY DEF FreshInv, LockInv, TypeOK
<1>5. ASSUME NEW j \in Keys
      PROVE  flights'[j] = IF j = k THEN {} ELSE flights[j]
  <2>1. {d \in Callers : InFlight(d)' /\ key'[d] = j}
          = IF j = k THEN {} ELSE {d \in Callers : InFlight(d) /\ key[d] = j}
    BY <1>1
  <2> QED
    BY <2>1 DEF flights
<1>6. flights' = [flights EXCEPT ![k] = flights[k] \ {f}]
  BY <1>2, <1>5, <1>0, ZenonT(30) DEF flights
<1> QED
  BY <1>2, <1>3, <1>4, <1>6 DEF CO!Publish

-----------------------------------------------------------------------------

\* Every step is an abstract step or leaves the abstract state.
LEMMA StepSimulation ==
  ASSUME NoLockLoss, NoBlindStore, FreshInv, [Next]_vars
  PROVE  [CO!Next]_(CO!vars)
<1>0. LockInv' /\ LockInv /\ TypeOK /\ TypeOK'
  BY LockInvStep DEF FreshInv, LockInv
<1> USE <1>0 DEF TypeOK, InFlight, At, Goto
\* A thread leaves its flight, or was in none and enters none.
<1>a. ASSUME NEW c \in Callers,
             \A d \in Callers \ {c} :
               pc'[d] = pc[d] /\ key'[d] = key[d] /\ accepts'[d] = accepts[d],
             ~InFlight(c)', entry' = entry
      PROVE  [CO!Next]_(CO!vars)
  <2>1. Lands({c})
    BY <1>a DEF Lands
  <2>2. CO!Leave({c})
    BY <2>1, FlightsLand
  <2> QED
    BY <2>2 DEF CO!Next
\* A thread moves within its flight.
<1>b. ASSUME NEW c \in Callers, NEW l \in Critical \ {"release"}, InFlight(c),
             pc' = [pc EXCEPT ![c] = l], UNCHANGED <<entry, key, accepts>>
      PROVE  [CO!Next]_(CO!vars)
  <2>1. \A d \in Callers : InFlight(d)' <=> InFlight(d)
    BY <1>b
  <2> QED
    BY <1>b, <2>1, FlightsSame
\* A thread in no flight deletes an entry, or one expires.
<1>c. ASSUME NEW k \in Keys, entry' = [entry EXCEPT ![k] = None],
             UNCHANGED <<key, accepts>>,
             \A d \in Callers : InFlight(d)' <=> InFlight(d)
      PROVE  [CO!Next]_(CO!vars)
  <2>1. flights' = flights
    <3>1. ASSUME NEW j \in Keys
          PROVE  {[who |-> c, accepts |-> accepts'[c]] :
                    c \in {d \in Callers : InFlight(d)' /\ key'[d] = j}}
                   = {[who |-> c, accepts |-> accepts[c]] :
                    c \in {d \in Callers : InFlight(d) /\ key[d] = j}}
      BY <1>c
    <3> QED
      BY <3>1 DEF flights
  <2>2. CO!Forget(k)
    BY <1>c, <2>1 DEF CO!Forget
  <2> QED
    BY <2>2 DEF CO!Next
<1>1. ASSUME NEW c \in Callers, Invoke(c) PROVE [CO!Next]_(CO!vars)
  BY <1>1, <1>a DEF Invoke
<1>2. ASSUME NEW c \in Callers, Check(c) PROVE [CO!Next]_(CO!vars)
  BY <1>2, <1>a DEF Check
<1>3. ASSUME NEW c \in Callers, UseFails(c) PROVE [CO!Next]_(CO!vars)
  BY <1>3, <1>a DEF UseFails
<1>4. ASSUME NEW c \in Callers, Get(c) PROVE [CO!Next]_(CO!vars)
  BY <1>4, <1>a DEF Get, Use
<1>5. ASSUME NEW c \in Callers, Set(c) PROVE [CO!Next]_(CO!vars)
  BY <1>5 DEF Set, Use, NoBlindStore, LockInv, Called
<1>6. ASSUME NEW c \in Callers, Delete(c) PROVE [CO!Next]_(CO!vars)
  <2>1. \A d \in Callers : InFlight(d)' <=> InFlight(d)
    BY <1>6 DEF Delete, Use
  <2> QED
    BY <1>6, <1>c, <2>1 DEF Delete, Use
<1>7. ASSUME NEW c \in Callers, Has(c) PROVE [CO!Next]_(CO!vars)
  BY <1>7, <1>a DEF Has, Use
<1>26. ASSUME NEW c \in Callers, Stats(c) PROVE [CO!Next]_(CO!vars)
  BY <1>26, <1>a DEF Stats, Use
<1>8. ASSUME NEW c \in Callers, Clear(c) PROVE [CO!Next]_(CO!vars)
  BY <1>8 DEF Clear, Use, NoLockLoss, LockInv, Called
<1>9. ASSUME NEW c \in Callers, Close(c) PROVE [CO!Next]_(CO!vars)
  BY <1>9, <1>a DEF Close, Use
<1>10. ASSUME NEW c \in Callers, Probe(c) PROVE [CO!Next]_(CO!vars)
  BY <1>10, <1>a DEF Probe, Lookup
<1>11. ASSUME NEW c \in Callers, Lock(c) PROVE [CO!Next]_(CO!vars)
  BY <1>11, <1>a DEF Lock
<1>12. ASSUME NEW c \in Callers, Acquire(c) PROVE [CO!Next]_(CO!vars)
  <2>1. entry' = entry
    BY <1>12, PutLockExact DEF Acquire, NoLockLoss
  <2>2. CO!Begin(key[c], [who |-> c, accepts |-> accepts[c]])
    BY <1>12, <2>1, FlightBegins DEF Acquire
  <2>3. [who |-> c, accepts |-> accepts[c]] \in CO!Flights
    BY DEF CO!Flights
  <2> QED
    BY <2>2, <2>3 DEF CO!Next
<1>13. ASSUME NEW c \in Callers, Poll(c) PROVE [CO!Next]_(CO!vars)
  BY <1>13, FlightsSame DEF Poll, vars
<1>14. ASSUME NEW c \in Callers, Recheck(c) PROVE [CO!Next]_(CO!vars)
  BY <1>14, <1>b DEF Recheck
<1>15. ASSUME NEW c \in Callers, Reread(c) PROVE [CO!Next]_(CO!vars)
  BY <1>15, <1>a, <1>b DEF Reread, Lookup
<1>16. ASSUME NEW c \in Callers, Factory(c) PROVE [CO!Next]_(CO!vars)
  BY <1>16, <1>a, <1>b DEF Factory
<1>17. ASSUME NEW c \in Callers, Store(c) PROVE [CO!Next]_(CO!vars)
  BY <1>17, <1>a, <1>b DEF Store
<1>18. ASSUME NEW c \in Callers, Write(c) PROVE [CO!Next]_(CO!vars)
  <2>1. CASE entry' = entry
    BY <1>18, <1>a, <2>1 DEF Write
  <2>2. CASE PutEntry(key[c], val[c])
    <3>1. entry' = [j \in Keys |-> IF j = key[c] THEN val[c] ELSE entry[j]]
      BY <2>2, PutEntryExact DEF NoLockLoss
    <3>2. CO!Publish(key[c], [who |-> c, accepts |-> accepts[c]], val[c])
      BY <1>18, <3>1, FlightPublishes DEF Write
    <3>3. /\ [who |-> c, accepts |-> accepts[c]] \in CO!Flights
          /\ val[c] \in Values
      BY <1>18 DEF CO!Flights, FreshInv, Write
    <3> QED
      BY <3>2, <3>3 DEF CO!Next
  <2> QED
    BY <1>18, <2>1, <2>2 DEF Write
<1>19. ASSUME NEW c \in Callers, Release(c) PROVE [CO!Next]_(CO!vars)
  BY <1>19, <1>a DEF Release
<1>20. ASSUME NEW c \in Callers, Bypass(c) PROVE [CO!Next]_(CO!vars)
  BY <1>20, <1>a DEF Bypass
<1>21. ASSUME NEW m \in Managers, Open(m) PROVE [CO!Next]_(CO!vars)
  BY <1>21, FlightsSame DEF Open
<1>22. ASSUME NEW m \in Managers, Crash(m) PROVE [CO!Next]_(CO!vars)
  <2> DEFINE S == {c \in Callers : Mgr[c] = m}
  <2>1. Lands(S)
    BY <1>22 DEF Crash, Lands
  <2>2. CO!Leave(S)
    BY <2>1, FlightsLand
  <2> QED
    BY <2>2 DEF CO!Next
<1>23. ASSUME NEW k \in Keys, Expire(k) PROVE [CO!Next]_(CO!vars)
  BY <1>23, <1>c DEF Expire
<1>24. CASE UNCHANGED vars
  BY <1>24, FlightsSame DEF vars
<1>25. CASE Finished
  BY <1>24, <1>25 DEF Finished
<1> QED
  BY <1>1, <1>2, <1>3, <1>4, <1>5, <1>6, <1>7, <1>8, <1>9, <1>10, <1>11,
     <1>12, <1>13, <1>14, <1>15, <1>16, <1>17, <1>18, <1>19, <1>20, <1>21,
     <1>22, <1>23, <1>24, <1>25, <1>26 DEF Next, Step

\* get_or_set keeps its promise across threads, processes and crashes: one
\* flight per key, which stores at most once and only over an entry its
\* caller could not use.
THEOREM CacheManagerComputesOnce ==
  NoLockLoss /\ NoBlindStore => (Spec => ComputesOnce)
<1> SUFFICES ASSUME NoLockLoss, NoBlindStore PROVE Spec => ComputesOnce
  OBVIOUS
<1>1. Init => CO!Init
  BY DEF Init, CO!Init, flights, InFlight
<1>2. FreshInv /\ [Next]_vars => [CO!Next]_(CO!vars)
  BY StepSimulation
<1> QED
  BY <1>1, <1>2, FreshHolds, PTL DEF Spec, ComputesOnce, CO!Spec

-----------------------------------------------------------------------------
(* Totals, of which StoredEntries' counters are made.                       *)

\* A set of numbers that is not empty has a least one.
LEMMA LeastNumber ==
  ASSUME NEW S \in SUBSET Nat, S # {}
  PROVE  \E m \in S : \A n \in S : m <= n
<1>1. PICK m \in S : \A n \in S : ~(<<n, m>> \in OpToRel(<, Nat))
  BY WFMin, NatLessThanWellFounded
<1>2. \A n \in S : n < m => <<n, m>> \in OpToRel(<, Nat)
  BY DEF OpToRel
<1>3. \A n \in S : ~(n < m)
  BY <1>1, <1>2, Zenon
<1>4. \A n \in S : m <= n
  BY <1>3
<1> QED
  BY <1>4

\* A set that has 0, and the next of each number it has, has all numbers.
LEMMA AllNumbers ==
  ASSUME NEW S \in SUBSET Nat, 0 \in S, \A n \in S : n + 1 \in S
  PROVE  S = Nat
<1> DEFINE Missing == Nat \ S
<1> SUFFICES ASSUME Missing # {} PROVE FALSE
  OBVIOUS
<1>1. Missing \in SUBSET Nat
  OBVIOUS
<1> HIDE DEF Missing
<1>2. PICK m \in Missing : \A n \in Missing : m <= n
  BY <1>1, LeastNumber
<1>3. m \in Nat /\ m \notin S
  BY <1>2 DEF Missing
<1>4. m # 0 /\ m - 1 \in Nat
  BY <1>3
<1>5. m - 1 \in S
  BY <1>2, <1>4 DEF Missing
<1>6. (m - 1) + 1 \in S
  BY <1>5
<1> QED
  BY <1>3, <1>6

\* The total of the first n numbers, given those of fewer; a list of them all.
TotalOf(numbers, sum, n) == IF n = 0 THEN 0 ELSE sum[n - 1] + numbers[n]
Totals(numbers, last, sum) == sum = [n \in 0..last |-> TotalOf(numbers, sum, n)]

\* There is such a list, however many numbers there are.
LEMMA TotalsExist ==
  ASSUME NEW numbers, NEW last \in Nat
  PROVE  \E sum : Totals(numbers, last, sum)
<1> DEFINE S == {n \in Nat : \E sum : Totals(numbers, n, sum)}
<1>1. 0 \in S
  <2>1. Totals(numbers, 0, [n \in 0..0 |-> 0])
    BY DEF Totals, TotalOf
  <2> QED
    BY <2>1
<1>2. ASSUME NEW m \in S PROVE m + 1 \in S
  <2>1. PICK sum : Totals(numbers, m, sum)
    OBVIOUS
  <2> DEFINE more == [n \in 0..m+1 |-> IF n <= m THEN sum[n] ELSE TotalOf(numbers, sum, n)]
  <2>2. \A n \in 0..m : more[n] = sum[n] /\ sum[n] = TotalOf(numbers, sum, n)
    BY <2>1, SMTT(30) DEF Totals
  <2>3. \A n \in 0..m+1 : n # 0 => n - 1 \in 0..m
    OBVIOUS
  <2>4. \A n \in 0..m+1 : TotalOf(numbers, more, n) = TotalOf(numbers, sum, n)
    BY <2>2, <2>3 DEF TotalOf
  <2>5. \A n \in 0..m+1 : more[n] = TotalOf(numbers, more, n)
    BY <2>2, <2>4
  <2>6. Totals(numbers, m + 1, more)
    BY <2>5 DEF Totals
  <2> QED
    BY <2>6
<1> HIDE DEF S
<1>3. S = Nat
  BY <1>1, <1>2, AllNumbers DEF S
<1> QED
  BY <1>3 DEF S

\* Total is the last of such a list.
LEMMA TotalIsLast ==
  ASSUME NEW numbers \in Seq(Nat)
  PROVE  \E sum : Totals(numbers, Len(numbers), sum) /\ Total(numbers) = sum[Len(numbers)]
<1> DEFINE sum == CHOOSE f : Totals(numbers, Len(numbers), f)
<1>1. Totals(numbers, Len(numbers), sum)
  BY TotalsExist
<1>2. Total(numbers) = sum[Len(numbers)]
  BY DEF Total, Totals, TotalOf
<1> QED
  BY <1>1, <1>2

LEMMA SumsCompare ==
  ASSUME NEW a \in Nat, NEW b \in Nat, NEW c \in Nat,
         NEW x \in Nat, NEW y \in Nat, NEW z \in Nat, a + b <= c, x + y <= z
  PROVE  a + x \in Nat /\ b + y \in Nat /\ c + z \in Nat /\ (a + x) + (b + y) <= c + z
OBVIOUS

\* What holds place by place holds of the totals.
LEMMA TotalsCompare ==
  ASSUME NEW f \in Seq(Nat), NEW g \in Seq(Nat), NEW h \in Seq(Nat),
         Len(f) = Len(h), Len(g) = Len(h),
         \A i \in 1..Len(h) : f[i] + g[i] <= h[i]
  PROVE  /\ Total(f) \in Nat /\ Total(g) \in Nat /\ Total(h) \in Nat
         /\ Total(f) + Total(g) <= Total(h)
<1> DEFINE last == Len(h)
<1>1. last \in Nat
  OBVIOUS
<1>2. \A i \in 1..last : f[i] \in Nat /\ g[i] \in Nat /\ h[i] \in Nat /\ f[i] + g[i] <= h[i]
  OBVIOUS
<1>3. PICK F : Totals(f, last, F) /\ Total(f) = F[last]
  BY TotalIsLast
<1>4. PICK G : Totals(g, last, G) /\ Total(g) = G[last]
  BY TotalIsLast
<1>5. PICK H : Totals(h, last, H) /\ Total(h) = H[last]
  BY TotalIsLast
<1> HIDE DEF last
<1> DEFINE Fine(n) == F[n] \in Nat /\ G[n] \in Nat /\ H[n] \in Nat /\ F[n] + G[n] <= H[n]
           S == {n \in Nat : n <= last => Fine(n)}
<1>6. 0 \in S
  <2>1. F[0] = 0 /\ G[0] = 0 /\ H[0] = 0
    BY <1>1, <1>3, <1>4, <1>5 DEF Totals, TotalOf
  <2> QED
    BY <2>1
<1>7. ASSUME NEW m \in S PROVE m + 1 \in S
  <2> SUFFICES ASSUME m + 1 <= last PROVE Fine(m + 1)
    OBVIOUS
  <2>1. m \in Nat /\ m + 1 \in 0..last /\ m + 1 \in 1..last /\ m + 1 # 0 /\ (m + 1) - 1 = m
    BY <1>1
  <2>2. Fine(m)
    BY <1>1, <2>1
  <2>3. F[m + 1] = F[m] + f[m + 1]
    BY <1>3, <2>1 DEF Totals, TotalOf
  <2>4. G[m + 1] = G[m] + g[m + 1]
    BY <1>4, <2>1 DEF Totals, TotalOf
  <2>5. H[m + 1] = H[m] + h[m + 1]
    BY <1>5, <2>1 DEF Totals, TotalOf
  <2>6. /\ f[m + 1] \in Nat /\ g[m + 1] \in Nat /\ h[m + 1] \in Nat
        /\ f[m + 1] + g[m + 1] <= h[m + 1]
    BY <1>2, <2>1
  <2>7. /\ F[m] + f[m + 1] \in Nat /\ G[m] + g[m + 1] \in Nat /\ H[m] + h[m + 1] \in Nat
        /\ (F[m] + f[m + 1]) + (G[m] + g[m + 1]) <= H[m] + h[m + 1]
    BY <2>2, <2>6, SumsCompare, Zenon
  <2> QED
    BY <2>3, <2>4, <2>5, <2>7, Zenon
<1> HIDE DEF S
<1>8. S = Nat
  BY <1>6, <1>7, AllNumbers DEF S
<1>9. Fine(last)
  <2>1. last \in S
    BY <1>1, <1>8
  <2>2. last <= last
    BY <1>1
  <2> QED
    BY <2>1, <2>2 DEF S
<1> QED
  BY <1>3, <1>4, <1>5, <1>9

\* Nothing adds up to nothing.
LEMMA TotalOfNothing ==
  ASSUME NEW f \in Seq(Nat), \A i \in 1..Len(f) : f[i] = 0
  PROVE  Total(f) = 0
<1>1. \A i \in 1..Len(f) : f[i] + f[i] <= f[i]
  OBVIOUS
<1>2. Total(f) \in Nat /\ Total(f) + Total(f) <= Total(f)
  BY <1>1, TotalsCompare
<1> QED
  BY <1>2

-----------------------------------------------------------------------------
(* What set counts.                                                         *)

\* The numbers set adds up over the values it has packed, one and the size
\* zlib made of each against the size it had.
LEMMA PackedNumbers ==
  ASSUME NEW p \in Seq(Item), NEW limit
  PROVE  /\ Ones(p, Packed(p, limit)) \in Seq(Nat)
         /\ Sizes(p, Packed(p, limit), RawSize) \in Seq(Nat)
         /\ Sizes(p, Packed(p, limit), ZipSize) \in Seq(Nat)
         /\ Len(Ones(p, Packed(p, limit))) = Len(p)
         /\ Len(Sizes(p, Packed(p, limit), RawSize)) = Len(p)
         /\ Len(Sizes(p, Packed(p, limit), ZipSize)) = Len(p)
         /\ \A i \in 1..Len(p) :
              Sizes(p, Packed(p, limit), ZipSize)[i] + Ones(p, Packed(p, limit))[i]
                <= Sizes(p, Packed(p, limit), RawSize)[i]
<1> DEFINE packed == Packed(p, limit)
           last == Len(p)
<1>1. last \in Nat /\ \A i \in 1..last : p[i] \in Item
  OBVIOUS
<1>2. \A i \in packed : Compressible(p[i], limit)
  BY DEF Packed
<1> HIDE DEF packed, last
<1>3. \A i \in 1..last : RawSize[p[i].content] \in Nat /\ ZipSize[p[i].content] \in Nat
  BY <1>1, PayloadAssumption DEF Item
<1>4. \A i \in packed \cap 1..last : ZipSize[p[i].content] + 1 <= RawSize[p[i].content]
  BY <1>2, <1>3 DEF Compressible
<1> DEFINE ones == [i \in 1..last |-> IF i \in packed THEN 1 ELSE 0]
           raw == [i \in 1..last |-> IF i \in packed THEN RawSize[p[i].content] ELSE 0]
           zip == [i \in 1..last |-> IF i \in packed THEN ZipSize[p[i].content] ELSE 0]
<1>5. /\ ones = Ones(p, packed)
      /\ raw = Sizes(p, packed, RawSize)
      /\ zip = Sizes(p, packed, ZipSize)
  BY DEF Ones, Sizes, last
<1>6. ones \in Seq(Nat) /\ Len(ones) = last
  BY <1>1
<1>7. raw \in Seq(Nat) /\ Len(raw) = last
  BY <1>1, <1>3
<1>8. zip \in Seq(Nat) /\ Len(zip) = last
  BY <1>1, <1>3
<1>9. \A i \in 1..last : zip[i] + ones[i] <= raw[i]
  BY <1>3, <1>4
<1> HIDE DEF ones, raw, zip
<1> QED
  BY <1>5, <1>6, <1>7, <1>8, <1>9 DEF packed, last

\* The three totals are numbers, and every value packed has saved a byte.
LEMMA PackedTotals ==
  ASSUME NEW p \in Seq(Item), NEW limit
  PROVE  /\ Total(Ones(p, Packed(p, limit))) \in Nat
         /\ Total(Sizes(p, Packed(p, limit), RawSize)) \in Nat
         /\ Total(Sizes(p, Packed(p, limit), ZipSize)) \in Nat
         /\ Total(Sizes(p, Packed(p, limit), ZipSize)) + Total(Ones(p, Packed(p, limit)))
              <= Total(Sizes(p, Packed(p, limit), RawSize))
<1> DEFINE ones == Ones(p, Packed(p, limit))
           raw == Sizes(p, Packed(p, limit), RawSize)
           zip == Sizes(p, Packed(p, limit), ZipSize)
<1>1. /\ ones \in Seq(Nat) /\ raw \in Seq(Nat) /\ zip \in Seq(Nat)
      /\ Len(ones) = Len(p) /\ Len(raw) = Len(p) /\ Len(zip) = Len(p)
      /\ \A i \in 1..Len(p) : zip[i] + ones[i] <= raw[i]
  BY PackedNumbers
<1> HIDE DEF ones, raw, zip
<1>2. /\ Total(zip) \in Nat /\ Total(ones) \in Nat /\ Total(raw) \in Nat
      /\ Total(zip) + Total(ones) <= Total(raw)
  BY <1>1, TotalsCompare
<1> QED
  BY <1>2 DEF ones, raw, zip

\* A manager that does not compress counts nothing.
LEMMA OffCountsNothing ==
  ASSUME NEW p \in Seq(Item)
  PROVE  /\ Total(Ones(p, Packed(p, Off))) = 0
         /\ Total(Sizes(p, Packed(p, Off), RawSize)) = 0
<1> DEFINE ones == Ones(p, Packed(p, Off))
           raw == Sizes(p, Packed(p, Off), RawSize)
<1>1. Packed(p, Off) = {}
  BY DEF Packed, Compressible
<1>2. \A i \in 1..Len(p) : ones[i] = 0 /\ raw[i] = 0
  BY <1>1 DEF Ones, Sizes
<1>3. ones \in Seq(Nat) /\ raw \in Seq(Nat) /\ Len(ones) = Len(p) /\ Len(raw) = Len(p)
  BY PackedNumbers
<1> HIDE DEF ones, raw
<1>4. Total(ones) = 0 /\ Total(raw) = 0
  BY <1>2, <1>3, TotalOfNothing
<1> QED
  BY <1>4 DEF ones, raw

\* What one call of set does to the counters of manager m, and to no others.
LEMMA CountStep ==
  ASSUME TableTypes, NEW m \in Caches, NEW p \in Seq(Item), Count(m, p)
  PROVE  \E ones, raw, zip \in Nat :
           /\ zip + ones <= raw
           /\ Threshold[m] = Off => ones = 0 /\ raw = 0
           /\ counted' = [counted EXCEPT ![m] =
                [entries |-> counted[m].entries + ones, in |-> counted[m].in + raw,
                 out |-> counted[m].out + zip]]
<1> DEFINE ones == Total(Ones(p, Packed(p, Threshold[m])))
           raw == Total(Sizes(p, Packed(p, Threshold[m]), RawSize))
           zip == Total(Sizes(p, Packed(p, Threshold[m]), ZipSize))
<1>1. ones \in Nat /\ raw \in Nat /\ zip \in Nat /\ zip + ones <= raw
  BY PackedTotals
<1>2. Threshold[m] = Off => ones = 0 /\ raw = 0
  BY OffCountsNothing
<1>3. counted' = [counted EXCEPT ![m].entries = @ + ones, ![m].in = @ + raw, ![m].out = @ + zip]
  BY DEF Count
<1>4. counted \in [Caches -> Counters]
  BY DEF TableTypes
<1> HIDE DEF ones, raw, zip
<1>5. counted[m] \in Counters
  BY <1>4
<1>6. counted'[m] = [entries |-> counted[m].entries + ones, in |-> counted[m].in + raw,
                     out |-> counted[m].out + zip]
  <2>1. counted'[m] = [counted[m] EXCEPT !.entries = @ + ones, !.in = @ + raw, !.out = @ + zip]
    BY <1>3, <1>4
  <2> QED
    BY <1>5, <2>1 DEF Counters
<1>7. /\ counted' = [n \in Caches |-> counted'[n]]
      /\ \A n \in Caches : n # m => counted'[n] = counted[n]
  BY <1>3, <1>4
<1>8. counted' = [counted EXCEPT ![m] =
        [entries |-> counted[m].entries + ones, in |-> counted[m].in + raw,
         out |-> counted[m].out + zip]]
  BY <1>4, <1>6, <1>7
<1> QED
  BY <1>1, <1>2, <1>8

-----------------------------------------------------------------------------
(* What is stored and read back.                                            *)

\* Compression and decompression make payloads of payloads.
LEMMA PreparedType ==
  ASSUME NEW p \in Seq(Item), NEW limit
  PROVE  Prepared(p, limit) \in Seq(Item) /\ Len(Prepared(p, limit)) = Len(p)
<1> DEFINE last == Len(p)
<1>1. last \in Nat /\ \A i \in 1..last : p[i] \in Item
  OBVIOUS
<1>2. ASSUME NEW v \in Item PROVE Compress(v, limit) \in Item
  BY DEF Compress, Item, Types, Buffers
<1>3. Prepared(p, limit) = [i \in 1..last |-> Compress(p[i], limit)]
  BY DEF Prepared
<1> HIDE DEF last
<1>4. \A i \in 1..last : Compress(p[i], limit) \in Item
  BY <1>1, <1>2
<1> QED
  BY <1>1, <1>3, <1>4 DEF last

LEMMA RestoredType ==
  ASSUME NEW p \in Seq(Item)
  PROVE  Restored(p) \in Seq(Item) /\ Len(Restored(p)) = Len(p)
<1> DEFINE last == Len(p)
<1>1. last \in Nat /\ \A i \in 1..last : p[i] \in Item
  OBVIOUS
<1>2. ASSUME NEW v \in Item PROVE Decompress(v) \in Item
  BY DEF Decompress, Item, Types, Buffers
<1>3. Restored(p) = [i \in 1..last |-> Decompress(p[i])]
  BY DEF Restored
<1> HIDE DEF last
<1>4. \A i \in 1..last : Decompress(p[i]) \in Item
  BY <1>1, <1>2
<1> QED
  BY <1>1, <1>3, <1>4 DEF last

\* A value comes back as itself, or as its like among bytes and text, however
\* the manager that stored it compressed it.
LEMMA ValueComesBack ==
  ASSUME NEW v \in Item, NEW limit,
         v.content \in Broken => v.type \in {"dict", "packed", "packed str"}
  PROVE  Map!ComesBackAs(v, Decompress(Compress(v, limit)))
<1>1. CASE Compressible(v, limit)
  <2>1. v.type \in Buffers \cup {"str"} /\ v.content \notin Broken
    BY <1>1 DEF Compressible, Buffers
  <2>2. Compress(v, limit) = [v EXCEPT !.type = IF v.type = "str" THEN "packed str" ELSE "packed"]
    BY <1>1 DEF Compress
  <2>3. Decompress(Compress(v, limit)) = [v EXCEPT !.type = IF v.type = "str" THEN "str" ELSE "bytes"]
    BY <2>1, <2>2 DEF Decompress, Item
  <2> QED
    BY <2>1, <2>3 DEF Map!ComesBackAs, Item, Buffers
<1>2. CASE ~Compressible(v, limit)
  BY <1>2 DEF Compress, Decompress, Map!ComesBackAs, Item
<1> QED
  BY <1>1, <1>2

\* And so does a payload, value by value.
LEMMA PayloadComesBack ==
  ASSUME NEW p \in Entries, NEW limit
  PROVE  Map!PayloadComesBackAs(p, Restored(Prepared(p, limit)))
<1>1. p \in Seq(Item)
  BY EntriesAssumption
<1> DEFINE last == Len(p)
           q == Prepared(p, limit)
<1>2. last \in Nat /\ DOMAIN p = 1..last /\ \A i \in 1..last : p[i] \in Item
  BY <1>1
<1>3. q \in Seq(Item) /\ Len(q) = last
  BY <1>1, PreparedType
<1>4. Len(Restored(q)) = last
  BY <1>3, RestoredType
<1>5. \A i \in 1..last : q[i] = Compress(p[i], limit)
  BY DEF Prepared
<1>6. Restored(q) = [i \in 1..last |-> Decompress(q[i])]
  BY <1>3 DEF Restored
<1> HIDE DEF q, last
<1>7. \A i \in 1..last : Restored(q)[i] = Decompress(Compress(p[i], limit))
  BY <1>5, <1>6
<1>8. \A i \in 1..last : Map!ComesBackAs(p[i], Restored(q)[i])
  <2> SUFFICES ASSUME NEW i \in 1..last PROVE Map!ComesBackAs(p[i], Restored(q)[i])
    OBVIOUS
  <2>1. p[i] \in Item
    BY <1>2
  <2>2. p[i].content \in Broken => p[i].type \in {"dict", "packed", "packed str"}
    BY <1>2, EntriesAssumption
  <2>3. Map!ComesBackAs(p[i], Decompress(Compress(p[i], limit)))
    BY <2>1, <2>2, ValueComesBack
  <2> QED
    BY <1>7, <2>3
<1> QED
  BY <1>2, <1>4, <1>8 DEF Map!PayloadComesBackAs, q, last

-----------------------------------------------------------------------------
(* Types of the table.                                                      *)

LEMMA TableInitTypes == TableInit => TableTypes
<1> SUFFICES ASSUME TableInit PROVE TableTypes
  OBVIOUS
<1>1. DOMAIN table = {}
  BY DEF TableInit
<1>2. counted \in [Caches -> Counters]
  BY DEF TableInit, Counters
<1>3. got \in Seq(Item) \cup {NoPayload}
  BY DEF TableInit
<1>4. MaxSets \in Nat
  BY EntriesAssumption
<1>5. sets \in 0..MaxSets
  BY <1>4 DEF TableInit
<1> QED
  BY <1>1, <1>2, <1>3, <1>5 DEF TableTypes

\* set keeps the counters numbers, and writes payloads under keys of its own.
LEMMA SetEntryTypes ==
  ASSUME TableTypes, NEW m \in Caches, NEW a \in Arguments, NEW p \in Entries, SetEntry(m, a, p)
  PROVE  TableTypes'
<1>1. p \in Seq(Item) /\ KeyOf[a] \in Nat /\ MaxSets \in Nat
  BY EntriesAssumption
<1>2. got' \in Seq(Item) \cup {NoPayload} /\ sets' \in 0..MaxSets
  BY <1>1 DEF TableTypes, SetEntry
<1>3. counted' \in [Caches -> Counters]
  <2>1. CASE Accepted(a)
    <3>1. Count(m, p)
      BY <2>1 DEF SetEntry
    <3>2. PICK ones, raw, zip \in Nat :
            /\ zip + ones <= raw
            /\ Threshold[m] = Off => ones = 0 /\ raw = 0
            /\ counted' = [counted EXCEPT ![m] =
                 [entries |-> counted[m].entries + ones, in |-> counted[m].in + raw,
                  out |-> counted[m].out + zip]]
      BY <1>1, <3>1, CountStep
    <3>3. counted \in [Caches -> Counters]
      BY DEF TableTypes
    <3> QED
      BY <3>2, <3>3 DEF Counters
  <2>2. CASE ~Accepted(a)
    BY <2>2 DEF SetEntry, TableTypes
  <2> QED
    BY <2>1, <2>2
<1>4. \A k \in DOMAIN table' : k \in Nat \ {0} /\ table'[k] \in Seq(Item)
  <2>1. CASE UNCHANGED table
    BY <2>1 DEF TableTypes
  <2>2. CASE Accepted(a) /\ WriteRow(KeyOf[a], Prepared(p, Threshold[m]))
    <3> DEFINE q == Prepared(p, Threshold[m])
               k == KeyOf[a]
    <3>1. q \in Seq(Item)
      BY <1>1, PreparedType
    <3>2. k \in Nat \ {0}
      BY <1>1, <2>2 DEF Accepted
    <3>3. table' = [j \in DOMAIN table \cup {k} |-> IF j = k THEN q ELSE table[j]]
      BY <2>2 DEF WriteRow
    <3> HIDE DEF q, k
    <3> QED
      BY <3>1, <3>2, <3>3 DEF TableTypes
  <2> QED
    BY <2>1, <2>2 DEF SetEntry
<1> QED
  BY <1>2, <1>3, <1>4 DEF TableTypes

LEMMA TableNextTypes == TableTypes /\ [TableNext]_tableVars => TableTypes'
<1> SUFFICES ASSUME TableTypes, [TableNext]_tableVars PROVE TableTypes'
  OBVIOUS
<1>1. ASSUME NEW a \in Arguments, GetEntry(a) PROVE TableTypes'
  <2>1. Found(a) \in Seq(Item) \cup {NoPayload}
    BY RestoredType DEF Found, TableTypes
  <2> QED
    BY <1>1, <2>1 DEF TableTypes, GetEntry
<1>2. ASSUME NEW a \in Arguments, ForgetEntry(a) PROVE TableTypes'
  BY <1>2 DEF TableTypes, ForgetEntry, DropRows
<1>3. ASSUME NEW a \in Arguments, NEW m \in Caches, NEW p \in Entries, SetEntry(m, a, p)
      PROVE TableTypes'
  BY <1>3, SetEntryTypes
<1>4. CASE ClearTable
  BY <1>4 DEF TableTypes, ClearTable, DropRows
<1>5. CASE UNCHANGED tableVars
  BY <1>5 DEF TableTypes, tableVars
<1> QED
  BY <1>1, <1>2, <1>3, <1>4, <1>5 DEF TableNext

\* TableTypes: every variable keeps its type, and no row has the key of
\* arguments that _storage_key refuses.
THEOREM TableTypesHold == TableSpec => []TableTypes
BY TableInitTypes, TableNextTypes, PTL DEF TableSpec

-----------------------------------------------------------------------------
(* The counters.                                                            *)

LEMMA SavingsStep ==
  TableTypes /\ SavingsAreReal /\ [TableNext]_tableVars => SavingsAreReal'
<1> SUFFICES ASSUME TableTypes, SavingsAreReal, [TableNext]_tableVars PROVE SavingsAreReal'
  OBVIOUS
<1>1. CASE UNCHANGED counted
  BY <1>1 DEF SavingsAreReal
<1>2. ASSUME NEW m \in Caches, NEW p \in Entries, Count(m, p) PROVE SavingsAreReal'
  <2>1. p \in Seq(Item)
    BY EntriesAssumption
  <2>2. PICK ones, raw, zip \in Nat :
          /\ zip + ones <= raw
          /\ Threshold[m] = Off => ones = 0 /\ raw = 0
          /\ counted' = [counted EXCEPT ![m] =
               [entries |-> counted[m].entries + ones, in |-> counted[m].in + raw,
                out |-> counted[m].out + zip]]
    BY <1>2, <2>1, CountStep
  <2>3. counted \in [Caches -> Counters]
    BY DEF TableTypes
  <2>4. /\ counted[m].entries \in Nat /\ counted[m].in \in Nat /\ counted[m].out \in Nat
        /\ counted[m].out + counted[m].entries <= counted[m].in
        /\ Threshold[m] = Off => counted[m].entries = 0 /\ counted[m].in = 0
    BY <2>3 DEF Counters, SavingsAreReal
  <2>5. /\ counted'[m].entries = counted[m].entries + ones
        /\ counted'[m].in = counted[m].in + raw
        /\ counted'[m].out = counted[m].out + zip
    BY <2>2, <2>3
  <2>6. counted'[m].out + counted'[m].entries <= counted'[m].in
    BY <2>2, <2>4, <2>5
  <2>7. Threshold[m] = Off => counted'[m].entries = 0 /\ counted'[m].in = 0
    BY <2>2, <2>4, <2>5
  <2>8. \A n \in Caches : n # m => counted'[n] = counted[n]
    BY <2>2, <2>3
  <2> QED
    BY <2>6, <2>7, <2>8 DEF SavingsAreReal
<1>3. UNCHANGED counted \/ \E m \in Caches, p \in Entries : Count(m, p)
  BY DEF TableNext, tableVars, GetEntry, ForgetEntry, ClearTable, SetEntry
<1> QED
  BY <1>1, <1>2, <1>3

\* SavingsAreReal: whatever is stored, or fails to be, no manager counts a value
\* as compressed that has not become shorter.
THEOREM SavingsHold == TableSpec => []SavingsAreReal
<1>1. TableInit => SavingsAreReal
  BY DEF TableInit, SavingsAreReal
<1> QED
  BY <1>1, SavingsStep, TableTypesHold, PTL DEF TableSpec

-----------------------------------------------------------------------------
(* The table is a map from the meanings of keys to payloads.                *)

\* Arguments that are accepted share what they find with those that mean the
\* same, and with no others, as they share its row.
LEMMA SharedRow ==
  ASSUME KeysFollowMeaning, NEW a \in Arguments, Accepted(a), NEW b \in Arguments
  PROVE  /\ b \in Meaning[a] <=> KeyOf[b] = KeyOf[a]
         /\ b \in Meaning[a] => Found(b) = Found(a)
BY DEF KeysFollowMeaning, Found

\* get reads the cell of its arguments.
LEMMA GetReads ==
  ASSUME NEW a \in Arguments, GetEntry(a)
  PROVE  Map!Get(a)
BY DEF GetEntry, Map!Get, Found

\* set puts a payload that comes back as the one it is given in the cells of
\* all that means the same, or changes none.
LEMMA SetPuts ==
  ASSUME KeysFollowMeaning, NEW a \in Arguments, NEW m \in Caches, NEW p \in Entries,
         SetEntry(m, a, p)
  PROVE  Map!Put(a) \/ UNCHANGED Map!vars
<1>1. CASE UNCHANGED table
  BY <1>1 DEF SetEntry, Map!vars, Found
<1>2. CASE Accepted(a) /\ WriteRow(KeyOf[a], Prepared(p, Threshold[m]))
  <2> DEFINE q == Prepared(p, Threshold[m])
  <2>1. q \in Seq(Item)
    BY EntriesAssumption, PreparedType
  <2>2. Restored(q) \in Seq(Item) /\ Restored(q) # NoPayload
    BY <2>1, RestoredType, EntriesAssumption
  <2>3. Map!PayloadComesBackAs(p, Restored(q))
    BY PayloadComesBack
  <2>4. table' = [j \in DOMAIN table \cup {KeyOf[a]} |-> IF j = KeyOf[a] THEN q ELSE table[j]]
    BY <1>2 DEF WriteRow
  <2> HIDE DEF q
  <2>5. \A b \in Arguments :
          Found(b)' = IF b \in Meaning[a] THEN Restored(q) ELSE Found(b)
    BY <1>2, <2>4, SharedRow DEF Found
  <2>6. got' = got
    BY DEF SetEntry
  <2>7. a \in Meaning[a] /\ Found(a)' = Restored(q)
    BY <1>2, <2>5, SharedRow
  <2>8. CASE Found(a) = Restored(q)
    <3>1. \A b \in Arguments : Found(b)' = Found(b)
      BY <1>2, <2>5, <2>8, SharedRow
    <3> QED
      BY <2>6, <3>1 DEF Map!vars
  <2>9. CASE Found(a) # Restored(q)
    BY <2>2, <2>3, <2>5, <2>6, <2>7, <2>9 DEF Map!Put, Map!Assign
  <2> QED
    BY <2>8, <2>9
<1> QED
  BY <1>1, <1>2 DEF SetEntry

\* What is deleted, or dropped by diskcache, is gone for all that means the same.
LEMMA ForgetForgets ==
  ASSUME KeysFollowMeaning, NEW a \in Arguments, ForgetEntry(a)
  PROVE  Map!Forget(a)
<1>1. Accepted(a) /\ table' = [k \in DOMAIN table \ {KeyOf[a]} |-> table[k]] /\ got' = got
  BY DEF ForgetEntry, DropRows
<1>2. \A b \in Arguments : Found(b)' = IF b \in Meaning[a] THEN NoPayload ELSE Found(b)
  BY <1>1, SharedRow DEF Found
<1>3. a \in Meaning[a]
  BY <1>1, SharedRow
<1> QED
  BY <1>1, <1>2, <1>3 DEF Map!Forget, Map!Assign

LEMMA ClearClears ==
  ASSUME ClearTable
  PROVE  Map!Clear
<1>1. DOMAIN table' = {} /\ got' = got
  BY DEF ClearTable, DropRows
<1> QED
  BY <1>1 DEF Map!Clear, Found

\* StoresEntries: where keys follow meaning, managers that share a directory
\* implement a map from meanings to payloads, whatever each compresses.
THEOREM TableIsMap == KeysFollowMeaning => (TableSpec => StoresEntries)
<1> SUFFICES ASSUME KeysFollowMeaning PROVE TableSpec => StoresEntries
  OBVIOUS
<1>1. TableInit => Map!Init
  BY DEF TableInit, Map!Init, Found
<1>2. [TableNext]_tableVars => [Map!Next]_(Map!vars)
  <2> SUFFICES ASSUME [TableNext]_tableVars PROVE [Map!Next]_(Map!vars)
    OBVIOUS
  <2>1. ASSUME NEW a \in Arguments, GetEntry(a) PROVE Map!Next
    BY <2>1, GetReads DEF Map!Next
  <2>2. ASSUME NEW a \in Arguments, ForgetEntry(a) PROVE Map!Next
    BY <2>2, ForgetForgets DEF Map!Next
  <2>3. ASSUME NEW a \in Arguments, NEW m \in Caches, NEW p \in Entries, SetEntry(m, a, p)
        PROVE  [Map!Next]_(Map!vars)
    BY <2>3, SetPuts DEF Map!Next
  <2>4. CASE ClearTable
    BY <2>4, ClearClears DEF Map!Next
  <2>5. CASE UNCHANGED tableVars
    BY <2>5 DEF tableVars, Map!vars, Found
  <2> QED
    BY <2>1, <2>2, <2>3, <2>4, <2>5 DEF TableNext
<1> QED
  BY <1>1, <1>2, PTL DEF TableSpec, StoresEntries, Map!Spec
=============================================================================
