---------------------------- MODULE CacheManager ----------------------------
(***************************************************************************)
(* BaseCacheManager (src/py_lib_runtime/_internal/cache/base.py): threads  *)
(* calling the synchronous operations of cache managers that share one     *)
(* cache directory.  A manager stands for one process; its handle is the   *)
(* attribute self._cache.  The directory is a diskcache.Cache, an external *)
(* SQLite table whose every operation is one transaction, so it is one     *)
(* step here.  The table holds the entries and, as rows like any other,    *)
(* the per-key locks of get_or_set.                                        *)
(*                                                                         *)
(* A step of a thread is the code between two accesses to what other       *)
(* threads or processes can change: the handle, the entries, the locks.    *)
(* The two counters of _cache_stats move in the same step as the access    *)
(* before them.                                                            *)
(***************************************************************************)
EXTENDS Integers, FiniteSets

CONSTANTS
  Callers,      \* threads, in every process
  Managers,     \* cache managers, one per process
  Mgr,          \* Mgr[c] is the manager thread c calls
  Keys,         \* caller keys with their params, one storage key each
  Values,       \* entries
  None,         \* Python's None: no row, or a factory without a result
  Undecodable,  \* entries whose stored payload _deserialize_entry refuses
  Predicates,   \* is_valid arguments, each the set of entries it accepts
  Ops,          \* the operations the threads call
  MaxCalls,     \* bound: calls of one thread
  MayCrash,     \* processes may die
  MayEvict,     \* the directory reaches its size limit
  MayExpire     \* entries have a ttl

OpNames == {"get_or_set", "get", "set", "delete", "has", "clear", "stats", "close"}

ASSUME CallersAssumption ==
  /\ IsFiniteSet(Callers)
  /\ Mgr \in [Callers -> Managers]
  /\ Ops \subseteq OpNames
  /\ MaxCalls \in Nat

ASSUME ValuesAssumption ==
  /\ None \notin Values
  /\ Undecodable \subseteq Values
  /\ Predicates \subseteq SUBSET Values
  /\ Values \in Predicates          \* is_valid=None, the default

ASSUME FaultsAssumption ==
  MayCrash \in BOOLEAN /\ MayEvict \in BOOLEAN /\ MayExpire \in BOOLEAN

VARIABLES
  entry,      \* entry[k]: the stored entry of k, or None
  lockRow,    \* the keys k whose row "__lock__:k" is in the table
  handle,     \* handle[m]: "open", "closed" (self._cache is None) or "crashed"
  hits,       \* _cache_stats["hits"] of each manager
  misses,     \* _cache_stats["misses"]
  pc,         \* where each thread is
  op, key, accepts,   \* arguments of each thread's current call
  val,        \* the entry a thread has read, computed or was given
  outcome,    \* how the thread's call ended, or is about to end
  calls       \* calls made so far by each thread

store == <<entry, lockRow>>
stats == <<hits, misses>>
args == <<op, key, accepts, calls>>
vars == <<entry, lockRow, handle, hits, misses, pc, op, key, accepts, val, outcome, calls>>

Outcomes == {"none", "hit", "miss", "bypass", "closed", "done", "raised"}

\* The program points of get_or_set between taking and dropping the lock.
Critical == {"recheck", "reread", "factory", "store", "write", "release"}

Locations == {"idle", "check", "use", "probe", "lock", "spin", "bypass"} \cup Critical

IsOpen(c) == handle[Mgr[c]] = "open"

Init ==
  /\ entry = [k \in Keys |-> None]
  /\ lockRow = {}
  /\ handle = [m \in Managers |-> "open"]
  /\ hits = [m \in Managers |-> 0]
  /\ misses = [m \in Managers |-> 0]
  /\ pc = [c \in Callers |-> "idle"]
  /\ op = [c \in Callers |-> "get"]
  /\ key \in {[c \in Callers |-> k] : k \in Keys}
  /\ accepts = [c \in Callers |-> Values]
  /\ val = [c \in Callers |-> None]
  /\ outcome = [c \in Callers |-> "none"]
  /\ calls = [c \in Callers |-> 0]

-----------------------------------------------------------------------------
(* Moving a thread.                                                         *)

At(c, l) == pc[c] = l
Goto(c, l) == pc' = [pc EXCEPT ![c] = l]
Conclude(c, o, v) ==
  /\ outcome' = [outcome EXCEPT ![c] = o]
  /\ val' = [val EXCEPT ![c] = v]
Carry == UNCHANGED <<outcome, val>>
Hit(c) == hits' = [hits EXCEPT ![Mgr[c]] = @ + 1] /\ UNCHANGED misses
Miss(c) == misses' = [misses EXCEPT ![Mgr[c]] = @ + 1] /\ UNCHANGED hits

\* diskcache culls rows inside the transaction that adds one when the volume
\* is over size_limit: any entries and any locks, the new row included.
Culled == IF MayEvict THEN SUBSET Keys ELSE {{}}

PutEntry(k, v) ==
  \E goneEntries \in Culled, goneLocks \in Culled :
    /\ entry' = [j \in Keys |-> IF j \in goneEntries THEN None
                                ELSE IF j = k THEN v ELSE entry[j]]
    /\ lockRow' = lockRow \ goneLocks

\* Lock.acquire adds the row if there is none; expire=None, so no ttl.
PutLock(k) ==
  \E goneEntries \in Culled, goneLocks \in Culled :
    /\ entry' = [j \in Keys |-> IF j \in goneEntries THEN None ELSE entry[j]]
    /\ lockRow' = (lockRow \cup {k}) \ goneLocks

-----------------------------------------------------------------------------
(* Every operation starts by looking at the handle.                         *)

Invoke(c) ==
  /\ At(c, "idle")
  /\ calls[c] < MaxCalls
  /\ handle[Mgr[c]] # "crashed"
  /\ \E o \in Ops, k \in Keys, P \in Predicates :
       /\ o = "get_or_set" \/ P = Values
       /\ op' = [op EXCEPT ![c] = o]
       /\ key' = [key EXCEPT ![c] = k]
       /\ accepts' = [accepts EXCEPT ![c] = P]
  /\ calls' = [calls EXCEPT ![c] = @ + 1]
  /\ Goto(c, "check")
  /\ Conclude(c, "none", None)
  /\ UNCHANGED <<store, handle, stats>>

\* `if self._cache is None`, then _storage_key, which refuses some params.
Check(c) ==
  /\ At(c, "check")
  /\ \/ /\ ~IsOpen(c) /\ op[c] = "get_or_set"
        /\ Goto(c, "bypass") /\ Carry
     \/ /\ ~IsOpen(c) /\ op[c] # "get_or_set"
        /\ Goto(c, "idle") /\ Conclude(c, "closed", None)
     \/ /\ IsOpen(c)
        /\ Goto(c, IF op[c] = "get_or_set" THEN "probe" ELSE "use") /\ Carry
     \/ /\ IsOpen(c) /\ op[c] \notin {"clear", "stats", "close"}
        /\ Goto(c, "idle") /\ Conclude(c, "raised", None)
  /\ UNCHANGED <<store, handle, stats, args>>

-----------------------------------------------------------------------------
(* The operations other than get_or_set: one access to the table.           *)

\* The access raises: another thread closed the manager since the check and
\* None has no methods, SQLite timed out, or an entry would not serialize.
UseFails(c) ==
  /\ At(c, "use")
  /\ Goto(c, "idle") /\ Conclude(c, "raised", None)
  /\ UNCHANGED <<store, handle, stats, args>>

\* The access goes through, even on a manager closed since the check if the
\* thread had already loaded self._cache: a closed diskcache.Cache reopens.
Use(c, o) == At(c, "use") /\ op[c] = o /\ Goto(c, "idle") /\ UNCHANGED args

Get(c) ==
  /\ Use(c, "get")
  /\ LET v == entry[key[c]] IN
       \/ v = None /\ Miss(c) /\ Conclude(c, "miss", None)
       \/ v \in Undecodable /\ Hit(c) /\ Conclude(c, "raised", None)
       \/ v \in Values \ Undecodable /\ Hit(c) /\ Conclude(c, "hit", v)
  /\ UNCHANGED <<store, handle>>

Set(c) ==
  /\ Use(c, "set")
  /\ \E v \in Values : PutEntry(key[c], v) /\ Conclude(c, "done", v)
  /\ UNCHANGED <<handle, stats>>

Delete(c) ==
  /\ Use(c, "delete")
  /\ entry' = [entry EXCEPT ![key[c]] = None]
  /\ Conclude(c, "done", None)
  /\ UNCHANGED <<lockRow, handle, stats>>

\* has and stats read the table and the counters and change nothing.
Has(c) ==
  /\ Use(c, "has")
  /\ Conclude(c, "done", None)
  /\ UNCHANGED <<store, handle, stats>>

Stats(c) ==
  /\ Use(c, "stats")
  /\ Conclude(c, "done", None)
  /\ UNCHANGED <<store, handle, stats>>

\* diskcache.Cache.clear deletes every row of the table, the locks too.
Clear(c) ==
  /\ Use(c, "clear")
  /\ entry' = [k \in Keys |-> None]
  /\ lockRow' = {}
  /\ Conclude(c, "done", None)
  /\ UNCHANGED <<handle, stats>>

Close(c) ==
  /\ Use(c, "close")
  /\ handle' = [handle EXCEPT ![Mgr[c]] = "closed"]
  /\ Conclude(c, "done", None)
  /\ UNCHANGED <<store, stats>>

-----------------------------------------------------------------------------
(* get_or_set.                                                              *)

\* The rest of _get_cached_entry once it has found the handle open: fall
\* through to onMiss, or leave with a hit or an exception.  The read (also of
\* a handle closed meanwhile), _deserialize_entry and is_valid may all raise.
Lookup(c, onMiss, onExit) ==
  LET v == entry[key[c]] IN
  \/ /\ v = None \/ v \in Values \ (Undecodable \cup accepts[c])
     /\ Goto(c, onMiss) /\ Carry /\ UNCHANGED stats
  \/ Goto(c, onExit) /\ Conclude(c, "raised", None) /\ UNCHANGED stats
  \/ /\ v \in accepts[c] \ Undecodable
     /\ Goto(c, onExit) /\ Conclude(c, "hit", v) /\ Hit(c)

\* The first, unlocked lookup; a handle closed since the check may read as a
\* miss.
Probe(c) ==
  /\ At(c, "probe")
  /\ \/ Lookup(c, "lock", "idle")
     \/ ~IsOpen(c) /\ Goto(c, "lock") /\ Carry /\ UNCHANGED stats
  /\ UNCHANGED <<store, handle, args>>

\* _lock raises when the handle was closed meanwhile, unless it has loaded it.
Lock(c) ==
  /\ At(c, "lock")
  /\ \/ Goto(c, "spin") /\ Carry
     \/ ~IsOpen(c) /\ Goto(c, "idle") /\ Conclude(c, "raised", None)
  /\ UNCHANGED <<store, handle, stats, args>>

\* Faulty variant: the lock excludes only the threads of the same process.
AcquireInProcess(c) ==
  /\ At(c, "spin")
  /\ \A d \in Callers : Mgr[d] = Mgr[c] /\ key[d] = key[c] => pc[d] \notin Critical
  /\ PutLock(key[c])
  /\ Goto(c, "recheck") /\ Carry
  /\ UNCHANGED <<handle, stats, args>>

\* The lock keeps its own reference to the table: it works on a closed manager.
Acquire(c) ==
  /\ At(c, "spin")
  /\ key[c] \notin lockRow
  /\ PutLock(key[c])
  /\ Goto(c, "recheck") /\ Carry
  /\ UNCHANGED <<handle, stats, args>>

\* Lock.acquire sleeps a millisecond and tries again.
Poll(c) ==
  /\ At(c, "spin")
  /\ key[c] \in lockRow
  /\ UNCHANGED vars

\* Faulty variant: no second lookup once the lock is held.
RecheckSkipped(c) ==
  /\ At(c, "recheck")
  /\ Goto(c, "factory") /\ Carry
  /\ UNCHANGED <<store, handle, stats, args>>

\* The second lookup, under the lock; a closed handle reads as a miss.
Recheck(c) ==
  /\ At(c, "recheck")
  /\ Goto(c, IF IsOpen(c) THEN "reread" ELSE "factory") /\ Carry
  /\ UNCHANGED <<store, handle, stats, args>>

\* Faulty variant: the second lookup is outside the try ... finally.
RereadUnprotected(c) ==
  /\ At(c, "reread")
  /\ Lookup(c, "factory", "idle")
  /\ UNCHANGED <<store, handle, args>>

Reread(c) ==
  /\ At(c, "reread")
  /\ Lookup(c, "factory", "release")
  /\ UNCHANGED <<store, handle, args>>

\* Faulty variant: the lock is dropped before the result is stored.
FactoryUnlocks(c) ==
  /\ At(c, "factory")
  /\ \/ \E v \in Values : /\ val' = [val EXCEPT ![c] = v]
                          /\ Goto(c, "store") /\ UNCHANGED <<outcome, stats>>
     \/ Miss(c) /\ Conclude(c, "miss", None) /\ Goto(c, "release")
     \/ Conclude(c, "raised", None) /\ Goto(c, "release") /\ UNCHANGED stats
  /\ lockRow' = lockRow \ {key[c]}
  /\ UNCHANGED <<entry, handle, args>>

Factory(c) ==
  /\ At(c, "factory")
  /\ \/ \E v \in Values : /\ val' = [val EXCEPT ![c] = v]
                          /\ Goto(c, "store") /\ UNCHANGED <<outcome, stats>>
     \/ Miss(c) /\ Conclude(c, "miss", None) /\ Goto(c, "release")
     \/ Conclude(c, "raised", None) /\ Goto(c, "release") /\ UNCHANGED stats
  /\ UNCHANGED <<store, handle, args>>

\* self.set returns without storing when the manager is closed.
Store(c) ==
  /\ At(c, "store")
  /\ \/ IsOpen(c) /\ Goto(c, "write") /\ Carry /\ UNCHANGED stats
     \/ ~IsOpen(c) /\ Goto(c, "release") /\ Conclude(c, "bypass", val[c]) /\ Miss(c)
  /\ UNCHANGED <<store, handle, args>>

Write(c) ==
  /\ At(c, "write")
  /\ Goto(c, "release")
  /\ \/ PutEntry(key[c], val[c]) /\ Miss(c) /\ Conclude(c, "miss", val[c])
     \/ Conclude(c, "raised", None) /\ UNCHANGED <<store, stats>>
  /\ UNCHANGED <<handle, args>>

\* Faulty variant: an exception skips the release.
ReleaseUnlessRaised(c) ==
  /\ At(c, "release")
  /\ lockRow' = IF outcome[c] = "raised" THEN lockRow ELSE lockRow \ {key[c]}
  /\ Goto(c, "idle") /\ Carry
  /\ UNCHANGED <<entry, handle, stats, args>>

\* Lock.release deletes the row, whoever added it.
Release(c) ==
  /\ At(c, "release")
  /\ lockRow' = lockRow \ {key[c]}
  /\ Goto(c, "idle") /\ Carry
  /\ UNCHANGED <<entry, handle, stats, args>>

\* get_or_set on a manager that was closed before the call.
Bypass(c) ==
  /\ At(c, "bypass")
  /\ Goto(c, "idle")
  /\ \/ \E v \in Values \cup {None} : Conclude(c, "bypass", v)
     \/ Conclude(c, "raised", None)
  /\ UNCHANGED <<store, handle, stats, args>>

-----------------------------------------------------------------------------
(* What happens to managers and to the table from outside.                  *)

\* A new manager on the directory takes the place of one nobody is calling.
Open(m) ==
  /\ handle[m] # "open"
  /\ \A c \in Callers : Mgr[c] = m => At(c, "idle")
  /\ handle' = [handle EXCEPT ![m] = "open"]
  /\ hits' = [hits EXCEPT ![m] = 0]
  /\ misses' = [misses EXCEPT ![m] = 0]
  /\ UNCHANGED <<store, pc, args, val, outcome>>

\* The process dies: its threads vanish, the table stays as it is.
Crash(m) ==
  /\ MayCrash
  /\ handle[m] # "crashed"
  /\ handle' = [handle EXCEPT ![m] = "crashed"]
  /\ pc' = [c \in Callers |-> IF Mgr[c] = m THEN "idle" ELSE pc[c]]
  /\ outcome' = [c \in Callers |-> IF Mgr[c] = m THEN "none" ELSE outcome[c]]
  /\ val' = [c \in Callers |-> IF Mgr[c] = m THEN None ELSE val[c]]
  /\ UNCHANGED <<store, stats, args>>

Expire(k) ==
  /\ MayExpire
  /\ entry[k] # None
  /\ entry' = [entry EXCEPT ![k] = None]
  /\ UNCHANGED <<lockRow, handle, stats, pc, args, val, outcome>>

\* Every thread has made its calls: the run is over.
Finished ==
  /\ \A c \in Callers : At(c, "idle") /\ calls[c] = MaxCalls
  /\ UNCHANGED vars

-----------------------------------------------------------------------------

\* The steps of a call in progress.
Step(c) ==
  \/ Check(c) \/ UseFails(c)
  \/ Get(c) \/ Set(c) \/ Delete(c) \/ Has(c) \/ Stats(c) \/ Clear(c) \/ Close(c)
  \/ Probe(c) \/ Lock(c) \/ Acquire(c) \/ Poll(c) \/ Recheck(c) \/ Reread(c)
  \/ Factory(c) \/ Store(c) \/ Write(c) \/ Release(c) \/ Bypass(c)

Next ==
  \/ \E c \in Callers : Invoke(c) \/ Step(c)
  \/ \E m \in Managers : Open(m) \/ Crash(m)
  \/ \E k \in Keys : Expire(k)
  \/ Finished

Spec == Init /\ [][Next]_vars

\* Threads are scheduled and factories return.  Nothing makes a thread call,
\* a process crash or an entry expire.
FairSpec == Spec /\ \A c \in Callers : WF_vars(Step(c))
-----------------------------------------------------------------------------
(* Properties.                                                              *)

InCritical(c) == pc[c] \in Critical

\* Every variable holds a value of its type.
TypeOK ==
  /\ entry \in [Keys -> Values \cup {None}]
  /\ lockRow \subseteq Keys
  /\ handle \in [Managers -> {"open", "closed", "crashed"}]
  /\ hits \in [Managers -> Nat]
  /\ misses \in [Managers -> Nat]
  /\ pc \in [Callers -> Locations]
  /\ op \in [Callers -> OpNames]
  /\ key \in [Callers -> Keys]
  /\ accepts \in [Callers -> Predicates]
  /\ val \in [Callers -> Values \cup {None}]
  /\ outcome \in [Callers -> Outcomes]
  /\ calls \in [Callers -> 0..MaxCalls]

\* At most one thread, in whatever process, is between taking and dropping
\* the lock of a key: get_or_set computes "atomically" (base.py:166).
SingleFlight ==
  \A c, d \in Callers : InCritical(c) /\ InCritical(d) /\ key[c] = key[d] => c = d

\* A lock row always belongs to a call still in progress on that key: every
\* exit of the locked block of get_or_set, exceptions included, drops it.
NoOrphanLock ==
  \A k \in lockRow : \E c \in Callers : InCritical(c) /\ key[c] = k

\* The calls that compute a key and are not held apart by its lock row.
Computing(k) == {c \in Callers : InCritical(c) /\ key[c] = k}
Unguarded(k) == Cardinality(Computing(k)) - (IF k \in lockRow THEN 1 ELSE 0)

\* The steps that may take rows from under their holders: a clear, and where
\* the directory is full the adding of a row.
Loses(c) ==
  \/ At(c, "use") /\ op[c] = "clear"
  \/ MayEvict /\ pc[c] \in {"spin", "write"}
  \/ MayEvict /\ At(c, "use") /\ op[c] = "set"

\* Every loss of rows lets at most one more call compute a key beside the one
\* that holds its lock: although the late release of the one then takes the
\* row of the next, the calls that come do not pile up.
LossesAddOne ==
  [][\A k \in Keys :
       /\ Unguarded(k)' <= Unguarded(k) + 1
       /\ Unguarded(k)' > Unguarded(k)
            => \E c \in Callers : Loses(c) /\ pc'[c] # pc[c]]_vars

\* A thread that is computing on an open manager has nothing usable to read:
\* whoever waited for the lock sees what its holder stored, and nobody
\* stores behind its back while it computes.
NoWastedCompute ==
  \A c \in Callers :
    pc[c] \in {"factory", "store", "write"} /\ IsOpen(c)
      => entry[key[c]] \notin accepts[c]

\* All the calls that returned an entry of a key, from any process, as a hit
\* or as a stored miss, returned the same one.
Answered(c) == pc[c] = "idle" /\ outcome[c] \in {"hit", "miss"} /\ val[c] # None
Agreement ==
  \A c, d \in Callers : Answered(c) /\ Answered(d) /\ key[c] = key[d] => val[c] = val[d]

\* Every call ends: waiting for the lock is not forever.
CallsReturn == \A c \in Callers : (pc[c] # "idle") ~> (pc[c] = "idle")

-----------------------------------------------------------------------------
(* The refinement of ComputeOnce: a flight is a call that holds the lock    *)
(* and has not stored yet.                                                  *)

InFlight(c) == pc[c] \in Critical \ {"release"}

flights ==
  [k \in Keys |-> {[who |-> c, accepts |-> accepts[c]] :
                     c \in {d \in Callers : InFlight(d) /\ key[d] = k}}]

CO == INSTANCE ComputeOnce WITH cell <- entry, flight <- flights

\* Seen from outside, get_or_set looks up, computes and stores in one flight
\* per key, and stores only over what it could not use.
ComputesOnce == CO!Spec
=============================================================================
