--------------------------- MODULE CachedDecorator ---------------------------
(***************************************************************************)
(* The wrappers of @cached (src/py_lib_runtime/_internal/cache/decorators. *)
(* py): functions that read a source which changes while they run, behind  *)
(* one cache manager.  The async wrapper takes the steps of the sync one.  *)
(* get_or_set appears as CacheManager has it when no lock is lost: a       *)
(* lookup, a lock per key, and a store by the lock's holder; a forced      *)
(* refresh stores without the lock.                                        *)
(*                                                                         *)
(* A result is the version of the source the function read.                *)
(***************************************************************************)
EXTENDS Naturals, FiniteSets

CONSTANTS
  Callers, Keys,
  None,         \* no entry, no holder, or a function that returned None
  Modes,        \* the kinds of calls made
  MaxVersion,   \* bound: versions of the source
  MaxCalls,     \* bound: calls of one caller
  MayClose,     \* the manager may be closed
  MayForget     \* entries may expire or be deleted

\* "bypass": no_cache was asked for, or the getter found no manager.
ModeNames == {"cached", "refresh", "bypass"}

Versions == 1..MaxVersion

ASSUME ModesAssumption ==
  /\ Modes \subseteq ModeNames
  /\ MaxVersion \in Nat \ {0} /\ MaxCalls \in Nat
  /\ MayClose \in BOOLEAN /\ MayForget \in BOOLEAN

ASSUME NoneAssumption == None \notin Versions \cup Callers

VARIABLES
  cell,      \* cell[k]: the cached result of key k, or None
  holder,    \* holder[k]: the caller that holds the lock of k, or None
  open,      \* the manager is not closed
  version,   \* what the source says now
  pc, mode, key,
  result,    \* what the caller's function or the cache returned
  emitted,   \* events emitted by the current call
  ran,       \* the current call ran the function
  wrote,     \* the current call changed the cache
  overtaken, \* the modes of the calls that stored to the key since the
             \* function of this call ran
  outcome, calls

cache == <<cell, holder, open>>
call == <<mode, key, calls>>
history == <<emitted, ran, wrote, overtaken>>
vars == <<cell, holder, open, version, pc, mode, key, result, emitted, ran,
          wrote, overtaken, outcome, calls>>

Locations == {"idle", "emit_miss_first", "get", "func", "leave", "set",
              "emit_hit", "emit_miss", "emit_store"}

Init ==
  /\ cell = [k \in Keys |-> None]
  /\ holder = [k \in Keys |-> None]
  /\ open = TRUE
  /\ version = 1
  /\ pc = [c \in Callers |-> "idle"]
  /\ mode = [c \in Callers |-> "bypass"]
  /\ key \in {[c \in Callers |-> k] : k \in Keys}
  /\ result = [c \in Callers |-> None]
  /\ emitted = [c \in Callers |-> {}]
  /\ ran = [c \in Callers |-> FALSE]
  /\ wrote = [c \in Callers |-> FALSE]
  /\ overtaken = [c \in Callers |-> {}]
  /\ outcome = [c \in Callers |-> "none"]
  /\ calls = [c \in Callers |-> 0]

At(c, l) == pc[c] = l
Goto(c, l) == pc' = [pc EXCEPT ![c] = l]
Return(c) == Goto(c, "idle") /\ outcome' = [outcome EXCEPT ![c] = "returned"]
Raise(c) == Goto(c, "idle") /\ outcome' = [outcome EXCEPT ![c] = "raised"]
Proceed(c, l) == Goto(c, l) /\ UNCHANGED outcome

\* Faulty variant: the argument of the callback is taken for the event.
EmitBound(c, event) == emitted' = [emitted EXCEPT ![c] = @ \cup {key[c]}]

\* A callback of CacheEvents, which may raise into the caller.
Emit(c, event) == emitted' = [emitted EXCEPT ![c] = @ \cup {event}]

\* The result of the call replaces the entry.
Write(c) ==
  /\ cell' = [cell EXCEPT ![key[c]] = result[c]]
  /\ wrote' = [wrote EXCEPT ![c] = TRUE]
  /\ overtaken' = [d \in Callers |->
       IF d # c /\ key[d] = key[c] THEN overtaken[d] \cup {mode[c]}
       ELSE overtaken[d]]

-----------------------------------------------------------------------------

\* Bind the arguments and build the context: the getter or a missing key
\* argument may raise.
Call(c) ==
  /\ At(c, "idle")
  /\ calls[c] < MaxCalls
  /\ calls' = [calls EXCEPT ![c] = @ + 1]
  /\ emitted' = [emitted EXCEPT ![c] = {}]
  /\ ran' = [ran EXCEPT ![c] = FALSE]
  /\ wrote' = [wrote EXCEPT ![c] = FALSE]
  /\ result' = [result EXCEPT ![c] = None]
  /\ \E m \in Modes, k \in Keys :
       /\ mode' = [mode EXCEPT ![c] = m]
       /\ key' = [key EXCEPT ![c] = k]
       /\ \/ /\ Goto(c, IF m = "cached" THEN "get" ELSE "emit_miss_first")
             /\ outcome' = [outcome EXCEPT ![c] = "none"]
          \/ Raise(c)
  /\ UNCHANGED <<cache, version, overtaken>>

\* Refreshes and bypasses report a miss before they run the function.
EmitMissFirst(c) ==
  /\ At(c, "emit_miss_first")
  /\ Emit(c, "miss")
  /\ Proceed(c, "func") \/ Raise(c)
  /\ UNCHANGED <<cache, version, call, result, ran, wrote, overtaken>>

\* Faulty variant: the factory runs without the lock.
GetUnlocked(c) ==
  /\ At(c, "get")
  /\ \/ /\ open /\ cell[key[c]] # None
        /\ result' = [result EXCEPT ![c] = cell[key[c]]]
        /\ Proceed(c, "emit_hit")
     \/ /\ ~open \/ cell[key[c]] = None
        /\ Proceed(c, "func") /\ UNCHANGED result
  /\ UNCHANGED <<holder, cell, open, version, call, history>>

\* get_or_set up to the factory: a hit at either lookup, the lock, or a
\* closed manager, which only runs the factory.
Get(c) ==
  /\ At(c, "get")
  /\ \/ /\ open /\ cell[key[c]] # None
        /\ result' = [result EXCEPT ![c] = cell[key[c]]]
        /\ Proceed(c, "emit_hit") /\ UNCHANGED holder
     \/ /\ open /\ cell[key[c]] = None /\ holder[key[c]] = None
        /\ holder' = [holder EXCEPT ![key[c]] = c]
        /\ Proceed(c, "func") /\ UNCHANGED result
     \/ ~open /\ Proceed(c, "func") /\ UNCHANGED <<result, holder>>
     \/ Raise(c) /\ UNCHANGED <<result, holder>>
  /\ UNCHANGED <<cell, open, version, call, history>>

\* Run the function, and to_entry on its result in the cached path.
Func(c) ==
  /\ At(c, "func")
  /\ ran' = [ran EXCEPT ![c] = TRUE]
  /\ overtaken' = [overtaken EXCEPT ![c] = {}]
  /\ \/ /\ \E v \in {version, None} : result' = [result EXCEPT ![c] = v]
        /\ \/ mode[c] = "cached" /\ Proceed(c, "leave")
           \/ mode[c] = "refresh" /\ Proceed(c, "set")
           \/ mode[c] = "bypass" /\ Return(c)
        /\ UNCHANGED holder
     \/ /\ Raise(c)
        /\ holder' = [k \in Keys |-> IF holder[k] = c THEN None ELSE holder[k]]
        /\ UNCHANGED result
  /\ UNCHANGED <<cell, open, version, call, emitted, wrote>>

\* get_or_set after the factory: store a result, if there is one, the manager
\* is open and the write succeeds; unlock.
Leave(c) ==
  /\ At(c, "leave")
  /\ holder' = [k \in Keys |-> IF holder[k] = c THEN None ELSE holder[k]]
  /\ \/ /\ result[c] # None /\ open
        /\ Write(c) /\ Proceed(c, "emit_miss")
     \/ /\ result[c] = None \/ ~open
        /\ Proceed(c, "emit_miss") /\ UNCHANGED <<cell, wrote, overtaken>>
     \/ /\ result[c] # None /\ open
        /\ Raise(c) /\ UNCHANGED <<cell, wrote, overtaken>>
  /\ UNCHANGED <<open, version, call, result, emitted, ran>>

EmitHit(c) ==
  /\ At(c, "emit_hit")
  /\ Emit(c, "hit")
  /\ Return(c) \/ Raise(c)
  /\ UNCHANGED <<cache, version, call, result, ran, wrote, overtaken>>

\* Faulty variant: a store is reported whether or not there is an entry.
EmitMissAlways(c) ==
  /\ At(c, "emit_miss")
  /\ Emit(c, "miss")
  /\ Proceed(c, "emit_store") \/ Raise(c)
  /\ UNCHANGED <<cache, version, call, result, ran, wrote, overtaken>>

\* A store follows a miss whenever the call has an entry to show.
EmitMiss(c) ==
  /\ At(c, "emit_miss")
  /\ Emit(c, "miss")
  /\ \/ result[c] # None /\ Proceed(c, "emit_store")
     \/ result[c] = None /\ Return(c)
     \/ Raise(c)
  /\ UNCHANGED <<cache, version, call, result, ran, wrote, overtaken>>

EmitStore(c) ==
  /\ At(c, "emit_store")
  /\ Emit(c, "store")
  /\ Return(c) \/ Raise(c)
  /\ UNCHANGED <<cache, version, call, result, ran, wrote, overtaken>>

\* Faulty variant: a forced refresh does not report its store.
SetSilently(c) ==
  /\ At(c, "set")
  /\ Return(c)
  /\ \/ result[c] # None /\ open /\ Write(c)
     \/ (result[c] = None \/ ~open) /\ UNCHANGED <<cell, wrote, overtaken>>
  /\ UNCHANGED <<holder, open, version, call, result, emitted, ran>>

\* _store_cache after a forced refresh: on a closed manager set returns
\* without a word, and the store is reported all the same.
Set(c) ==
  /\ At(c, "set")
  /\ \/ result[c] # None /\ open /\ Write(c) /\ Proceed(c, "emit_store")
     \/ /\ \/ result[c] = None /\ Return(c)
           \/ result[c] # None /\ ~open /\ Proceed(c, "emit_store")
           \/ result[c] # None /\ Raise(c)
        /\ UNCHANGED <<cell, wrote, overtaken>>
  /\ UNCHANGED <<holder, open, version, call, result, emitted, ran>>

-----------------------------------------------------------------------------
(* The world around.                                                        *)

Change ==
  /\ version < MaxVersion
  /\ version' = version + 1
  /\ UNCHANGED <<cache, pc, call, result, history, outcome>>

Close ==
  /\ MayClose /\ open
  /\ open' = FALSE
  /\ UNCHANGED <<cell, holder, version, pc, call, result, history, outcome>>

Forget(k) ==
  /\ MayForget /\ cell[k] # None
  /\ cell' = [cell EXCEPT ![k] = None]
  /\ UNCHANGED <<holder, open, version, pc, call, result, history, outcome>>

Finished ==
  /\ \A c \in Callers : At(c, "idle") /\ calls[c] = MaxCalls
  /\ UNCHANGED vars

Step(c) ==
  \/ EmitMissFirst(c) \/ Get(c) \/ Func(c) \/ Leave(c) \/ Set(c)
  \/ EmitHit(c) \/ EmitMiss(c) \/ EmitStore(c)

Next ==
  \/ \E c \in Callers : Call(c) \/ Step(c)
  \/ Change \/ Close
  \/ \E k \in Keys : Forget(k)
  \/ Finished

Spec == Init /\ [][Next]_vars

-----------------------------------------------------------------------------
(* Properties.                                                              *)

TypeOK ==
  /\ cell \in [Keys -> Versions \cup {None}]
  /\ holder \in [Keys -> Callers \cup {None}]
  /\ open \in BOOLEAN
  /\ version \in Versions
  /\ pc \in [Callers -> Locations]
  /\ mode \in [Callers -> ModeNames]
  /\ key \in [Callers -> Keys]
  /\ result \in [Callers -> Versions \cup {None}]
  /\ emitted \in [Callers -> SUBSET {"hit", "miss", "store"}]
  /\ ran \in [Callers -> BOOLEAN]
  /\ wrote \in [Callers -> BOOLEAN]
  /\ overtaken \in [Callers -> SUBSET ModeNames]
  /\ outcome \in [Callers -> {"none", "returned", "raised"}]
  /\ calls \in [Callers -> 0..MaxCalls]

\* What the events of a call that is over say of what it did.
EventsTell(c) ==
  /\ emitted[c] \in {{}, {"hit"}, {"miss"}, {"miss", "store"}}
  /\ "hit" \in emitted[c] => ~ran[c]
  /\ "store" \in emitted[c] => ran[c]
  /\ wrote[c] => "miss" \in emitted[c]
  /\ outcome[c] = "returned" =>
       /\ emitted[c] # {}
       /\ ran[c] <=> "miss" \in emitted[c]
       /\ wrote[c] => "store" \in emitted[c]

\* However a call ended, its events and what it did agree: a hit is reported
\* alone and of a call that did not run the function, a store of one that did,
\* and no write stays without the miss before it.  A call that returned has
\* reported all it did; one that raised, in a callback or elsewhere, may have
\* left out the end.
EventsMatch ==
  \A c \in Callers : At(c, "idle") /\ outcome[c] # "none" => EventsTell(c)

\* A store that was reported on a manager still open was made; on a closed one
\* on_store is called although set returned without a store.
OpenStoresAreReal ==
  \A c \in Callers : "store" \in emitted[c] /\ open => wrote[c]

\* The cache goes back to an older result only where a forced refresh is one
\* of two calls that race: a call stores what its function read before another
\* call stored, and the calls that take the lock never do this to each other.
OnlyRefreshesGoBack ==
  [][\A k \in Keys :
       cell[k] # None /\ cell'[k] # None /\ cell'[k] < cell[k]
         => \E c \in Callers : /\ key[c] = k /\ ~wrote[c] /\ wrote'[c]
                               /\ overtaken[c] # {}
                               /\ "refresh" \in overtaken[c] \cup {mode[c]}]_vars
=============================================================================
