---------------------------- MODULE NestedCalls ----------------------------
(***************************************************************************)
(* Factories that call get_or_set themselves (src/py_lib_runtime/          *)
(* _internal/cache/base.py), as cached functions that call each other do.  *)
(* A thread then holds the locks of all its calls under way while it waits *)
(* for the next, and a lock is not reentrant.  One call is kept to what    *)
(* the properties of CacheManager say of it: a lookup, the lock, a second  *)
(* lookup, the factory, the release on every path.  Managers stay open and *)
(* lock rows are lost to nobody; processes may die.                        *)
(***************************************************************************)
EXTENDS Naturals, Sequences

CONSTANTS
  Callers,      \* the threads of all processes
  Processes,    \* their partition into processes
  Keys,
  None,         \* no owner
  MayCrash,     \* processes may die
  MaxDepth,     \* bound: calls nested in one another
  MaxCalls      \* bound: calls by one thread, nested ones included

ASSUME NestedAssumption ==
  /\ None \notin Callers
  /\ \A p \in Processes : p \subseteq Callers
  /\ MayCrash \in BOOLEAN
  /\ MaxDepth \in Nat /\ MaxCalls \in Nat

VARIABLES
  asks,     \* <<k, j>>: the factory of k may call get_or_set for j
  cached,   \* the keys with an entry
  owner,    \* owner[k]: the thread that added the lock row of k
  frames,   \* frames[c]: the calls thread c is in, the innermost last
  dead,     \* the threads of processes that died
  calls

vars == <<asks, cached, owner, frames, dead, calls>>

\* A call waits for its lock, runs its factory, or is about to release.
Frame == [key : Keys, at : {"wait", "factory", "leave"}]

Init ==
  /\ asks \in SUBSET (Keys \X Keys)
  /\ cached = {}
  /\ owner = [k \in Keys |-> None]
  /\ frames = [c \in Callers |-> << >>]
  /\ dead = {}
  /\ calls = [c \in Callers |-> 0]

InCall(c) == frames[c] # << >>
Top(c) == frames[c][Len(frames[c])]
At(c, l) == c \notin dead /\ InCall(c) /\ Top(c).at = l

Push(c, f) == frames' = [frames EXCEPT ![c] = Append(@, f)]
Goto(c, l) == frames' = [frames EXCEPT ![c][Len(frames[c])].at = l]
Pop(c) == frames' = [frames EXCEPT ![c] = SubSeq(@, 1, Len(@) - 1)]
-----------------------------------------------------------------------------

\* get_or_set(k) by the thread or by the factory it runs; the first lookup,
\* which returns what it finds.
Call(c, k) ==
  /\ c \notin dead /\ calls[c] < MaxCalls
  /\ \/ ~InCall(c)
     \/ At(c, "factory") /\ <<Top(c).key, k>> \in asks /\ Len(frames[c]) < MaxDepth
  /\ calls' = [calls EXCEPT ![c] = @ + 1]
  /\ \/ k \in cached /\ UNCHANGED frames
     \/ k \notin cached /\ Push(c, [key |-> k, at |-> "wait"])
  /\ UNCHANGED <<asks, cached, owner, dead>>

\* Faulty variant: the wait for the lock ends without it.
AcquireImpatient(c) ==
  /\ At(c, "wait")
  /\ owner' = [owner EXCEPT ![Top(c).key] = c]
  /\ Goto(c, IF Top(c).key \in cached THEN "leave" ELSE "factory")
  /\ UNCHANGED <<asks, cached, dead, calls>>

\* Faulty variant: the thread that has the lock gets it again.
AcquireReentrant(c) ==
  /\ At(c, "wait") /\ owner[Top(c).key] \in {None, c}
  /\ owner' = [owner EXCEPT ![Top(c).key] = c]
  /\ Goto(c, IF Top(c).key \in cached THEN "leave" ELSE "factory")
  /\ UNCHANGED <<asks, cached, dead, calls>>

\* The lock is free; the second lookup.
Acquire(c) ==
  /\ At(c, "wait") /\ owner[Top(c).key] = None
  /\ owner' = [owner EXCEPT ![Top(c).key] = c]
  /\ Goto(c, IF Top(c).key \in cached THEN "leave" ELSE "factory")
  /\ UNCHANGED <<asks, cached, dead, calls>>

\* Faulty variant: the entry is stored under the whole call.
ReturnMisplaced(c) ==
  /\ At(c, "factory")
  /\ cached' = cached \cup {Top(c)}
  /\ Goto(c, "leave")
  /\ UNCHANGED <<asks, owner, dead, calls>>

\* The factory returns and its result is stored.
Return(c) ==
  /\ At(c, "factory")
  /\ cached' = cached \cup {Top(c).key}
  /\ Goto(c, "leave")
  /\ UNCHANGED <<asks, owner, dead, calls>>

\* Faulty variant: an exception passes the release by.
RaiseUnprotected(c) ==
  /\ At(c, "factory")
  /\ Pop(c)
  /\ UNCHANGED <<asks, cached, owner, dead, calls>>

\* The factory raises, by itself or because a call it made did.
Raise(c) ==
  /\ At(c, "factory")
  /\ Goto(c, "leave")
  /\ UNCHANGED <<asks, cached, owner, dead, calls>>

\* Faulty variant: the row of a call with an entry is left in place.
LeaveLocked(c) ==
  /\ At(c, "leave")
  /\ UNCHANGED owner
  /\ Pop(c)
  /\ UNCHANGED <<asks, cached, dead, calls>>

\* The lock is released and the call ends.
Leave(c) ==
  /\ At(c, "leave")
  /\ owner' = [owner EXCEPT ![Top(c).key] = None]
  /\ Pop(c)
  /\ UNCHANGED <<asks, cached, dead, calls>>

\* An entry expires, or is deleted.
Forget(k) ==
  /\ k \in cached
  /\ cached' = cached \ {k}
  /\ UNCHANGED <<asks, owner, frames, dead, calls>>

\* A process dies; the rows of its locks stay.
Die(p) ==
  /\ MayCrash /\ ~(p \subseteq dead)
  /\ dead' = dead \cup p
  /\ UNCHANGED <<asks, cached, owner, frames, calls>>

-----------------------------------------------------------------------------
(* Waiting.                                                                 *)

Waits(c) == At(c, "wait") /\ owner[Top(c).key] # None

\* Every thread of S waits for one of S, or for a lock of the dead.
Knot(S) == \A c \in S : Waits(c) /\ owner[Top(c).key] \in S \cup dead

Stuck(c) == \E S \in SUBSET Callers : c \in S /\ Knot(S)

\* No way of asking leads round: every set of keys has one whose factory asks
\* for none of the set.
Ordered ==
  \A T \in SUBSET Keys :
    T # {} => \E k \in T : \A j \in T : <<k, j>> \notin asks

\* The run is over: a deadlock of the model is one that this does not explain.
Finished ==
  /\ \A c \in Callers \ dead : (~InCall(c) /\ calls[c] = MaxCalls) \/ Stuck(c)
  /\ UNCHANGED vars

Step(c) == Acquire(c) \/ Return(c) \/ Raise(c) \/ Leave(c)

Next ==
  \/ \E c \in Callers : Step(c) \/ \E k \in Keys : Call(c, k)
  \/ \E k \in Keys : Forget(k)
  \/ \E p \in Processes : Die(p)
  \/ Finished

Spec == Init /\ [][Next]_vars

\* Threads run, factories end; nothing makes a thread call.
FairSpec == Spec /\ \A c \in Callers : WF_vars(Step(c))
-----------------------------------------------------------------------------
(* Properties.                                                              *)

\* Every variable holds a value of its type.
TypeOK ==
  /\ asks \in SUBSET (Keys \X Keys)
  /\ cached \in SUBSET Keys
  /\ owner \in [Keys -> Callers \cup {None}]
  /\ frames \in [Callers -> Seq(Frame)]
  /\ dead \in SUBSET Callers
  /\ calls \in [Callers -> 0..MaxCalls]

\* A key is computed in one call at a time, of all threads and of all the
\* calls nested in one thread: the lock row is that call's.
OneCallPerKey ==
  \A c, d \in Callers : \A i \in DOMAIN frames[c], j \in DOMAIN frames[d] :
    /\ frames[c][i].key = frames[d][j].key
    /\ frames[c][i].at # "wait" /\ frames[d][j].at # "wait"
    => c = d /\ i = j

\* If the ways factories ask for keys never lead round and no process has
\* died, no thread is stuck: the locks held in a row cannot lock each other.
OrderedNeverStuck == Ordered /\ dead = {} => \A c \in Callers : ~Stuck(c)

\* Nothing frees a stuck thread but its death: no timeout, no takeover of a
\* dead owner's lock, no entry that arrives.
StuckForever == [][\A c \in Callers : Stuck(c) => (Stuck(c) \/ c \in dead)']_vars

\* Every call ends, unless its thread dies or is stuck.
CallsEnd ==
  \A c \in Callers : InCall(c) ~> (~InCall(c) \/ c \in dead \/ Stuck(c))
=============================================================================
