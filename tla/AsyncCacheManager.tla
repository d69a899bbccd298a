-------------------------- MODULE AsyncCacheManager --------------------------
(***************************************************************************)
(* BaseCacheManager.get_or_set_async: the tasks of one event loop share a  *)
(* cache manager.  Between two awaits a task has the loop, and with it the *)
(* handle and the entries, to itself.  Only the lock rows change under it: *)
(* acquire and release run on the default executor (asyncio.to_thread), a  *)
(* pool of few threads fed by a FIFO queue.  An acquire that finds the row *)
(* taken polls on its worker thread and keeps it busy.                     *)
(*                                                                         *)
(* A task may be cancelled at any await.  A job that is still queued goes  *)
(* with it; a job already on a worker runs on for nobody.                  *)
(***************************************************************************)
EXTENDS Naturals, SequencesExt

CONSTANTS
  Tasks,        \* tasks of the loop
  Workers,      \* threads of the default executor
  Nobody,       \* whom a job serves once its task is cancelled
  Keys, Values, None, Predicates,   \* as in CacheManager
  Ops,          \* the operations the tasks call
  MaxCalls,     \* bound: calls of one task
  MayCancel     \* tasks may be cancelled

OpNames == {"get_or_set_async", "get_or_set", "set", "delete", "clear", "close"}

ASSUME TasksAssumption ==
  /\ Nobody \notin Tasks
  /\ Ops \subseteq OpNames
  /\ MaxCalls \in Nat
  /\ MayCancel \in BOOLEAN

ASSUME ValuesAssumption ==
  /\ None \notin Values
  /\ Predicates \subseteq SUBSET Values

VARIABLES
  entry,      \* entry[k]: the stored entry of k, or None
  lockRow,    \* the keys whose lock row is in the table
  open,       \* self._cache is not None
  hits, misses,
  pc,         \* the await, or the busy wait, each task is in
  key, accepts, val, outcome, calls,
  queue,      \* jobs submitted to the executor, oldest first
  worker,     \* worker[w]: the job on thread w, or Idle
  ready       \* the job of task t is done and the loop knows

table == <<entry, lockRow, open>>
stats == <<hits, misses>>
call == <<key, accepts, calls>>
result == <<val, outcome>>
pool == <<queue, worker, ready>>
vars == <<entry, lockRow, open, hits, misses, pc, key, accepts, val, outcome,
          calls, queue, worker, ready>>

Outcomes == {"none", "hit", "miss", "bypass", "closed", "done", "raised", "cancelled"}

\* A synchronous get_or_set keeps the loop while it polls for the lock
\* ("blocking") and while it computes ("inline").
Awaits == {"idle", "bypass", "acquiring", "computing", "releasing"}
Locations == Awaits \cup {"blocking", "inline"}

Job == [kind : {"acquire", "release"}, key : Keys, task : Tasks \cup {Nobody}]
Idle == [kind |-> "none", task |-> Nobody]

Init ==
  /\ entry = [k \in Keys |-> None]
  /\ lockRow = {}
  /\ open = TRUE
  /\ hits = 0 /\ misses = 0
  /\ pc = [t \in Tasks |-> "idle"]
  /\ key \in {[t \in Tasks |-> k] : k \in Keys}
  /\ accepts \in {[t \in Tasks |-> P] : P \in Predicates}
  /\ val = [t \in Tasks |-> None]
  /\ outcome = [t \in Tasks |-> "none"]
  /\ calls = [t \in Tasks |-> 0]
  /\ queue = << >>
  /\ worker = [w \in Workers |-> Idle]
  /\ ready = [t \in Tasks |-> FALSE]

-----------------------------------------------------------------------------
(* Moving a task.                                                           *)

\* The loop runs task t, which stands at l.
On(t, l) == pc[t] = l /\ (\A u \in Tasks \ {t} : pc[u] \in Awaits)
Goto(t, l) == pc' = [pc EXCEPT ![t] = l]
Result(t, o, v) ==
  /\ outcome' = [outcome EXCEPT ![t] = o]
  /\ val' = [val EXCEPT ![t] = v]
Hit == hits' = hits + 1 /\ UNCHANGED misses
Miss == misses' = misses + 1 /\ UNCHANGED hits

\* asyncio.to_thread: the job joins the queue and the task awaits it.
Submit(t, k, kind) ==
  /\ queue' = Append(queue, [kind |-> kind, key |-> k, task |-> t])
  /\ UNCHANGED <<worker, ready>>

\* Faulty variant: release is called only when nothing was raised.
LeaveUnprotected(t, o, v) ==
  /\ Result(t, o, v)
  /\ Goto(t, IF o = "raised" THEN "idle" ELSE "releasing")
  /\ queue' = IF o = "raised" THEN queue
              ELSE Append(queue, [kind |-> "release", key |-> key[t], task |-> t])
  /\ ready' = [ready EXCEPT ![t] = FALSE]
  /\ UNCHANGED worker

\* Leave the try block with a result: its finally awaits lock.release.
Leave(t, o, v) ==
  /\ Result(t, o, v)
  /\ Goto(t, "releasing")
  /\ queue' = Append(queue, [kind |-> "release", key |-> key[t], task |-> t])
  /\ ready' = [ready EXCEPT ![t] = FALSE]
  /\ UNCHANGED worker

-----------------------------------------------------------------------------
(* The first stretch of every call.                                         *)

Begin(t, o) ==
  /\ On(t, "idle")
  /\ o \in Ops
  /\ calls[t] < MaxCalls
  /\ calls' = [calls EXCEPT ![t] = @ + 1]

Ask(t, k, P) ==
  /\ key' = [key EXCEPT ![t] = k]
  /\ accepts' = [accepts EXCEPT ![t] = P]

\* Up to the first await: a refused key, params or entry raises, a usable
\* entry is a hit, and a miss asks for the lock.
GetOrSetAsync(t) ==
  /\ Begin(t, "get_or_set_async")
  /\ \E k \in Keys, P \in Predicates :
       /\ Ask(t, k, P)
       /\ \/ /\ ~open
             /\ Goto(t, "bypass") /\ Result(t, "none", None)
             /\ UNCHANGED <<stats, pool>>
          \/ /\ open
             /\ Result(t, "raised", None)
             /\ UNCHANGED <<pc, stats, pool>>
          \/ /\ open /\ entry[k] \in P
             /\ Result(t, "hit", entry[k]) /\ Hit
             /\ UNCHANGED <<pc, pool>>
          \/ /\ open /\ entry[k] \notin P
             /\ Submit(t, k, "acquire")
             /\ Goto(t, "acquiring") /\ Result(t, "none", None)
             /\ UNCHANGED stats
  /\ UNCHANGED table

\* The synchronous get_or_set called by a task: a miss blocks the loop.
GetOrSet(t) ==
  /\ Begin(t, "get_or_set")
  /\ \E k \in Keys, P \in Predicates :
       /\ Ask(t, k, P)
       /\ \/ /\ ~open
             /\ \E v \in Values \cup {None} : Result(t, "bypass", v)
             /\ UNCHANGED <<pc, stats>>
          \/ Result(t, "raised", None) /\ UNCHANGED <<pc, stats>>
          \/ open /\ entry[k] \in P /\ Result(t, "hit", entry[k]) /\ Hit /\ UNCHANGED pc
          \/ /\ open /\ entry[k] \notin P
             /\ Goto(t, "blocking") /\ Result(t, "none", None) /\ UNCHANGED stats
  /\ UNCHANGED <<table, pool>>

Block(t) ==
  /\ On(t, "blocking")
  /\ key[t] \notin lockRow
  /\ lockRow' = lockRow \cup {key[t]}
  /\ Goto(t, "inline")
  /\ UNCHANGED <<entry, open, stats, call, result, pool>>

\* The lock is held.  The second lookup finds what the first one found: only
\* the loop changes entries.
Inline(t) ==
  /\ On(t, "inline")
  /\ Goto(t, "idle")
  /\ lockRow' = lockRow \ {key[t]}
  /\ \/ \E v \in Values : /\ entry' = [entry EXCEPT ![key[t]] = v]
                          /\ Miss /\ Result(t, "miss", v)
     \/ Miss /\ Result(t, "miss", None) /\ UNCHANGED entry
     \/ Result(t, "raised", None) /\ UNCHANGED <<entry, stats>>
  /\ UNCHANGED <<open, call, pool>>

\* A whole call that awaits nothing.  One that raises changes nothing and is
\* left out.
Direct(t, o) ==
  /\ Begin(t, o)
  /\ Result(t, IF open THEN "done" ELSE "closed", None)
  /\ UNCHANGED <<pc, key, accepts, stats, pool>>

Set(t) ==
  /\ Direct(t, "set")
  /\ \E k \in Keys, v \in Values : entry' = IF open THEN [entry EXCEPT ![k] = v] ELSE entry
  /\ UNCHANGED <<lockRow, open>>

Delete(t) ==
  /\ Direct(t, "delete")
  /\ \E k \in Keys : entry' = IF open THEN [entry EXCEPT ![k] = None] ELSE entry
  /\ UNCHANGED <<lockRow, open>>

Clear(t) ==
  /\ Direct(t, "clear")
  /\ entry' = IF open THEN [k \in Keys |-> None] ELSE entry
  /\ lockRow' = IF open THEN {} ELSE lockRow
  /\ UNCHANGED open

Close(t) ==
  /\ Direct(t, "close")
  /\ open' = FALSE
  /\ UNCHANGED <<entry, lockRow>>

-----------------------------------------------------------------------------
(* The executor.                                                            *)

\* A free thread takes the oldest job.
Start(w) ==
  /\ worker[w] = Idle
  /\ queue # << >>
  /\ worker' = [worker EXCEPT ![w] = Head(queue)]
  /\ queue' = Tail(queue)
  /\ UNCHANGED <<table, stats, pc, call, result, ready>>

\* The job is done; its task, if there still is one, can go on.
Complete(w) ==
  /\ worker' = [worker EXCEPT ![w] = Idle]
  /\ ready' = [t \in Tasks |-> ready[t] \/ worker[w].task = t]
  /\ UNCHANGED <<entry, open, stats, pc, call, result, queue>>

\* Faulty variant: acquire gives up waiting and reports success.
AcquireImpatient(w) ==
  /\ worker[w].kind = "acquire"
  /\ lockRow' = lockRow \cup {worker[w].key}
  /\ Complete(w)

Acquire(w) ==
  /\ worker[w].kind = "acquire"
  /\ worker[w].key \notin lockRow
  /\ lockRow' = lockRow \cup {worker[w].key}
  /\ Complete(w)

Release(w) ==
  /\ worker[w].kind = "release"
  /\ lockRow' = lockRow \ {worker[w].key}
  /\ Complete(w)

\* A row is taken: whoever wants it sleeps a millisecond and looks again.
Poll ==
  /\ \/ \E w \in Workers : worker[w].kind = "acquire" /\ worker[w].key \in lockRow
     \/ \E t \in Tasks : pc[t] = "blocking" /\ key[t] \in lockRow
  /\ UNCHANGED vars

-----------------------------------------------------------------------------
(* The later stretches of get_or_set_async.                                 *)

\* Faulty variant: the second lookup is missing.
LockedBlindly(t) ==
  /\ On(t, "acquiring") /\ ready[t]
  /\ Goto(t, "computing")
  /\ ready' = [ready EXCEPT ![t] = FALSE]
  /\ UNCHANGED <<stats, result, queue, worker, table, call>>

\* The lock is held: look again, then start the factory.  A manager closed
\* meanwhile reads as a miss.
Locked(t) ==
  /\ On(t, "acquiring") /\ ready[t]
  /\ \/ open /\ entry[key[t]] \in accepts[t] /\ Leave(t, "hit", entry[key[t]]) /\ Hit
     \/ open /\ Leave(t, "raised", None) /\ UNCHANGED stats
     \/ /\ ~open \/ entry[key[t]] \notin accepts[t]
        /\ Goto(t, "computing")
        /\ ready' = [ready EXCEPT ![t] = FALSE]
        /\ UNCHANGED <<stats, result, queue, worker>>
  /\ UNCHANGED <<table, call>>

\* The factory is done: store its entry, if it has one and the manager is open.
Computed(t) ==
  /\ On(t, "computing")
  /\ \/ \E v \in Values :
          /\ Leave(t, IF open THEN "miss" ELSE "bypass", v) /\ Miss
          /\ entry' = IF open THEN [entry EXCEPT ![key[t]] = v] ELSE entry
     \/ Leave(t, "miss", None) /\ Miss /\ UNCHANGED entry
     \/ Leave(t, "raised", None) /\ UNCHANGED <<stats, entry>>
  /\ UNCHANGED <<lockRow, open, call>>

Released(t) ==
  /\ On(t, "releasing") /\ ready[t]
  /\ Goto(t, "idle")
  /\ ready' = [ready EXCEPT ![t] = FALSE]
  /\ UNCHANGED <<table, stats, call, result, queue, worker>>

\* On a manager closed before the call only the factory runs.
Bypassed(t) ==
  /\ On(t, "bypass")
  /\ Goto(t, "idle")
  /\ \/ \E v \in Values \cup {None} : Result(t, "bypass", v)
     \/ Result(t, "raised", None)
  /\ UNCHANGED <<table, stats, call, pool>>

-----------------------------------------------------------------------------
(* Cancellation.                                                            *)

\* CancelledError in the factory: the finally clause still releases.
CancelFactory(t) ==
  /\ MayCancel
  /\ On(t, "computing")
  /\ Leave(t, "cancelled", None)
  /\ UNCHANGED <<table, stats, call>>

\* Faulty variant: the job is shielded from the cancellation of its task.
WithdrawNothing(t) == UNCHANGED queue

\* A job that no thread has taken yet is cancelled with its task's future.
Withdraw(t) ==
  \/ \E i \in DOMAIN queue : queue[i].task = t /\ queue' = RemoveAt(queue, i)
  \/ (\A i \in DOMAIN queue : queue[i].task # t) /\ UNCHANGED queue

\* CancelledError at an await of to_thread, or outside the try block: the task
\* is over.  Nothing releases a lock its acquire took, or goes on to take.
CancelAwait(t) ==
  /\ MayCancel
  /\ On(t, "acquiring") \/ On(t, "releasing") \/ On(t, "bypass")
  /\ Goto(t, "idle") /\ Result(t, "cancelled", None)
  /\ Withdraw(t)
  /\ worker' = [w \in Workers |->
                  IF worker[w].task = t THEN [worker[w] EXCEPT !.task = Nobody]
                  ELSE worker[w]]
  /\ ready' = [ready EXCEPT ![t] = FALSE]
  /\ UNCHANGED <<table, stats, call>>

Finished ==
  /\ \A t \in Tasks : pc[t] = "idle" /\ calls[t] = MaxCalls
  /\ queue = << >>
  /\ \A w \in Workers : worker[w] = Idle
  /\ UNCHANGED vars

-----------------------------------------------------------------------------

\* What the loop runs on behalf of a call that has begun.
Resume(t) ==
  \/ Block(t) \/ Inline(t)
  \/ Locked(t) \/ Computed(t) \/ Released(t) \/ Bypassed(t)

Work(w) == Start(w) \/ Acquire(w) \/ Release(w)

Next ==
  \/ \E t \in Tasks :
       \/ GetOrSetAsync(t) \/ GetOrSet(t)
       \/ Set(t) \/ Delete(t) \/ Clear(t) \/ Close(t)
       \/ Resume(t) \/ CancelFactory(t) \/ CancelAwait(t)
  \/ \E w \in Workers : Work(w)
  \/ Poll
  \/ Finished

Spec == Init /\ [][Next]_vars

\* The loop runs tasks that are ready, factories return, and the threads of
\* the pool run.  Nothing makes a task call or be cancelled.
FairSpec ==
  /\ Spec
  /\ \A t \in Tasks : WF_vars(Resume(t))
  /\ \A w \in Workers : WF_vars(Work(w))
-----------------------------------------------------------------------------
(* Properties.                                                              *)

VariablesTyped ==
  /\ entry \in [Keys -> Values \cup {None}]
  /\ lockRow \subseteq Keys
  /\ open \in BOOLEAN
  /\ hits \in Nat /\ misses \in Nat
  /\ pc \in [Tasks -> Locations]
  /\ key \in [Tasks -> Keys]
  /\ accepts \in [Tasks -> Predicates]
  /\ val \in [Tasks -> Values \cup {None}]
  /\ outcome \in [Tasks -> Outcomes]
  /\ calls \in [Tasks -> 0..MaxCalls]
  /\ queue \in Seq(Job)
  /\ worker \in [Workers -> Job \cup {Idle}]
  /\ ready \in [Tasks -> BOOLEAN]

\* The job of a task that was cancelled while it ran is nobody's.
OneJobEach ==
  /\ \A i, j \in DOMAIN queue : queue[i].task = queue[j].task => i = j
  /\ \A w \in Workers, i \in DOMAIN queue : worker[w].task # queue[i].task
  /\ \A w, x \in Workers :
       worker[w].task = worker[x].task /\ worker[w].task \in Tasks => w = x

\* Every variable holds a value of its type, and no task has more than one
\* job, in the queue and on the workers together.
TypeOK == VariablesTyped /\ OneJobEach

\* A task holds the lock of its key from the moment its acquire succeeds on
\* the executor to the moment its release does.
Holds(t) ==
  \/ pc[t] \in {"computing", "inline"}
  \/ pc[t] = "acquiring" /\ ready[t]
  \/ pc[t] = "releasing" /\ ~ready[t]

\* No two tasks hold the lock of one key, and whoever holds it has its row:
\* no late acquire or release of a cancelled call takes it away.
Exclusive ==
  \A t \in Tasks : Holds(t) =>
    /\ key[t] \in lockRow
    /\ \A u \in Tasks \ {t} : Holds(u) => key[u] # key[t]

Owned(k) == \E t \in Tasks : Holds(t) /\ key[t] = k

\* A lock row belongs to a task that is in its call, which releases "finally"
\* (base.py:231).  A row loses its owner, or appears without one, in two ways
\* only: its task is cancelled while to_thread takes or gives back
\* the lock, or the acquire of a task cancelled before that succeeds for
\* nobody.  A factory may be cancelled, raise or return nothing at any time.
LeaksOnlyAroundLock ==
  [][\A k \in lockRow' : ~Owned(k)' /\ (k \notin lockRow \/ Owned(k)) =>
       \/ \E t \in Tasks : /\ key[t] = k /\ pc[t] \in {"acquiring", "releasing"}
                           /\ pc'[t] = "idle" /\ outcome'[t] = "cancelled"
       \/ \E w \in Workers : worker[w] = [kind |-> "acquire", key |-> k, task |-> Nobody]]_vars

\* Every call ends, however many ask for the same key at once.
TasksReturn == \A t \in Tasks : (pc[t] # "idle") ~> (pc[t] = "idle")

-----------------------------------------------------------------------------
(* The refinement of ComputeOnce: a flight is a call that holds the lock    *)
(* and has not stored or given up yet.                                      *)

Flying(t) == Holds(t) /\ pc[t] # "releasing"

flights ==
  [k \in Keys |-> {[who |-> t, accepts |-> accepts[t]] :
                     t \in {u \in Tasks : Flying(u) /\ key[u] = k}}]

CO == INSTANCE ComputeOnce WITH Callers <- Tasks, cell <- entry, flight <- flights

\* get_or_set_async keeps the promise of get_or_set, tasks being cancelled at
\* any await and their jobs running on without them.
ComputesOnce == CO!Spec
=============================================================================
