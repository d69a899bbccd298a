----------------------- MODULE AsyncCacheManagerProofs -----------------------
(***************************************************************************)
(* Theorems about AsyncCacheManager, for every number of tasks, threads of *)
(* the pool, keys, entries and calls, tasks being cancelled at any await.  *)
(***************************************************************************)
EXTENDS AsyncCacheManager, SequenceTheorems, TLAPS

USE DEF table, stats, call, result, pool, OpNames, Outcomes, Awaits, Locations, Goto

-----------------------------------------------------------------------------
(* The queue.                                                               *)

LEMMA Appended ==
  ASSUME NEW S, NEW s \in Seq(S), NEW e \in S
  PROVE  /\ Append(s, e) \in Seq(S)
         /\ DOMAIN Append(s, e) = 1..(Len(s) + 1)
         /\ \A i \in DOMAIN s : Append(s, e)[i] = s[i]
         /\ Append(s, e)[Len(s) + 1] = e
BY AppendProperties, LenProperties

LEMMA Dequeued ==
  ASSUME NEW S, NEW s \in Seq(S), s # << >>
  PROVE  /\ Head(s) = s[1] /\ 1 \in DOMAIN s /\ Head(s) \in S
         /\ Tail(s) \in Seq(S)
         /\ \A i \in DOMAIN Tail(s) : i + 1 \in DOMAIN s /\ Tail(s)[i] = s[i + 1] /\ i \in Nat /\ i > 0
BY HeadTailProperties, LenProperties, ElementOfSeq

LEMMA Removed ==
  ASSUME NEW S, NEW s \in Seq(S), NEW i \in DOMAIN s
  PROVE  /\ RemoveAt(s, i) \in Seq(S)
         /\ \A j \in DOMAIN RemoveAt(s, i) :
              /\ j \in Nat
              /\ (IF j < i THEN j ELSE j + 1) \in DOMAIN s
              /\ RemoveAt(s, i)[j] = s[IF j < i THEN j ELSE j + 1]
<1> DEFINE a == SubSeq(s, 1, i - 1)
           b == SubSeq(s, i + 1, Len(s))
<1>1. i \in 1..Len(s) /\ Len(s) \in Nat /\ DOMAIN s = 1..Len(s)
  BY LenProperties
<1>2. /\ a \in Seq(S) /\ Len(a) = i - 1
      /\ \A j \in 1..(i - 1) : a[j] = s[j]
  <2>1. \A j \in 1..(i - 1) : s[j] \in S
    BY <1>1, ElementOfSeq
  <2> QED
    BY <1>1, <2>1, SubSeqProperties
<1>3. /\ b \in Seq(S) /\ Len(b) = Len(s) - i
      /\ \A j \in 1..(Len(s) - i) : b[j] = s[j + i]
  <2>1. \A j \in (i + 1)..Len(s) : s[j] \in S
    BY <1>1, ElementOfSeq
  <2> QED
    BY <1>1, <2>1, SubSeqProperties
<1> HIDE DEF a, b
<1>4. /\ a \o b \in Seq(S) /\ Len(a \o b) = Len(s) - 1
      /\ \A j \in 1..(Len(s) - 1) : (a \o b)[j] = IF j <= i - 1 THEN a[j] ELSE b[j - (i - 1)]
  <2>1. /\ a \o b \in Seq(S) /\ Len(a \o b) = Len(a) + Len(b)
        /\ \A j \in 1..(Len(a) + Len(b)) :
             (a \o b)[j] = IF j <= Len(a) THEN a[j] ELSE b[j - Len(a)]
    BY <1>2, <1>3, ConcatProperties
  <2>2. Len(a) + Len(b) = Len(s) - 1
    BY <1>1, <1>2, <1>3
  <2> QED
    BY <1>2, <2>1, <2>2
<1>5. DOMAIN (a \o b) = 1..(Len(s) - 1)
  BY <1>4, LenProperties
<1>6. RemoveAt(s, i) = a \o b
  BY DEF RemoveAt, a, b
<1>7. ASSUME NEW j \in 1..(Len(s) - 1)
      PROVE  /\ j \in Nat
             /\ (IF j < i THEN j ELSE j + 1) \in DOMAIN s
             /\ (a \o b)[j] = s[IF j < i THEN j ELSE j + 1]
  <2>1. CASE j < i
    BY <1>1, <1>2, <1>4, <2>1
  <2>2. CASE ~(j < i)
    <3>1. j - (i - 1) \in 1..(Len(s) - i)
      BY <1>1, <2>2
    <3>2. b[j - (i - 1)] = s[j + 1]
      BY <1>1, <1>3, <3>1
    <3> QED
      BY <1>1, <1>4, <2>2, <3>2
  <2> QED
    BY <2>1, <2>2
<1> QED
  BY <1>4, <1>5, <1>6, <1>7

-----------------------------------------------------------------------------
(* Types.                                                                   *)

\* What is submitted is a job.
LEMMA JobType ==
  ASSUME VariablesTyped, NEW t \in Tasks, NEW k \in Keys, NEW kind \in {"acquire", "release"}
  PROVE  [kind |-> kind, key |-> k, task |-> t] \in Job
BY DEF Job

\* A thread that works has a job.
LEMMA WorkersJob ==
  ASSUME VariablesTyped, NEW w \in Workers,
         worker[w].kind \in {"acquire", "release"} \/ worker[w].task # Nobody
  PROVE  /\ worker[w] \in Job
         /\ worker[w].key \in Keys /\ worker[w].kind \in {"acquire", "release"}
         /\ worker[w].task \in Tasks \cup {Nobody}
<1>1. worker[w] \in Job \cup {Idle}
  BY DEF VariablesTyped
<1>2. worker[w] # Idle
  BY DEF Idle
<1> QED
  BY <1>1, <1>2 DEF Job

\* A result, and the arguments of a call, are of their types.
LEMMA ResultType ==
  ASSUME VariablesTyped, NEW t \in Tasks, NEW o \in Outcomes, NEW v \in Values \cup {None}, Result(t, o, v)
  PROVE  outcome' \in [Tasks -> Outcomes] /\ val' \in [Tasks -> Values \cup {None}]
BY DEF VariablesTyped, Result

LEMMA AskType ==
  ASSUME VariablesTyped, NEW t \in Tasks, NEW k \in Keys, NEW P \in Predicates, Ask(t, k, P)
  PROVE  key' \in [Tasks -> Keys] /\ accepts' \in [Tasks -> Predicates]
BY DEF VariablesTyped, Ask

LEMMA BeginType ==
  ASSUME VariablesTyped, NEW t \in Tasks, NEW o, Begin(t, o)
  PROVE  calls' \in [Tasks -> 0..MaxCalls]
BY TasksAssumption DEF VariablesTyped, Begin

LEMMA InitType == Init => VariablesTyped
<1>1. << >> \in Seq(Job)
  BY EmptySeq
<1> QED
  BY <1>1, TasksAssumption, ValuesAssumption DEF Init, VariablesTyped

\* Leaving the try block, and asking for the lock, keep the types.
LEMMA LeaveType ==
  ASSUME VariablesTyped, NEW t \in Tasks, NEW o \in Outcomes, NEW v \in Values \cup {None}, Leave(t, o, v)
  PROVE  /\ queue' \in Seq(Job) /\ worker' = worker /\ ready' \in [Tasks -> BOOLEAN]
         /\ pc' \in [Tasks -> Locations]
         /\ val' \in [Tasks -> Values \cup {None}] /\ outcome' \in [Tasks -> Outcomes]
<1>1. key[t] \in Keys
  BY DEF VariablesTyped
<1>2. queue' \in Seq(Job)
  BY <1>1, JobType, Appended DEF VariablesTyped, Leave
<1> QED
  BY <1>2 DEF VariablesTyped, Leave, Result

LEMMA SubmitType ==
  ASSUME VariablesTyped, NEW t \in Tasks, NEW k \in Keys, Submit(t, k, "acquire")
  PROVE  queue' \in Seq(Job)
BY JobType, Appended DEF VariablesTyped, Submit

LEMMA CompleteType ==
  ASSUME VariablesTyped, NEW w \in Workers, Complete(w), lockRow' \subseteq Keys
  PROVE  VariablesTyped'
BY DEF VariablesTyped, Complete

LEMMA WithdrawType ==
  ASSUME VariablesTyped, NEW t \in Tasks, Withdraw(t)
  PROVE  queue' \in Seq(Job)
BY Removed DEF VariablesTyped, Withdraw

\* Every step keeps every variable in its type.
LEMMA NextType == VariablesTyped /\ [Next]_vars => VariablesTyped'
<1> SUFFICES ASSUME VariablesTyped, [Next]_vars PROVE VariablesTyped'
  OBVIOUS
<1> USE DEF VariablesTyped
<1>1. ASSUME NEW t \in Tasks, GetOrSetAsync(t) PROVE VariablesTyped'
  <2>1. PICK k \in Keys, P \in Predicates :
          /\ Ask(t, k, P)
          /\ \/ /\ Goto(t, "bypass") /\ Result(t, "none", None)
                /\ UNCHANGED <<stats, pool>>
             \/ Result(t, "raised", None) /\ UNCHANGED <<pc, stats, pool>>
             \/ Result(t, "hit", entry[k]) /\ Hit /\ UNCHANGED <<pc, pool>>
             \/ /\ Submit(t, k, "acquire") /\ Goto(t, "acquiring")
                /\ Result(t, "none", None) /\ UNCHANGED stats
    BY <1>1 DEF GetOrSetAsync
  <2>2. UNCHANGED table /\ calls' \in [Tasks -> 0..MaxCalls]
    BY <1>1, BeginType DEF GetOrSetAsync
  <2>3. key' \in [Tasks -> Keys] /\ accepts' \in [Tasks -> Predicates]
    BY <2>1, AskType
  <2>4. outcome' \in [Tasks -> Outcomes] /\ val' \in [Tasks -> Values \cup {None}]
    BY <2>1, ResultType
  <2>5. pc' \in [Tasks -> Locations]
    BY <2>1
  <2>7. hits' \in Nat /\ misses' \in Nat
    BY <2>1 DEF Hit
  <2>6. queue' \in Seq(Job) /\ UNCHANGED <<worker, ready>>
    BY <2>1, SubmitType DEF Submit
  <2> QED
    BY <2>2, <2>3, <2>4, <2>5, <2>6, <2>7
<1>2. ASSUME NEW t \in Tasks, GetOrSet(t) PROVE VariablesTyped'
  <2>1. PICK k \in Keys, P \in Predicates :
          /\ Ask(t, k, P)
          /\ \/ /\ \E v \in Values \cup {None} : Result(t, "bypass", v)
                /\ UNCHANGED <<pc, stats>>
             \/ Result(t, "raised", None) /\ UNCHANGED <<pc, stats>>
             \/ Result(t, "hit", entry[k]) /\ Hit /\ UNCHANGED pc
             \/ Goto(t, "blocking") /\ Result(t, "none", None) /\ UNCHANGED stats
    BY <1>2 DEF GetOrSet
  <2>2. UNCHANGED <<table, pool>> /\ calls' \in [Tasks -> 0..MaxCalls]
    BY <1>2, BeginType DEF GetOrSet
  <2>3. key' \in [Tasks -> Keys] /\ accepts' \in [Tasks -> Predicates]
    BY <2>1, AskType
  <2>4. outcome' \in [Tasks -> Outcomes] /\ val' \in [Tasks -> Values \cup {None}]
    BY <2>1, ResultType
  <2>5. pc' \in [Tasks -> Locations]
    BY <2>1
  <2>7. hits' \in Nat /\ misses' \in Nat
    BY <2>1 DEF Hit
  <2> QED
    BY <2>2, <2>3, <2>4, <2>5, <2>7
<1>3. ASSUME NEW t \in Tasks, Set(t) \/ Delete(t) \/ Clear(t) \/ Close(t) PROVE VariablesTyped'
  <2>1. Direct(t, "set") \/ Direct(t, "delete") \/ Direct(t, "clear") \/ Direct(t, "close")
    BY <1>3 DEF Set, Delete, Clear, Close
  <2>2. UNCHANGED <<pc, key, accepts, stats, pool>> /\ calls' \in [Tasks -> 0..MaxCalls]
    BY <2>1, BeginType DEF Direct
  <2>3. Result(t, "done", None) \/ Result(t, "closed", None)
    BY <2>1 DEF Direct
  <2>4. outcome' \in [Tasks -> Outcomes] /\ val' \in [Tasks -> Values \cup {None}]
    BY <2>3, ResultType
  <2>5. lockRow' \subseteq Keys /\ open' \in BOOLEAN
    BY <1>3 DEF Set, Delete, Clear, Close
  <2>6. entry' \in [Keys -> Values \cup {None}]
    <3>1. ASSUME Set(t) PROVE entry' \in [Keys -> Values \cup {None}]
      BY <3>1 DEF Set
    <3>2. ASSUME Delete(t) PROVE entry' \in [Keys -> Values \cup {None}]
      BY <3>2 DEF Delete
    <3> QED
      BY <1>3, <3>1, <3>2 DEF Clear, Close
  <2> QED
    BY <2>2, <2>4, <2>5, <2>6
<1>4. ASSUME NEW t \in Tasks, Block(t) PROVE VariablesTyped'
  BY <1>4 DEF Block
<1>5. ASSUME NEW t \in Tasks, Inline(t) PROVE VariablesTyped'
  <2>1. /\ UNCHANGED <<open, call, pool>>
        /\ pc' \in [Tasks -> Locations] /\ lockRow' \subseteq Keys
        /\ hits' \in Nat /\ misses' \in Nat
    BY <1>5 DEF Inline, Miss
  <2>2. entry' \in [Keys -> Values \cup {None}]
    BY <1>5 DEF Inline
  <2>3. outcome' \in [Tasks -> Outcomes] /\ val' \in [Tasks -> Values \cup {None}]
    BY <1>5, ResultType DEF Inline
  <2> QED
    BY <2>1, <2>2, <2>3
<1>6. ASSUME NEW t \in Tasks, Locked(t) PROVE VariablesTyped'
  <2>1. CASE pc' = [pc EXCEPT ![t] = "computing"] /\ ready' = [ready EXCEPT ![t] = FALSE]
             /\ UNCHANGED <<stats, result, queue, worker>>
    BY <1>6, <2>1 DEF Locked
  <2>2. CASE open /\ Leave(t, "raised", None) /\ UNCHANGED stats
    BY <1>6, <2>2, LeaveType DEF Locked
  <2>3. CASE open /\ entry[key[t]] \in accepts[t] /\ Leave(t, "hit", entry[key[t]]) /\ Hit
    BY <1>6, <2>3, LeaveType DEF Locked, Hit
  <2> QED
    BY <1>6, <2>1, <2>2, <2>3 DEF Locked
<1>7. ASSUME NEW t \in Tasks, Computed(t) PROVE VariablesTyped'
  <2>1. ASSUME NEW v \in Values, Leave(t, IF open THEN "miss" ELSE "bypass", v), Miss,
               entry' = IF open THEN [entry EXCEPT ![key[t]] = v] ELSE entry
        PROVE  VariablesTyped'
    BY <1>7, <2>1, LeaveType DEF Computed, Miss
  <2>2. CASE Leave(t, "miss", None) /\ Miss /\ UNCHANGED entry
    BY <1>7, <2>2, LeaveType DEF Computed, Miss
  <2>3. CASE Leave(t, "raised", None) /\ UNCHANGED <<stats, entry>>
    BY <1>7, <2>3, LeaveType DEF Computed
  <2> QED
    BY <1>7, <2>1, <2>2, <2>3 DEF Computed
<1>8. ASSUME NEW t \in Tasks, Released(t) PROVE VariablesTyped'
  BY <1>8 DEF Released
<1>9. ASSUME NEW t \in Tasks, Bypassed(t) PROVE VariablesTyped'
  <2>1. outcome' \in [Tasks -> Outcomes] /\ val' \in [Tasks -> Values \cup {None}]
    BY <1>9, ResultType DEF Bypassed
  <2> QED
    BY <1>9, <2>1 DEF Bypassed
<1>10. ASSUME NEW t \in Tasks, CancelFactory(t) PROVE VariablesTyped'
  BY <1>10, LeaveType DEF CancelFactory
<1>11. ASSUME NEW t \in Tasks, CancelAwait(t) PROVE VariablesTyped'
  <2>1. queue' \in Seq(Job)
    BY <1>11, WithdrawType DEF CancelAwait
  <2>2. worker' \in [Workers -> Job \cup {Idle}]
    <3>1. ASSUME NEW w \in Workers, worker[w].task = t
          PROVE  [worker[w] EXCEPT !.task = Nobody] \in Job
      <4>1. worker[w] \in Job
        BY <3>1, WorkersJob, TasksAssumption
      <4> QED
        BY <4>1 DEF Job
    <3> QED
      BY <1>11, <3>1 DEF CancelAwait
  <2> QED
    BY <1>11, <2>1, <2>2 DEF CancelAwait, Result
<1>12. ASSUME NEW w \in Workers, Start(w) PROVE VariablesTyped'
  <2>1. Head(queue) \in Job /\ Tail(queue) \in Seq(Job)
    BY <1>12, Dequeued DEF Start
  <2> QED
    BY <1>12, <2>1 DEF Start
<1>13. ASSUME NEW w \in Workers, Acquire(w) PROVE VariablesTyped'
  BY <1>13, CompleteType, WorkersJob DEF Acquire
<1>14. ASSUME NEW w \in Workers, Release(w) PROVE VariablesTyped'
  BY <1>14, CompleteType DEF Release
<1>15. CASE Poll \/ Finished \/ UNCHANGED vars
  BY <1>15 DEF Poll, Finished, vars
<1> QED
  BY <1>1, <1>2, <1>3, <1>4, <1>5, <1>6, <1>7, <1>8, <1>9, <1>10, <1>11, <1>12,
     <1>13, <1>14, <1>15 DEF Next, Resume, Work

-----------------------------------------------------------------------------
(* Jobs.                                                                    *)

\* The task of job j awaits it: it is about the key of its call, and takes or
\* gives back the lock as the task expects.
Awaited(j) ==
  /\ pc[j.task] \in {"acquiring", "releasing"} /\ ~ready[j.task]
  /\ j.key = key[j.task]
  /\ j.kind = IF pc[j.task] = "acquiring" THEN "acquire" ELSE "release"

\* The inductive invariant of the pool: a task has at most one job, in the
\* queue or on a thread, and awaits it; nothing is queued for nobody.
JobsInv ==
  /\ VariablesTyped
  /\ \A t \in Tasks : ready[t] => pc[t] \in {"acquiring", "releasing"}
  /\ \A i \in DOMAIN queue : queue[i].task \in Tasks /\ Awaited(queue[i])
  /\ \A w \in Workers : worker[w].task \in Tasks => Awaited(worker[w])
  /\ OneJobEach

\* Task t has no job.
Jobless(t) ==
  /\ \A i \in DOMAIN queue : queue[i].task # t
  /\ \A w \in Workers : worker[w].task # t

\* The other tasks stay where they are.
Elsewhere(t) ==
  \A u \in Tasks \ {t} : pc'[u] = pc[u] /\ key'[u] = key[u] /\ ready'[u] = ready[u]

LEMMA OnlyAwaitsHaveJobs ==
  ASSUME JobsInv, NEW t \in Tasks,
         pc[t] \notin {"acquiring", "releasing"} \/ ready[t]
  PROVE  Jobless(t)
BY DEF JobsInv, OneJobEach, Jobless, Awaited

\* A task without a job moves, and submits none.
LEMMA JobsMove ==
  ASSUME JobsInv, VariablesTyped', NEW t \in Tasks, Jobless(t), Elsewhere(t),
         UNCHANGED <<queue, worker>>, ready'[t] => pc'[t] \in {"acquiring", "releasing"}
  PROVE  JobsInv'
BY DEF JobsInv, OneJobEach, Jobless, Elsewhere, Awaited

\* A task without a job submits one.
LEMMA JobsSubmit ==
  ASSUME JobsInv, VariablesTyped', NEW t \in Tasks, Jobless(t), Elsewhere(t),
         NEW j \in Job, j.task = t, Awaited(j)',
         queue' = Append(queue, j), UNCHANGED worker
  PROVE  JobsInv'
<1> USE DEF JobsInv, OneJobEach, Jobless, Elsewhere
<1>1. /\ DOMAIN queue' = 1..(Len(queue) + 1) /\ DOMAIN queue = 1..Len(queue) /\ Len(queue) \in Nat
      /\ \A i \in DOMAIN queue : queue'[i] = queue[i]
      /\ queue'[Len(queue) + 1] = j
  BY Appended, LenProperties DEF VariablesTyped
<1>2. ASSUME NEW i \in DOMAIN queue'
      PROVE  \/ i \in DOMAIN queue /\ queue'[i] = queue[i]
             \/ i = Len(queue) + 1 /\ queue'[i] = j
  BY <1>1
<1>3. \A i \in DOMAIN queue' : queue'[i].task \in Tasks /\ Awaited(queue[i])'
  BY <1>2 DEF Awaited
<1>4. \A i, k \in DOMAIN queue' : queue'[i].task = queue'[k].task => i = k
  BY <1>2
<1>5. \A w \in Workers, i \in DOMAIN queue' : worker'[w].task # queue'[i].task
  BY <1>2
<1>6. \A w \in Workers : worker'[w].task \in Tasks => Awaited(worker[w])'
  BY DEF Awaited
<1>7. \A u \in Tasks : ready'[u] => pc'[u] \in {"acquiring", "releasing"}
  BY DEF Awaited
<1> QED
  BY <1>3, <1>4, <1>5, <1>6, <1>7

\* A task leaves the try block: its release is queued.
LEMMA JobsLeave ==
  ASSUME JobsInv, VariablesTyped', NEW t \in Tasks, Jobless(t), UNCHANGED key,
         NEW o, NEW v, Leave(t, o, v)
  PROVE  JobsInv'
<1> DEFINE j == [kind |-> "release", key |-> key[t], task |-> t]
<1>1. j \in Job
  BY JobType DEF JobsInv, OneJobEach, VariablesTyped
<1>2. Elsewhere(t) /\ Awaited(j)'
  BY DEF Leave, Elsewhere, Awaited, JobsInv, VariablesTyped
<1> QED
  BY <1>1, <1>2, JobsSubmit DEF Leave

\* A task is cancelled: its job goes with it, or loses it.
LEMMA JobsCancel ==
  ASSUME JobsInv, VariablesTyped', NEW t \in Tasks, CancelAwait(t)
  PROVE  JobsInv' /\ Jobless(t)'
<1> USE TasksAssumption DEF JobsInv, OneJobEach, CancelAwait
<1>1. ASSUME NEW w \in Workers
      PROVE  \/ worker[w].task = t /\ worker'[w].task = Nobody
             \/ worker[w].task # t /\ worker'[w] = worker[w]
  <2>1. CASE worker[w].task = t
    <3>1. worker[w] \in Job
      BY <2>1, WorkersJob
    <3> QED
      BY <2>1, <3>1 DEF Job
  <2>2. CASE worker[w].task # t
    BY <2>2
  <2> QED
    BY <2>1, <2>2
<1>2. Elsewhere(t) /\ ~ready'[t]
  BY DEF Elsewhere, VariablesTyped
<1>3. ASSUME NEW i \in DOMAIN queue'
      PROVE  queue'[i].task # t
  <2>1. CASE \E k \in DOMAIN queue : queue[k].task = t
    <3>1. PICK k \in DOMAIN queue : queue[k].task = t /\ queue' = RemoveAt(queue, k)
      BY <2>1 DEF Withdraw
    <3>2. /\ i \in Nat /\ k \in Nat
          /\ (IF i < k THEN i ELSE i + 1) \in DOMAIN queue
          /\ queue'[i] = queue[IF i < k THEN i ELSE i + 1]
      BY <3>1, Removed, LenProperties DEF VariablesTyped
    <3>3. (IF i < k THEN i ELSE i + 1) # k
      BY <3>2
    <3> QED
      BY <3>1, <3>2, <3>3
  <2>2. CASE \A k \in DOMAIN queue : queue[k].task # t
    BY <2>2 DEF Withdraw
  <2> QED
    BY <2>1, <2>2
<1>4. PICK f \in [DOMAIN queue' -> DOMAIN queue] :
        /\ \A i \in DOMAIN queue' : queue'[i] = queue[f[i]]
        /\ \A i, k \in DOMAIN queue' : f[i] = f[k] => i = k
  <2>1. CASE \E k \in DOMAIN queue : queue[k].task = t
    <3>1. PICK k \in DOMAIN queue : queue' = RemoveAt(queue, k)
      BY <2>1 DEF Withdraw
    <3>2. /\ k \in Nat
          /\ \A i \in DOMAIN queue' :
               /\ i \in Nat /\ (IF i < k THEN i ELSE i + 1) \in DOMAIN queue
               /\ queue'[i] = queue[IF i < k THEN i ELSE i + 1]
      BY <3>1, Removed, LenProperties DEF VariablesTyped
    <3> DEFINE f == [i \in DOMAIN queue' |-> IF i < k THEN i ELSE i + 1]
    <3>3. f \in [DOMAIN queue' -> DOMAIN queue]
      BY <3>2
    <3>4. \A i \in DOMAIN queue' : queue'[i] = queue[f[i]]
      BY <3>2
    <3>5. \A i, j \in DOMAIN queue' : f[i] = f[j] => i = j
      BY <3>2
    <3> QED
      BY <3>3, <3>4, <3>5
  <2>2. CASE queue' = queue
    <3> DEFINE f == [i \in DOMAIN queue |-> i]
    <3>1. f \in [DOMAIN queue' -> DOMAIN queue] /\ \A i \in DOMAIN queue' : f[i] = i
      BY <2>2
    <3> QED
      BY <2>2, <3>1
  <2> QED
    BY <2>1, <2>2 DEF Withdraw
<1>5. \A i \in DOMAIN queue' : queue'[i].task \in Tasks /\ Awaited(queue[i])'
  BY <1>2, <1>3, <1>4 DEF Awaited, Elsewhere
<1>6. \A i, k \in DOMAIN queue' : queue'[i].task = queue'[k].task => i = k
  BY <1>4
<1>7. \A w \in Workers, i \in DOMAIN queue' : worker'[w].task # queue'[i].task
  BY <1>1, <1>4, <1>5
<1>8. \A w \in Workers : worker'[w].task \in Tasks => Awaited(worker[w])'
  BY <1>1, <1>2 DEF Awaited, Elsewhere
<1>9. \A w, x \in Workers :
        worker'[w].task = worker'[x].task /\ worker'[w].task \in Tasks => w = x
  BY <1>1
<1>10. \A u \in Tasks : ready'[u] => pc'[u] \in {"acquiring", "releasing"}
  BY <1>2 DEF Elsewhere
<1>11. \A w \in Workers : worker'[w].task # t
  BY <1>1
<1> QED
  BY <1>3, <1>5, <1>6, <1>7, <1>8, <1>9, <1>10, <1>11 DEF Jobless

\* A thread takes the oldest job.
LEMMA JobsStart ==
  ASSUME JobsInv, VariablesTyped', NEW w \in Workers, Start(w)
  PROVE  JobsInv'
<1> USE DEF JobsInv, OneJobEach, Start
<1>1. /\ worker'[w] = queue[1] /\ 1 \in DOMAIN queue
      /\ \A x \in Workers \ {w} : worker'[x] = worker[x]
      /\ \A i \in DOMAIN queue' :
           i + 1 \in DOMAIN queue /\ queue'[i] = queue[i + 1] /\ i \in Nat /\ i > 0
  BY Dequeued DEF VariablesTyped
<1>2. \A i \in DOMAIN queue' : queue'[i].task \in Tasks /\ Awaited(queue[i])'
  BY <1>1 DEF Awaited
<1>3. \A i, j \in DOMAIN queue' : queue'[i].task = queue'[j].task => i = j
  BY <1>1
<1>4. \A x \in Workers, i \in DOMAIN queue' : worker'[x].task # queue'[i].task
  BY <1>1
<1>5. \A x \in Workers : worker'[x].task \in Tasks => Awaited(worker[x])'
  BY <1>1 DEF Awaited
<1>6. \A x, y \in Workers :
        worker'[x].task = worker'[y].task /\ worker'[x].task \in Tasks => x = y
  BY <1>1
<1> QED
  BY <1>2, <1>3, <1>4, <1>5, <1>6

\* A job is done: the thread is free, and its task, if there is one, can go on.
LEMMA JobsComplete ==
  ASSUME JobsInv, VariablesTyped', NEW w \in Workers, Complete(w)
  PROVE  JobsInv'
<1> USE TasksAssumption DEF JobsInv, OneJobEach, Complete
<1>1. /\ worker'[w].task = Nobody
      /\ \A x \in Workers \ {w} : worker'[x] = worker[x]
      /\ UNCHANGED <<pc, key, queue>>
      /\ \A t \in Tasks : ready'[t] <=> ready[t] \/ worker[w].task = t
  BY ZenonT(30) DEF VariablesTyped, Idle
<1>2. \A i \in DOMAIN queue : Awaited(queue[i])'
  BY <1>1 DEF Awaited
<1>3. \A x \in Workers : worker'[x].task \in Tasks => Awaited(worker[x])'
  BY <1>1 DEF Awaited
<1>4. \A t \in Tasks : ready'[t] => pc'[t] \in {"acquiring", "releasing"}
  BY <1>1 DEF Awaited
<1> QED
  BY <1>1, <1>2, <1>3, <1>4

\* The call that asks for the lock.
LEMMA JobsAsk ==
  ASSUME JobsInv, VariablesTyped', NEW t \in Tasks, GetOrSetAsync(t)
  PROVE  JobsInv'
<1>1. Jobless(t) /\ ~ready[t] /\ Elsewhere(t) /\ ready' = ready
  BY OnlyAwaitsHaveJobs DEF GetOrSetAsync, Begin, On, Ask, Elsewhere, JobsInv, VariablesTyped, Submit
<1>2. CASE UNCHANGED pool
  BY <1>1, <1>2, JobsMove
<1>3. ASSUME NEW k \in Keys, NEW P \in Predicates, Ask(t, k, P),
             Submit(t, k, "acquire"), Goto(t, "acquiring")
      PROVE  JobsInv'
  <2> DEFINE j == [kind |-> "acquire", key |-> k, task |-> t]
  <2>1. j \in Job
    BY JobType DEF JobsInv, OneJobEach
  <2>2. Awaited(j)'
    BY <1>1, <1>3 DEF Awaited, Ask, JobsInv, VariablesTyped
  <2> QED
    BY <1>1, <1>3, <2>1, <2>2, JobsSubmit DEF Submit
<1> QED
  BY <1>2, <1>3 DEF GetOrSetAsync

LEMMA JobsStep == JobsInv /\ [Next]_vars => JobsInv'
<1> SUFFICES ASSUME JobsInv, [Next]_vars PROVE JobsInv'
  OBVIOUS
<1>0. VariablesTyped' /\ VariablesTyped
  BY NextType DEF JobsInv, OneJobEach
\* A task that awaits no job moves to where it awaits none.
<1>a. ASSUME NEW t \in Tasks, pc[t] \notin {"acquiring", "releasing"} \/ ready[t], Elsewhere(t),
             UNCHANGED <<queue, worker>>, ~ready'[t]
      PROVE  JobsInv'
  BY <1>0, <1>a, OnlyAwaitsHaveJobs, JobsMove
<1>1. ASSUME NEW t \in Tasks, GetOrSetAsync(t) PROVE JobsInv'
  BY <1>0, <1>1, JobsAsk
<1>2. ASSUME NEW t \in Tasks, GetOrSet(t) PROVE JobsInv'
  <2>1. Elsewhere(t) /\ pc[t] = "idle" /\ UNCHANGED pool
    BY <1>0, <1>2 DEF GetOrSet, Begin, On, Ask, Elsewhere, VariablesTyped
  <2> QED
    BY <1>a, <2>1 DEF JobsInv, OneJobEach
<1>3. ASSUME NEW t \in Tasks, Set(t) \/ Delete(t) \/ Clear(t) \/ Close(t) PROVE JobsInv'
  <2>1. UNCHANGED <<pc, key, queue, worker, ready>> /\ pc[t] = "idle"
    BY <1>3 DEF Set, Delete, Clear, Close, Direct, Begin, On
  <2> QED
    BY <1>a, <2>1 DEF JobsInv, OneJobEach, Elsewhere
<1>4. ASSUME NEW t \in Tasks, Block(t) \/ Inline(t) \/ Bypassed(t) PROVE JobsInv'
  <2>1. Elsewhere(t) /\ pc[t] \in {"blocking", "inline", "bypass"} /\ UNCHANGED pool
    BY <1>0, <1>4 DEF Block, Inline, Bypassed, On, Elsewhere, VariablesTyped
  <2> QED
    BY <1>a, <2>1 DEF JobsInv, OneJobEach
<1>6. ASSUME NEW t \in Tasks, Locked(t) PROVE JobsInv'
  <2>1. Jobless(t) /\ UNCHANGED key
    BY <1>6, OnlyAwaitsHaveJobs DEF Locked, On
  <2>2. CASE Goto(t, "computing") /\ ready' = [ready EXCEPT ![t] = FALSE] /\ UNCHANGED <<queue, worker>>
    BY <1>0, <1>6, <1>a, <2>1, <2>2, ZenonT(30) DEF Locked, Elsewhere, VariablesTyped
  <2> QED
    BY <1>0, <1>6, <2>1, <2>2, JobsLeave DEF Locked
<1>7. ASSUME NEW t \in Tasks, Computed(t) \/ CancelFactory(t) PROVE JobsInv'
  <2>1. Jobless(t) /\ UNCHANGED key
    BY <1>7, OnlyAwaitsHaveJobs DEF Computed, CancelFactory, On
  <2>2. \E o, v : Leave(t, o, v)
    BY <1>7 DEF Computed, CancelFactory
  <2> QED
    BY <1>0, <2>1, <2>2, JobsLeave
<1>8. ASSUME NEW t \in Tasks, Released(t) PROVE JobsInv'
  <2>1. Elsewhere(t) /\ ready[t] /\ ~ready'[t] /\ UNCHANGED <<queue, worker>>
    BY <1>0, <1>8 DEF Released, On, Elsewhere, VariablesTyped
  <2> QED
    BY <1>a, <2>1
<1>9. ASSUME NEW t \in Tasks, CancelAwait(t) PROVE JobsInv'
  BY <1>0, <1>9, JobsCancel
<1>10. ASSUME NEW w \in Workers, Start(w) PROVE JobsInv'
  BY <1>0, <1>10, JobsStart
<1>11. ASSUME NEW w \in Workers, Acquire(w) \/ Release(w) PROVE JobsInv'
  BY <1>0, <1>11, JobsComplete DEF Acquire, Release
<1>12. CASE Poll \/ Finished \/ UNCHANGED vars
  BY <1>0, <1>12 DEF Poll, Finished, vars, JobsInv, OneJobEach, Awaited
<1> QED
  BY <1>1, <1>2, <1>3, <1>4, <1>6, <1>7, <1>8, <1>9, <1>10, <1>11, <1>12
     DEF Next, Resume, Work

LEMMA JobsInvHolds == Spec => []JobsInv
<1>1. Init => JobsInv
  <2> SUFFICES ASSUME Init PROVE JobsInv
    OBVIOUS
  <2>1. queue = << >> /\ DOMAIN queue = {}
    BY EmptySeq, LenProperties DEF Init
  <2>2. \A w \in Workers : worker[w].task = Nobody
    BY DEF Init, Idle
  <2>3. \A t \in Tasks : ~ready[t]
    BY DEF Init
  <2> QED
    BY <2>1, <2>2, <2>3, InitType, TasksAssumption DEF JobsInv, OneJobEach
<1> QED
  BY <1>1, JobsStep, PTL DEF Spec

\* Whatever the tasks and the threads of the pool do, and whenever a task is
\* cancelled, every variable keeps its type, and no task has a job in the queue
\* and another one on a thread, or two on either.
THEOREM AsyncTypes == Spec => []TypeOK
<1>1. JobsInv => TypeOK
  BY DEF JobsInv, TypeOK
<1> QED
  BY <1>1, JobsInvHolds, PTL

-----------------------------------------------------------------------------
(* What steps do to the holders of locks and to lock rows.                  *)

\* A thread that will give back a lock for a task that was cancelled.
Orphan(w) == worker[w].kind = "release" /\ worker[w].task = Nobody

\* The tasks other than those of S hold what they held.
HoldersBut(S) ==
  \A u \in Tasks \ S : (Holds(u)' <=> Holds(u)) /\ (Holds(u) => key'[u] = key[u])

OrphansBut(S) ==
  \A x \in Workers \ S : (Orphan(x)' <=> Orphan(x)) /\ (Orphan(x) => worker'[x] = worker[x])

Keeps == lockRow' = lockRow /\ HoldersBut({}) /\ OrphansBut({})

Takes(t) ==
  /\ key[t] \notin lockRow /\ lockRow' = lockRow \cup {key[t]}
  /\ ~Holds(t) /\ Holds(t)' /\ key'[t] = key[t]
  /\ HoldersBut({t}) /\ OrphansBut({})

Gives(t) ==
  /\ lockRow' = lockRow \ {key[t]}
  /\ Holds(t) /\ ~Holds(t)'
  /\ HoldersBut({t}) /\ OrphansBut({})

\* An acquire succeeds, and a release is done, for a task that was cancelled.
TakesForNobody(w) ==
  /\ worker[w] = [kind |-> "acquire", key |-> worker[w].key, task |-> Nobody]
  /\ worker[w].key \notin lockRow /\ lockRow' = lockRow \cup {worker[w].key}
  /\ HoldersBut({}) /\ OrphansBut({})

GivesForNobody(w) ==
  /\ Orphan(w) /\ ~Orphan(w)'
  /\ lockRow' = lockRow \ {worker[w].key}
  /\ HoldersBut({}) /\ OrphansBut({w})

\* A cancelled task holds nothing; a thread may be left to give its lock back.
Abandons(t) ==
  /\ pc[t] \in {"acquiring", "releasing", "bypass"}
  /\ pc'[t] = "idle" /\ outcome'[t] = "cancelled"
  /\ lockRow' = lockRow /\ ~Holds(t)'
  /\ HoldersBut({t})
  /\ \E S \in SUBSET Workers :
       /\ OrphansBut(S)
       /\ \A w \in S : Holds(t) /\ worker'[w].key = key[t]
       /\ \A w, x \in S : w = x

Clears(t) == Clear(t) /\ lockRow' \subseteq lockRow /\ HoldersBut({}) /\ OrphansBut({})

\* Every step does one of these.
LEMMA StepKinds ==
  ASSUME JobsInv, [Next]_vars
  PROVE  \/ Keeps
         \/ \E t \in Tasks : Takes(t) \/ Gives(t) \/ Abandons(t) \/ Clears(t)
         \/ \E w \in Workers : TakesForNobody(w) \/ GivesForNobody(w)
<1>0. JobsInv' /\ VariablesTyped /\ VariablesTyped'
  BY JobsStep DEF JobsInv, OneJobEach
<1>r. \A t \in Tasks : ready[t] => pc[t] \in {"acquiring", "releasing"}
  BY DEF JobsInv, OneJobEach
<1> DEFINE Kind == \/ Keeps
                   \/ \E t \in Tasks : Takes(t) \/ Gives(t) \/ Abandons(t) \/ Clears(t)
                   \/ \E w \in Workers : TakesForNobody(w) \/ GivesForNobody(w)
<1> SUFFICES Kind
  OBVIOUS
<1> USE DEF HoldersBut, OrphansBut
\* One task moves, and the threads of the pool and the rows stay.
<1>a. ASSUME NEW t \in Tasks, Elsewhere(t), UNCHANGED <<worker, lockRow>>,
             Holds(t)' <=> Holds(t), Holds(t) => key'[t] = key[t]
      PROVE  Keeps
  BY <1>a DEF Keeps, Elsewhere, Holds, Orphan
<1>1. ASSUME NEW t \in Tasks, GetOrSetAsync(t) PROVE Kind
  <2>1. Elsewhere(t) /\ UNCHANGED <<worker, lockRow, ready>> /\ pc[t] = "idle" /\ ~ready[t]
    BY <1>0, <1>1, <1>r DEF GetOrSetAsync, Begin, On, Ask, Elsewhere, VariablesTyped, Submit
  <2>2. pc'[t] \in {"idle", "bypass", "acquiring"}
    BY <1>0, <1>1 DEF GetOrSetAsync, Begin, On, VariablesTyped
  <2> QED
    BY <1>a, <2>1, <2>2 DEF Holds
<1>2. ASSUME NEW t \in Tasks, GetOrSet(t) PROVE Kind
  <2>1. Elsewhere(t) /\ UNCHANGED <<worker, lockRow>> /\ pc[t] = "idle"
        /\ pc'[t] \in {"idle", "blocking"}
    BY <1>0, <1>2 DEF GetOrSet, Begin, On, Ask, Elsewhere, VariablesTyped
  <2> QED
    BY <1>a, <2>1 DEF Holds
<1>3. ASSUME NEW t \in Tasks, Set(t) \/ Delete(t) \/ Close(t) PROVE Kind
  <2>1. UNCHANGED <<pc, key, ready, worker, lockRow>>
    BY <1>3 DEF Set, Delete, Close, Direct
  <2> QED
    BY <1>a, <2>1 DEF Holds, Elsewhere
<1>4. ASSUME NEW t \in Tasks, Clear(t) PROVE Kind
  <2>1. UNCHANGED <<pc, key, ready, worker>> /\ lockRow' \subseteq lockRow
    BY <1>4 DEF Clear, Direct
  <2>2. Clears(t)
    BY <1>4, <2>1 DEF Clears, Holds, Orphan
  <2> QED
    BY <2>2
<1>5. ASSUME NEW t \in Tasks, Block(t) PROVE Kind
  <2>1. Takes(t)
    BY <1>0, <1>5 DEF Block, On, Takes, Holds, Orphan, VariablesTyped
  <2> QED
    BY <2>1
<1>6. ASSUME NEW t \in Tasks, Inline(t) PROVE Kind
  <2>1. Gives(t)
    BY <1>0, <1>6 DEF Inline, On, Gives, Holds, Orphan, VariablesTyped
  <2> QED
    BY <2>1
<1>7. ASSUME NEW t \in Tasks, Locked(t) PROVE Kind
  <2>1. Elsewhere(t) /\ UNCHANGED <<worker, lockRow, key>> /\ pc[t] = "acquiring" /\ ready[t]
    BY <1>0, <1>7 DEF Locked, On, Elsewhere, VariablesTyped, Leave
  <2>2. pc'[t] = "computing" \/ (pc'[t] = "releasing" /\ ~ready'[t])
    BY <1>0, <1>7 DEF Locked, VariablesTyped, Leave
  <2> QED
    BY <1>a, <2>1, <2>2 DEF Holds
<1>8. ASSUME NEW t \in Tasks, Computed(t) \/ CancelFactory(t) PROVE Kind
  <2>1. Elsewhere(t) /\ UNCHANGED <<worker, lockRow, key>> /\ pc[t] = "computing"
        /\ pc'[t] = "releasing" /\ ~ready'[t]
    BY <1>0, <1>8 DEF Computed, CancelFactory, On, Elsewhere, VariablesTyped, Leave
  <2> QED
    BY <1>a, <2>1 DEF Holds
<1>9. ASSUME NEW t \in Tasks, Released(t) PROVE Kind
  BY <1>0, <1>9, <1>a DEF Released, On, Elsewhere, VariablesTyped, Holds
<1>10. ASSUME NEW t \in Tasks, Bypassed(t) PROVE Kind
  BY <1>0, <1>10, <1>a DEF Bypassed, On, Elsewhere, VariablesTyped, Holds
<1>11. ASSUME NEW t \in Tasks, CancelAwait(t) PROVE Kind
  <2> DEFINE S == {w \in Workers : worker[w].task = t /\ worker[w].kind = "release"}
  <2>1. /\ pc[t] \in {"acquiring", "releasing", "bypass"}
        /\ pc'[t] = "idle" /\ outcome'[t] = "cancelled"
        /\ UNCHANGED <<lockRow, key>> /\ Elsewhere(t)
    BY <1>0, <1>11 DEF CancelAwait, On, Result, VariablesTyped, Elsewhere
  <2>2. ~Holds(t)' /\ HoldersBut({t})
    BY <2>1 DEF Holds, Elsewhere
  <2>3. OrphansBut(S)
    BY <1>0, <1>11, TasksAssumption, WorkersJob DEF CancelAwait, Orphan, Job
  <2>4. ASSUME NEW w \in S PROVE Holds(t) /\ worker'[w].key = key[t]
    <3>1. Awaited(worker[w]) /\ worker[w] \in Job
      BY <1>0, WorkersJob DEF JobsInv, OneJobEach
    <3>2. worker'[w] = [worker[w] EXCEPT !.task = Nobody]
      BY <1>11 DEF CancelAwait
    <3> QED
      BY <3>1, <3>2 DEF Awaited, Holds, Job
  <2>5. \A w, x \in S : w = x
    BY DEF JobsInv, OneJobEach
  <2>6. Abandons(t)
    BY <2>1, <2>2, <2>3, <2>4, <2>5 DEF Abandons
  <2> QED
    BY <2>6
<1>12. ASSUME NEW w \in Workers, Start(w) PROVE Kind
  <2>1. /\ worker[w] = Idle /\ worker'[w].task \in Tasks
        /\ \A x \in Workers \ {w} : worker'[x] = worker[x]
        /\ UNCHANGED <<lockRow, pc, key, ready>>
    BY <1>0, <1>12, Dequeued DEF Start, VariablesTyped, JobsInv
  <2>2. Keeps
    BY <2>1, TasksAssumption DEF Keeps, Holds, Orphan, Idle
  <2> QED
    BY <2>2
<1>13. ASSUME NEW w \in Workers, Acquire(w) \/ Release(w) PROVE Kind
  <2> DEFINE t == worker[w].task
             k == worker[w].key
  <2>1. worker[w] \in Job /\ t \in Tasks \cup {Nobody} /\ k \in Keys
    BY <1>0, <1>13, WorkersJob DEF Acquire, Release
  <2>2. /\ worker'[w] = Idle /\ UNCHANGED <<pc, key>>
        /\ \A x \in Workers \ {w} : worker'[x] = worker[x]
        /\ \A u \in Tasks : ready'[u] <=> ready[u] \/ t = u
    BY <1>0, <1>13 DEF Acquire, Release, Complete, VariablesTyped
  <2>3. HoldersBut({t})
    BY <2>2 DEF Holds
  <2>4. OrphansBut({w}) /\ ~Orphan(w)'
    BY <2>2 DEF Orphan, Idle
  <2>5. ASSUME NEW u \in Tasks, t = u PROVE Kind
    <3>1. /\ pc[u] \in {"acquiring", "releasing"} /\ ~ready[u] /\ ready'[u]
          /\ k = key[u]
          /\ worker[w].kind = IF pc[u] = "acquiring" THEN "acquire" ELSE "release"
      BY <2>2, <2>5 DEF JobsInv, OneJobEach, Awaited
    <3>2. OrphansBut({})
      BY <2>4, <2>5, TasksAssumption DEF Orphan
    <3>3. HoldersBut({u}) /\ UNCHANGED <<pc, key>>
      BY <2>2, <2>3, <2>5
    <3>4. CASE Acquire(w)
      <4>1. key[u] \notin lockRow /\ lockRow' = lockRow \cup {key[u]} /\ pc[u] = "acquiring"
        BY <3>1, <3>4 DEF Acquire
      <4>2. ~Holds(u) /\ Holds(u)'
        BY <3>1, <3>3, <4>1 DEF Holds
      <4>3. Takes(u)
        BY <3>2, <3>3, <4>1, <4>2 DEF Takes
      <4> QED
        BY <4>3
    <3>5. CASE Release(w)
      <4>1. lockRow' = lockRow \ {key[u]} /\ pc[u] = "releasing"
        BY <3>1, <3>5 DEF Release
      <4>2. Holds(u) /\ ~Holds(u)'
        BY <3>1, <3>3, <4>1 DEF Holds
      <4>3. Gives(u)
        BY <3>2, <3>3, <4>1, <4>2 DEF Gives
      <4> QED
        BY <4>3
    <3> QED
      BY <1>13, <3>4, <3>5
  <2>6. CASE t = Nobody
    <3>1. HoldersBut({})
      BY <2>3, <2>6, TasksAssumption
    <3>2. CASE Acquire(w)
      <4>1. worker[w] = [kind |-> "acquire", key |-> k, task |-> Nobody]
        BY <2>1, <2>6, <3>2 DEF Acquire, Job
      <4>2. OrphansBut({})
        BY <2>4, <4>1 DEF Orphan
      <4>3. TakesForNobody(w)
        BY <3>1, <3>2, <4>1, <4>2 DEF TakesForNobody, Acquire
      <4> QED
        BY <4>3
    <3>3. CASE Release(w)
      <4>1. GivesForNobody(w)
        BY <2>4, <2>6, <3>1, <3>3 DEF GivesForNobody, Release, Orphan
      <4> QED
        BY <4>1
    <3> QED
      BY <1>13, <3>2, <3>3
  <2> QED
    BY <2>1, <2>5, <2>6
<1>14. CASE Poll \/ Finished \/ UNCHANGED vars
  BY <1>14 DEF Poll, Finished, vars, Keeps, Holds, Orphan
<1> QED
  BY <1>1, <1>2, <1>3, <1>4, <1>5, <1>6, <1>7, <1>8, <1>9, <1>10, <1>11, <1>12,
     <1>13, <1>14 DEF Next, Resume, Work
-----------------------------------------------------------------------------
(* Rows without an owner.                                                   *)

\* A row loses its owner, or appears without one, only when a task is
\* cancelled while to_thread takes or gives back its lock, or when the
\* acquire of such a task succeeds for nobody.  Whatever else happens in
\* get_or_set_async - a hit, a raise, a factory cancelled or without a result -
\* the finally of base.py:231 gives the row back.
THEOREM RowsAreGivenBack == Spec => LeaksOnlyAroundLock
<1> DEFINE Excused(k) ==
      \/ \E t \in Tasks : /\ key[t] = k /\ pc[t] \in {"acquiring", "releasing"}
                          /\ pc'[t] = "idle" /\ outcome'[t] = "cancelled"
      \/ \E w \in Workers : worker[w] = [kind |-> "acquire", key |-> k, task |-> Nobody]
<1>1. ASSUME JobsInv, [Next]_vars, NEW k \in lockRow', ~Owned(k)',
             k \notin lockRow \/ Owned(k)
      PROVE  Excused(k)
  <2>1. CASE Keeps
    BY <1>1, <2>1 DEF Keeps, HoldersBut, Owned
  <2>2. ASSUME NEW t \in Tasks, Takes(t) PROVE Excused(k)
    BY <1>1, <2>2 DEF Takes, HoldersBut, Owned
  <2>3. ASSUME NEW t \in Tasks, Gives(t) PROVE Excused(k)
    BY <1>1, <2>3 DEF Gives, HoldersBut, Owned
  <2>4. ASSUME NEW t \in Tasks, Abandons(t) PROVE Excused(k)
    <3>1. PICK u \in Tasks : Holds(u) /\ key[u] = k
      BY <1>1, <2>4 DEF Abandons, Owned
    <3>2. u = t
      BY <1>1, <2>4, <3>1 DEF Abandons, HoldersBut, Owned
    <3>3. pc[t] # "bypass"
      BY <3>1, <3>2 DEF Holds
    <3> QED
      BY <2>4, <3>1, <3>2, <3>3 DEF Abandons
  <2>5. ASSUME NEW t \in Tasks, Clears(t) PROVE Excused(k)
    BY <1>1, <2>5 DEF Clears, HoldersBut, Owned
  <2>6. ASSUME NEW w \in Workers, TakesForNobody(w) PROVE Excused(k)
    BY <1>1, <2>6 DEF TakesForNobody, HoldersBut, Owned
  <2>7. ASSUME NEW w \in Workers, GivesForNobody(w) PROVE Excused(k)
    BY <1>1, <2>7 DEF GivesForNobody, HoldersBut, Owned
  <2> QED
    BY <1>1, <2>1, <2>2, <2>3, <2>4, <2>5, <2>6, <2>7, StepKinds
<1>2. JobsInv /\ [Next]_vars =>
        [\A k \in lockRow' : ~Owned(k)' /\ (k \notin lockRow \/ Owned(k)) => Excused(k)]_vars
  BY <1>1
<1> QED
  BY <1>2, JobsInvHolds, PTL DEF Spec, LeaksOnlyAroundLock

-----------------------------------------------------------------------------
(* The lock excludes, as long as nobody empties the table: clear() also      *)
(* deletes the lock rows.                                                    *)

\* A row has one keeper: the task that holds the lock, or the thread that
\* still gives it back for a task that was cancelled.
LockInv ==
  /\ JobsInv
  /\ Exclusive
  /\ \A w \in Workers : Orphan(w) =>
       /\ worker[w].key \in lockRow
       /\ \A t \in Tasks : Holds(t) => key[t] # worker[w].key
       /\ \A x \in Workers \ {w} : Orphan(x) => worker[x].key # worker[w].key

LEMMA LockStep == "clear" \notin Ops /\ LockInv /\ [Next]_vars => LockInv'
<1> SUFFICES ASSUME "clear" \notin Ops, LockInv, [Next]_vars PROVE LockInv'
  OBVIOUS
<1>0. JobsInv /\ JobsInv'
  BY JobsStep DEF LockInv
<1> USE DEF LockInv, Exclusive, HoldersBut, OrphansBut
<1>1. CASE Keeps
  BY <1>0, <1>1 DEF Keeps
<1>2. ASSUME NEW t \in Tasks, Takes(t) PROVE LockInv'
  BY <1>0, <1>2 DEF Takes
<1>3. ASSUME NEW t \in Tasks, Gives(t) PROVE LockInv'
  BY <1>0, <1>3 DEF Gives
<1>4. ASSUME NEW t \in Tasks, Abandons(t) PROVE LockInv'
  BY <1>0, <1>4 DEF Abandons
<1>5. ASSUME NEW w \in Workers, TakesForNobody(w) PROVE LockInv'
  BY <1>0, <1>5 DEF TakesForNobody
<1>6. ASSUME NEW w \in Workers, GivesForNobody(w) PROVE LockInv'
  BY <1>0, <1>6 DEF GivesForNobody
<1>7. ASSUME NEW t \in Tasks, Clears(t) PROVE LockInv'
  BY <1>7 DEF Clears, Clear, Direct, Begin
<1> QED
  BY <1>0, <1>1, <1>2, <1>3, <1>4, <1>5, <1>6, <1>7, StepKinds

\* No two tasks hold the lock of one key, and the holder has its row: the jobs
\* that cancelled tasks leave on the executor take no lock from anybody.
THEOREM TasksExclude == "clear" \notin Ops => (Spec => []Exclusive)
<1> SUFFICES ASSUME "clear" \notin Ops PROVE Spec => []Exclusive
  OBVIOUS
<1>1. ASSUME JobsInv, Init PROVE LockInv
  BY <1>1, TasksAssumption DEF Init, LockInv, Exclusive, Holds, Orphan, Idle
<1>2. LockInv /\ [Next]_vars => LockInv'
  BY LockStep
<1>3. LockInv => Exclusive
  BY DEF LockInv
<1> QED
  BY <1>1, <1>2, <1>3, JobsInvHolds, PTL DEF Spec
-----------------------------------------------------------------------------
(* AsyncCacheManager implements ComputeOnce, if lock rows are not deleted    *)
(* and nobody stores without the lock.                                       *)

\* An entry the task cannot use: it was so when the task looked, and stays so
\* until the task stores its own.
Fresh(t) ==
  pc[t] \in {"blocking", "inline"} \/ (pc[t] = "computing" /\ open)
    => entry[key[t]] \notin accepts[t]

FreshInv == LockInv /\ \A t \in Tasks : Fresh(t)

\* While one task has the loop, the others await something.
LEMMA OthersAwait ==
  ASSUME NEW t \in Tasks, NEW l, On(t, l), NEW u \in Tasks \ {t}
  PROVE  pc[u] \notin {"blocking", "inline"}
BY DEF On

LEMMA FreshStep ==
  ASSUME "clear" \notin Ops, "set" \notin Ops, FreshInv, [Next]_vars
  PROVE  FreshInv'
<1>0. LockInv' /\ JobsInv /\ VariablesTyped /\ VariablesTyped'
  BY LockStep DEF FreshInv, LockInv, JobsInv
<1>n. \A P \in Predicates : None \notin P
  BY ValuesAssumption
<1> SUFFICES \A t \in Tasks : Fresh(t)'
  BY <1>0 DEF FreshInv
<1>f. \A t \in Tasks : Fresh(t)
  BY DEF FreshInv
\* A task moves, and at most the entry of a key in its hands changes.
<1>a. ASSUME NEW t \in Tasks, Fresh(t)', open' => open,
             \A u \in Tasks \ {t} :
               pc'[u] = pc[u] /\ key'[u] = key[u] /\ accepts'[u] = accepts[u],
             \A u \in Tasks \ {t} :
               pc[u] \in {"blocking", "inline", "computing"} =>
                 entry'[key[u]] = entry[key[u]] \/ entry'[key[u]] = None
      PROVE  \A u \in Tasks : Fresh(u)'
  <2> SUFFICES ASSUME NEW u \in Tasks \ {t} PROVE Fresh(u)'
    BY <1>a
  <2>1. accepts[u] \in Predicates
    BY <1>0 DEF VariablesTyped
  <2> QED
    BY <1>a, <1>f, <1>n, <2>1 DEF Fresh
<1>1. ASSUME NEW t \in Tasks, GetOrSetAsync(t) PROVE \A u \in Tasks : Fresh(u)'
  <2>1. Fresh(t)'
    BY <1>0, <1>1 DEF GetOrSetAsync, Begin, On, VariablesTyped, Fresh
  <2> QED
    BY <1>0, <1>1, <1>a, <2>1 DEF GetOrSetAsync, Ask, VariablesTyped
<1>2. ASSUME NEW t \in Tasks, GetOrSet(t) PROVE \A u \in Tasks : Fresh(u)'
  <2>1. PICK k \in Keys, P \in Predicates :
          /\ Ask(t, k, P)
          /\ \/ UNCHANGED pc
             \/ open /\ entry[k] \notin P /\ Goto(t, "blocking")
    BY <1>2 DEF GetOrSet
  <2>2. pc[t] = "idle" /\ UNCHANGED table
    BY <1>2 DEF GetOrSet, Begin, On
  <2>3. Fresh(t)'
    BY <1>0, <2>1, <2>2 DEF Ask, VariablesTyped, Fresh
  <2> QED
    BY <1>0, <1>a, <2>1, <2>2, <2>3 DEF Ask, VariablesTyped
<1>3. ASSUME NEW t \in Tasks, Set(t) \/ Clear(t) PROVE \A u \in Tasks : Fresh(u)'
  BY <1>3 DEF Set, Clear, Direct, Begin
<1>4. ASSUME NEW t \in Tasks, Delete(t) PROVE \A u \in Tasks : Fresh(u)'
  <2>1. /\ pc[t] = "idle" /\ UNCHANGED <<pc, key, accepts, open>>
        /\ \A u \in Tasks : entry'[key[u]] = entry[key[u]] \/ entry'[key[u]] = None
    BY <1>0, <1>4 DEF Delete, Direct, Begin, On, VariablesTyped
  <2>2. Fresh(t)'
    BY <2>1 DEF Fresh
  <2> QED
    BY <1>a, <2>1, <2>2
<1>5. ASSUME NEW t \in Tasks, Close(t) PROVE \A u \in Tasks : Fresh(u)'
  <2>1. /\ pc[t] = "idle" /\ UNCHANGED <<pc, key, accepts, entry>> /\ ~open'
    BY <1>5 DEF Close, Direct, Begin, On
  <2> QED
    BY <1>f, <2>1 DEF Fresh
<1>6. ASSUME NEW t \in Tasks, Block(t) PROVE \A u \in Tasks : Fresh(u)'
  <2>1. Fresh(t)'
    BY <1>0, <1>6, <1>f DEF Block, On, VariablesTyped, Fresh
  <2> QED
    BY <1>0, <1>6, <1>a, <2>1 DEF Block, VariablesTyped
\* The entry of t's key changes: no other task computes for that key.
<1>b. ASSUME NEW t \in Tasks, Holds(t), NEW l, On(t, l), pc'[t] \in {"idle", "releasing"},
             \A u \in Tasks \ {t} : pc'[u] = pc[u],
             UNCHANGED <<key, accepts, open>>,
             \A k \in Keys \ {key[t]} : entry'[k] = entry[k]
      PROVE  \A u \in Tasks : Fresh(u)'
  <2>1. ASSUME NEW u \in Tasks \ {t}, pc[u] \in {"blocking", "inline", "computing"}
        PROVE  entry'[key[u]] = entry[key[u]]
    <3>1. pc[u] = "computing"
      BY <1>b, <2>1, OthersAwait
    <3>2. Holds(u)
      BY <3>1 DEF Holds
    <3>3. key[u] # key[t] /\ key[u] \in Keys
      BY <1>0, <1>b, <3>2 DEF FreshInv, LockInv, Exclusive, VariablesTyped
    <3> QED
      BY <1>b, <3>3
  <2>2. Fresh(t)'
    BY <1>b DEF Fresh
  <2> QED
    BY <1>a, <1>b, <2>1, <2>2
<1>7. ASSUME NEW t \in Tasks, Inline(t) PROVE \A u \in Tasks : Fresh(u)'
  <2>1. Holds(t) /\ pc'[t] = "idle" /\ \A u \in Tasks \ {t} : pc'[u] = pc[u]
    BY <1>0, <1>7 DEF Inline, On, Holds, VariablesTyped
  <2>2. \A k \in Keys \ {key[t]} : entry'[k] = entry[k]
    BY <1>0, <1>7 DEF Inline, VariablesTyped
  <2> QED
    BY <1>7, <1>b, <2>1, <2>2 DEF Inline
<1>8. ASSUME NEW t \in Tasks, Locked(t) PROVE \A u \in Tasks : Fresh(u)'
  <2>1. UNCHANGED <<entry, open, key, accepts>>
    BY <1>8 DEF Locked
  <2>2. \/ Goto(t, "releasing")
        \/ Goto(t, "computing") /\ (~open \/ entry[key[t]] \notin accepts[t])
    BY <1>8 DEF Locked, Leave
  <2>3. Fresh(t)' /\ \A u \in Tasks \ {t} : pc'[u] = pc[u]
    BY <1>0, <2>1, <2>2 DEF Fresh, VariablesTyped
  <2> QED
    BY <1>a, <2>1, <2>3
<1>9. ASSUME NEW t \in Tasks, Computed(t) PROVE \A u \in Tasks : Fresh(u)'
  <2>1. Holds(t) /\ pc'[t] = "releasing" /\ \A u \in Tasks \ {t} : pc'[u] = pc[u]
    BY <1>0, <1>9 DEF Computed, On, Leave, Holds, VariablesTyped
  <2>2. \A k \in Keys \ {key[t]} : entry'[k] = entry[k]
    BY <1>0, <1>9 DEF Computed, VariablesTyped
  <2> QED
    BY <1>9, <1>b, <2>1, <2>2 DEF Computed
<1>10. ASSUME NEW t \in Tasks, Released(t) \/ Bypassed(t) \/ CancelFactory(t) \/ CancelAwait(t)
       PROVE  \A u \in Tasks : Fresh(u)'
  <2>1. /\ \A u \in Tasks \ {t} : pc'[u] = pc[u]
        /\ pc'[t] \in {"idle", "releasing"}
        /\ UNCHANGED <<entry, open, key, accepts>>
    BY <1>0, <1>10 DEF Released, Bypassed, CancelFactory, CancelAwait, Leave, VariablesTyped
  <2>2. Fresh(t)'
    BY <2>1 DEF Fresh
  <2> QED
    BY <1>a, <2>1, <2>2
<1>11. ASSUME NEW w \in Workers, Work(w) PROVE \A u \in Tasks : Fresh(u)'
  BY <1>11, <1>f DEF Work, Start, Acquire, Release, Complete, Fresh
<1>12. CASE Poll \/ Finished \/ UNCHANGED vars
  BY <1>12, <1>f DEF Poll, Finished, vars, Fresh
<1> QED
  BY <1>1, <1>2, <1>3, <1>4, <1>5, <1>6, <1>7, <1>8, <1>9, <1>10, <1>11, <1>12
     DEF Next, Resume

LEMMA FreshHolds == "clear" \notin Ops /\ "set" \notin Ops => (Spec => []FreshInv)
<1> SUFFICES ASSUME "clear" \notin Ops, "set" \notin Ops PROVE Spec => []FreshInv
  OBVIOUS
<1>1. ASSUME JobsInv, Init PROVE FreshInv
  BY <1>1, TasksAssumption
     DEF Init, FreshInv, LockInv, Exclusive, Holds, Orphan, Idle, Fresh
<1>2. FreshInv /\ [Next]_vars => FreshInv'
  BY FreshStep
<1> QED
  BY <1>1, <1>2, JobsInvHolds, PTL DEF Spec
-----------------------------------------------------------------------------
(* The steps of the abstract specification.                                  *)

\* The flights of the tasks outside S are what they were.
FlightsBut(S) ==
  \A u \in Tasks \ S :
    /\ Flying(u)' <=> Flying(u)
    /\ Flying(u) => key'[u] = key[u] /\ accepts'[u] = accepts[u]

LEMMA FlightsSame ==
  ASSUME FlightsBut({})
  PROVE  flights' = flights
<1>1. ASSUME NEW k \in Keys
      PROVE  {[who |-> t, accepts |-> accepts'[t]] :
                t \in {u \in Tasks : Flying(u)' /\ key'[u] = k}}
               = {[who |-> t, accepts |-> accepts[t]] :
                t \in {u \in Tasks : Flying(u) /\ key[u] = k}}
  BY DEF FlightsBut
<1> QED
  BY <1>1 DEF flights

\* A flight that ends with nothing stored is an abstract Leave.
LEMMA FlightLeaves ==
  ASSUME NEW t \in Tasks, FlightsBut({t}), ~Flying(t)', entry' = entry
  PROVE  CO!Leave({t})
<1>1. ASSUME NEW k \in Keys
      PROVE  {[who |-> u, accepts |-> accepts'[u]] :
                u \in {d \in Tasks : Flying(d)' /\ key'[d] = k}}
               = {f \in flights[k] : f.who \notin {t}}
  <2> DEFINE here == {u \in Tasks : Flying(u) /\ key[u] = k}
             there == {u \in Tasks : Flying(u)' /\ key'[u] = k}
  <2>1. flights[k] = {[who |-> u, accepts |-> accepts[u]] : u \in here}
    BY DEF flights
  <2>2. there = here \ {t} /\ \A u \in there : accepts'[u] = accepts[u]
    BY DEF FlightsBut
  <2> QED
    BY <2>1, <2>2
<1>2. flights' = [k \in Keys |-> {f \in flights[k] : f.who \notin {t}}]
  BY <1>1 DEF flights
<1> QED
  BY <1>2 DEF CO!Leave

\* Taking the lock of a key starts its flight, and no other flies there.
LEMMA FlightBegins ==
  ASSUME LockInv, NEW t \in Tasks, key[t] \notin lockRow, entry' = entry,
         FlightsBut({t}), ~Flying(t), Flying(t)', UNCHANGED <<key, accepts>>
  PROVE  CO!Begin(key[t], [who |-> t, accepts |-> accepts[t]])
<1> DEFINE k == key[t]
           f == [who |-> t, accepts |-> accepts[t]]
<1>1. k \in Keys /\ \A u \in Tasks : Flying(u) => key[u] # k
  BY DEF LockInv, JobsInv, VariablesTyped, Exclusive, Flying
<1>2. flights[k] = {}
  BY <1>1 DEF flights
<1>3. ASSUME NEW j \in Keys
      PROVE  flights'[j] = IF j = k THEN {f} ELSE flights[j]
  <2>1. {u \in Tasks : Flying(u)' /\ key'[u] = j}
          = IF j = k THEN {t} ELSE {u \in Tasks : Flying(u) /\ key[u] = j}
    BY <1>1 DEF FlightsBut
  <2> QED
    BY <2>1 DEF flights
<1>4. flights' = [flights EXCEPT ![k] = {f}]
  BY <1>1, <1>3 DEF flights
<1> QED
  BY <1>2, <1>4 DEF CO!Begin

\* Storing an entry over one the flight could not use ends the flight.
LEMMA FlightPublishes ==
  ASSUME LockInv, NEW t \in Tasks, NEW v, entry[key[t]] \notin accepts[t],
         entry' = [entry EXCEPT ![key[t]] = v],
         FlightsBut({t}), Flying(t), ~Flying(t)', UNCHANGED <<key, accepts>>
  PROVE  CO!Publish(key[t], [who |-> t, accepts |-> accepts[t]], v)
<1> DEFINE k == key[t]
           f == [who |-> t, accepts |-> accepts[t]]
<1>1. k \in Keys /\ \A u \in Tasks : Flying(u) /\ key[u] = k <=> u = t
  BY DEF LockInv, JobsInv, VariablesTyped, Exclusive, Flying
<1>2. flights[k] = {f}
  BY <1>1 DEF flights
<1>3. ASSUME NEW j \in Keys
      PROVE  flights'[j] = IF j = k THEN {} ELSE flights[j]
  <2>1. {u \in Tasks : Flying(u)' /\ key'[u] = j}
          = IF j = k THEN {} ELSE {u \in Tasks : Flying(u) /\ key[u] = j}
    BY <1>1 DEF FlightsBut
  <2> QED
    BY <2>1 DEF flights
<1>4. flights' = [flights EXCEPT ![k] = flights[k] \ {f}]
  BY <1>1, <1>2, <1>3, ZenonT(30) DEF flights
<1> QED
  BY <1>2, <1>4 DEF CO!Publish

LEMMA StepSimulation ==
  ASSUME "clear" \notin Ops, "set" \notin Ops, FreshInv, [Next]_vars
  PROVE  [CO!Next]_(CO!vars)
<1>0. LockInv /\ JobsInv /\ VariablesTyped /\ VariablesTyped'
  BY NextType DEF FreshInv, LockInv, JobsInv
<1>r. \A t \in Tasks : ready[t] => pc[t] \in {"acquiring", "releasing"}
  BY <1>0 DEF JobsInv, OneJobEach
<1>f. \A t \in Tasks : [who |-> t, accepts |-> accepts[t]] \in CO!Flights
  BY <1>0 DEF VariablesTyped, CO!Flights
\* What a step of one task leaves to the others.
<1>e. ASSUME NEW t \in Tasks,
             \A u \in Tasks \ {t} :
               /\ pc'[u] = pc[u] /\ key'[u] = key[u] /\ accepts'[u] = accepts[u]
               /\ ready'[u] = ready[u]
      PROVE  FlightsBut({t})
  BY <1>e DEF FlightsBut, Flying, Holds
\* A task leaves its flight, or was in none and enters none.
<1>a. ASSUME NEW t \in Tasks, FlightsBut({t}), ~Flying(t)', entry' = entry
      PROVE  [CO!Next]_(CO!vars)
  <2>1. CO!Leave({t})
    BY <1>a, FlightLeaves
  <2> QED
    BY <2>1 DEF CO!Next
\* No flight starts or ends.
<1>b. ASSUME FlightsBut({}), entry' = entry PROVE [CO!Next]_(CO!vars)
  BY <1>b, FlightsSame DEF CO!vars
\* A task takes the lock of its key.
<1>c. ASSUME NEW t \in Tasks, FlightsBut({t}), ~Flying(t), Flying(t)',
             key[t] \notin lockRow, UNCHANGED <<entry, key, accepts>>
      PROVE  [CO!Next]_(CO!vars)
  <2>1. CO!Begin(key[t], [who |-> t, accepts |-> accepts[t]])
    BY <1>0, <1>c, FlightBegins
  <2>2. key[t] \in Keys
    BY <1>0 DEF VariablesTyped
  <2> QED
    BY <1>f, <2>1, <2>2 DEF CO!Next
\* A task stores its entry.
<1>d. ASSUME NEW t \in Tasks, NEW v \in Values, FlightsBut({t}), Flying(t), ~Flying(t)',
             entry[key[t]] \notin accepts[t],
             entry' = [entry EXCEPT ![key[t]] = v], UNCHANGED <<key, accepts>>
      PROVE  [CO!Next]_(CO!vars)
  <2>1. CO!Publish(key[t], [who |-> t, accepts |-> accepts[t]], v)
    BY <1>0, <1>d, FlightPublishes
  <2>2. key[t] \in Keys
    BY <1>0 DEF VariablesTyped
  <2> QED
    BY <1>f, <2>1, <2>2 DEF CO!Next
<1>1. ASSUME NEW t \in Tasks, GetOrSetAsync(t) PROVE [CO!Next]_(CO!vars)
  <2>1. FlightsBut({t}) /\ entry' = entry
    BY <1>0, <1>1, <1>e DEF GetOrSetAsync, Ask, VariablesTyped, Submit
  <2>2. pc'[t] \in {"idle", "bypass", "acquiring"} /\ ~ready'[t]
    BY <1>0, <1>1, <1>r DEF GetOrSetAsync, Begin, On, VariablesTyped, Submit
  <2> QED
    BY <1>a, <2>1, <2>2 DEF Flying, Holds
<1>2. ASSUME NEW t \in Tasks, GetOrSet(t) PROVE [CO!Next]_(CO!vars)
  <2>1. FlightsBut({t}) /\ entry' = entry
    BY <1>0, <1>2, <1>e DEF GetOrSet, Ask, VariablesTyped
  <2>2. pc'[t] \in {"idle", "blocking"}
    BY <1>0, <1>2 DEF GetOrSet, Begin, On, VariablesTyped
  <2> QED
    BY <1>a, <2>1, <2>2 DEF Flying, Holds
<1>3. ASSUME NEW t \in Tasks, Set(t) \/ Clear(t) PROVE [CO!Next]_(CO!vars)
  BY <1>3 DEF Set, Clear, Direct, Begin
<1>4. ASSUME NEW t \in Tasks, Delete(t) PROVE [CO!Next]_(CO!vars)
  <2>1. UNCHANGED <<pc, key, accepts, ready>>
    BY <1>4 DEF Delete, Direct
  <2>2. FlightsBut({})
    BY <2>1 DEF FlightsBut, Flying, Holds
  <2>3. flights' = flights
    BY <2>2, FlightsSame
  <2>4. PICK k \in Keys : entry' = IF open THEN [entry EXCEPT ![k] = None] ELSE entry
    BY <1>4 DEF Delete
  <2>5. CASE open
    <3>1. CO!Forget(k)
      BY <2>3, <2>4, <2>5 DEF CO!Forget
    <3> QED
      BY <3>1 DEF CO!Next
  <2> QED
    BY <1>b, <2>2, <2>4, <2>5
<1>5. ASSUME NEW t \in Tasks, Close(t) PROVE [CO!Next]_(CO!vars)
  <2>1. UNCHANGED <<pc, key, accepts, ready, entry>>
    BY <1>5 DEF Close, Direct
  <2> QED
    BY <1>b, <2>1 DEF FlightsBut, Flying, Holds
<1>6. ASSUME NEW t \in Tasks, Block(t) PROVE [CO!Next]_(CO!vars)
  <2>1. FlightsBut({t}) /\ UNCHANGED <<entry, key, accepts>>
    BY <1>0, <1>6, <1>e DEF Block, VariablesTyped
  <2>2. pc[t] = "blocking" /\ pc'[t] = "inline" /\ key[t] \notin lockRow
    BY <1>0, <1>6 DEF Block, On, VariablesTyped
  <2> QED
    BY <1>c, <2>1, <2>2 DEF Flying, Holds
<1>7. ASSUME NEW t \in Tasks, Inline(t) PROVE [CO!Next]_(CO!vars)
  <2>1. FlightsBut({t}) /\ UNCHANGED <<key, accepts>>
    BY <1>0, <1>7, <1>e DEF Inline, VariablesTyped
  <2>2. Flying(t) /\ ~Flying(t)'
    BY <1>0, <1>7 DEF Inline, On, VariablesTyped, Flying, Holds
  <2>3. entry[key[t]] \notin accepts[t]
    BY <1>7 DEF Inline, On, FreshInv, Fresh
  <2>4. entry' = entry \/ \E v \in Values : entry' = [entry EXCEPT ![key[t]] = v]
    BY <1>7 DEF Inline
  <2> QED
    BY <1>a, <1>d, <2>1, <2>2, <2>3, <2>4
<1>8. ASSUME NEW t \in Tasks, Locked(t) PROVE [CO!Next]_(CO!vars)
  <2>1. FlightsBut({t}) /\ UNCHANGED <<entry, key, accepts>>
    BY <1>0, <1>8, <1>e, ZenonT(30) DEF Locked, Leave, VariablesTyped
  <2>2. Flying(t)
    BY <1>8 DEF Locked, On, Flying, Holds
  <2>3. CASE Goto(t, "computing")
    <3>1. Flying(t)'
      BY <1>0, <2>3 DEF VariablesTyped, Flying, Holds
    <3> QED
      BY <1>b, <2>1, <2>2, <3>1 DEF FlightsBut
  <2>4. CASE Goto(t, "releasing")
    <3>1. ~Flying(t)'
      BY <1>0, <2>4 DEF VariablesTyped, Flying
    <3> QED
      BY <1>a, <2>1, <3>1
  <2> QED
    BY <1>8, <2>3, <2>4 DEF Locked, Leave
<1>9. ASSUME NEW t \in Tasks, Computed(t) PROVE [CO!Next]_(CO!vars)
  <2>1. FlightsBut({t}) /\ UNCHANGED <<key, accepts>>
    BY <1>0, <1>9, <1>e DEF Computed, Leave, VariablesTyped
  <2>2. Flying(t) /\ ~Flying(t)'
    BY <1>0, <1>9 DEF Computed, Leave, On, VariablesTyped, Flying, Holds
  <2>3. open => entry[key[t]] \notin accepts[t]
    BY <1>9 DEF Computed, On, FreshInv, Fresh
  <2>4. \/ entry' = entry
        \/ \E v \in Values : entry' = IF open THEN [entry EXCEPT ![key[t]] = v] ELSE entry
    BY <1>9 DEF Computed
  <2> QED
    BY <1>a, <1>d, <2>1, <2>2, <2>3, <2>4
<1>10. ASSUME NEW t \in Tasks, Released(t) \/ Bypassed(t) \/ CancelFactory(t) \/ CancelAwait(t)
       PROVE  [CO!Next]_(CO!vars)
  <2>1. FlightsBut({t}) /\ UNCHANGED <<entry, key, accepts>>
    BY <1>0, <1>10, <1>e DEF Released, Bypassed, CancelFactory, CancelAwait, Leave, VariablesTyped
  <2>2. pc'[t] \in {"idle", "releasing"}
    BY <1>0, <1>10 DEF Released, Bypassed, CancelFactory, CancelAwait, Leave, VariablesTyped
  <2> QED
    BY <1>a, <2>1, <2>2 DEF Flying, Holds
<1>11. ASSUME NEW w \in Workers, Start(w) PROVE [CO!Next]_(CO!vars)
  BY <1>11, <1>b DEF Start, FlightsBut, Flying, Holds
<1>12. ASSUME NEW w \in Workers, Acquire(w) \/ Release(w) PROVE [CO!Next]_(CO!vars)
  <2>1. /\ UNCHANGED <<pc, key, accepts, entry>>
        /\ \A u \in Tasks : ready'[u] <=> ready[u] \/ worker[w].task = u
    BY <1>12 DEF Acquire, Release, Complete
  <2>2. \A t \in Tasks : worker[w].task = t => Awaited(worker[w])
    BY <1>0 DEF JobsInv, OneJobEach
  <2>3. CASE Release(w)
    <3>1. worker[w].task \in Tasks => pc[worker[w].task] = "releasing"
      BY <2>2, <2>3 DEF Release, Awaited
    <3>2. FlightsBut({})
      BY <2>1, <3>1 DEF FlightsBut, Flying, Holds
    <3> QED
      BY <1>b, <2>1, <3>2
  <2>4. CASE Acquire(w) /\ worker[w].task \notin Tasks
    <3>1. FlightsBut({})
      BY <2>1, <2>4 DEF FlightsBut, Flying, Holds
    <3> QED
      BY <1>b, <2>1, <3>1
  <2>5. ASSUME NEW t \in Tasks, Acquire(w), worker[w].task = t PROVE [CO!Next]_(CO!vars)
    <3>1. pc[t] = "acquiring" /\ ~ready[t] /\ key[t] = worker[w].key
      BY <2>2, <2>5 DEF Acquire, Awaited
    <3>2. FlightsBut({t})
      BY <2>1, <2>5 DEF FlightsBut, Flying, Holds
    <3>3. ~Flying(t) /\ Flying(t)'
      BY <2>1, <2>5, <3>1 DEF Flying, Holds
    <3>4. key[t] \notin lockRow
      BY <2>5, <3>1 DEF Acquire
    <3> QED
      BY <1>c, <2>1, <3>2, <3>3, <3>4
  <2> QED
    BY <1>12, <2>3, <2>4, <2>5
<1>13. CASE Poll \/ Finished \/ UNCHANGED vars
  <2>1. UNCHANGED <<pc, key, accepts, ready, entry>>
    BY <1>13 DEF Poll, Finished, vars
  <2> QED
    BY <1>b, <2>1 DEF FlightsBut, Flying, Holds
<1> QED
  BY <1>1, <1>2, <1>3, <1>4, <1>5, <1>6, <1>7, <1>8, <1>9, <1>10, <1>11, <1>12,
     <1>13 DEF Next, Resume, Work

\* get_or_set_async keeps the promise of get_or_set, tasks being cancelled at
\* any await: one flight per key, which stores at most once and only over an
\* entry its caller could not use.
THEOREM TasksComputeOnce ==
  "clear" \notin Ops /\ "set" \notin Ops => (Spec => ComputesOnce)
<1> SUFFICES ASSUME "clear" \notin Ops, "set" \notin Ops PROVE Spec => ComputesOnce
  OBVIOUS
<1>1. Init => CO!Init
  <2> SUFFICES ASSUME Init PROVE CO!Init
    OBVIOUS
  <2>1. \A t \in Tasks : ~Flying(t)
    BY DEF Init, Flying, Holds
  <2>2. flights = [k \in Keys |-> {}]
    BY <2>1 DEF flights
  <2> QED
    BY <2>2 DEF Init, CO!Init
<1>2. FreshInv /\ [Next]_vars => [CO!Next]_(CO!vars)
  BY StepSimulation
<1> QED
  BY <1>1, <1>2, FreshHolds, PTL DEF Spec, ComputesOnce, CO!Spec
=============================================================================
