------------------------ MODULE ConfigReadersProofs ------------------------
(***************************************************************************)
(* Theorems about the threads that open caches and retry operations while  *)
(* configurations are installed, for every number of threads, snapshots,   *)
(* paths, attempts and contexts.                                           *)
(***************************************************************************)
EXTENDS ConfigReaders, RuntimeConfigProofs, SequenceTheorems, TLAPS

USE DEF GotoOpen, GotoRetry

-----------------------------------------------------------------------------
(* Retry events.                                                            *)

RetryShapes ==
  /\ retryPc \in [Retriers -> Phases]
  /\ DOMAIN state = Retriers /\ state = [t \in Retriers |-> state[t]]
  /\ DOMAIN event = Retriers /\ event = [t \in Retriers |-> event[t]]
  /\ DOMAIN sunk = Retriers /\ sunk = [t \in Retriers |-> sunk[t]]
  /\ DOMAIN context = Retriers /\ context = [t \in Retriers |-> context[t]]
  /\ DOMAIN logged = Retriers /\ logged = [t \in Retriers |-> logged[t]]

\* What the sink has been given tells of the attempt that failed last.
SinkTells(t) == callback.sink => sunk[t] = Numbers(t)

\* The log ends with the attempt before the one that failed last, or its
\* number was overwritten.
Lags(t) ==
  \/ state[t].attempt = 1 /\ logged[t] = NoEvent
  \/ "attempt_number" \in DOMAIN context[t]
  \/ logged[t]["attempt_number"] = state[t].attempt - 1

\* The event in the making, and the one logged, are of that attempt too.
Tells(t) ==
  /\ retryPc[t] # "idle" => callback # Unbuilt
  /\ retryPc[t] = "idle" => state[t] = Fresh /\ logged[t] = NoEvent
  /\ state[t].attempt \in Nat
  /\ retryPc[t] \in {"context", "slept", "unlogged"} => SinkTells(t)
  /\ retryPc[t] = "context" => event[t] = BuildRetryScheduledEvent(t, callback.type)
  /\ retryPc[t] = "slept" =>
       logged[t] = Update(BuildRetryScheduledEvent(t, callback.type), context[t])
  /\ Unlogged(t) => Lags(t)

RetryInv == RetryShapes /\ \A t \in Retriers : Tells(t)

\* What a scheduled event says of an attempt: the numbers of the RetryState,
\* and the error.
LEMMA AttemptNumbers ==
  ASSUME NEW t \in Retriers
  PROVE  /\ "event_type" \notin DOMAIN AttemptFields(t)
         /\ DOMAIN Numbers(t) = DOMAIN AttemptFields(t) \cap NumberFields
         /\ \A f \in DOMAIN Numbers(t) : AttemptFields(t)[f] = Numbers(t)[f]
<1> DEFINE error == IF state[t].error = NoError THEN << >> ELSE ErrorFields(state[t].error)
<1>1. DOMAIN error \subseteq {"error_type", "error_message"}
  <2>1. DOMAIN << >> = {}
    BY EmptySeq, LenProperties
  <2>2. \A x : DOMAIN ErrorFields(x) = {"error_type", "error_message"}
    BY DEF ErrorFields
  <2> QED
    BY <2>1, <2>2
<1>2. DOMAIN Numbers(t) \subseteq NumberFields
  BY DEF Numbers, NumberFields
<1>3. AttemptFields(t) = Update(Numbers(t), error)
  BY DEF AttemptFields
<1> HIDE DEF error
<1>4. /\ DOMAIN AttemptFields(t) = DOMAIN Numbers(t) \cup DOMAIN error
      /\ \A f \in DOMAIN Numbers(t) \ DOMAIN error : AttemptFields(t)[f] = Numbers(t)[f]
  BY <1>3 DEF Update
<1>5. "event_type" \notin DOMAIN AttemptFields(t)
      /\ DOMAIN Numbers(t) \cap DOMAIN error = {}
      /\ DOMAIN Numbers(t) = DOMAIN AttemptFields(t) \cap NumberFields
  BY <1>1, <1>2, <1>4 DEF NumberFields
<1> QED
  BY <1>4, <1>5

\* The event has a type and those fields.
LEMMA ScheduledFields ==
  ASSUME NEW t \in Retriers, NEW type
  PROVE  LET e == BuildRetryScheduledEvent(t, type) IN
         /\ DOMAIN e = {"event_type"} \cup DOMAIN AttemptFields(t)
         /\ e["event_type"] = type
         /\ \A f \in DOMAIN AttemptFields(t) : e[f] = AttemptFields(t)[f]
<1> DEFINE named == [f \in {"event_type"} |-> type]
<1>1. DOMAIN named = {"event_type"} /\ named["event_type"] = type
  OBVIOUS
<1>2. BuildRetryScheduledEvent(t, type) = Update(named, AttemptFields(t))
  BY DEF BuildRetryScheduledEvent
<1> HIDE DEF named
<1>3. LET e == BuildRetryScheduledEvent(t, type) IN
        /\ DOMAIN e = DOMAIN named \cup DOMAIN AttemptFields(t)
        /\ \A f \in DOMAIN AttemptFields(t) : e[f] = AttemptFields(t)[f]
        /\ \A f \in DOMAIN named \ DOMAIN AttemptFields(t) : e[f] = named[f]
  BY <1>2 DEF Update
<1> QED
  BY <1>1, <1>3, AttemptNumbers

\* _build_retry_state_snapshot keeps the numbers and nothing else.
LEMMA SnapshotIsNumbers ==
  ASSUME NEW t \in Retriers, NEW type
  PROVE  StateSnapshot(BuildRetryScheduledEvent(t, type)) = Numbers(t)
<1> DEFINE e == BuildRetryScheduledEvent(t, type)
<1>1. /\ DOMAIN e = {"event_type"} \cup DOMAIN AttemptFields(t)
      /\ \A f \in DOMAIN AttemptFields(t) : e[f] = AttemptFields(t)[f]
  BY ScheduledFields
<1> HIDE DEF e
<1>2. DOMAIN e \cap NumberFields = DOMAIN Numbers(t)
      /\ \A f \in DOMAIN Numbers(t) : e[f] = Numbers(t)[f]
  BY <1>1, AttemptNumbers DEF NumberFields
<1>3. Numbers(t) = [f \in DOMAIN Numbers(t) |-> Numbers(t)[f]]
  BY DEF Numbers
<1>4. StateSnapshot(e) = [f \in DOMAIN Numbers(t) |-> Numbers(t)[f]]
  BY <1>2 DEF StateSnapshot
<1> QED
  BY <1>3, <1>4 DEF e

\* The event and the numbers of a thread are those of its state.
LEMMA TellsSame ==
  ASSUME RetryInv, NEW t \in Retriers, callback' = callback,
         retryPc'[t] = retryPc[t], state'[t] = state[t], event'[t] = event[t],
         sunk'[t] = sunk[t], context'[t] = context[t], logged'[t] = logged[t]
  PROVE  Tells(t)'
<1>1. Numbers(t)' = Numbers(t)
  BY DEF Numbers
<1>2. AttemptFields(t)' = AttemptFields(t)
  BY <1>1 DEF AttemptFields
<1>3. BuildRetryScheduledEvent(t, callback.type)' = BuildRetryScheduledEvent(t, callback.type)
  BY <1>2 DEF BuildRetryScheduledEvent
<1> QED
  BY <1>1, <1>3 DEF RetryInv, Tells, SinkTells, Unlogged, Lags

\* One thread goes on; what is kept of the others stays.
Apart(t) ==
  /\ callback' = callback
  /\ \A u \in Retriers \ {t} :
       /\ retryPc'[u] = retryPc[u] /\ state'[u] = state[u] /\ event'[u] = event[u]
       /\ sunk'[u] = sunk[u] /\ context'[u] = context[u] /\ logged'[u] = logged[u]

LEMMA RetryMoves ==
  ASSUME RetryInv, RetryShapes', NEW t \in Retriers, Apart(t), Tells(t)'
  PROVE  RetryInv'
<1>1. \A u \in Retriers \ {t} : Tells(u)'
  BY TellsSame DEF Apart
<1> QED
  BY <1>1 DEF RetryInv

\* What a thread that has logged a scheduled retry finds in its log.
LEMMA LoggedFields ==
  ASSUME RetryInv, NEW t \in Retriers, retryPc[t] = "slept"
  PROVE  /\ DOMAIN logged[t] = {"event_type"} \cup DOMAIN AttemptFields(t) \cup DOMAIN context[t]
         /\ \A f \in DOMAIN AttemptFields(t) \ DOMAIN context[t] :
              logged[t][f] = AttemptFields(t)[f]
         /\ "event_type" \notin DOMAIN context[t] => logged[t]["event_type"] = callback.type
<1> DEFINE e == BuildRetryScheduledEvent(t, callback.type)
<1>1. logged[t] = Update(e, context[t])
  BY DEF RetryInv, Tells
<1>2. /\ DOMAIN e = {"event_type"} \cup DOMAIN AttemptFields(t)
      /\ e["event_type"] = callback.type
      /\ \A f \in DOMAIN AttemptFields(t) : e[f] = AttemptFields(t)[f]
  BY ScheduledFields
<1> HIDE DEF e
<1>3. /\ DOMAIN logged[t] = DOMAIN e \cup DOMAIN context[t]
      /\ \A f \in DOMAIN e \ DOMAIN context[t] : logged[t][f] = e[f]
  BY <1>1 DEF Update
<1> QED
  BY <1>2, <1>3

\* An operation is done.
LEMMA DoneApart ==
  ASSUME RetryInv, NEW t \in Retriers, Done(t), callback # Unbuilt,
         UNCHANGED <<callback, sunk>>,
         logged' = [u \in Retriers |-> logged'[u]], DOMAIN logged' = Retriers,
         context' = [u \in Retriers |-> context'[u]], DOMAIN context' = Retriers,
         \A u \in Retriers \ {t} : logged'[u] = logged[u] /\ context'[u] = context[u]
  PROVE  RetryInv'
<1>0. RetryShapes
  BY DEF RetryInv
<1>1. RetryShapes' /\ retryPc'[t] = "done" /\ state'[t] = Fresh
  BY <1>0 DEF RetryShapes, Phases, Done, End
<1>2. Apart(t)
  BY <1>0 DEF RetryShapes, Done, End, Apart
<1>3. Tells(t)'
  BY <1>1 DEF Tells, Unlogged, Fresh
<1> QED
  BY <1>1, <1>2, <1>3, RetryMoves

\* A call that the application makes raises, before the sink is through or
\* after it.
LEMMA RaisedApart ==
  ASSUME RetryInv, NEW t \in Retriers, NEW o \in {"raised", "unlogged"}, End(t, o),
         Unlogged(t), callback # Unbuilt,
         UNCHANGED <<callback, state, context, logged>>,
         sunk' = [u \in Retriers |-> sunk'[u]], DOMAIN sunk' = Retriers,
         \A u \in Retriers \ {t} : sunk'[u] = sunk[u],
         o = "unlogged" => sunk' = sunk /\ retryPc[t] = "context"
  PROVE  RetryInv'
<1>0. RetryShapes /\ Tells(t)
  BY DEF RetryInv
<1>1. RetryShapes' /\ retryPc'[t] = o
  BY <1>0 DEF RetryShapes, Phases, End
<1>2. Apart(t)
  BY <1>0 DEF RetryShapes, End, Apart
<1>3. Numbers(t)' = Numbers(t)
  BY DEF Numbers
<1>4. Lags(t)'
  BY <1>0 DEF Tells, Lags
<1>5. o = "unlogged" => SinkTells(t)'
  BY <1>0, <1>3 DEF Tells, SinkTells
<1>6. Tells(t)'
  BY <1>0, <1>1, <1>4, <1>5 DEF Tells
<1> QED
  BY <1>1, <1>2, <1>6, RetryMoves

LEMMA RetryStepKeeps ==
  ASSUME RetryInv, NEW t \in Retriers, RetryStep(t)
  PROVE  RetryInv'
<1>0. RetryShapes /\ Tells(t)
  BY DEF RetryInv
<1>1. CASE Attempt(t)
  <2>1. callback # Unbuilt /\ UNCHANGED <<callback, sunk, context, logged>>
        /\ retryPc[t] \in {"idle", "slept"}
    BY <1>1 DEF Attempt
  <2>2. CASE Done(t)
    BY <1>0, <2>1, <2>2, DoneApart DEF RetryShapes
  <2>3. CASE ~Done(t)
    <3>1. RetryShapes'
      BY <1>0, <1>1, <2>3 DEF Attempt, RetryShapes, Phases
    <3>2. Apart(t)
      BY <1>0, <1>1, <2>3 DEF Attempt, RetryShapes, Apart
    <3>3. retryPc'[t] \in {"before_sleep", "exhausted"}
      BY <1>0, <1>1, <2>3 DEF Attempt, RetryShapes
    <3>4. state'[t].attempt = state[t].attempt + 1 /\ state[t].attempt \in Nat
      BY <1>0, <1>1, <2>3 DEF Attempt, RetryShapes, Tells
    <3>5. Lags(t)'
      <4>1. CASE retryPc[t] = "idle"
        BY <1>0, <2>1, <3>4, <4>1 DEF Tells, Lags, Fresh
      <4>2. CASE retryPc[t] = "slept"
        <5>1. /\ DOMAIN AttemptFields(t) \ DOMAIN context[t] \subseteq DOMAIN logged[t]
              /\ \A f \in DOMAIN AttemptFields(t) \ DOMAIN context[t] :
                   logged[t][f] = AttemptFields(t)[f]
          BY <4>2, LoggedFields
        <5>2. /\ "attempt_number" \in DOMAIN AttemptFields(t)
              /\ AttemptFields(t)["attempt_number"] = state[t].attempt
          <6>1. "attempt_number" \in DOMAIN Numbers(t)
                /\ Numbers(t)["attempt_number"] = state[t].attempt
            BY DEF Numbers
          <6> QED
            BY <6>1, AttemptNumbers
        <5> QED
          BY <2>1, <3>4, <5>1, <5>2 DEF Lags
      <4> QED
        BY <2>1, <4>1, <4>2
    <3>6. Tells(t)'
      BY <2>1, <3>3, <3>4, <3>5 DEF Tells
    <3> QED
      BY <3>1, <3>2, <3>6, RetryMoves
  <2> QED
    BY <2>2, <2>3
<1>2. CASE Schedule(t)
  <2> DEFINE e == BuildRetryScheduledEvent(t, callback.type)
             given == IF callback.sink THEN [sunk EXCEPT ![t] = StateSnapshot(e)] ELSE sunk
  <2>1. /\ callback # Unbuilt /\ UNCHANGED <<callback, state, context, logged>>
        /\ retryPc[t] = "before_sleep"
    BY <1>0, <1>2 DEF Schedule, Tells
  <2>2. CASE End(t, "raised") /\ sunk' \in {sunk, given}
    <3>1. /\ sunk' = [u \in Retriers |-> sunk'[u]] /\ DOMAIN sunk' = Retriers
          /\ \A u \in Retriers \ {t} : sunk'[u] = sunk[u]
      BY <1>0, <2>2 DEF RetryShapes
    <3> QED
      BY <2>1, <2>2, <3>1, RaisedApart DEF Unlogged
  <2>3. CASE /\ event' = [event EXCEPT ![t] = e] /\ sunk' = given
             /\ retryPc' = [retryPc EXCEPT ![t] = "context"]
    <3> HIDE DEF e
    <3>2. RetryShapes' /\ Apart(t)
      BY <1>0, <2>1, <2>3 DEF RetryShapes, Phases, Apart
    <3>3. Numbers(t)' = Numbers(t)
      BY <2>1 DEF Numbers
    <3>4. e' = e
      BY <2>1, <3>3 DEF e, BuildRetryScheduledEvent, AttemptFields
    <3>5. /\ retryPc'[t] = "context" /\ event'[t] = e
          /\ callback.sink => sunk'[t] = Numbers(t)
      BY <1>0, <2>3, SnapshotIsNumbers DEF RetryShapes, e
    <3>6. Lags(t)' /\ state'[t].attempt \in Nat
      BY <1>0, <2>1 DEF Tells, Unlogged, Lags
    <3>7. Tells(t)'
      BY <2>1, <3>3, <3>4, <3>5, <3>6 DEF Tells, SinkTells, e
    <3> QED
      BY <3>2, <3>7, RetryMoves
  <2> QED
    BY <1>2, <2>2, <2>3 DEF Schedule, CallbackType
<1>3. CASE ContextRaises(t)
  <2>1. /\ callback # Unbuilt /\ UNCHANGED <<callback, state, sunk, context, logged>>
        /\ End(t, "unlogged") /\ retryPc[t] = "context"
    BY <1>0, <1>3 DEF ContextRaises, Tells
  <2> QED
    BY <1>0, <2>1, RaisedApart DEF RetryShapes, Unlogged
<1>4. ASSUME NEW fields \in Contexts, AddContext(t, fields) PROVE RetryInv'
  <2>1. /\ retryPc[t] = "context"
        /\ event' = [event EXCEPT ![t] = Update(event[t], fields)]
        /\ context' = [context EXCEPT ![t] = fields]
        /\ logged' = [logged EXCEPT ![t] = Update(event[t], fields)]
        /\ retryPc' = [retryPc EXCEPT ![t] = "slept"]
        /\ UNCHANGED <<callback, state, sunk>>
    BY <1>4 DEF AddContext
  <2>2. RetryShapes' /\ Apart(t)
    BY <1>0, <2>1 DEF RetryShapes, Phases, Apart
  <2>3. Numbers(t)' = Numbers(t)
    BY <2>1 DEF Numbers
  <2>4. BuildRetryScheduledEvent(t, callback.type)' = BuildRetryScheduledEvent(t, callback.type)
    BY <2>1, <2>3 DEF BuildRetryScheduledEvent, AttemptFields
  <2>5. retryPc'[t] = "slept" /\ context'[t] = fields /\ logged'[t] = Update(event[t], fields)
    BY <1>0, <2>1 DEF RetryShapes
  <2>6. Tells(t)'
    BY <1>0, <2>1, <2>3, <2>4, <2>5 DEF Tells, SinkTells, Unlogged
  <2> QED
    BY <2>2, <2>6, RetryMoves
<1>5. ASSUME NEW fields \in Contexts, NEW s \in Sources, NEW e \in Errors,
             LogRetryExhausted(t, s, e, fields)
      PROVE  RetryInv'
  <2>1. callback # Unbuilt /\ UNCHANGED <<callback, sunk>> /\ retryPc[t] = "exhausted"
    BY <1>0, <1>5 DEF LogRetryExhausted, Tells
  <2>2. CASE Done(t)
    <3>1. /\ logged' = [u \in Retriers |-> logged'[u]] /\ DOMAIN logged' = Retriers
          /\ context' = [u \in Retriers |-> context'[u]] /\ DOMAIN context' = Retriers
          /\ \A u \in Retriers \ {t} : logged'[u] = logged[u] /\ context'[u] = context[u]
      BY <1>0, <1>5 DEF LogRetryExhausted, RetryShapes
    <3> QED
      BY <2>1, <2>2, <3>1, DoneApart
  <2>3. CASE End(t, "raised") /\ UNCHANGED <<state, context, logged>>
    BY <1>0, <2>1, <2>3, RaisedApart DEF RetryShapes, Unlogged
  <2> QED
    BY <1>5, <2>2, <2>3 DEF LogRetryExhausted
<1> QED
  BY <1>1, <1>2, <1>3, <1>4, <1>5 DEF RetryStep

LEMMA RetryInvStep == RetryInv /\ [Next]_vars => RetryInv'
<1> SUFFICES ASSUME RetryInv, [Next]_vars PROVE RetryInv'
  OBVIOUS
<1>1. CASE UNCHANGED retryVars
  <2>1. RetryShapes'
    BY <1>1 DEF retryVars, RetryInv, RetryShapes
  <2> QED
    BY <1>1, <2>1, TellsSame DEF retryVars, RetryInv
<1>2. ASSUME NEW s \in Sources, NEW sink \in BOOLEAN, Build(s, sink) PROVE RetryInv'
  <2>1. \A t \in Retriers : retryPc'[t] = "idle"
    BY <1>2 DEF Build, RetryInv, Tells
  <2> QED
    BY <1>2, <2>1 DEF Build, RetryInv, RetryShapes, Tells, Unlogged
<1>3. ASSUME NEW t \in Retriers, RetryStep(t) PROVE RetryInv'
  BY <1>3, RetryStepKeeps
<1> QED
  BY <1>1, <1>2, <1>3 DEF Next, InstallConfig, Reader, Retrier, vars

LEMMA RetryInvHolds == Spec => []RetryInv
<1>1. Init => RetryInv
  BY DEF Init, RetryInit, RetryInv, RetryShapes, Phases, Tells, Unlogged, Fresh
<1> QED
  BY <1>1, RetryInvStep, PTL DEF Spec

\* A scheduled event tells of its own attempt and its own context, whatever
\* the attempts before it and the other threads logged; a callback that raises
\* leaves the log at the attempt before.
THEOREM EventsAreOwn == Spec => []LogsOwnAttempt
<1>1. RetryInv => LogsOwnAttempt
  BY LoggedFields DEF LogsOwnAttempt, RetryInv, Tells, Lags
<1> QED
  BY <1>1, RetryInvHolds, PTL

\* The state sink's snapshot is no alias of the event: the context that is
\* merged into the event afterwards leaves the numbers it was given alone, and
\* so does a getter or a log that raises.
THEOREM SnapshotsStay == Spec => []SinkKeepsNumbers
<1>1. ASSUME RetryInv PROVE SinkKeepsNumbers
  <2>1. ASSUME NEW t \in Retriers, callback.sink, retryPc[t] \in {"context", "slept", "unlogged"}
        PROVE  sunk[t] = Numbers(t)
    BY <1>1, <2>1 DEF RetryInv, Tells, SinkTells
  <2>2. ASSUME NEW t \in Retriers, callback.sink, retryPc[t] = "slept",
               NEW f \in NumberFields \ DOMAIN context[t]
        PROVE  /\ f \in DOMAIN logged[t] <=> f \in DOMAIN sunk[t]
               /\ f \in DOMAIN sunk[t] => logged[t][f] = sunk[t][f]
    <3>1. /\ DOMAIN Numbers(t) = DOMAIN AttemptFields(t) \cap NumberFields
          /\ \A g \in DOMAIN Numbers(t) : AttemptFields(t)[g] = Numbers(t)[g]
      BY AttemptNumbers
    <3>2. /\ DOMAIN logged[t] = {"event_type"} \cup DOMAIN AttemptFields(t) \cup DOMAIN context[t]
          /\ \A g \in DOMAIN AttemptFields(t) \ DOMAIN context[t] :
               logged[t][g] = AttemptFields(t)[g]
      BY <1>1, <2>2, LoggedFields
    <3>3. "event_type" \notin NumberFields
      BY DEF NumberFields
    <3> QED
      BY <2>1, <2>2, <3>1, <3>2, <3>3
  <2> QED
    BY <2>1, <2>2 DEF SinkKeepsNumbers
<1> QED
  BY <1>1, RetryInvHolds, PTL

\* A callback resolves its event type once: what it logs later has that type,
\* whatever is installed in between.
THEOREM CallbacksKeepTheirType == Spec => []OneTypePerCallback
<1>1. RetryInv => OneTypePerCallback
  BY LoggedFields DEF OneTypePerCallback
<1> QED
  BY <1>1, RetryInvHolds, PTL

-----------------------------------------------------------------------------
(* Opening caches.                                                          *)

Asked == [dir : Explicit \cup {NoPath}, namespace : Path, size : Int \cup {NoSize}]

OpeningShapes ==
  /\ openPc \in [Openers -> {"idle", "resolve", "construct", "make", "open", "raised", "no directory"}]
  /\ asked \in [Openers -> Asked]
  /\ dir \in [Openers -> Path \cup {NoPath}]
  /\ DOMAIN limit = Openers /\ limit = [t \in Openers |-> limit[t]]
  /\ DOMAIN during = Openers /\ during = [t \in Openers |-> during[t]]

\* The directory t has resolved is the one it asked for, or lies below a root
\* that a snapshot of the time of its call named.
Rooted(t) ==
  \/ dir[t] = asked[t].dir /\ asked[t].dir \in Explicit
  \/ \E c \in during[t] :
       /\ Environ[c.env] \in Path /\ dir[t] \in Path /\ ~BadNamespace(asked[t].namespace)
       /\ dir[t] = Join(Environ[c.env], asked[t].namespace)
       /\ Below(dir[t], Environ[c.env])

Sized(t) == limit[t] = asked[t].size \/ \E c \in during[t] : limit[t] = c.size

Opens(t) ==
  /\ openPc[t] = "idle" => during[t] = {}
  /\ Opening(t) => installed \in during[t]
  /\ openPc[t] \in {"construct", "make", "open"} => Rooted(t)
  /\ openPc[t] \in {"make", "open"} => Sized(t)

OpeningInv ==
  /\ OpeningShapes /\ installed.env \in Texts
  /\ MadeBelowRoots
  /\ \A t \in Openers : Opens(t)

\* A namespace that is taken leads below its root.
LEMMA Joined ==
  ASSUME NEW root \in Path, NEW namespace \in Path, ~BadNamespace(namespace)
  PROVE  Join(root, namespace) \in Path /\ Below(Join(root, namespace), root)
<1> DEFINE r == root.parts
           p == namespace.parts
           q == r \o p
<1>1. r \in Seq(STRING) /\ p \in Seq(STRING) /\ ~namespace.absolute
  BY DEF Path, BadNamespace
<1>2. /\ q \in Seq(STRING) /\ Len(q) = Len(r) + Len(p)
      /\ Len(r) \in Nat /\ Len(p) \in Nat
      /\ DOMAIN r = 1..Len(r) /\ DOMAIN p = 1..Len(p) /\ DOMAIN q = 1..Len(q)
      /\ \A i \in 1..(Len(r) + Len(p)) : q[i] = IF i <= Len(r) THEN r[i] ELSE p[i - Len(r)]
  BY <1>1, ConcatProperties, LenProperties
<1>3. Join(root, namespace) = [root EXCEPT !.parts = q]
  BY <1>1 DEF Join
<1> HIDE DEF q
<1>4. /\ Join(root, namespace) \in Path
      /\ Join(root, namespace).parts = q /\ Join(root, namespace).absolute = root.absolute
  BY <1>2, <1>3 DEF Path
<1> HIDE DEF r, p
<1>5. SubSeq(q, 1, Len(r)) = r
  <2>1. \A i \in 1..Len(r) : q[i] \in STRING
    BY <1>2, ElementOfSeq
  <2>2. /\ SubSeq(q, 1, Len(r)) \in Seq(STRING) /\ Len(SubSeq(q, 1, Len(r))) = Len(r)
        /\ \A i \in 1..Len(r) : SubSeq(q, 1, Len(r))[i] = q[i]
    BY <1>2, <2>1, SubSeqProperties
  <2>3. \A i \in 1..Len(r) : SubSeq(q, 1, Len(r))[i] = r[i]
    BY <1>2, <2>2
  <2> QED
    BY <1>1, <2>2, <2>3, SeqEqual
<1>6. \A i \in (Len(r) + 1)..Len(q) : q[i] # ".."
  <2> SUFFICES ASSUME NEW i \in (Len(r) + 1)..Len(q) PROVE q[i] # ".."
    OBVIOUS
  <2>1. q[i] = p[i - Len(r)] /\ i - Len(r) \in DOMAIN p
    BY <1>2
  <2> QED
    BY <2>1 DEF BadNamespace, Names, p
<1> QED
  BY <1>2, <1>4, <1>5, <1>6 DEF Below, r

\* What mkdir makes on the way to a path leads to it, and if the path is below
\* a root it leads there or is below it too.
LEMMA WayLeads ==
  ASSUME NEW path \in Path, NEW n \in 0..Len(path.parts), NEW d \in OnTheWay(path, n)
  PROVE  /\ d \in Path /\ LeadsTo(d, path)
         /\ \A root \in Path : Below(path, root) => LeadsTo(d, root) \/ Below(d, root)
<1> DEFINE p == path.parts
<1>1. p \in Seq(STRING) /\ Len(p) \in Nat /\ DOMAIN p = 1..Len(p)
      /\ \A k \in 1..Len(p) : p[k] \in STRING
  BY LenProperties, ElementOfSeq DEF Path
<1>2. PICK i \in 1..n : d = [path EXCEPT !.parts = SubSeq(p, 1, i)]
  BY DEF OnTheWay
<1> DEFINE q == SubSeq(p, 1, i)
<1>3. i \in 1..Len(p)
  BY <1>1, <1>2
<1> HIDE DEF p
<1>4. /\ q \in Seq(STRING) /\ Len(q) = i /\ DOMAIN q = 1..i
      /\ \A k \in 1..i : q[k] = p[k]
  <2>1. \A k \in 1..i : p[k] \in STRING
    BY <1>1, <1>3
  <2> QED
    BY <1>1, <1>3, <2>1, SubSeqProperties
<1> HIDE DEF q
<1>5. d \in Path /\ d.parts = q /\ d.absolute = path.absolute
  BY <1>2, <1>4 DEF Path, q
<1>6. SubSeq(q, 1, i) = q /\ SubSeq(p, 1, i) = q
  BY <1>3, <1>4, SubSeqFull DEF q
<1>7. LeadsTo(d, path)
  BY <1>1, <1>3, <1>4, <1>5, <1>6 DEF LeadsTo, IsPrefix, p
<1>8. ASSUME NEW root \in Path, Below(path, root)
      PROVE  LeadsTo(d, root) \/ Below(d, root)
  <2> DEFINE r == root.parts
  <2>1. r \in Seq(STRING) /\ Len(r) \in Nat /\ DOMAIN r = 1..Len(r)
    BY LenProperties DEF Path
  <2>2. /\ path.absolute = root.absolute /\ Len(p) >= Len(r) /\ SubSeq(p, 1, Len(r)) = r
        /\ \A k \in (Len(r) + 1)..Len(p) : p[k] # ".."
    BY <1>8 DEF Below, p
  <2> HIDE DEF r
  <2>3. \A k \in 1..Len(r) : r[k] = p[k]
    <3>1. \A k \in 1..Len(r) : p[k] \in STRING
      BY <1>1, <2>1, <2>2
    <3>2. \A k \in 1..Len(r) : SubSeq(p, 1, Len(r))[k] = p[k]
      BY <1>1, <2>1, <3>1, SubSeqProperties
    <3> QED
      BY <2>2, <3>2
  <2>4. CASE i <= Len(r)
    <3>1. \A k \in 1..i : r[k] \in STRING
      BY <2>1, <2>4, <1>3, ElementOfSeq
    <3>2. /\ SubSeq(r, 1, i) \in Seq(STRING) /\ Len(SubSeq(r, 1, i)) = i
          /\ \A k \in 1..i : SubSeq(r, 1, i)[k] = r[k]
      BY <1>3, <2>1, <3>1, SubSeqProperties
    <3>3. \A k \in 1..i : SubSeq(r, 1, i)[k] = q[k]
      BY <1>3, <1>4, <2>1, <2>3, <2>4, <3>2
    <3>4. SubSeq(r, 1, i) = q
      BY <1>4, <3>2, <3>3, SeqEqual
    <3> QED
      BY <1>4, <1>5, <1>6, <2>2, <2>4, <3>4 DEF LeadsTo, IsPrefix, r
  <2>5. CASE ~(i <= Len(r))
    <3>1. \A k \in 1..Len(r) : q[k] \in STRING
      BY <1>3, <1>4, <2>1, <2>5, ElementOfSeq
    <3>2. /\ SubSeq(q, 1, Len(r)) \in Seq(STRING) /\ Len(SubSeq(q, 1, Len(r))) = Len(r)
          /\ \A k \in 1..Len(r) : SubSeq(q, 1, Len(r))[k] = q[k]
      BY <2>1, <3>1, SubSeqProperties
    <3>3. \A k \in 1..Len(r) : SubSeq(q, 1, Len(r))[k] = r[k]
      BY <1>3, <1>4, <2>1, <2>3, <2>5, <3>2
    <3>4. SubSeq(q, 1, Len(r)) = r
      BY <2>1, <3>2, <3>3, SeqEqual
    <3>5. \A k \in (Len(r) + 1)..i : q[k] # ".."
      BY <1>1, <1>3, <1>4, <2>1, <2>2
    <3> QED
      BY <1>3, <1>4, <1>5, <2>1, <2>2, <2>5, <3>4, <3>5 DEF Below, r
  <2> QED
    BY <2>4, <2>5
<1> QED
  BY <1>5, <1>7, <1>8

\* What is configured later takes nothing back from a call.
LEMMA CallsStay ==
  ASSUME NEW t \in Openers, asked'[t] = asked[t], dir'[t] = dir[t], limit'[t] = limit[t],
         during[t] \subseteq during'[t]
  PROVE  (Rooted(t) => Rooted(t)') /\ (Sized(t) => Sized(t)')
BY DEF Rooted, Sized

LEMMA MadeStays ==
  ASSUME MadeBelowRoots, made' = made, \A t \in Openers : during[t] \subseteq during'[t]
  PROVE  MadeBelowRoots'
BY DEF MadeBelowRoots

\* A thread goes on with its call.
LEMMA OpenStepKeeps ==
  ASSUME OpeningInv, NEW t \in Openers, OpenStep(t), UNCHANGED installed
  PROVE  OpeningInv'
<1>0. /\ OpeningShapes /\ installed.env \in Texts /\ MadeBelowRoots
      /\ \A u \in Openers : Opens(u)
      /\ UNCHANGED <<asked, during>>
  BY DEF OpeningInv, OpenStep, Resolve, Construct, Make
<1>1. installed \in during[t]
  BY <1>0 DEF Opens, Opening, OpenStep, Resolve, Construct, Make
\* It is enough to look at t and at the directories.
<1>a. ASSUME OpeningShapes', MadeBelowRoots',
             \A u \in Openers \ {t} : openPc'[u] = openPc[u] /\ dir'[u] = dir[u] /\ limit'[u] = limit[u],
             openPc'[t] # "idle",
             openPc'[t] \in {"construct", "make", "open"} => Rooted(t)',
             openPc'[t] \in {"make", "open"} => Sized(t)'
      PROVE  OpeningInv'
  <2>1. ASSUME NEW u \in Openers \ {t} PROVE Opens(u)'
    <3>1. (Rooted(u) => Rooted(u)') /\ (Sized(u) => Sized(u)')
      BY <1>0, <1>a, CallsStay
    <3> QED
      BY <1>0, <1>a, <3>1 DEF Opens, Opening
  <2>2. Opens(t)'
    BY <1>0, <1>1, <1>a DEF Opens
  <2> QED
    BY <1>0, <1>a, <2>1, <2>2 DEF OpeningInv
<1>2. CASE Resolve(t)
  <2> DEFINE root == Environ[installed.env]
  <2>1. MadeBelowRoots'
    BY <1>0, <1>2, MadeStays DEF Resolve
  <2>2. limit' = limit /\ asked[t] \in Asked
    BY <1>0, <1>2 DEF Resolve, OpeningShapes
  <2>3. CASE asked[t].dir # NoPath /\ dir' = [dir EXCEPT ![t] = asked[t].dir] /\ GotoOpen(t, "construct")
    <3>1. asked[t].dir \in Explicit /\ asked[t].dir \in Path
      BY <2>2, <2>3, OpeningAssumption DEF Asked
    <3>2. OpeningShapes'
      BY <1>0, <2>2, <2>3, <3>1 DEF OpeningShapes
    <3>3. Rooted(t)'
      BY <1>0, <2>3, <3>1 DEF Rooted, OpeningShapes
    <3> QED
      BY <1>0, <1>a, <2>1, <2>2, <2>3, <3>2, <3>3 DEF OpeningShapes
  <2>4. CASE dir' = dir /\ (GotoOpen(t, "no directory") \/ GotoOpen(t, "raised"))
    <3>1. OpeningShapes'
      BY <1>0, <2>2, <2>4 DEF OpeningShapes
    <3> QED
      BY <1>0, <1>a, <2>1, <2>2, <2>4, <3>1 DEF OpeningShapes
  <2>5. CASE /\ root # NoPath /\ ~BadNamespace(asked[t].namespace)
             /\ dir' = [dir EXCEPT ![t] = Join(root, asked[t].namespace)]
             /\ GotoOpen(t, "construct")
    <3>1. root \in Path /\ asked[t].namespace \in Path
      BY <1>0, <2>2, <2>5, OpeningAssumption DEF Asked
    <3>2. /\ Join(root, asked[t].namespace) \in Path
          /\ Below(Join(root, asked[t].namespace), root)
      BY <2>5, <3>1, Joined
    <3>3. OpeningShapes'
      BY <1>0, <2>2, <2>5, <3>2 DEF OpeningShapes
    <3>4. dir'[t] = Join(root, asked[t].namespace)
      BY <1>0, <2>5 DEF OpeningShapes
    <3>5. Rooted(t)'
      BY <1>0, <1>1, <2>5, <3>1, <3>2, <3>4 DEF Rooted
    <3> QED
      BY <1>0, <1>a, <2>1, <2>2, <2>5, <3>3, <3>5 DEF OpeningShapes
  <2> QED
    BY <1>2, <2>3, <2>4, <2>5 DEF Resolve
<1>3. CASE Construct(t)
  <2>1. /\ UNCHANGED <<dir, made>>
        /\ \/ GotoOpen(t, "raised") /\ UNCHANGED limit
           \/ /\ limit' = [limit EXCEPT ![t] = ResolvedSize(asked[t].size)]
              /\ GotoOpen(t, "make")
    BY <1>3 DEF Construct
  <2>2. OpeningShapes' /\ MadeBelowRoots'
    BY <1>0, <2>1, MadeStays DEF OpeningShapes
  <2>3. Rooted(t)'
    BY <1>0, <1>3, <2>1 DEF Construct, Opens, Rooted
  <2>4. openPc'[t] = "make" => Sized(t)'
    BY <1>0, <1>1, <2>1 DEF Sized, ResolvedSize, OpeningShapes
  <2> QED
    BY <1>0, <1>a, <2>1, <2>2, <2>3, <2>4 DEF OpeningShapes
<1>4. CASE Make(t)
  <2>1. /\ UNCHANGED <<dir, limit>>
        /\ \E n \in 0..Len(dir[t].parts) : made' = made \cup OnTheWay(dir[t], n)
        /\ GotoOpen(t, "open") \/ GotoOpen(t, "raised")
    BY <1>4 DEF Make
  <2>2. Rooted(t) /\ Rooted(t)'
    BY <1>0, <1>4, <2>1 DEF Make, Opens, Rooted
  <2>3. Sized(t)'
    BY <1>0, <1>4, <2>1 DEF Make, Opens, Sized
  <2>4. OpeningShapes'
    BY <1>0, <2>1 DEF OpeningShapes
  <2>5. MadeBelowRoots'
    <3>1. PICK n \in 0..Len(dir[t].parts) : made' = made \cup OnTheWay(dir[t], n)
      BY <2>1
    <3>2. CASE dir[t] = asked[t].dir /\ asked[t].dir \in Explicit
      <4>1. \A d \in OnTheWay(dir[t], n) : LeadsTo(d, asked[t].dir)
        BY <3>2, WayLeads, OpeningAssumption
      <4> QED
        BY <1>0, <3>1, <3>2, <4>1 DEF MadeBelowRoots
    <3>3. ASSUME NEW c \in during[t], Environ[c.env] \in Path, dir[t] \in Path,
                 Below(dir[t], Environ[c.env])
          PROVE  MadeBelowRoots'
      <4>1. \A d \in OnTheWay(dir[t], n) :
              LeadsTo(d, Environ[c.env]) \/ Below(d, Environ[c.env])
        BY <3>3, WayLeads
      <4>2. Environ[c.env] # NoPath
        BY <3>3, OpeningAssumption
      <4> QED
        BY <1>0, <3>1, <4>1, <4>2 DEF MadeBelowRoots
    <3> QED
      BY <2>2, <3>2, <3>3 DEF Rooted
  <2> QED
    BY <1>0, <1>a, <2>1, <2>2, <2>3, <2>4, <2>5 DEF OpeningShapes
<1> QED
  BY <1>2, <1>3, <1>4 DEF OpenStep

LEMMA OpeningStep == OpeningInv /\ [Next]_vars => OpeningInv'
<1> SUFFICES ASSUME OpeningInv, [Next]_vars PROVE OpeningInv'
  OBVIOUS
<1>0. /\ OpeningShapes /\ installed.env \in Texts /\ MadeBelowRoots
      /\ \A u \in Openers : Opens(u)
  BY DEF OpeningInv
<1>1. ASSUME NEW c \in Candidates, Install(c), Notice, UNCHANGED <<openPc, asked, dir, limit, made>>
      PROVE  OpeningInv'
  <2>1. \A t \in Openers :
          during'[t] = IF Opening(t) THEN during[t] \cup {installed'} ELSE during[t]
    BY <1>1 DEF Notice
  <2>2. installed'.env \in Texts
    <3>1. c \in Snapshot
      BY ConfigAssumption
    <3>2. installed'.env = Strip[c.env]
      BY <1>1, <3>1 DEF Install, Normalize, Snapshot
    <3> QED
      BY <3>1, <3>2, ConfigAssumption DEF Snapshot
  <2>3. OpeningShapes'
    BY <1>0, <1>1 DEF OpeningShapes, Notice
  <2>4. MadeBelowRoots'
    BY <1>0, <1>1, <2>1, MadeStays
  <2>5. ASSUME NEW t \in Openers PROVE Opens(t)'
    <3>1. (Rooted(t) => Rooted(t)') /\ (Sized(t) => Sized(t)')
      BY <1>1, <2>1, CallsStay
    <3> QED
      BY <1>0, <1>1, <2>1, <3>1 DEF Opens, Opening
  <2> QED
    BY <2>2, <2>3, <2>4, <2>5 DEF OpeningInv
<1>2. ASSUME NEW t \in Openers, BeginOpen(t), UNCHANGED installed PROVE OpeningInv'
  <2>1. PICK a \in Asked : /\ openPc[t] = "idle" /\ asked' = [asked EXCEPT ![t] = a]
                           /\ during' = [during EXCEPT ![t] = {installed}]
                           /\ openPc' = [openPc EXCEPT ![t] = "resolve"]
                           /\ UNCHANGED <<dir, limit, made>>
    BY <1>2, OpeningAssumption DEF BeginOpen, Open, Asked
  <2>2. OpeningShapes'
    BY <1>0, <2>1 DEF OpeningShapes
  <2>3. during[t] = {}
    BY <1>0, <2>1 DEF Opens
  <2>4. MadeBelowRoots'
    BY <1>0, <2>1, <2>3, MadeStays DEF OpeningShapes
  <2>5. Opens(t)'
    BY <1>0, <1>2, <2>1 DEF Opens, OpeningShapes
  <2>6. ASSUME NEW u \in Openers \ {t} PROVE Opens(u)'
    <3>1. /\ openPc'[u] = openPc[u] /\ asked'[u] = asked[u] /\ during'[u] = during[u]
          /\ dir'[u] = dir[u] /\ limit'[u] = limit[u]
      BY <1>0, <2>1 DEF OpeningShapes
    <3>2. (Rooted(u) => Rooted(u)') /\ (Sized(u) => Sized(u)')
      BY <3>1, CallsStay
    <3> QED
      BY <1>0, <1>2, <3>1, <3>2 DEF Opens, Opening
  <2> QED
    BY <1>0, <1>2, <2>2, <2>4, <2>5, <2>6 DEF OpeningInv
<1>3. ASSUME NEW t \in Openers, OpenStep(t), UNCHANGED installed PROVE OpeningInv'
  BY <1>3, OpenStepKeeps
<1>4. CASE UNCHANGED <<installed, openVars>>
  BY <1>0, <1>4 DEF openVars, OpeningInv, OpeningShapes, MadeBelowRoots, Opens, Opening, Rooted, Sized
<1> QED
  BY <1>1, <1>2, <1>3, <1>4 DEF Next, InstallConfig, Refuse, Reader, Retrier, vars, openVars

LEMMA OpeningHolds == Spec => []OpeningInv
<1>1. Init => OpeningInv
  <2> SUFFICES ASSUME Init PROVE OpeningInv
    OBVIOUS
  <2>1. Nothing \in Asked
    BY EmptySeq DEF Nothing, Asked, Path
  <2>2. OpeningShapes
    BY <2>1 DEF Init, OpeningInit, OpeningShapes
  <2>3. installed.env \in Texts
    BY ConfigAssumption DEF Init, ConfigInit, Snapshot
  <2> QED
    BY <2>2, <2>3 DEF Init, OpeningInit, OpeningInv, MadeBelowRoots, Opens, Opening
<1> QED
  BY <1>1, OpeningStep, PTL DEF Spec

\* No namespace leads a cache out of the roots that configurations declare.
THEOREM CachesStayBelowRoots == Spec => []MadeBelowRoots
<1>1. OpeningInv => MadeBelowRoots
  BY DEF OpeningInv
<1> QED
  BY <1>1, OpeningHolds, PTL

\* A cache opens where and as large as it was asked to, or as a snapshot that
\* was installed while the call ran says.
THEOREM CachesAreOfTheirTime == Spec => []OpensOfItsTime
<1>1. OpeningInv => OpensOfItsTime
  BY OpeningAssumption DEF OpeningInv, OpensOfItsTime, Opens, Rooted, Sized
<1> QED
  BY <1>1, OpeningHolds, PTL

-----------------------------------------------------------------------------
(* Types.                                                                   *)

\* The calls that open caches, beyond their shapes.
OpenersTyped ==
  /\ \A t \in Openers :
       /\ limit[t] \in Nat \cup {NoSize}
       /\ \A c \in during[t] : c \in Snapshot /\ Valid(c)
  /\ made \subseteq Path

\* The attempts of an operation are counted; there is one more to come while
\* it is not over.
Counted(t) ==
  /\ state[t].attempt \in 0..MaxAttempts
  /\ retryPc[t] \in {"idle", "before_sleep", "context", "slept"} => state[t].attempt < MaxAttempts
  /\ state[t].error \in Errors \cup {NoError}
  /\ DOMAIN sunk[t] \subseteq NumberFields
  /\ context[t] \in Contexts \cup {NoEvent}
  /\ DOMAIN event[t] \subseteq Fields /\ DOMAIN logged[t] \subseteq Fields

CallbackTyped ==
  callback \in [source : Sources \cup {"none"}, type : Texts \cup {Given, Project["scheduled"]},
                sink : BOOLEAN]

TypesInv ==
  /\ ConfigOK /\ installs \in 0..MaxInstalls
  /\ OpenersTyped /\ CallbackTyped
  /\ \A t \in Retriers : Counted(t)

\* What is installed is a valid snapshot.
LEMMA InstalledIsValid ==
  ASSUME ConfigOK
  PROVE  installed \in Snapshot /\ Valid(installed)
BY DEF ConfigOK, Valid

\* A step of a call that opens a cache.
LEMMA OpenersTypedStep ==
  ASSUME OpeningInv, ConfigOK, OpenersTyped, NEW t \in Openers, BeginOpen(t) \/ OpenStep(t)
  PROVE  OpenersTyped'
<1>0. OpeningShapes
  BY DEF OpeningInv
<1>1. CASE BeginOpen(t)
  <2>1. /\ UNCHANGED <<limit, made>>
        /\ during' = [during EXCEPT ![t] = {installed}]
    BY <1>1 DEF BeginOpen, Open
  <2>2. \A u \in Openers : during'[u] = during[u] \/ during'[u] = {installed}
    BY <1>0, <2>1 DEF OpeningShapes
  <2> QED
    BY <2>1, <2>2, InstalledIsValid DEF OpenersTyped
<1>2. CASE Resolve(t)
  BY <1>2 DEF Resolve, OpenersTyped
<1>3. CASE Construct(t)
  <2>1. asked[t].size \in Int \cup {NoSize} /\ installed.size \in Int
    BY <1>0, InstalledIsValid DEF OpeningShapes, Asked, Snapshot
  <2>2. PositiveNumber(ResolvedSize(asked[t].size)) => ResolvedSize(asked[t].size) \in Nat
    BY <2>1, OpeningAssumption, InstalledIsValid DEF PositiveNumber, ResolvedSize, Valid
  <2>3. \A u \in Openers : limit'[u] = limit[u] \/ limit'[u] \in Nat
    BY <1>0, <1>3, <2>2 DEF Construct, OpeningShapes
  <2> QED
    BY <1>3, <2>3 DEF Construct, OpenersTyped
<1>4. CASE Make(t)
  <2>1. Rooted(t)
    BY <1>4 DEF Make, OpeningInv, Opens
  <2>2. dir[t] \in Path
    BY <2>1, OpeningAssumption DEF Rooted
  <2>3. \A n \in 0..Len(dir[t].parts) : OnTheWay(dir[t], n) \subseteq Path
    BY <2>2, WayLeads
  <2> QED
    BY <1>4, <2>3 DEF Make, OpenersTyped
<1> QED
  BY <1>1, <1>2, <1>3, <1>4 DEF OpenStep

\* A step of an operation that is retried; the count of another's stays.
LEMMA CountedEnd ==
  ASSUME RetryShapes, NEW t \in Retriers, Counted(t),
         NEW o \in {"done", "raised", "unlogged"}, End(t, o),
         state' = state \/ Done(t),
         DOMAIN sunk'[t] \subseteq NumberFields,
         context'[t] \in Contexts \cup {NoEvent}, DOMAIN logged'[t] \subseteq Fields
  PROVE  Counted(t)'
<1>1. /\ state'[t] \in {state[t], Fresh} /\ event'[t] = NoEvent /\ retryPc'[t] = o
  BY DEF Done, End, RetryShapes
<1>2. DOMAIN NoEvent = {}
  BY EmptySeq, LenProperties DEF NoEvent
<1> QED
  BY <1>1, <1>2, RetryAssumption DEF Counted, Fresh

\* Both bring their fields to an update.
LEMMA UpdateNames ==
  ASSUME NEW e, NEW fields
  PROVE  DOMAIN Update(e, fields) = DOMAIN e \cup DOMAIN fields
BY DEF Update

\* The names of an event's fields.
LEMMA EventNames ==
  /\ \A e, fields : DOMAIN Update(e, fields) = DOMAIN e \cup DOMAIN fields
  /\ \A t \in Retriers : \A type : DOMAIN BuildRetryScheduledEvent(t, type) \subseteq EventFields
  /\ \A e : DOMAIN ErrorFields(e) \subseteq EventFields
  /\ \A fields \in Contexts : DOMAIN fields \subseteq Fields
<1>1. \A e, fields : DOMAIN Update(e, fields) = DOMAIN e \cup DOMAIN fields
  BY DEF Update
<1>2. \A e : DOMAIN ErrorFields(e) = {"error_type", "error_message"}
  BY DEF ErrorFields
<1>3. \A t \in Retriers : DOMAIN Numbers(t) \subseteq NumberFields
  BY DEF Numbers, NumberFields
<1>4. DOMAIN << >> = {}
  BY EmptySeq, LenProperties
<1>5. ASSUME NEW t \in Retriers, NEW type
      PROVE  DOMAIN BuildRetryScheduledEvent(t, type) \subseteq EventFields
  <2>1. DOMAIN AttemptFields(t) \subseteq EventFields
    <3> DEFINE error == IF state[t].error = NoError THEN << >> ELSE ErrorFields(state[t].error)
    <3>1. DOMAIN error \subseteq {"error_type", "error_message"}
      BY <1>2, <1>4
    <3>2. AttemptFields(t) = Update(Numbers(t), error)
      BY DEF AttemptFields
    <3> HIDE DEF error
    <3>3. DOMAIN AttemptFields(t) = DOMAIN Numbers(t) \cup DOMAIN error
      BY <1>1, <3>2
    <3> QED
      BY <1>3, <3>1, <3>3 DEF EventFields
  <2> QED
    BY <2>1, ScheduledFields DEF EventFields
<1> QED
  BY <1>1, <1>2, <1>5 DEF EventFields, Fields

LEMMA CountedStep ==
  ASSUME RetryInv, NEW t \in Retriers, Counted(t), RetryStep(t)
  PROVE  Counted(t)'
<1>0. RetryShapes
  BY DEF RetryInv
<1>1. CASE Attempt(t)
  <2>1. CASE Done(t)
    <3>1. UNCHANGED <<sunk, context, logged>>
      BY <1>1 DEF Attempt
    <3> QED
      BY <1>0, <2>1, <3>1, CountedEnd DEF Done, Counted
  <2>2. CASE ~Done(t)
    <3>1. PICK e \in Errors \cup {NoError} :
            state' = [state EXCEPT ![t] = [attempt |-> state[t].attempt + 1, error |-> e]]
      BY <1>1, <2>2 DEF Attempt
    <3>2. /\ retryPc' = [retryPc EXCEPT ![t] = IF state[t].attempt + 1 < MaxAttempts
                                                THEN "before_sleep" ELSE "exhausted"]
          /\ UNCHANGED <<event, sunk, context, logged>> /\ retryPc[t] \in {"idle", "slept"}
      BY <1>1, <2>2 DEF Attempt
    <3>3. state'[t] = [attempt |-> state[t].attempt + 1, error |-> e]
      BY <1>0, <3>1 DEF RetryShapes
    <3> QED
      BY <1>0, <3>2, <3>3, RetryAssumption DEF RetryShapes, Counted
  <2> QED
    BY <2>1, <2>2
<1>2. CASE Schedule(t)
  <2> DEFINE e == BuildRetryScheduledEvent(t, CallbackType)
             given == IF callback.sink THEN [sunk EXCEPT ![t] = StateSnapshot(e)] ELSE sunk
  <2>1. DOMAIN StateSnapshot(e) \subseteq NumberFields /\ DOMAIN e \subseteq Fields
    BY EventNames DEF StateSnapshot, Fields
  <2>2. UNCHANGED <<state, context, logged>> /\ retryPc[t] = "before_sleep"
    BY <1>2 DEF Schedule
  <2>3. sunk' \in {sunk, given}
    BY <1>2 DEF Schedule
  <2>4. \/ End(t, "raised")
        \/ event' = [event EXCEPT ![t] = e] /\ retryPc' = [retryPc EXCEPT ![t] = "context"]
    BY <1>2 DEF Schedule
  <2> HIDE DEF e
  <2>5. DOMAIN sunk'[t] \subseteq NumberFields
    BY <1>0, <2>1, <2>3 DEF RetryShapes, Counted
  <2>6. CASE End(t, "raised")
    BY <1>0, <2>2, <2>5, <2>6, CountedEnd DEF Counted
  <2>7. CASE event' = [event EXCEPT ![t] = e] /\ retryPc' = [retryPc EXCEPT ![t] = "context"]
    BY <1>0, <2>1, <2>2, <2>5, <2>7 DEF RetryShapes, Counted
  <2> QED
    BY <2>4, <2>6, <2>7
<1>3. ASSUME NEW fields \in Contexts, AddContext(t, fields) PROVE Counted(t)'
  <2>1. DOMAIN Update(event[t], fields) \subseteq Fields
    BY EventNames DEF Counted
  <2> QED
    BY <1>0, <1>3, <2>1 DEF AddContext, RetryShapes, Counted
<1>4. CASE ContextRaises(t)
  BY <1>0, <1>4, CountedEnd DEF ContextRaises, Counted
<1>5. ASSUME NEW fields \in Contexts, NEW s \in Sources, NEW x \in Errors,
             LogRetryExhausted(t, s, x, fields)
      PROVE  Counted(t)'
  <2> DEFINE named == [f \in {"event_type"} |-> Resolved(s, "exhausted")]
             e == Update(Update(named, ErrorFields(x)), fields)
  <2>1. DOMAIN e \subseteq Fields
    <3>1. DOMAIN named \subseteq EventFields
      BY DEF EventFields
    <3> HIDE DEF named
    <3>2. DOMAIN ErrorFields(x) \subseteq EventFields /\ DOMAIN fields \subseteq Fields
      BY EventNames
    <3>3. DOMAIN Update(named, ErrorFields(x)) = DOMAIN named \cup DOMAIN ErrorFields(x)
      BY ONLY UpdateNames
    <3>4. DOMAIN e = DOMAIN Update(named, ErrorFields(x)) \cup DOMAIN fields
      BY ONLY UpdateNames
    <3> HIDE DEF e
    <3> QED
      BY <3>1, <3>2, <3>3, <3>4 DEF Fields
  <2>2. CASE /\ logged' = [logged EXCEPT ![t] = e]
             /\ context' = [context EXCEPT ![t] = fields] /\ Done(t) /\ sunk' = sunk
    <3> HIDE DEF e
    <3>1. logged'[t] = e /\ context'[t] = fields
      BY <1>0, <2>2 DEF RetryShapes
    <3> QED
      BY <1>0, <2>1, <2>2, <3>1, CountedEnd DEF Done, Counted
  <2>3. CASE End(t, "raised") /\ UNCHANGED <<state, sunk, context, logged>>
    BY <1>0, <2>3, CountedEnd DEF Counted
  <2> QED
    BY <1>5, <2>2, <2>3 DEF LogRetryExhausted
<1> QED
  BY <1>1, <1>2, <1>3, <1>4, <1>5 DEF RetryStep

\* A thread's step leaves what is kept of the others.
LEMMA OthersStay ==
  ASSUME RetryInv, NEW t \in Retriers, RetryStep(t)
  PROVE  Apart(t)
<1>0. RetryShapes
  BY DEF RetryInv
<1>1. CASE Attempt(t)
  BY <1>0, <1>1 DEF Attempt, Done, End, RetryShapes, Apart
<1>2. CASE Schedule(t)
  BY <1>0, <1>2 DEF Schedule, End, RetryShapes, Apart
<1>3. CASE ContextRaises(t)
  BY <1>0, <1>3 DEF ContextRaises, End, RetryShapes, Apart
<1>4. ASSUME NEW fields \in Contexts, AddContext(t, fields) PROVE Apart(t)
  BY <1>0, <1>4 DEF AddContext, RetryShapes, Apart
<1>5. ASSUME NEW fields \in Contexts, NEW s \in Sources, NEW e \in Errors,
             LogRetryExhausted(t, s, e, fields)
      PROVE  Apart(t)
  BY <1>0, <1>5 DEF LogRetryExhausted, Done, End, RetryShapes, Apart
<1> QED
  BY <1>1, <1>2, <1>3, <1>4, <1>5 DEF RetryStep

\* Every step keeps the types.
LEMMA TypesStep ==
  ASSUME OpeningInv, RetryInv, RetryInv', TypesInv, [Next]_vars
  PROVE  TypesInv'
<1>1. ConfigOK' /\ installs' \in 0..MaxInstalls
  <2>1. ConfigOK'
    BY ConfigOKStep DEF TypesInv, Next, InstallConfig, Reader, Retrier, vars
  <2>2. CASE installs' = installs
    BY <2>1, <2>2 DEF TypesInv
  <2>3. CASE installs < MaxInstalls /\ installs' = installs + 1
    BY <2>1, <2>3, ReadersAssumption DEF TypesInv
  <2>4. installs' = installs \/ (installs < MaxInstalls /\ installs' = installs + 1)
    BY DEF Next, InstallConfig, Reader, Retrier, vars
  <2> QED
    BY <2>1, <2>2, <2>3, <2>4
<1>2. OpenersTyped'
  <2>1. ASSUME NEW t \in Openers, BeginOpen(t) \/ OpenStep(t) PROVE OpenersTyped'
    BY <2>1, OpenersTypedStep DEF TypesInv
  <2>2. CASE UNCHANGED <<limit, made>> /\ Notice
    <3>1. \A t \in Openers : during'[t] = during[t] \/ during'[t] = during[t] \cup {installed'}
      BY <2>2 DEF Notice
    <3>2. installed' \in Snapshot /\ Valid(installed')
      BY <1>1 DEF ConfigOK, Valid, NamesIn
    <3> QED
      BY <2>2, <3>1, <3>2 DEF TypesInv, OpenersTyped
  <2>3. CASE UNCHANGED openVars
    BY <2>3 DEF openVars, TypesInv, OpenersTyped
  <2> QED
    BY <2>1, <2>2, <2>3 DEF Next, InstallConfig, Reader, Retrier, vars
<1>3. CallbackTyped' /\ \A t \in Retriers : Counted(t)'
  <2>1. CASE UNCHANGED retryVars
    BY <2>1 DEF retryVars, TypesInv, CallbackTyped, Counted
  <2>2. ASSUME NEW s \in Sources, NEW sink \in BOOLEAN, Build(s, sink)
        PROVE  CallbackTyped' /\ \A t \in Retriers : Counted(t)'
    <3>1. installed.scheduled \in Texts
      BY InstalledIsValid DEF TypesInv, Snapshot
    <3>2. Resolved(s, "scheduled") \in Texts \cup {Given, Project["scheduled"]}
      BY <3>1 DEF Resolved, Sources
    <3> QED
      BY <2>2, <3>2 DEF Build, TypesInv, CallbackTyped, Counted
  <2>3. ASSUME NEW t \in Retriers, RetryStep(t)
        PROVE  CallbackTyped' /\ \A u \in Retriers : Counted(u)'
    <3>1. callback' = callback
      BY <2>3 DEF RetryStep, Attempt, Schedule, AddContext, ContextRaises, LogRetryExhausted
    <3>2. Counted(t)'
      BY <2>3, CountedStep DEF TypesInv
    <3>3. \A u \in Retriers \ {t} :
            /\ retryPc'[u] = retryPc[u] /\ state'[u] = state[u] /\ event'[u] = event[u]
            /\ sunk'[u] = sunk[u] /\ context'[u] = context[u] /\ logged'[u] = logged[u]
      BY <2>3, OthersStay DEF Apart
    <3> QED
      BY <3>1, <3>2, <3>3 DEF TypesInv, CallbackTyped, Counted
  <2> QED
    BY <2>1, <2>2, <2>3 DEF Next, InstallConfig, Reader, Retrier, vars
<1> QED
  BY <1>1, <1>2, <1>3 DEF TypesInv

LEMMA ReadersTypesHold == Spec => []TypesInv
<1>1. Init => TypesInv
  <2> SUFFICES ASSUME Init PROVE TypesInv
    OBVIOUS
  <2>1. ConfigOK /\ 0 \in 0..MaxInstalls
    BY ConfigOKInit, ReadersAssumption DEF Init
  <2>2. OpenersTyped
    BY DEF Init, OpeningInit, OpenersTyped
  <2>3. CallbackTyped
    BY ConfigAssumption DEF Init, RetryInit, CallbackTyped, Unbuilt
  <2>4. \A t \in Retriers : Counted(t)
    <3>1. DOMAIN NoEvent = {}
      BY EmptySeq, LenProperties DEF NoEvent
    <3> QED
      BY <3>1, RetryAssumption DEF Init, RetryInit, Counted, Fresh
  <2> QED
    BY <2>1, <2>2, <2>3, <2>4 DEF Init, TypesInv
<1>2. OpeningInv /\ RetryInv /\ RetryInv' /\ TypesInv /\ [Next]_vars => TypesInv'
  BY TypesStep
<1> QED
  BY <1>1, <1>2, OpeningHolds, RetryInvHolds, PTL DEF Spec

\* Every variable of the readers keeps its type, and what is installed or seen
\* of it is valid, for any number of configurations, threads and attempts.
THEOREM ReadersTypes == Spec => []TypeOK
<1>1. OpeningInv /\ RetryInv /\ TypesInv => TypeOK
  BY OpeningAssumption DEF TypesInv, OpeningInv, OpeningShapes, Asked, RetryInv, RetryShapes,
     OpenersTyped, CallbackTyped, Counted, TypeOK, OpeningTypes, RetryTypes
<1> QED
  BY <1>1, OpeningHolds, RetryInvHolds, ReadersTypesHold, PTL

-----------------------------------------------------------------------------
(* Previews.                                                                *)

\* f lists the lengths of the first words, up to n of them.
Lengths(words, n, f) ==
  f = [k \in 0..n |-> IF k = 0 THEN 0
                      ELSE f[k - 1] + words[k].size + (IF k = 1 THEN 0 ELSE words[k].gap)]

\* There is such a list, and its last entry is WordsLength.
LEMMA LengthsExist ==
  ASSUME NEW words, NEW n \in Nat
  PROVE  \E f : Lengths(words, n, f)
<1> DEFINE S == {k \in Nat : \E f : Lengths(words, k, f)}
<1>1. 0 \in S
  <2>1. Lengths(words, 0, [k \in 0..0 |-> 0])
    BY DEF Lengths
  <2> QED
    BY <2>1
<1>2. ASSUME NEW m \in S PROVE m + 1 \in S
  <2>1. PICK f : Lengths(words, m, f)
    OBVIOUS
  <2> DEFINE next(g, k) == IF k = 0 THEN 0
                           ELSE g[k - 1] + words[k].size
                                + (IF k = 1 THEN 0 ELSE words[k].gap)
             h == [k \in 0..m+1 |-> IF k <= m THEN f[k] ELSE next(f, k)]
  <2>2. \A k \in 0..m : h[k] = f[k] /\ f[k] = next(f, k)
    BY <2>1 DEF Lengths
  <2>3. \A k \in 0..m+1 : k # 0 => k - 1 \in 0..m
    OBVIOUS
  <2>4. \A k \in 0..m+1 : next(h, k) = next(f, k)
    BY <2>2, <2>3
  <2>5. h = [k \in 0..m+1 |-> next(h, k)]
    BY <2>2, <2>4
  <2>6. Lengths(words, m + 1, h)
    BY <2>5 DEF Lengths
  <2> QED
    BY <2>6
<1> HIDE DEF S
<1>3. S = Nat
  BY <1>1, <1>2, Induction DEF S
<1> QED
  BY <1>3 DEF S

LEMMA LastLength ==
  ASSUME NEW words, NEW n \in Nat
  PROVE  \E f : Lengths(words, n, f) /\ WordsLength(words, n) = f[n]
<1> DEFINE f == CHOOSE g : Lengths(words, n, g)
<1>1. Lengths(words, n, f)
  BY LengthsExist
<1>2. WordsLength(words, n) = f[n]
  BY DEF WordsLength, Lengths
<1> QED
  BY <1>1, <1>2

\* The lengths depend on the words that are counted and on no others, and each
\* word adds one at least.
LEMMA LengthsAgree ==
  ASSUME NEW w, NEW v, NEW n \in Nat, NEW m \in Nat, n <= m,
         NEW f, NEW g, Lengths(w, n, f), Lengths(v, m, g),
         \A i \in 1..n : w[i] = v[i] /\ w[i] \in Piece
  PROVE  f[n] = g[n] /\ f[n] \in Nat /\ f[n] >= n
<1> DEFINE Good(k) == f[k] = g[k] /\ f[k] \in Nat /\ f[k] >= k
           S == {k \in Nat : k <= n => Good(k)}
<1>1. /\ \A k \in 0..n : f[k] = IF k = 0 THEN 0
                               ELSE f[k - 1] + w[k].size + (IF k = 1 THEN 0 ELSE w[k].gap)
      /\ \A k \in 0..m : g[k] = IF k = 0 THEN 0
                               ELSE g[k - 1] + v[k].size + (IF k = 1 THEN 0 ELSE v[k].gap)
  BY DEF Lengths
<1>2. 0 \in S
  BY <1>1
<1>3. ASSUME NEW k \in S PROVE k + 1 \in S
  <2> SUFFICES ASSUME k + 1 <= n PROVE Good(k + 1)
    OBVIOUS
  <2>1. Good(k) /\ k \in Nat
    OBVIOUS
  <2>2. k + 1 \in 0..n /\ k + 1 \in 0..m /\ k + 1 # 0 /\ (k + 1) - 1 = k /\ k + 1 \in 1..n
    BY <2>1
  <2>3. /\ f[k + 1] = f[k] + w[k + 1].size + (IF k + 1 = 1 THEN 0 ELSE w[k + 1].gap)
        /\ g[k + 1] = g[k] + v[k + 1].size + (IF k + 1 = 1 THEN 0 ELSE v[k + 1].gap)
        /\ w[k + 1] = v[k + 1] /\ w[k + 1] \in Piece
    BY <1>1, <2>2
  <2>4. w[k + 1].size \in Nat \ {0} /\ w[k + 1].gap \in {0, 1}
    BY <2>3 DEF Piece
  <2> QED
    BY <2>1, <2>3, <2>4
<1> HIDE DEF S
<1>4. S = Nat
  BY <1>2, <1>3, Induction DEF S
<1> QED
  BY <1>4 DEF S

\* So the length of words is a number, at least that of the words, and the
\* same for any text that begins with them.
LEMMA LengthOfWords ==
  ASSUME NEW w, NEW v, NEW n \in Nat,
         \A i \in 1..n : w[i] = v[i] /\ w[i] \in Piece
  PROVE  /\ WordsLength(w, n) = WordsLength(v, n)
         /\ WordsLength(w, n) \in Nat /\ WordsLength(w, n) >= n
<1>1. PICK f : Lengths(w, n, f) /\ WordsLength(w, n) = f[n]
  BY LastLength
<1>2. PICK g : Lengths(v, n, g) /\ WordsLength(v, n) = g[n]
  BY LastLength
<1>3. n <= n
  OBVIOUS
<1>4. f[n] = g[n] /\ f[n] \in Nat /\ f[n] >= n
  BY <1>1, <1>2, <1>3, LengthsAgree, SMTT(30)
<1> QED
  BY <1>1, <1>2, <1>4

\* Every set of numbers up to a bound has a largest one, and Max finds it.
LEMMA LargestNumber ==
  ASSUME NEW n \in Nat, NEW S \in SUBSET (0..n), S # {}
  PROVE  Max(S) \in S /\ \A k \in S : k <= Max(S)
<1> DEFINE R == {n - k : k \in S}
<1>1. R \in SUBSET Nat /\ R # {}
  <2>1. \A k \in S : n - k \in Nat
    OBVIOUS
  <2>2. R \in SUBSET Nat
    BY <2>1
  <2>3. PICK k \in S : TRUE
    OBVIOUS
  <2>4. n - k \in R
    BY <2>3
  <2> QED
    BY <2>2, <2>4
<1>2. PICK m \in R : \A k \in R : m <= k
  <2> HIDE DEF R
  <2> QED
    BY <1>1, LeastNumber
<1>3. PICK x \in S : m = n - x
  BY <1>2
<1>4. \A k \in S : x >= k
  BY <1>2, <1>3
<1>5. \E y \in S : \A k \in S : y >= k
  BY <1>4
<1>6. Max(S) \in S /\ \A k \in S : Max(S) >= k
  BY <1>5 DEF Max
<1> QED
  BY <1>6

\* Dots and widths.
LEMMA DotsFit ==
  ASSUME NEW width \in Nat \ {0}
  PROVE  Dots(width) \in 1..width /\ NormalizeWidth(width) = width
<1>1. Dots(width) = IF width < 3 THEN width ELSE 3
  <2>1. \E x \in {3, width} : \A y \in {3, width} : x <= y
    OBVIOUS
  <2>2. /\ Dots(width) \in {3, width} /\ \A y \in {3, width} : Dots(width) <= y
    BY <2>1 DEF Dots, Min
  <2> QED
    BY <2>2
<1>2. NormalizeWidth(width) = width
  <2>1. \E x \in {1, width} : \A y \in {1, width} : x >= y
    OBVIOUS
  <2>2. /\ NormalizeWidth(width) \in {1, width} /\ \A y \in {1, width} : NormalizeWidth(width) >= y
    BY <2>1 DEF NormalizeWidth, Max
  <2> QED
    BY <2>2
<1> QED
  BY <1>1, <1>2

\* What shortening a text gives: it fits the width and is not empty, it begins
\* as the text does, and one more word would not have fitted.
LEMMA ShortenedFits ==
  ASSUME NEW words \in Seq(Piece), words # << >>, NEW width \in Nat \ {0},
         NEW p, p = Shorten(words, width)
  PROVE  /\ PreviewLength(p) \in 1..width
         /\ IsPrefix(p.words, words)
         /\ p.dots = 0 <=> p.words = words
         /\ p.dots > 0 =>
              WordsLength(words, Len(p.words) + 1) + Dots(width) > width
<1> DEFINE n == Len(words)
<1>1. /\ n \in Nat \ {0} /\ DOMAIN words = 1..n
      /\ \A i \in 1..n : words[i] \in Piece
  BY EmptySeq, LenProperties
<1>2. Dots(width) \in 1..width
  BY DotsFit
<1>3. \A k \in 0..n : WordsLength(words, k) \in Nat /\ WordsLength(words, k) >= k
  <2> TAKE k \in 0..n
  <2>1. k \in Nat /\ \A i \in 1..k : words[i] = words[i] /\ words[i] \in Piece
    BY <1>1
  <2> QED
    BY <2>1, LengthOfWords
<1>4. CASE WordsLength(words, n) <= width
  <2>1. p = [words |-> words, dots |-> 0]
    BY <1>4 DEF Shorten, Preview
  <2>2. PreviewLength(p) = WordsLength(words, n)
    <3>1. WordsLength(words, n) + 0 = WordsLength(words, n)
      BY <1>1, <1>3
    <3> QED
      BY <2>1, <3>1 DEF PreviewLength
  <2>3. PreviewLength(p) \in 1..width
    BY <1>1, <1>3, <1>4, <2>2
  <2>4. IsPrefix(p.words, words)
    BY <1>1, <2>1 DEF IsPrefix
  <2> QED
    BY <2>1, <2>3, <2>4
<1>5. CASE ~(WordsLength(words, n) <= width)
  <2> DEFINE S == {k \in 0..n : k = 0 \/ WordsLength(words, k) + Dots(width) <= width}
             m == KeptWords(words, width)
             q == SubSeq(words, 1, m)
  <2>1. m \in S /\ \A k \in S : k <= m
    <3>1. S \in SUBSET (0..n) /\ 0 \in S
      BY <1>1
    <3>2. m = Max(S)
      BY DEF KeptWords
    <3> HIDE DEF S, m
    <3>3. Max(S) \in S /\ \A k \in S : k <= Max(S)
      BY <1>1, <3>1, LargestNumber
    <3> QED
      BY <3>2, <3>3
  <2> HIDE DEF m
  <2>2. m \in 0..n /\ m < n
    <3>1. m \in 0..n /\ (m = 0 \/ WordsLength(words, m) + Dots(width) <= width)
      BY <2>1
    <3> HIDE DEF S
    <3>2. WordsLength(words, n) \in Nat
      BY <1>1, <1>3
    <3>3. ASSUME m = n PROVE FALSE
      <4>1. WordsLength(words, n) + Dots(width) <= width
        BY <1>1, <3>1, <3>3
      <4> QED
        BY <1>2, <1>5, <3>2, <4>1
    <3> HIDE DEF n
    <3> QED
      BY <1>1, <3>1, <3>3
  <2>3. /\ q \in Seq(Piece) /\ Len(q) = m /\ DOMAIN q = 1..m
        /\ \A i \in 1..m : q[i] = words[i]
    <3>1. 1 \in Int /\ m \in Int /\ \A i \in 1..m : words[i] \in Piece
      BY <1>1, <2>2
    <3>2. /\ q \in Seq(Piece) /\ Len(q) = IF 1 <= m THEN m - 1 + 1 ELSE 0
          /\ \A i \in 1..(m - 1 + 1) : q[i] = words[1 + i - 1]
      BY <3>1, SubSeqProperties
    <3> HIDE DEF q
    <3>3. Len(q) = m
      BY <2>2, <3>2
    <3>4. \A i \in 1..m : q[i] = words[i]
      BY <2>2, <3>2
    <3> QED
      BY <3>2, <3>3, <3>4
  <2>4. p = [words |-> q, dots |-> Dots(width)]
    BY <1>5 DEF Shorten, Preview, m
  <2> HIDE DEF q
  <2>5. WordsLength(q, m) = WordsLength(words, m)
    <3>1. m \in Nat /\ \A i \in 1..m : q[i] = words[i] /\ q[i] \in Piece
      BY <1>1, <2>2, <2>3
    <3> QED
      BY <3>1, LengthOfWords
  <2>6. PreviewLength(p) = WordsLength(words, m) + Dots(width)
    BY <2>3, <2>4, <2>5 DEF PreviewLength
  <2>7. m = 0 => WordsLength(words, m) = 0
    <3>1. PICK f : Lengths(words, 0, f) /\ WordsLength(words, 0) = f[0]
      BY LastLength
    <3>2. f[0] = 0
      BY <3>1 DEF Lengths
    <3> QED
      BY <3>1, <3>2
  <2>8. PreviewLength(p) \in 1..width
    <3>1. WordsLength(words, m) + Dots(width) <= width
      BY <1>2, <2>1, <2>7
    <3> QED
      BY <1>2, <1>3, <2>2, <2>6, <3>1
  <2>9. IsPrefix(p.words, words)
    <3>1. SubSeq(q, 1, m) = q
      BY <2>3, SubSeqFull
    <3> QED
      BY <1>1, <2>2, <2>3, <2>4, <3>1 DEF IsPrefix, q
  <2>10. q # words
    BY <1>1, <2>2, <2>3
  <2>11. WordsLength(words, m + 1) + Dots(width) > width
    <3>1. m + 1 \in 0..n /\ m + 1 \notin S
      BY <1>1, <2>1, <2>2
    <3> QED
      BY <1>2, <1>3, <2>2, <3>1
  <2> QED
    BY <1>2, <2>3, <2>4, <2>8, <2>9, <2>10, <2>11
<1> QED
  BY <1>4, <1>5

\* A message is the exception's own, or else the name of its type.
LEMMA MessageFits ==
  ASSUME NEW e \in Errors, NEW p, p = PreviewExceptionMessage(e, MaxChars)
  PROVE  /\ PreviewLength(p) \in 1..MaxChars
         /\ \E words \in {e.message, e.type, Empty} :
              /\ IsPrefix(p.words, words)
              /\ p.dots = 0 <=> p.words = words
              /\ p.dots > 0 =>
                   WordsLength(words, Len(p.words) + 1) + Dots(MaxChars) > MaxChars
<1> DEFINE words == IF e.message = << >> THEN e.type ELSE e.message
<1>1. /\ words \in Seq(Piece) /\ words # << >> /\ MaxChars \in Nat \ {0}
      /\ words \in {e.message, e.type, Empty}
  BY RetryAssumption
<1>2. p = Shorten(words, MaxChars)
  BY <1>1, DotsFit DEF PreviewExceptionMessage, PreviewText
<1> HIDE DEF words
<1> QED
  BY <1>1, <1>2, ShortenedFits

\* A message in a thread's log that its context did not bring is the preview
\* of an exception.
Previewed(fields) ==
  \E e \in Errors : fields["error_message"] = PreviewExceptionMessage(e, MaxChars)

MessagesInv ==
  \A t \in Retriers :
    "error_message" \in DOMAIN logged[t] \ DOMAIN context[t] => Previewed(logged[t])

\* What updating leaves of a field that the update does not bring.
LEMMA UpdateKeeps ==
  ASSUME NEW e, NEW fields, NEW f \in DOMAIN Update(e, fields) \ DOMAIN fields
  PROVE  f \in DOMAIN e /\ Update(e, fields)[f] = e[f]
BY DEF Update

\* The message of an attempt that failed.
LEMMA AttemptMessage ==
  ASSUME NEW t \in Retriers, Counted(t), "error_message" \in DOMAIN AttemptFields(t)
  PROVE  Previewed(AttemptFields(t))
<1> DEFINE error == IF state[t].error = NoError THEN << >> ELSE ErrorFields(state[t].error)
<1>1. AttemptFields(t) = Update(Numbers(t), error)
  BY DEF AttemptFields
<1>2. "error_message" \notin DOMAIN Numbers(t)
  BY DEF Numbers
<1> HIDE DEF error
<1>3. "error_message" \in DOMAIN error
  BY <1>1, <1>2, UpdateKeeps
<1>4. AttemptFields(t)["error_message"] = error["error_message"]
  BY <1>1, <1>3 DEF Update
<1>5. state[t].error \in Errors /\ error = ErrorFields(state[t].error)
  <2>1. DOMAIN << >> = {}
    BY EmptySeq, LenProperties
  <2> QED
    BY <1>3, <2>1 DEF Counted, error
<1>6. error["error_message"] = PreviewExceptionMessage(state[t].error, MaxChars)
  BY <1>5 DEF ErrorFields
<1> QED
  BY <1>4, <1>5, <1>6 DEF Previewed

\* Every step of an operation keeps it.
LEMMA MessagesStep ==
  ASSUME RetryInv, TypesInv, MessagesInv, [Next]_vars
  PROVE  MessagesInv'
<1>1. CASE UNCHANGED <<context, logged>>
  BY <1>1 DEF MessagesInv, Previewed
<1>2. ASSUME NEW t \in Retriers, NEW e, NEW fields,
             logged' = [logged EXCEPT ![t] = Update(e, fields)],
             context' = [context EXCEPT ![t] = fields],
             "error_message" \in DOMAIN e => Previewed(e)
      PROVE  MessagesInv'
  <2>1. /\ logged'[t] = Update(e, fields) /\ context'[t] = fields
        /\ \A u \in Retriers \ {t} : logged'[u] = logged[u] /\ context'[u] = context[u]
    BY <1>2 DEF RetryInv, RetryShapes
  <2>2. ASSUME NEW x, x = Update(e, fields), "error_message" \in DOMAIN x \ DOMAIN fields
        PROVE  Previewed(x)
    BY <1>2, <2>2, UpdateKeeps DEF Previewed
  <2>3. "error_message" \in DOMAIN logged'[t] \ DOMAIN context'[t] => Previewed(logged'[t])
    BY <2>1, <2>2
  <2>4. ASSUME NEW u \in Retriers \ {t}
        PROVE  "error_message" \in DOMAIN logged'[u] \ DOMAIN context'[u] => Previewed(logged'[u])
    BY <2>1 DEF MessagesInv, Previewed
  <2> QED
    BY <2>3, <2>4 DEF MessagesInv, Previewed
<1>3. ASSUME NEW t \in Retriers, NEW fields \in Contexts, AddContext(t, fields)
      PROVE  MessagesInv'
  <2>1. event[t] = BuildRetryScheduledEvent(t, callback.type)
    BY <1>3 DEF AddContext, RetryInv, Tells
  <2>2. /\ DOMAIN event[t] = {"event_type"} \cup DOMAIN AttemptFields(t)
        /\ \A f \in DOMAIN AttemptFields(t) : event[t][f] = AttemptFields(t)[f]
    BY <2>1, ScheduledFields
  <2>3. "error_message" \in DOMAIN event[t] => Previewed(event[t])
    BY <2>2, AttemptMessage DEF Previewed, TypesInv
  <2> QED
    BY <1>2, <1>3, <2>3 DEF AddContext
<1>4. ASSUME NEW t \in Retriers, NEW fields \in Contexts, NEW s \in Sources, NEW e \in Errors,
             LogRetryExhausted(t, s, e, fields)
      PROVE  MessagesInv'
  <2> DEFINE named == [f \in {"event_type"} |-> Resolved(s, "exhausted")]
             x == Update(named, ErrorFields(e))
  <2>1. x["error_message"] = PreviewExceptionMessage(e, MaxChars)
    BY DEF Update, ErrorFields
  <2>2. \/ UNCHANGED <<context, logged>>
        \/ /\ logged' = [logged EXCEPT ![t] = Update(x, fields)]
           /\ context' = [context EXCEPT ![t] = fields]
    BY <1>4 DEF LogRetryExhausted
  <2> HIDE DEF x
  <2>3. Previewed(x)
    BY <2>1 DEF Previewed
  <2> QED
    BY <1>1, <1>2, <2>2, <2>3
<1> QED
  BY <1>1, <1>3, <1>4 DEF Next, InstallConfig, Reader, Retrier, RetryStep, Build, Attempt,
     Schedule, ContextRaises, vars, retryVars

\* A message that is logged, of whatever exception, is not empty, fits its
\* width and, if it was cut, is as long as whole words allow.
THEOREM MessagesFit == Spec => []MessagesBounded
<1>1. Init => MessagesInv
  <2>1. DOMAIN NoEvent = {}
    BY EmptySeq, LenProperties DEF NoEvent
  <2> QED
    BY <2>1 DEF Init, RetryInit, MessagesInv
<1>2. RetryInv /\ TypesInv /\ MessagesInv /\ [Next]_vars => MessagesInv'
  BY MessagesStep
<1>3. MessagesInv => MessagesBounded
  <2> SUFFICES ASSUME MessagesInv, NEW t \in Retriers,
                      "error_message" \in DOMAIN logged[t] \ DOMAIN context[t]
               PROVE  LET message == logged[t]["error_message"] IN
                        /\ PreviewLength(message) \in 1..MaxChars
                        /\ \E e \in Errors : \E words \in {e.message, e.type, Empty} :
                             /\ IsPrefix(message.words, words)
                             /\ message.dots = 0 <=> message.words = words
                             /\ message.dots > 0 =>
                                  WordsLength(words, Len(message.words) + 1) + Dots(MaxChars) > MaxChars
    BY DEF MessagesBounded
  <2>1. PICK e \in Errors : logged[t]["error_message"] = PreviewExceptionMessage(e, MaxChars)
    BY DEF MessagesInv, Previewed
  <2> DEFINE message == logged[t]["error_message"]
  <2> HIDE DEF message
  <2>2. message = PreviewExceptionMessage(e, MaxChars)
    BY <2>1 DEF message
  <2>3. /\ PreviewLength(message) \in 1..MaxChars
        /\ \E words \in {e.message, e.type, Empty} :
             /\ IsPrefix(message.words, words)
             /\ message.dots = 0 <=> message.words = words
             /\ message.dots > 0 =>
                  WordsLength(words, Len(message.words) + 1) + Dots(MaxChars) > MaxChars
    BY <2>2, MessageFits
  <2> QED
    BY <2>3 DEF message
<1> QED
  BY <1>1, <1>2, <1>3, ReadersTypesHold, RetryInvHolds, PTL DEF Spec
=============================================================================
