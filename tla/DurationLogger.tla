--------------------------- MODULE DurationLogger ---------------------------
(***************************************************************************)
(* One OperationDurationLogger (src/py_lib_runtime/_internal/logging/      *)
(* service.py) shared by the threads of a process, as a context manager    *)
(* and as a decorator, its uses nested in one another.  As a context       *)
(* manager it has one slot for the time it was entered; a decorated call   *)
(* keeps its own.  A body may end with an exception: both ways of use      *)
(* report it like any other end.  The report itself may raise: logger.log  *)
(* refuses fields of the caller's that take a name of its arguments, such  *)
(* as event and duration_ms, and a processor may raise.  The tasks of an   *)
(* event loop are threads that take fewer turns.                           *)
(***************************************************************************)
EXTENDS Integers, Sequences

CONSTANTS
  Threads,
  Nothing,      \* None, or no event
  MaxTime,      \* bound: the clock, in milliseconds
  MaxDepth,     \* bound: uses nested in one another
  MaxUses       \* bound: uses by one thread

ASSUME BoundsAssumption ==
  MaxTime \in Nat /\ MaxDepth \in Nat /\ MaxUses \in Nat

VARIABLES
  log,      \* the ways logger.log may end for this object and its fields
  clock,    \* time.perf_counter
  start,    \* self._start
  open,     \* open[t]: the uses thread t is in, the innermost last
  pc,       \* "body", or the point in __enter__ or __exit__ of the innermost use
  event,    \* what the innermost use has reported, or Nothing
  report,   \* report[t]: how the use that thread t has just left went
  uses

vars == <<log, clock, start, open, pc, event, report, uses>>

Times == 0..MaxTime
Points == {"body", "enter", "emit", "reset"}

\* How a use is left: by itself or, instead, by an exception of logger.log, or
\* of the subtraction, if the slot is empty.
Ends == {"plain", "log raised", "slot empty"}
Outcomes == {"logged", "raised"}

\* `own` is FALSE once another use as a context manager has overlapped, and
\* `local` once one of another thread has.
Use == [kind : {"with", "call"}, began : Times, own : BOOLEAN, local : BOOLEAN]
\* `elapsed` is how long the use had lasted.
Event == [duration : Times, elapsed : Times]

ASSUME NothingAssumption == Nothing \notin Times \cup Event

\* self._fields are fixed: a name among them that is taken makes every report
\* raise.
Init ==
  /\ log \in (SUBSET Outcomes) \ {{}}
  /\ clock = 0
  /\ start = Nothing
  /\ open = [t \in Threads |-> << >>]
  /\ pc = [t \in Threads |-> "body"]
  /\ event = [t \in Threads |-> Nothing]
  /\ report = [t \in Threads |-> Nothing]
  /\ uses = [t \in Threads |-> 0]

\* The use that ends next.
Innermost(t) == open[t][Len(open[t])]
InBody(t, kind) == pc[t] = "body" /\ open[t] # << >> /\ Innermost(t).kind = kind
Goto(t, l) == pc' = [pc EXCEPT ![t] = l]

\* Faulty variant: the operands are swapped.
DurationBackwards(from) == from - clock

\* duration_ms.
Duration(from) == clock - from

\* _emit_duration, for the innermost use of t.
Emitted(t, from) ==
  [duration |-> Duration(from), elapsed |-> clock - Innermost(t).began]

-----------------------------------------------------------------------------

Begin(t) ==
  /\ pc[t] = "body"
  /\ Len(open[t]) < MaxDepth /\ uses[t] < MaxUses
  /\ uses' = [uses EXCEPT ![t] = @ + 1]
  /\ report' = [report EXCEPT ![t] = Nothing]
  /\ UNCHANGED <<log, clock, event>>

IsWith(use) == use.kind = "with"
Busy(t) == \E i \in DOMAIN open[t] : IsWith(open[t][i])

\* The uses of thread u once thread t has entered a block.
Overlapped(t, u) ==
  [i \in DOMAIN open[u] |->
     IF IsWith(open[u][i])
     THEN [open[u][i] EXCEPT !.own = FALSE, !.local = @ /\ t = u]
     ELSE open[u][i]]

\* A new block is pushed; it and those open in other threads overlap.
Push(t) ==
  LET use == [kind |-> "with", began |-> clock,
              own |-> \A u \in Threads : ~Busy(u),
              local |-> \A u \in Threads \ {t} : ~Busy(u)]
  IN open' = [u \in Threads |-> IF u = t THEN Append(Overlapped(t, t), use)
                                ELSE Overlapped(t, u)]

\* __enter__ takes the time ...
Enter(t) ==
  /\ Begin(t)
  /\ Push(t)
  /\ Goto(t, "enter")
  /\ UNCHANGED start

\* Faulty variant: a time already in the slot is kept.
StartFirstOnly(t) ==
  /\ pc[t] = "enter"
  /\ start' = IF start = Nothing THEN Innermost(t).began ELSE start
  /\ Goto(t, "body")
  /\ UNCHANGED <<log, clock, open, event, report, uses>>

\* ... and puts it into the slot.
Start(t) ==
  /\ pc[t] = "enter"
  /\ start' = Innermost(t).began
  /\ Goto(t, "body")
  /\ UNCHANGED <<log, clock, open, event, report, uses>>

\* The use is over.
Leave(t, e, end) ==
  /\ report' = [report EXCEPT ![t] =
                  [event |-> e, use |-> Innermost(t), end |-> end]]
  /\ open' = [open EXCEPT ![t] = SubSeq(@, 1, Len(@) - 1)]
  /\ event' = [event EXCEPT ![t] = Nothing]
  /\ Goto(t, "body")

\* Faulty variant: a start at time zero counts as none.
ExitIfTruthy(t) ==
  /\ InBody(t, "with")
  /\ Goto(t, IF start \notin {Nothing, 0} THEN "emit" ELSE "reset")
  /\ UNCHANGED <<log, clock, start, open, event, report, uses>>

\* Faulty variant: __exit__ reports without looking.
ExitUnguarded(t) ==
  /\ InBody(t, "with")
  /\ Goto(t, "emit")
  /\ UNCHANGED <<log, clock, start, open, event, report, uses>>

\* __exit__: `if self._start is not None`.
Exit(t) ==
  /\ InBody(t, "with")
  /\ Goto(t, IF start # Nothing THEN "emit" ELSE "reset")
  /\ UNCHANGED <<log, clock, start, open, event, report, uses>>

\* self._emit_duration(self._start) reads the slot again; with None in it the
\* subtraction raises out of __exit__, and so may logger.log.  Either way the
\* slot is left as it is.
EmitDuration(t) ==
  /\ pc[t] = "emit"
  /\ \/ /\ start # Nothing /\ "logged" \in log
        /\ event' = [event EXCEPT ![t] = Emitted(t, start)]
        /\ Goto(t, "reset")
        /\ UNCHANGED <<open, report>>
     \/ start # Nothing /\ "raised" \in log /\ Leave(t, Nothing, "log raised")
     \/ start = Nothing /\ Leave(t, Nothing, "slot empty")
  /\ UNCHANGED <<log, clock, start, uses>>

Reset(t) ==
  /\ pc[t] = "reset"
  /\ start' = Nothing
  /\ Leave(t, event[t], "plain")
  /\ UNCHANGED <<log, clock, uses>>

\* The wrapper of a decorated function takes the time, and reports at its end.
Call(t) ==
  /\ Begin(t)
  /\ open' = [open EXCEPT ![t] =
                Append(@, [kind |-> "call", began |-> clock, own |-> TRUE, local |-> TRUE])]
  /\ UNCHANGED <<log, start, pc>>

\* What logger.log raises out of `finally` takes the place of the result.
Return(t) ==
  /\ InBody(t, "call")
  /\ \/ "logged" \in log /\ Leave(t, Emitted(t, Innermost(t).began), "plain")
     \/ "raised" \in log /\ Leave(t, Nothing, "log raised")
  /\ UNCHANGED <<log, clock, start, uses>>

Tick ==
  /\ clock < MaxTime
  /\ clock' = clock + 1
  /\ UNCHANGED <<log, start, open, pc, event, report, uses>>

Finished ==
  /\ \A t \in Threads : open[t] = << >> /\ uses[t] = MaxUses
  /\ UNCHANGED vars

Next ==
  \/ \E t \in Threads :
       Enter(t) \/ Start(t) \/ Exit(t) \/ EmitDuration(t) \/ Reset(t) \/ Call(t) \/ Return(t)
  \/ Tick
  \/ Finished

Spec == Init /\ [][Next]_vars
-----------------------------------------------------------------------------
(* Properties.                                                              *)

\* Every variable holds a value of its type; durations are not negative.
TypeOK ==
  /\ log \in (SUBSET Outcomes) \ {{}}
  /\ clock \in Times
  /\ start \in Times \cup {Nothing}
  /\ open \in [Threads -> Seq(Use)]
  /\ pc \in [Threads -> Points]
  /\ event \in [Threads -> Event \cup {Nothing}]
  /\ report \in [Threads -> {Nothing} \cup
       [event : Event \cup {Nothing}, use : Use, end : Ends]]
  /\ uses \in [Threads -> 0..MaxUses]

Left(t) == report[t] # Nothing

\* A decorated call, and a block that no other block of the same object
\* overlaps, either report one duration, exactly their own, or raise what
\* logger.log raised and report none, whatever uses of the object went wrong
\* before; where logger.log does not raise, they always report.
OwnUsesReport ==
  \A t \in Threads : Left(t) /\ report[t].use.own =>
    \/ /\ report[t].end = "plain" /\ report[t].event # Nothing
       /\ report[t].event.duration = report[t].event.elapsed
    \/ /\ report[t].end = "log raised" /\ report[t].event = Nothing
       /\ "raised" \in log

\* Blocks nested in one thread lose events and shorten durations; that a
\* duration is longer than the block it is reported for takes two threads.
NeverTooLong ==
  \A t \in Threads : Left(t) /\ report[t].event # Nothing /\ report[t].use.local
    => report[t].event.duration <= report[t].event.elapsed

\* But for what logger.log raises, leaving a block raises only if blocks of
\* two threads overlapped: __exit__ looks at the slot before it reads it again,
\* and no other code of the thread runs between, not even after a report that
\* raised and left the slot full.
RaisesOnlyAcrossThreads ==
  \A t \in Threads : Left(t) /\ report[t].end # "plain" /\ report[t].use.local
    => report[t].end = "log raised" /\ "raised" \in log
=============================================================================
