---------------------------- MODULE ComputeOnce ----------------------------
(***************************************************************************)
(* What get_or_set promises ("Atomically get a cached entry or compute and *)
(* store it", base.py:166), without locks, managers or program points.     *)
(* A key has a cell and at most one flight: a caller that set out to fill  *)
(* the cell, with the predicate (is_valid) it judges entries by.  A flight *)
(* ends in one of two ways: it publishes an entry, over a cell it could    *)
(* not use, or it leaves without having changed anything.                  *)
(***************************************************************************)
CONSTANTS Callers, Keys, Values, None, Predicates

VARIABLES
  cell,     \* cell[k]: the entry of key k, or None
  flight    \* flight[k]: the flights in progress on key k

vars == <<cell, flight>>

Flights == [who : Callers, accepts : Predicates]

Init ==
  /\ cell = [k \in Keys |-> None]
  /\ flight = [k \in Keys |-> {}]

Begin(k, f) ==
  /\ flight[k] = {}
  /\ flight' = [flight EXCEPT ![k] = {f}]
  /\ UNCHANGED cell

Publish(k, f, v) ==
  /\ f \in flight[k]
  /\ cell[k] \notin f.accepts
  /\ cell' = [cell EXCEPT ![k] = v]
  /\ flight' = [flight EXCEPT ![k] = @ \ {f}]

\* The flights of some callers end with nothing published: they found an
\* entry, had no result, raised, or died with their process.
Leave(S) ==
  /\ flight' = [k \in Keys |-> {f \in flight[k] : f.who \notin S}]
  /\ UNCHANGED cell

\* An entry is deleted or expires, at any time.
Forget(k) ==
  /\ cell' = [cell EXCEPT ![k] = None]
  /\ UNCHANGED flight

Next ==
  \/ \E k \in Keys, f \in Flights : Begin(k, f)
  \/ \E k \in Keys, f \in Flights, v \in Values : Publish(k, f, v)
  \/ \E S \in SUBSET Callers : Leave(S)
  \/ \E k \in Keys : Forget(k)

Spec == Init /\ [][Next]_vars
=============================================================================
