------------------------------ MODULE EntryMap ------------------------------
(***************************************************************************)
(* What a cache directory promises: a map from keys with parameters to     *)
(* payloads, in which keys that mean the same share a cell.                *)
(***************************************************************************)
EXTENDS Naturals, Sequences

CONSTANTS
  Arguments,   \* keys with their parameters, as callers write them
  Meaning,     \* Meaning[a]: those that mean the same as a
  Payloads,    \* the payloads callers store: sequences of values
  None

VARIABLES
  cell,   \* cell[a]: what get(a) finds, or None
  got     \* what the last get returned

vars == <<cell, got>>

\* A value comes back as it is, but for bytes-like ones, which may come back
\* as bytes, and dicts that look compressed, which may come back as what they
\* would contain.
ComesBackAs(v, w) ==
  /\ w.content = v.content
  /\ \/ w.type = v.type
     \/ v.type \in {"bytearray", "memoryview", "packed"} /\ w.type = "bytes"
     \/ v.type = "packed str" /\ w.type = "str"

PayloadComesBackAs(p, q) ==
  Len(q) = Len(p) /\ \A i \in DOMAIN p : ComesBackAs(p[i], q[i])

Init == cell = [a \in Arguments |-> None] /\ got = None

\* The cells that the means of writing a key share.
Assign(a, p) == cell' = [b \in Arguments |-> IF b \in Meaning[a] THEN p ELSE cell[b]]

\* A payload is stored for a, and for all that mean the same.
Put(a) ==
  /\ got' = got
  /\ cell'[a] # None /\ cell'[a] # cell[a]
  /\ \E p \in Payloads : PayloadComesBackAs(p, cell'[a])
  /\ Assign(a, cell'[a])

Get(a) == got' = cell[a] /\ UNCHANGED cell

\* An entry is deleted, expires or is culled.
Forget(a) == got' = got /\ cell'[a] = None /\ Assign(a, None)

Clear == got' = got /\ cell' = [a \in Arguments |-> None]

Next == (\E a \in Arguments : Get(a) \/ Put(a) \/ Forget(a)) \/ Clear

Spec == Init /\ [][Next]_vars
=============================================================================
