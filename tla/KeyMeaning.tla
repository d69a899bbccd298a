----------------------------- MODULE KeyMeaning -----------------------------
(***************************************************************************)
(* When two ways to write a cache key mean the same: the reference that    *)
(* CacheKeys is checked against.  A caller tells keys apart by their types *)
(* and contents.  Lists and tuples, the two kinds of set, and bytes-like   *)
(* values are each of one type; sets and dicts have no order.  True, 1,    *)
(* 1.0 and "1" are four values.                                            *)
(***************************************************************************)
EXTENDS CacheKeys

CONSTANT Written   \* the ways callers write keys with their parameters

Families == {{"list", "tuple"}, {"set", "frozenset"}, {"bytes", "bytearray", "memoryview"}}
Unordered == {"set", "frozenset", "dict"}

SameKind(v, w) == v.kind = w.kind \/ \E f \in Families : {v.kind, w.kind} \subseteq f

RECURSIVE Same(_, _)
Same(v, w) ==
  /\ SameKind(v, w) /\ v.atom = w.atom
  /\ Len(v.items) = Len(w.items)
  /\ IF v.kind \in Unordered
     THEN \A i \in DOMAIN v.items : \E j \in DOMAIN w.items : Same(v.items[i], w.items[j])
     ELSE \A i \in DOMAIN v.items : Same(v.items[i], w.items[i])

\* No parameters and empty ones are the same.
SameArguments(a, b) ==
  /\ Same(a.key, b.key)
  /\ \/ a.params.items = << >> /\ b.params.items = << >>
     \/ Same(a.params, b.params)

-----------------------------------------------------------------------------

\* Calls of _storage_key, with what it makes of each; the empty text where it
\* raises.
KeyCalls == {[given |-> w, text |-> StorageKey(w.key, w.params)] : w \in Written}

\* Two calls get one storage key exactly when they mean the same, in whatever
\* order their parts are written and however alike they print; and neither or
\* both of two that mean the same are refused.
OneKeyPerMeaning(c, d) ==
  IF SameArguments(c.given, d.given) THEN c.text = d.text
  ELSE c.text = d.text => c.text = << >>
=============================================================================
