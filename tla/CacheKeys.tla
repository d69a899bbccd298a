----------------------------- MODULE CacheKeys -----------------------------
(***************************************************************************)
(* Storage keys (src/py_lib_runtime/_internal/cache/base.py,               *)
(* _storage_key and the functions it calls).  A Python value is a kind, an *)
(* atom that stands for its content, and the items of a collection in the  *)
(* order Python iterates over them.  The JSON text of a normalized value   *)
(* is a sequence of tokens; SHA-256 is taken to tell texts apart, so the   *)
(* text is the key.                                                        *)
(***************************************************************************)
EXTENDS Naturals, SequencesExt

CONSTANTS
  TextOrder,     \* the tokens of JSON texts, in the order text sorts by
  NonFinite,     \* the atoms of nan and of the infinities
  Unencodable    \* the atoms of text that has no UTF-8 encoding

\* A Python value; a dict has pairs for items.
Value(kind, atom, items) == [kind |-> kind, atom |-> atom, items |-> items]

Refused == [tag |-> "refused", atom |-> "", items |-> << >>]

ScalarTag ==
  [none |-> "none", bool |-> "bool", int |-> "int", str |-> "str", float |-> "float",
   bytes |-> "bytes", bytearray |-> "bytes", memoryview |-> "bytes", path |-> "path"]

CollectionTag ==
  [dict |-> "mapping", set |-> "set", frozenset |-> "set",
   list |-> "sequence", tuple |-> "sequence", pair |-> "pair"]

Position == [x \in ToSet(TextOrder) |-> CHOOSE i \in DOMAIN TextOrder : TextOrder[i] = x]

\* json.dumps of a normalized value.
RECURSIVE Text(_)
Text(n) ==
  <<Position["["], Position[n.tag], Position[n.atom]>>
  \o FlattenSeq([i \in DOMAIN n.items |-> Text(n.items[i])]) \o <<Position["]"]>>

\* The order of texts: the first token that differs decides.
Before(s, t) ==
  \E i \in DOMAIN t :
    /\ \A j \in 1..(i - 1) : j \in DOMAIN s /\ s[j] = t[j]
    /\ i \in DOMAIN s => s[i] < t[i]

\* Faulty variant: items stay in the order of iteration.
SortedAsGiven(items) == items

\* sorted(items, key=_stable_json_sort_key).
Sorted(items) == SortSeq(items, LAMBDA m, n : Before(Text(m), Text(n)))

\* None, and what _normalize_scalar_key_value makes a tagged pair of.
NormalizeScalar(v) ==
  IF v.kind = "float" /\ v.atom \in NonFinite THEN Refused
  ELSE [tag |-> ScalarTag[v.kind], atom |-> v.atom, items |-> << >>]

\* _normalize_key_value: what is refused inside is refused outside.
RECURSIVE Normalize(_)
Normalize(v) ==
  IF v.kind \in DOMAIN ScalarTag THEN NormalizeScalar(v)
  ELSE IF v.kind \notin DOMAIN CollectionTag THEN Refused
  ELSE LET items == [i \in DOMAIN v.items |-> Normalize(v.items[i])]
           tag == CollectionTag[v.kind]
       IN IF Contains(items, Refused) THEN Refused
          ELSE [tag |-> tag, atom |-> "",
                items |-> IF tag \in {"mapping", "set"} THEN Sorted(items) ELSE items]

NoValue == Value("none", "", << >>)

\* `params or None`.
GivenParams(params) == IF params.items = << >> THEN NoValue ELSE params

\* _storage_key; the empty text where it raises.
StorageKey(key, params) ==
  LET parts == <<Normalize(key), Normalize(GivenParams(params))>>
      text == Text(parts[1]) \o Text(parts[2])
  IN IF Contains(parts, Refused) THEN << >>
     ELSE IF \E x \in Unencodable : Contains(text, Position[x]) THEN << >>
     ELSE text
=============================================================================
