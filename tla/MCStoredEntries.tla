-------------------------- MODULE MCStoredEntries --------------------------
(* Instances of StoredEntries and of KeyMeaning for TLC. *)
EXTENDS StoredEntries, KeyMeaning

CONSTANTS m1, m2

\* One manager compresses, the other does not.
Limits == [m \in Caches |-> IF m = m1 THEN 2 ELSE Off]

\* Two ways to write a key, another key, and two that are refused.
Given == {"a", "a reordered", "b", "nan", "inf"}
Alike == {"a", "a reordered"}
Digests == [a \in Given |-> IF a \in Alike THEN 1 ELSE IF a = "b" THEN 2 ELSE 0]
Meanings == [a \in Given |-> IF a \in Alike THEN Alike ELSE {a}]

\* The keys of this instance are as StoredEntries needs them.
ASSUME KeysAssumption == KeysFollowMeaning

\* "short", "noise" and "odd" do not shrink.
Data == {"short", "noise", "text", "blob", "array", "view", "wrapped", "odd", "junk"}
Lengths == [x \in Data |-> IF x = "short" THEN 1 ELSE 4]
Zipped == [x \in Data |-> IF x \in {"short", "noise", "odd"} THEN 5 ELSE 2]

V(type, content) == [type |-> type, content |-> content]

\* Payloads of one value or two: every type, what only compression lets be
\* stored, what only a manager without it can store, and look-alikes.  What
\* comes back tells by its contents which of them was stored.
Stored ==
  { <<V("str", "short")>>, <<V("str", "text")>>, <<V("bytes", "blob")>>,
    <<V("bytearray", "array")>>, <<V("memoryview", "view")>>,
    <<V("bytes", "noise")>>, <<V("packed str", "wrapped")>>, <<V("packed", "junk")>>,
    <<V("str", "text"), V("memoryview", "short")>>,
    <<V("str", "text"), V("str", "odd")>> }

-----------------------------------------------------------------------------
(* Keys and parameters.                                                     *)

Tokens ==
  <<"", "1", "2", "[", "]", "a", "b", "bool", "bytes", "float", "int", "mapping",
    "none", "pair", "path", "sequence", "set", "str", "surrogate">>

Atom(kind, atom) == Value(kind, atom, << >>)
Int1 == Atom("int", "1")
Int2 == Atom("int", "2")
StrA == Atom("str", "a")
StrB == Atom("str", "b")
Pair(k, v) == Value("pair", "", <<k, v>>)
Dict(pairs) == Value("dict", "", pairs)
Collection(kind, items) == Value(kind, "", items)
List(items) == Collection("list", items)

\* Values that are easily taken for one another.
Atoms ==
  { NoValue, Atom("bool", "1"), Int1, Int2, Atom("float", "1"), Atom("float", "nan"),
    Atom("str", "1"), StrA, Atom("str", "surrogate"), Atom("bytes", "1"),
    Atom("bytearray", "1"), Atom("memoryview", "1"), Atom("path", "1"), Atom("object", "1") }

Collections ==
  {Collection(kind, items) :
     kind \in {"list", "tuple", "set", "frozenset"},
     items \in {<< >>, <<Int1>>, <<Int1, Int2>>, <<Int2, Int1>>, <<Int1, StrA>>}}

Nested ==
  { Dict(<< >>), Dict(<<Pair(StrA, Int1)>>), Dict(<<Pair(Atom("str", "1"), Int1)>>),
    Dict(<<Pair(Int1, Int1)>>),
    List(<<List(<<StrA, Int1>>)>>), List(<<List(<<Int1>>), Int2>>),
    List(<<Int1, List(<<Int2>>)>>), List(<<Atom("float", "nan")>>),
    Collection("set", <<Collection("tuple", <<Int1, Int2>>), Int1>>),
    Collection("frozenset", <<Int1, Collection("tuple", <<Int1, Int2>>)>>),
    Collection("set", <<Collection("tuple", <<Int2, Int1>>), Int1>>) }

\* One parameter of each value, none, two in either order, and other keys.
Params ==
  {Dict(<<Pair(StrA, v)>>) : v \in Atoms \cup Collections \cup Nested}
  \cup { NoValue, Dict(<< >>),
         Dict(<<Pair(StrA, Int1), Pair(StrB, Int2)>>),
         Dict(<<Pair(StrB, Int2), Pair(StrA, Int1)>>),
         Dict(<<Pair(StrA, Int2), Pair(StrB, Int1)>>) }

Keyed ==
  {[key |-> StrA, params |-> p] : p \in Params}
  \cup {[key |-> k, params |-> NoValue] : k \in {StrB, Atom("str", "surrogate")}}

-----------------------------------------------------------------------------

\* _storage_key: when entries begin to be stored, any two ways to write a key,
\* with parameters of every kind and nesting, already share their storage key
\* exactly when they mean the same, and are refused together if they do.
KeysTellMeaning == sets = 0 => \A c, d \in KeyCalls : OneKeyPerMeaning(c, d)
=============================================================================
