--------------------------- MODULE StoredEntries ---------------------------
(***************************************************************************)
(* What cache managers (src/py_lib_runtime/_internal/cache/base.py) write  *)
(* into their directory and read back: keys by KeyOf, which CacheKeys      *)
(* computes, values by Payloads.  Managers on one directory may differ in  *)
(* their compression threshold; each counts what it compresses.            *)
(* Operations are whole here, and managers stay open: CacheManager has     *)
(* their steps.  The timestamp that set adds to a payload is left out.     *)
(***************************************************************************)
EXTENDS Payloads

CONSTANTS
  Caches,       \* cache managers
  Threshold,    \* Threshold[m]: self._compression_threshold
  Arguments,    \* keys with their parameters, as callers write them
  KeyOf,        \* KeyOf[a]: the storage key of a; 0 where _storage_key raises
  Meaning,      \* Meaning[a]: the arguments that mean the same as a
  Entries,      \* payloads, as sequences of values
  NoPayload,    \* None
  MaxSets       \* bound: calls of set

ASSUME EntriesAssumption ==
  /\ \A m \in Caches : Threshold[m] \in Nat \cup {Off}
  /\ KeyOf \in [Arguments -> Nat]
  /\ Entries \subseteq Seq(Item)
  /\ \A p \in Entries : \A i \in DOMAIN p :   \* zlib restores what it has written
       p[i].content \in Broken => p[i].type \in {"dict", "packed", "packed str"}
  /\ NoPayload \notin Seq(Item)
  /\ MaxSets \in Nat

VARIABLES
  table,        \* the rows: a function from storage keys to payloads
  counted,      \* counted[m]: self._compression_stats
  got,          \* what the last get returned
  sets

tableVars == <<table, counted, got, sets>>

Counters == [entries : Nat, in : Nat, out : Nat]

\* _storage_key does not raise.
Accepted(a) == KeyOf[a] # 0

TableInit ==
  /\ table = << >>
  /\ counted = [m \in Caches |-> [entries |-> 0, in |-> 0, out |-> 0]]
  /\ got = NoPayload
  /\ sets = 0

-----------------------------------------------------------------------------

\* The values of p that _prepare_for_storage gets to: all of them, or those
\* before the first that raises.
Reached(p, limit) ==
  {i \in DOMAIN p : \A j \in 1..i : ~CompressRaises(p[j], limit)}

Packed(p, limit) == {i \in Reached(p, limit) : Compressible(p[i], limit)}

\* One, or the size, of each value of p at the places S, zero at the others.
Ones(p, S) == [i \in 1..Len(p) |-> IF i \in S THEN 1 ELSE 0]
Sizes(p, S, size) == [i \in 1..Len(p) |-> IF i \in S THEN size[p[i].content] ELSE 0]

Total(numbers) ==
  LET sum[n \in 0..Len(numbers)] == IF n = 0 THEN 0 ELSE sum[n - 1] + numbers[n]
  IN sum[Len(numbers)]

\* self._compression_stats, which move before the payload is written.
Count(m, p) ==
  LET packed == Packed(p, Threshold[m]) IN
    counted' = [counted EXCEPT
      ![m].entries = @ + Total(Ones(p, packed)),
      ![m].in = @ + Total(Sizes(p, packed, RawSize)),
      ![m].out = @ + Total(Sizes(p, packed, ZipSize))]

\* _prepare_for_storage and _restore_from_storage.
Prepared(p, limit) == [i \in 1..Len(p) |-> Compress(p[i], limit)]
Restored(p) == [i \in 1..Len(p) |-> Decompress(p[i])]

WriteRow(k, p) ==
  table' = [j \in DOMAIN table \cup {k} |-> IF j = k THEN p ELSE table[j]]
DropRows(ks) == table' = [k \in DOMAIN table \ ks |-> table[k]]

\* What get finds for a.
Found(a) == IF KeyOf[a] \in DOMAIN table THEN Restored(table[KeyOf[a]]) ELSE NoPayload

\* A key that is refused raises before anything else; a value that cannot be
\* encoded or pickled, or the disk, raises after the counters have moved.
SetEntry(m, a, p) ==
  /\ sets < MaxSets
  /\ sets' = sets + 1
  /\ \/ ~Accepted(a) /\ UNCHANGED <<counted, table>>
     \/ /\ Accepted(a)
        /\ Count(m, p)
        /\ \/ UNCHANGED table
           \/ /\ Reached(p, Threshold[m]) = DOMAIN p
              /\ \A i \in DOMAIN p : Storable(Prepared(p, Threshold[m])[i])
              /\ WriteRow(KeyOf[a], Prepared(p, Threshold[m]))
  /\ UNCHANGED got

GetEntry(a) ==
  /\ Accepted(a)
  /\ got' = Found(a)
  /\ UNCHANGED <<table, counted, sets>>

\* delete, and what diskcache drops by itself.
ForgetEntry(a) ==
  /\ Accepted(a) /\ KeyOf[a] \in DOMAIN table
  /\ DropRows({KeyOf[a]})
  /\ UNCHANGED <<counted, got, sets>>

ClearTable ==
  /\ DropRows(DOMAIN table)
  /\ UNCHANGED <<counted, got, sets>>

TableNext ==
  \/ \E a \in Arguments :
       \/ GetEntry(a)
       \/ ForgetEntry(a)
       \/ \E m \in Caches, p \in Entries : SetEntry(m, a, p)
  \/ ClearTable

TableSpec == TableInit /\ [][TableNext]_tableVars
-----------------------------------------------------------------------------
(* Properties.                                                              *)

\* Every variable holds a value of its type, and no row has the key of
\* arguments that are refused.
TableTypes ==
  /\ \A k \in DOMAIN table : k \in Nat \ {0} /\ table[k] \in Seq(Item)
  /\ counted \in [Caches -> Counters]
  /\ got \in Seq(Item) \cup {NoPayload}
  /\ sets \in 0..MaxSets

\* _storage_key, which KeyMeaning checks: arguments that are accepted share
\* their key with those that mean the same and with no others.
KeysFollowMeaning ==
  \A a, b \in Arguments : Accepted(a) => (b \in Meaning[a] <=> KeyOf[b] = KeyOf[a])

\* get: what is read under a key is what was stored last under one that means
\* the same, by whichever manager.
Map == INSTANCE EntryMap WITH
  Payloads <- Entries,
  None <- NoPayload,
  cell <- [a \in Arguments |-> Found(a)]
StoresEntries == Map!Spec

\* stats: each value counted as compressed has become shorter by at least a
\* byte, whatever mixture of values was stored or failed to be, and a manager
\* without compression counts nothing.
SavingsAreReal ==
  \A m \in Caches :
    /\ counted[m].out + counted[m].entries <= counted[m].in
    /\ Threshold[m] = Off => counted[m].entries = 0 /\ counted[m].in = 0
=============================================================================
