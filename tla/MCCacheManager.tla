--------------------------- MODULE MCCacheManager ---------------------------
(* CacheManager with its constants bound for TLC.                           *)
EXTENDS CacheManager, TLC

CONSTANTS c1, c2, c3, m1, m2

\* All threads in one process.
OneProcess == [c \in Callers |-> m1]

\* Thread c3 in a process of its own.
TwoProcesses == [c \in Callers |-> IF c = c3 THEN m2 ELSE m1]

\* is_valid is never passed, or is passed and refuses one entry.
NoPredicate == {Values}
OneStale == {Values} \cup {Values \ {v} : v \in Values}
=============================================================================
