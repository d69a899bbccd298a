------------------------ MODULE MCAsyncCacheManager ------------------------
(* AsyncCacheManager with its constants bound for TLC.                      *)
EXTENDS AsyncCacheManager, TLC

\* is_valid is never passed, or is passed and refuses one entry.
NoPredicate == {Values}
OneStale == {Values} \cup {Values \ {v} : v \in Values}

\* The tasks are interchangeable, and so are the threads of the pool.
Symmetry == Permutations(Tasks) \cup Permutations(Workers)
=============================================================================
