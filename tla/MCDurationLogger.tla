-------------------------- MODULE MCDurationLogger --------------------------
(* Instances of DurationLogger for TLC. *)
EXTENDS DurationLogger, TLC

\* The threads are alike.
Symmetry == Permutations(Threads)
=============================================================================
