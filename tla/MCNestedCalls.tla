--------------------------- MODULE MCNestedCalls ---------------------------
(* Instances of NestedCalls for TLC. *)
EXTENDS NestedCalls

CONSTANTS c1, c2, c3

\* Two threads of one process, one of another.
TwoProcesses == {{c1, c2}, {c3}}
=============================================================================
