------------------------- MODULE MCCachedDecorator -------------------------
(* CachedDecorator for TLC: the constants are given in the .cfg files.      *)
EXTENDS CachedDecorator, TLC

CallerSymmetry == Permutations(Callers)
=============================================================================
