---------------------------- MODULE MCTokenCache ----------------------------
(* Small instances of TokenCache for TLC.                                  *)
EXTENDS TokenCache, TLC

Symmetry == Permutations(Threads)
=============================================================================
