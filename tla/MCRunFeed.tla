------------------------------- MODULE MCRunFeed -------------------------------
(***************************************************************************)
(* RunFeed for TLC: the two writers do the same, and so do the calls of       *)
(* resync.                                                                  *)
(***************************************************************************)
EXTENDS RunFeed, TLC

Symmetry == Permutations(Writers) \cup Permutations(Resyncs)

===============================================================================
