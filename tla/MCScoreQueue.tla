----------------------------- MODULE MCScoreQueue -----------------------------
(***************************************************************************)
(* TLC instances of ScoreQueue.                                            *)
(***************************************************************************)
EXTENDS ScoreQueue, TLC

Symmetry == Permutations(Scores) \cup Permutations(Flushers) \cup Permutations(Stoppers)
=============================================================================
