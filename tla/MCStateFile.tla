---------------------------- MODULE MCStateFile ----------------------------
(* Two repo goroutines that save at the same time.                         *)
EXTENDS StateFile, TLC

CONSTANTS a, b

RepoSymmetry == Permutations({a, b})
=============================================================================
