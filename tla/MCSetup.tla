----------------------------- MODULE MCSetup ------------------------------
(* Runs of setup.sh, one after the other or at the same time.              *)
EXTENDS Setup, TLC

CONSTANTS s1, s2, s3

Symmetric == Permutations(Runs)
=============================================================================
