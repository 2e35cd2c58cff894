---------------------------- MODULE MCIdentity ----------------------------
(* Concurrent requests from an address that two machines hold in turn, or  *)
(* from two addresses.                                                     *)
EXTENDS Identity, TLC

CONSTANTS q1, q2, a1, a2, p1, p2

Symmetric == Permutations({q1, q2}) \cup Permutations({p1, p2})
=============================================================================
