----------------------------- MODULE MCDaemon -----------------------------
(* Three daemons over one path; streams of the first never end.            *)
EXTENDS Daemon

CONSTANTS d1, d2, d3
=============================================================================
