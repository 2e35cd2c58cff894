---------------------------- MODULE CursorStore ----------------------------
(***************************************************************************)
(* What the goroutines of the events tailer have in each other: one table  *)
(* of cursors that they share, and a copy of it that outlives the process. *)
(* One cursor is set at a time, a save copies the whole table, and a start *)
(* finds the table as it was saved, or finds nothing.                      *)
(*                                                                         *)
(* StateFile implements it with a mutex, a tmp file and a rename, any of   *)
(* whose calls may fail; EventTail, which takes a save for one step, too.  *)
(***************************************************************************)
CONSTANTS
    Repos,
    Cursors,  \* what a cursor may be
    Fresh,    \* the cursor of a repo without an entry
    MayLose   \* whether the saved copy may be lost

VARIABLES
    cursors,  \* the table in memory
    saved     \* the table on disk

vars == <<cursors, saved>>

Afresh == [r \in Repos |-> Fresh]

Init == cursors = Afresh /\ saved = Afresh

SetCursor(r) ==
    /\ cursors'[r] \in Cursors
    /\ cursors' = [cursors EXCEPT ![r] = cursors'[r]]
    /\ UNCHANGED saved

Save == saved' = cursors /\ UNCHANGED cursors

Restart == cursors' = saved /\ UNCHANGED saved

Lose == MayLose /\ cursors' = Afresh /\ saved' = Afresh

Next == (\E r \in Repos : SetCursor(r)) \/ Save \/ Restart \/ Lose

Spec == Init /\ [][Next]_vars
=============================================================================
