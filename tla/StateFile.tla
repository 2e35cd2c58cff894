----------------------------- MODULE StateFile -----------------------------
(***************************************************************************)
(* The state file at the level of system calls: saveState() as the repo    *)
(* goroutines run it, each of them setting its own entry of the shared     *)
(* cursors map and then writing the whole map to one shared tmp path and   *)
(* renaming it over the file, all under Watcher.mu.  Any system call may   *)
(* fail, and the daemon may stop between any two.                          *)
(*                                                                         *)
(* EventTail takes a save for one atomic step; this module is why it may:  *)
(* both implement CursorStore.                                             *)
(***************************************************************************)
EXTENDS Naturals

CONSTANTS
    Repos,      \* one goroutine each
    MaxCursor,  \* bound: the last event id
    MaxSets,    \* bound: how often a cursor is set
    MaxCrash,   \* bound: restarts
    NoRepo,     \* "nobody holds the mutex"
    Absent,     \* "there is no such file"
    Torn        \* the content of a file whose write did not complete

ASSUME ConstantsAssumption ==
    /\ MaxCursor \in Nat /\ MaxSets \in Nat /\ MaxCrash \in Nat
    /\ NoRepo \notin Repos
    /\ Absent # Torn

\* A cursor is the id of an event; the history variable nth, which nothing reads,
\* counts the calls of setCursor() on the way to it.
Cursor  == [id : 0..MaxCursor, nth : 0..MaxSets]
Fresh   == [id |-> 0, nth |-> 0]
Tables  == [Repos -> Cursor]

ASSUME ContentAssumption == {Absent, Torn} \cap Tables = {}

VARIABLES
    pc,       \* where each goroutine is
    mu,       \* the holder of Watcher.mu
    cursors,  \* Watcher.cursors
    raw,      \* what each goroutine has marshalled
    tmp,      \* StateFile.tmp on disk
    file,     \* StateFile on disk
    missing,  \* whether a rename ever found no tmp file (ENOENT)
    crashes

vars == <<pc, mu, cursors, raw, tmp, file, missing, crashes>>

Labels  == {"work", "set", "lock", "marshal", "open", "write", "rename", "unlock"}
Content == Tables \cup {Absent, Torn}
Zero    == [r \in Repos |-> Fresh]

\* An absent or an unreadable file starts every repo afresh.
Load(f) == IF f \in {Absent, Torn} THEN Zero ELSE f

Goto(r, l) == pc' = [pc EXCEPT ![r] = l]

Init ==
    /\ pc = [r \in Repos |-> "work"]
    /\ mu = NoRepo
    /\ cursors = Zero
    /\ raw = [r \in Repos |-> Zero]
    /\ tmp = Absent
    /\ file = Absent
    /\ missing = FALSE
    /\ crashes = 0

\* A row is published or a rebuilt database is found, and setCursor() asks for the
\* mutex; or a batch or that reset is done, and saveState() does.
Work(r) ==
    /\ pc[r] = "work"
    /\ \/ cursors[r].nth < MaxSets /\ Goto(r, "set")
       \/ Goto(r, "lock")
    /\ UNCHANGED <<mu, cursors, raw, tmp, file, missing, crashes>>

\* setCursor(): one critical section.  drain() raises the cursor to the row's id,
\* checkRegression() lowers it to what is the last id by now.
Set(r) ==
    /\ pc[r] = "set" /\ mu = NoRepo
    /\ \E i \in 0..MaxCursor \ {cursors[r].id} :
          cursors' = [cursors EXCEPT ![r] = [id |-> i, nth |-> @.nth + 1]]
    /\ Goto(r, "work")
    /\ UNCHANGED <<mu, raw, tmp, file, missing, crashes>>

\* Bug: the mutex covers the marshalling only.
LockMutant(r) ==
    /\ pc[r] = "lock" /\ mu = NoRepo
    /\ raw' = [raw EXCEPT ![r] = cursors]
    /\ Goto(r, "open")
    /\ UNCHANGED <<mu, cursors, tmp, file, missing, crashes>>

\* saveState(): w.mu.Lock().
Lock(r) ==
    /\ pc[r] = "lock" /\ mu = NoRepo
    /\ mu' = r
    /\ Goto(r, "marshal")
    /\ UNCHANGED <<cursors, raw, tmp, file, missing, crashes>>

Marshal(r) ==
    /\ pc[r] = "marshal"
    /\ raw' = [raw EXCEPT ![r] = cursors]
    /\ Goto(r, "open")
    /\ UNCHANGED <<mu, cursors, tmp, file, missing, crashes>>

\* Bug: no tmp file, the state file itself is written.
OpenMutant(r) ==
    /\ pc[r] = "open"
    /\ file' = Torn /\ tmp' = raw[r]
    /\ Goto(r, "rename")
    /\ UNCHANGED <<mu, cursors, raw, missing, crashes>>

\* os.WriteFile(tmp) opens with O_TRUNC ...
Open(r) ==
    /\ pc[r] = "open"
    /\ \/ tmp' = Torn /\ Goto(r, "write")
       \/ UNCHANGED tmp /\ Goto(r, "unlock")
    /\ UNCHANGED <<mu, cursors, raw, file, missing, crashes>>

\* ... and writes: all of it, or the disk is full.
Write(r) ==
    /\ pc[r] = "write"
    /\ \/ tmp' = raw[r] /\ Goto(r, "rename")
       \/ tmp' = Torn /\ Goto(r, "unlock")
    /\ UNCHANGED <<mu, cursors, raw, file, missing, crashes>>

\* os.Rename(tmp, StateFile) moves whatever is at the tmp path.
Rename(r) ==
    /\ pc[r] = "rename"
    /\ \/ tmp # Absent /\ file' = tmp /\ tmp' = Absent /\ UNCHANGED missing
       \/ tmp = Absent /\ missing' = TRUE /\ UNCHANGED <<file, tmp>>
       \/ UNCHANGED <<file, tmp, missing>>
    /\ Goto(r, "unlock")
    /\ UNCHANGED <<mu, cursors, raw, crashes>>

\* The deferred w.mu.Unlock(), on every return.
Unlock(r) ==
    /\ pc[r] = "unlock"
    /\ mu' = IF mu = r THEN NoRepo ELSE mu
    /\ Goto(r, "work")
    /\ UNCHANGED <<cursors, raw, tmp, file, missing, crashes>>

\* The process ends between two calls; loadState() of the next one.  The tmp
\* file is left behind as it is.
Restart ==
    /\ crashes < MaxCrash
    /\ crashes' = crashes + 1
    /\ pc' = [r \in Repos |-> "work"]
    /\ mu' = NoRepo
    /\ cursors' = Load(file)
    /\ raw' = [r \in Repos |-> Zero]
    /\ UNCHANGED <<tmp, file, missing>>

Save(r) == Lock(r) \/ Marshal(r) \/ Open(r) \/ Write(r) \/ Rename(r) \/ Unlock(r)

Next == (\E r \in Repos : Work(r) \/ Set(r) \/ Save(r)) \/ Restart

Spec == Init /\ [][Next]_vars

-----------------------------------------------------------------------------
\* The types; who is in saveState holds the mutex; and "two concurrent saves would
\* otherwise steal each other's tmp file out from under the rename (seen live as
\* ENOENT at startup)": no rename ever finds its tmp file gone.
TypeOK ==
    /\ pc \in [Repos -> Labels]
    /\ mu \in Repos \cup {NoRepo}
    /\ cursors \in Tables
    /\ raw \in [Repos -> Tables]
    /\ tmp \in Content /\ file \in Content
    /\ missing = FALSE
    /\ crashes \in 0..MaxCrash
    /\ \A r \in Repos :
          pc[r] \in {"marshal", "open", "write", "rename", "unlock"} <=> mu = r

\* What a start makes of the file is what a restart of the store finds.
Store == INSTANCE CursorStore
    WITH Cursors <- Cursor, Fresh <- Fresh, MayLose <- FALSE, saved <- Load(file)

\* A save is atomic to everyone else: what a start would read changes at one step,
\* and then to the cursors of that very moment, so that no restart finds the file
\* torn, behind what another goroutine has saved, or ahead of what was ever set.
ImplementsStore == Store!Spec

\* No save, of whichever goroutine, puts back what a later setCursor() has replaced
\* in the file, for its own repo or another's: neither an advance nor the reset of a
\* rebuilt database is undone by a map that was marshalled before it.
NeverBackwards == [][\A r \in Repos : Load(file')[r].nth >= Load(file)[r].nth]_vars
=============================================================================
