------------------------------- MODULE Setup -------------------------------
(***************************************************************************)
(* The installer, setup.sh, upgrading a box: its lock directory, and the   *)
(* binary, the config and the unit it replaces under a running daemon.     *)
(*                                                                         *)
(* Each member of Runs is one process that runs the script once, so that a *)
(* pid is never used again; kill -0 and systemctl see the processes as they*)
(* are.  Downloads, builds and prompts come down to "it works", "it dies"  *)
(* and yes or no; the flags, --uninstall, and the retired proxyd bridge are*)
(* left out.                                                               *)
(***************************************************************************)
CONSTANTS
    Runs,     \* runs of the script
    NoLock,   \* there is no lock directory
    NoPid,    \* a lock directory without a pid in it
    Stopped,  \* no daemon runs
    MayKill   \* whether a run may be killed with no chance to clean up

ASSUME NamesAssumption ==
    NoLock # NoPid /\ {NoLock, NoPid} \cap Runs = {} /\ MayKill \in BOOLEAN

Parts   == {"binary", "config", "unit"}
Version == {"old", "new"}
Whole   == [Parts -> Version]
Torn    == "torn"   \* a binary that is half copied: it has no commit, and does not run
ASSUME StoppedAssumption == Stopped \notin Whole

VARIABLES
    pc,       \* where each run is
    lock,     \* LOCK_DIR: absent, without a pid, or with the pid of a run
    seen,     \* the pid each run has read from it
    goal,     \* the release that each run installs
    disk,     \* what is installed
    running,  \* what the daemon has loaded, or Stopped
    changed,  \* BINARY_CHANGED and UNITS_CHANGED of each run
    outcome,  \* how each run ended: ok, warned, or not
    started,  \* history: the runs that have come to their start or restart
    installer \* history: the last run to go through install_binary, or NoPid

history == <<started, installer>>
vars == <<pc, lock, seen, goal, disk, running, changed, outcome, history>>

Acquiring == {"lock", "peek", "probe", "clear", "retake", "pid"}
Inside    == {"binary", "copy", "config", "units", "start", "verify", "cleanup"}
Alive(r)  == pc[r] \in Acquiring \cup Inside

Init ==
    /\ pc = [r \in Runs |-> "ready"]
    /\ lock = NoLock
    /\ seen = [r \in Runs |-> NoPid]
    /\ goal \in [Runs -> Whole]
    /\ disk = [p \in Parts |-> "old"]
    /\ running \in {Stopped, disk}
    /\ changed = [r \in Runs |-> {}]
    /\ outcome = [r \in Runs |-> "none"]
    /\ started = {} /\ installer = NoPid

Goto(r, l) == pc' = [pc EXCEPT ![r] = l]
boxVars == <<goal, disk, running, changed, outcome, history>>

-----------------------------------------------------------------------------
(* acquire_lock.                                                           *)

Begin(r) == pc[r] = "ready" /\ Goto(r, "lock") /\ UNCHANGED <<lock, seen, boxVars>>

\* Bug: mkdir -p, which an existing directory does not fail.
MkdirMutant(r) ==
    /\ pc[r] \in {"lock", "retake"}
    /\ lock' = NoPid /\ Goto(r, "pid")
    /\ UNCHANGED <<seen, boxVars>>

\* The first mkdir, and the one after a stale lock has been cleared.
Mkdir(r) ==
    /\ pc[r] \in {"lock", "retake"}
    /\ IF lock = NoLock
         THEN lock' = NoPid /\ Goto(r, "pid")
         ELSE UNCHANGED lock /\ Goto(r, IF pc[r] = "lock" THEN "peek" ELSE "refused")
    /\ UNCHANGED <<seen, boxVars>>

\* echo $$ >"$LOCK_DIR/pid"; without the directory the script ends there.
WritePid(r) ==
    /\ pc[r] = "pid"
    /\ IF lock = NoLock
         THEN UNCHANGED lock /\ Goto(r, "refused")
         ELSE lock' = r /\ Goto(r, "binary")
    /\ UNCHANGED <<seen, boxVars>>

\* old=$(cat "$LOCK_DIR/pid").
Peek(r) ==
    /\ pc[r] = "peek"
    /\ seen' = [seen EXCEPT ![r] = IF lock \in Runs THEN lock ELSE NoPid]
    /\ Goto(r, "probe")
    /\ UNCHANGED <<lock, boxVars>>

\* Bug: a lock is never taken for stale.
ProbeMutant(r) == pc[r] = "probe" /\ Goto(r, "refused") /\ UNCHANGED <<lock, seen, boxVars>>

\* kill -0 "$old".
Probe(r) ==
    /\ pc[r] = "probe"
    /\ Goto(r, IF seen[r] # NoPid /\ ~Alive(seen[r]) THEN "clear" ELSE "refused")
    /\ UNCHANGED <<lock, seen, boxVars>>

\* rm -rf "$LOCK_DIR", whoever it belongs to by now.
Clear(r) ==
    /\ pc[r] = "clear"
    /\ lock' = NoLock
    /\ Goto(r, "retake")
    /\ UNCHANGED <<seen, boxVars>>

-----------------------------------------------------------------------------
(* The phases of main.                                                     *)

Write(r, part) ==
    /\ disk' = [disk EXCEPT ![part] = goal[r][part]]
    /\ changed' = [changed EXCEPT ![r] = @ \cup {part}]

\* Bug: a prebuilt that fails verification is passed over.
BinaryMutant(r) ==
    /\ pc[r] = "binary"
    /\ installer' = r
    /\ Goto(r, "config")
    /\ UNCHANGED <<lock, seen, goal, disk, running, changed, outcome, started>>

\* install_binary: nothing to do if the installed commit is the release's; else
\* install(1) unlinks the old file and starts to copy the new one,
Binary(r) ==
    /\ pc[r] = "binary"
    /\ IF disk["binary"] = goal[r]["binary"]
         THEN installer' = r /\ UNCHANGED disk /\ Goto(r, "config")
         ELSE disk' = [disk EXCEPT !["binary"] = Torn] /\ UNCHANGED installer /\ Goto(r, "copy")
    /\ UNCHANGED <<lock, seen, goal, running, changed, outcome, started>>

\* Bug: a new binary is not noted as a change.
CopyMutant(r) ==
    /\ pc[r] = "copy"
    /\ disk' = [disk EXCEPT !["binary"] = goal[r]["binary"]]
    /\ installer' = r
    /\ Goto(r, "config")
    /\ UNCHANGED <<lock, seen, goal, running, changed, outcome, started>>

\* which is installed once it is copied.
Copy(r) ==
    /\ pc[r] = "copy"
    /\ Write(r, "binary")
    /\ installer' = r
    /\ Goto(r, "config")
    /\ UNCHANGED <<lock, seen, goal, running, outcome, started>>

\* setup_config: a merge into a tmp file that is moved over the config, if it
\* changes anything.  Nothing notes that it did.
Config(r) ==
    /\ pc[r] = "config"
    /\ disk' = [disk EXCEPT !["config"] = goal[r]["config"]]
    /\ Goto(r, "units")
    /\ UNCHANGED <<lock, seen, goal, running, changed, outcome, history>>

\* setup_units writes the unit, and tells by its fingerprint whether that changed
\* it; a declined prompt leaves the daemon alone.
Units(r) ==
    /\ pc[r] = "units"
    /\ IF disk["unit"] = goal[r]["unit"] THEN UNCHANGED <<disk, changed>> ELSE Write(r, "unit")
    /\ Goto(r, "start") \/ Goto(r, "verify")
    /\ UNCHANGED <<lock, seen, goal, running, outcome, history>>

\* What systemd has at hand when it has launched what is installed, or failed to.
Launched == {Stopped} \cup ({disk} \cap Whole)

\* Bug: `enable --now`: a running unit is left alone.
StartMutant(r) ==
    /\ pc[r] = "start"
    /\ IF running = Stopped THEN running' \in Launched ELSE UNCHANGED running
    /\ started' = started \cup {r}
    /\ Goto(r, "verify")
    /\ UNCHANGED <<lock, seen, goal, disk, changed, outcome, installer>>

\* restart when the binary or the unit has changed, else start; either may fail
\* with a warning, which leaves the unit failed.
Start(r) ==
    /\ pc[r] = "start"
    /\ IF changed[r] # {} \/ running = Stopped
         THEN running' \in Launched
         ELSE UNCHANGED running
    /\ started' = started \cup {r}
    /\ Goto(r, "verify")
    /\ UNCHANGED <<lock, seen, goal, disk, changed, outcome, installer>>

\* verify_install asks the daemon for its commit; no answer, or another commit
\* than the installed one, if that has one, is a warning.
Verify(r) ==
    /\ pc[r] = "verify"
    /\ outcome' = [outcome EXCEPT ![r] =
                     IF running # Stopped /\ disk["binary"] \in {running["binary"], Torn}
                       THEN "ok" ELSE "warned"]
    /\ Goto(r, "cleanup")
    /\ UNCHANGED <<lock, seen, goal, disk, running, changed, history>>

\* die, an error under set -e, or Ctrl-C: the rest is skipped.
Die(r) ==
    /\ pc[r] \in Inside \ {"cleanup"}
    /\ Goto(r, "cleanup")
    /\ UNCHANGED <<lock, seen, boxVars>>

\* Bug: only a run that gets to the end cleans up.
CleanupMutant(r) ==
    /\ pc[r] = "cleanup"
    /\ lock' = IF outcome[r] = "none" THEN lock ELSE NoLock
    /\ Goto(r, "ended")
    /\ UNCHANGED <<seen, boxVars>>

\* cleanup, on every exit: the lock directory goes, whose ever it is.
Cleanup(r) ==
    /\ pc[r] = "cleanup"
    /\ lock' = NoLock
    /\ Goto(r, "ended")
    /\ UNCHANGED <<seen, boxVars>>

-----------------------------------------------------------------------------
(* The box.                                                                *)

\* kill -9, or a power cut: the lock directory stays.
Kill(r) ==
    /\ MayKill /\ Alive(r)
    /\ Goto(r, "killed")
    /\ UNCHANGED <<lock, seen, boxVars>>

\* The daemon fails or is stopped; systemd, or someone, starts it, or tries to.
DaemonStops ==
    /\ running # Stopped
    /\ running' = Stopped
    /\ UNCHANGED <<pc, lock, seen, goal, disk, changed, outcome, history>>
DaemonStarts ==
    /\ running = Stopped
    /\ running' \in Launched
    /\ UNCHANGED <<pc, lock, seen, goal, disk, changed, outcome, history>>

AcquireLock(r) == Mkdir(r) \/ WritePid(r) \/ Peek(r) \/ Probe(r) \/ Clear(r)
Main(r) ==
    \/ Binary(r) \/ Copy(r) \/ Config(r) \/ Units(r)
    \/ Start(r) \/ Verify(r) \/ Die(r) \/ Cleanup(r)

Next ==
    \/ \E r \in Runs : Begin(r) \/ AcquireLock(r) \/ Main(r) \/ Kill(r)
    \/ DaemonStops \/ DaemonStarts

Spec == Init /\ [][Next]_vars

-----------------------------------------------------------------------------
TypeOK ==
    /\ pc \in [Runs -> {"ready", "refused", "ended", "killed"} \cup Acquiring \cup Inside]
    /\ lock \in Runs \cup {NoLock, NoPid}
    /\ seen \in [Runs -> Runs \cup {NoPid}]
    /\ goal \in [Runs -> Whole]
    /\ disk \in [Parts -> Version \cup {Torn}] /\ running \in Whole \cup {Stopped}
    /\ changed \in [Runs -> SUBSET {"binary", "unit"}]
    /\ outcome \in [Runs -> {"none", "ok", "warned"}]
    /\ started \in SUBSET Runs /\ installer \in Runs \cup {NoPid}
    /\ \A r \in Runs : pc[r] = "ended" => lock # r

\* "Another setup.sh is running": no two runs are past acquire_lock at once,
\* those that took over a dead run's lock and those that clean up included.
OneAtATime == \A r, q \in Runs : pc[r] \in Inside /\ pc[q] \in Inside => r = q

\* A run that ends well leaves its release's binary installed and, whatever dies,
\* restarts or runs again afterwards, no other one running, until another run gets
\* through install_binary.  A copy that was cut short is not passed over.
InstalledRuns ==
    \A r \in Runs : outcome[r] = "ok" /\ installer = r =>
        /\ disk["binary"] \in {goal[r]["binary"], Torn}
        /\ running # Stopped => running["binary"] = goal[r]["binary"]

\* "On an upgrade it would report success while the OLD binary kept serving.  Any
\* real change has to restart": a binary or unit that is installed and not running
\* is the change of a run that has not come to its start, be it at work still, dead
\* or declined; so what has come there is what runs, whoever installed it.
UpgradeTakesEffect ==
    running # Stopped => \A p \in {"binary", "unit"} :
        disk[p] \notin {running[p], Torn} => \E r \in Runs \ started : p \in changed[r]

\* A run is refused only for a run that is there, or a lock that has no pid: the
\* lock of a killed run is taken over.
RefusedForCause ==
    [][\A r \in Runs : pc[r] # "refused" /\ pc'[r] = "refused" =>
          lock = NoPid \/ seen[r] = NoPid \/ \E q \in Runs \ {r} : Alive(q)]_vars

\* "Any real change has to restart": a run that ends well leaves a running daemon
\* that has loaded all that is installed.
ChangesTakeEffect ==
    \A r \in Runs : outcome[r] = "ok" /\ running # Stopped => running = disk
=============================================================================
