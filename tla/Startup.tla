------------------------------ MODULE Startup ------------------------------
(***************************************************************************)
(* A daemon under systemd, from its config file to its watchers: loadConfig*)
(* and run() of src/main.go, Normalize and NotifyRepos of                  *)
(* src/internal/server/config.go, the start of both watchers of each repo  *)
(* (doorbell.watch, watchRepo), and the unit's Restart= and StartLimit*.   *)
(*                                                                         *)
(* Checkouts come, go and are redirected at any time.  What the watchers   *)
(* do once they have found their workspace is in EventTail and Doorbell.   *)
(***************************************************************************)
EXTENDS Naturals, Sequences

CONSTANTS
    Paths,      \* the paths a config may name
    Base,       \* filepath.Base of each
    NoName,     \* the name of an entry that leaves it out
    Unsafe,     \* names that are no valid path segment
    Places,     \* where br keeps workspaces
    NoNotify,   \* a config without a notify block
    Configs,    \* what the config file may hold
    NoConfig,   \* what a process that is not up has loaded
    Burst,      \* StartLimitBurst
    CanFail     \* the calls of a start that may fail: "bind", "notify"

VARIABLES
    file,   \* the config file
    broken, \* the calls of a start that fail at present
    at,     \* each path: no directory, one without a workspace, or whose place
    unit,   \* the unit, and how far its process is
    starts, \* the starts within StartLimitIntervalSec
    cfg,    \* the config the process has loaded
    errs,   \* the entries whose path failed the startup probe (r.err)
    bell,   \* each entry's doorbell watcher: off, resolve, or the place it watches
    tail    \* each entry's event tail, likewise

vars == <<file, broken, at, unit, starts, cfg, errs, bell, tail>>

\* An entry has a path that is not empty; notify is the names to watch, {} for all.
Entry   == [name : STRING, path : Paths]
Entries == UNION {DOMAIN c.repos : c \in Configs}

ASSUME ConfigsAssumption ==
    /\ \A c \in Configs : c.repos \in Seq(Entry) /\ (c.notify = NoNotify \/ c.notify \subseteq STRING)
    /\ NoConfig \notin Configs /\ Configs # {}
    /\ {"gone", "bare", "off", "resolve"} \cap Places = {}
    /\ Burst \in Nat \ {0} /\ CanFail \subseteq {"bind", "notify"}

-----------------------------------------------------------------------------
(* Normalize.                                                              *)

\* An entry without a name is named after its directory.
NameOf(e) == IF e.name = NoName THEN Base[e.path] ELSE e.name
Names(c)  == {NameOf(c.repos[i]) : i \in DOMAIN c.repos}

\* Bug: a name is looked for among the others before it has its default.
TypoMutant(c) ==
    \/ c.repos = <<>>
    \/ \E i \in DOMAIN c.repos : NameOf(c.repos[i]) \in Unsafe
    \/ \E i, j \in DOMAIN c.repos : i # j /\ c.repos[i].name = c.repos[j].name
    \/ c.notify # NoNotify /\ ~(c.notify \subseteq Names(c))

\* "[A] typo the operator has to fix, and retrying cannot help".
Typo(c) ==
    \/ c.repos = <<>>
    \/ \E i \in DOMAIN c.repos : NameOf(c.repos[i]) \in Unsafe
    \/ \E i, j \in DOMAIN c.repos : i # j /\ NameOf(c.repos[i]) = NameOf(c.repos[j])
    \/ c.notify # NoNotify /\ ~(c.notify \subseteq Names(c))

\* Probe() of every entry.
Unservable(c) == {i \in DOMAIN c.repos : at[c.repos[i].path] = "gone"}

Refused(c) == Typo(c) \/ Unservable(c) = DOMAIN c.repos

\* The entries that the notify block asks for, and NotifyRepos().
Wanted(c) ==
    {i \in DOMAIN c.repos : c.notify # NoNotify
                            /\ (c.notify = {} \/ NameOf(c.repos[i]) \in c.notify)}
NotifyRepos == Wanted(cfg) \ errs

-----------------------------------------------------------------------------
AllOff == [i \in Entries |-> "off"]

Init ==
    /\ file \in Configs
    /\ broken \in SUBSET CanFail
    /\ at \in [Paths -> {"gone", "bare"} \cup Places]
    /\ unit = "stopped" /\ starts = 0
    /\ cfg = NoConfig /\ errs = {}
    /\ bell = AllOff /\ tail = AllOff

\* The process exits with 1, or dies; Restart=on-failure waits RestartSec.
Exit ==
    /\ unit' = "waiting"
    /\ cfg' = NoConfig /\ errs' = {}
    /\ bell' = AllOff /\ tail' = AllOff

\* Bug: a repo that is absent refuses the start.
LoadMutant ==
    /\ unit = "load"
    /\ IF Typo(file) \/ Unservable(file) # {} THEN Exit
       ELSE /\ unit' = "bind"
            /\ cfg' = file /\ errs' = Unservable(file)
            /\ UNCHANGED <<bell, tail>>
    /\ UNCHANGED <<file, broken, at, starts>>

\* loadConfig, then Normalize.
Load ==
    /\ unit = "load"
    /\ IF Refused(file) THEN Exit
       ELSE /\ unit' = "bind"
            /\ cfg' = file /\ errs' = Unservable(file)
            /\ UNCHANGED <<bell, tail>>
    /\ UNCHANGED <<file, broken, at, starts>>

\* ListenSocket and ListenTCP.
Bind ==
    /\ unit = "bind"
    /\ IF "bind" \in broken THEN Exit
       ELSE unit' = "watch" /\ UNCHANGED <<cfg, errs, bell, tail>>
    /\ UNCHANGED <<file, broken, at, starts>>

\* Bug: the doorbell, too, leaves out the repos that failed the startup probe.
WatchMutant ==
    /\ unit = "watch"
    /\ unit' = "serving" /\ UNCHANGED <<cfg, errs>>
    /\ bell' = [i \in Entries |-> IF i \in DOMAIN cfg.repos \ errs THEN "resolve" ELSE "off"]
    /\ tail' = [i \in Entries |-> IF i \in NotifyRepos THEN "resolve" ELSE "off"]
    /\ UNCHANGED <<file, broken, at, starts>>

\* handler.Start: a doorbell for every served repo; events.Start, which reads
\* the state file and makes its directory: a tail for each of NotifyRepos.
Watch ==
    /\ unit = "watch"
    /\ IF "notify" \in broken /\ cfg.notify # NoNotify THEN Exit
       ELSE /\ unit' = "serving" /\ UNCHANGED <<cfg, errs>>
            /\ bell' = [i \in Entries |-> IF i \in DOMAIN cfg.repos THEN "resolve" ELSE "off"]
            /\ tail' = [i \in Entries |-> IF i \in NotifyRepos THEN "resolve" ELSE "off"]
    /\ UNCHANGED <<file, broken, at, starts>>

\* Where an entry's workspace is, by br where.
Where(i) == at[cfg.repos[i].path]

\* Bug: br where runs with the daemon's own BEADS_DIR, which beats the directory.
TailResolveMutant(i) ==
    /\ tail[i] = "resolve" /\ Where(i) \in Places
    /\ tail' = [tail EXCEPT ![i] = CHOOSE w \in Places : TRUE]
    /\ UNCHANGED <<file, broken, at, unit, starts, cfg, errs, bell>>

\* A round of watch() and of watchRepo() that finds the workspace; one that does
\* not sleeps for a minute and tries again.  What is found is never asked again.
BellResolve(i) ==
    /\ bell[i] = "resolve" /\ Where(i) \in Places
    /\ bell' = [bell EXCEPT ![i] = Where(i)]
    /\ UNCHANGED <<file, broken, at, unit, starts, cfg, errs, tail>>
TailResolve(i) ==
    /\ tail[i] = "resolve" /\ Where(i) \in Places
    /\ tail' = [tail EXCEPT ![i] = Where(i)]
    /\ UNCHANGED <<file, broken, at, unit, starts, cfg, errs, bell>>

\* A signal or a panic ends a process that serves.
Crash == unit = "serving" /\ Exit /\ UNCHANGED <<file, broken, at, starts>>

-----------------------------------------------------------------------------
(* systemd, the operator, and the box.                                     *)

\* RestartSec has passed: another start, unless there were Burst of them.
Launch ==
    /\ unit = "waiting"
    /\ IF starts < Burst THEN unit' = "load" /\ starts' = starts + 1
       ELSE unit' = "failed" /\ UNCHANGED starts
    /\ UNCHANGED <<file, broken, at, cfg, errs, bell, tail>>

\* StartLimitIntervalSec passes; Burst failing starts, RestartSec apart, take
\* less, so that it passes only where the unit stays for long.
Interval ==
    /\ unit \in {"serving", "failed"} /\ starts > 0
    /\ starts' = 0
    /\ UNCHANGED <<file, broken, at, unit, cfg, errs, bell, tail>>

\* The operator, or setup.sh: systemctl reset-failed, then start or restart.
Start ==
    /\ unit \in {"stopped", "serving", "failed"}
    /\ unit' = "load" /\ starts' = 1
    /\ cfg' = NoConfig /\ errs' = {}
    /\ bell' = AllOff /\ tail' = AllOff
    /\ UNCHANGED <<file, broken, at>>

Edit ==
    /\ file' \in Configs \ {file}
    /\ UNCHANGED <<broken, at, unit, starts, cfg, errs, bell, tail>>

\* An address is taken or free, a state directory writable or not.
Break ==
    /\ broken' \in SUBSET CanFail \ {broken}
    /\ UNCHANGED <<file, at, unit, starts, cfg, errs, bell, tail>>

\* A checkout is archived, cloned, initialized, or redirected.
Move(p) ==
    /\ \E v \in ({"gone", "bare"} \cup Places) \ {at[p]} : at' = [at EXCEPT ![p] = v]
    /\ UNCHANGED <<file, broken, unit, starts, cfg, errs, bell, tail>>

-----------------------------------------------------------------------------
Begin == Load \/ Bind \/ Watch

Next ==
    \/ Begin \/ Launch \/ Interval \/ Crash \/ Start \/ Edit \/ Break
    \/ \E i \in Entries : BellResolve(i) \/ TailResolve(i)
    \/ \E p \in Paths : Move(p)

Spec == Init /\ [][Next]_vars

\* The process runs, systemd restarts it, and each watcher tries every minute.
Fairness ==
    /\ WF_vars(Begin) /\ WF_vars(Launch)
    /\ \A i \in Entries : WF_vars(BellResolve(i)) /\ WF_vars(TailResolve(i))

FairSpec == Spec /\ Fairness

-----------------------------------------------------------------------------
\* The types; and of what is loaded, that a name is one repo, with one cursor and
\* one tail, also where a name is only that of a directory.
TypeOK ==
    /\ file \in Configs /\ broken \subseteq CanFail
    /\ at \in [Paths -> {"gone", "bare"} \cup Places]
    /\ unit \in {"stopped", "load", "bind", "watch", "serving", "waiting", "failed"}
    /\ starts \in 0..Burst /\ cfg \in Configs \cup {NoConfig}
    /\ cfg # NoConfig <=> unit \in {"bind", "watch", "serving"}
    /\ errs \subseteq Entries /\ (cfg # NoConfig => errs \subseteq DOMAIN cfg.repos)
    /\ bell \in [Entries -> {"off", "resolve"} \cup Places]
    /\ tail \in [Entries -> {"off", "resolve"} \cup Places]
    /\ unit # "serving" => bell = AllOff /\ tail = AllOff
    /\ cfg # NoConfig => \A i, j \in DOMAIN cfg.repos :
                            NameOf(cfg.repos[i]) = NameOf(cfg.repos[j]) => i = j

\* "[O]therwise it would retry [...] forever in activating (auto-restart), which
\* never reaches failed": whatever goes wrong and changes under it, a unit that
\* waits for a restart comes to serve or fails loudly.  And "one archived checkout
\* cannot take every healthy repo offline with it": where the config has no typo,
\* no call fails and one repo is there, every start comes to serve.
RestartsSettle ==
    /\ unit = "waiting" ~> unit \in {"serving", "failed"}
    /\ \A c \in Configs : \A i \in DOMAIN c.repos :
         [](file = c /\ ~Typo(c) /\ broken = {} /\ at[c.repos[i].path] # "gone")
             => (unit = "load" ~> unit = "serving")

Here(i) == unit = "serving" /\ i \in DOMAIN cfg.repos /\ Where(i) \in Places

FoundAt(i, w) == bell[i] = w /\ (i \in Wanted(cfg) => tail[i] = w)

\* "Repos whose path is unusable or whose br where fails sit out a round and are
\* retried": a workspace that comes to stay is watched without a restart by its
\* doorbell, and by a tail unless its path was gone when the daemon started.  And
\* what a process has found or left out for good, the next one looks for again:
\* after a start past which a path stays with one workspace, every watcher the
\* config asks for is at that workspace, whatever was there before.
Heals ==
    /\ \A i \in Entries :
         /\ <>[]Here(i) => <>[](bell[i] \in Places)
         /\ <>[](Here(i) /\ i \in NotifyRepos) => <>[](tail[i] \in Places)
    /\ \A h \in Paths, w \in Places :
         <>(unit = "load" /\ [](at[h] = w)) /\ <>[](unit = "serving")
             => <>[](unit = "serving" /\ \A i \in DOMAIN cfg.repos :
                                           cfg.repos[i].path = h => FoundAt(i, w))

\* "A broken repo sits out and retries every minute", for the feed as well.
EveryRepoIsTailed ==
    \A i \in Entries : <>[](Here(i) /\ i \in Wanted(cfg)) => <>(tail[i] \in Places)

\* "[S]o a .beads/redirect resolves here exactly as it does for every other
\* command": both watch the workspace that br uses.
WatchesWhatBrUses ==
    \A i \in Entries, w \in Places :
        <>[](Here(i) /\ Where(i) = w) => <>[](bell[i] = w /\ tail[i] \in {"off", w})
=============================================================================
