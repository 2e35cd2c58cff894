# beads_watch in TLA+

`beads_watch` is a small daemon that puts the `br` issue tracker of one box on
the network: it runs `br` for remote callers, tells who they are, rings a
doorbell when a repo's beads change, and publishes br's audit log to an ntfy
broker. This directory is its verification development: TLA+ modules translated
from the Go and shell sources, TLC configurations that check them on small
instances, and theorems that TLAPS checks for all values of the constants.

    tlc -workers 2 -config MCEventTailOne.cfg MCEventTail    # one run
    tlapm EventTailProofs.tla                                # one proof module

`PROJECT.json` holds the machine-readable side: which lines each definition
stands for (`map`), the runs, a plausible bug per property that must break it
(`mutants`, the `...Mutant` operators in the modules), the hazards of the code
and what covers them.

## 1. The system

| part | source | state it keeps | operations |
|---|---|---|---|
| events tailer | `internal/events/events.go` | per repo: last stamp, last poll, current batch; shared: `cursors` under `Watcher.mu` | resolve, tick, drain, setCursor, checkRegression |
| event publishing | `internal/events/publish.go` | none | truncate, publishEvent: firehose, then the assignee's dispatch topic |
| state file | `internal/events/events.go` | `events-cursor.json`, its `.tmp` | loadState, saveState |
| doorbell | `internal/server/doorbell.go` | one fingerprint per repo; the registry of listeners and their channels | watch, ring, subscribe, handleEvents |
| br request handler | `internal/server/server.go` | none beyond the request | handleBr |
| argv policy | `internal/server/server.go` | none | buildArgv, deniedFlag, requestedFormat |
| br runner | `internal/brexec/brexec.go` | one child process per call | Run |
| caller identity | `internal/server/server.go`, `internal/tsidentity` | the whois cache | ConnContext, identify, WhoIs |
| life cycle, unix socket | `main.go`, `internal/server/listen.go` | the socket path in the file system | run, ListenSocket, Shutdown |
| tcp listener | `internal/server/listen.go`, `freebind_*.go` | none | ListenTCP |
| configuration | `internal/server/config.go`, `internal/events/config.go` | none after startup | LoadConfig, Normalize, NotifyRepos |
| health, whoami, repos | `internal/server/server.go` | none | three reads |
| installer | `setup.sh` | a lock directory; binary, config, unit on disk | install, upgrade, verify |
| systemd unit | `systemd/beads_watch.service` | systemd's | Restart=on-failure, StartLimitBurst |
| release publishing | `scripts/publish-dist.sh`, `.github/workflows` | files | build, checksum, upload |

How they meet:

* br (external) writes a repo's sqlite database and, later, its JSONL export.
  The **tailer** polls the database (sizes and mtimes first, a query when they
  move or once a minute), the **doorbell** polls the export. Neither talks to
  the other.
* All tailer goroutines share one `cursors` map and one **state file**; each of
  them saves everybody's cursors.
* A **request** passes the policy, then identity, then the **runner**, which
  forks br; br processes of concurrent requests meet at `.beads/.write.lock`.
* The **identity** cache is shared by all requests; its lock is not held while
  `tailscale whois` runs.
* At each start the **configuration** is judged once; which repos were absent then
  decides which of them the tailer will ever see, while doorbell and requests probe
  again.
* Processes of the **daemon** share nothing but the socket path; the
  **installer** and systemd start, stop and replace them.

What is hard, and what makes each part correct:

| part | what is hard | what must hold |
|---|---|---|
| tailer, publishing | one event is two publishes and a cursor move; any fails alone; restarts anywhere; commits during a drain; a rebuilt database | at-least-once, in order, no lost assignment, no replay behind a saved cursor, every row heard in the end; one repo's rows take nobody down |
| state file | goroutines write one tmp path; any system call fails | a save is atomic, no save undoes a later setting of a cursor |
| doorbell | writes between the stat and the ring, full channels, slow clients, the WAL moved by readers | no change is lost on the way to a client that reads; reads ring nothing; places come back |
| publishing | a text is measured in bytes and cut in runes; a topic has a maximal length | no text ends the process; every assignee has a topic |
| policy, environment | flags have several forms, and br stops reading them at `--`; variables are inherited | br is told no other workspace and no other actor; the label is the format |
| br request | deadline against commit and exit; a br that hangs with the write lock; a checkout that vanishes | a reported exit is br's own; a refusal ran nothing; an answer leaves nothing running; every request is answered |
| identity | overlapping lookups that end out of order, cancelled callers, moving addresses | what is verified was vouched for, recently; a failure is forgotten |
| life cycle | stat, dial, remove, bind on a path others change; streams that never end | whoever serves is reachable; a stale socket refuses nobody; a stop ends |
| configuration, unit | starts that fail for causes that come and go, under a limit; checkouts absent at startup | a restart ends in service or in failure; one absent repo stops no other; what comes later is watched |
| installer | concurrent and killed runs; the daemon stops and starts by itself | one at a time; what is installed can run; an upgrade takes effect |

The full list of hazards, each at its line, is in `PROJECT.json`.

## 2. The modules

Every module takes one interaction with something shared (a system call, a
critical section, an HTTP exchange, a fork) as one step, and everything the code
does up to the next such interaction as part of it. Data is abstracted to what
the properties tell apart. The repos, requests, clients, processes are
CONSTANTS; bounds are CONSTANTS with `Max` in their name and appear in guards.

| module | models | composed with |
|---|---|---|
| `EventTail` | tailer, publishing, cursors and their saves, all repos together; br, clock, broker, disk, restarts around them | INSTANCEs `Feed` |
| `EventText` | truncate() and sanitizeTag() on the sizes of texts: bytes, runes | extended by `EventTail` |
| `Feed` | the abstract at-least-once, in-order feed with a saved position | - |
| `CursorStore` | the abstract store: cursors set one at a time, saved together, found as saved | - |
| `StateFile` | saveState and loadState call by call | INSTANCEs `CursorStore`, as `EventTailProofs` does: what links its system calls to `EventTail`'s one-step save |
| `Invocation` | the argv policy, br's environment, how br reads what it is given | extended by `BrRequest` |
| `Doorbell` | watchers, registry, handlers, clients | - |
| `BrRequest` | handleBr, Runner.Run, br and its write lock | extends `Invocation` |
| `Identity` | identify, WhoIs and its cache | - |
| `Daemon` | run(), ListenSocket, Shutdown | - |
| `Startup` | Normalize, NotifyRepos, run() up to its watchers, the unit's restarts and their limit | - |
| `Setup` | the installer's lock, replacements, restart, verification | - |
| `EventTailProofs` | theorems about `EventTail`, `EventText`, `Feed` | extends `EventTail` |
| `BrRequestProofs` | theorems about `BrRequest`, `Invocation` | extends `BrRequest` |
| `StateFileProofs`, `DoorbellProofs`, `DaemonProofs`, `IdentityProofs`, `SetupProofs`, `StartupProofs` | theorems | extend their module |
| `MC*` | the finite instances | extend their module |

### EventTail

| TLA+ | code |
|---|---|
| `pc[r]` | where the goroutine `watchRepo` is: `resolve`, the `tick` select, the cursor `query`, `publish`/`dispatch`/`advance` in the loop over rows, `save`; `regress`/`reset`/`resave` are `checkRegression`, `seed`/`first` the first sight of a repo |
| `cursor`, `file` | `Watcher.cursors`, and what a restart would read from the state file |
| `changed`, `moved`, `due` | stamp # lastStamp; the files moved after this tick's `statStamp()`; `time.Since(lastPoll) >= forcePoll` |
| `log`, `nextId`, `gen` | br's `events` table, its AUTOINCREMENT, and how often the database was rebuilt |
| `heard`, `dispatched` | what the broker's topics have received |
| `start` | history: where the feed of a repo last began |
| `QueryRows`, `QueryNone`, `Firehose`, `Dispatch`, `Advance`, `SaveOk` | `drain()`, statement by statement |
| `QueryFails`, `PublishFails`, `SaveFails` | its error returns; a lost answer leaves the message delivered |
| `Panic` | `truncate()` in `event()`: the process ends and starts over, all goroutines with it |
| `Texts` | what the fields and the assignee of each row may be when a query reads them: the issue's title and assignee are joined in, so that they can change between two queries |
| `BrCommit`, `BrDelete`, `BrRebuild`, `Minute`, `Restart` | the environment |

`SaveMayFail`, `MayCorrupt` and `MayMissStamp` switch faults on and off, so that a
run can say what holds on a working disk and what holds on any.

### The others

* **StateFile**: mutex, marshal, open(O_TRUNC) of the tmp file, write, rename;
  a file may be `Torn`. Any call fails; a restart comes between any two. `drain()` raises
  a cursor, `checkRegression()` lowers it, so that an id does not tell which of two maps
  is newer; a cursor carries `nth`, a history variable that counts its settings.
* **Doorbell**: `wpc`/`last` are a watcher; `listeners`, `wants`, `ch` the
  registry; `conn` a handler; `stale` the repos mutated since an open client last asked
  br. A version number stands for the export's size and mtime, and `SameStamp` lets two
  exports have the same. `Buffer` is the channel's capacity (16 in the code).
* **BrRequest**: `Receive` looks the repo up and probes the checkout before the
  body, `Parse` judges the body, `Fork`, `Expire`, `Hangup`, `Kill`, `Collect` are
  `Runner.Run`. br is external: it takes the lock, commits, exits, or is killed by
  someone else, or hangs at any of these points; with `LeavesChildren` it may leave a
  child that keeps its output open, for which `cmd.Run` waits.
* **Invocation**: a word is the part before its first `=` and the part behind it, which
  is all that whole-word and `flag=` comparisons tell apart. `Promised`, `Bounded` and
  `Labelled` are the reference: they look at the vector as br reads it, options up to
  `--`, and not at what the policy computed.
* **EventText**: `Capacity` is what the Go allocator gives `[]rune(s)`, rounded to its
  size classes; between length and capacity a slice is padded with NULs, past the
  capacity it panics.
* **Startup**: `at` is the box (a path without a directory, without a workspace, or
  with one), `errs` the startup probe's verdicts, `bell` and `tail` where each watcher
  looks; `starts` counts what systemd counts.
* **Identity**: time is kept as ages that stop at the largest the code tells
  apart (TTL + Timeout); `lastHeld`, `lastFail` and `named`, whom whois has named for
  each address, are history.
* **Daemon**: a path names at most one socket, called by the process that bound
  it; closing a Go listener unlinks the path whatever is there, and
  `run()`'s deferred `os.Remove` does so again. `Overlaps` says which starts and
  stops may overlap, `DialFails` whether the dial of a live daemon may fail.
* **Setup**: `disk` against `running` is what is installed against what the
  daemon has loaded; `changed` holds BINARY_CHANGED and UNITS_CHANGED; `goal` is the
  release each run installs. A binary is `Torn` between install(1)'s unlink and the end
  of its copy; such a one does not start and has no commit. `started` and `installer`
  are history: who has come to its start, who was last through install_binary.

## 3. The runs

Deadlock is checked in all of them. Each takes a minute or two at most.

| run | cfg | shows |
|---|---|---|
| `tail_one` | MCEventTailOne | One repo, four rows, batches of two, deletes, failing publishes, a row whose title may be one that panics, two restarts, a disk that works: `InOrder`, `NoGapForSubscriber`, `NoReplayOfSaved`, and `NoSleepOverRows` (a goroutine never waits for its tick with rows pending and a stamp that looks unchanged) |
| `tail_two` | MCEventTailTwo | Two repos that save each other's cursors, failing saves, a corrupt file: `NoLoss`, `NoLostAssignment`, the refinement `ImplementsFeed`, the inductive invariant `IInv` |
| `tail_live` | MCEventTailLive | Under fairness, with commits that leave no trace in the stamp and a rebuild: `EventuallyHeard`, `SavedWhenQuiet`, `NeverSilent` |
| `tail_wide` | MCEventTailWide | **violated**: `NeverTakenDown` |
| `state_file` | MCStateFile | Two goroutines that raise and lower their cursors and save, any call failing, restarts anywhere: the refinement `ImplementsStore`, `NeverBackwards`, and in `TypeOK` that no rename misses its tmp file |
| `bell` | MCDoorbellBell | Three clients, two places, two of them may stop reading, two repos on channels of one event: `Current`, `RingsForWritesOnly`, `EventuallyCurrent` |
| `daemon_serial` | MCDaemonSerial | Starts and stops one at a time, crashes anywhere: `Reachable`, `RefusedByLiveOnly`, `StopsInTheEnd` |
| `identity` | MCIdentitySafe | Two requests for one address that moves: `VouchedFor`, `FreshIdentity`, `UnverifiedHasCause` |
| `identity_poison` | MCIdentityPoison | **violated**: `OwnMachine` |
| `br` | MCBrRequestTwo | Two requests, each of any class of vector or fault, one lock, br that hangs: `ExitIsBrsOwn`, `RunsWhatItMay`, `NothingRunsOn`, `EveryRequestAnswered` |
| `setup_two` | MCSetupTwo | Two installer runs, of one release or of two, killed or not, a copy cut short: `OneAtATime`, `InstalledRuns`, `UpgradeTakesEffect`, `RefusedForCause` |
| `startup` | MCStartupUnit | A config file that is edited, checkouts that come and go, starts that fail: `RestartsSettle`, `Heals` (what comes is found without a restart, what moved after one) |

### Bounds, and why they are enough

* Four rows and batches of two give a full batch, a further query, a partial
  batch and an empty query, with a restart in each. Two rows over two repos
  (`TwoRows`) are what it takes for one repo to be anywhere in a batch of two
  while the other resolves, saves, or is itself mid-batch; created rows and
  stamps that miss a commit are left to the other two runs. The proofs carry the
  safety results to any number.
* Two restarts let a first one lose memory and a second one act on what the
  first left in the file.
* In `bell` one channel place and two repos per channel are the smallest case in
  which a ring finds the channel full of *another* repo's event; three clients
  for two places fill the registry. One repo's export is written twice, so that a
  write falls between any two steps of the watcher that an earlier write set
  going. What a client may ask for is fixed per client, one of them with a choice.
* Identity: TTL 2 and Timeout 1 let a lookup that began before an answer was
  cached store its own after it.
* `state_file`: three ids, and two settings of each cursor in a row, so that it goes up
  and down around a save; two stops.
* `setup_two`: each part of each run's release is old or new, so that the second run may
  bring the same, go back, or share only the unit.
* Daemon: three processes let one crash, one take over and one start against it.
* `br`: the vectors are one for each path through buildArgv: allowed with and without
  a format and a lock timeout of their own, each refusal, each denied flag in one of its
  forms. `ServedKeepsPromises` carries the policy to every vector.
* `startup`: two paths, two places for workspaces and four configs, among them a name left out, a name used twice
  that way, a notify block that names a repo that is not served, and none; three starts
  in an interval let a start fail, a second one meet a box that has changed, and a third
  one hit the limit.
* `tail_live` has `Created` empty and one restart, which keeps the tableau
  small: a created row differs from an assigned one only in that its dispatch is
  optional.

### Fairness

* `EventTail`: weak fairness of each goroutine (the Go scheduler) and of the
  clock. Strong fairness of a successful query, publish and save: they may fail
  any number of times but not for ever, which is what "an ntfy outage delays
  the feed" presupposes. Nothing is assumed of br, and restarts are bounded.
* `Doorbell`: watchers and handlers run, br finishes the exports it owes, clients
  outside `Slow` read. Nothing is assumed of slow clients.
* `Daemon`: each process runs; clients never have to close their streams, the
  ten-second limit of `Shutdown` ends them.
* `BrRequest`: the handler runs and its deadline passes. br may hang with the
  lock, and a client need not send its body (no read timeout covers it, so
  `EveryRequestAnswered` promises an answer from the fork on).
* `Startup`: a process runs, systemd restarts it after RestartSec, each watcher tries
  once a minute. Nothing is assumed of the operator or of the box.

## 4. What the proofs show

Every safety invariant and every action property that a run checks is stated by a theorem
here. Where a safety promise is broken, or holds only with a fault switched off, a
theorem says under which condition it is kept, so that nothing else breaks it.

**The tailer** (`EventTailProofs`). Assumptions are those in `EventTail`: `NoCursor` is not a number, `MaxId`, `MaxCrash`
and `MaxRebuild` are naturals, the batch limit is positive, the switches are
Booleans. Nothing else: the repos are any set, faults are on or off, `Assigned` and
`Created` are any sets of ids, `Texts` any texts.

| theorem | statement |
|---|---|
| `TypeCorrect` | `Spec => []TypeOK` |
| `Inductive` | `Spec => []IInv` |
| `AtLeastOnce` | `Spec => []NoLoss` |
| `AssignmentsKept` | `Spec => []NoLostAssignment` |
| `OrderKept` | `Spec => []InOrder` |
| `NoReplay` | `Spec => NoReplayOfSaved` |
| `NoGap` | `Spec => []NoGapForSubscriber`, when `SaveMayFail` and `MayCorrupt` are FALSE |
| `NeverSleepsOverRows` | `Spec => []NoSleepOverRows` |
| `Implements` | with `MaxRebuild = 0`, `Spec => F!Spec` |
| `FeedKeepsPromises` | `F!Spec => []F!Promised`: the abstract feed alone is at-least-once and in order |
| `TailUsesStore` | `Spec => Store!Spec`, the store of `CursorStore` |
| `TakenDownByFewRunesOnly` | `Spec => NeverTakenDown`, when no text has more than 700 bytes and at most 512 runes |
| `IdsUniqueWithoutRebuild` | with `MaxRebuild = 0`, `Spec => []DedupKeyUnique` |

`NoLoss` alone is not inductive. It says that cursors pass only heard rows, but not
why the row a goroutine is about to pass has been heard, nor why a file written
by *another* goroutine half way through our batch claims no more than that.
`IInv` is `TypeOK` and, for each repo, a conjunction of named parts:

* `RowsOK`: rows are of their database's generation and AUTOINCREMENT is ahead of them;
* `Known`: every id in a cursor, in the file, in a batch or heard is behind the
  next id, so what br commits later is ahead of everything the daemon knows;
* `Fed`: `NoLoss`, `NoLostAssignment` and `InOrder` for this repo;
* `Batched`: the batch is the contiguous run of existing rows behind the cursor,
  and its head is heard (dispatched) once `pc` says so; this is what `Advance`
  needs;
* `Staged`: a tip that was read before br committed or deleted more is stale only
  in the safe direction; this is what `Seed` and `Reset` need, whose MAX(id) and
  whose assignment are two steps;
* `Saved`: the file never claims more than memory does about rows that exist; this
  is what makes `Restart`, which replaces memory by the file, harmless.

All but `RowsOK` speak of a repo whose database has not been rebuilt. The
preservation proofs have one step per action: the goroutine's own steps first
(`TailType`, then one lemma per group of actions), then br's, then
restart, which needs `Saved` for all repos at once. `tail_two` checks the same
`IInv` with TLC.

`NoGap` strengthens `IInv` by `Anchored`: whatever the topic has heard is ahead of where
the feed started, because a repo that anybody has heard of has its cursor in the file and
so is never at first sight again. That is what a failed save or a corrupt file breaks:
MCEventTailGap and MCEventTailCorrupt are the counterexamples without the one assumption
and the other. `NeverSleepsOverRows` has an invariant of its own (`Awake`), in which every
row a drain leaves behind has moved the files since its tick read the stamp.

`Implements` maps a save to `Feed!Save`, first sight to `Begin`, a publish (also one
whose answer was lost) to `Publish`, a restart over a corrupt file to `Forget`, and
everything else to a stutter. That `F!Spec` is worth implementing is `FeedKeepsPromises`: its
invariant (`Behind`) is that every position and message is behind br's next id, which is
why `Feed` lets no saved position point at an id still to come.

`TakenDownByFewRunesOnly` and `IdsUniqueWithoutRebuild` are the other sides of the run
`tail_wide` and of MCEventTailDedup: those texts, and rebuilt databases, are the whole
cause. The one needs that every row there is has one of the `Texts` (`InTexts`), the other
that what the topic has heard is of one generation (`HeardOnce`).

**Texts** (`EventTailProofs`). `PanicIffFewRunes`: a text ends the process exactly when
it has more than 700 bytes and at most 512 runes. `AsciiNeverPanics`, `TruncatedFits`
(2100 bytes at most). `ShortPrefixDelivers`: every assignee has a topic the broker takes
just when the prefix has at most four characters; the default one has six.

**Policy and environment** (`BrRequestProofs`). `ServedKeepsPromises`: whatever vector
passes, from whatever environment the daemon was started in, br is told no other
workspace and no other actor, and the caller's words are all there. `LabelledUnlessDashed`:
without the word `--` the answer's label is a format br was told to answer in, and br is
told how long to wait for the lock. What needs an argument is that the first word that
chooses a format is the same to the policy and behind the daemon's own globals; it is
picked by the least-number principle (`FirstChoiceExists`).

**Requests** (`BrRequestProofs`), for any number of requests and any asks.

| theorem | statement |
|---|---|
| `TypeCorrect` | `Spec => []TypeOK` |
| `OwnExit` | `Spec => []ExitIsBrsOwn` |
| `NothingLeft` | `Spec => []NothingRunsOn` |
| `RunsNoMore` | `Spec => []RunsWhatItMay`, when no ask has the word `--` |
| `OddExits` | `Spec => []ExitsExplained`: a missing X-Br-Exit hides a write only behind a 504; an exit that is none of br's codes means a signal that was not the daemon's |

The invariant adds to `TypeOK`: what a br can be at each place of its handler
(`BrByPlace`), that the lock is held by a live writer only (`LockByWriter`), and that an
answer was made from the br that is still on record (`AnswerByBr`). The two theorems of
`Invocation` turn `Refusal(input) = 0` into what br is told.

`OddExits` bounds what MCBrRequestAbsent and MCBrRequestTyped show.

**State file** (`StateFileProofs`), for any number of goroutines: `TypeCorrect`,
`StateFileIsStore` (`Spec => ImplementsStore`), `NoSaveUndoes` (`Spec => NeverBackwards`: no
save undoes a later setting, be it an advance or a reset; the id itself may fall, by a reset).
The invariant says who is inside the mutex, what it has marshalled, what its tmp file holds,
and that the file is behind the cursors in the order of their settings; mutual exclusion is what keeps the others' steps from disturbing it.
The refinement maps the rename to `CursorStore!Save` (`SaveIsAtomic`: it makes the file the
cursors of that very moment), a restart to `Restart`, and all other calls to stutters.
`EventTail`, whose save is one step, implements the same store (`TailUsesStore`): that is
its licence for saving in one step.

**Doorbell** (`DoorbellProofs`), for any repos, clients, buffer and cap.

| theorem | statement |
|---|---|
| `TypeCorrect` | `Spec => []TypeOK`, the cap of the registry and of each channel included |
| `WritesOnly` | `Spec => []RingsForWritesOnly` |
| `NoChangeLost` | `Spec => []Current`, when `LateWatchers` and `SameStamp` are FALSE |

The two conditions of `NoChangeLost` are needed: MCDoorbellLate and MCDoorbellStamp are
its counterexamples without the one and the other.

**Daemon** (`DaemonProofs`), for any number of processes: `TypeCorrect` however they
overlap; `ServingIsReachable` and `StaleNeverRefuses` when `Overlaps = {}` and a live daemon
answers a dial (`~DialFails`). The invariant
says that a process past its dial, or on its way out, is alone, and what the path names
at each place of a start. MCDaemonRace, MCDaemonStop and MCDaemonDial are the
counterexamples where starts, or a start and a stop, overlap, or a dial fails;
`ReachableIfRemovedAlone` says that there are no others: whatever overlaps, a daemon loses its path only while some process is between its
dial and its os.Remove, or on its way out (`RemovesAlone`).

**Identity** (`IdentityProofs`), for any requests, addresses, peers, `TTL` and `Timeout`.

| theorem | statement |
|---|---|
| `TypeCorrect` | `Spec => []TypeOK` |
| `IdentitiesVouchedFor` | `Spec => []VouchedFor` |
| `IdentitiesFresh` | `Spec => FreshIdentity` |
| `UnverifiedForCause` | `Spec => UnverifiedHasCause` |
| `OwnMachineUnlessAbandoned` | `Spec => []OwnMachine`, when no lookup fails or is abandoned and no address moves |

The invariant relates the cache to what tailscale knew: an entry of age n names a machine
that held the address at most n + `Timeout` ago, or remembers a failure at most n old
(`Remembered`); an answer on its way is no older than its lookup (`ToldLately`). Overlapping
lookups that store out of order keep it, because what each stores is as old as itself.
`IdentitiesVouchedFor` has an invariant of its own (`Named`): whatever peer the cache holds
for an address, and whatever answer is on its way to it, whois has named for that address.
`OwnMachineUnlessAbandoned` is the other side of `identity_poison`.

**Installer** (`SetupProofs`), for any number of runs unless said otherwise.

| theorem | statement |
|---|---|
| `TypeCorrect` | `Spec => []TypeOK` |
| `OneAtATimeIfDeadLock` | `Spec /\ []ClearsDeadLock => []OneAtATime` |
| `RefusedIfDeadLock` | `Spec /\ []ClearsDeadLock => RefusedOrOvertaken`: for cause, or because the lock just cleared was taken by another |
| `TwoRunsOneAtATime` | `OneAtATime` and `RefusedForCause` with no condition, when there are at most two runs |
| `WellEndedIsInstalled` | `Spec /\ []ClearsDeadLock => []InstalledRuns` |
| `ChangesAreLoaded` | `Spec => []UpgradeTakesEffect` |

`ClearsDeadLock` says that whoever is at the `rm -rf` of setup.sh:406 removes no lock that
another run has made or taken since it was judged. It forbids no takeover that has a rival:
others may read, judge and clear the same lock at the same time, and lose the mkdir. With it
the lock is always that of the one run inside (`Holds`). Two runs meet it by themselves, since
a pid that was read is the other run's and that run is dead (`PidsPast`); three need not,
which is MCSetupRace. `InstalledRuns` needs it too, as runs may install different releases:
two at once can each install what the other does not expect. `UpgradeTakesEffect` needs no
lock: its invariant (`StaleHasCause`) follows each change from the run that wrote it to that
run's start, so that a change nobody noted, or one that a start does not load, breaks it.

**Start** (`StartupProofs`), for any configs, checkouts and failures: `TypeCorrect`, whose
point is that of what is loaded a name is one repo, and `WatchersFixedAtStart`: while a
process serves it has a doorbell for each repo and a tail for each of NotifyRepos(), and
nothing that happens adds or removes one, which is MCStartupAbsent's cause.

**Only model-checked.** Liveness: `EventuallyHeard`, `SavedWhenQuiet`, `NeverSilent`,
`EventuallyCurrent`, `StopsInTheEnd`, `EveryRequestAnswered`, `RestartsSettle`,
`Heals` rest on fairness and ENABLED, which are outside what is proved here.
What a recursive definition computes for every input would need induction over data, and
stays with TLC too.

## 5. Where the code and its words part

Two runs are expected to fail; each quotes what the repository says.

* **`tail_wide`**, `publish.go:49`. `len(*f) > fieldCap` counts bytes,
  `[]rune(*f)[:fieldCap/4*3]` slices runes: a text of more than 700 bytes and at most 512
  runes, 240 Chinese characters say, slices past the capacity and panics. Nothing
  recovers in the goroutine, so the process ends, and after the restart the same row ends
  it again. events.go:41-42: "A broken repo must never take the daemon down with it";
  EVENTS.md:124-125: "It never takes the daemon or the other repos down."
* **`identity_poison`**, `tsidentity.go:126`. Every error is cached for a TTL, the
  one of a lookup killed because its caller hung up as well; the next caller from
  that address is unverified though tailscale knows the machine (README.md:313-315
  promises `verified: true`).

More cfgs are kept for the boundary of a property that otherwise holds. TLC finds
each of them violated; the trace is the documentation. (MCIdentityPair is the exception: it
holds, and shows `VouchedFor` over two addresses, which is more than `identity` has.)

| cfg | property | what the trace shows |
|---|---|---|
| MCEventTailDedup | `DedupKeyUnique` | After a rebuild checkRegression resets the cursor to the new tip and later rows reuse ids (`events.go:294`); a rebuild past the cursor is not even noticed. EVENTS.md:89-90: "`event_id` is the repo's audit-log rowid: unique per repo, strictly increasing, and the dedup key": a subscriber that deduplicates drops new events |
| MCEventTailTopic | `EventuallyHeard` | An assignee of 58 characters and more makes, with the default prefix, a topic longer than the 64 the broker takes (`publish.go:75`); the publish is retried for ever and every later row of the repo waits behind it |
| MCEventTailGap | `NoGapForSubscriber` | The save at first sight fails after the cursor is set in memory (`events.go:199`); the retry finds an entry and saves nothing before the next event. A restart in between starts over at the tip (`internal/events/config.go:37-38`: "a restart neither replays history nor drops events") |
| MCEventTailCorrupt | `NoGapForSubscriber` | With a corrupt file (`events.go:397`) rows committed while the daemon was down are skipped; the comment above says "loses no future events, only suppresses a replay" |
| MCDoorbellLate | `Current` | A client connects and asks br before the first stat of its repo's watcher; a write between is swallowed into the baseline (`doorbell.go:156`, against 17-21) |
| MCDoorbellStamp | `Current` | Two exports of one size within one mtime tick: the second moves nothing the watcher looks at (`doorbell.go:167`), and there is no safety poll |
| MCStartupAbsent | `EveryRepoIsTailed` | A repo absent at startup comes later: doorbell and requests find it, the tailer never does (`config.go:273`, against EVENTS.md:124 "A broken repo sits out and retries every minute") |
| MCStartupMoved | `WatchesWhatBrUses` | A redirect changes while the daemon runs: both watchers stay with the place they found first (`events.go:172`, `doorbell.go:114`, against events.go:152-153 "so a .beads/redirect resolves here exactly as it does for every other command") |
| MCDaemonRace | `Reachable` | Two starts overlap: both find the socket stale, and the slower removes what the faster has just bound (`listen.go:24`, against line 12) |
| MCDaemonDial | `Reachable` | The dial of a daemon that serves fails, its backlog being full: any error counts as a stale socket, and the start removes the path and binds it (`listen.go:18-24`, against line 12) |
| MCDaemonStop | `Reachable` | A daemon that drains its streams has unlinked the path; a new one binds it; the old one's deferred Remove deletes it (`main.go:138`) |
| MCBrRequestAbsent | `AbsentMeansNothingDone` | The deadline passes between br's commit and its exit: 504, no X-Br-Exit, and the write is done (`brexec.go:200`, against `server.go:465-466`) |
| MCBrRequestTyped | `ExitIsTyped` | br killed from outside: X-Br-Exit is -1, none of the typed codes of `brexec.go:61-62` |
| MCBrRequestDashes | `RunsWhatItMay` | `comments -- --json`: the policy sees a format and leaves `--json` out, br sees plain text, and the answer is labelled JSON (`server.go:569`) |
| MCBrRequestChild | `EveryRequestAnswered` | br leaves a child that keeps its output open: br is killed at the deadline, `cmd.Run` waits for the pipe for as long as the child lives (`brexec.go:172`, no WaitDelay) |
| MCSetupStale | `ChangesTakeEffect` | A run that only changes the config reports success over a daemon that still has the old one, as would a run after one that died between replacing the unit and the restart (`setup.sh:1261`, against 1258-1259 "Any real change has to restart") |
| MCSetupRace | `OneAtATime` | A run has read the pid of one that then ends; before its `rm -rf` (`setup.sh:406`) a third takes the lock; both go on, against line 412's "another setup.sh is running" |

`OneAtATime` deserves the warning: it holds for two runs, killed or not, and not
for three. To go wrong it takes a run that ends, a second that has read the
first's pid and finds it dead, and a third that takes the lock between that
judgement and the `rm -rf`. `setup_two` says what two people at one box can rely on;
MCSetupRace says where that ends.

## 6. Not modelled, and why

* The wording of titles, tags and errors, JSON decoding, schema probing, logging: layout
  and data. `RunsWhatItMay` and the text of an event are the two places where data
  decides control, and there it is modelled by sizes and by words.
* The capped output buffers: an answer that is cut short says so in a header.
* A batch whose JSON is larger than 8 MiB, which would fail to parse at every retry: rows
  have no size in bytes beyond the fields that are cut.
* The scalars of the configuration, the flags that override them, parsing of addresses
  and of the trusted proxies' networks (`Identity` takes the verdict as an input).
* health, whoami, repos: reads that keep nothing.
* TCP: `StartFails` of `Daemon` and `Bind` of `Startup` stand for any bind error;
  IP_FREEBIND is one option.
* That a stop with open streams exits with status 1, which systemd ignores after its own
  stop.
* A config or a unit of the installer that is cut short: each is written in one step. The
  binary is not.
* The installer's flags, dry run, --uninstall, downloads, prompts and the retired
  proxyd bridge; release publishing.

## 7. Plan

The order follows what a user of the system would miss most: first the feed,
whose promise is the strongest, then what shares state between processes, then
the sequential parts.

Done: `EventText`, `EventTail` with `Feed`, `StateFile` with `CursorStore`, `Doorbell`,
`Invocation`, `BrRequest`, `Daemon`, `Identity`, `Setup`, `Startup`, each with its proofs.

Next, the proofs:

1. `Implements` for databases that are rebuilt: a `Feed` with generations, in which a
   rebuild starts a new log.
2. Assignments in `Feed`, so that `NoLostAssignment` follows from it too.
3. What `Current` promises with `LateWatchers` or `SameStamp`, as an exact cause.

Then, the model: sizes of rows against the runner's cap, and a composition of the
daemon's life cycle with the installer, in place of `Setup`'s own `DaemonStops` and
`DaemonStarts`.
