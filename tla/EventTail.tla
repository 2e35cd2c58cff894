---------------------------- MODULE EventTail ----------------------------
(***************************************************************************)
(* The events tailer (src/internal/events): one goroutine per watched repo *)
(* reads br's audit log past a cursor, publishes every row to ntfy (the    *)
(* firehose topic, then the assignee's dispatch topic), and persists the   *)
(* cursors of all repos in one state file.                                 *)
(*                                                                         *)
(* A step is one interaction with something shared: a br or sqlite3 call,  *)
(* an HTTP publish, a critical section of Watcher.mu, a write of the state *)
(* file.  The goroutines of all repos, br's writers, the clock, failures   *)
(* and restarts of the daemon interleave freely.                           *)
(*                                                                         *)
(* Abstractions.  An audit row is its id and the generation of the         *)
(* database that holds it; whether it routes to a dispatch topic is given  *)
(* by the constants Assigned and Created (both empty when                  *)
(* route_assignments is off).  A stat stamp is remembered by what is asked *)
(* of it: whether it differs from lastStamp.  Time is the flag due, "at    *)
(* least forcePoll since lastPoll".  A batch is a set, consumed smallest   *)
(* id first, as ORDER BY e.id delivers it.                                 *)
(***************************************************************************)
EXTENDS EventText, FiniteSets

CONSTANTS
    Repos,       \* the watched repos
    MaxId,       \* bound: the last audit-log id br hands out
    BatchLimit,  \* rows per query (batchLimit)
    MaxCrash,    \* bound: restarts of the daemon
    MaxRebuild,  \* bound: how often one repo's database is rebuilt
    SaveMayFail, \* whether writing the state file may fail
    MayMissStamp,\* whether a commit may leave all sizes and mtimes as they were
    MayCorrupt,  \* whether a restart may find the state file corrupt
    Assigned,    \* ids of assignee_changed rows with a non-empty new_value
    Created,     \* ids of created rows: routed on the issue's current assignee
    Texts,       \* Texts[i]: the texts that row i may have when a query reads it
    AgentTopicPrefix, \* the length of agent_topic_prefix
    NoCursor     \* "no entry for this repo" in the cursors map or the state file

ASSUME NoCursorAssumption == NoCursor \notin Nat
ASSUME BoundsAssumption ==
    /\ MaxId \in Nat /\ MaxCrash \in Nat /\ MaxRebuild \in Nat
    /\ BatchLimit \in Nat \ {0}
    /\ {SaveMayFail, MayCorrupt, MayMissStamp} \subseteq BOOLEAN
\* A row's text is the sizes of the fields that truncate() cuts and of its
\* assignee; the title and the assignee are the issue's when the query runs.
ASSUME TextsAssumption ==
    \A i \in 1..MaxId : Texts[i] # {} /\ Texts[i] \subseteq [fields : SUBSET Size, assignee : Nat]

VARIABLES
    log,         \* the events table of each repo: a set of rows
    nextId,      \* sqlite's AUTOINCREMENT sequence of each repo
    gen,         \* how often each repo's database has been rebuilt
    changed,     \* the files' stamp differs from lastStamp
    moved,       \* the files changed since this tick's statStamp()
    due,         \* forcePoll has passed since lastPoll
    pc,          \* where each repo's goroutine is
    tip,         \* the MAX(id) a goroutine has just read
    batch,       \* the rows of the current query not yet passed
    full,        \* len(rows) = batchLimit for the current query
    cursor,      \* Watcher.cursors
    file,        \* the cursors in the state file
    heard,       \* rows the firehose topic has received
    dispatched,  \* rows the dispatch topics have received
    start,       \* history: the tip the feed of a repo last started from
    crashes      \* how often the daemon has been restarted

brVars     == <<log, nextId, gen>>
stampVars  == <<changed, moved, due>>
tailVars   == <<pc, tip, batch, full>>
cursorVars == <<cursor, file>>
topicVars  == <<heard, dispatched>>
vars == <<brVars, stampVars, tailVars, cursorVars, topicVars, start, crashes>>

Row      == [id : Nat, gen : Nat]
Cursor   == Nat \cup {NoCursor}
Labels   == {"resolve", "seed", "first", "tick", "query", "publish", "dispatch",
             "advance", "save", "regress", "reset", "resave"}

-----------------------------------------------------------------------------
(* What a query sees.                                                      *)

\* Bug: WHERE e.id >= cursor.
PendingMutant(r) == {e \in log[r] : e.id >= cursor[r]}

\* The rows the cursor query would return without its LIMIT.
Pending(r) == {e \in log[r] : e.id > cursor[r]}

\* B is what LIMIT keeps of Pending(r): the smallest ids, at most BatchLimit.
IsBatch(B, r) ==
    /\ B \subseteq Pending(r)
    /\ \A e \in B, f \in Pending(r) \ B : e.id < f.id
    /\ Cardinality(B) <= BatchLimit
    /\ B = Pending(r) \/ Cardinality(B) = BatchLimit

\* m is COALESCE(MAX(id), 0) of a repo's events table.
IsTip(m, r) ==
    /\ m \in {e.id : e \in log[r]} \cup {0}
    /\ \A e \in log[r] : e.id <= m

\* Bug: the query without ORDER BY.
IsHeadMutant(e, r) == e \in batch[r]

\* e is the next row of the loop over rows.
IsHead(e, r) == e \in batch[r] /\ \A f \in batch[r] : e.id <= f.id

\* event() of a row, as it was read, panics or returns.
Panics(t) == \E s \in t.fields : TruncatePanics(s)
Readable(e) == \E t \in Texts[e.id] : ~Panics(t)
Deadly(e) == \E t \in Texts[e.id] : Panics(t)

\* A topic for the assignee of the row that the broker takes.
Deliverable(e) == \E t \in Texts[e.id] : TopicOk(DispatchLen(AgentTopicPrefix, t.assignee))

Goto(r, l) == pc' = [pc EXCEPT ![r] = l]

-----------------------------------------------------------------------------
(* Starting: resolve, and first sight of a repo.                           *)

\* The goroutine before its first successful resolve: nothing polled yet.
Init ==
    /\ log = [r \in Repos |-> {}]
    /\ nextId = [r \in Repos |-> 1]
    /\ gen = [r \in Repos |-> 0]
    /\ changed = [r \in Repos |-> TRUE]
    /\ moved = [r \in Repos |-> FALSE]
    /\ due = [r \in Repos |-> TRUE]
    /\ pc = [r \in Repos |-> "resolve"]
    /\ tip = [r \in Repos |-> 0]
    /\ batch = [r \in Repos |-> {}]
    /\ full = [r \in Repos |-> FALSE]
    /\ cursor = [r \in Repos |-> NoCursor]
    /\ file = [r \in Repos |-> NoCursor]
    /\ heard = [r \in Repos |-> {}]
    /\ dispatched = [r \in Repos |-> {}]
    /\ start = [r \in Repos |-> NoCursor]
    /\ crashes = 0

\* resolve() with an entry in the cursors map: straight to the tick loop.  A
\* resolve that fails sits out resolveRetry and changes nothing.
Resolve(r) ==
    /\ pc[r] = "resolve" /\ cursor[r] # NoCursor
    /\ Goto(r, "tick")
    /\ UNCHANGED <<brVars, stampVars, tip, batch, full, cursorVars, topicVars, start, crashes>>

\* First sight: resolve() finds no entry and reads the tip of the log.
ReadTip(r) ==
    /\ pc[r] = "resolve" /\ cursor[r] = NoCursor
    /\ \E m \in 0..MaxId : IsTip(m, r) /\ tip' = [tip EXCEPT ![r] = m]
    /\ Goto(r, "seed")
    /\ UNCHANGED <<brVars, stampVars, batch, full, cursorVars, topicVars, start, crashes>>

\* First sight: the tip becomes the cursor, in memory.
Seed(r) ==
    /\ pc[r] = "seed"
    /\ cursor' = [cursor EXCEPT ![r] = tip[r]]
    /\ start' = [start EXCEPT ![r] = tip[r]]
    /\ Goto(r, "first")
    /\ UNCHANGED <<brVars, stampVars, tip, batch, full, file, topicVars, crashes>>

-----------------------------------------------------------------------------
(* The tick loop and one drain.                                            *)

\* Bug: the safety poll notes the time but trusts the stamp.
TickMutant(r) ==
    /\ pc[r] = "tick" /\ (changed[r] \/ due[r])
    /\ IF changed[r]
         THEN Goto(r, "query") /\ moved' = [moved EXCEPT ![r] = FALSE] /\ UNCHANGED due
         ELSE due' = [due EXCEPT ![r] = FALSE] /\ UNCHANGED <<pc, moved>>
    /\ UNCHANGED <<brVars, changed, tip, batch, full, cursorVars, topicVars, start, crashes>>

\* A tick that finds the stamp moved, or the safety poll due, starts a drain.
\* The stamp it will remember is the one read here, before the drain.
Tick(r) ==
    /\ pc[r] = "tick" /\ (changed[r] \/ due[r])
    /\ moved' = [moved EXCEPT ![r] = FALSE]
    /\ Goto(r, "query")
    /\ UNCHANGED <<brVars, changed, due, tip, batch, full, cursorVars, topicVars, start, crashes>>

\* Bug: lastStamp is a stamp read after the drain.
DrainOkMutant(r) ==
    /\ changed' = [changed EXCEPT ![r] = FALSE]
    /\ due' = [due EXCEPT ![r] = FALSE]
    /\ Goto(r, "tick")
    /\ UNCHANGED moved

\* drain() returned nil: lastStamp is this tick's stamp, lastPoll is now.
DrainOk(r) ==
    /\ changed' = [changed EXCEPT ![r] = moved[r]]
    /\ due' = [due EXCEPT ![r] = FALSE]
    /\ Goto(r, "tick")
    /\ UNCHANGED moved

\* Bug: the rest of a failed batch is kept for the next drain.
DrainFailedMutant(r) ==
    /\ Goto(r, "tick")
    /\ UNCHANGED <<stampVars, tip, batch, full>>

\* drain() returned an error: neither lastStamp nor lastPoll moves, and the
\* rows it had not passed are forgotten.
DrainFailed(r) ==
    /\ Goto(r, "tick")
    /\ batch' = [batch EXCEPT ![r] = {}]
    /\ UNCHANGED <<stampVars, tip, full>>

\* The cursor query found rows.
QueryRows(r) ==
    /\ pc[r] = "query" /\ Pending(r) # {}
    /\ \E B \in SUBSET Pending(r) :
          /\ IsBatch(B, r)
          /\ batch' = [batch EXCEPT ![r] = B]
          /\ full' = [full EXCEPT ![r] = Cardinality(B) = BatchLimit]
    /\ Goto(r, "publish")
    /\ UNCHANGED <<brVars, stampVars, tip, cursorVars, topicVars, start, crashes>>

\* The cursor query found nothing.  checkRegression() has nothing to do at
\* cursor 0, otherwise it reads MAX(id).
QueryNone(r) ==
    /\ pc[r] = "query" /\ Pending(r) = {}
    /\ IF cursor[r] = 0
         THEN DrainOk(r)
         ELSE Goto(r, "regress") /\ UNCHANGED stampVars
    /\ UNCHANGED <<brVars, tip, batch, full, cursorVars, topicVars, start, crashes>>

\* sqlite3 failed or timed out, in the cursor query or in maxID().
QueryFails(r) ==
    /\ pc[r] \in {"query", "regress"}
    /\ DrainFailed(r)
    /\ UNCHANGED <<brVars, cursorVars, topicVars, start, crashes>>

\* Bug: the cursor moves on once the firehose has the row.
FirehoseMutant(r) ==
    /\ pc[r] = "publish"
    /\ \E e \in batch[r] :
          /\ IsHead(e, r)
          /\ heard' = [heard EXCEPT ![r] = @ \cup {e}]
    /\ Goto(r, "advance")
    /\ UNCHANGED <<brVars, stampVars, tip, batch, full, cursorVars, dispatched, start, crashes>>

\* publishEvent(): the firehose took the row.  An assignment goes on to the
\* assignee's topic; a created row does when its issue had an assignee when
\* the query joined it in.
Firehose(r) ==
    /\ pc[r] = "publish"
    /\ \E e \in batch[r] :
          /\ IsHead(e, r) /\ Readable(e)
          /\ heard' = [heard EXCEPT ![r] = @ \cup {e}]
          /\ \/ e.id \in Assigned \cup Created /\ Goto(r, "dispatch")
             \/ e.id \notin Assigned /\ Goto(r, "advance")
    /\ UNCHANGED <<brVars, stampVars, tip, batch, full, cursorVars, dispatched, start, crashes>>

\* The dispatch topic took the row as well.
Dispatch(r) ==
    /\ pc[r] = "dispatch"
    /\ \E e \in batch[r] :
          /\ IsHead(e, r) /\ Deliverable(e)
          /\ dispatched' = [dispatched EXCEPT ![r] = @ \cup {e}]
    /\ Goto(r, "advance")
    /\ UNCHANGED <<brVars, stampVars, tip, batch, full, cursorVars, heard, start, crashes>>

\* Bug: a publish error is logged and the row passed.
PublishFailsMutant(r) ==
    /\ pc[r] \in {"publish", "dispatch"}
    /\ Goto(r, "advance")
    /\ UNCHANGED <<brVars, stampVars, tip, batch, full, cursorVars, topicVars, start, crashes>>

\* A publish failed, or was refused; the broker may have taken the message all
\* the same, when only its answer was lost.
PublishFails(r) ==
    /\ pc[r] \in {"publish", "dispatch"}
    /\ \E e \in batch[r] :
          /\ IsHead(e, r) /\ Readable(e)
          /\ \/ UNCHANGED topicVars
             \/ pc[r] = "publish" /\ heard' = [heard EXCEPT ![r] = @ \cup {e}] /\ UNCHANGED dispatched
             \/ /\ pc[r] = "dispatch" /\ Deliverable(e)
                /\ dispatched' = [dispatched EXCEPT ![r] = @ \cup {e}] /\ UNCHANGED heard
    /\ DrainFailed(r)
    /\ UNCHANGED <<brVars, cursorVars, start, crashes>>

\* Bug: setCursor() once per batch, to its last row, before the others are out.
AdvanceMutant(r) ==
    /\ pc[r] = "advance"
    /\ \E e \in batch[r], l \in batch[r] :
          /\ IsHead(e, r) /\ \A f \in batch[r] : f.id <= l.id
          /\ cursor' = [cursor EXCEPT ![r] = l.id]
          /\ batch' = [batch EXCEPT ![r] = @ \ {e}]
          /\ Goto(r, IF batch[r] = {e} THEN "save" ELSE "publish")
    /\ UNCHANGED <<brVars, stampVars, tip, full, file, topicVars, start, crashes>>

\* setCursor(ev.EventID), then the next row or, after the last, saveState().
Advance(r) ==
    /\ pc[r] = "advance"
    /\ \E e \in batch[r] :
          /\ IsHead(e, r)
          /\ cursor' = [cursor EXCEPT ![r] = e.id]
          /\ batch' = [batch EXCEPT ![r] = @ \ {e}]
          /\ Goto(r, IF batch[r] = {e} THEN "save" ELSE "publish")
    /\ UNCHANGED <<brVars, stampVars, tip, full, file, topicVars, start, crashes>>

-----------------------------------------------------------------------------
(* checkRegression.                                                        *)

\* Bug: a cursor past the end of the log is left there.
RegressMutant(r) ==
    /\ pc[r] = "regress"
    /\ DrainOk(r)
    /\ UNCHANGED <<brVars, tip, batch, full, cursorVars, topicVars, start, crashes>>

\* MAX(id) is read; below the cursor the database has been rebuilt.
Regress(r) ==
    /\ pc[r] = "regress"
    /\ \E m \in 0..MaxId :
          /\ IsTip(m, r)
          /\ tip' = [tip EXCEPT ![r] = m]
          /\ IF m < cursor[r]
               THEN Goto(r, "reset") /\ UNCHANGED stampVars
               ELSE DrainOk(r)
    /\ UNCHANGED <<brVars, batch, full, cursorVars, topicVars, start, crashes>>

\* The cursor falls back to the new tip, in memory.
Reset(r) ==
    /\ pc[r] = "reset"
    /\ cursor' = [cursor EXCEPT ![r] = tip[r]]
    /\ Goto(r, "resave")
    /\ UNCHANGED <<brVars, stampVars, tip, batch, full, file, topicVars, start, crashes>>

-----------------------------------------------------------------------------
(* saveState: one critical section that writes every repo's cursor.        *)

\* Bug: a save after a drained batch does not write.
SaveOkMutant(r) ==
    /\ pc[r] \in {"first", "save", "resave"}
    /\ file' = IF pc[r] = "save" THEN file ELSE cursor
    /\ CASE pc[r] = "first"             -> Goto(r, "tick") /\ UNCHANGED stampVars
         [] pc[r] = "save" /\ full[r]   -> Goto(r, "query") /\ UNCHANGED stampVars
         [] OTHER                       -> DrainOk(r)
    /\ UNCHANGED <<brVars, tip, batch, full, cursor, topicVars, start, crashes>>

SaveOk(r) ==
    /\ pc[r] \in {"first", "save", "resave"}
    /\ file' = cursor
    /\ CASE pc[r] = "first"             -> Goto(r, "tick") /\ UNCHANGED stampVars
         [] pc[r] = "save" /\ full[r]   -> Goto(r, "query") /\ UNCHANGED stampVars
         [] OTHER                       -> DrainOk(r)
    /\ UNCHANGED <<brVars, tip, batch, full, cursor, topicVars, start, crashes>>

\* The write or the rename failed: the file keeps its old content, the map in
\* memory its new one.  At first sight resolve() is retried.
SaveFails(r) ==
    /\ SaveMayFail
    /\ pc[r] \in {"first", "save", "resave"}
    /\ Goto(r, IF pc[r] = "first" THEN "resolve" ELSE "tick")
    /\ UNCHANGED <<brVars, stampVars, tip, batch, full, cursorVars, topicVars, start, crashes>>

-----------------------------------------------------------------------------
(* The rest of the world.                                                  *)

Touch(r) ==
    /\ changed' = [changed EXCEPT ![r] = TRUE]
    /\ moved' = [moved EXCEPT ![r] = TRUE]

\* br commits a row.  Sizes and mtimes usually move with it; a write inside
\* the clock granularity of the previous one leaves them as they are.
BrCommit(r) ==
    /\ nextId[r] <= MaxId
    /\ log' = [log EXCEPT ![r] = @ \cup {[id |-> nextId[r], gen |-> gen[r]]}]
    /\ nextId' = [nextId EXCEPT ![r] = @ + 1]
    /\ Touch(r) \/ (MayMissStamp /\ UNCHANGED <<changed, moved>>)
    /\ UNCHANGED <<gen, due, tailVars, cursorVars, topicVars, start, crashes>>

\* br deletes an issue: the schema cascades its audit rows away.
BrDelete(r) ==
    /\ \E e \in log[r] : log' = [log EXCEPT ![r] = @ \ {e}]
    /\ Touch(r)
    /\ UNCHANGED <<nextId, gen, due, tailVars, cursorVars, topicVars, start, crashes>>

\* The database is rebuilt (re-import, restored backup): its k rows and its
\* AUTOINCREMENT sequence start over.
BrRebuild(r) ==
    /\ gen[r] < MaxRebuild
    /\ gen' = [gen EXCEPT ![r] = @ + 1]
    /\ \E k \in 0..MaxId :
          /\ log' = [log EXCEPT ![r] = [id : 1..k, gen : {gen[r] + 1}]]
          /\ nextId' = [nextId EXCEPT ![r] = k + 1]
    /\ Touch(r)
    /\ UNCHANGED <<due, tailVars, cursorVars, topicVars, start, crashes>>

\* forcePoll has passed since the last successful poll.
Minute(r) ==
    /\ ~due[r]
    /\ due' = [due EXCEPT ![r] = TRUE]
    /\ UNCHANGED <<brVars, changed, moved, tailVars, cursorVars, topicVars, start, crashes>>

\* What a start of the daemon finds: the broker and br where they were, no
\* batch, no stamp; every goroutine resolves anew.
Reload ==
    /\ pc' = [r \in Repos |-> "resolve"]
    /\ batch' = [r \in Repos |-> {}]
    /\ tip' = [r \in Repos |-> 0]
    /\ full' = [r \in Repos |-> FALSE]
    /\ changed' = [r \in Repos |-> TRUE]
    /\ moved' = [r \in Repos |-> FALSE]
    /\ due' = [r \in Repos |-> TRUE]
    /\ UNCHANGED <<brVars, topicVars, start>>

\* The daemon stops anywhere (killed, or SIGTERM cancels the context) and
\* starts again: loadState() reads the file, or finds it corrupt and starts
\* with an empty map.
Restart ==
    /\ crashes < MaxCrash
    /\ crashes' = crashes + 1
    /\ \/ cursor' = file /\ UNCHANGED file
       \/ /\ MayCorrupt
          /\ file' = [r \in Repos |-> NoCursor]
          /\ cursor' = file'
    /\ Reload

\* event() panics on the next row.  Nothing recovers: the whole process ends,
\* with every repo's goroutine, and systemd starts it again.
Panic(r) ==
    /\ pc[r] = "publish"
    /\ \E e \in batch[r] : IsHead(e, r) /\ Deadly(e)
    /\ cursor' = file
    /\ Reload
    /\ UNCHANGED <<file, crashes>>

-----------------------------------------------------------------------------
Tail(r) ==
    \/ Resolve(r) \/ ReadTip(r) \/ Seed(r)
    \/ Tick(r) \/ QueryRows(r) \/ QueryNone(r) \/ QueryFails(r)
    \/ Firehose(r) \/ Dispatch(r) \/ PublishFails(r) \/ Advance(r)
    \/ Regress(r) \/ Reset(r) \/ SaveOk(r) \/ SaveFails(r)

Br(r) == BrCommit(r) \/ BrDelete(r) \/ BrRebuild(r)

Next == (\E r \in Repos : Tail(r) \/ Br(r) \/ Minute(r) \/ Panic(r)) \/ Restart

Spec == Init /\ [][Next]_vars

\* The goroutine is scheduled, time passes, and sqlite3, the broker and the
\* disk do not fail for ever.  Nothing is assumed of br or of restarts.
Fairness ==
    \A r \in Repos :
        /\ WF_vars(Tail(r) \/ Panic(r))
        /\ WF_vars(Minute(r))
        /\ SF_vars(QueryRows(r)) /\ SF_vars(QueryNone(r)) /\ SF_vars(Regress(r))
        /\ SF_vars(Firehose(r)) /\ SF_vars(Dispatch(r)) /\ SF_vars(SaveOk(r))

FairSpec == Spec /\ Fairness

-----------------------------------------------------------------------------
TypeOK ==
    /\ log \in [Repos -> SUBSET Row]
    /\ nextId \in [Repos -> Nat \ {0}]
    /\ gen \in [Repos -> Nat]
    /\ changed \in [Repos -> BOOLEAN]
    /\ moved \in [Repos -> BOOLEAN]
    /\ due \in [Repos -> BOOLEAN]
    /\ pc \in [Repos -> Labels]
    /\ tip \in [Repos -> Nat]
    /\ batch \in [Repos -> SUBSET Row]
    /\ full \in [Repos -> BOOLEAN]
    /\ cursor \in [Repos -> Cursor]
    /\ file \in [Repos -> Cursor]
    /\ heard \in [Repos -> SUBSET Row]
    /\ dispatched \in [Repos -> SUBSET Row]
    /\ start \in [Repos -> Cursor]
    /\ crashes \in Nat
    /\ \A r \in Repos : batch[r] # {} <=> pc[r] \in {"publish", "dispatch", "advance"}
    /\ \A r \in Repos : cursor[r] = NoCursor => pc[r] \in {"resolve", "seed"}

\* The rows of r that lie in (lo, hi].
Between(r, lo, hi) == {e \in log[r] : lo < e.id /\ e.id <= hi}

\* At-least-once.  Neither the cursor in memory nor the one in the state file,
\* whichever repo's saveState() wrote it, is ever past a row the firehose has
\* not received, except the rows the feed of this repo started behind.
NoLoss ==
    \A r \in Repos : gen[r] = 0 =>
        /\ cursor[r] # NoCursor => Between(r, start[r], cursor[r]) \subseteq heard[r]
        /\ file[r] # NoCursor => Between(r, start[r], file[r]) \subseteq heard[r]

\* "A silently lost assignment is not" fine: neither cursor is ever past an
\* assignment its dispatch topic has not received.
NoLostAssignment ==
    \A r \in Repos : gen[r] = 0 =>
        \A c \in {cursor[r], file[r]} \ {NoCursor} :
            \A e \in Between(r, start[r], c) : e.id \in Assigned => e \in dispatched[r]

\* In order per repo: when the firehose has a row, it has every older row that
\* still exists and that the feed did not start behind.
InOrder ==
    \A r \in Repos : gen[r] = 0 =>
        \A e \in heard[r] :
            start[r] # NoCursor =>
                Between(r, start[r], e.id) \subseteq heard[r]

\* What a subscriber is promised ("an ntfy outage delays the feed instead of
\* dropping events", "survives restarts"): once it has heard a row of a repo,
\* the cursor never skips a later one.
NoGapForSubscriber ==
    \A r \in Repos : gen[r] = 0 /\ cursor[r] # NoCursor =>
        \A e \in heard[r] : Between(r, e.id, cursor[r]) \subseteq heard[r]

\* A restart does not replay history: nothing at or below the cursor saved in
\* the state file is published again.
NoReplayOfSaved ==
    [][\A r \in Repos : gen'[r] = 0 /\ file[r] # NoCursor =>
          \A e \in batch[r] :
             (IsHead(e, r) /\ (Firehose(r) \/ Dispatch(r))) => e.id > file[r]]_vars

\* The stamp is read before the drain, so as long as the files move with every
\* commit a goroutine never waits for its next tick with rows pending and a
\* stamp that looks unchanged: the feed's latency is the poll interval.
NoSleepOverRows ==
    ~MayMissStamp =>
        \A r \in Repos : pc[r] = "tick" /\ Pending(r) # {} => changed[r]

\* "event_id is unique per repo ... and the dedup key": no two different rows
\* of a repo reach the firehose under one id.
DedupKeyUnique ==
    \A r \in Repos : \A e, f \in heard[r] : e.id = f.id => e = f

\* "A broken repo must never take the daemon down with it - it just sits out a
\* round": whatever the rows of one repo hold, a goroutine that tails starts
\* over only when the daemon is restarted from outside.
NeverTakenDown ==
    [][\A r \in Repos :
          pc[r] \notin {"resolve", "first"} /\ pc'[r] = "resolve" => crashes' # crashes]_vars

\* Every row committed after the feed of its repo started is heard in the end,
\* whatever the stamp showed, unless it is deleted first, its database is
\* rebuilt, or the feed starts over behind it.
EventuallyHeard ==
    \A r \in Repos : \A i \in 1..MaxId :
        LET e == [id |-> i, gen |-> 0] IN
        (e \in log[r] /\ start[r] # NoCursor /\ i > start[r])
            ~> (e \in heard[r] \/ e \notin log[r]
                \/ (start[r] # NoCursor /\ i <= start[r]))

\* A rebuilt database does not silence the feed for ever: a cursor past the
\* end of the log falls back.
NeverSilent ==
    \A r \in Repos :
        (cursor[r] # NoCursor /\ \A e \in log[r] : e.id < cursor[r])
            ~> (cursor[r] = NoCursor \/ cursor[r] = 0
                \/ \E e \in log[r] : e.id >= cursor[r])

\* When the disk works, the state file catches up with the cursors for good
\* once br falls silent, so a later restart replays nothing.
SavedWhenQuiet == \A r \in Repos : <>[](file[r] = cursor[r] /\ cursor[r] # NoCursor)
-----------------------------------------------------------------------------
(* The abstract feed: the saved position is the state file.                *)

F == INSTANCE Feed WITH saved <- file

\* The tailer implements the at-least-once feed while no database is rebuilt.
ImplementsFeed == F!Spec

-----------------------------------------------------------------------------
(* The inductive invariant behind the safety properties.  All of it but    *)
(* RowsOK speaks of a repo whose database has not been rebuilt.            *)

\* Rows carry the generation of their database; AUTOINCREMENT is ahead of all.
RowsOK(r) ==
    /\ \A e \in log[r] : e.gen = gen[r] /\ e.id < nextId[r]
    /\ \A e \in batch[r] : e.gen <= gen[r]

\* Every id the daemon or the broker knows of lies behind the next one, so a
\* row committed from now on is ahead of all of them.
Known(r) ==
    /\ cursor[r] # NoCursor => cursor[r] < nextId[r]
    /\ file[r] # NoCursor => file[r] < nextId[r]
    /\ \A e \in heard[r] \cup batch[r] : e.id < nextId[r]
    /\ pc[r] \in {"seed", "reset"} => tip[r] < nextId[r]

\* NoLoss, NoLostAssignment and InOrder, for one repo.
Fed(r) ==
    /\ \A e \in log[r] :
          cursor[r] # NoCursor /\ start[r] < e.id /\ e.id <= cursor[r] =>
              e \in heard[r] /\ (e.id \in Assigned => e \in dispatched[r])
    /\ \A e \in log[r] :
          file[r] # NoCursor /\ start[r] < e.id /\ e.id <= file[r] =>
              e \in heard[r] /\ (e.id \in Assigned => e \in dispatched[r])
    /\ \A e \in heard[r], f \in log[r] :
          start[r] # NoCursor /\ start[r] < f.id /\ f.id <= e.id => f \in heard[r]

\* The batch is ahead of both cursors and holds every row from the cursor up.
Batched(r) ==
    /\ \A e \in batch[r] : e.id > cursor[r] /\ (file[r] # NoCursor => e.id > file[r])
    /\ \A e \in batch[r], f \in log[r] :
          cursor[r] < f.id /\ f.id <= e.id => f \in batch[r]
    /\ \A e \in batch[r] : IsHead(e, r) =>
          /\ pc[r] \in {"dispatch", "advance"} => e \in heard[r]
          /\ pc[r] = "advance" /\ e.id \in Assigned => e \in dispatched[r]

\* A tip that was read goes stale only in the safe direction: whatever br
\* commits behind the goroutine's back is ahead of all it jumps over.
Staged(r) ==
    /\ pc[r] = "seed" =>
          /\ cursor[r] = NoCursor
          /\ \A f \in log[r], e \in heard[r] : f.id > tip[r] => f.id > e.id
    /\ pc[r] = "reset" =>
          /\ tip[r] < cursor[r]
          /\ \A f \in log[r] : f.id > tip[r] =>
                f.id > cursor[r] /\ (file[r] # NoCursor => f.id > file[r])

\* The state file never claims more than memory does about rows that exist.
Saved(r) ==
    /\ cursor[r] = NoCursor => file[r] = NoCursor
    /\ cursor[r] # NoCursor => start[r] # NoCursor
    /\ \A f \in log[r] :
          file[r] # NoCursor /\ f.id > cursor[r] => f.id > file[r]

RepoInv(r) ==
    /\ RowsOK(r)
    /\ gen[r] = 0 => Known(r) /\ Fed(r) /\ Batched(r) /\ Staged(r) /\ Saved(r)

\* The inductive invariant.
IInv == TypeOK /\ \A r \in Repos : RepoInv(r)
=============================================================================
