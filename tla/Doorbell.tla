----------------------------- MODULE Doorbell -----------------------------
(***************************************************************************)
(* The doorbell, GET /v1/events (src/internal/server/doorbell.go): one     *)
(* watcher per served repo stats the JSONL export and rings every          *)
(* subscribed listener that wants the repo; one handler per connection     *)
(* forwards what its channel holds.  The stream carries no data: a client  *)
(* that hears a ring asks br.                                              *)
(*                                                                         *)
(* br's mutations and its later exports, readers that touch the WAL, the   *)
(* watchers, the handlers and the clients interleave freely.  A version of *)
(* the export stands for its size and mtime; the client is external and    *)
(* asks br about every repo it wants when it has connected and at every    *)
(* event.                                                                  *)
(***************************************************************************)
EXTENDS Naturals, Sequences, FiniteSets

CONSTANTS
    Repos,         \* the served repos
    Clients,       \* connections, each open at most once at a time
    Queries,       \* the sets of repos that each client may ask for with ?repo=
    Slow,          \* clients that may stop reading their stream
    MaxListeners,  \* maxListeners
    Buffer,        \* the capacity of a listener's channel (16)
    MaxWrites,     \* bound: writes of the export of each repo
    LateWatchers,  \* whether clients may connect before a watcher is up
    SameStamp      \* whether an export may leave size and mtime as they were

ASSUME ConstantsAssumption ==
    /\ Slow \subseteq Clients /\ Queries \in [Clients -> SUBSET SUBSET Repos]
    /\ MaxListeners \in Nat /\ Buffer \in Nat \ {0} /\ MaxWrites \in [Repos -> Nat]
    /\ LateWatchers \in BOOLEAN /\ SameStamp \in BOOLEAN

VARIABLES
    exporting,  \* whether br still owes the JSONL its latest mutation
    jsonl,      \* the version of each repo's JSONL export
    wal,        \* what a reader of the repo moves, too
    wpc,        \* where each watcher is
    last,       \* the fingerprint each watcher remembers
    rings,      \* history: how often each watcher has rung
    listeners,  \* the registry
    wants,      \* the repos each client asked for
    ch,         \* each listener's channel
    conn,       \* each connection: away, accepted, open, or left by its client
    stale       \* the repos mutated since each open client last asked br

repoVars   == <<exporting, jsonl, wal>>
watchVars  == <<wpc, last, rings>>
clientVars == <<wants, conn, stale>>
vars == <<repoVars, watchVars, listeners, ch, clientVars>>

\* Bug: the fingerprint takes in the WAL.
FingerprintMutant(r) == 10 * jsonl[r] + wal[r]

\* fingerprint(): of the JSONL alone.
Fingerprint(r) == jsonl[r]

\* The daemon has just started.
Init ==
    /\ exporting = [r \in Repos |-> FALSE]
    /\ jsonl = [r \in Repos |-> 0]
    /\ wal = [r \in Repos |-> 0]
    /\ wpc = [r \in Repos |-> "resolve"]
    /\ last = [r \in Repos |-> 0]
    /\ rings = [r \in Repos |-> 0]
    /\ listeners = {}
    /\ wants = [c \in Clients |-> {}]
    /\ ch = [c \in Clients |-> <<>>]
    /\ conn = [c \in Clients |-> "away"]
    /\ stale = [c \in Clients |-> {}]

-----------------------------------------------------------------------------
(* br, as any process runs it.                                             *)

Mutate(r) ==
    /\ jsonl[r] < MaxWrites[r]
    /\ exporting' = [exporting EXCEPT ![r] = TRUE]
    /\ wal' = [wal EXCEPT ![r] = 1 - @]
    /\ stale' = [c \in Clients |->
                   IF conn[c] = "open" /\ r \in wants[c] THEN stale[c] \cup {r} ELSE stale[c]]
    /\ UNCHANGED <<jsonl, watchVars, listeners, ch, wants, conn>>

\* One write of the export: the last one, or more follow.  Within one tick of the
\* kernel's clock it may have the size and mtime of the one before.
Export(r) ==
    /\ exporting[r] /\ jsonl[r] < MaxWrites[r]
    /\ \E v \in {jsonl[r] + 1} \cup (IF SameStamp THEN {jsonl[r]} ELSE {}) :
         jsonl' = [jsonl EXCEPT ![r] = v]
    /\ \E more \in BOOLEAN :
         /\ more => jsonl'[r] < MaxWrites[r]
         /\ exporting' = [exporting EXCEPT ![r] = more]
    /\ UNCHANGED <<wal, watchVars, listeners, ch, clientVars>>

\* A read-only br opens the WAL for writing.
Read(r) ==
    /\ wal' = [wal EXCEPT ![r] = 1 - @]
    /\ UNCHANGED <<exporting, jsonl, watchVars, listeners, ch, clientVars>>

-----------------------------------------------------------------------------
(* The watcher.                                                            *)

WGoto(r, l) == wpc' = [wpc EXCEPT ![r] = l]

\* resolve() succeeds in the end; the first stat is the baseline.
Baseline(r) ==
    /\ wpc[r] = "resolve"
    /\ last' = [last EXCEPT ![r] = Fingerprint(r)]
    /\ WGoto(r, "tick")
    /\ UNCHANGED <<repoVars, rings, listeners, ch, clientVars>>

\* A tick that sees the export moved starts the debounce.
Tick(r) ==
    /\ wpc[r] = "tick" /\ Fingerprint(r) # last[r]
    /\ WGoto(r, "debounce")
    /\ UNCHANGED <<repoVars, last, rings, listeners, ch, clientVars>>

\* After the debounce the fingerprint is taken again, before the ring.
Settle(r) ==
    /\ wpc[r] = "debounce"
    /\ last' = [last EXCEPT ![r] = Fingerprint(r)]
    /\ WGoto(r, "ring")
    /\ UNCHANGED <<repoVars, rings, listeners, ch, clientVars>>

Interested(r) == {c \in listeners : r \in wants[c]}

\* Bug: a listener with a full channel ends the loop over the registry.
RingMutant(r) ==
    /\ wpc[r] = "ring"
    /\ ch' = IF \E c \in Interested(r) : Len(ch[c]) = Buffer
               THEN ch
               ELSE [c \in Clients |->
                       IF c \in Interested(r) THEN Append(ch[c], r) ELSE ch[c]]
    /\ rings' = [rings EXCEPT ![r] = @ + 1]
    /\ WGoto(r, "tick")
    /\ UNCHANGED <<repoVars, last, listeners, clientVars>>

\* Bug: the fingerprint to remember is read only after the ring.
RingLateMutant(r) ==
    /\ wpc[r] = "ring"
    /\ ch' = [c \in Clients |->
                IF c \in Interested(r) /\ Len(ch[c]) < Buffer
                  THEN Append(ch[c], r) ELSE ch[c]]
    /\ rings' = [rings EXCEPT ![r] = @ + 1]
    /\ WGoto(r, "resolve")
    /\ UNCHANGED <<repoVars, last, listeners, clientVars>>

\* ring(): under d.mu, to every listener that wants the repo and has room.
Ring(r) ==
    /\ wpc[r] = "ring"
    /\ ch' = [c \in Clients |->
                IF c \in Interested(r) /\ Len(ch[c]) < Buffer
                  THEN Append(ch[c], r) ELSE ch[c]]
    /\ rings' = [rings EXCEPT ![r] = @ + 1]
    /\ WGoto(r, "tick")
    /\ UNCHANGED <<repoVars, last, listeners, clientVars>>

-----------------------------------------------------------------------------
(* handleEvents and its client.                                            *)

\* Bug: the cap is off by one.
SubscribeMutant(c) ==
    /\ conn[c] = "away"
    /\ LateWatchers \/ \A r \in Repos : wpc[r] # "resolve"
    /\ \E S \in Queries[c] : wants' = [wants EXCEPT ![c] = S]
    /\ Cardinality(listeners) <= MaxListeners
    /\ listeners' = listeners \cup {c}
    /\ ch' = [ch EXCEPT ![c] = <<>>]
    /\ conn' = [conn EXCEPT ![c] = "accepted"]
    /\ UNCHANGED <<repoVars, watchVars, stale>>

\* subscribe() below the cap, then the header and ": connected".  No ?repo=
\* is all of Repos.  At the cap the answer is 503 and nothing changes.  Unless
\* LateWatchers, clients come once the daemon has been up for a while.
Subscribe(c) ==
    /\ conn[c] = "away"
    /\ LateWatchers \/ \A r \in Repos : wpc[r] # "resolve"
    /\ \E S \in Queries[c] : wants' = [wants EXCEPT ![c] = S]
    /\ Cardinality(listeners) < MaxListeners
    /\ listeners' = listeners \cup {c}
    /\ ch' = [ch EXCEPT ![c] = <<>>]
    /\ conn' = [conn EXCEPT ![c] = "accepted"]
    /\ UNCHANGED <<repoVars, watchVars, stale>>

Ask(c) == stale' = [stale EXCEPT ![c] = {}]

\* The client reads ": connected" and asks br once.
Connected(c) ==
    /\ conn[c] = "accepted"
    /\ conn' = [conn EXCEPT ![c] = "open"]
    /\ Ask(c)
    /\ UNCHANGED <<repoVars, watchVars, listeners, ch, wants>>

\* The handler takes a change off the channel; the client asks br again.
Receive(c) ==
    /\ conn[c] = "open" /\ ch[c] # <<>>
    /\ ch' = [ch EXCEPT ![c] = Tail(@)]
    /\ Ask(c)
    /\ UNCHANGED <<repoVars, watchVars, listeners, wants, conn>>

\* The client goes away; the handler has yet to see ctx.Done().
Leave(c) ==
    /\ conn[c] \in {"accepted", "open"}
    /\ conn' = [conn EXCEPT ![c] = "left"]
    /\ stale' = [stale EXCEPT ![c] = {}]
    /\ UNCHANGED <<repoVars, watchVars, listeners, ch, wants>>

\* The handler returns, through its deferred unsubscribe().
Unsubscribe(c) ==
    /\ conn[c] = "left"
    /\ listeners' = listeners \ {c}
    /\ ch' = [ch EXCEPT ![c] = <<>>]
    /\ wants' = [wants EXCEPT ![c] = {}]
    /\ conn' = [conn EXCEPT ![c] = "away"]
    /\ UNCHANGED <<repoVars, watchVars, stale>>

-----------------------------------------------------------------------------
Watch(r) == Baseline(r) \/ Tick(r) \/ Settle(r) \/ Ring(r)
Br(r) == Mutate(r) \/ Export(r) \/ Read(r)
Serve(c) == Subscribe(c) \/ Connected(c) \/ Receive(c) \/ Leave(c) \/ Unsubscribe(c)

Next == (\E r \in Repos : Watch(r) \/ Br(r)) \/ (\E c \in Clients : Serve(c))

Spec == Init /\ [][Next]_vars

\* The goroutines are scheduled, br finishes its exports, and the clients that
\* are not Slow read their streams.
Fairness ==
    /\ \A r \in Repos : WF_vars(Watch(r)) /\ WF_vars(Export(r))
    /\ \A c \in Clients : WF_vars(Unsubscribe(c))
    /\ \A c \in Clients \ Slow : WF_vars(Connected(c)) /\ WF_vars(Receive(c))

FairSpec == Spec /\ Fairness

-----------------------------------------------------------------------------
TypeOK ==
    /\ jsonl \in [Repos -> Nat] /\ \A r \in Repos : jsonl[r] <= MaxWrites[r]
    /\ exporting \in [Repos -> BOOLEAN] /\ wal \in [Repos -> 0..1]
    /\ wpc \in [Repos -> {"resolve", "tick", "debounce", "ring"}]
    /\ last \in [Repos -> Nat] /\ rings \in [Repos -> Nat]
    /\ wants \in [Clients -> SUBSET Repos]
    /\ ch \in [Clients -> Seq(Repos)]
    /\ conn \in [Clients -> {"away", "accepted", "open", "left"}]
    /\ stale \in [Clients -> SUBSET Repos]
    /\ \A c \in Clients : stale[c] # {} => conn[c] = "open" /\ stale[c] \subseteq wants[c]
    /\ listeners = {c \in Clients : conn[c] # "away"}
    /\ \A c \in Clients : Len(ch[c]) <= Buffer
    /\ Cardinality(listeners) <= MaxListeners

\* No change is lost between the parts: whatever a connected client does not
\* know of is still to be exported, or will be noticed by the watcher, or is
\* about to be rung, or waits in the client's channel; a ring that found the
\* channel full is made good by the events that filled it.  ("A client that
\* reconnects re-asks br once and is current again.")
Current ==
    \A c \in Clients : conn[c] = "open" =>
        \A r \in stale[c] :
            \/ exporting[r]
            \/ Fingerprint(r) # last[r]
            \/ wpc[r] \in {"debounce", "ring"}
            \/ ch[c] # <<>>

\* "A br list rings nothing": however often br reads, a watcher rings at most
\* once per write of the export.
RingsForWritesOnly == \A r \in Repos : rings[r] <= jsonl[r]

\* Every mutation reaches every connected client that reads its stream, while
\* others read nothing, come and go.
EventuallyCurrent ==
    \A c \in Clients \ Slow, r \in Repos :
        r \in stale[c] ~> r \notin stale[c]
=============================================================================
