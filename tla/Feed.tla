------------------------------- MODULE Feed -------------------------------
(***************************************************************************)
(* What the events feed promises ("At-least-once, in order per repo",      *)
(* EVENTS.md), with no goroutines, batches or memory: audit logs, what     *)
(* subscribers have heard, and a saved position per repo.  A row may be    *)
(* published again at any time until the saved position has passed it, and *)
(* the position only ever passes what has been heard.  EventTail           *)
(* implements it as long as no database is rebuilt.                        *)
(***************************************************************************)
EXTENDS Naturals

CONSTANTS Repos, NoCursor

VARIABLES
    log,      \* the rows of each repo's audit log
    nextId,   \* the id of the next row
    heard,    \* the rows subscribers have received
    start,    \* where the feed of the repo last began
    saved     \* the position a restarted feed continues from

vars == <<log, nextId, heard, start, saved>>

\* Every row of r in (start, i], but for those in S, has been heard.
HeardUpTo(r, i, S) ==
    \A f \in log[r] \ S : start[r] < f.id /\ f.id <= i => f \in heard[r]

Init ==
    /\ log = [r \in Repos |-> {}]
    /\ nextId = [r \in Repos |-> 1]
    /\ heard = [r \in Repos |-> {}]
    /\ start = [r \in Repos |-> NoCursor]
    /\ saved = [r \in Repos |-> NoCursor]

Commit(r) ==
    /\ log' = [log EXCEPT ![r] = @ \cup {[id |-> nextId[r], gen |-> 0]}]
    /\ nextId' = [nextId EXCEPT ![r] = @ + 1]
    /\ UNCHANGED <<heard, start, saved>>

Delete(r) ==
    /\ \E e \in log[r] : log' = [log EXCEPT ![r] = @ \ {e}]
    /\ UNCHANGED <<nextId, heard, start, saved>>

\* With no saved position the feed begins anywhere in the log beyond which nothing
\* is older than what it has told before.
Begin(r) ==
    /\ saved[r] = NoCursor
    /\ \E m \in 0..(nextId[r] - 1) :
          /\ \A f \in log[r], e \in heard[r] : f.id > m => f.id > e.id
          /\ start' = [start EXCEPT ![r] = m]
    /\ UNCHANGED <<log, nextId, heard, saved>>

\* Publishing, for the first time or again.
Publish(r) ==
    /\ start[r] # NoCursor
    /\ \E e \in [id : 0..(nextId[r] - 1), gen : {0}] :
          /\ saved[r] # NoCursor => e.id > saved[r]
          /\ HeardUpTo(r, e.id, {e})
          /\ heard' = [heard EXCEPT ![r] = @ \cup {e}]
    /\ UNCHANGED <<log, nextId, start, saved>>

\* One save moves the positions of all repos, each over heard rows only, and to
\* no id that is still to come.
Save ==
    /\ saved' \in [Repos -> Nat \cup {NoCursor}]
    /\ \A r \in Repos : saved'[r] # saved[r] =>
          /\ saved'[r] # NoCursor /\ start[r] # NoCursor
          /\ saved'[r] < nextId[r]
          /\ HeardUpTo(r, saved'[r], {})
    /\ UNCHANGED <<log, nextId, heard, start>>

\* The saved positions are lost.
Forget ==
    /\ saved' = [r \in Repos |-> NoCursor]
    /\ UNCHANGED <<log, nextId, heard, start>>

Next ==
    \/ \E r \in Repos : Commit(r) \/ Delete(r) \/ Begin(r) \/ Publish(r)
    \/ Save \/ Forget

Spec == Init /\ [][Next]_vars

-----------------------------------------------------------------------------
\* "At-least-once, in order per repo": the saved position has passed heard rows
\* only, and of the rows since the start whoever has heard one has heard all
\* older ones.
Promised ==
    \A r \in Repos :
        /\ saved[r] # NoCursor => HeardUpTo(r, saved[r], {})
        /\ \A e \in heard[r] : HeardUpTo(r, e.id, {})
=============================================================================
