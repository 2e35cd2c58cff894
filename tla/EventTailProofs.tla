------------------------- MODULE EventTailProofs -------------------------
(***************************************************************************)
(* Proofs about EventTail, for any set of repos, any bounds, any batch     *)
(* limit and any choice of faults: type correctness, the inductive         *)
(* invariant, and from it at-least-once delivery, order, no lost           *)
(* assignment and no replay behind the saved cursor; for a disk that works *)
(* no gap for a subscriber, and no sleep over pending rows.  Before them,  *)
(* what the texts of a row do; behind them, that EventTail implements Feed.*)
(***************************************************************************)
EXTENDS EventTail, FiniteSetTheorems, TLAPS

-----------------------------------------------------------------------------
(* What the texts of a row do, whatever their sizes.                       *)

\* A long text ends the process exactly when it has at most 512 runes.
THEOREM PanicIffFewRunes ==
    ASSUME NEW s \in Size
    PROVE  TruncatePanics(s) <=> s.bytes > 700 /\ s.runes <= 512
  BY DEF Size, TruncatePanics, TooLong, Capacity, Kept, FieldCap

\* Text of one byte per rune never does, which is why no test of ASCII meets it.
THEOREM AsciiNeverPanics ==
    ASSUME NEW s \in Size, s.bytes = s.runes
    PROVE  ~TruncatePanics(s) /\ ~Padded(s)
  BY DEF Size, TruncatePanics, Padded, TooLong, Capacity, Kept, FieldCap

\* "[R]oughly fieldCap bytes for ASCII-heavy text": of a text that is returned,
\* an ASCII one keeps to the cap; any other to four bytes a rune.
THEOREM TruncatedFits ==
    ASSUME NEW s \in Size, NEW t, IsTruncated(t, s), ~TruncatePanics(s)
    PROVE  /\ t.bytes <= 4 * Kept
           /\ s.bytes = s.runes /\ t.bytes = t.runes => t.bytes <= FieldCap
  BY DEF Size, IsTruncated, TooLong, Kept, FieldCap

\* "so an actor or status value can never break a topic URL": a dispatch topic
\* is one the broker takes, whoever the assignee, just for prefixes of up to four
\* characters; the default agent- has six.
THEOREM ShortPrefixDelivers ==
    ASSUME NEW prefix \in Nat
    PROVE  (\A n \in Nat : TopicOk(DispatchLen(prefix, n))) <=> prefix <= 4
  <1>1. ASSUME prefix <= 4, NEW n \in Nat PROVE TopicOk(DispatchLen(prefix, n))
    BY <1>1 DEF TopicOk, DispatchLen, TagLen, TagCap, TopicMax
  <1>2. ASSUME prefix > 4 PROVE ~TopicOk(DispatchLen(prefix, 60))
    BY <1>2 DEF TopicOk, DispatchLen, TagLen, TagCap, TopicMax
  <1> QED
    BY <1>1, <1>2

-----------------------------------------------------------------------------
(* Type correctness.                                                       *)

\* A daemon before its first resolve is of the right types.
LEMMA InitType == Init => TypeOK
  BY NoCursorAssumption DEF Init, TypeOK, Row, Cursor, Labels

\* A goroutine's own step keeps the types.
LEMMA TailType == ASSUME TypeOK, NEW r \in Repos, Tail(r) PROVE TypeOK'
  <1>1. CASE Resolve(r)
    BY <1>1 DEF TypeOK, Resolve, Goto, Labels, brVars, stampVars, cursorVars, topicVars
  <1>2. CASE ReadTip(r)
    BY <1>2, BoundsAssumption DEF TypeOK, ReadTip, Goto, Labels, brVars, stampVars, cursorVars, topicVars
  <1>3. CASE Seed(r)
    BY <1>3, NoCursorAssumption DEF TypeOK, Seed, Goto, Labels, Cursor, brVars, stampVars, topicVars
  <1>4. CASE Tick(r)
    BY <1>4 DEF TypeOK, Tick, Goto, Labels, brVars, cursorVars, topicVars
  <1>5. CASE QueryRows(r)
    <2> PICK B \in SUBSET Pending(r) :
          /\ IsBatch(B, r)
          /\ batch' = [batch EXCEPT ![r] = B]
          /\ full' = [full EXCEPT ![r] = Cardinality(B) = BatchLimit]
      BY <1>5 DEF QueryRows
    <2>1. B \subseteq Row
      BY DEF TypeOK, Pending
    <2>2. B # {}
      BY <1>5, BoundsAssumption, FS_EmptySet DEF QueryRows, IsBatch
    <2> QED
      BY <1>5, <2>1, <2>2 DEF TypeOK, QueryRows, Goto, Labels, brVars, stampVars, cursorVars, topicVars
  <1>6. CASE QueryNone(r)
    BY <1>6 DEF TypeOK, QueryNone, DrainOk, Goto, Labels, brVars, stampVars, cursorVars, topicVars
  <1>7. CASE QueryFails(r)
    BY <1>7 DEF TypeOK, QueryFails, DrainFailed, Goto, Labels, brVars, stampVars, cursorVars, topicVars
  <1>8. CASE Firehose(r)
    BY <1>8 DEF TypeOK, Firehose, IsHead, Goto, Labels, brVars, stampVars, cursorVars
  <1>9. CASE Dispatch(r)
    BY <1>9 DEF TypeOK, Dispatch, IsHead, Goto, Labels, brVars, stampVars, cursorVars
  <1>10. CASE PublishFails(r)
    BY <1>10 DEF TypeOK, PublishFails, IsHead, DrainFailed, Goto, Labels, brVars, stampVars, cursorVars, topicVars
  <1>11. CASE Advance(r)
    BY <1>11, NoCursorAssumption DEF TypeOK, Advance, IsHead, Goto, Labels, Cursor, Row, brVars, stampVars, topicVars
  <1>12. CASE Regress(r)
    <2> PICK m \in 0..MaxId :
          /\ tip' = [tip EXCEPT ![r] = m]
          /\ IF m < cursor[r]
               THEN Goto(r, "reset") /\ UNCHANGED stampVars
               ELSE DrainOk(r)
      BY <1>12 DEF Regress
    <2>1. /\ pc[r] = "regress" /\ m \in Nat
          /\ UNCHANGED <<brVars, batch, full, cursorVars, topicVars, start, crashes>>
      BY <1>12, BoundsAssumption DEF Regress
    <2>2. CASE m < cursor[r]
      <3>1. UNCHANGED <<changed, moved, due>> /\ pc' = [pc EXCEPT ![r] = "reset"]
        BY <2>2 DEF Goto, stampVars
      <3> QED
        BY <2>1, <3>1 DEF TypeOK, Labels, brVars, cursorVars, topicVars
    <2>3. CASE ~(m < cursor[r])
      <3>1. DrainOk(r)
        BY <2>3
      <3> QED
        BY <2>1, <3>1 DEF TypeOK, DrainOk, Goto, Labels, brVars, cursorVars, topicVars
    <2> QED
      BY <2>2, <2>3
  <1>13. CASE Reset(r)
    BY <1>13, NoCursorAssumption DEF TypeOK, Reset, Goto, Labels, Cursor, brVars, stampVars, topicVars
  <1>14. CASE SaveOk(r)
    BY <1>14 DEF TypeOK, SaveOk, DrainOk, Goto, Labels, brVars, stampVars, topicVars
  <1>15. CASE SaveFails(r)
    BY <1>15 DEF TypeOK, SaveFails, Goto, Labels, brVars, stampVars, cursorVars, topicVars
  <1> QED
    BY <1>1, <1>2, <1>3, <1>4, <1>5, <1>6, <1>7, <1>8, <1>9, <1>10, <1>11, <1>12,
       <1>13, <1>14, <1>15 DEF Tail

\* Steps of br, of the clock, a panic and a restart keep the types.
LEMMA WorldType ==
    ASSUME TypeOK, (\E r \in Repos : Br(r) \/ Minute(r) \/ Panic(r)) \/ Restart
    PROVE  TypeOK'
  <1>1. ASSUME NEW r \in Repos, BrCommit(r) PROVE TypeOK'
    <2>1. [id |-> nextId[r], gen |-> gen[r]] \in Row
      BY <1>1 DEF TypeOK, Row
    <2>2. changed' \in [Repos -> BOOLEAN] /\ moved' \in [Repos -> BOOLEAN]
      BY <1>1 DEF TypeOK, BrCommit, Touch
    <2>3. log' \in [Repos -> SUBSET Row] /\ nextId' \in [Repos -> Nat \ {0}]
      BY <1>1, <2>1 DEF TypeOK, BrCommit
    <2> QED
      BY <1>1, <2>2, <2>3 DEF TypeOK, BrCommit, tailVars, cursorVars, topicVars
  <1>2. ASSUME NEW r \in Repos, BrDelete(r) PROVE TypeOK'
    BY <1>2 DEF TypeOK, BrDelete, Touch, tailVars, cursorVars, topicVars
  <1>3. ASSUME NEW r \in Repos, BrRebuild(r) PROVE TypeOK'
    BY <1>3, BoundsAssumption DEF TypeOK, BrRebuild, Touch, Row, tailVars, cursorVars, topicVars
  <1>4. ASSUME NEW r \in Repos, Minute(r) PROVE TypeOK'
    BY <1>4 DEF TypeOK, Minute, brVars, tailVars, cursorVars, topicVars
  <1>5. ASSUME Restart PROVE TypeOK'
    BY <1>5, NoCursorAssumption DEF TypeOK, Restart, Reload, Cursor, Labels, brVars, topicVars
  <1>6. ASSUME NEW r \in Repos, Panic(r) PROVE TypeOK'
    BY <1>6 DEF TypeOK, Panic, Reload, Cursor, Labels, brVars, topicVars
  <1> QED
    BY <1>1, <1>2, <1>3, <1>4, <1>5, <1>6 DEF Br

\* Every step keeps the types.
LEMMA NextType == TypeOK /\ [Next]_vars => TypeOK'
  <1>1. ASSUME TypeOK, UNCHANGED vars PROVE TypeOK'
    BY <1>1 DEF TypeOK, vars, brVars, stampVars, tailVars, cursorVars, topicVars
  <1> QED
    BY <1>1, TailType, WorldType DEF Next

\* Every variable keeps its type; a goroutine holds rows exactly while it
\* publishes them and has a cursor once it has left resolve().
THEOREM TypeCorrect == Spec => []TypeOK
  BY InitType, NextType, PTL DEF Spec

-----------------------------------------------------------------------------
(* The inductive invariant, one repo q at a time.                          *)

\* Nothing RepoInv(q) speaks of changes.
SameButFile(q) ==
    /\ log'[q] = log[q] /\ nextId'[q] = nextId[q] /\ gen'[q] = gen[q]
    /\ pc'[q] = pc[q] /\ tip'[q] = tip[q] /\ batch'[q] = batch[q]
    /\ cursor'[q] = cursor[q] /\ start'[q] = start[q]
    /\ heard'[q] = heard[q] /\ dispatched'[q] = dispatched[q]

Same(q) == SameButFile(q) /\ file'[q] = file[q]

\* A step that leaves a repo's state alone keeps what the invariant says of it.
LEMMA Frame == ASSUME NEW q \in Repos, RepoInv(q), Same(q) PROVE RepoInv(q)'
  BY DEF Same, SameButFile, RepoInv, RowsOK, Known, Fed, Batched, Staged, Saved, IsHead

\* Another repo's saveState() writes q's cursor into the file, at any point of
\* q's own work.
LEMMA SavedByOther ==
    ASSUME TypeOK, NEW q \in Repos, RepoInv(q), SameButFile(q), file'[q] = cursor[q]
    PROVE  RepoInv(q)'
  <1>1. RowsOK(q)'
    BY DEF SameButFile, RepoInv, RowsOK
  <1>2. ASSUME gen[q] = 0 PROVE Known(q)'
    BY <1>2 DEF SameButFile, RepoInv, Known
  <1>3. ASSUME gen[q] = 0 PROVE Fed(q)'
    BY <1>3 DEF SameButFile, RepoInv, Fed
  <1>4. ASSUME gen[q] = 0 PROVE Batched(q)'
    BY <1>4 DEF SameButFile, RepoInv, Batched, IsHead
  <1>5. ASSUME gen[q] = 0 PROVE Staged(q)'
    BY <1>5 DEF SameButFile, RepoInv, Staged
  <1>6. ASSUME gen[q] = 0 PROVE Saved(q)'
    BY <1>6 DEF SameButFile, RepoInv, Saved
  <1> QED
    BY <1>1, <1>2, <1>3, <1>4, <1>5, <1>6 DEF RepoInv, SameButFile

\* A goroutine leaves every other repo alone, but for the file.
LEMMA OthersSame ==
    ASSUME TypeOK, NEW r \in Repos, NEW q \in Repos, q # r, Tail(r)
    PROVE  Same(q) \/ (SameButFile(q) /\ file'[q] = cursor[q])
  <1> USE DEF Goto, brVars, stampVars, cursorVars, topicVars, Same, SameButFile
  <1>1. CASE Resolve(r) \/ ReadTip(r) \/ Seed(r)
    BY <1>1 DEF Resolve, ReadTip, Seed, TypeOK
  <1>2. CASE Tick(r) \/ QueryRows(r) \/ QueryNone(r) \/ QueryFails(r)
    BY <1>2 DEF Tick, QueryRows, QueryNone, QueryFails, DrainOk, DrainFailed, TypeOK
  <1>3. CASE Firehose(r) \/ Dispatch(r) \/ PublishFails(r)
    BY <1>3 DEF Firehose, Dispatch, PublishFails, DrainFailed, TypeOK
  <1>4. CASE Advance(r) \/ Reset(r)
    BY <1>4 DEF Advance, Reset, TypeOK
  <1>5. CASE Regress(r)
    BY <1>5 DEF Regress, DrainOk, TypeOK
  <1>6. CASE SaveOk(r)
    BY <1>6 DEF SaveOk, DrainOk, TypeOK
  <1>7. CASE SaveFails(r)
    BY <1>7 DEF SaveFails, TypeOK
  <1> QED
    BY <1>1, <1>2, <1>3, <1>4, <1>5, <1>6, <1>7 DEF Tail

\* A row is its id and its generation.
LEMMA RowFields ==
    ASSUME NEW e \in Row
    PROVE  e.id \in Nat /\ e.gen \in Nat /\ e = [id |-> e.id, gen |-> e.gen]
  BY DEF Row

\* What the sets of rows of a repo, and its counters, hold.
LEMMA RowTypes ==
    ASSUME TypeOK, NEW r \in Repos
    PROVE  /\ log[r] \subseteq Row /\ batch[r] \subseteq Row
           /\ heard[r] \subseteq Row
  BY DEF TypeOK

\* Two heads of one batch are the same row.
LEMMA OneHead ==
    ASSUME TypeOK, NEW r \in Repos, RepoInv(r), gen[r] = 0,
           NEW e \in batch[r], IsHead(e, r), NEW f \in batch[r], IsHead(f, r)
    PROVE  e = f
  <1>1. e \in Row /\ f \in Row
    BY RowTypes
  <1>2. f.id <= e.id /\ e.id <= f.id
    BY DEF IsHead
  <1>3. f.id = e.id
    BY <1>1, <1>2, RowFields
  <1>4. f.gen <= 0 /\ e.gen <= 0
    BY DEF RepoInv, RowsOK
  <1>5. f.gen = e.gen
    BY <1>1, <1>4, RowFields
  <1> QED
    BY <1>1, <1>3, <1>5, RowFields

\* The row a goroutine publishes next is the only one of the log between the
\* cursor and itself.
LEMMA HeadIsNext ==
    ASSUME TypeOK, NEW r \in Repos, RepoInv(r), gen[r] = 0,
           NEW e \in batch[r], IsHead(e, r),
           NEW f \in log[r], cursor[r] < f.id, f.id <= e.id
    PROVE  f = e
  <1>1. f \in batch[r]
    BY DEF RepoInv, Batched
  <1>2. IsHead(f, r)
    <2> SUFFICES ASSUME NEW g \in batch[r] PROVE f.id <= g.id
      BY <1>1 DEF IsHead
    <2>1. f.id \in Nat /\ e.id \in Nat /\ g.id \in Nat
      BY <1>1, RowTypes, RowFields
    <2>2. e.id <= g.id
      BY DEF IsHead
    <2> QED
      BY <2>1, <2>2
  <1> QED
    BY <1>1, <1>2, OneHead

\* The firehose may take the head of the batch without breaking the order.
LEMMA HearHead ==
    ASSUME TypeOK, TypeOK', NEW r \in Repos, RepoInv(r), gen[r] = 0,
           pc[r] = "publish", NEW e \in batch[r], IsHead(e, r),
           UNCHANGED <<log, cursor, file, start, dispatched>>,
           heard' = [heard EXCEPT ![r] = @ \cup {e}]
    PROVE  Fed(r)'
  <1>1. heard'[r] = heard[r] \cup {e}
    BY DEF TypeOK
  <1>2. ASSUME NEW f \in log[r], start[r] # NoCursor, start[r] < f.id, f.id <= e.id
        PROVE  f \in heard'[r]
    <2>1. cursor[r] \in Nat
      <3>1. cursor[r] # NoCursor
        BY DEF TypeOK
      <3> QED
        BY <3>1 DEF TypeOK, Cursor
    <2>4. f.id \in Nat
      BY RowTypes, RowFields
    <2>2. CASE f.id <= cursor[r]
      BY <1>1, <1>2, <2>1, <2>2, NoCursorAssumption DEF RepoInv, Fed
    <2>3. CASE cursor[r] < f.id
      BY <1>1, <1>2, <2>3, HeadIsNext
    <2> QED
      BY <2>1, <2>2, <2>3, <2>4
  <1> QED
    BY <1>1, <1>2 DEF RepoInv, Fed

\* publishEvent, the firehose: the head is heard, and it is the next unheard
\* row.
LEMMA FirehoseInv ==
    ASSUME TypeOK, TypeOK', NEW r \in Repos, RepoInv(r), Firehose(r)
    PROVE  RepoInv(r)'
  <1> PICK e \in batch[r] :
        /\ IsHead(e, r)
        /\ heard' = [heard EXCEPT ![r] = @ \cup {e}]
        /\ \/ e.id \in Assigned \cup Created /\ Goto(r, "dispatch")
           \/ e.id \notin Assigned /\ Goto(r, "advance")
    BY DEF Firehose
  <1>1. /\ pc[r] = "publish" /\ pc'[r] \in {"dispatch", "advance"}
        /\ pc'[r] = "advance" => e.id \notin Assigned
        /\ heard'[r] = heard[r] \cup {e}
        /\ UNCHANGED <<log, nextId, gen, tip, batch, cursor, file, dispatched, start>>
    BY DEF Firehose, Goto, TypeOK, brVars, cursorVars
  <1>2. RowsOK(r)'
    BY <1>1 DEF RepoInv, RowsOK
  <1> SUFFICES ASSUME gen[r] = 0
               PROVE  (Known(r) /\ Fed(r) /\ Batched(r) /\ Staged(r) /\ Saved(r))'
    BY <1>1, <1>2 DEF RepoInv
  <1>3. Known(r)'
    BY <1>1 DEF RepoInv, Known
  <1>4. Fed(r)'
    BY <1>1, HearHead DEF RepoInv
  <1>5. Batched(r)'
    BY <1>1, OneHead DEF RepoInv, Batched, IsHead
  <1>6. Staged(r)'
    BY <1>1 DEF RepoInv, Staged
  <1>7. Saved(r)'
    BY <1>1 DEF RepoInv, Saved
  <1> QED
    BY <1>3, <1>4, <1>5, <1>6, <1>7

\* publishEvent, the dispatch topic: the head has been heard, now dispatched
\* too.
LEMMA DispatchInv ==
    ASSUME TypeOK, TypeOK', NEW r \in Repos, RepoInv(r), Dispatch(r)
    PROVE  RepoInv(r)'
  <1> PICK e \in batch[r] :
        IsHead(e, r) /\ dispatched' = [dispatched EXCEPT ![r] = @ \cup {e}]
    BY DEF Dispatch
  <1>1. /\ pc[r] = "dispatch" /\ pc'[r] = "advance"
        /\ dispatched'[r] = dispatched[r] \cup {e}
        /\ UNCHANGED <<log, nextId, gen, tip, batch, cursor, file, heard, start>>
    BY DEF Dispatch, Goto, TypeOK, brVars, cursorVars
  <1>2. RowsOK(r)'
    BY <1>1 DEF RepoInv, RowsOK
  <1> SUFFICES ASSUME gen[r] = 0
               PROVE  (Known(r) /\ Fed(r) /\ Batched(r) /\ Staged(r) /\ Saved(r))'
    BY <1>1, <1>2 DEF RepoInv
  <1>3. Known(r)'
    BY <1>1 DEF RepoInv, Known
  <1>4. Fed(r)'
    BY <1>1 DEF RepoInv, Fed
  <1>5. Batched(r)'
    BY <1>1, OneHead DEF RepoInv, Batched, IsHead
  <1>6. Staged(r)'
    BY <1>1 DEF RepoInv, Staged
  <1>7. Saved(r)'
    BY <1>1 DEF RepoInv, Saved
  <1> QED
    BY <1>3, <1>4, <1>5, <1>6, <1>7

\* A failed publish, whether or not the broker took the row, drops the batch.
LEMMA PublishFailsInv ==
    ASSUME TypeOK, TypeOK', NEW r \in Repos, RepoInv(r), PublishFails(r)
    PROVE  RepoInv(r)'
  <1>1. /\ pc'[r] = "tick" /\ batch'[r] = {}
        /\ UNCHANGED <<log, nextId, gen, tip, cursor, file, start>>
    BY DEF PublishFails, DrainFailed, Goto, TypeOK, brVars, cursorVars
  <1>2. \/ UNCHANGED <<heard, dispatched>>
        \/ \E e \in batch[r] : /\ IsHead(e, r) /\ pc[r] = "publish" /\ UNCHANGED dispatched
                               /\ heard' = [heard EXCEPT ![r] = @ \cup {e}]
        \/ \E e \in batch[r] : /\ UNCHANGED heard
                               /\ dispatched' = [dispatched EXCEPT ![r] = @ \cup {e}]
    BY DEF PublishFails, topicVars
  <1>3. heard[r] \subseteq heard'[r] /\ heard'[r] \subseteq heard[r] \cup batch[r]
    BY <1>2 DEF TypeOK
  <1>4. dispatched[r] \subseteq dispatched'[r]
    BY <1>2 DEF TypeOK
  <1>5. RowsOK(r)'
    BY <1>1 DEF RepoInv, RowsOK
  <1> SUFFICES ASSUME gen[r] = 0
               PROVE  (Known(r) /\ Fed(r) /\ Batched(r) /\ Staged(r) /\ Saved(r))'
    BY <1>1, <1>5 DEF RepoInv
  <1>6. Known(r)'
    BY <1>1, <1>3 DEF RepoInv, Known
  <1>7. Fed(r)'
    <2>1. CASE heard' = heard
      BY <1>1, <1>4, <2>1 DEF RepoInv, Fed
    <2>2. CASE heard' # heard
      BY <1>1, <1>2, <2>2, HearHead
    <2> QED
      BY <2>1, <2>2
  <1>8. Batched(r)'
    BY <1>1 DEF Batched
  <1>9. Staged(r)'
    BY <1>1 DEF Staged
  <1>10. Saved(r)'
    BY <1>1 DEF RepoInv, Saved
  <1> QED
    BY <1>6, <1>7, <1>8, <1>9, <1>10

\* Passing a row: the cursor reaches it only after its topics have it.
LEMMA AdvanceInv ==
    ASSUME TypeOK, TypeOK', NEW r \in Repos, RepoInv(r), Advance(r)
    PROVE  RepoInv(r)'
  <1> PICK e \in batch[r] :
        /\ IsHead(e, r)
        /\ cursor' = [cursor EXCEPT ![r] = e.id]
        /\ batch' = [batch EXCEPT ![r] = @ \ {e}]
        /\ Goto(r, IF batch[r] = {e} THEN "save" ELSE "publish")
    BY DEF Advance
  <1>1. /\ pc[r] = "advance" /\ pc'[r] \in {"save", "publish"}
        /\ cursor'[r] = e.id /\ batch'[r] = batch[r] \ {e}
        /\ UNCHANGED <<log, nextId, gen, tip, file, heard, dispatched, start>>
    BY DEF Advance, Goto, TypeOK, brVars, topicVars
  <1>2. cursor[r] \in Nat /\ e \in Row /\ e.id \in Nat /\ e.id # NoCursor
    BY <1>1, RowTypes, RowFields, NoCursorAssumption DEF TypeOK, Cursor
  <1>3. RowsOK(r)'
    BY <1>1 DEF RepoInv, RowsOK
  <1> SUFFICES ASSUME gen[r] = 0
               PROVE  (Known(r) /\ Fed(r) /\ Batched(r) /\ Staged(r) /\ Saved(r))'
    BY <1>1, <1>3 DEF RepoInv
  <1>4. e \in heard[r] /\ (e.id \in Assigned => e \in dispatched[r]) /\ e.id > cursor[r]
    BY <1>1 DEF RepoInv, Batched
  <1>5. start[r] # NoCursor /\ cursor[r] # NoCursor
    BY <1>2, NoCursorAssumption DEF RepoInv, Saved
  <1>6. Known(r)'
    BY <1>1 DEF RepoInv, Known
  <1>7. Fed(r)'
    <2>1. ASSUME NEW f \in log[r], start[r] < f.id, f.id <= e.id
          PROVE  f \in heard[r] /\ (f.id \in Assigned => f \in dispatched[r])
      <3>1. f.id \in Nat
        BY RowTypes, RowFields
      <3>2. CASE f.id <= cursor[r]
        BY <1>5, <2>1, <3>2 DEF RepoInv, Fed
      <3>3. CASE cursor[r] < f.id
        BY <1>4, <2>1, <3>3, HeadIsNext
      <3> QED
        BY <1>2, <3>1, <3>2, <3>3
    <2> QED
      BY <1>1, <2>1 DEF RepoInv, Fed
  <1>8. Batched(r)'
    <2>1. ASSUME NEW g \in batch[r] \ {e}
          PROVE  g.id > e.id /\ (file[r] # NoCursor => g.id > file[r])
      <3>1. g.id \in Nat /\ e.id <= g.id
        BY RowTypes, RowFields DEF IsHead
      <3>2. g.id # e.id
        <4>1. ASSUME g.id = e.id PROVE IsHead(g, r)
          BY <4>1 DEF IsHead
        <4> QED
          BY <2>1, <4>1, OneHead
      <3> QED
        BY <1>2, <3>1, <3>2 DEF RepoInv, Batched
    <2>2. ASSUME NEW g \in batch[r] \ {e}, NEW f \in log[r], e.id < f.id, f.id <= g.id
          PROVE  f \in batch[r] \ {e}
      <3>1. cursor[r] < f.id /\ f.id # e.id
        BY <1>2, <1>4, <2>2, RowTypes, RowFields
      <3> QED
        BY <2>2, <3>1 DEF RepoInv, Batched
    <2> QED
      BY <1>1, <2>1, <2>2 DEF Batched
  <1>9. Staged(r)'
    BY <1>1 DEF Staged
  <1>10. Saved(r)'
    <2>1. ASSUME NEW f \in log[r], file[r] # NoCursor, f.id > e.id PROVE f.id > file[r]
      <3>1. f.id \in Nat /\ f.id > cursor[r]
        BY <1>2, <1>4, <2>1, RowTypes, RowFields
      <3> QED
        BY <2>1, <3>1 DEF RepoInv, Saved
    <2> QED
      BY <1>1, <1>2, <1>5, <2>1 DEF Saved
  <1> QED
    BY <1>6, <1>7, <1>8, <1>9, <1>10

\* A query takes every row from the cursor up to the last one it takes.
LEMMA QueryRowsInv ==
    ASSUME TypeOK, TypeOK', NEW r \in Repos, RepoInv(r), QueryRows(r)
    PROVE  RepoInv(r)'
  <1> PICK B \in SUBSET Pending(r) : IsBatch(B, r) /\ batch' = [batch EXCEPT ![r] = B]
    BY DEF QueryRows
  <1>1. /\ pc[r] = "query" /\ pc'[r] = "publish" /\ batch'[r] = B
        /\ UNCHANGED <<log, nextId, gen, tip, cursor, file, heard, dispatched, start>>
    BY DEF QueryRows, Goto, TypeOK, brVars, cursorVars, topicVars
  <1>2. cursor[r] \in Nat
    BY <1>1 DEF TypeOK, Cursor
  <1>3. B \subseteq log[r] /\ \A e \in B : e.id > cursor[r]
    BY DEF Pending
  <1>4. RowsOK(r)'
    BY <1>1, <1>3, RowTypes, RowFields DEF RepoInv, RowsOK
  <1> SUFFICES ASSUME gen[r] = 0
               PROVE  (Known(r) /\ Fed(r) /\ Batched(r) /\ Staged(r) /\ Saved(r))'
    BY <1>1, <1>4 DEF RepoInv
  <1>5. Known(r)'
    BY <1>1, <1>3 DEF RepoInv, Known, RowsOK
  <1>6. Fed(r)'
    BY <1>1 DEF RepoInv, Fed
  <1>7. Batched(r)'
    <2>1. ASSUME NEW e \in B, NEW f \in log[r], cursor[r] < f.id, f.id <= e.id
          PROVE  f \in B
      <3>1. f \in Pending(r)
        BY <1>2, <2>1, RowTypes, RowFields DEF Pending
      <3>2. f \notin B => e.id < f.id
        BY <3>1 DEF IsBatch
      <3> QED
        BY <2>1, <1>3, <3>2, RowTypes, RowFields
    <2>2. \A e \in B : file[r] # NoCursor => e.id > file[r]
      BY <1>2, <1>3 DEF RepoInv, Saved
    <2> QED
      BY <1>1, <1>3, <2>1, <2>2 DEF Batched
  <1>8. Staged(r)'
    BY <1>1 DEF Staged
  <1>9. Saved(r)'
    BY <1>1 DEF RepoInv, Saved
  <1> QED
    BY <1>5, <1>6, <1>7, <1>8, <1>9

\* A tip just read is ahead of every row.
LEMMA TipBound ==
    ASSUME TypeOK, NEW r \in Repos, RepoInv(r), NEW m \in 0..MaxId, IsTip(m, r)
    PROVE  m \in Nat /\ m < nextId[r] /\ \A e \in log[r] : e.id <= m
  <1>1. m \in Nat /\ nextId[r] \in Nat \ {0}
    BY BoundsAssumption DEF TypeOK
  <1>2. m < nextId[r]
    BY <1>1 DEF IsTip, RepoInv, RowsOK
  <1> QED
    BY <1>1, <1>2 DEF IsTip

\* resolve() reads the tip: nothing known lies at or past br's next id.
LEMMA ReadTipInv ==
    ASSUME TypeOK, TypeOK', NEW r \in Repos, RepoInv(r), ReadTip(r)
    PROVE  RepoInv(r)'
  <1> PICK m \in 0..MaxId : IsTip(m, r) /\ tip' = [tip EXCEPT ![r] = m]
    BY DEF ReadTip
  <1>1. /\ pc[r] = "resolve" /\ cursor[r] = NoCursor /\ pc'[r] = "seed" /\ tip'[r] = m
        /\ batch[r] = {}
        /\ UNCHANGED <<log, nextId, gen, batch, cursor, file, heard, dispatched, start>>
    BY DEF ReadTip, Goto, TypeOK, brVars, cursorVars, topicVars
  <1>2. \A e \in log[r] : e.id \in Nat /\ ~(e.id > m)
    BY TipBound, RowTypes, RowFields
  <1>3. m < nextId[r]
    BY TipBound
  <1>4. RowsOK(r)'
    BY <1>1 DEF RepoInv, RowsOK
  <1> SUFFICES ASSUME gen[r] = 0
               PROVE  (Known(r) /\ Fed(r) /\ Batched(r) /\ Staged(r) /\ Saved(r))'
    BY <1>1, <1>4 DEF RepoInv
  <1>5. Known(r)' /\ Batched(r)' /\ Staged(r)'
    BY <1>1, <1>2, <1>3 DEF RepoInv, Known, Batched, Staged
  <1>6. Fed(r)' /\ Saved(r)'
    BY <1>1 DEF RepoInv, Fed, Saved
  <1> QED
    BY <1>5, <1>6

\* The feed starts from the tip: nothing between start and cursor, and every
\* row above it is ahead of all that was heard before.
LEMMA SeedInv ==
    ASSUME TypeOK, TypeOK', NEW r \in Repos, RepoInv(r), Seed(r)
    PROVE  RepoInv(r)'
  <1>1. /\ pc[r] = "seed" /\ pc'[r] = "first" /\ batch[r] = {}
        /\ tip[r] \in Nat /\ cursor'[r] = tip[r] /\ start'[r] = tip[r]
        /\ UNCHANGED <<log, nextId, gen, tip, batch, file, heard, dispatched>>
    BY DEF Seed, Goto, TypeOK, brVars, topicVars
  <1>2. RowsOK(r)'
    BY <1>1 DEF RepoInv, RowsOK
  <1> SUFFICES ASSUME gen[r] = 0
               PROVE  (Known(r) /\ Fed(r) /\ Batched(r) /\ Staged(r) /\ Saved(r))'
    BY <1>1, <1>2 DEF RepoInv
  <1>3. file[r] = NoCursor
    BY <1>1 DEF RepoInv, Staged, Saved
  <1>4. Known(r)' /\ Batched(r)' /\ Staged(r)'
    BY <1>1 DEF RepoInv, Known, Batched, Staged
  <1>5. Fed(r)'
    <2>1. \A f \in log[r] : f.id \in Nat
      BY RowTypes, RowFields
    <2>2. \A e \in heard[r] : e.id \in Nat
      BY RowTypes, RowFields
    <2>3. \A f \in log[r], e \in heard[r] : tip[r] < f.id => ~(f.id <= e.id)
      BY <1>1, <2>1, <2>2 DEF RepoInv, Staged
    <2>4. \A f \in log[r] : ~(tip[r] < f.id /\ f.id <= tip[r])
      BY <1>1, <2>1
    <2> QED
      BY <1>1, <1>3, <2>3, <2>4 DEF Fed
  <1>6. Saved(r)'
    BY <1>1, <1>3, NoCursorAssumption DEF Saved
  <1> QED
    BY <1>4, <1>5, <1>6

\* The tip read by checkRegression() is below the cursor, and no row that
\* exists lies between the two.
LEMMA RegressInv ==
    ASSUME TypeOK, TypeOK', NEW r \in Repos, RepoInv(r), Regress(r)
    PROVE  RepoInv(r)'
  <1> PICK m \in 0..MaxId :
        /\ IsTip(m, r)
        /\ tip' = [tip EXCEPT ![r] = m]
        /\ IF m < cursor[r]
             THEN Goto(r, "reset") /\ UNCHANGED stampVars
             ELSE DrainOk(r)
    BY DEF Regress
  <1>1. /\ pc[r] = "regress" /\ batch[r] = {} /\ tip'[r] = m
        /\ UNCHANGED <<log, nextId, gen, batch, cursor, file, heard, dispatched, start>>
    BY DEF Regress, TypeOK, brVars, cursorVars, topicVars
  <1>2. pc'[r] \in {"reset", "tick"} /\ (pc'[r] = "reset" => m < cursor[r])
    BY DEF DrainOk, Goto, TypeOK
  <1>3. \A e \in log[r] : e.id \in Nat /\ ~(e.id > m)
    BY TipBound, RowTypes, RowFields
  <1>4. m < nextId[r]
    BY TipBound
  <1>5. RowsOK(r)'
    BY <1>1 DEF RepoInv, RowsOK
  <1> SUFFICES ASSUME gen[r] = 0
               PROVE  (Known(r) /\ Fed(r) /\ Batched(r) /\ Staged(r) /\ Saved(r))'
    BY <1>1, <1>5 DEF RepoInv
  <1>6. Known(r)' /\ Batched(r)' /\ Staged(r)'
    BY <1>1, <1>2, <1>3, <1>4 DEF RepoInv, Known, Batched, Staged
  <1>7. Fed(r)' /\ Saved(r)'
    BY <1>1 DEF RepoInv, Fed, Saved
  <1> QED
    BY <1>6, <1>7

\* The cursor falls back over ids no row has any more.
LEMMA ResetInv ==
    ASSUME TypeOK, TypeOK', NEW r \in Repos, RepoInv(r), Reset(r)
    PROVE  RepoInv(r)'
  <1>1. /\ pc[r] = "reset" /\ pc'[r] = "resave" /\ batch[r] = {}
        /\ cursor[r] \in Nat /\ cursor[r] # NoCursor
        /\ tip[r] \in Nat /\ cursor'[r] = tip[r]
        /\ UNCHANGED <<log, nextId, gen, tip, batch, file, heard, dispatched, start>>
    BY NoCursorAssumption DEF Reset, Goto, TypeOK, Cursor, brVars, topicVars
  <1>2. RowsOK(r)'
    BY <1>1 DEF RepoInv, RowsOK
  <1> SUFFICES ASSUME gen[r] = 0
               PROVE  (Known(r) /\ Fed(r) /\ Batched(r) /\ Staged(r) /\ Saved(r))'
    BY <1>1, <1>2 DEF RepoInv
  <1>3. tip[r] < cursor[r]
    BY <1>1 DEF RepoInv, Staged
  <1>4. Known(r)' /\ Batched(r)' /\ Staged(r)'
    BY <1>1 DEF RepoInv, Known, Batched, Staged
  <1>5. Fed(r)'
    <2>1. ASSUME NEW f \in log[r], f.id <= tip[r] PROVE f.id <= cursor[r]
      <3>1. f.id \in Nat
        BY RowTypes, RowFields
      <3> QED
        BY <1>1, <1>3, <2>1, <3>1
    <2> QED
      BY <1>1, <2>1 DEF RepoInv, Fed
  <1>6. Saved(r)'
    BY <1>1, NoCursorAssumption DEF RepoInv, Saved, Staged
  <1> QED
    BY <1>4, <1>5, <1>6

\* saveState(), the repo's own: its saved cursor is the one in memory.
LEMMA SaveOkInv ==
    ASSUME TypeOK, TypeOK', NEW r \in Repos, RepoInv(r), SaveOk(r)
    PROVE  RepoInv(r)'
  <1>1. /\ pc[r] \in {"first", "save", "resave"} /\ pc'[r] \in {"tick", "query"}
        /\ batch[r] = {} /\ file'[r] = cursor[r]
        /\ UNCHANGED <<log, nextId, gen, tip, batch, cursor, heard, dispatched, start>>
    <2>1. pc[r] \in {"first", "save", "resave"} /\ batch[r] = {}
      BY DEF SaveOk, TypeOK
    <2>2. pc'[r] \in {"tick", "query"}
      BY <2>1 DEF SaveOk, DrainOk, Goto, TypeOK
    <2> QED
      BY <2>1, <2>2 DEF SaveOk, brVars, topicVars
  <1>2. RowsOK(r)'
    BY <1>1 DEF RepoInv, RowsOK
  <1> SUFFICES ASSUME gen[r] = 0
               PROVE  (Known(r) /\ Fed(r) /\ Batched(r) /\ Staged(r) /\ Saved(r))'
    BY <1>1, <1>2 DEF RepoInv
  <1>3. Known(r)' /\ Fed(r)'
    BY <1>1 DEF RepoInv, Known, Fed
  <1>4. Batched(r)' /\ Staged(r)' /\ Saved(r)'
    BY <1>1 DEF RepoInv, Batched, Staged, Saved
  <1> QED
    BY <1>3, <1>4

\* The steps that only move the goroutine on, dropping the batch if at all.
LEMMA QuietInv ==
    ASSUME TypeOK, TypeOK', NEW r \in Repos, RepoInv(r),
           Resolve(r) \/ Tick(r) \/ QueryNone(r) \/ QueryFails(r) \/ SaveFails(r)
    PROVE  RepoInv(r)'
  <1>1. /\ pc'[r] \notin {"seed", "reset", "dispatch", "advance"}
        /\ batch'[r] = {} /\ batch[r] = {}
        /\ UNCHANGED <<log, nextId, gen, tip, cursor, file, heard, dispatched, start>>
    <2>1. CASE Resolve(r) \/ Tick(r)
      BY <2>1 DEF Resolve, Tick, Goto, TypeOK, brVars, cursorVars, topicVars
    <2>2. CASE QueryNone(r)
      BY <2>2 DEF QueryNone, DrainOk, Goto, TypeOK, brVars, cursorVars, topicVars
    <2>3. CASE QueryFails(r)
      BY <2>3 DEF QueryFails, DrainFailed, Goto, TypeOK, brVars, cursorVars, topicVars
    <2>4. CASE SaveFails(r)
      BY <2>4 DEF SaveFails, Goto, TypeOK, brVars, cursorVars, topicVars
    <2> QED
      BY <2>1, <2>2, <2>3, <2>4
  <1> QED
    BY <1>1 DEF RepoInv, RowsOK, Known, Fed, Batched, Staged, Saved, IsHead

\* Every step of any goroutine keeps the invariant of every repo.
LEMMA TailInv ==
    ASSUME TypeOK, TypeOK', NEW r \in Repos, Tail(r), NEW q \in Repos, RepoInv(q)
    PROVE  RepoInv(q)'
  <1>1. CASE q = r
    BY <1>1, FirehoseInv, DispatchInv, PublishFailsInv, AdvanceInv, QueryRowsInv, ReadTipInv,
       SeedInv, RegressInv, ResetInv, SaveOkInv, QuietInv DEF Tail
  <1>2. CASE q # r
    BY <1>2, OthersSame, Frame, SavedByOther
  <1> QED
    BY <1>1, <1>2

\* br's writers: a committed row is ahead of everything known, a deleted one is
\* missed by nobody, and a rebuild starts a generation nothing is claimed of.
LEMMA BrInv ==
    ASSUME TypeOK, TypeOK', NEW r \in Repos, Br(r), NEW q \in Repos, RepoInv(q)
    PROVE  RepoInv(q)'
  <1> USE DEF tailVars, cursorVars, topicVars
  <1>1. CASE q # r
    BY <1>1, Frame DEF Br, BrCommit, BrDelete, BrRebuild, Same, SameButFile, TypeOK
  <1>2. CASE q = r /\ BrCommit(r)
    <2> DEFINE n == [id |-> nextId[r], gen |-> gen[r]]
    <2>1. /\ log'[r] = log[r] \cup {n} /\ nextId'[r] = nextId[r] + 1 /\ nextId[r] \in Nat
          /\ n.id = nextId[r] /\ n.gen = gen[r]
          /\ UNCHANGED <<gen, pc, tip, batch, cursor, file, heard, dispatched, start>>
      BY <1>2 DEF BrCommit, TypeOK
    <2> HIDE DEF n
    <2>2. /\ \A e \in log[r] \cup heard[r] \cup batch[r] : e.id \in Nat
          /\ cursor[r] \in Cursor /\ file[r] \in Cursor /\ tip[r] \in Nat
      BY RowTypes, RowFields DEF TypeOK
    <2>3. RowsOK(r)'
      BY <1>2, <2>1, <2>2 DEF RepoInv, RowsOK
    <2> SUFFICES ASSUME gen[r] = 0
                 PROVE  (Known(r) /\ Fed(r) /\ Batched(r) /\ Staged(r) /\ Saved(r))'
      BY <1>2, <2>1, <2>3 DEF RepoInv
    <2>4. Known(r)
      BY <1>2 DEF RepoInv
    <2>5. Known(r)'
      BY <2>1, <2>2, <2>4 DEF Known, Cursor
    <2>6. /\ cursor[r] # NoCursor => ~(n.id <= cursor[r])
          /\ file[r] # NoCursor => n.id > file[r] /\ ~(n.id <= file[r])
          /\ \A e \in heard[r] \cup batch[r] : n.id > e.id /\ ~(n.id <= e.id)
      BY <2>1, <2>2, <2>4 DEF Known, Cursor
    <2>7. Fed(r)'
      BY <1>2, <2>1, <2>6 DEF RepoInv, Fed
    <2>8. Batched(r)'
      BY <1>2, <2>1, <2>6 DEF RepoInv, Batched, IsHead
    <2>9. Staged(r)'
      <3>1. pc[r] = "reset" => cursor[r] # NoCursor
        BY DEF TypeOK
      <3>2. cursor[r] # NoCursor => n.id > cursor[r]
        BY <2>1, <2>2, <2>4 DEF Known, Cursor
      <3> QED
        BY <1>2, <2>1, <2>6, <3>1, <3>2 DEF RepoInv, Staged
    <2>10. Saved(r)'
      BY <1>2, <2>1, <2>6 DEF RepoInv, Saved
    <2> QED
      BY <2>5, <2>7, <2>8, <2>9, <2>10
  <1>3. CASE q = r /\ BrDelete(r)
    <2>1. /\ log'[r] \subseteq log[r]
          /\ UNCHANGED <<nextId, gen, pc, tip, batch, cursor, file, heard, dispatched, start>>
      BY <1>3 DEF BrDelete, TypeOK
    <2> QED
      BY <1>3, <2>1 DEF RepoInv, RowsOK, Known, Fed, Batched, Staged, Saved, IsHead
  <1>4. CASE q = r /\ BrRebuild(r)
    <2> PICK k \in 0..MaxId : /\ log' = [log EXCEPT ![r] = [id : 1..k, gen : {gen[r] + 1}]]
                              /\ nextId' = [nextId EXCEPT ![r] = k + 1]
      BY <1>4 DEF BrRebuild
    <2>1. /\ log'[r] = [id : 1..k, gen : {gen[r] + 1}] /\ nextId'[r] = k + 1
          /\ k \in Nat
      <3>1. k \in Nat
        BY BoundsAssumption
      <3>2. Repos = DOMAIN log /\ Repos = DOMAIN nextId
        BY DEF TypeOK
      <3> QED
        BY <3>1, <3>2
    <2>2. gen'[r] = gen[r] + 1 /\ gen[r] \in Nat /\ batch' = batch
      BY <1>4 DEF BrRebuild, TypeOK
    <2>3. ASSUME NEW e \in log'[r] PROVE e.gen = gen'[r] /\ e.id < nextId'[r]
      <3>1. e.id \in 1..k /\ e.gen \in {gen[r] + 1}
        BY <2>1
      <3> QED
        BY <2>1, <2>2, <3>1
    <2>4. \A e \in batch'[r] : e.gen <= gen'[r]
      BY <1>4, <2>2, RowTypes, RowFields DEF RepoInv, RowsOK
    <2> QED
      BY <1>4, <2>2, <2>3, <2>4 DEF RepoInv, RowsOK
  <1> QED
    BY <1>1, <1>2, <1>3, <1>4 DEF Br

\* A restart, also one after a panic, keeps what the file has; the volatile
\* rest starts empty.
LEMMA RestartInv ==
    ASSUME TypeOK, TypeOK', Restart \/ \E r \in Repos : Panic(r), NEW q \in Repos, RepoInv(q)
    PROVE  RepoInv(q)'
  <1>1. /\ pc'[q] = "resolve" /\ batch'[q] = {} /\ cursor'[q] = file'[q]
        /\ file'[q] = file[q] \/ file'[q] = NoCursor
        /\ UNCHANGED <<log, nextId, gen, heard, dispatched, start>>
    BY DEF Restart, Panic, Reload, brVars, topicVars
  <1>2. gen[q] = 0 /\ file[q] # NoCursor => start[q] # NoCursor
    BY DEF RepoInv, Saved
  <1>3. RowsOK(q)'
    BY <1>1 DEF RepoInv, RowsOK
  <1>4. gen[q] = 0 => Known(q)' /\ Batched(q)' /\ Staged(q)'
    BY <1>1 DEF RepoInv, Known, Batched, Staged
  <1>5. gen[q] = 0 => Fed(q)'
    BY <1>1 DEF RepoInv, Fed
  <1>6. gen[q] = 0 => Saved(q)'
    BY <1>1, <1>2 DEF RepoInv, Saved
  <1> QED
    BY <1>1, <1>3, <1>4, <1>5, <1>6 DEF RepoInv

\* Time passing touches nothing the invariant speaks of.
LEMMA MinuteInv ==
    ASSUME NEW r \in Repos, Minute(r), NEW q \in Repos, RepoInv(q) PROVE RepoInv(q)'
  BY Frame DEF Minute, Same, SameButFile, brVars, tailVars, cursorVars, topicVars

\* The inductive invariant holds at the start.
LEMMA InitInv == Init => IInv
  <1> SUFFICES ASSUME Init PROVE IInv
    OBVIOUS
  <1>1. ASSUME NEW r \in Repos PROVE RepoInv(r)
    BY <1>1 DEF Init, RepoInv, RowsOK, Known, Fed, Batched, Staged, Saved
  <1> QED
    BY <1>1, InitType DEF IInv

\* Every step of any repo, of br, of the clock and of a restart keeps it.
LEMMA NextInv == IInv /\ [Next]_vars => IInv'
  <1> SUFFICES ASSUME IInv, [Next]_vars PROVE IInv'
    OBVIOUS
  <1>1. TypeOK /\ TypeOK'
    BY NextType DEF IInv
  <1>2. ASSUME NEW q \in Repos PROVE RepoInv(q)'
    <2>1. RepoInv(q)
      BY <1>2 DEF IInv
    <2>2. CASE UNCHANGED vars
      BY <1>2, <2>1, <2>2, Frame
         DEF Same, SameButFile, vars, brVars, tailVars, cursorVars, topicVars
    <2>3. CASE Next
      BY <1>1, <1>2, <2>1, <2>3, TailInv, BrInv, MinuteInv, RestartInv DEF Next
    <2> QED
      BY <2>2, <2>3
  <1> QED
    BY <1>1, <1>2 DEF IInv

\* The inductive invariant holds in every reachable state.
THEOREM Inductive == Spec => []IInv
  BY InitInv, NextInv, PTL DEF Spec

\* At-least-once: neither the cursor in memory nor the one in the state file
\* is ever past a row the firehose has not received.
THEOREM AtLeastOnce == Spec => []NoLoss
  <1>1. IInv => NoLoss
    BY DEF IInv, RepoInv, Fed, NoLoss, Between
  <1> QED
    BY <1>1, Inductive, PTL

\* No cursor is ever past an assignment the assignee's topic has not received.
THEOREM AssignmentsKept == Spec => []NoLostAssignment
  <1>1. IInv => NoLostAssignment
    BY DEF IInv, RepoInv, Fed, NoLostAssignment, Between
  <1> QED
    BY <1>1, Inductive, PTL

\* The firehose receives the rows of a repo oldest first, with no gap.
THEOREM OrderKept == Spec => []InOrder
  <1>1. IInv => InOrder
    BY DEF IInv, RepoInv, Fed, InOrder, Between
  <1> QED
    BY <1>1, Inductive, PTL

\* Nothing at or below the saved cursor is published again.
THEOREM NoReplay == Spec => NoReplayOfSaved
  <1>1. ASSUME IInv, [Next]_vars, NEW r \in Repos, gen'[r] = 0, file[r] # NoCursor,
               NEW e \in batch[r], Firehose(r) \/ Dispatch(r)
        PROVE  e.id > file[r]
    <2>1. gen[r] = 0
      BY <1>1 DEF Firehose, Dispatch, brVars
    <2> QED
      BY <1>1, <2>1 DEF IInv, RepoInv, Batched
  <1>2. IInv /\ [Next]_vars =>
          [\A r \in Repos : gen'[r] = 0 /\ file[r] # NoCursor =>
              \A e \in batch[r] :
                 (IsHead(e, r) /\ (Firehose(r) \/ Dispatch(r))) => e.id > file[r]]_vars
    BY <1>1
  <1> QED
    BY <1>2, Inductive, PTL DEF Spec, NoReplayOfSaved

-----------------------------------------------------------------------------
(* No sleep over pending rows, when every commit moves the files.          *)

\* A goroutine with rows pending, or that has not polled yet, sees the stamp
\* moved.
Wakes(r) ==
    /\ moved[r] => changed[r]
    /\ pc[r] \in {"resolve", "seed", "first"} => changed[r]
    /\ cursor[r] # NoCursor => (Pending(r) # {} => changed[r])

\* Behind a batch that was not full there are only rows that moved the files.
Passing(r) ==
    pc[r] \in {"publish", "dispatch", "advance"} =>
        /\ \A e \in batch[r] : cursor[r] <= e.id
        /\ \A f \in Pending(r) \ batch[r] : full[r] \/ moved[r]

\* And so behind a log that was read to its end.
Drained(r) ==
    pc[r] \in {"regress", "resave"} \/ (pc[r] = "save" /\ ~full[r]) =>
        \A f \in Pending(r) : moved[r]

\* A fallen log has no row above the tip that did not move them either.
Fallen(r) ==
    pc[r] = "reset" => \A f \in log[r] : f.id > tip[r] => moved[r]

Awake(r) == Wakes(r) /\ Passing(r) /\ Drained(r) /\ Fallen(r)

\* A step that leaves a repo's state, but for the file, alone.
LEMMA AwakeFrame ==
    ASSUME NEW q \in Repos, Awake(q), SameButFile(q),
           changed'[q] = changed[q], moved'[q] = moved[q], full'[q] = full[q]
    PROVE  Awake(q)'
  BY DEF SameButFile, Awake, Wakes, Passing, Drained, Fallen, Pending

\* A goroutine leaves the stamps and the batch of every other repo alone.
LEMMA OthersStamp ==
    ASSUME TypeOK, NEW r \in Repos, NEW q \in Repos, q # r, Tail(r)
    PROVE  changed'[q] = changed[q] /\ moved'[q] = moved[q] /\ full'[q] = full[q]
  <1> USE DEF Goto, stampVars
  <1>1. CASE Resolve(r) \/ ReadTip(r) \/ Seed(r)
    BY <1>1 DEF Resolve, ReadTip, Seed
  <1>2. CASE Tick(r) \/ QueryRows(r) \/ QueryNone(r) \/ QueryFails(r)
    BY <1>2 DEF Tick, QueryRows, QueryNone, QueryFails, DrainOk, DrainFailed, TypeOK
  <1>3. CASE Firehose(r) \/ Dispatch(r) \/ PublishFails(r)
    BY <1>3 DEF Firehose, Dispatch, PublishFails, DrainFailed
  <1>4. CASE Advance(r) \/ Reset(r)
    BY <1>4 DEF Advance, Reset
  <1>5. CASE Regress(r)
    BY <1>5 DEF Regress, DrainOk, TypeOK
  <1>6. CASE SaveOk(r)
    BY <1>6 DEF SaveOk, DrainOk, TypeOK
  <1>7. CASE SaveFails(r)
    BY <1>7 DEF SaveFails
  <1> QED
    BY <1>1, <1>2, <1>3, <1>4, <1>5, <1>6, <1>7 DEF Tail

\* A goroutine's own step.  DrainOk forgets no row: what is pending then has
\* moved the files since the tick.
LEMMA AwakeTail ==
    ASSUME TypeOK, TypeOK', NEW r \in Repos, Tail(r), Awake(r) PROVE Awake(r)'
  <1> USE DEF Goto, stampVars, brVars, cursorVars, topicVars
  <1>a. /\ \A e \in log[r] \cup batch[r] : e.id \in Nat
        /\ tip[r] \in Nat /\ cursor[r] \in Cursor
    BY RowTypes, RowFields DEF TypeOK
  <1>1. CASE Resolve(r) \/ ReadTip(r) \/ Tick(r)
    <2>1. /\ pc'[r] \in {"tick", "seed", "query"}
          /\ pc'[r] = "seed" => pc[r] = "resolve"
          /\ moved'[r] = moved[r] \/ moved'[r] = FALSE
          /\ UNCHANGED <<log, cursor, changed>>
      BY <1>1 DEF Resolve, ReadTip, Tick, TypeOK
    <2> QED
      BY <2>1 DEF Awake, Wakes, Passing, Drained, Fallen, Pending
  <1>2. CASE Seed(r)
    <2>1. pc[r] = "seed" /\ pc'[r] = "first" /\ UNCHANGED <<changed, moved>>
      BY <1>2 DEF Seed, TypeOK
    <2> QED
      BY <2>1 DEF Awake, Wakes, Passing, Drained, Fallen
  <1>3. CASE QueryRows(r)
    <2> PICK B \in SUBSET Pending(r) :
          /\ IsBatch(B, r)
          /\ batch' = [batch EXCEPT ![r] = B]
          /\ full' = [full EXCEPT ![r] = Cardinality(B) = BatchLimit]
      BY <1>3 DEF QueryRows
    <2>1. /\ pc'[r] = "publish" /\ batch'[r] = B
          /\ full'[r] = (Cardinality(B) = BatchLimit)
          /\ UNCHANGED <<log, cursor, changed, moved>>
      BY <1>3 DEF QueryRows, TypeOK
    <2>2. Cardinality(B) = BatchLimit \/ B = Pending(r)
      BY DEF IsBatch
    <2>3. Pending(r)' = Pending(r)
      BY <2>1 DEF Pending
    <2>4. \A e \in B : cursor[r] <= e.id
      BY <1>a, <1>3 DEF QueryRows, TypeOK, Cursor, Pending
    <2>5. Passing(r)'
      BY <2>1, <2>2, <2>3, <2>4 DEF Passing
    <2> QED
      BY <2>1, <2>3, <2>5 DEF Awake, Wakes, Drained, Fallen
  <1>4. CASE QueryNone(r)
    <2>1. /\ Pending(r) = {} /\ pc'[r] \in {"tick", "regress"}
          /\ moved'[r] = moved[r] /\ (moved[r] => changed'[r])
          /\ UNCHANGED <<log, cursor>>
      BY <1>4 DEF QueryNone, DrainOk, TypeOK, Awake, Wakes
    <2>2. Pending(r)' = {}
      BY <2>1 DEF Pending
    <2> QED
      BY <2>1, <2>2 DEF Awake, Wakes, Passing, Drained, Fallen
  <1>5. CASE QueryFails(r) \/ PublishFails(r)
    <2>1. pc'[r] = "tick" /\ UNCHANGED <<log, cursor, changed, moved>>
      BY <1>5 DEF QueryFails, PublishFails, DrainFailed, TypeOK
    <2> QED
      BY <2>1 DEF Awake, Wakes, Passing, Drained, Fallen, Pending
  <1>6. CASE Firehose(r) \/ Dispatch(r)
    <2>1. /\ pc[r] \in {"publish", "dispatch"} /\ pc'[r] \in {"dispatch", "advance"}
          /\ UNCHANGED <<log, cursor, changed, moved, batch, full>>
      BY <1>6 DEF Firehose, Dispatch, TypeOK
    <2> QED
      BY <2>1 DEF Awake, Wakes, Passing, Drained, Fallen, Pending
  <1>7. CASE Advance(r)
    <2> PICK e \in batch[r] :
          /\ cursor' = [cursor EXCEPT ![r] = e.id]
          /\ batch' = [batch EXCEPT ![r] = @ \ {e}]
          /\ Goto(r, IF batch[r] = {e} THEN "save" ELSE "publish")
          /\ IsHead(e, r)
      BY <1>7 DEF Advance
    <2>1. /\ pc[r] = "advance" /\ cursor'[r] = e.id /\ batch'[r] = batch[r] \ {e}
          /\ pc'[r] = IF batch[r] = {e} THEN "save" ELSE "publish"
          /\ UNCHANGED <<log, changed, moved, full>>
      BY <1>7 DEF Advance, TypeOK
    <2>2. cursor[r] # NoCursor /\ cursor[r] \in Nat /\ cursor[r] <= e.id /\ e.id \in Nat
      BY <1>a, <2>1 DEF TypeOK, Cursor, Awake, Passing
    <2>3. Pending(r)' = {f \in log[r] : f.id > e.id}
      BY <2>1 DEF Pending
    <2>4. Pending(r)' \subseteq Pending(r) /\ e \notin Pending(r)'
      BY <1>a, <2>2, <2>3 DEF Pending
    <2>5. Wakes(r)'
      BY <2>1, <2>2, <2>4 DEF Awake, Wakes
    <2>6. Passing(r)'
      <3>1. \A f \in batch[r] \ {e} : e.id <= f.id
        BY DEF IsHead
      <3>2. \A f \in Pending(r)' \ (batch[r] \ {e}) : full[r] \/ moved[r]
        BY <2>1, <2>4 DEF Awake, Passing
      <3> QED
        BY <2>1, <3>1, <3>2 DEF Passing
    <2>7. Drained(r)'
      BY <2>1, <2>4 DEF Awake, Passing, Drained
    <2>8. Fallen(r)'
      BY <2>1 DEF Fallen
    <2> QED
      BY <2>5, <2>6, <2>7, <2>8 DEF Awake
  <1>8. CASE Regress(r)
    <2> PICK m \in 0..MaxId :
          /\ IsTip(m, r)
          /\ tip' = [tip EXCEPT ![r] = m]
          /\ IF m < cursor[r]
               THEN Goto(r, "reset") /\ UNCHANGED stampVars
               ELSE DrainOk(r)
      BY <1>8 DEF Regress
    <2>1. /\ pc[r] = "regress" /\ tip'[r] = m /\ m \in Nat
          /\ UNCHANGED <<log, cursor>>
      BY <1>8, BoundsAssumption DEF Regress, TypeOK
    <2>2. Pending(r)' = Pending(r) /\ \A f \in Pending(r) : moved[r]
      BY <2>1 DEF Pending, Awake, Drained
    <2>3. CASE m < cursor[r]
      <3>1. pc'[r] = "reset" /\ UNCHANGED <<changed, moved>>
        BY <2>3 DEF TypeOK
      <3>2. \A f \in log[r] : ~(f.id > m)
        BY <1>a, <2>1 DEF IsTip
      <3> QED
        BY <2>1, <2>2, <3>1, <3>2 DEF Awake, Wakes, Passing, Drained, Fallen
    <2>4. CASE ~(m < cursor[r])
      <3>1. pc'[r] = "tick" /\ changed'[r] = moved[r] /\ moved' = moved
        BY <2>4 DEF DrainOk, TypeOK
      <3> QED
        BY <2>1, <2>2, <3>1 DEF Awake, Wakes, Passing, Drained, Fallen
    <2> QED
      BY <2>3, <2>4
  <1>9. CASE Reset(r)
    <2>1. /\ pc[r] = "reset" /\ pc'[r] = "resave" /\ cursor'[r] = tip[r]
          /\ UNCHANGED <<log, changed, moved>>
      BY <1>9 DEF Reset, TypeOK
    <2>2. \A f \in Pending(r)' : moved[r]
      BY <2>1 DEF Pending, Awake, Fallen
    <2> QED
      BY <2>1, <2>2 DEF Awake, Wakes, Passing, Drained, Fallen
  <1>10. CASE SaveOk(r)
    <2>1. pc[r] \in {"first", "save", "resave"} /\ UNCHANGED <<log, cursor>>
      BY <1>10 DEF SaveOk
    <2>2. Pending(r)' = Pending(r)
      BY <2>1 DEF Pending
    <2>3. CASE pc[r] = "first" \/ (pc[r] = "save" /\ full[r])
      <3>1. pc'[r] \in {"tick", "query"} /\ UNCHANGED <<changed, moved>>
        BY <1>10, <2>3 DEF SaveOk, TypeOK
      <3> QED
        BY <2>1, <2>2, <3>1 DEF Awake, Wakes, Passing, Drained, Fallen
    <2>4. CASE pc[r] = "resave" \/ (pc[r] = "save" /\ ~full[r])
      <3>1. pc'[r] = "tick" /\ changed'[r] = moved[r] /\ moved' = moved
        BY <1>10, <2>4 DEF SaveOk, DrainOk, TypeOK
      <3> QED
        BY <2>1, <2>2, <2>4, <3>1 DEF Awake, Wakes, Passing, Drained, Fallen
    <2> QED
      BY <2>1, <2>3, <2>4
  <1>11. CASE SaveFails(r)
    <2>1. /\ pc'[r] \in {"resolve", "tick"} /\ (pc'[r] = "resolve" => pc[r] = "first")
          /\ UNCHANGED <<log, cursor, changed, moved>>
      BY <1>11 DEF SaveFails, TypeOK
    <2> QED
      BY <2>1 DEF Awake, Wakes, Passing, Drained, Fallen, Pending
  <1> QED
    BY <1>1, <1>2, <1>3, <1>4, <1>5, <1>6, <1>7, <1>8, <1>9, <1>10, <1>11 DEF Tail

\* br's writers: a new row moves the files, a deleted one leaves fewer pending.
LEMMA AwakeBr ==
    ASSUME TypeOK, MayMissStamp = FALSE, NEW r \in Repos, Br(r), NEW q \in Repos, Awake(q)
    PROVE  Awake(q)'
  <1> USE DEF tailVars, cursorVars, Touch
  <1>1. CASE q # r
    BY <1>1, AwakeFrame DEF Br, BrCommit, BrDelete, BrRebuild, topicVars, SameButFile, TypeOK
  <1>2. CASE q = r
    <2>1. /\ changed'[r] /\ moved'[r]
          /\ UNCHANGED <<pc, cursor, batch, full, tip>>
      BY <1>2 DEF Br, BrCommit, BrDelete, BrRebuild, TypeOK
    <2> QED
      BY <1>2, <2>1 DEF Awake, Wakes, Passing, Drained, Fallen
  <1> QED
    BY <1>1, <1>2

\* With every commit moving the files no goroutine waits for its next tick
\* with rows pending and a stamp that looks unchanged, whatever fails or is
\* restarted.
THEOREM NeverSleepsOverRows == Spec => []NoSleepOverRows
  <1> DEFINE AInv == TypeOK /\ (MayMissStamp = FALSE => \A r \in Repos : Awake(r))
  <1>1. Init => AInv
    BY InitType DEF Init, Awake, Wakes, Passing, Drained, Fallen
  <1>2. AInv /\ [Next]_vars => AInv'
    <2> SUFFICES ASSUME AInv, [Next]_vars PROVE AInv'
      OBVIOUS
    <2>1. TypeOK /\ TypeOK'
      BY NextType
    <2>2. ASSUME MayMissStamp = FALSE, NEW q \in Repos PROVE Awake(q)'
      <3>1. Awake(q)
        BY <2>2
      <3>2. ASSUME NEW r \in Repos, Tail(r) PROVE Awake(q)'
        BY <2>1, <2>2, <3>1, <3>2, AwakeTail, AwakeFrame, OthersSame, OthersStamp DEF Same
      <3>3. ASSUME NEW r \in Repos, Br(r) PROVE Awake(q)'
        BY <2>1, <2>2, <3>1, <3>3, AwakeBr
      <3>4. ASSUME NEW r \in Repos, Minute(r) PROVE Awake(q)'
        BY <3>1, <3>4, AwakeFrame
           DEF Minute, SameButFile, brVars, tailVars, cursorVars, topicVars
      <3>5. ASSUME Restart \/ \E r \in Repos : Panic(r) PROVE Awake(q)'
        BY <3>5 DEF Restart, Panic, Reload, Awake, Wakes, Passing, Drained, Fallen
      <3>6. CASE UNCHANGED vars
        BY <3>1, <3>6, AwakeFrame
           DEF SameButFile, vars, brVars, stampVars, tailVars, cursorVars, topicVars
      <3> QED
        BY <3>2, <3>3, <3>4, <3>5, <3>6 DEF Next
    <2> QED
      BY <2>1, <2>2
  <1>3. AInv => NoSleepOverRows
    <2> SUFFICES ASSUME AInv, MayMissStamp = FALSE, NEW r \in Repos,
                        pc[r] = "tick", Pending(r) # {}
                 PROVE  changed[r]
      BY BoundsAssumption DEF NoSleepOverRows
    <2>1. cursor[r] # NoCursor
      BY DEF TypeOK
    <2> QED
      BY <2>1 DEF Awake, Wakes
  <1> QED
    BY <1>1, <1>2, <1>3, PTL DEF Spec

-----------------------------------------------------------------------------
(* No gap for a subscriber, when the disk works.                           *)

\* What the topic has heard is ahead of where the feed started, and so is what
\* either cursor is still to reach: a feed that anybody has heard of never
\* starts over, for its cursor is in the file.
Anchored(r) ==
    /\ start[r] # NoCursor => start[r] < nextId[r]
    /\ cursor[r] # NoCursor /\ pc[r] # "first" => file[r] # NoCursor
    /\ heard[r] # {} => file[r] # NoCursor
    /\ cursor[r] # NoCursor =>
          /\ \A e \in heard[r] \cup batch[r] : start[r] < e.id
          /\ \A f \in log[r] : f.id > cursor[r] => start[r] < f.id
          /\ \A f \in log[r] : file[r] # NoCursor /\ f.id > file[r] => start[r] < f.id

\* A step that leaves a repo's state alone, or saves it for another repo.
LEMMA AnchoredFrame ==
    ASSUME NEW q \in Repos, RepoInv(q), gen[q] = 0, Anchored(q), SameButFile(q),
           file'[q] \in {file[q], cursor[q]}
    PROVE  Anchored(q)'
  <1>1. cursor[q] = NoCursor => file[q] = NoCursor
    BY DEF RepoInv, Saved
  <1> QED
    BY <1>1 DEF SameButFile, Anchored

\* A goroutine's own step.
LEMMA AnchoredTail ==
    ASSUME TypeOK, TypeOK', SaveMayFail = FALSE, NEW r \in Repos, RepoInv(r), Tail(r),
           gen[r] = 0, Anchored(r)
    PROVE  Anchored(r)'
  <1> USE DEF Goto, brVars, cursorVars, topicVars
  <1>a. /\ \A e \in log[r] \cup heard[r] \cup batch[r] : e.id \in Nat
        /\ tip[r] \in Nat /\ cursor[r] \in Cursor
        /\ pc[r] \notin {"resolve", "seed"} => cursor[r] # NoCursor
    BY RowTypes, RowFields DEF TypeOK
  <1>b. (cursor[r] = NoCursor => file[r] = NoCursor) /\ (cursor[r] # NoCursor => start[r] # NoCursor)
    BY DEF RepoInv, Saved
  <1>1. CASE \/ Resolve(r) \/ ReadTip(r) \/ Tick(r) \/ QueryNone(r) \/ QueryFails(r)
             \/ Regress(r)
    <2>1. /\ pc[r] # "first" /\ batch'[r] \subseteq batch[r]
          /\ UNCHANGED <<log, nextId, cursor, file, heard, start>>
      BY <1>1 DEF Resolve, ReadTip, Tick, QueryNone, QueryFails, Regress, DrainOk, DrainFailed,
         TypeOK
    <2> QED
      BY <2>1 DEF Anchored
  <1>2. CASE Seed(r)
    <2>1. /\ pc[r] = "seed" /\ pc'[r] = "first" /\ batch[r] = {}
          /\ cursor'[r] = tip[r] /\ start'[r] = tip[r]
          /\ UNCHANGED <<log, nextId, batch, file, heard>>
      BY <1>2 DEF Seed, TypeOK
    <2>2. cursor[r] = NoCursor /\ tip[r] < nextId[r]
      BY <2>1 DEF RepoInv, Staged, Known
    <2>3. file[r] = NoCursor /\ heard[r] = {}
      BY <1>b, <2>2 DEF Anchored
    <2> QED
      BY <1>a, <2>1, <2>2, <2>3 DEF Anchored
  <1>3. CASE QueryRows(r)
    <2>1. /\ pc[r] = "query" /\ batch'[r] \subseteq Pending(r)
          /\ UNCHANGED <<log, nextId, cursor, file, heard, start>>
      BY <1>3 DEF QueryRows, TypeOK
    <2> QED
      BY <1>a, <2>1 DEF Anchored, Pending
  <1>4. CASE Firehose(r) \/ Dispatch(r) \/ PublishFails(r)
    <2>1. /\ pc[r] \in {"publish", "dispatch"} /\ pc'[r] # "first"
          /\ batch'[r] \subseteq batch[r] /\ heard'[r] \subseteq heard[r] \cup batch[r]
          /\ UNCHANGED <<log, nextId, cursor, file, start>>
      <3>1. CASE Firehose(r)
        BY <3>1 DEF Firehose, TypeOK
      <3>2. CASE Dispatch(r)
        BY <3>2 DEF Dispatch, TypeOK
      <3>3. CASE PublishFails(r)
        BY <3>3 DEF PublishFails, DrainFailed, TypeOK
      <3> QED
        BY <1>4, <3>1, <3>2, <3>3
    <2> QED
      BY <1>a, <2>1 DEF Anchored
  <1>5. CASE Advance(r)
    <2> PICK e \in batch[r] : /\ cursor' = [cursor EXCEPT ![r] = e.id]
                              /\ batch' = [batch EXCEPT ![r] = @ \ {e}]
      BY <1>5 DEF Advance
    <2>1. /\ pc[r] = "advance" /\ cursor'[r] = e.id /\ batch'[r] = batch[r] \ {e}
          /\ UNCHANGED <<log, nextId, file, heard, start>>
      BY <1>5 DEF Advance, TypeOK
    <2>2. cursor[r] \in Nat /\ e.id > cursor[r]
      BY <1>a, <2>1 DEF Cursor, RepoInv, Batched
    <2>3. \A f \in log[r] : f.id > e.id => f.id > cursor[r]
      BY <1>a, <2>2
    <2> QED
      BY <1>a, <2>1, <2>3 DEF Anchored
  <1>6. CASE Reset(r)
    <2>1. /\ pc[r] = "reset" /\ cursor'[r] = tip[r]
          /\ UNCHANGED <<log, nextId, batch, file, heard, start>>
      BY <1>6 DEF Reset, TypeOK
    <2>2. \A f \in log[r] : f.id > tip[r] => f.id > cursor[r]
      BY <2>1 DEF RepoInv, Staged
    <2> QED
      BY <1>a, <2>1, <2>2 DEF Anchored
  <1>7. CASE SaveOk(r)
    <2>1. /\ pc[r] \in {"first", "save", "resave"} /\ file'[r] = cursor[r]
          /\ UNCHANGED <<log, nextId, cursor, batch, heard, start>>
      BY <1>7 DEF SaveOk
    <2> QED
      BY <1>a, <2>1 DEF Anchored
  <1>8. ~SaveFails(r)
    BY DEF SaveFails
  <1> QED
    BY <1>1, <1>2, <1>3, <1>4, <1>5, <1>6, <1>7, <1>8 DEF Tail

\* br's writers: a committed row is ahead of where the feed started.
LEMMA AnchoredBr ==
    ASSUME TypeOK, NEW r \in Repos, Br(r), NEW q \in Repos, RepoInv(q), gen[q] = 0, Anchored(q),
           gen'[q] = 0
    PROVE  Anchored(q)'
  <1> USE DEF tailVars, cursorVars, topicVars
  <1>1. CASE q # r
    BY <1>1, AnchoredFrame DEF Br, BrCommit, BrDelete, BrRebuild, SameButFile, TypeOK
  <1>2. CASE q = r /\ BrCommit(r)
    <2> DEFINE n == [id |-> nextId[r], gen |-> gen[r]]
    <2>1. /\ log'[r] = log[r] \cup {n} /\ nextId'[r] = nextId[r] + 1 /\ nextId[r] \in Nat
          /\ n.id = nextId[r] /\ start[r] \in Cursor
          /\ UNCHANGED <<pc, batch, cursor, file, heard, start>>
      BY <1>2 DEF BrCommit, TypeOK
    <2> HIDE DEF n
    <2>2. start[r] # NoCursor => start[r] < n.id /\ start[r] < nextId'[r]
      BY <1>2, <2>1 DEF Anchored, Cursor
    <2>3. cursor[r] # NoCursor => start[r] # NoCursor
      BY <1>2 DEF RepoInv, Saved
    <2> QED
      BY <1>2, <2>1, <2>2, <2>3 DEF Anchored
  <1>3. CASE q = r /\ BrDelete(r)
    <2>1. /\ log'[r] \subseteq log[r]
          /\ UNCHANGED <<nextId, pc, batch, cursor, file, heard, start>>
      BY <1>3 DEF BrDelete, TypeOK
    <2> QED
      BY <1>3, <2>1 DEF Anchored
  <1>4. ~(q = r /\ BrRebuild(r))
    BY DEF BrRebuild, TypeOK
  <1> QED
    BY <1>1, <1>2, <1>3, <1>4 DEF Br

\* A restart that finds the file as it was left goes back to what it says.
LEMMA AnchoredRestart ==
    ASSUME TypeOK, MayCorrupt = FALSE, Restart \/ \E r \in Repos : Panic(r),
           NEW q \in Repos, RepoInv(q), gen[q] = 0, Anchored(q)
    PROVE  Anchored(q)'
  <1>1. /\ batch'[q] = {} /\ cursor'[q] = file[q] /\ file'[q] = file[q]
        /\ UNCHANGED <<log, nextId, heard, start>>
    BY DEF Restart, Panic, Reload, brVars, topicVars
  <1>2. file[q] # NoCursor => cursor[q] # NoCursor
    BY DEF RepoInv, Saved
  <1> QED
    BY <1>1, <1>2 DEF Anchored

\* Only br starts a new generation of a database, and never goes back to one.
LEMMA GenKept ==
    ASSUME TypeOK, [Next]_vars, NEW q \in Repos
    PROVE  gen'[q] = 0 => gen[q] = 0
  <1> USE DEF brVars
  <1>1. ASSUME NEW r \in Repos, Tail(r) PROVE gen' = gen
    <2>1. CASE Resolve(r) \/ ReadTip(r) \/ Seed(r) \/ Tick(r)
      BY <2>1 DEF Resolve, ReadTip, Seed, Tick
    <2>2. CASE QueryRows(r) \/ QueryNone(r) \/ QueryFails(r)
      BY <2>2 DEF QueryRows, QueryNone, QueryFails
    <2>3. CASE Firehose(r) \/ Dispatch(r) \/ PublishFails(r) \/ Advance(r)
      BY <2>3 DEF Firehose, Dispatch, PublishFails, Advance
    <2>4. CASE Regress(r) \/ Reset(r) \/ SaveOk(r) \/ SaveFails(r)
      BY <2>4 DEF Regress, Reset, SaveOk, SaveFails
    <2> QED
      BY <1>1, <2>1, <2>2, <2>3, <2>4 DEF Tail
  <1>2. ASSUME NEW r \in Repos, BrCommit(r) \/ BrDelete(r) \/ Minute(r) PROVE gen' = gen
    BY <1>2 DEF BrCommit, BrDelete, Minute
  <1>3. ASSUME NEW r \in Repos, BrRebuild(r) PROVE gen'[q] = gen[q] \/ gen'[q] = gen[q] + 1
    BY <1>3 DEF BrRebuild, TypeOK
  <1>4. ASSUME Restart \/ \E r \in Repos : Panic(r) PROVE gen' = gen
    BY <1>4 DEF Restart, Panic, Reload
  <1>5. gen[q] \in Nat
    BY DEF TypeOK
  <1> QED
    BY <1>1, <1>2, <1>3, <1>4, <1>5 DEF Next, Br, vars

\* As long as the disk works, what a subscriber has heard is followed by every
\* later row of its repo that a cursor passes: an outage of the broker, a
\* restart or a panic delays the feed and leaves no gap in it.
THEOREM NoGap ==
    ASSUME SaveMayFail = FALSE, MayCorrupt = FALSE
    PROVE  Spec => []NoGapForSubscriber
  <1> DEFINE GInv == IInv /\ \A r \in Repos : gen[r] = 0 => Anchored(r)
  <1>1. Init => GInv
    BY InitInv DEF Init, Anchored
  <1>2. GInv /\ [Next]_vars => GInv'
    <2> SUFFICES ASSUME GInv, [Next]_vars PROVE GInv'
      OBVIOUS
    <2>1. IInv' /\ TypeOK /\ TypeOK'
      BY NextInv DEF IInv
    <2>2. ASSUME NEW q \in Repos, gen'[q] = 0 PROVE Anchored(q)'
      <3>1. RepoInv(q)
        BY DEF IInv
      <3>2. gen[q] = 0
        BY <2>1, <2>2, GenKept DEF TypeOK
      <3>3. ASSUME NEW r \in Repos, Tail(r) PROVE Anchored(q)'
        BY <2>1, <3>1, <3>2, <3>3, AnchoredTail, AnchoredFrame, OthersSame DEF Same
      <3>4. ASSUME NEW r \in Repos, Br(r) PROVE Anchored(q)'
        BY <2>1, <2>2, <3>1, <3>2, <3>4, AnchoredBr
      <3>5. ASSUME NEW r \in Repos, Minute(r) PROVE Anchored(q)'
        BY <3>1, <3>2, <3>5, AnchoredFrame
           DEF Minute, SameButFile, brVars, tailVars, cursorVars, topicVars
      <3>6. ASSUME Restart \/ \E r \in Repos : Panic(r) PROVE Anchored(q)'
        BY <2>1, <3>1, <3>2, <3>6, AnchoredRestart
      <3>7. CASE UNCHANGED vars
        BY <3>1, <3>2, <3>7, AnchoredFrame
           DEF SameButFile, vars, brVars, tailVars, cursorVars, topicVars
      <3> QED
        BY <3>3, <3>4, <3>5, <3>6, <3>7 DEF Next
    <2> QED
      BY <2>1, <2>2
  <1>3. GInv => NoGapForSubscriber
    <2> SUFFICES ASSUME GInv, NEW r \in Repos, gen[r] = 0, cursor[r] # NoCursor,
                        NEW e \in heard[r], NEW f \in log[r], e.id < f.id, f.id <= cursor[r]
                 PROVE  f \in heard[r]
      BY DEF NoGapForSubscriber, Between
    <2>1. /\ start[r] < e.id /\ e.id \in Nat /\ f.id \in Nat
          /\ start[r] \in Nat
      BY RowTypes, RowFields DEF IInv, RepoInv, Saved, Anchored, TypeOK, Cursor
    <2>2. start[r] < f.id
      BY <2>1
    <2> QED
      BY <2>2 DEF IInv, RepoInv, Fed
  <1> QED
    BY <1>1, <1>2, <1>3, PTL DEF Spec

-----------------------------------------------------------------------------
(* EventTail implements Feed, as long as no database is rebuilt.           *)

NoRebuild == \A r \in Repos : gen[r] = 0

\* Where databases are never rebuilt every row is of generation zero.
LEMMA NoRebuildInductive ==
    ASSUME MaxRebuild = 0
    PROVE  /\ Init => NoRebuild
           /\ TypeOK /\ NoRebuild /\ [Next]_vars => NoRebuild'
  <1>1. Init => NoRebuild
    BY DEF Init, NoRebuild
  <1> SUFFICES ASSUME TypeOK, NoRebuild, [Next]_vars PROVE NoRebuild'
    BY <1>1
  <1> USE DEF NoRebuild
  <1>2. CASE UNCHANGED vars
    BY <1>2 DEF vars, brVars
  <1>3. ASSUME NEW r \in Repos, Tail(r) PROVE gen' = gen
    BY <1>3 DEF Tail, Resolve, ReadTip, Seed, Tick, QueryRows, QueryNone, QueryFails, Firehose,
                Dispatch, PublishFails, Advance, Regress, Reset, SaveOk, SaveFails, brVars
  <1>4. ASSUME NEW r \in Repos, Br(r) PROVE gen' = gen
    BY <1>4 DEF Br, BrCommit, BrDelete, BrRebuild
  <1>5. ASSUME NEW r \in Repos, Minute(r) PROVE gen' = gen
    BY <1>5 DEF Minute, brVars
  <1>6. Restart \/ (\E r \in Repos : Panic(r)) => gen' = gen
    BY DEF Restart, Panic, Reload, brVars
  <1> QED
    BY <1>2, <1>3, <1>4, <1>5, <1>6 DEF Next

\* The head of the batch may be published in the abstract feed.
LEMMA HeadIsPublishable ==
    ASSUME IInv, NoRebuild, NEW r \in Repos, pc[r] = "publish",
           NEW e \in batch[r], IsHead(e, r), heard' = [heard EXCEPT ![r] = @ \cup {e}],
           UNCHANGED <<log, nextId, file, start>>
    PROVE  F!Publish(r)
  <1>1. TypeOK /\ RepoInv(r) /\ gen[r] = 0
    BY DEF IInv, NoRebuild
  <1>2. cursor[r] # NoCursor /\ cursor[r] \in Nat
    BY <1>1 DEF TypeOK, Cursor
  <1>3. start[r] # NoCursor
    BY <1>1, <1>2 DEF RepoInv, Saved
  <1>4. e \in [id : 0..(nextId[r] - 1), gen : {0}]
    <2>1. e \in Row /\ e.gen <= 0 /\ e.id < nextId[r] /\ nextId[r] \in Nat
      BY <1>1, RowTypes DEF RepoInv, RowsOK, Known, TypeOK
    <2>2. e.gen = 0 /\ e.id \in 0..(nextId[r] - 1) /\ e = [id |-> e.id, gen |-> e.gen]
      BY <2>1, RowFields
    <2> QED
      BY <2>2
  <1>5. file[r] # NoCursor => e.id > file[r]
    BY <1>1 DEF RepoInv, Batched
  <1>6. F!HeardUpTo(r, e.id, {e})
    <2> SUFFICES ASSUME NEW f \in log[r] \ {e}, start[r] < f.id, f.id <= e.id
                 PROVE  f \in heard[r]
      BY DEF F!HeardUpTo
    <2>1. f.id \in Nat
      BY <1>1, RowTypes, RowFields
    <2>2. CASE f.id <= cursor[r]
      BY <1>1, <1>2, <2>2 DEF RepoInv, Fed
    <2>3. CASE cursor[r] < f.id
      BY <1>1, <2>3, HeadIsNext
    <2> QED
      BY <1>2, <2>1, <2>2, <2>3
  <1> QED
    BY <1>3, <1>4, <1>5, <1>6 DEF F!Publish

\* saveState() is a save of the feed: every cursor it writes is over heard
\* rows.
LEMMA SaveIsSave ==
    ASSUME IInv, NoRebuild, NEW r \in Repos, SaveOk(r)
    PROVE  F!Save
  <1>1. file' = cursor /\ UNCHANGED <<log, nextId, heard, start>>
    BY DEF SaveOk, brVars, topicVars
  <1>2. cursor \in [Repos -> Nat \cup {NoCursor}]
    BY DEF IInv, TypeOK, Cursor
  <1>3. ASSUME NEW q \in Repos, cursor[q] # file[q]
        PROVE  /\ cursor[q] # NoCursor /\ start[q] # NoCursor
               /\ cursor[q] < nextId[q] /\ F!HeardUpTo(q, cursor[q], {})
    <2>1. RepoInv(q) /\ gen[q] = 0
      BY <1>3 DEF IInv, NoRebuild
    <2>2. cursor[q] # NoCursor /\ start[q] # NoCursor
      BY <1>3, <2>1 DEF RepoInv, Saved
    <2> QED
      BY <2>1, <2>2 DEF RepoInv, Known, Fed, F!HeardUpTo
  <1> QED
    BY <1>1, <1>2, <1>3 DEF F!Save

\* A first sight begins the feed of its repo at a tip beyond all that was
\* heard.
LEMMA SeedIsBegin ==
    ASSUME IInv, NoRebuild, NEW r \in Repos, Seed(r)
    PROVE  F!Begin(r)
  <1>1. TypeOK /\ RepoInv(r) /\ gen[r] = 0 /\ pc[r] = "seed"
    BY DEF IInv, NoRebuild, Seed
  <1>2. file[r] = NoCursor
    BY <1>1 DEF RepoInv, Staged, Saved
  <1>3. tip[r] \in 0..(nextId[r] - 1)
    <2>1. tip[r] \in Nat /\ nextId[r] \in Nat /\ tip[r] < nextId[r]
      BY <1>1 DEF RepoInv, Known, TypeOK
    <2> QED
      BY <2>1
  <1>4. \A f \in log[r], e \in heard[r] : f.id > tip[r] => f.id > e.id
    BY <1>1 DEF RepoInv, Staged
  <1> QED
    BY <1>2, <1>3, <1>4 DEF F!Begin, Seed, brVars, topicVars

\* Every step is a step of the abstract feed or a stutter of it.
LEMMA StepSimulation ==
    ASSUME IInv, NoRebuild, NoRebuild', [Next]_vars
    PROVE  [F!Next]_F!vars
  <1> USE DEF F!vars, brVars, cursorVars, topicVars
  <1>1. CASE UNCHANGED vars
    BY <1>1 DEF vars
  <1>2. ASSUME NEW r \in Repos, Tail(r) PROVE [F!Next]_F!vars
    <2>1. CASE \/ Resolve(r) \/ ReadTip(r) \/ Tick(r) \/ QueryRows(r) \/ QueryNone(r)
               \/ QueryFails(r) \/ Dispatch(r) \/ Advance(r) \/ Regress(r) \/ Reset(r)
               \/ SaveFails(r)
      BY <2>1 DEF Resolve, ReadTip, Tick, QueryRows, QueryNone, QueryFails, Dispatch, Advance,
                  Regress, Reset, SaveFails
    <2>2. CASE Seed(r)
      BY <2>2, SeedIsBegin DEF F!Next
    <2>3. CASE Firehose(r)
      <3> PICK e \in batch[r] : IsHead(e, r) /\ heard' = [heard EXCEPT ![r] = @ \cup {e}]
        BY <2>3 DEF Firehose
      <3>1. F!Publish(r)
        BY <2>3, HeadIsPublishable DEF Firehose
      <3> QED
        BY <3>1 DEF F!Next
    <2>4. CASE PublishFails(r)
      <3>1. UNCHANGED <<log, nextId, file, start>>
        BY <2>4 DEF PublishFails
      <3>2. CASE heard' = heard
        BY <3>1, <3>2
      <3>3. CASE heard' # heard
        <4> PICK e \in batch[r] : /\ IsHead(e, r) /\ pc[r] = "publish"
                                  /\ heard' = [heard EXCEPT ![r] = @ \cup {e}]
          BY <2>4, <3>3 DEF PublishFails
        <4>1. F!Publish(r)
          BY <3>1, HeadIsPublishable
        <4> QED
          BY <4>1 DEF F!Next
      <3> QED
        BY <3>2, <3>3
    <2>5. CASE SaveOk(r)
      BY <2>5, SaveIsSave DEF F!Next
    <2> QED
      BY <1>2, <2>1, <2>2, <2>3, <2>4, <2>5 DEF Tail
  <1>3. ASSUME NEW r \in Repos, Br(r) PROVE [F!Next]_F!vars
    <2>1. gen[r] = 0 /\ gen'[r] = 0
      BY DEF NoRebuild
    <2>2. CASE BrCommit(r)
      <3>1. F!Commit(r)
        BY <2>1, <2>2 DEF BrCommit, F!Commit
      <3> QED
        BY <3>1 DEF F!Next
    <2>3. CASE BrDelete(r)
      <3>1. F!Delete(r)
        BY <2>3 DEF BrDelete, F!Delete
      <3> QED
        BY <3>1 DEF F!Next
    <2>4. ~BrRebuild(r)
      BY <2>1 DEF BrRebuild, IInv, TypeOK
    <2> QED
      BY <1>3, <2>2, <2>3, <2>4 DEF Br
  <1>4. ASSUME NEW r \in Repos, Minute(r) PROVE [F!Next]_F!vars
    BY <1>4 DEF Minute
  <1>5. CASE Restart
    BY <1>5 DEF Restart, Reload, F!Next, F!Forget
  <1>6. ASSUME NEW r \in Repos, Panic(r) PROVE [F!Next]_F!vars
    BY <1>6 DEF Panic, Reload
  <1> QED
    BY <1>1, <1>2, <1>3, <1>4, <1>5, <1>6 DEF Next

\* The tailer implements the at-least-once, in-order feed.
THEOREM Implements == ASSUME MaxRebuild = 0 PROVE Spec => ImplementsFeed
  <1>1. Init => F!Init
    BY DEF Init, F!Init
  <1>2. Init => NoRebuild
    BY NoRebuildInductive
  <1>3. IInv /\ NoRebuild /\ [Next]_vars => NoRebuild'
    BY NoRebuildInductive DEF IInv
  <1>4. IInv /\ NoRebuild /\ NoRebuild' /\ [Next]_vars => [F!Next]_F!vars
    BY StepSimulation
  <1> QED
    BY <1>1, <1>2, <1>3, <1>4, Inductive, PTL DEF Spec, F!Spec, ImplementsFeed

-----------------------------------------------------------------------------
(* What the abstract feed promises, and any implementation of it.          *)

\* Every position and every message is behind the next id, so that what br commits
\* is ahead of all that was told or saved.
FeedRow == [id : Nat, gen : {0}]
Behind ==
    /\ log \in [Repos -> SUBSET FeedRow] /\ heard \in [Repos -> SUBSET FeedRow]
    /\ nextId \in [Repos -> Nat]
    /\ start \in [Repos -> Nat \cup {NoCursor}] /\ file \in [Repos -> Nat \cup {NoCursor}]
    /\ \A r \in Repos :
          /\ \A e \in log[r] \cup heard[r] : e.id < nextId[r]
          /\ file[r] # NoCursor => file[r] < nextId[r]

LEMMA BehindStep == Behind /\ [F!Next]_F!vars => Behind'
  <1> SUFFICES ASSUME Behind, [F!Next]_F!vars PROVE Behind'
    OBVIOUS
  <1> USE NoCursorAssumption DEF Behind, FeedRow
  <1>1. ASSUME NEW r \in Repos, F!Commit(r) PROVE Behind'
    BY <1>1 DEF F!Commit
  <1>2. ASSUME NEW r \in Repos, F!Delete(r) PROVE Behind'
    BY <1>2 DEF F!Delete
  <1>3. ASSUME NEW r \in Repos, F!Begin(r) PROVE Behind'
    BY <1>3 DEF F!Begin
  <1>4. ASSUME NEW r \in Repos, F!Publish(r) PROVE Behind'
    BY <1>4 DEF F!Publish
  <1>5. F!Save \/ F!Forget \/ UNCHANGED F!vars => Behind'
    BY DEF F!Save, F!Forget, F!vars
  <1> QED
    BY <1>1, <1>2, <1>3, <1>4, <1>5 DEF F!Next

LEMMA PromisedStep == Behind /\ F!Promised /\ [F!Next]_F!vars => F!Promised'
  <1> SUFFICES ASSUME Behind, F!Promised, [F!Next]_F!vars PROVE F!Promised'
    OBVIOUS
  <1> USE NoCursorAssumption DEF Behind, FeedRow, F!Promised, F!HeardUpTo
  <1>1. ASSUME NEW r \in Repos, F!Commit(r) PROVE F!Promised'
    BY <1>1 DEF F!Commit
  <1>2. ASSUME NEW r \in Repos, F!Delete(r) PROVE F!Promised'
    BY <1>2 DEF F!Delete
  <1>3. ASSUME NEW r \in Repos, F!Begin(r) PROVE F!Promised'
    BY <1>3 DEF F!Begin
  <1>4. ASSUME NEW r \in Repos, F!Publish(r) PROVE F!Promised'
    BY <1>4 DEF F!Publish
  <1>5. F!Save \/ F!Forget \/ UNCHANGED F!vars => F!Promised'
    BY DEF F!Save, F!Forget, F!vars
  <1> QED
    BY <1>1, <1>2, <1>3, <1>4, <1>5 DEF F!Next

\* "At-least-once, in order per repo" follows from the abstract feed alone: whatever
\* implements Feed, as the tailer does, keeps both.
THEOREM FeedKeepsPromises == F!Spec => []F!Promised
  <1>1. F!Init => Behind /\ F!Promised
    BY NoCursorAssumption DEF F!Init, Behind, F!Promised
  <1> QED
    BY <1>1, BehindStep, PromisedStep, PTL DEF F!Spec

-----------------------------------------------------------------------------
(* EventTail implements CursorStore, rebuilt databases or not: its view of *)
(* the state file is the one that StateFile's system calls give it.        *)

Store == INSTANCE CursorStore
    WITH Cursors <- Cursor, Fresh <- NoCursor, MayLose <- MayCorrupt,
         cursors <- cursor, saved <- file

LEMMA TailStore ==
    ASSUME TypeOK, TypeOK', NEW r \in Repos, Tail(r)
    PROVE  [Store!Next]_Store!vars
  <1> USE DEF Store!Next, Store!vars, cursorVars
  <1>1. CASE \/ Resolve(r) \/ ReadTip(r) \/ Tick(r) \/ QueryRows(r) \/ QueryNone(r)
             \/ QueryFails(r) \/ Firehose(r) \/ Dispatch(r) \/ PublishFails(r)
             \/ Regress(r) \/ SaveFails(r)
    BY <1>1 DEF Resolve, ReadTip, Tick, QueryRows, QueryNone, QueryFails, Firehose, Dispatch,
                PublishFails, Regress, SaveFails
  <1>2. CASE Seed(r) \/ Reset(r)
    BY <1>2 DEF Seed, Reset, TypeOK, Store!SetCursor
  <1>3. CASE Advance(r)
    <2> PICK e \in batch[r] : cursor' = [cursor EXCEPT ![r] = e.id]
      BY <1>3 DEF Advance
    <2>1. file' = file
      BY <1>3 DEF Advance
    <2> QED
      BY <2>1 DEF TypeOK, Store!SetCursor
  <1>4. CASE SaveOk(r)
    BY <1>4 DEF SaveOk, Store!Save
  <1> QED
    BY <1>1, <1>2, <1>3, <1>4 DEF Tail

\* Whatever the goroutines, br and the operator do, cursors are set one at a time,
\* saved together, and found after a restart as they were saved, or not at all.
THEOREM TailUsesStore == Spec => Store!Spec
  <1>1. Init => Store!Init
    BY DEF Init, Store!Init, Store!Afresh
  <1>2. TypeOK /\ TypeOK' /\ [Next]_vars => [Store!Next]_Store!vars
    <2> SUFFICES ASSUME TypeOK, TypeOK', [Next]_vars PROVE [Store!Next]_Store!vars
      OBVIOUS
    <2>1. ASSUME NEW r \in Repos, Br(r) \/ Minute(r) PROVE UNCHANGED <<cursor, file>>
      BY <2>1 DEF Br, BrCommit, BrDelete, BrRebuild, Minute, cursorVars
    <2>2. Restart => Store!Restart \/ Store!Lose
      BY DEF Restart, Store!Restart, Store!Lose, Store!Afresh
    <2>3. ASSUME NEW r \in Repos, Panic(r) PROVE Store!Restart
      BY <2>3 DEF Panic, Store!Restart
    <2>4. UNCHANGED vars => UNCHANGED <<cursor, file>>
      BY DEF vars, cursorVars
    <2> QED
      BY <2>1, <2>2, <2>3, <2>4, TailStore DEF Next, Store!Next, Store!vars
  <1> QED
    BY <1>1, <1>2, TypeCorrect, PTL DEF Spec, Store!Spec

-----------------------------------------------------------------------------
(* What takes the daemon down, and nothing else.                           *)

\* Every row that a goroutine can meet is one of those that Texts speaks of.
InTexts ==
    \A r \in Repos : /\ nextId[r] \in 1..(MaxId + 1)
                     /\ \A e \in log[r] \cup batch[r] : e.id \in 1..MaxId

LEMMA InTextsStep == TypeOK /\ InTexts /\ [Next]_vars => InTexts'
  <1> SUFFICES ASSUME TypeOK, InTexts, [Next]_vars PROVE InTexts'
    OBVIOUS
  <1> USE DEF TypeOK, InTexts, brVars, tailVars
  <1>1. ASSUME NEW r \in Repos, Tail(r) PROVE InTexts'
    <2>1. UNCHANGED <<log, nextId>>
      BY <1>1 DEF Tail, Resolve, ReadTip, Seed, Tick, QueryRows, QueryNone, QueryFails, Firehose,
                  Dispatch, PublishFails, Advance, Regress, Reset, SaveOk, SaveFails
    <2>2. \A q \in Repos \ {r} : batch'[q] = batch[q]
      BY <1>1 DEF Tail, Resolve, ReadTip, Seed, Tick, QueryRows, QueryNone, QueryFails, Firehose,
                  Dispatch, PublishFails, Advance, Regress, Reset, SaveOk, SaveFails, DrainFailed
    <2>3. batch'[r] \subseteq batch[r] \cup log[r]
      <3>1. CASE QueryRows(r)
        BY <3>1 DEF QueryRows, IsBatch, Pending
      <3>2. CASE QueryFails(r) \/ PublishFails(r)
        BY <3>2 DEF QueryFails, PublishFails, DrainFailed
      <3>3. CASE Advance(r)
        BY <3>3 DEF Advance
      <3>4. CASE \/ Resolve(r) \/ ReadTip(r) \/ Seed(r) \/ Tick(r) \/ QueryNone(r) \/ Firehose(r)
                 \/ Dispatch(r) \/ Regress(r) \/ Reset(r) \/ SaveOk(r) \/ SaveFails(r)
        BY <3>4 DEF Resolve, ReadTip, Seed, Tick, QueryNone, Firehose, Dispatch, Regress, Reset,
                    SaveOk, SaveFails
      <3> QED
        BY <1>1, <3>1, <3>2, <3>3, <3>4 DEF Tail
    <2> QED
      BY <2>1, <2>2, <2>3
  <1>2. ASSUME NEW r \in Repos, BrCommit(r) PROVE InTexts'
    BY <1>2, BoundsAssumption DEF BrCommit
  <1>3. ASSUME NEW r \in Repos, BrDelete(r) \/ Minute(r) PROVE InTexts'
    BY <1>3 DEF BrDelete, Minute
  <1>4. ASSUME NEW r \in Repos, BrRebuild(r) PROVE InTexts'
    BY <1>4, BoundsAssumption DEF BrRebuild
  <1>5. ASSUME Restart \/ \E r \in Repos : Panic(r) PROVE InTexts'
    BY <1>5 DEF Restart, Panic, Reload
  <1>6. UNCHANGED vars => InTexts'
    BY DEF vars
  <1> QED
    BY <1>1, <1>2, <1>3, <1>4, <1>5, <1>6 DEF Next, Br

\* Where no text is of more than 700 bytes in at most 512 runes (ASCII never is),
\* a goroutine that tails starts over only when the daemon is restarted from
\* outside: those texts are all it takes to break the comment's promise, as the
\* run of NeverTakenDown shows, and nothing else does.
THEOREM TakenDownByFewRunesOnly ==
    ASSUME \A i \in 1..MaxId : \A t \in Texts[i] : \A s \in t.fields :
              ~(s.bytes > 700 /\ s.runes <= 512)
    PROVE  Spec => NeverTakenDown
  <1>1. Init => InTexts
    BY BoundsAssumption DEF Init, InTexts
  <1>2. TypeOK /\ InTexts /\ [Next]_vars =>
          [\A r \in Repos : pc[r] \notin {"resolve", "first"} /\ pc'[r] = "resolve" =>
             crashes' # crashes]_vars
    <2> SUFFICES ASSUME TypeOK, InTexts, Next, NEW q \in Repos,
                        pc[q] \notin {"resolve", "first"}, pc'[q] = "resolve"
                 PROVE  crashes' # crashes
      OBVIOUS
    <2>1. ASSUME NEW r \in Repos, Tail(r) PROVE FALSE
      <3>1. \/ pc' = pc
            \/ \E l \in Labels \ {"resolve"} : pc' = [pc EXCEPT ![r] = l]
            \/ pc[r] = "first" /\ pc' = [pc EXCEPT ![r] = "resolve"]
        BY <2>1 DEF Tail, Resolve, ReadTip, Seed, Tick, QueryRows, QueryNone, QueryFails, Firehose,
                    Dispatch, PublishFails, Advance, Regress, Reset, SaveOk, SaveFails,
                    DrainOk, DrainFailed, Goto, Labels
      <3> QED
        BY <3>1 DEF TypeOK
    <2>2. ASSUME NEW r \in Repos, Br(r) \/ Minute(r) PROVE FALSE
      BY <2>2 DEF Br, BrCommit, BrDelete, BrRebuild, Minute, tailVars
    <2>3. ASSUME NEW r \in Repos, Panic(r) PROVE FALSE
      <3> PICK e \in batch[r] : \E t \in Texts[e.id] : Panics(t)
        BY <2>3 DEF Panic, Deadly
      <3> PICK t \in Texts[e.id] : Panics(t)
        OBVIOUS
      <3>1. e.id \in 1..MaxId /\ t.fields \subseteq Size
        BY TextsAssumption DEF InTexts
      <3> PICK s \in t.fields : TruncatePanics(s)
        BY DEF Panics
      <3> QED
        BY <3>1, PanicIffFewRunes
    <2>4. Restart => crashes' # crashes
      BY DEF Restart, TypeOK
    <2> QED
      BY <2>1, <2>2, <2>3, <2>4 DEF Next
  <1> QED
    BY <1>1, <1>2, TypeCorrect, InTextsStep, PTL DEF Spec, NeverTakenDown

-----------------------------------------------------------------------------
(* What two rows of one id come from.                                      *)

HeardOnce == \A r \in Repos : \A e \in heard[r] : e.gen = 0

LEMMA HeardOnceStep ==
    ASSUME IInv, NoRebuild, HeardOnce, [Next]_vars PROVE HeardOnce'
  <1> USE DEF HeardOnce, brVars, topicVars
  <1>1. \A r \in Repos : \A e \in batch[r] : e.gen = 0
    <2> SUFFICES ASSUME NEW r \in Repos, NEW e \in batch[r] PROVE e.gen = 0
      OBVIOUS
    <2>1. e \in Row /\ e.gen <= 0
      BY RowTypes DEF IInv, RepoInv, RowsOK, NoRebuild
    <2> QED
      BY <2>1, RowFields
  <1>2. ASSUME NEW r \in Repos, Tail(r) PROVE HeardOnce'
    <2>1. CASE \/ Resolve(r) \/ ReadTip(r) \/ Seed(r) \/ Tick(r) \/ QueryRows(r) \/ QueryNone(r)
               \/ QueryFails(r) \/ Dispatch(r) \/ Advance(r) \/ Regress(r) \/ Reset(r)
               \/ SaveOk(r) \/ SaveFails(r)
      BY <2>1 DEF Resolve, ReadTip, Seed, Tick, QueryRows, QueryNone, QueryFails, Dispatch,
                  Advance, Regress, Reset, SaveOk, SaveFails
    <2>2. CASE Firehose(r) \/ PublishFails(r)
      BY <1>1, <2>2 DEF Firehose, PublishFails, IInv, TypeOK
    <2> QED
      BY <1>2, <2>1, <2>2 DEF Tail
  <1>3. ASSUME NEW r \in Repos, Br(r) \/ Minute(r) PROVE HeardOnce'
    BY <1>3 DEF Br, BrCommit, BrDelete, BrRebuild, Minute
  <1>4. ASSUME Restart \/ \E r \in Repos : Panic(r) PROVE HeardOnce'
    BY <1>4 DEF Restart, Panic, Reload
  <1>5. UNCHANGED vars => HeardOnce'
    BY DEF vars
  <1> QED
    BY <1>2, <1>3, <1>4, <1>5 DEF Next

\* "[U]nique per repo ... and the dedup key": a subscriber may take event_id for
\* one as long as no database is rebuilt, however often rows are published again.
THEOREM IdsUniqueWithoutRebuild == ASSUME MaxRebuild = 0 PROVE Spec => []DedupKeyUnique
  <1> DEFINE UInv == IInv /\ NoRebuild /\ HeardOnce
  <1>1. Init => UInv
    BY InitInv, NoRebuildInductive DEF Init, HeardOnce
  <1>2. UInv /\ [Next]_vars => UInv'
    BY NextInv, NoRebuildInductive, HeardOnceStep DEF IInv
  <1>3. UInv => DedupKeyUnique
    <2> SUFFICES ASSUME UInv, NEW r \in Repos, NEW e \in heard[r], NEW f \in heard[r], e.id = f.id
                 PROVE  e = f
      BY DEF DedupKeyUnique
    <2>1. e \in Row /\ f \in Row /\ e.gen = f.gen
      BY DEF IInv, TypeOK, HeardOnce
    <2> QED
      BY <2>1 DEF Row
  <1> QED
    BY <1>1, <1>2, <1>3, PTL DEF Spec
=============================================================================
