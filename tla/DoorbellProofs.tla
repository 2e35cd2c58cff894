-------------------------- MODULE DoorbellProofs --------------------------
(***************************************************************************)
(* No change is lost on its way from the export to a client, for any       *)
(* number of repos and clients, any query and any size of the registry and *)
(* of the channels: the doorbell rings, and rings for writes only.         *)
(***************************************************************************)
EXTENDS Doorbell, FiniteSetTheorems, TLAPS

\* What a watcher has rung for it has seen, and what it has seen was written; it
\* is on its way to a ring only for a write it has not rung for.
Watched ==
    \A r \in Repos :
        /\ rings[r] <= last[r] /\ last[r] <= jsonl[r]
        /\ wpc[r] = "debounce" => rings[r] < jsonl[r]
        /\ wpc[r] = "ring" => rings[r] < last[r]

\* Clients come once the watchers are up.
WatchersFirst ==
    LateWatchers \/ \A c \in Clients : conn[c] # "away" => \A r \in Repos : wpc[r] # "resolve"

Inv == TypeOK /\ IsFiniteSet(listeners) /\ Watched /\ WatchersFirst

LEMMA WalMoves ==
    ASSUME NEW f \in [Repos -> 0..1], NEW r \in Repos
    PROVE  [f EXCEPT ![r] = 1 - @] \in [Repos -> 0..1]
  <1>1. f[r] \in 0..1
    OBVIOUS
  <1>2. 1 - f[r] \in 0..1
    BY <1>1
  <1> QED
    BY <1>2

LEMMA InvInit == Init => Inv
  BY ConstantsAssumption, FS_EmptySet DEF Init, Inv, TypeOK, Watched, WatchersFirst

LEMMA InvStep == Inv /\ [Next]_vars => Inv'
  <1> SUFFICES ASSUME Inv, [Next]_vars PROVE Inv'
    OBVIOUS
  <1> USE DEF Inv, repoVars, watchVars, clientVars
  <1>1. ASSUME NEW r \in Repos, Mutate(r) PROVE Inv'
    <2>1. wal' \in [Repos -> 0..1] /\ exporting' \in [Repos -> BOOLEAN]
      <3>1. wal' = [wal EXCEPT ![r] = 1 - @] /\ wal \in [Repos -> 0..1]
        BY <1>1 DEF Mutate, TypeOK
      <3>2. exporting' \in [Repos -> BOOLEAN]
        BY <1>1 DEF Mutate, TypeOK
      <3> QED
        BY <3>1, <3>2, WalMoves
    <2>2. /\ stale' \in [Clients -> SUBSET Repos]
          /\ \A c \in Clients : stale'[c] # {} => conn[c] = "open" /\ stale'[c] \subseteq wants[c]
      BY <1>1 DEF Mutate, TypeOK
    <2> QED
      BY <1>1, <2>1, <2>2 DEF Mutate, TypeOK, Watched, WatchersFirst
  <1>2. ASSUME NEW r \in Repos, Export(r) PROVE Inv'
    <2>1. PICK v \in {jsonl[r], jsonl[r] + 1} : jsonl' = [jsonl EXCEPT ![r] = v]
      BY <1>2 DEF Export
    <2>2. exporting' \in [Repos -> BOOLEAN]
      BY <1>2 DEF Export, TypeOK
    <2>3. /\ jsonl' \in [Repos -> Nat] /\ \A s \in Repos : jsonl'[s] <= MaxWrites[s]
          /\ \A s \in Repos : jsonl[s] <= jsonl'[s]
      <3>1. jsonl \in [Repos -> Nat] /\ \A s \in Repos : jsonl[s] <= MaxWrites[s]
        BY DEF TypeOK
      <3>2. jsonl[r] < MaxWrites[r] /\ MaxWrites \in [Repos -> Nat]
        BY <1>2, ConstantsAssumption DEF Export
      <3>3. v \in Nat /\ jsonl[r] <= v /\ v <= MaxWrites[r]
        BY <2>1, <3>1, <3>2
      <3> QED
        BY <2>1, <3>1, <3>3
    <2>4. UNCHANGED <<wal, watchVars, listeners, ch, clientVars>>
      BY <1>2 DEF Export
    <2>5. TypeOK'
      BY <2>2, <2>3, <2>4 DEF TypeOK
    <2>6. Watched' /\ WatchersFirst'
      BY <2>3, <2>4 DEF TypeOK, Watched, WatchersFirst
    <2> QED
      BY <2>4, <2>5, <2>6
  <1>3. ASSUME NEW r \in Repos, Read(r) PROVE Inv'
    <2>1. wal' \in [Repos -> 0..1]
      <3>1. wal' = [wal EXCEPT ![r] = 1 - @] /\ wal \in [Repos -> 0..1]
        BY <1>3 DEF Read, TypeOK
      <3> QED
        BY <3>1, WalMoves
    <2> QED
      BY <1>3, <2>1 DEF Read, TypeOK, Watched, WatchersFirst
  <1>4. ASSUME NEW r \in Repos, Baseline(r) PROVE Inv'
    BY <1>4 DEF Baseline, WGoto, Fingerprint, TypeOK, Watched, WatchersFirst
  <1>5. ASSUME NEW r \in Repos, Tick(r) PROVE Inv'
    BY <1>5 DEF Tick, WGoto, Fingerprint, TypeOK, Watched, WatchersFirst
  <1>6. ASSUME NEW r \in Repos, Settle(r) PROVE Inv'
    BY <1>6 DEF Settle, WGoto, Fingerprint, TypeOK, Watched, WatchersFirst
  <1>7. ASSUME NEW r \in Repos, Ring(r) PROVE Inv'
    BY <1>7, ConstantsAssumption DEF Ring, WGoto, Interested, TypeOK, Watched, WatchersFirst
  <1>8. ASSUME NEW c \in Clients, Subscribe(c) PROVE Inv'
    <2>1. PICK S \in Queries[c] : wants' = [wants EXCEPT ![c] = S]
      BY <1>8 DEF Subscribe
    <2>2. wants' \in [Clients -> SUBSET Repos]
      BY <2>1, ConstantsAssumption DEF TypeOK
    <2>3. IsFiniteSet(listeners') /\ Cardinality(listeners') <= MaxListeners
      <3>1. /\ IsFiniteSet(listeners \cup {c})
            /\ c \in listeners \/ Cardinality(listeners \cup {c}) = Cardinality(listeners) + 1
        BY FS_AddElement
      <3>2. c \notin listeners
        BY <1>8 DEF Subscribe, TypeOK
      <3>3. Cardinality(listeners) \in Nat
        BY FS_CardinalityType
      <3> QED
        BY <1>8, <3>1, <3>2, <3>3, ConstantsAssumption DEF Subscribe
    <2>4. ch' \in [Clients -> Seq(Repos)] /\ \A d \in Clients : Len(ch'[d]) <= Buffer
      BY <1>8, ConstantsAssumption DEF Subscribe, TypeOK
    <2>5. /\ conn' \in [Clients -> {"away", "accepted", "open", "left"}]
          /\ listeners' = {d \in Clients : conn'[d] # "away"}
      BY <1>8 DEF Subscribe, TypeOK
    <2>6. \A d \in Clients : stale'[d] # {} => conn'[d] = "open" /\ stale'[d] \subseteq wants'[d]
      BY <1>8, <2>1 DEF Subscribe, TypeOK
    <2>7. TypeOK'
      BY <1>8, <2>2, <2>3, <2>4, <2>5, <2>6 DEF Subscribe, TypeOK
    <2>8. Watched' /\ WatchersFirst'
      BY <1>8 DEF Subscribe, TypeOK, Watched, WatchersFirst
    <2> QED
      BY <2>3, <2>7, <2>8
  <1>9. ASSUME NEW c \in Clients, Connected(c) PROVE Inv'
    BY <1>9 DEF Connected, Ask, TypeOK, Watched, WatchersFirst
  <1>10. ASSUME NEW c \in Clients, Receive(c) PROVE Inv'
    <2>1. ch[c] \in Seq(Repos) /\ ch[c] # <<>>
      BY <1>10 DEF Receive, TypeOK
    <2>2. Tail(ch[c]) \in Seq(Repos) /\ Len(Tail(ch[c])) = Len(ch[c]) - 1 /\ Len(ch[c]) \in Nat
      BY <2>1
    <2>3. ch' \in [Clients -> Seq(Repos)] /\ \A d \in Clients : Len(ch'[d]) <= Buffer
      BY <1>10, <2>2, ConstantsAssumption DEF Receive, TypeOK
    <2> QED
      BY <1>10, <2>3 DEF Receive, Ask, TypeOK, Watched, WatchersFirst
  <1>11. ASSUME NEW c \in Clients, Leave(c) PROVE Inv'
    BY <1>11 DEF Leave, TypeOK, Watched, WatchersFirst
  <1>12. ASSUME NEW c \in Clients, Unsubscribe(c) PROVE Inv'
    <2>1. IsFiniteSet(listeners') /\ Cardinality(listeners') <= MaxListeners
      <3>1. /\ IsFiniteSet(listeners \ {c})
            /\ Cardinality(listeners \ {c}) <= Cardinality(listeners)
            /\ Cardinality(listeners \ {c}) \in Nat /\ Cardinality(listeners) \in Nat
        BY FS_Subset, FS_CardinalityType
      <3> QED
        BY <1>12, <3>1, ConstantsAssumption DEF Unsubscribe, TypeOK
    <2>2. ch' \in [Clients -> Seq(Repos)] /\ \A d \in Clients : Len(ch'[d]) <= Buffer
      BY <1>12, ConstantsAssumption DEF Unsubscribe, TypeOK
    <2>3. /\ conn' \in [Clients -> {"away", "accepted", "open", "left"}]
          /\ listeners' = {d \in Clients : conn'[d] # "away"}
      BY <1>12 DEF Unsubscribe, TypeOK
    <2>4. /\ wants' \in [Clients -> SUBSET Repos]
          /\ \A d \in Clients : stale'[d] # {} => conn'[d] = "open" /\ stale'[d] \subseteq wants'[d]
      BY <1>12 DEF Unsubscribe, TypeOK
    <2>5. TypeOK'
      BY <1>12, <2>1, <2>2, <2>3, <2>4 DEF Unsubscribe, TypeOK
    <2>6. Watched' /\ WatchersFirst'
      BY <1>12 DEF Unsubscribe, TypeOK, Watched, WatchersFirst
    <2> QED
      BY <2>1, <2>5, <2>6
  <1>13. CASE UNCHANGED vars
    BY <1>13 DEF vars, TypeOK, Watched, WatchersFirst
  <1> QED
    BY <1>1, <1>2, <1>3, <1>4, <1>5, <1>6, <1>7, <1>8, <1>9, <1>10, <1>11, <1>12, <1>13
    DEF Next, Watch, Br, Serve

LEMMA Invariant == Spec => []Inv
  BY InvInit, InvStep, PTL DEF Spec

\* The registry is just the connections, and never above its cap, nor a channel
\* above its own.
THEOREM TypeCorrect == Spec => []TypeOK
  <1>1. Inv => TypeOK
    BY DEF Inv
  <1> QED
    BY Invariant, <1>1, PTL

\* Reads, of which every client's own question is one, ring nothing.
THEOREM WritesOnly == Spec => []RingsForWritesOnly
  <1>1. Inv => RingsForWritesOnly
    BY DEF Inv, TypeOK, Watched, RingsForWritesOnly
  <1> QED
    BY Invariant, <1>1, PTL

-----------------------------------------------------------------------------
(* Where clients come late enough and a new export looks new.              *)

\* What is appended to is not empty.
LEMMA Grown ==
    ASSUME NEW R, NEW q \in Seq(R), NEW x \in R
    PROVE  Append(q, x) # <<>>
  <1>1. Len(Append(q, x)) = Len(q) + 1 /\ Len(q) \in Nat
    OBVIOUS
  <1> QED
    BY <1>1

\* A channel is not empty after a ring, whether it had room or was full.
LEMMA Kept ==
    ASSUME NEW q \in Seq(Repos), NEW r \in Repos, NEW n \in Nat \ {0}
    PROVE  (IF Len(q) < n THEN Append(q, r) ELSE q) # <<>>
  <1>1. CASE Len(q) < n
    BY <1>1, Grown
  <1>2. CASE ~(Len(q) < n)
    <2>1. Len(q) # 0 /\ Len(<<>>) = 0
      BY <1>2
    <2> QED
      BY <1>2, <2>1
  <1> QED
    BY <1>1, <1>2

\* How a change on its way gets on: from br to the stamp, from the stamp through
\* the watcher to the ring, from the ring to the channel.
LEMMA CurrentStep ==
    ASSUME LateWatchers = FALSE, SameStamp = FALSE, Inv, Current, [Next]_vars
    PROVE  Current'
  <1> SUFFICES ASSUME NEW c \in Clients, conn'[c] = "open", NEW r \in Repos, r \in stale'[c]
               PROVE  \/ exporting'[r]
                      \/ jsonl'[r] # last'[r]
                      \/ wpc'[r] \in {"debounce", "ring"}
                      \/ ch'[c] # <<>>
    <2>1. TypeOK'
      BY InvStep DEF Inv
    <2> QED
      BY <2>1 DEF Current, Fingerprint, TypeOK
  <1> DEFINE OnItsWay == \/ exporting[r]
                         \/ jsonl[r] # last[r]
                         \/ wpc[r] \in {"debounce", "ring"}
                         \/ ch[c] # <<>>
  <1>1. conn[c] = "open" /\ r \in stale[c] => OnItsWay
    BY DEF Current, Fingerprint, Inv, TypeOK
  <1> USE DEF Inv, repoVars, watchVars, clientVars
  <1>2. ASSUME NEW s \in Repos, Mutate(s) PROVE OnItsWay'
    BY <1>1, <1>2 DEF Mutate, TypeOK
  <1>3. ASSUME NEW s \in Repos, Export(s) PROVE OnItsWay'
    <2>1. jsonl' = [jsonl EXCEPT ![s] = jsonl[s] + 1]
      BY <1>3 DEF Export
    <2>2. CASE s = r
      BY <1>3, <2>1, <2>2 DEF Export, TypeOK, Watched
    <2>3. CASE s # r
      BY <1>1, <1>3, <2>1, <2>3 DEF Export, TypeOK
    <2> QED
      BY <2>2, <2>3
  <1>4. ASSUME NEW s \in Repos, Read(s) PROVE OnItsWay'
    BY <1>1, <1>4 DEF Read
  <1>5. ASSUME NEW s \in Repos, Baseline(s) PROVE OnItsWay'
    BY <1>1, <1>5 DEF Baseline, TypeOK, WatchersFirst
  <1>6. ASSUME NEW s \in Repos, Watch(s), ~Baseline(s) PROVE OnItsWay'
    <2>1. CASE Tick(s)
      BY <1>1, <2>1 DEF Tick, WGoto, TypeOK
    <2>2. CASE Settle(s)
      BY <1>1, <2>2 DEF Settle, WGoto, TypeOK
    <2>3. CASE Ring(s)
      <3>1. CASE s = r
        <4>1. c \in Interested(r)
          BY <2>3 DEF Ring, Interested, TypeOK
        <4>2. ch'[c] = IF Len(ch[c]) < Buffer THEN Append(ch[c], r) ELSE ch[c]
          BY <2>3, <3>1, <4>1 DEF Ring
        <4>3. ch'[c] # <<>>
          BY <4>2, Kept, ConstantsAssumption DEF TypeOK
        <4> QED
          BY <4>3
      <3>2. CASE s # r
        <4>1. \/ ch'[c] = ch[c]
              \/ ch'[c] = Append(ch[c], s)
          BY <2>3 DEF Ring
        <4>2. ch[c] # <<>> => ch'[c] # <<>>
          BY <4>1, Grown DEF TypeOK
        <4> QED
          BY <1>1, <2>3, <3>2, <4>2 DEF Ring, WGoto, TypeOK
      <3> QED
        BY <3>1, <3>2
    <2> QED
      BY <1>6, <2>1, <2>2, <2>3 DEF Watch
  <1>7. ASSUME NEW d \in Clients, Serve(d) PROVE OnItsWay'
    <2>1. d # c /\ stale'[c] = stale[c] /\ conn'[c] = conn[c] /\ ch'[c] = ch[c]
      BY <1>7 DEF Serve, Subscribe, Connected, Receive, Leave, Unsubscribe, Ask, TypeOK
    <2>2. UNCHANGED <<repoVars, watchVars>>
      BY <1>7 DEF Serve, Subscribe, Connected, Receive, Leave, Unsubscribe
    <2> QED
      BY <1>1, <2>1, <2>2
  <1>8. CASE UNCHANGED vars
    BY <1>1, <1>8 DEF vars
  <1> QED
    BY <1>2, <1>3, <1>4, <1>5, <1>6, <1>7, <1>8 DEF Next, Br

\* No change is lost between the export, the watcher, the channel and the client,
\* as long as a client comes when the watchers are up and no two exports have the
\* same size and mtime.
THEOREM NoChangeLost ==
    ASSUME LateWatchers = FALSE, SameStamp = FALSE
    PROVE  Spec => []Current
  <1>1. Init => Current
    BY DEF Init, Current
  <1>2. Inv /\ Current /\ [Next]_vars => Current'
    BY CurrentStep
  <1> QED
    BY Invariant, <1>1, <1>2, PTL DEF Spec
=============================================================================
