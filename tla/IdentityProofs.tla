-------------------------- MODULE IdentityProofs --------------------------
(***************************************************************************)
(* Proofs about Identity, for any requests, addresses, peers, TTL and      *)
(* timeout, and whatever fails, moves or goes away: what an identity rests *)
(* on, how old the answer behind it may be, and what a missing one means.  *)
(***************************************************************************)
EXTENDS Identity, TLAPS

Answers == Peers \cup {Nobody}

\* The inputs a transport lets through, and those that are looked up.
Admitted == {q \in Inputs : /\ q.via = "direct" => q.addr # NoAddr
                            /\ q.via = "unix" => q.addr = NoAddr}
Asked    == {q \in Admitted : ~ByHeader(q) /\ HasAddr(q)}

\* A request at each place of WhoIs.
Lookups == [pc : {"lookup"}, q : Asked, age : 0..Timeout]
Tolds   == [pc : {"told"}, q : Asked, age : 0..Timeout, peer : Answers]
Ended(q, peer, c) == [pc |-> "done", q |-> q, id |-> Identify(q, peer), cancelled |-> c]
IsDone(x) == \E q \in Admitted, peer \in Answers, c \in BOOLEAN : x = Ended(q, peer, c)

Place(x) == x = Idle \/ x \in Lookups \/ x \in Tolds \/ IsDone(x)

\* Identities are made by Identify() alone, of what was let through.
Placed == req = [r \in Requests |-> req[r]] /\ \A r \in Requests : Place(req[r])

Boxes ==
    /\ owner \in [Addrs -> Answers]
    /\ cache \in [Addrs -> [peer : Answers, age : 0..Expired]]
    /\ lastHeld \in [Addrs -> [Peers -> Ages]] /\ lastFail \in [Addrs -> Ages]

\* What is remembered, and what a process was told, is no older than its age.
HeldNow(a) == owner[a] \in Peers => lastHeld[a][owner[a]] = 0
Remembered(a) ==
    cache[a].age < TTL =>
        /\ cache[a].peer \in Peers => lastHeld[a][cache[a].peer] <= cache[a].age + Timeout
        /\ cache[a].peer = Nobody => lastFail[a] <= cache[a].age
ToldLately(r) ==
    req[r].pc = "told" /\ req[r].peer \in Peers =>
        lastHeld[req[r].q.addr][req[r].peer] <= req[r].age

Inv ==
    /\ Boxes /\ Placed
    /\ \A a \in Addrs : HeldNow(a) /\ Remembered(a)
    /\ \A r \in Requests : ToldLately(r)

-----------------------------------------------------------------------------
\* A request is at one place.
LEMMA Places ==
    ASSUME NEW x, Place(x)
    PROVE  /\ x.pc \in {"idle", "lookup", "told", "done"}
           /\ x.pc = "lookup" => x \in Lookups
           /\ x.pc = "told" => x \in Tolds
           /\ x.pc = "done" => IsDone(x)
  BY DEF Place, Idle, Lookups, Tolds, IsDone, Ended

\* A lookup is for an address of the tailnet.
LEMMA AskedHasAddr ==
    ASSUME NEW q \in Asked PROVE q \in Admitted /\ q.addr \in Addrs /\ HasAddr(q) /\ ~ByHeader(q)
  BY DEF Asked, Admitted, Inputs, HasAddr

\* What Identify() makes of an answer: a name just when whois gave one that it asks for.
LEMMA IdentifyIs ==
    ASSUME NEW q \in Admitted, NEW peer \in Answers
    PROVE  LET id == Identify(q, peer)
           IN  /\ id.source \in ByWhois <=> ~ByHeader(q) /\ HasAddr(q) /\ peer \in Peers
               /\ id.source \in ByWhois => id.peer = peer
               /\ id.source \notin ByWhois => id.peer = Nobody
               /\ id.source = "tailscale-user-header" <=> ByHeader(q)
               /\ id.source = "tailscale-whois-direct" => q.via = "direct"
               /\ id.source = "tailscale-whois" => q.via = "proxy" /\ ~q.header
  BY NamesAssumption DEF Identify, Admitted, Inputs, Answers, ByWhois, ByHeader, HasAddr

\* A step of one request is a step from its place to another.
LEMMA Replaced ==
    ASSUME Placed, NEW r \in Requests, NEW x, Place(x), req' = [req EXCEPT ![r] = x]
    PROVE  Placed' /\ req'[r] = x /\ \A s \in Requests \ {r} : req'[s] = req[s]
  BY DEF Placed

LEMMA DoneIs ==
    ASSUME NEW q, NEW peer
    PROVE  /\ Done(q, peer) = Ended(q, peer, FALSE)
           /\ \A c \in BOOLEAN : [Done(q, peer) EXCEPT !.cancelled = c] = Ended(q, peer, c)
  BY DEF Done, Ended

LEMMA DonePlace ==
    ASSUME NEW q \in Admitted, NEW peer \in Answers, NEW c \in BOOLEAN
    PROVE  Place(Ended(q, peer, c)) /\ Ended(q, peer, c).pc = "done"
  BY DEF Place, IsDone, Ended

LEMMA InitInv == Init => Inv
  BY NamesAssumption, TimesAssumption
  DEF Init, Inv, Boxes, Placed, Place, HeldNow, Remembered, ToldLately, Idle, Answers, Ages,
      Older, Expired

-----------------------------------------------------------------------------
(* The steps.                                                              *)

\* Steps of a request that touch the request alone.
LEMMA RequestStep ==
    ASSUME Inv, NEW r \in Requests, NEW x, Place(x), req' = [req EXCEPT ![r] = x],
           UNCHANGED <<owner, cache, lastHeld, lastFail>>,
           x.pc = "told" /\ x.peer \in Peers => lastHeld[x.q.addr][x.peer] <= x.age
    PROVE  Inv'
  <1>1. Placed' /\ req'[r] = x /\ \A s \in Requests \ {r} : req'[s] = req[s]
    BY Replaced DEF Inv
  <1> QED
    BY <1>1 DEF Inv, Boxes, HeldNow, Remembered, ToldLately

\* An arrival is answered from the connection or the cache, or becomes a lookup.
LEMMA ArriveCases ==
    ASSUME Inv, NEW r \in Requests, Arrive(r)
    PROVE  /\ req[r].pc = "idle" /\ UNCHANGED <<owner, cache, lastHeld, lastFail>>
           /\ \E q \in Admitted :
                 \/ (ByHeader(q) \/ ~HasAddr(q)) /\ req' = [req EXCEPT ![r] = Ended(q, Nobody, FALSE)]
                 \/ /\ q \in Asked /\ cache[q.addr].age < TTL
                    /\ req' = [req EXCEPT ![r] = Ended(q, cache[q.addr].peer, FALSE)]
                 \/ q \in Asked /\ req' = [req EXCEPT ![r] = [pc |-> "lookup", q |-> q, age |-> 0]]
  <1> PICK q \in Inputs :
        /\ q.via = "direct" => q.addr # NoAddr
        /\ q.via = "unix" => q.addr = NoAddr
        /\ IF ByHeader(q) \/ ~HasAddr(q)
             THEN req' = [req EXCEPT ![r] = Done(q, Nobody)] /\ UNCHANGED cache
             ELSE Hit(r, q) \/ Miss(r, q)
    BY DEF Arrive
  <1>1. q \in Admitted /\ (~ByHeader(q) /\ HasAddr(q) => q \in Asked)
    BY DEF Admitted, Asked
  <1> QED
    BY <1>1, DoneIs DEF Arrive, Hit, Miss

\* A lookup ends, with an answer no older than itself or without one, and either
\* is remembered as of now.
LEMMA StoreStep ==
    ASSUME Inv, NEW r \in Requests, NEW q \in Asked, NEW peer \in Answers, NEW x, Place(x),
           x.pc = "done", req' = [req EXCEPT ![r] = x], Store(q.addr, peer),
           peer \in Peers => lastHeld[q.addr][peer] <= Timeout,
           lastFail' = IF peer = Nobody THEN [lastFail EXCEPT ![q.addr] = 0] ELSE lastFail,
           UNCHANGED <<owner, lastHeld>>
    PROVE  Inv'
  <1>1. Placed' /\ req'[r] = x /\ \A s \in Requests \ {r} : req'[s] = req[s]
    BY Replaced DEF Inv
  <1>2. q.addr \in Addrs
    BY AskedHasAddr
  <1>3. /\ cache'[q.addr] = [peer |-> peer, age |-> 0]
        /\ \A a \in Addrs \ {q.addr} : cache'[a] = cache[a] /\ lastFail'[a] = lastFail[a]
        /\ peer = Nobody => lastFail'[q.addr] = 0
    BY <1>2 DEF Inv, Boxes, Store
  <1>4. Boxes'
    BY <1>2, TimesAssumption DEF Inv, Boxes, Store, Expired, Ages, Older
  <1>5. \A a \in Addrs : HeldNow(a)'
    BY DEF Inv, HeldNow
  <1>6. ASSUME NEW a \in Addrs PROVE Remembered(a)'
    BY <1>3, TimesAssumption DEF Inv, Remembered
  <1>7. \A s \in Requests : ToldLately(s)'
    BY <1>1 DEF Inv, ToldLately
  <1> QED
    BY <1>1, <1>4, <1>5, <1>6, <1>7 DEF Inv

\* Time passes for what is known, and for what it is known from, alike.
LEMMA TickStep == ASSUME Inv, Tick PROVE Inv'
  <1>1. /\ cache' = [a \in Addrs |-> [cache[a] EXCEPT !.age = Min2(@ + 1, Expired)]]
        /\ req' = [r \in Requests |-> IF req[r].pc \in {"lookup", "told"}
                                        THEN [req[r] EXCEPT !.age = @ + 1] ELSE req[r]]
        /\ lastHeld' = [a \in Addrs |-> [p \in Peers |->
                          IF owner[a] = p THEN 0 ELSE Min2(lastHeld[a][p] + 1, Older)]]
        /\ lastFail' = [a \in Addrs |-> Min2(lastFail[a] + 1, Older)]
        /\ \A r \in Requests : req[r].pc \in {"lookup", "told"} => req[r].age < Timeout
        /\ owner' = owner
    BY DEF Tick
  <1>3. Expired \in Nat /\ Older \in Nat /\ TTL \in Nat /\ Timeout \in Nat
    BY TimesAssumption DEF Expired, Older
  <1>4. \A a \in Addrs : /\ cache'[a].peer = cache[a].peer
                         /\ cache'[a].age = Min2(cache[a].age + 1, Expired)
                         /\ cache[a].age \in Nat /\ lastFail[a] \in Nat
                         /\ lastFail'[a] = Min2(lastFail[a] + 1, Older)
    BY <1>1, <1>3 DEF Inv, Boxes, Ages
  <1>2. \A a \in Addrs, p \in Peers :
          /\ lastHeld[a][p] \in Nat
          /\ lastHeld'[a][p] = IF owner[a] = p THEN 0 ELSE Min2(lastHeld[a][p] + 1, Older)
    BY <1>1, <1>3 DEF Inv, Boxes, Ages
  <1>5. Boxes'
    <2>2. cache' \in [Addrs -> [peer : Answers, age : 0..Expired]]
      <3>1. \A a \in Addrs : Min2(cache[a].age + 1, Expired) \in 0..Expired
        BY <1>3, <1>4 DEF Min2
      <3>2. \A a \in Addrs : cache[a].peer \in Answers
        BY DEF Inv, Boxes
      <3>3. \A a \in Addrs : cache'[a] = [peer |-> cache[a].peer,
                                          age |-> Min2(cache[a].age + 1, Expired)]
        BY <1>1 DEF Inv, Boxes
      <3>4. ASSUME NEW a \in Addrs PROVE cache'[a] \in [peer : Answers, age : 0..Expired]
        <4>1. \A p \in Answers, n \in 0..Expired :
                [peer |-> p, age |-> n] \in [peer : Answers, age : 0..Expired]
          OBVIOUS
        <4> QED
          <5>1. cache[a].peer \in Answers /\ Min2(cache[a].age + 1, Expired) \in 0..Expired
            BY <3>1, <3>2, <3>4
          <5>2. [peer |-> cache[a].peer, age |-> Min2(cache[a].age + 1, Expired)]
                  \in [peer : Answers, age : 0..Expired]
            BY <4>1, <5>1, Zenon
          <5> QED
            BY <3>3, <3>4, <5>2, Zenon
      <3>5. cache' = [a \in Addrs |-> cache'[a]]
        BY <1>1
      <3> QED
        BY <3>4, <3>5
    <2>3. lastHeld' \in [Addrs -> [Peers -> Ages]]
      <3>1. \A a \in Addrs, p \in Peers : lastHeld'[a][p] \in Ages
        BY <1>2, <1>3 DEF Ages, Min2
      <3> QED
        BY <1>1, <3>1
    <2>4. lastFail' \in [Addrs -> Ages]
      <3>1. \A a \in Addrs : lastFail'[a] \in Ages
        BY <1>3, <1>4 DEF Ages, Min2
      <3> QED
        BY <1>1, <3>1
    <2> QED
      BY <1>1, <2>2, <2>3, <2>4 DEF Inv, Boxes
  <1>6. ASSUME NEW r \in Requests PROVE Place(req'[r]) /\ ToldLately(r)'
    <2>1. CASE req[r].pc \notin {"lookup", "told"}
      BY <1>1, <2>1 DEF Inv, Placed, ToldLately
    <2>2. CASE req[r].pc = "lookup"
      <3>1. req[r] \in Lookups /\ req[r].age < Timeout /\ req'[r] = [req[r] EXCEPT !.age = @ + 1]
        BY <1>1, <2>2, Places DEF Inv, Placed
      <3>2. req'[r] \in Lookups
        BY <1>3, <3>1 DEF Lookups
      <3> QED
        BY <3>2 DEF Place, Lookups, ToldLately
    <2>3. CASE req[r].pc = "told"
      <3>1. req[r] \in Tolds /\ req[r].age < Timeout /\ req'[r] = [req[r] EXCEPT !.age = @ + 1]
        BY <1>1, <2>3, Places DEF Inv, Placed
      <3>2. /\ req'[r] \in Tolds /\ req'[r].q = req[r].q /\ req'[r].peer = req[r].peer
            /\ req'[r].age = req[r].age + 1 /\ req[r].age \in Nat /\ req[r].q.addr \in Addrs
        BY <1>3, <3>1, AskedHasAddr DEF Tolds
      <3>3. ASSUME req[r].peer \in Peers
            PROVE  lastHeld'[req[r].q.addr][req[r].peer] <= req[r].age + 1
        <4>1. lastHeld[req[r].q.addr][req[r].peer] <= req[r].age
          BY <2>3, <3>3 DEF Inv, ToldLately
        <4> QED
          BY <1>2, <1>3, <3>2, <3>3, <4>1 DEF Min2
      <3> QED
        BY <3>2, <3>3 DEF Place, ToldLately
    <2> QED
      BY <2>1, <2>2, <2>3
  <1>7. Placed'
    BY <1>1, <1>6 DEF Placed
  <1>8. ASSUME NEW a \in Addrs PROVE HeldNow(a)' /\ Remembered(a)'
    <2>1. HeldNow(a)'
      BY <1>1, <1>8 DEF HeldNow
    <2>2. ASSUME cache'[a].age < TTL
          PROVE  /\ cache[a].age < TTL /\ cache'[a].age = cache[a].age + 1
      BY <1>3, <1>4, <1>8, <2>2 DEF Expired, Min2
    <2>3. ASSUME cache'[a].age < TTL, cache[a].peer \in Peers
          PROVE  lastHeld'[a][cache[a].peer] <= cache'[a].age + Timeout
      <3>1. lastHeld[a][cache[a].peer] <= cache[a].age + Timeout
        BY <2>2, <2>3 DEF Inv, Remembered
      <3> QED
        BY <1>2, <1>3, <1>4, <1>8, <2>2, <2>3, <3>1 DEF Min2
    <2>4. ASSUME cache'[a].age < TTL, cache[a].peer = Nobody
          PROVE  lastFail'[a] <= cache'[a].age
      <3>1. lastFail[a] <= cache[a].age
        BY <2>2, <2>4 DEF Inv, Remembered
      <3> QED
        BY <1>3, <1>4, <1>8, <2>2, <2>4, <3>1 DEF Min2
    <2> QED
      BY <1>4, <2>1, <2>3, <2>4 DEF Remembered
  <1> QED
    BY <1>5, <1>6, <1>7, <1>8 DEF Inv

\* An address changes hands: whoever holds it now has held it most recently.
LEMMA MoveStep == ASSUME Inv, NEW a \in Addrs, Move(a) PROVE Inv'
  <1> PICK p \in Answers :
        /\ owner' = [owner EXCEPT ![a] = p]
        /\ lastHeld' = [lastHeld EXCEPT ![a] = [x \in Peers |-> IF x = p THEN 0 ELSE @[x]]]
        /\ UNCHANGED <<cache, req, lastFail>>
    BY DEF Move, Answers
  <1>1. \A b \in Addrs, x \in Peers :
          /\ lastHeld[b][x] \in Ages /\ lastHeld'[b][x] \in Ages
          /\ lastHeld'[b][x] = IF b = a /\ x = p THEN 0 ELSE lastHeld[b][x]
    BY TimesAssumption DEF Inv, Boxes, Ages, Older
  <1>2. Boxes'
    <2>1. lastHeld' \in [Addrs -> [Peers -> Ages]]
      BY <1>1 DEF Inv, Boxes
    <2> QED
      BY <2>1 DEF Inv, Boxes
  <1>3. \A b \in Addrs, x \in Peers :
          lastHeld'[b][x] <= lastHeld[b][x] /\ lastHeld[b][x] \in Nat /\ lastHeld'[b][x] \in Nat
    BY <1>1, TimesAssumption DEF Ages, Older
  <1>4. ASSUME NEW b \in Addrs PROVE HeldNow(b)' /\ Remembered(b)'
    <2>1. HeldNow(b)'
      BY <1>1, <1>4 DEF Inv, Boxes, HeldNow
    <2>2. cache[b].age \in Nat /\ Timeout \in Nat
      BY <1>4, TimesAssumption DEF Inv, Boxes, Expired
    <2> QED
      BY <1>3, <1>4, <2>1, <2>2 DEF Inv, Remembered
  <1>5. ASSUME NEW r \in Requests PROVE ToldLately(r)'
    <2> SUFFICES ASSUME req[r].pc = "told", req[r].peer \in Peers
                 PROVE  lastHeld'[req[r].q.addr][req[r].peer] <= req[r].age
      BY DEF ToldLately
    <2>1. req[r] \in Tolds
      BY Places DEF Inv, Placed
    <2>2. req[r].q.addr \in Addrs /\ req[r].age \in Nat
      BY <2>1, AskedHasAddr, TimesAssumption DEF Tolds
    <2> QED
      BY <1>3, <2>2 DEF Inv, ToldLately
  <1> QED
    BY <1>2, <1>4, <1>5 DEF Inv, Placed

\* What ends a lookup: an answer it was given, no older than the lookup, or none.
LEMMA EndCases ==
    ASSUME Inv, NEW r \in Requests,
           Return(r) \/ Fail(r) \/ Cancel(r) \/ Expire(r)
    PROVE  \E q \in Asked, peer \in Answers, c \in BOOLEAN :
             /\ q = req[r].q /\ Store(q.addr, peer)
             /\ req' = [req EXCEPT ![r] = Ended(q, peer, c)]
             /\ peer \in Peers => lastHeld[q.addr][peer] <= Timeout
             /\ peer \in Peers => req[r].pc = "told" /\ peer = req[r].peer
             /\ lastFail' = IF peer = Nobody THEN [lastFail EXCEPT ![q.addr] = 0] ELSE lastFail
             /\ UNCHANGED <<owner, lastHeld>>
  <1>1. req[r] \in Lookups \/ req[r] \in Tolds
    BY Places DEF Inv, Placed, Return, Fail, Cancel, Expire, Abort
  <1>2. req[r].q \in Asked
    BY <1>1 DEF Lookups, Tolds
  <1>3. CASE Return(r)
    <2>1. req[r] \in Tolds /\ req[r].pc = "told"
      BY <1>3, Places DEF Inv, Placed, Return
    <2>2. req[r].peer \in Answers /\ req[r].age \in 0..Timeout
      BY <2>1 DEF Tolds
    <2>3. req[r].peer \in Peers => lastHeld[req[r].q.addr][req[r].peer] <= Timeout
      <3>1. req[r].peer \in Peers => /\ lastHeld[req[r].q.addr][req[r].peer] <= req[r].age
                                     /\ lastHeld[req[r].q.addr][req[r].peer] \in Ages
        BY <1>2, <2>1, AskedHasAddr DEF Inv, ToldLately, Boxes
      <3> QED
        BY <2>2, <3>1, TimesAssumption DEF Ages, Older
    <2> QED
      BY <1>2, <1>3, <2>1, <2>2, <2>3, DoneIs DEF Return
  <1>4. ASSUME NEW c \in BOOLEAN, Abort(r, c)
        PROVE  /\ Store(req[r].q.addr, Nobody)
               /\ req' = [req EXCEPT ![r] = Ended(req[r].q, Nobody, c)]
               /\ lastFail' = [lastFail EXCEPT ![req[r].q.addr] = 0]
               /\ UNCHANGED <<owner, lastHeld>>
    BY <1>4, DoneIs DEF Abort
  <1>5. Nobody \in Answers /\ Nobody \notin Peers
    BY NamesAssumption DEF Answers
  <1> QED
    BY <1>2, <1>3, <1>4, <1>5 DEF Fail, Cancel, Expire

LEMMA NextInv == Inv /\ [Next]_vars => Inv'
  <1> SUFFICES ASSUME Inv, [Next]_vars PROVE Inv'
    OBVIOUS
  <1>1. ASSUME NEW r \in Requests, Arrive(r) PROVE Inv'
    <2> PICK q \in Admitted :
          \/ (ByHeader(q) \/ ~HasAddr(q)) /\ req' = [req EXCEPT ![r] = Ended(q, Nobody, FALSE)]
          \/ /\ q \in Asked /\ cache[q.addr].age < TTL
             /\ req' = [req EXCEPT ![r] = Ended(q, cache[q.addr].peer, FALSE)]
          \/ q \in Asked /\ req' = [req EXCEPT ![r] = [pc |-> "lookup", q |-> q, age |-> 0]]
      BY <1>1, ArriveCases
    <2>1. UNCHANGED <<owner, cache, lastHeld, lastFail>>
      BY <1>1, ArriveCases
    <2>2. ASSUME NEW peer \in Answers, req' = [req EXCEPT ![r] = Ended(q, peer, FALSE)]
          PROVE  Inv'
      <3>1. Place(Ended(q, peer, FALSE)) /\ Ended(q, peer, FALSE).pc = "done"
        BY DonePlace
      <3> QED
        BY <1>1, <2>1, <2>2, <3>1, RequestStep
    <2>3. ASSUME q \in Asked, req' = [req EXCEPT ![r] = [pc |-> "lookup", q |-> q, age |-> 0]]
          PROVE  Inv'
      <3>1. Place([pc |-> "lookup", q |-> q, age |-> 0])
        BY <2>3, TimesAssumption DEF Place, Lookups
      <3> QED
        BY <1>1, <2>1, <2>3, <3>1, RequestStep
    <2>4. Nobody \in Answers
      BY DEF Answers
    <2>5. q \in Asked => cache[q.addr].peer \in Answers
      BY AskedHasAddr DEF Inv, Boxes
    <2> QED
      BY <2>2, <2>3, <2>4, <2>5
  <1>2. ASSUME NEW r \in Requests, Told(r) PROVE Inv'
    <2>1. req[r] \in Lookups
      BY <1>2, Places DEF Told, Inv, Placed
    <2>2. req[r].q \in Asked /\ req[r].q.addr \in Addrs /\ req[r].age \in 0..Timeout
      BY <2>1, AskedHasAddr DEF Lookups
    <2> DEFINE x == [pc |-> "told", q |-> req[r].q, age |-> req[r].age,
                     peer |-> owner[req[r].q.addr]]
    <2>3. Place(x)
      BY <2>2 DEF Place, Tolds, Inv, Boxes
    <2>4. req' = [req EXCEPT ![r] = x] /\ UNCHANGED <<owner, cache, lastHeld, lastFail>>
      BY <1>2 DEF Told
    <2>5. x.pc = "told" /\ x.peer \in Peers => lastHeld[x.q.addr][x.peer] <= x.age
      BY <2>2, TimesAssumption DEF Inv, HeldNow
    <2> QED
      BY <1>2, <2>3, <2>4, <2>5, RequestStep
  <1>3. ASSUME NEW r \in Requests, Return(r) \/ Fail(r) \/ Cancel(r) \/ Expire(r) PROVE Inv'
    <2> PICK q \in Asked, peer \in Answers, c \in BOOLEAN :
          /\ q = req[r].q /\ Store(q.addr, peer)
          /\ req' = [req EXCEPT ![r] = Ended(q, peer, c)]
          /\ peer \in Peers => lastHeld[q.addr][peer] <= Timeout
          /\ lastFail' = IF peer = Nobody THEN [lastFail EXCEPT ![q.addr] = 0] ELSE lastFail
          /\ UNCHANGED <<owner, lastHeld>>
      BY <1>3, EndCases
    <2>1. Place(Ended(q, peer, c)) /\ Ended(q, peer, c).pc = "done"
      BY AskedHasAddr, DonePlace
    <2> QED
      BY <1>3, <2>1, StoreStep
  <1>4. ASSUME NEW r \in Requests, Leave(r) PROVE Inv'
    <2>1. Place(Idle) /\ Idle.pc = "idle"
      BY DEF Place, Idle
    <2> QED
      BY <1>4, <2>1, RequestStep DEF Leave
  <1>5. ASSUME UNCHANGED vars PROVE Inv'
    BY <1>5 DEF vars, Inv, Boxes, Placed, HeldNow, Remembered, ToldLately
  <1> QED
    BY <1>1, <1>2, <1>3, <1>4, <1>5, MoveStep, TickStep DEF Next

\* The answers given lie within the invariant on every step.
LEMMA InvHolds == Spec => []Inv
  BY InitInv, NextInv, PTL DEF Spec

-----------------------------------------------------------------------------
(* Whom whois has named.                                                   *)

\* The peer a request holds is one that n names for its address.
IsNamed(x, n) ==
    /\ x.pc = "told" /\ x.peer \in Peers => x.peer \in n[x.q.addr]
    /\ x.pc = "done" /\ x.id.source \in ByWhois => x.id.peer \in n[x.q.addr]

\* No name gets into a request or the cache but from whois, for that address.
Named ==
    /\ named \in [Addrs -> SUBSET Peers]
    /\ \A a \in Addrs : cache[a].peer \in Peers => cache[a].peer \in named[a]
    /\ \A r \in Requests : IsNamed(req[r], named)

\* An answer that has been named makes a named identity.
LEMMA EndedNamed ==
    ASSUME NEW q \in Admitted, NEW peer \in Answers, NEW c \in BOOLEAN, NEW n,
           q \in Asked /\ peer \in Peers => peer \in n[q.addr]
    PROVE  IsNamed(Ended(q, peer, c), n)
  <1>1. /\ Ended(q, peer, c).pc = "done" /\ Ended(q, peer, c).q = q
        /\ Ended(q, peer, c).id = Identify(q, peer)
    BY DEF Ended
  <1>2. ASSUME Identify(q, peer).source \in ByWhois
        PROVE  Identify(q, peer).peer = peer /\ peer \in n[q.addr]
    BY <1>2, IdentifyIs DEF Asked
  <1> QED
    BY <1>1, <1>2 DEF IsNamed

LEMMA NamedStep == Inv /\ Named /\ [Next]_vars => Named'
  <1> SUFFICES ASSUME Inv, Named, [Next]_vars PROVE Named'
    OBVIOUS
  <1> USE DEF Named
  <1>1. ASSUME NEW r \in Requests, NEW x, req' = [req EXCEPT ![r] = x], IsNamed(x, named),
               UNCHANGED <<cache, named>>
        PROVE  Named'
    BY <1>1 DEF Inv, Placed
  <1>2. ASSUME NEW r \in Requests, Arrive(r) PROVE Named'
    <2>1. UNCHANGED <<cache, named>>
      BY <1>2, ArriveCases DEF Arrive
    <2> PICK q \in Admitted :
          \/ (ByHeader(q) \/ ~HasAddr(q)) /\ req' = [req EXCEPT ![r] = Ended(q, Nobody, FALSE)]
          \/ /\ q \in Asked /\ cache[q.addr].age < TTL
             /\ req' = [req EXCEPT ![r] = Ended(q, cache[q.addr].peer, FALSE)]
          \/ q \in Asked /\ req' = [req EXCEPT ![r] = [pc |-> "lookup", q |-> q, age |-> 0]]
      BY <1>2, ArriveCases
    <2>2. IsNamed(Ended(q, Nobody, FALSE), named)
      BY EndedNamed, NamesAssumption DEF Answers
    <2>3. q \in Asked => IsNamed(Ended(q, cache[q.addr].peer, FALSE), named)
      BY EndedNamed, AskedHasAddr DEF Inv, Boxes
    <2>4. IsNamed([pc |-> "lookup", q |-> q, age |-> 0], named)
      BY DEF IsNamed
    <2> QED
      BY <1>1, <2>1, <2>2, <2>3, <2>4
  <1>3. ASSUME NEW r \in Requests, Told(r) PROVE Named'
    <2> DEFINE a == req[r].q.addr
               x == [pc |-> "told", q |-> req[r].q, age |-> req[r].age, peer |-> owner[a]]
    <2>1. a \in Addrs /\ owner[a] \in Answers
      BY <1>3, Places, AskedHasAddr DEF Told, Inv, Placed, Boxes, Lookups
    <2>2. /\ req' = [req EXCEPT ![r] = x] /\ UNCHANGED cache
          /\ named' = [named EXCEPT ![a] = @ \cup ({owner[a]} \ {Nobody})]
      BY <1>3 DEF Told
    <2>3. /\ named' \in [Addrs -> SUBSET Peers]
          /\ \A b \in Addrs : named[b] \subseteq named'[b]
          /\ owner[a] \in Peers => owner[a] \in named'[a]
      BY <2>1, <2>2, NamesAssumption DEF Answers
    <2>4. IsNamed(x, named')
      BY <2>3 DEF IsNamed
    <2>5. ASSUME NEW s \in Requests \ {r} PROVE IsNamed(req[s], named')
      <3>1. ASSUME req[s].pc = "told" PROVE req[s].q.addr \in Addrs
        BY <3>1, Places, AskedHasAddr DEF Inv, Placed, Tolds
      <3>2. ASSUME req[s].pc = "done", req[s].id.source \in ByWhois PROVE req[s].q.addr \in Addrs
        <4> PICK q \in Admitted, peer \in Answers :
              req[s].q = q /\ req[s].id = Identify(q, peer)
          BY <3>2, Places DEF Inv, Placed, IsDone, Ended
        <4>1. q \in Asked
          BY <3>2, IdentifyIs DEF Asked
        <4> QED
          BY <4>1, AskedHasAddr
      <3> QED
        BY <2>3, <3>1, <3>2 DEF IsNamed
    <2> QED
      BY <2>2, <2>3, <2>4, <2>5 DEF Inv, Placed
  <1>4. ASSUME NEW r \in Requests, Return(r) \/ Fail(r) \/ Cancel(r) \/ Expire(r) PROVE Named'
    <2> PICK q \in Asked, peer \in Answers, c \in BOOLEAN :
          /\ q = req[r].q /\ Store(q.addr, peer)
          /\ req' = [req EXCEPT ![r] = Ended(q, peer, c)]
          /\ peer \in Peers => req[r].pc = "told" /\ peer = req[r].peer
      BY <1>4, EndCases
    <2>1. named' = named /\ q \in Admitted /\ q.addr \in Addrs
      BY <1>4, AskedHasAddr DEF Return, Fail, Cancel, Expire, Abort
    <2>2. peer \in Peers => peer \in named[q.addr]
      BY DEF IsNamed
    <2>3. IsNamed(Ended(q, peer, c), named)
      BY <2>1, <2>2, EndedNamed
    <2>4. cache' = [cache EXCEPT ![q.addr] = [peer |-> peer, age |-> 0]]
      BY DEF Store
    <2> QED
      BY <2>1, <2>2, <2>3, <2>4 DEF Inv, Placed, Boxes
  <1>5. ASSUME NEW r \in Requests, Leave(r) PROVE Named'
    BY <1>1, <1>5 DEF Leave, Idle, IsNamed
  <1>6. ASSUME Tick PROVE Named'
    <2>1. named' = named /\ \A a \in Addrs : cache'[a].peer = cache[a].peer
      BY <1>6 DEF Tick, Inv, Boxes
    <2>2. ASSUME NEW r \in Requests PROVE IsNamed(req'[r], named)
      <3>1. \/ req'[r] = req[r]
            \/ req[r] \in Lookups \cup Tolds /\ req'[r] = [req[r] EXCEPT !.age = @ + 1]
        BY <1>6, Places DEF Tick, Inv, Placed
      <3>2. ASSUME req[r] \in Lookups PROVE [req[r] EXCEPT !.age = @ + 1].pc = "lookup"
        BY <3>2 DEF Lookups
      <3>3. ASSUME req[r] \in Tolds
            PROVE  LET x == [req[r] EXCEPT !.age = @ + 1]
                   IN  x.pc = "told" /\ x.peer = req[r].peer /\ x.q = req[r].q /\ req[r].pc = "told"
        BY <3>3 DEF Tolds
      <3> QED
        BY <3>1, <3>2, <3>3 DEF IsNamed
    <2> QED
      BY <2>1, <2>2
  <1>7. (\E a \in Addrs : Move(a)) \/ UNCHANGED vars => Named'
    BY DEF Move, vars
  <1> QED
    BY <1>2, <1>3, <1>4, <1>5, <1>6, <1>7 DEF Next

LEMMA NamedHolds == Spec => []Named
  <1>1. Init => Named
    BY NamesAssumption DEF Init, Named, IsNamed, Idle
  <1> QED
    BY <1>1, InvHolds, NamedStep, PTL DEF Spec

-----------------------------------------------------------------------------
(* What they come to.                                                      *)

\* Every age stays within its bound, and a request has a peer just when its
\* identity comes from whois.
THEOREM TypeCorrect == Spec => []TypeOK
  <1>1. Inv /\ Named => TypeOK
    <2> SUFFICES ASSUME Inv, Named PROVE TypeOK
      OBVIOUS
    <2>1. ASSUME NEW r \in Requests
          PROVE  /\ req[r].pc \in {"idle", "lookup", "told", "done"}
                 /\ req[r].pc \in {"lookup", "told"} => req[r].age \in 0..Timeout
                 /\ req[r].pc = "told" => req[r].peer \in Peers \cup {Nobody}
                 /\ req[r].pc = "done" =>
                      (req[r].id.source \in ByWhois <=> req[r].id.peer \in Peers)
      <3>1. Place(req[r])
        BY <2>1 DEF Inv, Placed
      <3>2. ASSUME req[r].pc = "done"
            PROVE  req[r].id.source \in ByWhois <=> req[r].id.peer \in Peers
        <4> PICK q \in Admitted, peer \in Answers : req[r].id = Identify(q, peer)
          BY <3>1, <3>2, Places DEF IsDone, Ended
        <4> QED
          BY IdentifyIs, NamesAssumption
      <3> QED
        BY <3>1, <3>2, Places DEF Lookups, Tolds, Answers
    <2> QED
      BY <2>1 DEF Inv, Boxes, Named, TypeOK, Answers
  <1> QED
    BY <1>1, InvHolds, NamedHolds, PTL

\* Whatever the headers and the cache hold, whoever moves and whatever fails, an
\* identity is verified only by what the connection vouches for, and the peer it
\* names is one that whois has named for the address of that request.
THEOREM IdentitiesVouchedFor == Spec => []VouchedFor
  <1>1. Inv /\ Named => VouchedFor
    <2> SUFFICES ASSUME Inv, Named, NEW r \in Requests, req[r].pc = "done"
                 PROVE  LET q == req[r].q  id == req[r].id
                        IN /\ q.via = "unix" => ~Verified(id)
                           /\ id.source = "tailscale-user-header" => q.via = "proxy"
                           /\ id.source = "tailscale-whois-direct" => q.via = "direct"
                           /\ id.source = "tailscale-whois" => q.via = "proxy" /\ ~q.header
                           /\ id.source \in ByWhois => q.addr # NoAddr /\ id.peer \in named[q.addr]
      BY DEF VouchedFor
    <2>1. IsDone(req[r])
      BY Places DEF Inv, Placed
    <2> PICK q \in Admitted, peer \in Answers : req[r].q = q /\ req[r].id = Identify(q, peer)
      BY <2>1 DEF IsDone, Ended
    <2>2. req[r].id.source \in ByWhois => req[r].id.peer \in named[q.addr]
      BY DEF Named, IsNamed
    <2> QED
      BY <2>2, IdentifyIs DEF Verified, HasAddr, ByHeader
  <1> QED
    BY <1>1, InvHolds, NamedHolds, PTL

\* Who is answered, and from what.
LEMMA AnsweredFrom ==
    ASSUME Inv, Next, NEW r \in Requests, Answered(r)
    PROVE  \E q \in Admitted, peer \in Answers :
             /\ req'[r].q = q /\ req'[r].id = Identify(q, peer)
             /\ \/ ByHeader(q) \/ ~HasAddr(q)
                \/ /\ q \in Asked /\ cache[q.addr].age < TTL /\ peer = cache[q.addr].peer
                   /\ lastFail' = lastFail
                \/ /\ q \in Asked /\ (peer \in Peers => lastHeld[q.addr][peer] <= Timeout)
                   /\ peer = Nobody => lastFail'[q.addr] = 0
  <1>1. req = [s \in Requests |-> req[s]] /\ Place(req[r])
    BY DEF Inv, Placed
  <1>2. ASSUME NEW s \in Requests, NEW x, req' = [req EXCEPT ![s] = x], req'[r] # req[r]
        PROVE  s = r /\ req'[r] = x
    BY <1>1, <1>2
  <1>3. req[r].pc # "done" /\ req'[r].pc = "done" /\ req'[r] # req[r]
    BY DEF Answered
  <1>4. ASSUME NEW s \in Requests, Arrive(s)
        PROVE  \E q \in Admitted, peer \in Answers :
                 /\ req'[r].q = q /\ req'[r].id = Identify(q, peer)
                 /\ \/ ByHeader(q) \/ ~HasAddr(q)
                    \/ /\ q \in Asked /\ cache[q.addr].age < TTL /\ peer = cache[q.addr].peer
                       /\ lastFail' = lastFail
    <2> PICK q \in Admitted :
          \/ (ByHeader(q) \/ ~HasAddr(q)) /\ req' = [req EXCEPT ![s] = Ended(q, Nobody, FALSE)]
          \/ /\ q \in Asked /\ cache[q.addr].age < TTL
             /\ req' = [req EXCEPT ![s] = Ended(q, cache[q.addr].peer, FALSE)]
          \/ q \in Asked /\ req' = [req EXCEPT ![s] = [pc |-> "lookup", q |-> q, age |-> 0]]
      BY <1>4, ArriveCases
    <2>1. lastFail' = lastFail
      BY <1>4, ArriveCases
    <2>2. ASSUME req' = [req EXCEPT ![s] = [pc |-> "lookup", q |-> q, age |-> 0]] PROVE FALSE
      BY <1>2, <1>3, <1>4, <2>2
    <2>3. ASSUME NEW peer, req' = [req EXCEPT ![s] = Ended(q, peer, FALSE)]
          PROVE  req'[r].q = q /\ req'[r].id = Identify(q, peer)
      BY <1>2, <1>3, <1>4, <2>3 DEF Ended
    <2>4. Nobody \in Answers /\ (q \in Asked => cache[q.addr].peer \in Answers)
      BY AskedHasAddr DEF Answers, Inv, Boxes
    <2> QED
      BY <2>1, <2>2, <2>3, <2>4
  <1>5. ASSUME NEW s \in Requests, Return(s) \/ Fail(s) \/ Cancel(s) \/ Expire(s)
        PROVE  \E q \in Admitted, peer \in Answers :
                 /\ req'[r].q = q /\ req'[r].id = Identify(q, peer)
                 /\ q \in Asked /\ (peer \in Peers => lastHeld[q.addr][peer] <= Timeout)
                 /\ peer = Nobody => lastFail'[q.addr] = 0
    <2> PICK q \in Asked, peer \in Answers, c \in BOOLEAN :
          /\ req' = [req EXCEPT ![s] = Ended(q, peer, c)]
          /\ peer \in Peers => lastHeld[q.addr][peer] <= Timeout
          /\ lastFail' = IF peer = Nobody THEN [lastFail EXCEPT ![q.addr] = 0] ELSE lastFail
      BY <1>5, EndCases
    <2>1. req'[r] = Ended(q, peer, c)
      BY <1>2, <1>3, <1>5
    <2>2. req'[r].q = q /\ req'[r].id = Identify(q, peer)
      BY <2>1 DEF Ended
    <2>3. q \in Admitted /\ (peer = Nobody => lastFail'[q.addr] = 0)
      BY AskedHasAddr DEF Inv, Boxes
    <2> QED
      BY <2>2, <2>3
  <1>6. ASSUME NEW s \in Requests, Told(s) \/ Leave(s) PROVE FALSE
    BY <1>2, <1>3, <1>6 DEF Told, Leave, Idle
  <1>7. ASSUME (\E a \in Addrs : Move(a)) \/ Tick PROVE FALSE
    <2>1. req'[r] # req[r] => /\ req[r] \in Lookups \cup Tolds
                              /\ req'[r] = [req[r] EXCEPT !.age = @ + 1]
      BY <1>1, <1>7, Places DEF Move, Tick
    <2>2. req[r] \in Lookups \cup Tolds => [req[r] EXCEPT !.age = @ + 1].pc = req[r].pc
      BY DEF Lookups, Tolds
    <2> QED
      BY <1>3, <2>1, <2>2
  <1> QED
    BY <1>4, <1>5, <1>6, <1>7 DEF Next

\* For any TTL and timeout, whoever an answer names held the address within the
\* two of them, however lookups overlap and whatever another one stored.
THEOREM IdentitiesFresh == Spec => FreshIdentity
  <1>1. Inv /\ [Next]_vars =>
          [\A r \in Requests : Answered(r) /\ req'[r].id.source \in ByWhois =>
              lastHeld[req'[r].q.addr][req'[r].id.peer] < TTL + Timeout]_vars
    <2> SUFFICES ASSUME Inv, Next, NEW r \in Requests, Answered(r),
                        req'[r].id.source \in ByWhois
                 PROVE  lastHeld[req'[r].q.addr][req'[r].id.peer] < TTL + Timeout
      OBVIOUS
    <2> PICK q \in Admitted, peer \in Answers :
             /\ req'[r].q = q /\ req'[r].id = Identify(q, peer)
             /\ \/ ByHeader(q) \/ ~HasAddr(q)
                \/ q \in Asked /\ cache[q.addr].age < TTL /\ peer = cache[q.addr].peer
                \/ q \in Asked /\ (peer \in Peers => lastHeld[q.addr][peer] <= Timeout)
      BY AnsweredFrom
    <2>1. ~ByHeader(q) /\ HasAddr(q) /\ peer \in Peers /\ req'[r].id.peer = peer
      BY IdentifyIs
    <2>2. q \in Asked /\ q.addr \in Addrs
      BY <2>1, AskedHasAddr
    <2>3. lastHeld[q.addr][peer] \in Nat /\ cache[q.addr].age \in Nat
          /\ TTL \in Nat \ {0} /\ Timeout \in Nat
      BY <2>1, <2>2, TimesAssumption DEF Inv, Boxes, Ages, Older, Expired
    <2>4. cache[q.addr].age < TTL /\ peer = cache[q.addr].peer =>
            lastHeld[q.addr][peer] <= cache[q.addr].age + Timeout
      BY <2>1, <2>2 DEF Inv, Remembered
    <2>5. lastHeld[q.addr][peer] < TTL + Timeout
      BY <2>1, <2>3, <2>4
    <2> QED
      BY <2>1, <2>5
  <1> QED
    BY <1>1, InvHolds, PTL DEF FreshIdentity, Spec

\* A caller whose address is known to the transport goes unverified only for a
\* whois that gave nobody less than a TTL ago.
THEOREM UnverifiedForCause == Spec => UnverifiedHasCause
  <1>1. Inv /\ [Next]_vars =>
          [\A r \in Requests : Answered(r) /\ HasAddr(req'[r].q) /\ ~Verified(req'[r].id) =>
              lastFail'[req'[r].q.addr] < TTL]_vars
    <2> SUFFICES ASSUME Inv, Next, NEW r \in Requests, Answered(r),
                        HasAddr(req'[r].q), ~Verified(req'[r].id)
                 PROVE  lastFail'[req'[r].q.addr] < TTL
      OBVIOUS
    <2> PICK q \in Admitted, peer \in Answers :
             /\ req'[r].q = q /\ req'[r].id = Identify(q, peer)
             /\ \/ ByHeader(q) \/ ~HasAddr(q)
                \/ /\ q \in Asked /\ cache[q.addr].age < TTL /\ peer = cache[q.addr].peer
                   /\ lastFail' = lastFail
                \/ q \in Asked /\ (peer = Nobody => lastFail'[q.addr] = 0)
      BY AnsweredFrom
    <2>1. ~ByHeader(q) /\ HasAddr(q) /\ peer = Nobody
      BY IdentifyIs DEF Verified, Answers
    <2>2. q \in Asked /\ q.addr \in Addrs
      BY <2>1, AskedHasAddr
    <2>3. lastFail[q.addr] \in Nat /\ cache[q.addr].age \in Nat /\ TTL \in Nat \ {0}
      BY <2>2, TimesAssumption DEF Inv, Boxes, Ages, Older, Expired
    <2>4. cache[q.addr].age < TTL /\ peer = cache[q.addr].peer =>
            lastFail[q.addr] <= cache[q.addr].age
      BY <2>1, <2>2 DEF Inv, Remembered
    <2>5. lastFail'[q.addr] < TTL
      BY <2>1, <2>3, <2>4
    <2> QED
      BY <2>5
  <1> QED
    BY <1>1, InvHolds, PTL DEF UnverifiedHasCause, Spec

-----------------------------------------------------------------------------
(* The way an answer is lost.                                              *)

\* Where nothing fails and every address keeps a known owner, whois names someone.
Known ==
    /\ \A a \in Addrs : owner[a] \in Peers /\ lastFail[a] = Older
    /\ \A r \in Requests : req[r].pc = "told" => req[r].peer \in Peers

LEMMA KnownStep ==
    ASSUME Inv, Known, [Next]_vars, MayFail = FALSE, MayCancel = FALSE, MayMove = FALSE
    PROVE  Known'
  <1>1. req = [r \in Requests |-> req[r]] /\ \A r \in Requests : Place(req[r])
    BY DEF Inv, Placed
  <1>2. ASSUME NEW r \in Requests, NEW x, req' = [req EXCEPT ![r] = x],
               UNCHANGED <<owner, lastFail>>, x.pc = "told" => x.peer \in Peers
        PROVE  Known'
    BY <1>1, <1>2 DEF Known
  <1>3. ASSUME NEW r \in Requests, Arrive(r) PROVE Known'
    <2> PICK q \in Admitted :
          \/ \E peer : req' = [req EXCEPT ![r] = Ended(q, peer, FALSE)]
          \/ req' = [req EXCEPT ![r] = [pc |-> "lookup", q |-> q, age |-> 0]]
      BY <1>3, ArriveCases
    <2>1. UNCHANGED <<owner, lastFail>>
      BY <1>3 DEF Arrive
    <2>2. \A peer : Ended(q, peer, FALSE).pc = "done"
      BY DEF Ended
    <2> QED
      BY <1>2, <2>1, <2>2
  <1>4. ASSUME NEW r \in Requests, Told(r) PROVE Known'
    <2>1. req[r] \in Lookups
      BY <1>1, <1>4, Places DEF Told
    <2>2. owner[req[r].q.addr] \in Peers
      BY <2>1, AskedHasAddr DEF Known, Lookups
    <2> QED
      BY <1>2, <1>4, <2>2 DEF Told
  <1>5. ASSUME NEW r \in Requests, Return(r) PROVE Known'
    <2>1. req[r].peer \in Peers /\ req[r].peer # Nobody
      BY <1>5, NamesAssumption DEF Return, Known
    <2>2. Done(req[r].q, req[r].peer).pc = "done"
      BY DEF Done
    <2> QED
      BY <1>2, <1>5, <2>1, <2>2 DEF Return
  <1>6. ASSUME NEW r \in Requests, Leave(r) PROVE Known'
    BY <1>2, <1>6 DEF Leave, Idle
  <1>7. ASSUME Tick PROVE Known'
    <2>1. ASSUME NEW r \in Requests, req'[r].pc = "told" PROVE req'[r].peer \in Peers
      <3>1. \/ req'[r] = req[r]
            \/ req[r] \in Lookups \cup Tolds /\ req'[r] = [req[r] EXCEPT !.age = @ + 1]
        BY <1>1, <1>7, Places DEF Tick
      <3>2. ASSUME req[r] \in Lookups PROVE [req[r] EXCEPT !.age = @ + 1].pc = "lookup"
        BY <3>2 DEF Lookups
      <3>3. ASSUME req[r] \in Tolds
            PROVE  /\ req[r].pc = "told"
                   /\ [req[r] EXCEPT !.age = @ + 1].peer = req[r].peer
        BY <3>3 DEF Tolds
      <3> QED
        BY <2>1, <3>1, <3>2, <3>3 DEF Known
    <2>2. \A a \in Addrs : Min2(lastFail[a] + 1, Older) = Older
      BY TimesAssumption DEF Known, Older, Min2
    <2> QED
      BY <1>7, <2>1, <2>2 DEF Tick, Known
  <1>8. ASSUME UNCHANGED vars PROVE Known'
    BY <1>8 DEF vars, Known
  <1> QED
    BY <1>3, <1>4, <1>5, <1>6, <1>7, <1>8 DEF Next, Fail, Cancel, Expire, Move

\* An identity, once given, stays until its request has been served.
LEMMA DoneStays ==
    ASSUME Inv, [Next]_vars, NEW r \in Requests, req[r].pc = "done", req'[r].pc = "done"
    PROVE  req'[r] = req[r]
  <1>1. req = [s \in Requests |-> req[s]]
    BY DEF Inv, Placed
  <1>2. ASSUME NEW s \in Requests, NEW x, req' = [req EXCEPT ![s] = x], req[s].pc # "done"
        PROVE  req'[r] = req[r]
    BY <1>1, <1>2
  <1>3. ASSUME NEW s \in Requests, Arrive(s) \/ Told(s) \/ Return(s) PROVE req'[r] = req[r]
    BY <1>2, <1>3, ArriveCases DEF Told, Return
  <1>4. ASSUME NEW s \in Requests, Fail(s) \/ Cancel(s) \/ Expire(s) PROVE req'[r] = req[r]
    BY <1>2, <1>4 DEF Fail, Cancel, Expire, Abort
  <1>5. ASSUME NEW s \in Requests, Leave(s) PROVE req'[r] = req[r]
    BY <1>1, <1>5 DEF Leave, Idle
  <1>6. (\E a \in Addrs : Move(a)) \/ Tick \/ UNCHANGED vars => req'[r] = req[r]
    BY <1>1 DEF Move, Tick, vars
  <1> QED
    BY <1>3, <1>4, <1>5, <1>6 DEF Next

\* A direct caller that stays is its own machine wherever tailscale knows every
\* address, answers in time, and no other caller leaves during a lookup: the last
\* is all it takes to break the comment's promise, as the run of OwnMachine shows.
THEOREM OwnMachineUnlessAbandoned ==
    ASSUME MayFail = FALSE, MayCancel = FALSE, MayMove = FALSE
    PROVE  Spec => []OwnMachine
  <1> DEFINE Sure == Inv /\ Known /\ OwnMachine
  <1>1. Init => Sure
    <2>1. Init => Known /\ OwnMachine
      BY DEF Init, Known, OwnMachine, Idle
    <2> QED
      BY <2>1, InitInv
  <1>2. Sure /\ [Next]_vars => Sure'
    <2> SUFFICES ASSUME Sure, [Next]_vars PROVE Sure'
      OBVIOUS
    <2>1. Inv' /\ Known'
      BY NextInv, KnownStep
    <2>2. ASSUME NEW r \in Requests, req'[r].pc = "done", req'[r].q.via = "direct",
                 ~req'[r].cancelled
          PROVE  req'[r].id.source = "tailscale-whois-direct"
      <3>1. CASE req[r].pc = "done"
        BY <2>2, <3>1, DoneStays DEF OwnMachine
      <3>2. CASE req[r].pc # "done"
        <4>1. Answered(r) /\ Next
          BY <2>2, <3>2 DEF Answered, vars
        <4> PICK q \in Admitted, peer \in Answers :
                 /\ req'[r].q = q /\ req'[r].id = Identify(q, peer)
                 /\ \/ ByHeader(q) \/ ~HasAddr(q)
                    \/ /\ q \in Asked /\ cache[q.addr].age < TTL /\ peer = cache[q.addr].peer
                       /\ lastFail' = lastFail
                    \/ q \in Asked /\ (peer = Nobody => lastFail'[q.addr] = 0)
          BY <2>2, <4>1, AnsweredFrom
        <4>2. HasAddr(q) /\ ~ByHeader(q) /\ q \in Asked /\ q.addr \in Addrs
          BY <2>2, AskedHasAddr DEF HasAddr, ByHeader, Admitted, Asked
        <4>3. peer # Nobody
          <5>1. lastFail'[q.addr] = Older /\ lastFail[q.addr] = Older
            BY <2>1, <4>2 DEF Known
          <5>2. Older \in Nat /\ Older >= TTL /\ Older # 0
            BY TimesAssumption DEF Older
          <5>3. cache[q.addr].age < TTL /\ cache[q.addr].peer = Nobody =>
                  lastFail[q.addr] <= cache[q.addr].age /\ cache[q.addr].age \in Nat
            BY <4>2, TimesAssumption DEF Inv, Remembered, Boxes, Expired
          <5> QED
            BY <4>2, <5>1, <5>2, <5>3, TimesAssumption
        <4>4. req'[r].id.source \in ByWhois
          BY <4>2, <4>3, IdentifyIs DEF Answers
        <4> QED
          BY <2>2, <4>4, IdentifyIs DEF ByWhois
      <3> QED
        BY <3>1, <3>2
    <2> QED
      BY <2>1, <2>2 DEF OwnMachine
  <1> QED
    BY <1>1, <1>2, PTL DEF Spec
=============================================================================
