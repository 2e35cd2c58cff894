----------------------------- MODULE Identity -----------------------------
(***************************************************************************)
(* Who a request is: identify() of src/internal/server/server.go over the  *)
(* whois cache of src/internal/tsidentity/tsidentity.go.                   *)
(*                                                                         *)
(* Requests run concurrently.  WhoIs looks in the cache under the lock,    *)
(* forks `tailscale whois` without it, and stores whatever came of it, so  *)
(* lookups of one address overlap and may end out of order, while the      *)
(* tailnet moves addresses between machines.  Time is kept as ages, which  *)
(* stop where nothing tells larger ones apart.                             *)
(***************************************************************************)
EXTENDS Naturals

CONSTANTS
    Requests,   \* concurrent requests
    Addrs,      \* tailnet addresses
    NoAddr,     \* a proxy's X-Forwarded-For that names no address
    Peers,      \* machines, and users, whose Actor() is not empty
    Nobody,     \* a failed whois, or a peer with an empty Actor()
    TTL,        \* Resolver.TTL
    Timeout,    \* Resolver.Timeout
    MayFail,    \* whether `tailscale whois` may fail or hang
    MayCancel,  \* whether callers may go away during their lookup
    MayMove     \* whether addresses change hands

ASSUME NamesAssumption == NoAddr \notin Addrs /\ Nobody \notin Peers
ASSUME TimesAssumption == TTL \in Nat \ {0} /\ Timeout \in Nat \ {0}
ASSUME SwitchesAssumption == {MayFail, MayCancel, MayMove} \subseteq BOOLEAN

VARIABLES
    owner,     \* who each address belongs to
    cache,     \* r.cache: the peer, or Nobody for an error, and its age
    req,       \* the requests: input, where each is, and its Identity
    lastHeld,  \* history: how long ago each peer last held each address
    lastFail,  \* history: how long ago whois of each address last gave nobody
    named      \* history: whom whois has ever named for each address

vars == <<owner, cache, req, lastHeld, lastFail, named>>

Older   == TTL + Timeout   \* the age that stands for all older ones
Expired == TTL             \* the age of a cache entry that is absent or too old
Min2(a, b) == IF a < b THEN a ELSE b

\* What a request carries: the connection it came in on, whether it has a
\* Tailscale-User-Login, the address the connection or the header gives, and
\* whether its body names an actor.
Inputs == [via : {"proxy", "direct", "unix"}, header : BOOLEAN,
           addr : Addrs \cup {NoAddr}, asserts : BOOLEAN]
Idle   == [pc |-> "idle"]

Init ==
    /\ owner \in [Addrs -> Peers]
    /\ cache = [a \in Addrs |-> [peer |-> Nobody, age |-> Expired]]
    /\ req = [r \in Requests |-> Idle]
    /\ lastHeld = [a \in Addrs |-> [p \in Peers |-> IF owner[a] = p THEN 0 ELSE Older]]
    /\ lastFail = [a \in Addrs |-> Older]
    /\ named = [a \in Addrs |-> {}]

-----------------------------------------------------------------------------
\* Bug: a login header is believed from whoever reached the TCP listener.
ByHeaderMutant(q) == q.via # "unix" /\ q.header

\* The proxy names a user.
ByHeader(q) == q.via = "proxy" /\ q.header

\* An address the transport vouches for: of the peer, or the proxy's view of it.
HasAddr(q) == q.via \in {"proxy", "direct"} /\ q.addr # NoAddr

\* Bug: a peer that has neither a login nor a name is a verified one.
IdentifyMutant(q, peer) ==
    IF ByHeader(q) THEN [source |-> "tailscale-user-header", peer |-> Nobody]
    ELSE IF HasAddr(q)
           THEN [source |-> "tailscale-whois", peer |-> peer]
    ELSE [source |-> IF q.asserts THEN "request" ELSE "none", peer |-> Nobody]

\* The Identity, given what whois said of the address.
Identify(q, peer) ==
    IF ByHeader(q) THEN [source |-> "tailscale-user-header", peer |-> Nobody]
    ELSE IF HasAddr(q) /\ peer # Nobody
           THEN [source |-> IF q.via = "proxy" THEN "tailscale-whois"
                                               ELSE "tailscale-whois-direct",
                 peer |-> peer]
    ELSE [source |-> IF q.asserts THEN "request" ELSE "none", peer |-> Nobody]

ByWhois  == {"tailscale-whois", "tailscale-whois-direct"}
Verified(id) == id.source \in ByWhois \cup {"tailscale-user-header"}

Done(q, peer) == [pc |-> "done", q |-> q, id |-> Identify(q, peer), cancelled |-> FALSE]

\* Bug: a hit renews the entry.
HitMutant(r, q) ==
    /\ cache[q.addr].age < TTL
    /\ req' = [req EXCEPT ![r] = Done(q, cache[q.addr].peer)]
    /\ cache' = [cache EXCEPT ![q.addr].age = 0]

\* The first critical section of WhoIs: an entry younger than the TTL answers,
\* and a cached error answers with the error.
Hit(r, q) ==
    /\ cache[q.addr].age < TTL
    /\ req' = [req EXCEPT ![r] = Done(q, cache[q.addr].peer)]
    /\ UNCHANGED cache

Miss(r, q) ==
    /\ ~(cache[q.addr].age < TTL)
    /\ req' = [req EXCEPT ![r] = [pc |-> "lookup", q |-> q, age |-> 0]]
    /\ UNCHANGED cache

\* A request arrives and is identified, up to the fork of tailscale.
Arrive(r) ==
    /\ req[r].pc = "idle"
    /\ \E q \in Inputs :
         /\ q.via = "direct" => q.addr # NoAddr
         /\ q.via = "unix" => q.addr = NoAddr
         /\ IF ByHeader(q) \/ ~HasAddr(q)
              THEN req' = [req EXCEPT ![r] = Done(q, Nobody)] /\ UNCHANGED cache
              ELSE Hit(r, q) \/ Miss(r, q)
    /\ UNCHANGED <<owner, lastHeld, lastFail, named>>

\* tailscaled answers the forked process.
Told(r) ==
    /\ req[r].pc = "lookup"
    /\ req' = [req EXCEPT ![r] =
                 [pc |-> "told", q |-> @.q, age |-> @.age, peer |-> owner[@.q.addr]]]
    /\ named' = [named EXCEPT ![req[r].q.addr] = @ \cup ({owner[req[r].q.addr]} \ {Nobody})]
    /\ UNCHANGED <<owner, cache, lastHeld, lastFail>>

\* The second critical section of WhoIs: the outcome, an error too, is stored
\* as of now, over whatever another lookup stored meanwhile.
Store(a, peer) == cache' = [cache EXCEPT ![a] = [peer |-> peer, age |-> 0]]

\* The process exits in time.
Return(r) ==
    /\ req[r].pc = "told"
    /\ LET q == req[r].q  peer == req[r].peer
       IN /\ Store(q.addr, peer)
          /\ req' = [req EXCEPT ![r] = Done(q, peer)]
          /\ lastFail' = IF peer = Nobody THEN [lastFail EXCEPT ![q.addr] = 0] ELSE lastFail
    /\ UNCHANGED <<owner, lastHeld, named>>

\* The lookup ends without an answer, and that is stored too.
Abort(r, cancelled) ==
    /\ req[r].pc \in {"lookup", "told"}
    /\ Store(req[r].q.addr, Nobody)
    /\ req' = [req EXCEPT ![r] = [Done(@.q, Nobody) EXCEPT !.cancelled = cancelled]]
    /\ lastFail' = [lastFail EXCEPT ![req[r].q.addr] = 0]
    /\ UNCHANGED <<owner, lastHeld, named>>

\* tailscale fails; or the caller leaves, and its context kills the process.
Fail(r)   == MayFail /\ Abort(r, FALSE)
Cancel(r) == MayCancel /\ Abort(r, TRUE)

\* The deadline of one whois call passes.
Expire(r) ==
    /\ MayFail
    /\ req[r].pc \in {"lookup", "told"} /\ req[r].age = Timeout
    /\ Abort(r, FALSE)

\* The request has been served.
Leave(r) ==
    /\ req[r].pc = "done"
    /\ req' = [req EXCEPT ![r] = Idle]
    /\ UNCHANGED <<owner, cache, lastHeld, lastFail, named>>

\* The tailnet gives an address to another machine, or takes it back.
Move(a) ==
    /\ MayMove
    /\ \E p \in Peers \cup {Nobody} :
         /\ owner' = [owner EXCEPT ![a] = p]
         /\ lastHeld' = [lastHeld EXCEPT ![a] = [x \in Peers |-> IF x = p THEN 0 ELSE @[x]]]
    /\ UNCHANGED <<cache, req, lastFail, named>>

\* Time passes, but not past a deadline that has not been acted on.
Tick ==
    /\ \A r \in Requests : req[r].pc \in {"lookup", "told"} => req[r].age < Timeout
    /\ cache' = [a \in Addrs |-> [cache[a] EXCEPT !.age = Min2(@ + 1, Expired)]]
    /\ req' = [r \in Requests |-> IF req[r].pc \in {"lookup", "told"}
                                    THEN [req[r] EXCEPT !.age = @ + 1] ELSE req[r]]
    /\ lastHeld' = [a \in Addrs |-> [p \in Peers |->
                      IF owner[a] = p THEN 0 ELSE Min2(lastHeld[a][p] + 1, Older)]]
    /\ lastFail' = [a \in Addrs |-> Min2(lastFail[a] + 1, Older)]
    /\ UNCHANGED <<owner, named>>

Next ==
    \/ \E r \in Requests : Arrive(r) \/ Told(r) \/ Return(r) \/ Leave(r)
                        \/ Fail(r) \/ Cancel(r) \/ Expire(r)
    \/ \E a \in Addrs : Move(a)
    \/ Tick

Spec == Init /\ [][Next]_vars

-----------------------------------------------------------------------------
Answered(r) == req[r].pc # "done" /\ req'[r].pc = "done"
Ages == 0..Older

TypeOK ==
    /\ owner \in [Addrs -> Peers \cup {Nobody}]
    /\ cache \in [Addrs -> [peer : Peers \cup {Nobody}, age : 0..Expired]]
    /\ lastHeld \in [Addrs -> [Peers -> Ages]] /\ lastFail \in [Addrs -> Ages]
    /\ named \in [Addrs -> SUBSET Peers]
    /\ \A r \in Requests :
         /\ req[r].pc \in {"idle", "lookup", "told", "done"}
         /\ req[r].pc \in {"lookup", "told"} => req[r].age \in 0..Timeout
         /\ req[r].pc = "told" => req[r].peer \in Peers \cup {Nobody}
         /\ req[r].pc = "done" =>
              (req[r].id.source \in ByWhois <=> req[r].id.peer \in Peers)

\* "Decided on this and nothing else": an identity is verified only by what the
\* connection vouches for, and the peer it names is one that whois has named for the
\* address of this very request, whatever the headers and the cache held.
VouchedFor ==
    \A r \in Requests : req[r].pc = "done" =>
        LET q == req[r].q  id == req[r].id
        IN /\ q.via = "unix" => ~Verified(id)
           /\ id.source = "tailscale-user-header" => q.via = "proxy"
           /\ id.source = "tailscale-whois-direct" => q.via = "direct"
           /\ id.source = "tailscale-whois" => q.via = "proxy" /\ ~q.header
           /\ id.source \in ByWhois => q.addr # NoAddr /\ id.peer \in named[q.addr]

\* "TTL bounds how long a resolved peer is reused": whoever the audit trail names
\* held the request's address within the TTL and one whois call of the answer,
\* however lookups of the address overlapped and overwrote each other.
FreshIdentity ==
    [][\A r \in Requests : Answered(r) /\ req'[r].id.source \in ByWhois =>
          lastHeld[req'[r].q.addr][req'[r].id.peer] < TTL + Timeout]_vars

\* A remembered failure fades: a caller with an address loses its verified
\* identity only to a failure of the last TTL.
UnverifiedHasCause ==
    [][\A r \in Requests :
          Answered(r) /\ HasAddr(req'[r].q) /\ ~Verified(req'[r].id) =>
             lastFail'[req'[r].q.addr] < TTL]_vars

\* "Any other TCP peer [...] lands in the audit trail as its own machine": where
\* tailscale knows every address and never fails, a direct caller that stays is
\* verified by its own address.
OwnMachine ==
    \A r \in Requests :
        req[r].pc = "done" /\ req[r].q.via = "direct" /\ ~req[r].cancelled =>
            req[r].id.source = "tailscale-whois-direct"
=============================================================================
