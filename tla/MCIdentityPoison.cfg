\* A caller leaves during its lookup; tailscale never fails.
SPECIFICATION Spec
CONSTANTS
    q1 = q1
    q2 = q2
    a1 = a1
    a2 = a2
    p1 = p1
    p2 = p2
    NoAddr = NoAddr
    Nobody = Nobody
    Addrs = {a1}
    Peers = {p1, p2}
    Requests = {q1, q2}
    TTL = 2
    Timeout = 1
    MayFail = FALSE
    MayCancel = TRUE
    MayMove = FALSE
INVARIANT
    OwnMachine
