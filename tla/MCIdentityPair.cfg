\* Overlapping lookups of two addresses that stay where they are, and failures.
SPECIFICATION Spec
CONSTANTS
    q1 = q1
    q2 = q2
    a1 = a1
    a2 = a2
    p1 = p1
    p2 = p2
    NoAddr = NoAddr
    Nobody = Nobody
    Addrs = {a1, a2}
    Peers = {p1, p2}
    Requests = {q1, q2}
    TTL = 1
    Timeout = 1
    MayFail = TRUE
    MayCancel = FALSE
    MayMove = FALSE
INVARIANT
    VouchedFor
SYMMETRY Symmetric
