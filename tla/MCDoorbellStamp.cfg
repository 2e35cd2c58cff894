\* Two repos, three clients for two places, of which two may stop reading.
SPECIFICATION FairSpec
CONSTANTS
    r1 = r1
    r2 = r2
    c1 = c1
    c2 = c2
    c3 = c3
    Repos = {r1, r2}
    Clients = {c1, c2, c3}
    Queries <- QueriesOf
    Slow = {c1, c3}
    MaxListeners = 2
    Buffer = 1
    MaxWrites <- WritesOf
    LateWatchers = FALSE
    SameStamp = TRUE
INVARIANTS
    Current
