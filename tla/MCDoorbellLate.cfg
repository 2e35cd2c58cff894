\* A client that connects before the watcher of its repo has its baseline.
SPECIFICATION Spec
CONSTANTS
    r1 = r1
    r2 = r2
    c1 = c1
    c2 = c2
    c3 = c3
    Repos = {r1}
    Clients = {c1, c2}
    Queries <- QueriesOf
    Slow = {}
    MaxListeners = 2
    Buffer = 1
    MaxWrites <- WritesOf
    LateWatchers = TRUE
    SameStamp = FALSE
INVARIANT
    Current
