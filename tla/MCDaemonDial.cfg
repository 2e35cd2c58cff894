\* A daemon that lives does not answer the dial of the next start.
SPECIFICATION Spec
CONSTANTS
    d1 = d1
    d2 = d2
    d3 = d3
    NoSocket = NoSocket
    Procs = {d1, d2, d3}
    DialFails = TRUE
    Stuck = {d1}
    Overlaps = {}
INVARIANT
    Reachable
