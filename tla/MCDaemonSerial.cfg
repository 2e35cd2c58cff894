\* Starts and stops one at a time, as the unit runs them; crashes at any point of a life.
SPECIFICATION Spec
CONSTANTS
    d1 = d1
    d2 = d2
    d3 = d3
    NoSocket = NoSocket
    Procs = {d1, d2, d3}
    DialFails = FALSE
    Stuck = {d1}
    Overlaps = {}
INVARIANTS
    TypeOK
    Reachable
PROPERTIES
    RefusedByLiveOnly
    StopsInTheEnd
