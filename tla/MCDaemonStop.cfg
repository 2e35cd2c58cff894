\* A daemon starts while another is still draining its streams.
SPECIFICATION Spec
CONSTANTS
    d1 = d1
    d2 = d2
    d3 = d3
    NoSocket = NoSocket
    Procs = {d1, d2, d3}
    DialFails = FALSE
    Stuck = {d1}
    Overlaps = {"stop"}
INVARIANT
    Reachable
