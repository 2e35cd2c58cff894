\* Three runs, none of which is killed.
SPECIFICATION Spec
CONSTANTS
    s1 = s1
    s2 = s2
    s3 = s3
    Runs = {s1, s2, s3}
    NoLock = NoLock
    NoPid = NoPid
    Stopped = Stopped
    MayKill = FALSE
INVARIANT
    OneAtATime
SYMMETRY Symmetric
