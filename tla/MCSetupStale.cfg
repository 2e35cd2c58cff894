\* One run on a box whose daemon is running.
SPECIFICATION Spec
CONSTANTS
    s1 = s1
    s2 = s2
    s3 = s3
    Runs = {s1}
    NoLock = NoLock
    NoPid = NoPid
    Stopped = Stopped
    MayKill = FALSE
INVARIANT
    ChangesTakeEffect
