\* Two runs, either of which may be killed.
SPECIFICATION Spec
CONSTANTS
    s1 = s1
    s2 = s2
    s3 = s3
    Runs = {s1, s2}
    NoLock = NoLock
    NoPid = NoPid
    Stopped = Stopped
    MayKill = TRUE
INVARIANTS
    TypeOK
    OneAtATime
    InstalledRuns
    UpgradeTakesEffect
PROPERTIES
    RefusedForCause
