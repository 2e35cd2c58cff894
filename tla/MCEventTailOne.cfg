\* One repo, no disk faults: batches, deletes, publish failures, restarts.
SPECIFICATION Spec
CONSTANTS
    a = a
    b = b
    Repos = {a}
    MaxId = 4
    BatchLimit = 2
    MaxCrash = 2
    MaxRebuild = 0
    SaveMayFail = FALSE
    MayCorrupt = FALSE
    MayMissStamp = FALSE
    Assigned <- AssignedIds
    Created <- CreatedIds
    Texts <- ThirdMayBeWide
    AgentTopicPrefix = 6
    NoCursor = NoCursor
INVARIANTS
    TypeOK
    NoSleepOverRows
    InOrder
    NoGapForSubscriber
PROPERTIES
    NoReplayOfSaved
