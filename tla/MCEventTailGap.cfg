\* The feed across restarts when the state file could not be written.
SPECIFICATION Spec
CONSTANTS
    a = a
    b = b
    Repos = {a}
    MaxId = 2
    BatchLimit = 1
    MaxCrash = 1
    MaxRebuild = 0
    SaveMayFail = TRUE
    MayCorrupt = FALSE
    MayMissStamp = TRUE
    Assigned <- AssignedIds
    Created <- CreatedIds
    Texts <- ShortTexts
    AgentTopicPrefix = 6
    NoCursor = NoCursor
INVARIANT
    NoGapForSubscriber
