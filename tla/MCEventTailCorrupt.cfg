\* The feed across a restart that finds the state file corrupt.
SPECIFICATION Spec
CONSTANTS
    a = a
    b = b
    Repos = {a}
    MaxId = 2
    BatchLimit = 1
    MaxCrash = 1
    MaxRebuild = 0
    SaveMayFail = FALSE
    MayCorrupt = TRUE
    MayMissStamp = TRUE
    Assigned <- AssignedIds
    Created <- CreatedIds
    Texts <- ShortTexts
    AgentTopicPrefix = 6
    NoCursor = NoCursor
INVARIANT
    NoGapForSubscriber
