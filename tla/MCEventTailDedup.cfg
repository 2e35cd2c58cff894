\* The documented dedup key against a rebuilt database.
SPECIFICATION Spec
CONSTANTS
    a = a
    b = b
    Repos = {a}
    MaxId = 2
    BatchLimit = 1
    MaxCrash = 0
    MaxRebuild = 1
    SaveMayFail = FALSE
    MayCorrupt = FALSE
    MayMissStamp = TRUE
    Assigned <- AssignedIds
    Created <- CreatedIds
    Texts <- ShortTexts
    AgentTopicPrefix = 6
    NoCursor = NoCursor
INVARIANT
    DedupKeyUnique
