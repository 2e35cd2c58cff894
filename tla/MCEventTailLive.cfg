\* One repo, whose database may be rebuilt: every event is heard in the end, the
\* state file catches up, the feed is never silent for good.
SPECIFICATION FairSpec
CONSTANTS
    a = a
    b = b
    Repos = {a}
    MaxId = 2
    BatchLimit = 1
    MaxCrash = 1
    MaxRebuild = 1
    SaveMayFail = FALSE
    MayCorrupt = FALSE
    MayMissStamp = TRUE
    Assigned <- AssignedIds
    Created = {}
    Texts <- ShortTexts
    AgentTopicPrefix = 6
    NoCursor = NoCursor
PROPERTIES
    EventuallyHeard
    SavedWhenQuiet
    NeverSilent
