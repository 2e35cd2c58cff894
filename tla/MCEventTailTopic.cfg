\* An assignee whose dispatch topic is longer than the broker takes.
SPECIFICATION FairSpec
CONSTANTS
    a = a
    b = b
    Repos = {a}
    MaxId = 3
    BatchLimit = 1
    MaxCrash = 0
    MaxRebuild = 0
    SaveMayFail = FALSE
    MayCorrupt = FALSE
    MayMissStamp = FALSE
    Assigned <- AssignedIds
    Created = {}
    Texts <- SecondIsNamed
    AgentTopicPrefix = 6
    NoCursor = NoCursor
PROPERTY
    EventuallyHeard
