\* A row of one repo whose text takes few runes and many bytes.
SPECIFICATION Spec
CONSTANTS
    a = a
    b = b
    Repos = {a, b}
    MaxId = 2
    BatchLimit = 2
    MaxCrash = 1
    MaxRebuild = 0
    SaveMayFail = FALSE
    MayCorrupt = FALSE
    MayMissStamp = FALSE
    Assigned <- AssignedIds
    Created = {}
    Texts <- SecondIsWide
    AgentTopicPrefix = 6
    NoCursor = NoCursor
PROPERTY
    NeverTakenDown
