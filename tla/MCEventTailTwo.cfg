\* Two repos that save each other's cursors, with disk faults: the tailer implements Feed.
SPECIFICATION Spec
CONSTANTS
    a = a
    b = b
    Repos = {a, b}
    MaxId = 2
    BatchLimit = 2
    MaxCrash = 1
    MaxRebuild = 0
    SaveMayFail = TRUE
    MayCorrupt = TRUE
    MayMissStamp = FALSE
    Assigned <- AssignedIds
    Created = {}
    Texts <- ShortTexts
    AgentTopicPrefix = 6
    NoCursor = NoCursor
CONSTRAINT TwoRows
SYMMETRY RepoSymmetry
INVARIANTS
    NoLoss
    NoLostAssignment
    IInv
PROPERTY
    ImplementsFeed
