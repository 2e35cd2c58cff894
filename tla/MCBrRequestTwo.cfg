\* Two requests, of any kind, for one repo and its lock.
SPECIFICATION FairSpec
CONSTANTS
    q1 = q1
    q2 = q2
    q3 = q3
    Requests = {q1, q2}
    NoRequest = NoRequest
    NoExit = NoExit
    NoValue = NoValue
    Plain <- PlainTexts
    Dashed <- DashedTexts
    Allow <- Served
    InjectJSON = TRUE
    WriteCommands <- Writers
    ParentEnv <- Env
    Asks <- AllAsks
    LeavesChildren = FALSE
INVARIANTS
    TypeOK
    ExitIsBrsOwn
    RunsWhatItMay
    NothingRunsOn
PROPERTY
    EveryRequestAnswered
