\* A br that is killed by someone else than the daemon.
SPECIFICATION Spec
CONSTANTS
    q1 = q1
    q2 = q2
    q3 = q3
    Requests = {q1}
    NoRequest = NoRequest
    NoExit = NoExit
    NoValue = NoValue
    Plain <- PlainTexts
    Dashed <- DashedTexts
    Allow <- Served
    InjectJSON = TRUE
    WriteCommands <- Writers
    ParentEnv <- Env
    Asks <- JustWrite
    LeavesChildren = FALSE
INVARIANT
    ExitIsTyped
