\* Approved while the tick is between its two reads of the state.
SPECIFICATION Spec
CONSTANTS
    NTasks = 1
    Tasks <- MCTasks
    SessionIds <- MCSessionIds
    NoSession = NoSession
    RoundBound = 1
    Deps <- Independent
    Gated = {1}
    Graded = {}
    MaxParallel = 1
    MaxVerifyRounds = 1
    MaxLLMErrs = 2
    LLMErrBound = 3
    Copies = 1
    MaxStops = 0
    MaxLate = 0
    Interrupts = FALSE
    LegacyDone = {}
INVARIANT ApprovalIsNotAskedAgain
CHECK_DEADLOCK FALSE
