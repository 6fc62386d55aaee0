\* A crash while a child is failed whose parent, of an older binary, conflicts.
SPECIFICATION Spec
CONSTANTS
    NTasks = 2
    Tasks <- MCTasks
    SessionIds <- MCSessionIds
    NoSession = NoSession
    RoundBound = 0
    Deps <- Chain
    Gated = {}
    Graded = {}
    MaxParallel = 1
    MaxVerifyRounds = 0
    MaxLLMErrs = 2
    LLMErrBound = 3
    Copies = 1
    MaxStops = 1
    MaxLate = 0
    Interrupts = FALSE
    LegacyDone = {1}
INVARIANT ParentsMergedFirst
CHECK_DEADLOCK FALSE
