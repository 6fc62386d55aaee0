\* Ctrl-C while a task is being polled.
SPECIFICATION Spec
CONSTANTS
    NTasks = 1
    Tasks <- MCTasks
    SessionIds <- MCSessionIds
    NoSession = NoSession
    RoundBound = 1
    Deps <- Independent
    Gated = {}
    Graded = {}
    MaxParallel = 1
    MaxVerifyRounds = 1
    MaxLLMErrs = 2
    LLMErrBound = 3
    Copies = 1
    MaxStops = 1
    MaxLate = 0
    Interrupts = TRUE
    LegacyDone = {}
PROPERTY InterruptLosesNoSession
CHECK_DEADLOCK FALSE
