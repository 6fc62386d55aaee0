\* Two tasks, one of them gated, contend for one slot; a crash at any step.
SPECIFICATION FairSpec
CONSTANTS
    NTasks = 2
    Tasks <- MCTasks
    SessionIds <- MCSessionIds
    NoSession = NoSession
    RoundBound = 0
    Deps <- Independent
    Gated = {2}
    Graded = {}
    MaxParallel = 1
    MaxVerifyRounds = 0
    MaxLLMErrs = 2
    LLMErrBound = 3
    Copies = 1
    MaxStops = 1
    MaxLate = 0
    Interrupts = FALSE
    LegacyDone = {}
INVARIANTS
    ParallelBound
PROPERTIES
    PlanEnds
CHECK_DEADLOCK FALSE
