\* Two gated tasks in a chain, the first perhaps left done by an older binary;
\* one slot, a crash or interrupt at any step, a request AO acts on late.
SPECIFICATION Spec
CONSTANTS
    NTasks = 2
    Tasks <- MCTasks
    SessionIds <- MCSessionIds
    NoSession = NoSession
    RoundBound = 0
    Deps <- Chain
    Gated = {1, 2}
    Graded = {}
    MaxParallel = 1
    MaxVerifyRounds = 0
    MaxLLMErrs = 2
    LLMErrBound = 3
    Copies = 1
    MaxStops = 1
    MaxLate = 1
    Interrupts = TRUE
    LegacyDone = {1}
INVARIANTS
    GateHolds
    ChildrenFollowMerges
PROPERTIES
    ImplementsExecution
CHECK_DEADLOCK FALSE
