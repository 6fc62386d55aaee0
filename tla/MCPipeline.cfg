\* A gated, graded task through a retry round; a crash or Ctrl-C at any step, twice.
SPECIFICATION Spec
CONSTANTS
    NTasks = 1
    Tasks <- MCTasks
    SessionIds <- MCSessionIds
    NoSession = NoSession
    RoundBound = 1
    Deps <- Independent
    Gated = {1}
    Graded = {1}
    MaxParallel = 1
    MaxVerifyRounds = 1
    MaxLLMErrs = 2
    LLMErrBound = 3
    Copies = 2
    MaxStops = 2
    MaxLate = 0
    Interrupts = TRUE
    LegacyDone = {}
INVARIANTS
    TypeOK
    RejectedNeverRuns
    RetryBudget
    OneSessionPerRound
    SessionOfCurrentRound
    DoneIsVerifiedAndMerged
PROPERTIES
    IntentBeforeSession
    ImplementsExecution
CHECK_DEADLOCK FALSE
