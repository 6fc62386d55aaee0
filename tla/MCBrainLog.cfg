\* Every table of up to LogBound rows of two tasks and their plan.
SPECIFICATION LogSpec
CONSTANTS
    Tasks = {1, 2}
    SessionIds = {s1, s2}
    NoSession = NoSession
    s1 = s1
    s2 = s2
    RoundBound = 3
    LogBound = 7
INVARIANTS
    StoreTypeOK
    CacheMatchesReplay
    SessionMatchesStatus
    ReplayIsDerived
    OneDispatchPerRound
    GateRowsAlternate
PROPERTIES
    TerminalTaskIsFinal
    TerminalPlanIsFinal
CHECK_DEADLOCK FALSE
