\* Three processes, two of which may be killed.  Most waits fit in StaleAfter,
\* the longest tick does not: then the lock changes hands.
SPECIFICATION FairSpec
CONSTANTS
    Procs = {p1, p2, p3}
    Killable = {p1, p2}
    Nobody = Nobody
    p1 = p1
    p2 = p2
    p3 = p3
    StaleAfter = 3
    MaxSetup = 3
    MaxTick = 4
    PollInterval = 1
INVARIANTS
    RunLockTypeOK
    OneRunner
PROPERTIES
    DeadHolderReplaced
    DispossessedStops
