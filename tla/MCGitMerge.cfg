\* Two plans on one repository, workers and the user; three crashes or Ctrl-C.
SPECIFICATION Spec
CONSTANTS
    p1 = p1
    p2 = p2
    b1 = b1
    b2 = b2
    Procs = {p1, p2}
    Branches = {b1, b2}
    Owner <- MCOwner
    Nobody = Nobody
    Foreign = Foreign
    NoMerge = NoMerge
    MaxTip = 2
    MaxStops = 3
    Failing = TRUE
    Meddling = FALSE
INVARIANTS
    GitTypeOK
    SuccessIsMerged
    WorktreeIsOwn
    NoMergeLeftBehind
PROPERTIES
    UserMergeKept
