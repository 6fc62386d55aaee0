\* A crash in a temporary worktree, and a reboot that empties the temporary directory.
SPECIFICATION Spec
CONSTANTS
    p1 = p1
    p2 = p2
    b1 = b1
    b2 = b2
    Procs = {p1, p2}
    Branches = {b1, b2}
    Owner <- MCOwner
    Nobody = Nobody
    Foreign = Foreign
    NoMerge = NoMerge
    MaxTip = 2
    MaxStops = 1
    Failing = FALSE
    Meddling = FALSE
PROPERTIES
    LeftoversAreRecovered
