\* Any two commands at once, on the database of any release.
SPECIFICATION CommandsSpec
CONSTANTS
    p1 = p1
    p2 = p2
    Procs = {p1, p2}
    Nothing = Nothing
    Garbage = Garbage
    Blank = Blank
    Unset = Unset
    Allowed = {"codex"}
    Cap = 24
    Footer = 4
    Header = 4
    Fallback = 2
    MinBudget = 4
    MaxPrompt = 14
    Files <- MCFiles
    Envs <- MCEnvs
    Machines <- MCMachines
    Flags <- MCFlags
    Drafts <- MCDrafts
    Prompts <- MCPrompts
    Feedbacks <- MCFeedbacks
INVARIANTS
    CommandsTypeOK
    OpenIsCurrent
    PlanKept
    AcceptedIsUsable
    BypassNeedsOptIn
    DispatchedAsAsked
    UserLinesKept
    PromptsSound
PROPERTIES
    OpenFailsInCompany
    ProjectKept
SYMMETRY
    Interchangeable
CHECK_DEADLOCK FALSE
