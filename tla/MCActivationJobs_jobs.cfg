SPECIFICATION FairSpec
CONSTANTS
    a = a
    b = b
    p = p
    q = q
    Library <- MCLibrary
    Profiles = {p, q}
    AnyProfile = AnyProfile
    Whole = Whole
    Requests <- MCRequests
    SweepModes = {}
    Others = {"skip"}
    SwitchTo = {q}
    MaxJobs = 2
    MaxSweeps = 0
    MaxClicks = 1
    MaxScopes = 1
CHECK_DEADLOCK FALSE
INVARIANTS
    CutsAreAsked
PROPERTIES
    DoneIsTrue
    OneAtATime
    JobsEnd
