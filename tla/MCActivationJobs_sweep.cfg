SPECIFICATION FairSpec
CONSTANTS
    a = a
    b = b
    p = p
    q = q
    Library <- MCLibrary
    Profiles = {p}
    AnyProfile = AnyProfile
    Whole = Whole
    Requests <- MCSweepRequests
    SweepModes = {"enable", "disable"}
    Others = {"dashboard"}
    SwitchTo = {}
    MaxJobs = 1
    MaxSweeps = 1
    MaxClicks = 1
    MaxScopes = 2
CHECK_DEADLOCK FALSE
PROPERTIES
    StopIsNotLowered
    CancelReturns
