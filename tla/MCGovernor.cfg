SPECIFICATION FairSpec
CONSTANTS
    i = i
    n = n
    h = h
    a = a
    NoThread = NoThread
    NoOp = NoOp
    Ops = {i, n, h, a}
    KindOf <- MCKindOf
    ThreadOf <- MCThreadOf
    Inside <- MCInside
    Chosen = 2
    PauseMax = 1
    ClockRuns = FALSE
    MaxTime = 1
    MaxClicks = 1
    MaxGames = 1
CHECK_DEADLOCK FALSE
INVARIANTS
    TypeOK
    SleepersAreHeld
PROPERTIES
    SlotsHold
    OperationsEnd
    CancelledEnd
