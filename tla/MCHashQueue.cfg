SPECIFICATION FairSpec
CONSTANTS
    m1 = m1
    m2 = m2
    f1 = f1
    window = window
    t1 = t1
    t2 = t2
    worker = worker
    Library <- OneMod
    Files = {f1}
    Window = window
    Tasks = {t1, t2}
    Worker = worker
    Nobody = Nobody
    NoMod = NoMod
    NoBase = NoBase
    Calls <- Every
    Faults = {"cancel", "unplug"}
    MaxCalls = 3
    MaxVersion = 2
    MaxPulls = 1
CHECK_DEADLOCK FALSE
INVARIANTS
    CirclesAreKnown
    NoneIsLost
    CancelLeavesNoHalf
PROPERTIES
    AskedIsHashed
