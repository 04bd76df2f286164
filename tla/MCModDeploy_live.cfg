SPECIFICATION FairSpec
CONSTANTS
    a = a
    b = b
    c = c
    f = f
    g = g
    Orig = Orig
    Torn = Torn
    Nothing = Nothing
    NoOp = NoOp
    Mods <- OneMod
    Files <- PairFile
    NProfiles = 1
    Ops = {o1, o2}
    Ships <- OneShips
    Originals <- MCOriginals
    Library <- OneProfile
    Deps <- OneDeps
    Chain <- OneChain
    Calls = {"enable", "disable", "bulk", "api"}
    BulkGroups = {{1}}
    Faults = {"cancel", "crash", "switch", "copyError", "backupError", "restoreError"}
INVARIANTS
    SavedWhenQuiet
PROPERTIES
    OriginalGoesHome
    CallsGetThrough
