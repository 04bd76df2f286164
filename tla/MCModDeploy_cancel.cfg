SPECIFICATION Spec
CONSTANTS
    a = a
    b = b
    c = c
    f = f
    g = g
    Orig = Orig
    Torn = Torn
    Nothing = Nothing
    NoOp = NoOp
    Mods <- MCMods
    Files <- MCFiles
    NProfiles = 2
    Ops = {o1}
    Ships <- MCShips
    Originals <- MCOriginals
    Library <- TwoLibraries
    Deps <- MCDeps
    Chain <- MCChain
    Calls = {"enable", "disable"}
    BulkGroups = {}
    Faults = {"cancel"}
INVARIANTS
    OriginalsKept
