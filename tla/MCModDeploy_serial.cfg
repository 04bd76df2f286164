SPECIFICATION Spec
CONSTANTS
    a = a
    b = b
    c = c
    f = f
    g = g
    Orig = Orig
    Torn = Torn
    Nothing = Nothing
    NoOp = NoOp
    Mods <- MCMods
    Files <- MCFiles
    NProfiles = 3
    Ops = {o1}
    Ships <- MCShips
    Originals <- MCOriginals
    Library <- TwinsAndOne
    Deps <- MCDeps
    Chain <- MCChain
    Calls = {"enable", "disable", "bulk"}
    BulkGroups = {{3}}
    Faults = {"copyError"}
INVARIANTS
    OriginalsKept
    BackupsHoldOriginals
    CleanWhenUnused
    DiskFollowsLists
    TwinsAgree
    OneLibraryPerMod
    CalmUse
PROPERTIES
    KeepsPromise
