SPECIFICATION Spec
CONSTANTS
    a = a
    b = b
    c = c
    f = f
    g = g
    Game = Game
    NoMod = NoMod
    Mods <- MCMods
    Files <- MCFiles
    Ships <- MCShips
    Blocks <- MCBlocks
    Ops = {o1}
    Calls = {"enable", "disable", "bulk", "set", "place", "apply", "reapply"}
    Faults = {"redeployStops"}
INVARIANTS
    UncontestedRight
    DiskFollowsOrder
    PlacedTogether
PROPERTIES
    ReapplyRepairs
    PreviewIsWhatChanges
