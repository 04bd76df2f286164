SPECIFICATION Spec
CONSTANTS
    s1 = s1
    s2 = s2
    s3 = s3
    Torn = Torn
    Missing = Missing
    Nothing = Nothing
    Savers = {s1, s2, s3}
    Kind <- OnlyState
    Faults = {"crash", "write", "backup", "damage"}
    MaxVersion = 3
    MaxDamage = 1
INVARIANTS
    StoreInv
PROPERTIES
    Implements
    LastWholeStays
