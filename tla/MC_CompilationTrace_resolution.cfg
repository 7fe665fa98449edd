SPECIFICATION Spec
CONSTANTS
    e = e
    r = r
    f = f
    g = g
    h = h
    none = none
    Targets = {e, r, f, g, h}
    Label <- MCLabel
    Normal <- MCNormal
    Framework = {"execute"}
    PrimaryLabels = {"f@2"}
    Sourced = {r}
    Shapes <- MCShapes
    Noise = {"UNKNOWN_LIFECYCLE_EVENT"}
    Faulty = {g}
    Volatile = {r, h}
    FinalTier = 2
    MaxEvents = 5
    None = none
INVARIANTS
    TypeOK
    StableUnitsAreInstalled
    UnitsAreCallees
    InventoryIsLive
    InventoryAgrees
CHECK_DEADLOCK FALSE
