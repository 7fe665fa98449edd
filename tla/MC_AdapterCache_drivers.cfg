SPECIFICATION Spec
CONSTANTS
    d1 = d1
    d2 = d2
    d3 = d3
    j1 = j1
    j2 = j2
    none = none
    empty = empty
    Drivers = {d1, d2, d3}
    Javas = {j1, j2}
    MaxSource = 2
    Reverts = FALSE
    Mixed = FALSE
    None = none
    Empty = empty
SYMMETRY Symmetry
INVARIANTS
    TypeOK
    AdapterIsExact
PROPERTIES
    CacheRecovers
