SPECIFICATION Spec
CONSTANTS
    d1 = d1
    d2 = d2
    h1 = h1
    h2 = h2
    t1 = t1
    t2 = t2
    none = none
    Drivers = {d1, d2}
    Requests <- AffinityRequests
    Hosts = {h1, h2}
    RunIds = {t1}
    Dirty = {}
    Broken = {}
    PolicyOf <- EachEdit
    Policies = {0, 1}
    None = none
    MaxProduct = 1
    MaxHarness = 1
    MaxSuffix = 3
SYMMETRY Symmetry
PROPERTIES
    EquivalentIsReused
