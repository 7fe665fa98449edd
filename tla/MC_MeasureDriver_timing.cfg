SPECIFICATION FairSpec
CONSTANTS
    d1 = d1
    d2 = d2
    h1 = h1
    h2 = h2
    t1 = t1
    t2 = t2
    none = none
    Drivers = {d1, d2}
    Requests <- TimingRequests
    Hosts = {h1}
    RunIds = {t1}
    Dirty = {1}
    Broken = {2}
    PolicyOf <- EachEdit
    Policies = {0, 1}
    None = none
    MaxProduct = 2
    MaxHarness = 0
    MaxSuffix = 3
INVARIANTS
    TypeOK
    AcceptedTimingIsCorrect
    ReferenceIsClean
    RenameNeverCollides
PROPERTIES
    ImplementsEvidenceStore
    EveryDriverEnds
    FailureIsPublished
