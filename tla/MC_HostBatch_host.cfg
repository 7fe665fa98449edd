SPECIFICATION KindSpec
CONSTANTS
    c1 = c1
    c2 = c2
    p1 = p1
    p2 = p2
    e1 = e1
    e2 = e2
    w1 = w1
    w2 = w2
    processor = processor
    cut = cut
    none = none
    Procs = {c1, c2}
    Poms = {p1, p2}
    Editions = {e1, e2}
    Processor = processor
    Cut = cut
    None = none
    Requests <- Commands
    Images = {"main", "ruby"}
    MaxBuilds = 1
    MaxCommands = 2
SYMMETRY Symmetry
CHECK_DEADLOCK FALSE
INVARIANTS
    TypeOK
    CachesServeExactly
    BatchIsComplete
    EachBuildMislabelsOne
PROPERTIES
    PreparedRunsOffline
