SPECIFICATION Spec
CONSTANTS
    t1 = t1
    t2 = t2
    t3 = t3
    none = none
    Jobs <- MCJobs
    Warmup = 1
    Steady = 2
    Calls = 2
    Results = {"right", "wrong"}
    Expected = "right"
    Threads = {t1, t2, t3}
    MaxClock = 8
    None = none
SYMMETRY Symmetry
INVARIANTS
    TypeOK
    AcceptedCallsAgree
    AcceptedSamplesAreThePlan
    RecordingIsSteady
    EventsBelongToWindows
    AffinityIsProved
CHECK_DEADLOCK FALSE
