SPECIFICATION Spec
CONSTANTS
    c1 = c1
    c2 = c2
    a1 = a1
    a2 = a2
    s1 = s1
    s2 = s2
    none = none
    torn = torn
    Captures = {c1, c2}
    Analysts = {a1}
    Summaries = {s1}
    Remeasure = {c2}
    Reanalyze = {}
    Killable = {c1, a1}
    Smoke = {c2}
    Exclusive = {c1, c2, a1, s1}
    NBudgets = 3
    Signatures = {"x", "y"}
    Dirty = {1}
    MaxProduct = 1
    None = none
    Torn = torn
INVARIANTS
    TypeOK
    MatrixIsExact
    EvidenceIsOwn
    StopsAtFirstPair
PROPERTIES
    OnlyRemeasureReplaces
