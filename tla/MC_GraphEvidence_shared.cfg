SPECIFICATION Spec
CONSTANTS
    c1 = c1
    c2 = c2
    a1 = a1
    a2 = a2
    s1 = s1
    s2 = s2
    none = none
    torn = torn
    Captures = {c1, c2}
    Analysts = {a1}
    Summaries = {s1}
    Remeasure = {c2}
    Reanalyze = {a1}
    Killable = {c1}
    Smoke = {c1, c2}
    Exclusive = {}
    NBudgets = 1
    Signatures = {"x"}
    Dirty = {}
    MaxProduct = 0
    None = none
    Torn = torn
INVARIANTS
    MixingNeedsAnOverlap
