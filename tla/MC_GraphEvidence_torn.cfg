SPECIFICATION Spec
CONSTANTS
    c1 = c1
    c2 = c2
    a1 = a1
    a2 = a2
    s1 = s1
    s2 = s2
    none = none
    torn = torn
    Captures = {c1}
    Analysts = {a1, a2}
    Summaries = {}
    Remeasure = {}
    Reanalyze = {}
    Killable = {a1}
    Smoke = {}
    Exclusive = {c1, a1, a2}
    NBudgets = 2
    Signatures = {"x"}
    Dirty = {}
    MaxProduct = 0
    None = none
    Torn = torn
PROPERTIES
    AnalysisIsComplete
