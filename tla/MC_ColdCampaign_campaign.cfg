SPECIFICATION CampaignSpec
CONSTANTS
    c1 = c1
    c2 = c2
    c3 = c3
    c4 = c4
    a1 = a1
    a2 = a2
    a3 = a3
    s1 = s1
    s2 = s2
    r1 = r1
    r2 = r2
    t1 = t1
    t2 = t2
    f = f
    g = g
    none = none
    torn = torn
    Captures = {c1, c2, c3, c4}
    Analysts = {a1, a2, a3}
    Summaries = {s1, s2}
    Reports = {r1, r2}
    Kind <- CapturesOf
    Output <- OutputOf
    Retains = {c1}
    Reanalyze = {a2}
    Killable = {a1, s1, r1}
    Exclusive = {{s1, r1, r2}, {c2, c4, a1, a2, r1, r2}}
    Targets = {t1, t2}
    Labels = {f, g}
    Shows <- ShowsOf
    Dirty = {}
    MaxProducer = 1
    None = none
    Torn = torn
INVARIANTS
    TypeOK
    ReportIsSound
PROPERTIES
    EvidenceIsPreserved
