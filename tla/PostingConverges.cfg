CONSTANTS
    None = None
    Postings = {p}
    Rows = {i1}
    Contents = {c1, c2}
    Syncs = {s1}
    Relays = {r1}
    Workers = {w1}
    MaxEvents = 2
    Batch = 2
SPECIFICATION FairSpec
PROPERTIES
    AnalysesConverge
