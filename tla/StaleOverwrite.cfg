CONSTANTS
    None = None
    Postings = {p}
    Rows = {i1, i2}
    Contents = {c1, c2}
    Syncs = {s1}
    Relays = {r1}
    Workers = {w1, w2}
    MaxEvents = 2
    Batch = 2
SPECIFICATION Spec
PROPERTIES
    NewerAnalysisKept
