CONSTANTS
    None = None
    Postings = {p}
    Rows = {i1, i2}
    Contents = {c1, c2}
    Syncs = {s1, s2}
    Relays = {r1}
    Workers = {w1}
    MaxEvents = 2
    Batch = 2
    Nil = Nil
    Jobs = {i1, i2}
    Texts = {c1, c2}
    Runs = {b1}
    MaxVersions = 3
SYMMETRY Symmetry
SPECIFICATION MCSpec
INVARIANTS
    EveryEventIsOwed
    DocumentBehindRow
    NothingForgotten
    MirrorsBoard
    ChangesAnalyzed
PROPERTIES
    ClosedOnlyWhenAbsent
