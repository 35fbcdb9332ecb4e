SPECIFICATION FairSpec
CONSTANTS
    d1 = d1
    d2 = d2
    v1 = v1
    v2 = v2
    Payloads = {d1, d2}
    Shipped = d1
    Instances = {n1}
    None = None
    Variants = {v1}
    Tag <- MCTag
    Requests = {r1, r2}
    Futures = {f1, f2}
    MaxEntries = 1
    MaxWorkers = 2
INVARIANTS TypeOK OneRenderAtATime AnswersFit
PROPERTIES InflightClears
