CONSTANTS
    Tabs = {t1, t2}
    Jobs = {j1, j2}
    MaxJobs = 2
    MaxTokens = 3
    Gone = Gone
    Keys = {k1}
    Texts = {t1, t2}
    Requests = {r1, r2, r3}
    MaxRows = 2
    Nil = Nil
SYMMETRY Symmetry
SPECIFICATION MCSpec
INVARIANTS
    ReplaysAreExcused
    LogoutSticks
    NoneWaitsInVain
    KeyCreatesOnce
    RepliesAgree
PROPERTIES
    AnswersStay
CHECK_DEADLOCK FALSE
