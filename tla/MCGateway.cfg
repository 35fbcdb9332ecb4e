CONSTANTS
    None = None
    Clients = {c1, c2, c3, c4}
    Paths = {p1, p2}
    Allowed = {}
    Blocked = {c3}
    Exempt = {c4}
    Threshold = 2
    Window = 1
    BanTime = 2
    MaxTracked = 2
    MaxOpen = 2
    Users = {root, bob}
    First = root
    NoToken = NoToken
    KeyConfigured = TRUE
    Requests = {r1, r2}
    Queries <- MCQueries
    Bearers <- MCBearers
    spa = spa
    other = other
    Origins = {spa, other}
    Pinned = spa
    NoOrigin = NoOrigin
    Star = Star
    NoAnswer = NoAnswer
    Ttl = 1
    MaxTokens = 2
    Idle = Idle
    MaxTailorings = 3
    MaxSecond = 2
    Boards = {b1, b2}
    Slugs = {s1}
    Editors = {r1, r2}
    Null = Null
    NoEdit = NoEdit
SYMMETRY Symmetry
SPECIFICATION Spec
INVARIANTS
    OffendersAreBanned
    SharedChangedByAdmins
    SavedIsKept
    CredentialsArePinned
    PinnedPageReadsAnswers
    PatchesLand
    UnpolledWerePatched
PROPERTIES
    BanIsScoped
    LastAdminFallsToStaleClaim
CHECK_DEADLOCK FALSE
