CONSTANTS
    None = None
    Users = {alice}
    Tokens = {t1, t2, t3}
    Requests = {r1, r2, r3}
SYMMETRY Symmetry
SPECIFICATION Spec
INVARIANTS
    OneRefreshPerToken
    ReuseRevokes
    BarredSessionsCut
PROPERTIES
    RevokedIsFinal
    OrphanStaysOrphan
    ImplementsLineage
