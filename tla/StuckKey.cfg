CONSTANTS
    Nil = Nil
    Keys = {k1}
    Texts = {t1, t2}
    Requests = {r1, r2}
    MaxRows = 2
SPECIFICATION IntakeSpec
INVARIANTS
    ReservedIsInFlight
