SPECIFICATION Spec
CONSTANTS
    w1 = w1
    w2 = w2
    w3 = w3
    Phrases = 5
    PhraseTexts = {t1, t2, t3}
    Models = {m1, m2}
    Clusterers = {r1, r2}
    NoRequest = NoRequest
    Tenants = {alice, bob}
    Versions = {v1, v2}
    MaxPostings = 2
    Skills = {golang}
    Spellings = {Go, go}
    Go = Go
    go = go
    g1 = g1
    g2 = g2
    Groups = {g1, g2}
    Reports <- MCReports
    NoWork = NoWork
SYMMETRY Symmetry
INVARIANTS
    ClustersAreComponents
    ReportAgreesWithTailoring
    UnvouchedIsNotShown
    AskedIsReported
    BankOutranks
    TenantsApart
    RoadmapIsBacked
    OneModelPerClustering
CHECK_DEADLOCK FALSE
