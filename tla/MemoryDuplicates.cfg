SPECIFICATION Spec

CONSTANTS
    m1 = m1
    m2 = m2
    m3 = m3
    m4 = m4
    m5 = m5
    f1 = f1
    f2 = f2
    c1 = c1
    c2 = c2
    c3 = c3
    c4 = c4
    NoId = NoId
    Nothing = Nothing
    NoCall = NoCall
    Ids = {m1, m2, m3, m4}
    Facts = {f1, f2}
    Calls = {c1, c2}
    KindOf <- TwoIngests
    Stored = {}
    Pinned = {}
    Embedding = FALSE
    MaxFacts = 1
    MaxBatch = 2
    MaxEvents = 1
    Faults = {}

PROPERTIES
    AddedFactsAreNew

SYMMETRY Interchangeable

CHECK_DEADLOCK FALSE
