SPECIFICATION ServerSpec

CONSTANTS
    t1 = t1
    t2 = t2
    h1 = h1
    h2 = h2
    h3 = h3
    r1 = r1
    r2 = r2
    r3 = r3
    NoTenant = NoTenant
    NoHandle = NoHandle
    Nobody = Nobody
    Tenants = {t1, t2}
    Handles = {h1, h2, h3}
    Requests = {r1, r2, r3}
    TotalLimit = 1
    Faults = {"unreachable", "close"}

INVARIANTS
    TypeOK
    EntriesAreOpen
    NoHandleLeaked
    LimitKept
    ServerTypeOK
    NoDeadHandleServed
    OwnDatabase
    CloseAfterDrain
    StoppedPoolIsEmpty

SYMMETRY Interchangeable

PROPERTIES
    Spec

CHECK_DEADLOCK FALSE
