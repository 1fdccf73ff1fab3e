SPECIFICATION FairSpec

CONSTANTS
    i1 = i1
    i2 = i2
    c1 = c1
    r1 = r1
    r2 = r2
    k1 = k1
    k2 = k2
    k3 = k3
    z1 = z1
    z2 = z2
    NoTenant = NoTenant
    NoRow = NoRow
    TenantName <- TwoNames
    Instances = {i1, i2}
    Provisions = {c1}
    Requests = {r1}
    Want <- WantKey
    BootKeys = {k1, k2, k3, NoTenant}
    ZeroIDs = {z1}
    SchemaLength = 2
    MaxRetries = 2
    MaxStarts = 2
    Faults = {"dberr", "lost", "zero", "crash"}

INVARIANTS
    ServedHasSchema
    GivenIsComplete
    OneBuilder

PROPERTIES
    NeverSetBack
    BootEnds

CHECK_DEADLOCK FALSE
