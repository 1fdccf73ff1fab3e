SPECIFICATION Spec

CONSTANTS
    i1 = i1
    i2 = i2
    c1 = c1
    r1 = r1
    r2 = r2
    k1 = k1
    k2 = k2
    k3 = k3
    z1 = z1
    z2 = z2
    NoTenant = NoTenant
    NoRow = NoRow
    TenantName <- OneName
    Instances = {i1}
    Provisions = {}
    Requests = {r1}
    Want <- WantKey
    BootKeys = {k1}
    ZeroIDs = {}
    SchemaLength = 2
    MaxRetries = 1
    MaxStarts = 2
    Faults = {"crash"}

INVARIANTS
    ReadyTakesItsKey

CHECK_DEADLOCK FALSE
