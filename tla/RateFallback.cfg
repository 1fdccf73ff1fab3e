SPECIFICATION Spec

CONSTANTS
    ip1 = ip1
    ip2 = ip2
    t1 = t1
    t2 = t2
    r1 = r1
    r2 = r2
    r3 = r3
    r4 = r4
    r5 = r5
    NoTenant = NoTenant
    NoBucket = NoBucket
    IPs = {ip1, ip2}
    Tenants = {t1, t2}
    Requests = {r1, r2}
    Burst = 1
    Stale = 2
    MaxTime = 6
    Addresses <- OneAddress
    Headers <- TwoTenants
    Paths <- NoPaths

INVARIANTS
    AddressIsFallback

CHECK_DEADLOCK FALSE
