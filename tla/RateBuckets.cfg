SPECIFICATION Spec

CONSTANTS
    ip1 = ip1
    ip2 = ip2
    t1 = t1
    t2 = t2
    r1 = r1
    r2 = r2
    r3 = r3
    r4 = r4
    r5 = r5
    NoTenant = NoTenant
    NoBucket = NoBucket
    IPs = {ip1, ip2}
    Tenants = {t1, ip1}
    Requests = {r1, r2, r3, r4, r5}
    Burst = 2
    Stale = 2
    MaxTime = 6
    Addresses <- SomeAddresses
    Headers <- SomeHeaders
    Paths <- NoPaths

INVARIANTS
    ServedPaid

PROPERTIES
    ImplementsBucket

CHECK_DEADLOCK FALSE
