SPECIFICATION Spec

CONSTANTS
    t1 = t1
    t2 = t2
    i1 = i1
    i2 = i2
    d1 = d1
    d2 = d2
    n1 = n1
    n2 = n2
    NoTask = NoTask
    Tasks = {t1, t2}
    Instances = {i1, i2}
    Disks = {d1}
    DiskOf <- SharedDisk
    Names = {n1, n2}
    NameOf <- SameName
    MaxChunks = 1
    ChunksOf <- OneEach
    Invalid = {}
    Sessions = {t1}
    Concurrency = 2
    Faults = {"dberr", "timeout"}

INVARIANTS
    OwnContent
    NoFileLeaked

CHECK_DEADLOCK FALSE
