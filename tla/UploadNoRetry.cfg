SPECIFICATION FairSpec

CONSTANTS
    t1 = t1
    t2 = t2
    i1 = i1
    i2 = i2
    d1 = d1
    d2 = d2
    n1 = n1
    n2 = n2
    NoTask = NoTask
    Tasks = {t1}
    Instances = {i1}
    Disks = {d1}
    DiskOf <- OneInstance
    Names = {n1}
    NameOf <- OneName
    MaxChunks = 2
    ChunksOf <- TwoChunks
    Invalid = {}
    Sessions = {t1}
    Concurrency = 1
    Faults = {"dberr"}

PROPERTIES
    RetainedIsRetried

CHECK_DEADLOCK FALSE
