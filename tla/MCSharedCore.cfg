SPECIFICATION FairSpec
CONSTANTS
    m = m
    n = n
    b = b
    NumThreads = 3
    NumCpus = 1
    Addrs <- MCAddrs
    AddresstoIdMap <- MCAddresstoIdMap
    BarrierMap <- MCBarrierMap
    Programs <- MCForkJoin
    READ_BLOCK = 3
    MIN_EVENTS_SIZE = 2
    MAX_COMM_WAIT = 2
    Costs = {0, 1}
    MasterWakeupFreq = 3
    MaxOutstanding = 2
    WorkerFloor = 1
PROPERTIES Completes
