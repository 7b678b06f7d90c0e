SPECIFICATION Spec
CONSTANTS
    m = m
    n = n
    b = b
    NumThreads = 7
    NumCpus = 4
    Addrs <- MCAddrs
    AddresstoIdMap <- MCAddresstoIdMap
    BarrierMap <- MCBarrierMap
    Programs <- MCLateCreate
    READ_BLOCK = 3
    MIN_EVENTS_SIZE = 2
    MAX_COMM_WAIT = 2
    Costs = {0}
    MasterWakeupFreq = 3
    MaxOutstanding = 2
    WorkerFloor = 1
INVARIANTS CoreNotStalled
