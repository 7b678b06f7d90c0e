SPECIFICATION Spec
CONSTANTS
    a = a
    b = b
    MaxRank = 1
    Addrs = {a, b}
    Setups <- MCSetups
    Deltas <- OneOrTwo
    RecycleLatency = 2
    TransitionsPerCycle = 2
    SizeBound = 2
SYMMETRY Symmetry
INVARIANTS NoLostWakeup StalledCanWake FifoOrder
CHECK_DEADLOCK FALSE
