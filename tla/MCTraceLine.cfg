SPECIFICATION Spec
CONSTANTS
    BlockSize = 4
    MemorySize = 12
    MAX_REQUEST_SIZE = 3
    Word = 36
    MaxOps = 3
    MaxCounted = 3
    Lines <- MCLines
INVARIANTS
    RequestsFitALine NextByte WorkConserved EveryRequestSent TrapOnlyWithoutRange
    LineReplayed
PROPERTIES EveryTurnAdvances
