SPECIFICATION Spec
CONSTANTS
    e1 = e1
    e2 = e2
    e3 = e3
    f1 = f1
    Null = Null
    Events = {e1, e2, e3, f1}
    Priority <- MCPriority
    MaxDelay = 1
SYMMETRY Symmetry
INVARIANTS NeverAborts
PROPERTIES ImplementsEventList
