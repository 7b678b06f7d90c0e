SPECIFICATION Spec
CONSTANTS
    Elems = {e1, e2}
    length = 3
INVARIANTS RingOK
PROPERTIES Implements
