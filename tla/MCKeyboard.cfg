SPECIFICATION Spec
CONSTANTS
    Keys = {a, b}
    NoKey = NoKey
    Size = 3
    PortSize = 2
    MaxTail = 8
INVARIANTS
    TypeOK
    KeysBetweenHeadAndTail
PROPERTIES
    KeepsOrder
CHECK_DEADLOCK FALSE
