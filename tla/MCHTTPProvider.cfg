SPECIFICATION Spec
CONSTANTS
    r1 = r1
    r2 = r2
    v1 = v1
    v2 = v2
    Handler <- MCHandler
    Version <- MCVersion
    Empty = Empty
CHECK_DEADLOCK FALSE
INVARIANTS
    OneUpdateIsSeen
PROPERTIES
    ReturnsUnlessNested
