SPECIFICATION Spec
CONSTANTS
    Symbol <- AllSymbols
    Given <- Expressions
CHECK_DEADLOCK FALSE
INVARIANTS Means OperandsIntact
PROPERTY AssignedLast
