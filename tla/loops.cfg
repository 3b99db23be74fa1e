SPECIFICATION MSpec
CONSTANTS
    Clause <- AllClauses
    Endings <- Closers
    Given <- Texts
    Runs <- Runnable
    MaxCalls = 2
    MaxStack = 8
CHECK_DEADLOCK FALSE
INVARIANTS StackAtClause OwnValues Judged
PROPERTY Structured
