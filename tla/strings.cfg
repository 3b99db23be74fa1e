SPECIFICATION Spec
CONSTANTS
    Calls <- AllCalls
    Stale <- Held
    Code <- Codes_
    LONG = 2
    LONGEST = 4
    WORDY = 6
INVARIANTS Words Pieces Places Codes
CHECK_DEADLOCK FALSE
