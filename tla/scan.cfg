SPECIFICATION Spec
CONSTANTS
    Given <- Texts
    LMAXLEN = 4
CHECK_DEADLOCK FALSE
INVARIANTS Lines AssignSeen
PROPERTIES Symbols Spaced Advances
