SPECIFICATION MeaningSpec
CONSTANTS
    Value <- Texts
    Given <- Templates
CHECK_DEADLOCK FALSE
INVARIANT Parsed
PROPERTY TriggersFirst
