SPECIFICATION KeptSpec
CONSTANTS
    cms = cms
    xedit = xedit
    EnvNames = {cms, xedit}
    System = cms
    EnvIds = {1, 2, 3, 4, 5, 6}
    DigitValues = {9, 10}
    LMaxDigits = 9
    FuzzValues = {9}
    Forms = {"SCIENTIFIC"}
    Conditions = {"SYNTAX"}
    Labels = {"SYNTAX"}
    Defined = {"SYNTAX"}
    Started = {"PROGRAM"}
    TraceFlags = {TRUE, FALSE}
    TraceArgs <- AllTrace
    Texts = {"good", "bad"}
    Typed = {"good", "bad"}
    Codes <- AllCodes
    Arities = {0}
    STCK_SIZE = 4
    MaxProc = 3
    MaxCode = 3
    MaxResets = 1
CHECK_DEADLOCK FALSE
PROPERTY TrapDisabled
