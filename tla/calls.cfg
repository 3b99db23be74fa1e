SPECIFICATION FairSpec
CONSTANTS
    cms = cms
    xedit = xedit
    EnvNames = {cms}
    System = cms
    EnvIds = {1, 2, 3, 4}
    DigitValues = {9}
    LMaxDigits = 12
    FuzzValues = {0}
    Forms = {"SCIENTIFIC"}
    Conditions = {"SYNTAX"}
    Labels = {"SYNTAX"}
    Defined = {"SYNTAX"}
    Started = {"FUNCTION"}
    TraceFlags = {FALSE}
    TraceArgs = {}
    Texts = {"good", "bad"}
    Typed = {}
    Codes = {}
    Arities = {1}
    STCK_SIZE = 5
    MaxProc = 3
    MaxCode = 2
    MaxResets = 0
CHECK_DEADLOCK FALSE
INVARIANTS Floors EnvOwned CodeKept
PROPERTIES Promised LoopsEnd
