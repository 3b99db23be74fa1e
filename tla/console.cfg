SPECIFICATION Spec
CONSTANTS
    cms = cms
    xedit = xedit
    EnvNames = {cms}
    System = cms
    EnvIds = {1, 2}
    DigitValues = {9}
    LMaxDigits = 9
    FuzzValues = {0}
    Forms = {"SCIENTIFIC"}
    Conditions = {"ERROR", "NOTREADY"}
    Labels = {"ERROR", "NOTREADY"}
    Defined = {"ERROR"}
    Started = {"PROGRAM"}
    TraceFlags = {TRUE, FALSE}
    TraceArgs <- AllTrace
    Texts = {"good"}
    Typed = {"good", "bad"}
    Codes <- AllCodes
    Arities = {0}
    STCK_SIZE = 4
    MaxProc = 3
    MaxCode = 2
    MaxResets = 1
VIEW Shape
CHECK_DEADLOCK FALSE
INVARIANTS Floors TracingInForce
