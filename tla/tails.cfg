SPECIFICATION Spec
CONSTANTS
    sigl = sigl
    result = result
    a = a
    item = item
    key = key
    own = own
    other = other
    Text <- MCText
    Join <- MCJoin
    Simple <- MCSimple
    Stems = {a}
    Sigl = sigl
    Result = result
    Data = {key}
    Empty = Empty
    Null = Null
    Split = {sigl}
    Lits <- TailLits
    Targets <- TailNames
    WordsOf <- TailWords
    ExposeLists <- TailExposes
    DropLists = {}
    PoolNames = {}
    VarIds = {1,2,3,4,5,6,7,8,9}
    Nil = Nil
    MaxProc = 2
    MaxId = 2
CHECK_DEADLOCK FALSE
VIEW Shape
PROPERTIES Isolation ExposeShares
