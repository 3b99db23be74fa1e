SPECIFICATION Spec
CONSTANTS
    sigl = sigl
    result = result
    a = a
    item = item
    key = key
    own = own
    other = other
    Text <- MCText
    Join <- MCJoin
    Simple <- MCSimple
    Stems = {a}
    Sigl = sigl
    Result = result
    Data = {key}
    Empty = Empty
    Null = Null
    Split = {}
    Lits <- TailLits
    Targets = {}
    WordsOf <- TailWords
    ExposeLists <- OneExpose
    DropLists = {}
    PoolNames = {}
    VarIds = {1,2,3,4,5,6,7,8,9}
    Nil = Nil
    MaxProc = 3
    MaxId = 3
CHECK_DEADLOCK FALSE
VIEW Shape
INVARIANT TailsLive
