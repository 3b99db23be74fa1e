SPECIFICATION Spec
CONSTANTS
    sigl = sigl
    result = result
    a = a
    item = item
    key = key
    own = own
    other = other
    Text <- MCText
    Join <- MCJoin
    Simple <- MCSimple
    Stems = {}
    Sigl = sigl
    Result = result
    Data = {item}
    Empty = Empty
    Null = Null
    Split = {}
    Lits <- HeadLits
    Targets = {}
    WordsOf <- HeadWords
    ExposeLists <- HeadExposes
    DropLists <- HeadDrops
    PoolNames <- HeadLits
    VarIds = {1,2,3,4,5,6,7,8,9}
    Nil = Nil
    MaxProc = 3
    MaxId = 2
CHECK_DEADLOCK FALSE
VIEW Shape
INVARIANTS TypeOK FramesOK CacheCoherent HeadMarks HeadsLive NoLeak
PROPERTY Scoped
