SPECIFICATION Spec
CONSTANTS
    Key <- Keys
    Empty <- NoLeaf
    BALANCE_START = 1
    BALANCE_INC = 1
    Elem <- Elements
    Nil <- NoElem
    Block <- Blocks
    Null <- NoBlock
    Size <- Sizes
    MaxBlocks = 5
INVARIANTS Kept Shallow Queued Linked Owned
