------------------------------- MODULE MCKept -------------------------------
EXTENDS FramesKept
CONSTANTS cms, xedit

AllTrace == [toggle : {FALSE}, letter : {"A", "O"}] \cup
            [toggle : {TRUE}, letter : {"bad", "A", "E"}]

AllCodes == {-1, 0, 1}
=============================================================================
