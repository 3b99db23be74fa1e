------------------------------ MODULE MCStore ------------------------------
(* Store with six keys, two elements and a string.                       *)
EXTENDS Store

Keys     == 1..6
Elements == {"e", "f"}
Blocks   == {LeafAt(k) : k \in Keys} \cup {ElemAt(e) : e \in Elements} \cup {TextAt(i) : i \in {1, 2}}
Sizes    == 1..3
NoBlock  == <<"none", 0>>
NoLeaf   == 0
NoElem   == "nil"
=============================================================================
