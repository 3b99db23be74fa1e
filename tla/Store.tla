------------------------------- MODULE Store -------------------------------
(* The containers on the debugging heap: the leaves of a tree, the         *)
(* elements of a queue and a string that grows, each in a block of its own *)
(* on the one list of blocks.  A block is named for what it holds.         *)
EXTENDS BinTree, DQueue, Mem

CONSTANTS
    Size,        \* what blocks may be asked for
    MaxBlocks    \* bounds the run: blocks at a time

VARIABLE string  \* the block of a string, or Null

vars == <<tree, keys, queue, content, mem, string>>

LeafAt(k)  == <<"leaf", k>>
ElemAt(e)  == <<"elem", e>>
TextAt(i)  == <<"text", i>>
TheTree   == <<tree, keys>>
TheQueue  == <<queue, content>>

Init == BINTREEINIT /\ DQINIT /\ MemInit /\ string = Null

Room == Cardinality(mem.used) < MaxBlocks

\* Freed one after the other.
FreeAll(m, blocks) == FoldLeft(LAMBDA x, b : mem_free(x, b), m, blocks)

AddLeaf ==
    \E k \in Key :
        /\ Room
        /\ BinAdd(k)
        /\ mem' = IF BinFind(tree, k) THEN mem ELSE mem_malloc(mem, LeafAt(k), 1)
        /\ UNCHANGED <<TheQueue, string>>

DelLeaf ==
    \E k \in Key :
        /\ BinDel(k)
        /\ mem' = IF BinFind(tree, k) THEN mem_free(mem, LeafAt(k)) ELSE mem
        /\ UNCHANGED <<TheQueue, string>>

\* The branches before the leaf.
RECURSIVE PostOrder(_, _)
PostOrder(t, leaf) ==
    IF leaf = Empty THEN << >>
    ELSE PostOrder(t, t.left[leaf]) \o PostOrder(t, t.right[leaf]) \o <<LeafAt(leaf)>>

DropTree ==
    /\ BinDisposeAll
    /\ mem' = FreeAll(mem, PostOrder(tree, tree.parent))
    /\ UNCHANGED <<TheQueue, string>>

AddElem ==
    \E e \in Elem :
        /\ Room
        /\ DQAdd2Head(e) \/ DQAdd2Tail(e)
        /\ mem' = mem_malloc(mem, ElemAt(e), 1)
        /\ UNCHANGED <<TheTree, string>>

DelElem ==
    \E n \in 1..Len(content) :
        /\ DQDel(n)
        /\ mem' = mem_free(mem, ElemAt(content[n]))
        /\ UNCHANGED <<TheTree, string>>

PopElem ==
    /\ DQPop
    /\ mem' = mem_free(mem, ElemAt(queue.tail))
    /\ UNCHANGED <<TheTree, string>>

\* Along next, each before it is freed.
FlushElems ==
    /\ DQFlush
    /\ mem' = FreeAll(mem, [i \in 1..Len(content) |->
                  ElemAt(LET f[j \in 1..i] == IF j = 1 THEN queue.head ELSE queue.next[f[j - 1]] IN f[i])])
    /\ UNCHANGED <<TheTree, string>>

\* Lfx: a block of its own, or a larger one that may be elsewhere.
Grow ==
    \E s \in Size :
        /\ IF string = Null
           THEN /\ Room
                /\ string' = TextAt(1) /\ mem' = mem_malloc(mem, TextAt(1), s)
           ELSE /\ mem.size[string] < s
                /\ \E i \in {1, 2} : string' = TextAt(i) /\ mem' = mem_realloc(mem, string, TextAt(i), s)
        /\ UNCHANGED <<TheTree, TheQueue>>

\* LFREESTR
Release ==
    /\ string # Null
    /\ string' = Null /\ mem' = mem_free(mem, string)
    /\ UNCHANGED <<TheTree, TheQueue>>

Next ==
    \/ AddLeaf \/ DelLeaf \/ DropTree \/ AddElem \/ DelElem \/ PopElem \/ FlushElems
    \/ Grow \/ Release

Spec == Init /\ [][Next]_vars

-----------------------------------------------------------------------------
(* Every block is some container's, and every container's is a block: none *)
(* leaks and none is used after it was freed; and the total is that of the *)
(* blocks in use.                                                          *)
Owned ==
    /\ mem.used = {LeafAt(k) : k \in Leaves(tree, tree.parent)} \cup {ElemAt(e) : e \in InQueue}
                  \cup ({string} \ {Null})
    /\ mem.total = MapThenSumSet(LAMBDA b : mem.size[b], mem.used)
=============================================================================
