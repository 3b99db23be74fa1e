------------------------------ MODULE BinTree ------------------------------
(* bintree.c: the binary trees of variables, literals, labels and files,   *)
(* and their rebalancing once a path gets too long.  A leaf is named for   *)
(* its key; keys are numbers in the order _Lstrcmp has for them.           *)
EXTENDS Integers, Sequences, FiniteSets

CONSTANTS
    Key,             \* the keys
    Empty,           \* no leaf
    BALANCE_START,   \* the depth at which a tree is first balanced
    BALANCE_INC      \* and how much deeper it may be the next time

ASSUME EmptyAssumption == Empty \notin Key

VARIABLES
    tree,            \* [left, right, parent, items, maxdepth, balancedepth]
    keys             \* history: the keys added and not deleted

BINTREEINIT ==
    /\ tree = [left |-> [k \in Key |-> Empty], right |-> [k \in Key |-> Empty],
               parent |-> Empty, items |-> 0, maxdepth |-> 0, balancedepth |-> BALANCE_START]
    /\ keys = {}

Larger(a, b) == IF a > b THEN a ELSE b
Child(t, leaf, k) == IF k < leaf THEN t.left[leaf] ELSE t.right[leaf]

RECURSIVE PathFrom(_, _, _), LeafBalance(_, _), LeafConstruct(_, _, _, _, _), RightMost(_, _)
RECURSIVE Leaves(_, _), DepthOf(_, _)

\* The leaves compared with k, from leaf down; the last is k's if it is there.
PathFrom(t, leaf, k) ==
    IF leaf = Empty THEN << >>
    ELSE IF leaf = k THEN <<leaf>>
    ELSE <<leaf>> \o PathFrom(t, Child(t, leaf, k), k)

Path(t, k)    == PathFrom(t, t.parent, k)
BinFind(t, k) == Path(t, k) # << >> /\ Path(t, k)[Len(Path(t, k))] = k

\* child goes where k was looked for last.
Attach(t, before, k, child) ==
    IF before = << >> THEN [t EXCEPT !.parent = child]
    ELSE LET above == before[Len(before)]
         IN  IF k < above THEN [t EXCEPT !.left[above] = child] ELSE [t EXCEPT !.right[above] = child]

-----------------------------------------------------------------------------
(* Rebalancing: the leaves are strung up in order, then cut in the middle. *)
LeafBalance(t, leaf) ==
    IF leaf = Empty THEN [t |-> t, head |-> Empty, tail |-> Empty]
    ELSE LET L == LeafBalance(t, t.left[leaf])
             R == LeafBalance(L.t, L.t.right[leaf])
             l1 == [R.t.left EXCEPT ![leaf] = L.tail]
             r1 == [R.t.right EXCEPT ![leaf] = R.head]
         IN  [t |-> [R.t EXCEPT !.left  = IF R.head = Empty THEN l1 ELSE [l1 EXCEPT ![R.head] = leaf],
                                !.right = IF L.tail = Empty THEN r1 ELSE [r1 EXCEPT ![L.tail] = leaf]],
              head |-> IF L.head = Empty THEN leaf ELSE L.head,
              tail |-> IF R.tail = Empty THEN leaf ELSE R.tail]

RightMost(t, leaf) == IF t.right[leaf] = Empty THEN leaf ELSE RightMost(t, t.right[leaf])

\* The n-th leaf of the string that starts at head.
Nth(t, head, n) == LET f[i \in 0..n] == IF i = 0 THEN head ELSE t.right[f[i - 1]] IN f[n]

LeafConstruct(t, head, tail, n, d) ==
    IF n = 0 THEN [t |-> t, leaf |-> Empty, d |-> d]
    ELSE IF n = 1 THEN [t |-> [t EXCEPT !.left[head] = Empty, !.right[head] = Empty], leaf |-> head, d |-> d]
    ELSE IF n = 2 THEN [t |-> [t EXCEPT !.left = [@ EXCEPT ![head] = Empty, ![tail] = Empty],
                                        !.right = [@ EXCEPT ![head] = tail, ![tail] = Empty]],
                        leaf |-> head, d |-> d + 1]
    ELSE LET mid == n \div 2
             M   == Nth(t, head, mid)
             L   == LeafConstruct(t, head, Nth(t, head, mid - 1), mid, d + 1)
             R   == LeafConstruct(L.t, t.right[M], tail, n - mid - 1, d + 1)
         IN  [t |-> [R.t EXCEPT !.left[M] = L.leaf, !.right[M] = R.leaf],
              leaf |-> M, d |-> Larger(L.d, R.d)]

BinBalance(t) ==
    LET q == LeafBalance(t, t.parent)
        c == LeafConstruct(q.t, q.head, q.tail, t.items, 1)
    IN  [c.t EXCEPT !.parent = c.leaf, !.maxdepth = c.d, !.balancedepth = c.d + BALANCE_INC]

-----------------------------------------------------------------------------
BinAddBug(k) ==            \* the depth is recorded only by balancing
    /\ LET dep    == Len(Path(tree, k))
           placed == [Attach([tree EXCEPT !.left[k] = Empty, !.right[k] = Empty], Path(tree, k), k, k)
                         EXCEPT !.items = @ + 1]
       IN  tree' = IF BinFind(tree, k) THEN tree
                   ELSE IF dep > tree.maxdepth /\ dep > tree.balancedepth THEN BinBalance(placed)
                   ELSE placed
    /\ keys' = keys \cup {k}

\* A key that is there already is left alone.
BinAdd(k) ==
    /\ LET dep    == Len(Path(tree, k))
           placed == [Attach([tree EXCEPT !.left[k] = Empty, !.right[k] = Empty], Path(tree, k), k, k)
                         EXCEPT !.items = @ + 1]
           deeper == [placed EXCEPT !.maxdepth = Larger(@, dep)]
       IN  tree' = IF BinFind(tree, k) THEN tree
                   ELSE IF dep > tree.maxdepth /\ dep > tree.balancedepth THEN BinBalance(deeper)
                   ELSE deeper
    /\ keys' = keys \cup {k}

\* What takes the place of leaf k: its only child, or the rightmost of its
\* left branch, whose own left branch then takes that one's place.
ReplacementBug(t, k) ==    \* what was left of the rightmost is lost
    IF t.right[k] = Empty THEN [t |-> t, new |-> t.left[k]]
    ELSE IF t.left[k] = Empty THEN [t |-> t, new |-> t.right[k]]
    ELSE LET new == RightMost(t, t.left[k])
             par == IF new = t.left[k] THEN k ELSE CHOOSE p \in Key : t.right[p] = new /\ p \in Leaves(t, t.left[k])
             up  == [t EXCEPT !.right[new] = t.right[k]]
         IN  [t |-> IF par = k THEN up
                    ELSE [up EXCEPT !.right[par] = Empty, !.left[new] = t.left[k]],
              new |-> new]

Replacement(t, k) ==
    IF t.right[k] = Empty THEN [t |-> t, new |-> t.left[k]]
    ELSE IF t.left[k] = Empty THEN [t |-> t, new |-> t.right[k]]
    ELSE LET new == RightMost(t, t.left[k])
             par == IF new = t.left[k] THEN k ELSE CHOOSE p \in Key : t.right[p] = new /\ p \in Leaves(t, t.left[k])
             up  == [t EXCEPT !.right[new] = t.right[k]]
         IN  [t |-> IF par = k THEN up
                    ELSE [up EXCEPT !.right[par] = t.left[new], !.left[new] = t.left[k]],
              new |-> new]

\* The leaves under leaf, itself included.
Leaves(t, leaf) ==
    IF leaf = Empty THEN {} ELSE {leaf} \cup Leaves(t, t.left[leaf]) \cup Leaves(t, t.right[leaf])

\* With all that is under it.  What is in a freed leaf is wiped.
BinDisposeLeaf(t, leaf) ==
    [t EXCEPT !.left = [k \in Key |-> IF k \in Leaves(t, leaf) THEN Empty ELSE @[k]],
              !.right = [k \in Key |-> IF k \in Leaves(t, leaf) THEN Empty ELSE @[k]],
              !.items = @ - Cardinality(Leaves(t, leaf)),
              !.parent = IF @ \in Leaves(t, leaf) THEN Empty ELSE @]

BinDel(k) ==
    /\ keys' = keys \ {k}
    /\ tree' = IF ~BinFind(tree, k) THEN tree
               ELSE LET p    == Path(tree, k)
                        r    == Replacement(tree, k)
                        done == Attach(r.t, SubSeq(p, 1, Len(p) - 1), k, r.new)
                    IN  BinDisposeLeaf([done EXCEPT !.left[k] = Empty, !.right[k] = Empty], k)

\* BinDisposeLeaf of the whole tree: the depths it had stay.
BinDisposeAll ==
    /\ tree' = BinDisposeLeaf(tree, tree.parent)
    /\ keys' = {}

-----------------------------------------------------------------------------
DepthOf(t, leaf) ==
    IF leaf = Empty THEN 0 ELSE 1 + Larger(DepthOf(t, t.left[leaf]), DepthOf(t, t.right[leaf]))

(* The keys that can be found are those added and not deleted, whatever    *)
(* was deleted and balanced in between, and items counts them: BinBalance  *)
(* trusts it.                                                              *)
Kept ==
    /\ \A k \in Key : BinFind(tree, k) <=> k \in keys
    /\ Leaves(tree, tree.parent) = keys
    /\ tree.items = Cardinality(keys)

(* No search takes more steps than the tree's own account of its depth,    *)
(* which is never above the limit for balancing it.                        *)
Shallow ==
    /\ DepthOf(tree, tree.parent) <= tree.maxdepth + 1
    /\ tree.maxdepth <= tree.balancedepth
=============================================================================
