--------------------------- MODULE VarPoolScoping --------------------------
(* The pool of scopes, shared objects and caches implements the scoping of *)
(* simple variables that the language promises.                            *)
EXTENDS VarPool

\* Of the scopes that hold an object, the outermost one owns the variable.
OwnerOf(sc, n) ==
    IF pool.head[sc][n] = Nil THEN sc
    ELSE CHOOSE k \in Holders(n, pool.head[sc][n]) :
            \A h \in Holders(n, pool.head[sc][n]) : k <= h

OwnerMap ==
    [f \in Frames |->
        [n \in Simple |->
            IF f \in Active THEN OwnerOf(proc[f].scope, n) ELSE f]]

\* A variable is where its owner holds it; a name without one is unset.
ValueMap ==
    [f \in Frames |->
        [n \in Simple |->
            IF f \in Scopes /\ pool.head[f][n] # Nil /\ OwnerOf(f, n) = f
            THEN pool.value[pool.head[f][n]] ELSE n]]

KindMap == [f \in Frames |-> proc[f].calltype]

S == INSTANCE Scoping
        WITH Names <- Simple, MaxDepth <- MaxProc,
             owner <- OwnerMap, val <- ValueMap, kind <- KindMap,
             top <- rx_proc,
             opening <- pending # << >> /\ Head(pending).op # "drop",
             ending <- closing

\* Every step of the interpreter is a step of the abstract scoping on simple
\* variables: an assignment, DROP, RESULT or SIGL reaches the variable that
\* the PROCEDUREs and EXPOSEs of the frames on the stack say it should.
Scoped == S!Spec
=============================================================================
