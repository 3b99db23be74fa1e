------------------------------ MODULE VarPool ------------------------------
(***************************************************************************)
(* The variable pool of the interpreter (variable.c) and the part of the   *)
(* interpreter loop (interpre.c) that opens and closes variable scopes.    *)
(*                                                                         *)
(* A scope maps simple symbols and stems ("heads") to Variable objects; a  *)
(* stem's object owns a second map from tails to Variable objects.  A      *)
(* PROCEDURE activation gets a scope of its own, and EXPOSE enters the     *)
(* caller's object in it, so that one object is shared by several scopes;  *)
(* the field `exposed` (here mark) says who may free it.  Every literal of *)
(* the program caches the leaf it last resolved to (IdentInfo).            *)
(*                                                                         *)
(* The seven hash trees of a scope are one map here; of a stem's trees the *)
(* model keeps what matters: RxVarFind and RxVarAdd choose the tree by a   *)
(* sum over the tail, RxVarExpose by its first character, and the two      *)
(* differ on the tails in Split.  Storage is reused only when nothing      *)
(* refers to it any more, so that a reference to freed storage stays       *)
(* visible as one.                                                         *)
(***************************************************************************)
EXTENDS Integers, Sequences, FiniteSets

CONSTANTS
    Simple,       \* simple symbols of the program
    Stems,        \* stem symbols
    Sigl, Result, \* the special variables SIGL and RESULT, in Simple
    Data,         \* the values a program assigns; also constant tails
    Text,         \* all the strings the program deals with
    Empty, Null,  \* the null string, and a value that was never given one
    Join,         \* the name made of a stem and a tail: [Stems \X Text -> Text]
    Split,        \* tails whose sum hash and first-character hash differ
    Lits,         \* references that occur in the program text
    Targets,      \* those of them that name = expression assigns to
    WordsOf,      \* the names listed in a value: [Text -> Seq(Refs)]
    ExposeLists,  \* operands of the PROCEDURE instructions in the program
    DropLists,    \* name lists given to DROP (list) and EXECCOMM drop
    PoolNames,    \* names given to VALUE (pool k) and EXECCOMM set
    VarIds,       \* storage for Variable objects
    Nil,          \* the null pointer
    MaxProc,      \* bound: deepest frame
    MaxId         \* bound: PROCEDURE activations in one run

NoProc  == -1
NoCache == -1
Frames  == 0..MaxProc
Names   == Simple \cup Stems
Indexes == Simple \cup Data
Compound == Stems \X Indexes
Refs    == Names \cup Compound
Slots   == (Text \X {"hash"}) \cup (Split \X {"first"})
Ops     == {"expose", "list", "name", "drop"}
CallTypes == {"PROGRAM", "PROCEDURE", "FUNCTION", "INTERPRET"}

ASSUME PoolConstants ==
    /\ MaxProc \in Nat /\ MaxId \in Nat
    /\ Sigl \in Simple /\ Result \in Simple /\ Sigl # Result
    /\ Simple \cap Stems = {} /\ Data \cap Simple = {}
    /\ Names \cup Data \cup Split \cup {Empty, Null} \subseteq Text
    /\ Join \in [Stems \X Text -> Text]
    /\ Nil \notin VarIds
    /\ Compound \cap (Names \cup {Nil}) = {}
    /\ Nil \notin Names
    /\ Targets \subseteq Lits \ Stems /\ Lits \subseteq Refs
    /\ WordsOf \in [Text -> Seq(Refs)]
    /\ ExposeLists \subseteq Seq([op : {"expose", "list"}, ref : Refs])
    /\ DropLists \subseteq Seq(Refs)
    /\ PoolNames \subseteq Refs

VARIABLES
    pool,      \* [head, tail, value, mark, live, cache]
    proc,      \* the RxProc table, its live entries being 0..rx_proc
    rx_proc,   \* index of the running frame, -1 once RxRun has returned
    procidcnt, \* last PROCEDURE id given out
    pending,   \* names still to be processed by PROCEDURE or DROP (list)
    closing    \* interpreter_fin is unwinding the frames

vars == <<pool, proc, rx_proc, procidcnt, pending, closing>>

NoLeaf  == [id |-> NoCache, scope |-> 0, var |-> Nil]
NoHeads == [n \in Names |-> Nil]
NoTails == [s \in Slots |-> Nil]
NoFrame == [calltype |-> "PROGRAM", id |-> 0, scope |-> 0, r |-> Nil]

Leaves == [id : -1..(MaxId + 2), scope : Frames, var : VarIds \cup {Nil}]

PoolType ==
    [head  : [Frames -> [Names -> VarIds \cup {Nil}]],
     tail  : [VarIds -> [Slots -> VarIds \cup {Nil}]],
     value : [VarIds -> Text],
     mark  : [VarIds -> -1..MaxProc],
     live  : SUBSET VarIds,
     cache : [Names -> Leaves]]

FrameType ==
    [calltype : CallTypes, id : 0..(MaxId + 2), scope : Frames,
     r : VarIds \cup {Nil}]

-----------------------------------------------------------------------------
(* Storage.                                                                *)

\* The heads of one scope and the tails of a set of stem objects.
HeadsOf(p, sc) == {p.head[sc][n] : n \in Names} \ {Nil}
TailsOf(p, V)  == {p.tail[v][s] : v \in V, s \in Slots} \ {Nil}

\* Whatever some live object, leaf or result slot still refers to.
InUse(p) ==
    p.live \cup (UNION {HeadsOf(p, sc) : sc \in Frames})
           \cup TailsOf(p, VarIds) \cup {proc[f].r : f \in Frames}

\* MALLOC: three objects are all that one operation can need.
Free  == VarIds \ InUse(pool)
Room  == ~ \A u, v, w \in Free : u = v \/ u = w \/ v = w
Fresh == LET free == Free
         IN  CHOOSE t \in free \X free \X free :
                t[1] # t[2] /\ t[1] # t[3] /\ t[2] # t[3]

Alloc(p, v, val) ==
    [p EXCEPT !.live = @ \cup {v}, !.value[v] = val, !.mark[v] = NoProc]

\* (..Bug: a way the next operator could be wrong; no specification uses it.)
ReleaseBug(p, V, rx) ==  \* frees without looking at `exposed`
    LET all == V \cup TailsOf(p, V)
    IN  [p EXCEPT !.live = @ \ all,
            !.mark = [v \in VarIds |-> IF v \in all THEN NoProc ELSE @[v]]]

\* RxVarFree on the objects in V; a stem frees the objects of its tails.
Release(p, V, rx) ==
    LET stems == {v \in V : p.mark[v] = NoProc}
        all   == V \cup TailsOf(p, stems)
        freed == {v \in all : p.mark[v] = NoProc}
    IN  [p EXCEPT
            !.live  = @ \ freed,
            !.value = [v \in VarIds |-> IF v \in freed THEN Null ELSE @[v]],
            !.tail  = [v \in VarIds |-> IF v \in freed THEN NoTails ELSE @[v]],
            !.mark  = [v \in VarIds |->
                         IF v \in all /\ @[v] = rx - 1 THEN NoProc ELSE @[v]]]

\* RxScopeFree on the tails of the stem object v.
EmptyStem(p, v, rx) ==
    LET q == Release(p, TailsOf(p, {v}), rx)
    IN  [q EXCEPT !.tail[v] = NoTails]

ScopeFreeBug(p, sc, rx) ==  \* the objects are not freed
    [p EXCEPT !.head[sc] = NoHeads]

\* RxScopeFree on the whole scope sc.
ScopeFree(p, sc, rx) ==
    Release([p EXCEPT !.head[sc] = NoHeads], HeadsOf(p, sc), rx)

\* The leaf of the name n in the trees of scope sc: BinAdd, BinDel.
SetHead(p, sc, n, v) == [p EXCEPT !.head[sc][n] = v]

\* BinDel of a name of scope sc.
Remove(p, sc, n, rx) ==
    Release(SetHead(p, sc, n, Nil), {p.head[sc][n]}, rx)

ForgetBug(p, n) == p  \* inf->id is not reset

\* inf->id = NO_CACHE
Forget(p, n) == [p EXCEPT !.cache[n] = NoLeaf]

-----------------------------------------------------------------------------
(* Lookup.  id is interpreRx_id, sc the scope searched, cur the scope of   *)
(* the running frame, in which index variables are looked up.              *)

Cached(p, id, n) == id # NoCache /\ p.cache[n].id = id

\* The leaf found for n in sc becomes the cached one.
Memo(p, id, sc, n) ==
    [p EXCEPT !.cache[n] =
        IF p.head[sc][n] = Nil \/ id = NoCache THEN NoLeaf
        ELSE [id |-> id, scope |-> sc, var |-> p.head[sc][n]]]

SearchName(p, id, sc, n) ==
    IF p.head[sc][n] = Nil THEN p ELSE Memo(p, id, sc, n)

SearchStem(p, id, sc, n) ==
    IF Cached(p, id, n) THEN p ELSE Memo(p, id, sc, n)

SearchIndex(p, id, cur, i) ==
    IF i \in Data \/ Cached(p, id, i) THEN p ELSE SearchName(p, id, cur, i)

HeadVarBug(p, id, sc, n) ==  \* inf->id is not compared
    IF id # NoCache /\ p.cache[n].id # NoCache THEN p.cache[n].var ELSE p.head[sc][n]

HeadVar(p, id, sc, n) ==
    IF Cached(p, id, n) THEN p.cache[n].var ELSE p.head[sc][n]

\* The index of a compound symbol: a variable's value, or its own name.
TailOf(p, id, cur, i) ==
    IF i \in Data \/ HeadVar(p, id, cur, i) = Nil THEN i
    ELSE p.value[HeadVar(p, id, cur, i)]

\* RxVarFind: the pool it leaves, the object (Nil if not found), the stem
\* object and the tail of a compound symbol.
Find(p, id, sc, cur, r) ==
    IF r \in Names
    THEN [pool |-> SearchName(p, id, sc, r), var |-> p.head[sc][r],
          stem |-> Nil, tail |-> Empty]
    ELSE LET h == HeadVar(p, id, sc, r[1])
             t == TailOf(p, id, cur, r[2])
         IN  [pool |-> SearchIndex(SearchStem(p, id, sc, r[1]), id, cur, r[2]),
              var  |-> IF h = Nil THEN Nil ELSE p.tail[h][<<t, "hash">>],
              stem |-> h, tail |-> t]

\* RxVarFindName: the same without caches, indexes looked up in sc itself.
FindName(p, sc, r) == [Find(p, NoCache, sc, sc, r) EXCEPT !.pool = p]

\* The name of r, an unassigned variable's value, when its tail is t; the
\* name as it is written.
OwnName(r, t) == IF r \in Names THEN r ELSE Join[<<r[1], t>>]
Written(r)    == IF r \in Names THEN r ELSE Join[r]

\* RxVarAdd of the object v (and of the stem object w if there is none).
Add(p, sc, r, stem, t, v, w) ==
    IF r \in Names
    THEN SetHead(Alloc(p, v, Empty), sc, r, v)
    ELSE LET h == IF stem = Nil THEN w ELSE stem
             q == IF stem = Nil
                  THEN SetHead(Alloc(p, w, Null), sc, r[1], w)
                  ELSE p
             d == IF q.value[h] = Null THEN Empty ELSE q.value[h]
         IN  [Alloc(q, v, d) EXCEPT !.tail[h][<<t, "hash">>] = v]

\* OP_CREATE (and the first half of RxVarSet): the object r is assigned to.
Create(p, id, sc, r, v, w) ==
    LET f == Find(p, id, sc, sc, r)
        q == Add(f.pool, sc, r, f.stem, f.tail, v, w)
    IN  CASE r \in Names /\ Cached(p, id, r)
               -> [pool |-> p, var |-> p.cache[r].var]
          [] ~(r \in Names /\ Cached(p, id, r)) /\ f.var # Nil
               -> [pool |-> f.pool, var |-> f.var]
          [] OTHER
               -> [pool |-> IF r \in Names THEN Memo(q, id, sc, r) ELSE q,
                   var  |-> v]

Store(p, v, val) == [p EXCEPT !.value[v] = val]

\* RxVarSet of a simple variable, as RxSetSpecialVar calls it.
VarSet(p, id, sc, n, val, v) ==
    LET c == Create(p, id, sc, n, v, v) IN Store(c.pool, c.var, val)

\* RxScopeAssign: every tail of the stem object v takes its value.
ScopeAssign(p, v) ==
    [p EXCEPT !.value = [u \in VarIds |->
        IF u \in TailsOf(p, {v}) THEN @[v] ELSE @[u]]]

-----------------------------------------------------------------------------
(* Dropping and exposing.                                                  *)

\* OP_DROP with RxVarDel.
Drop(p, id, sc, r, rx) ==
    LET hit == r \in Names /\ Cached(p, id, r)
        f == Find(p, id, sc, sc, r)
        q == IF hit THEN p ELSE f.pool
        v == IF hit THEN p.cache[r].var ELSE f.var
    IN  CASE r \notin Names
               -> IF v = Nil THEN q ELSE Store(q, v, OwnName(r, f.tail))
          [] r \in Names /\ v = Nil -> Forget(q, r)
          [] r \in Names /\ v # Nil /\ q.mark[v] # NoProc
               -> Forget(EmptyStem(Store(q, v, IF q.value[v] = Null
                                               THEN Null ELSE r), v, rx), r)
          [] OTHER -> Forget(Remove(q, sc, r, rx), r)

\* One name of RxVarDelInd, with RxVarDelName.
DropName(p, sc, r, rx) ==
    LET f == FindName(p, sc, r)
    IN  CASE f.var = Nil -> p
          [] f.var # Nil /\ p.mark[f.var] # NoProc
               -> EmptyStem(Store(p, f.var, Written(r)), f.var, rx)
          [] f.var # Nil /\ p.mark[f.var] = NoProc /\ r \notin Names
               -> Store(p, f.var, OwnName(r, f.tail))
          [] OTHER -> Forget(Remove(p, sc, r, rx), r)

MarkedBug(p, v, rx) ==  \* the innermost EXPOSE takes over
    [p EXCEPT !.mark[v] = rx - 1]

\* An object belongs to the first frame that exposed it.
Marked(p, v, rx) ==
    IF p.mark[v] = NoProc THEN [p EXCEPT !.mark[v] = rx - 1] ELSE p

\* RxVarExpose, second half: the object v enters the callee's scope sc.
Enter(p, sc, r, t, v, w) ==
    IF r \in Names
    THEN SetHead(p, sc, r, v)
    ELSE LET none == p.head[sc][r[1]] = Nil
             h == IF none THEN w ELSE p.head[sc][r[1]]
             q == IF none
                  THEN SetHead(Alloc(p, w, Null), sc, r[1], w)
                  ELSE p
             s == <<t, IF t \in Split THEN "first" ELSE "hash">>
         IN  IF q.tail[h][s] # Nil THEN q ELSE [q EXCEPT !.tail[h][s] = v]

FindOldBug(p, id, old, sc, r) ==  \* interpreRx_id is not put aside
    Find(p, id, old, sc, r)

\* The caller's scope is searched without caches.
FindOld(p, id, old, sc, r) == Find(p, NoCache, old, sc, r)

\* The caller's variable; one it does not have is created, unassigned.
OldVar(p, id, old, sc, r, v, w) ==
    LET g == FindOld(p, id, old, sc, r)
    IN  IF g.var # Nil THEN [pool |-> g.pool, var |-> g.var, tail |-> g.tail]
        ELSE [pool |-> Store(Add(g.pool, old, r, g.stem, g.tail, v, w),
                             v, OwnName(r, g.tail)),
              var  |-> v,
              tail |-> g.tail]

\* RxVarExpose of r from the caller's scope old into the scope sc.
Expose(p, id, sc, old, r, rx, new) ==
    LET f == Find(p, id, sc, sc, r)
        o == OldVar(f.pool, id, old, sc, r, new[1], new[2])
    IN  IF \/ f.var # Nil
           \/ f.stem # Nil /\ p.mark[f.stem] # NoProc
        THEN f.pool
        ELSE Enter(Marked(o.pool, o.var, rx), sc, r, o.tail, o.var, new[3])

-----------------------------------------------------------------------------
(* The interpreter's steps.                                                *)

Running == rx_proc >= 0 /\ ~closing /\ pending = << >>

Id    == proc[rx_proc].id
Scope == proc[rx_proc].scope

Init ==
    /\ pool = [head  |-> [f \in Frames |-> NoHeads],
               tail  |-> [v \in VarIds |-> NoTails],
               value |-> [v \in VarIds |-> Null],
               mark  |-> [v \in VarIds |-> NoProc],
               live  |-> {},
               cache |-> [n \in Names |-> NoLeaf]]
    /\ proc = [f \in Frames |-> IF f = 0 THEN [NoFrame EXCEPT !.id = 1]
                                         ELSE NoFrame]
    /\ rx_proc = 0
    /\ procidcnt = 2
    /\ pending = << >>
    /\ closing = FALSE

\* OP_LOAD: a read resolves the symbol and fills the caches.
Load(r) ==
    /\ Running
    /\ ~(r \in Names /\ Cached(pool, Id, r))
    /\ pool' = Find(pool, Id, Scope, Scope, r).pool
    /\ UNCHANGED <<proc, rx_proc, procidcnt, pending, closing>>

\* r = val: OP_CREATE, the expression, OP_COPY and, for a stem, OP_ASSIGNSTEM.
\* (With a call in the expression it is CallShared or CallProcedure, and with
\* an error Trap, that does the OP_CREATE.)
Assign(r, val) ==
    /\ Running /\ Room
    /\ LET c == Create(pool, Id, Scope, r, Fresh[1], Fresh[2])
           q == Store(c.pool, c.var, val)
       IN  pool' = IF r \in Stems THEN ScopeAssign(q, c.var) ELSE q
    /\ UNCHANGED <<proc, rx_proc, procidcnt, pending, closing>>

\* DROP r.
DropVar(r) ==
    /\ Running
    /\ pool' = Drop(pool, Id, Scope, r, rx_proc)
    /\ UNCHANGED <<proc, rx_proc, procidcnt, pending, closing>>

\* DROP (list), or the drop request of EXECCOMM: the names one by one.
DropList(ws) ==
    /\ Running /\ ws # << >>
    /\ pending' = [i \in 1..Len(ws) |-> [op |-> "drop", ref |-> ws[i]]]
    /\ UNCHANGED <<pool, proc, rx_proc, procidcnt, closing>>

DropNext ==
    /\ pending # << >> /\ Head(pending).op = "drop"
    /\ pool' = DropName(pool, Scope, Head(pending).ref, rx_proc)
    /\ pending' = Tail(pending)
    /\ UNCHANGED <<proc, rx_proc, procidcnt, closing>>

\* VALUE(name, val, k) and the set request of EXECCOMM: the pool of frame k.
PoolSet(k, r, val) ==
    /\ Running /\ Room
    /\ LET sc == proc[k].scope
           f == FindName(pool, sc, r)
           v == IF f.var = Nil THEN Fresh[1] ELSE f.var
           q == IF f.var = Nil
                THEN Add(pool, sc, r, f.stem, f.tail, Fresh[1], Fresh[2])
                ELSE pool
       IN  pool' = Store(q, v, val)
    /\ UNCHANGED <<proc, rx_proc, procidcnt, pending, closing>>

\* SIGNAL label: SIGL is set in the running frame.
Signal(line) ==
    /\ Running /\ Room
    /\ pool' = VarSet(pool, Id, Scope, Sigl, line, Fresh[1])
    /\ UNCHANGED <<proc, rx_proc, procidcnt, pending, closing>>

\* I_MakeArgs: a frame that starts as a copy of the caller's.
Push(kind, slot) ==
    /\ rx_proc < MaxProc
    /\ rx_proc' = rx_proc + 1
    /\ proc' = [proc EXCEPT ![rx_proc + 1] =
                   [proc[rx_proc] EXCEPT !.calltype = kind, !.r = slot]]

\* OP_CREATE of target = expression, which comes before the expression; a
\* function called elsewhere has a temporary (Nil) for its result.
Created(target) ==
    IF target # Nil THEN Create(pool, Id, Scope, target, Fresh[1], Fresh[2])
    ELSE [pool |-> pool, var |-> Nil]

\* A routine without PROCEDURE runs in its caller's scope.  The slot is where
\* the value of target = f() goes, or of an expression that f() is part of.
\* I_CallFunction sets SIGL in the caller's scope.
CallShared(kind, target, line) ==
    /\ Running /\ Room
    /\ LET c == Created(target)
       IN  /\ Push(kind, c.var)
           /\ pool' = VarSet(c.pool, Id, Scope, Sigl, line, Fresh[3])
    /\ UNCHANGED <<procidcnt, pending, closing>>

NewFrameBug(kind, slot) ==  \* no id of its own
    [calltype |-> kind, id |-> Id, scope |-> rx_proc + 1, r |-> slot]

NewFrame(kind, slot) ==
    [calltype |-> kind, id |-> procidcnt + 1, scope |-> rx_proc + 1, r |-> slot]

\* A routine that starts with PROCEDURE EXPOSE list: a new id, a new scope.
CallProcedure(kind, target, line, list) ==
    /\ Running /\ Room
    /\ rx_proc < MaxProc
    /\ procidcnt < MaxId + 2
    /\ LET c == Created(target)
       IN  /\ pool' = VarSet(c.pool, Id, Scope, Sigl, line, Fresh[3])
           /\ proc' = [proc EXCEPT ![rx_proc + 1] = NewFrame(kind, c.var)]
    /\ rx_proc' = rx_proc + 1
    /\ procidcnt' = procidcnt + 1
    /\ pending' = list
    /\ UNCHANGED closing

\* The next name of the PROCEDURE's list.  A name from a parenthesised
\* variable's value is exposed only if the program text contains it.
ExposeNext ==
    /\ pending # << >> /\ Head(pending).op \in {"expose", "name"}
    /\ Room
    /\ LET r == Head(pending).ref
       IN  pool' = IF Head(pending).op = "name" /\ r \notin Lits THEN pool
                   ELSE Expose(pool, Id, Scope, proc[rx_proc - 1].scope, r,
                               rx_proc, Fresh)
    /\ pending' = Tail(pending)
    /\ UNCHANGED <<proc, rx_proc, procidcnt, closing>>

\* (name): the variable is exposed, then looked up in the caller's scope,
\* and the names in its value follow.
ExposeIndirect ==
    /\ pending # << >> /\ Head(pending).op = "list"
    /\ Room
    /\ LET r == Head(pending).ref
           old == proc[rx_proc - 1].scope
           q == Expose(pool, Id, Scope, old, r, rx_proc, Fresh)
           f == Find(q, Id, old, Scope, r)
           ws == IF f.var = Nil THEN << >> ELSE WordsOf[q.value[f.var]]
       IN  /\ pool' = f.pool
           /\ pending' = [i \in 1..Len(ws) |-> [op |-> "name", ref |-> ws[i]]]
                             \o Tail(pending)
    /\ UNCHANGED <<proc, rx_proc, procidcnt, closing>>

\* INTERPRET: a frame that shares everything with the one below it.
Interpret ==
    /\ Running
    /\ Push("INTERPRET", Nil)
    /\ UNCHANGED <<pool, procidcnt, pending, closing>>

\* OP_INTER_END (RxDoneInterStr).
InterEnd ==
    /\ Running /\ rx_proc > 0 /\ proc[rx_proc].calltype = "INTERPRET"
    /\ rx_proc' = rx_proc - 1
    /\ proc' = [proc EXCEPT ![rx_proc] = NoFrame]
    /\ UNCHANGED <<pool, procidcnt, pending, closing>>

\* A condition trap: SIGL is set in the running frame, then every INTERPRET
\* on top is left (RxSignalCondition and the longjmp it takes).  Raised by the
\* expression of target = expression, it comes after the OP_CREATE.
Trap(target, line) ==
    /\ Running /\ Room
    /\ pool' = VarSet(Created(target).pool, Id, Scope, Sigl, line, Fresh[3])
    /\ \E f \in 0..rx_proc :
        /\ proc[f].calltype # "INTERPRET"
        /\ \A g \in (f + 1)..rx_proc : proc[g].calltype = "INTERPRET"
        /\ rx_proc' = f
        /\ proc' = [g \in Frames |-> IF g <= f THEN proc[g] ELSE NoFrame]
    /\ UNCHANGED <<procidcnt, pending, closing>>

PopToBug(f) ==  \* only the INTERPRETs are left
    /\ f > 0
    /\ proc[f].calltype # "INTERPRET"
    /\ \A g \in (f + 1)..rx_proc : proc[g].calltype = "INTERPRET"
    /\ rx_proc' = f
    /\ proc' = [g \in Frames |-> IF g < f THEN proc[g] ELSE NoFrame]

\* I_ReturnProc for the INTERPRETs on top and for the routine at f itself:
\* a scope of its own is freed.
PopTo(f) ==
    /\ f > 0
    /\ proc[f].calltype # "INTERPRET"
    /\ \A g \in (f + 1)..rx_proc : proc[g].calltype = "INTERPRET"
    /\ rx_proc' = f - 1
    /\ proc' = [g \in Frames |-> IF g < f THEN proc[g] ELSE NoFrame]

AfterPop(f) ==
    IF proc[f].scope # proc[f - 1].scope
    THEN ScopeFree(pool, proc[f].scope, f) ELSE pool

\* RETURN without a value: a function must return one.
Return ==
    /\ Running
    /\ \E f \in 1..rx_proc :
        /\ PopTo(f) /\ proc[f].calltype = "PROCEDURE"
        /\ pool' = AfterPop(f)
    /\ UNCHANGED <<procidcnt, pending, closing>>

\* RETURN val: into the result slot of a function, or RESULT of a caller.
ReturnF(val) ==
    /\ Running /\ Room
    /\ \E f \in 1..rx_proc :
        /\ PopTo(f)
        /\ pool' =
             IF proc[f].calltype = "PROCEDURE"
             THEN VarSet(AfterPop(f), proc[f - 1].id, proc[f - 1].scope,
                         Result, val, Fresh[1])
             ELSE IF proc[f].r \in pool.live
                  THEN LET q == Store(pool, proc[f].r, val)
                       IN  IF proc[f].scope # proc[f - 1].scope
                           THEN ScopeFree(q, proc[f].scope, f) ELSE q
                  ELSE AfterPop(f)
    /\ UNCHANGED <<procidcnt, pending, closing>>

\* EXIT, the end of the program, or an untrapped error.
Exit ==
    /\ Running
    /\ closing' = TRUE
    /\ UNCHANGED <<pool, proc, rx_proc, procidcnt, pending>>

\* interpreter_fin and RxRun free the scopes from the top down.
Unwind ==
    /\ closing /\ rx_proc >= 0
    /\ pool' = IF rx_proc = 0 \/ proc[rx_proc].scope # proc[rx_proc - 1].scope
               THEN ScopeFree(pool, Scope, rx_proc) ELSE pool
    /\ rx_proc' = rx_proc - 1
    /\ proc' = [proc EXCEPT ![rx_proc] = NoFrame]
    /\ UNCHANGED <<procidcnt, pending, closing>>

Next ==
    \/ \E r \in Lits : Load(r) \/ DropVar(r)
    \/ \E r \in Lits, val \in Data : Assign(r, val)
    \/ \E ws \in DropLists : DropList(ws)
    \/ DropNext
    \/ \E k \in 0..rx_proc, r \in PoolNames, val \in Data : PoolSet(k, r, val)
    \/ \E line \in Data : Signal(line)
    \/ \E line \in Data, target \in Targets \cup {Nil} :
          \/ Trap(target, line)
          \/ CallShared("FUNCTION", target, line)
          \/ \E list \in ExposeLists :
                CallProcedure("FUNCTION", target, line, list)
    \/ \E line \in Data :
          \/ CallShared("PROCEDURE", Nil, line)
          \/ \E list \in ExposeLists :
                CallProcedure("PROCEDURE", Nil, line, list)
    \/ ExposeNext \/ ExposeIndirect
    \/ Interpret \/ InterEnd
    \/ Return \/ \E val \in Data : ReturnF(val)
    \/ Exit \/ Unwind

Spec == Init /\ [][Next]_vars

-----------------------------------------------------------------------------
(* Properties.                                                             *)

Active == 0..rx_proc
Scopes == {proc[f].scope : f \in Active}

\* Every variable keeps its type; what is left of a frame or of freed storage
\* is cleared, and only the main program runs as one.
TypeOK ==
    /\ pool \in PoolType
    /\ proc \in [Frames -> FrameType]
    /\ rx_proc \in -1..MaxProc
    /\ procidcnt \in 0..(MaxId + 2)
    /\ pending \in Seq([op : Ops, ref : Refs])
    /\ closing \in BOOLEAN
    /\ \A f \in Frames \ Active : proc[f] = NoFrame
    /\ \A f \in Active : proc[f].calltype = "PROGRAM" <=> f = 0

\* A frame runs in the scope of the frame below or in one that it opened, and
\* two frames have one id exactly if they share a scope: interpreRx_id can
\* stand for the scope in the caches.  No id was given out in advance.
FramesOK ==
    /\ \A f \in Active \ {0} : proc[f].scope \in {proc[f - 1].scope, f}
    /\ \A f, g \in Active :
        proc[f].id = proc[g].id <=> proc[f].scope = proc[g].scope
    /\ \A f \in Active : 1 <= proc[f].id /\ proc[f].id <= procidcnt
    /\ \A n \in Names : pool.cache[n].id <= procidcnt

\* A leaf cached for a running activation is the one its scope holds: no
\* access through the cache reaches another activation's variable or storage
\* that was freed (RxVarFind, OP_LOAD, OP_CREATE, OP_DROP, RxVarSet).
CacheCoherent ==
    \A f \in Active, n \in Names :
        pool.cache[n].id = proc[f].id =>
            /\ pool.cache[n].var # Nil
            /\ pool.cache[n].var = pool.head[proc[f].scope][n]

Holders(n, v) == {sc \in Scopes : pool.head[sc][n] = v}

\* The `exposed` mark of a simple variable or stem decides who frees it
\* (RxVarFree): unmarked, exactly one scope holds it; marked m, the frame
\* m + 1 is a PROCEDURE that got it by EXPOSE from frame m's scope, and all
\* other holders were called, directly or not, from there.
HeadMarks ==
    \A sc \in Scopes, n \in Names :
        LET v == pool.head[sc][n]
            m == pool.mark[v]
        IN  v # Nil =>
              IF m = NoProc THEN Holders(n, v) = {sc}
              ELSE /\ m + 1 \in Active /\ proc[m + 1].scope = m + 1
                   /\ {proc[m].scope, m + 1} \subseteq Holders(n, v)
                   /\ \A h \in Holders(n, v) : h = proc[m].scope \/ h > m

\* A scope that is in use refers to storage in use, for two names to two
\* objects; a scope that is not in use refers to nothing.
HeadsLive ==
    \A sc \in Frames, n \in Names :
        LET v == pool.head[sc][n]
        IN  v # Nil =>
              /\ sc \in Scopes /\ v \in pool.live
              /\ \A k \in Scopes, m \in Names : pool.head[k][m] = v => m = n

\* The tails of every stem in use are objects in use: an exposed variable may
\* be exposed again in a deeper routine (help/procedur.helprexx:22).  RxVarFree
\* does not keep it: it takes a mark off by its depth alone, also one that was
\* left behind by a DROP in a frame above.
TailsLive ==
    \A v \in pool.live : TailsOf(pool, {v}) \subseteq pool.live

\* Nothing is lost: every object in use belongs to a scope in use.
NoLeak ==
    pool.live \subseteq
        LET heads == UNION {HeadsOf(pool, sc) : sc \in Scopes}
        IN  heads \cup TailsOf(pool, heads)

\* What a scope can reach: its heads and the tails of its stems.
Reach(sc) ==
    LET heads == HeadsOf(pool, sc) IN heads \cup TailsOf(pool, heads)

\* A routine without access to a variable can neither change nor free it; only
\* VALUE and EXECCOMM name another frame's pool on purpose.
Isolated ==
    /\ rx_proc' >= rx_proc /\ ~closing
    /\ ~ \E k \in Active, r \in PoolNames, val \in Data : PoolSet(k, r, val)
    => \A v \in pool.live \ Reach(Scope) :
           v \in pool'.live /\ pool'.value[v] = pool.value[v]

Isolation == [][Isolated]_vars

\* What the running routine and its caller mean by r in the pool p is one
\* variable: the same object, or a tail still to come of the same stem.
Ours(p, r)   == Find(p, NoCache, Scope, Scope, r)
Theirs(p, r) == Find(p, NoCache, proc[rx_proc - 1].scope, Scope, r)
Common(p, r) ==
    /\ Ours(p, r).var = Theirs(p, r).var
    /\ Ours(p, r).var = Nil =>
          Ours(p, r).stem # Nil /\ Ours(p, r).stem = Theirs(p, r).stem

\* What EXPOSE does not share: a stem after one of its tails, and a tail that
\* is entered in one tree and searched in another.
Overtaken(r) == r \in Stems /\ pool.head[Scope][r] # Nil /\ ~Common(pool, r)
Misplaced(r) ==
    /\ r \notin Names /\ Ours(pool', r).tail \in Split
    /\ Ours(pool', r).stem # Theirs(pool', r).stem

\* After EXPOSE of a name, these two apart, it means one variable to the
\* routine and to its caller, and so does every name that did before, those of
\* the names to its left among them (RxVarExpose; an index is looked up among
\* the routine's variables).
Shared ==
    pending # << >> /\ Head(pending).op = "expose" =>
        LET r == Head(pending).ref
        IN  /\ Common(pool', r) \/ Overtaken(r) \/ Misplaced(r)
            /\ \A n \in Names \cup (Stems \X Data) :
                  Common(pool, n) => Common(pool', n)

ExposeShares == [][Shared]_vars

\* x = f(): when f returns a value, x has it.  The result goes straight to
\* the storage that OP_CREATE found for x before the call.
Landed ==
    \A val \in Data, f \in Active \ {0} :
        /\ ReturnF(val) /\ rx_proc' = f - 1
        /\ proc[f].calltype = "FUNCTION" /\ proc[f].r # Nil
        => proc[f].r \in pool'.live /\ pool'.value[proc[f].r] = val

ResultLands == [][Landed]_vars

\* DROP leaves a variable unassigned.
Dropped ==
    \A r \in Lits :
        DropVar(r) => Find(pool', NoCache, Scope, Scope, r).var = Nil
DropUnassigns == [][Dropped]_vars

\* A routine called by CALL that returns no value leaves RESULT unassigned.
Unresulted ==
    Return => pool'.head[proc[rx_proc'].scope][Result] = Nil
ReturnUnsetsResult == [][Unresulted]_vars
=============================================================================
