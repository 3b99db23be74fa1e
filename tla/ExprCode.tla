----------------------------- MODULE ExprCode -----------------------------
(* Expressions: the recursive descent of expr.c, which inserts places for  *)
(* results into code it has already made and lets the last operator store  *)
(* into the variable assigned; and the instructions it makes, on a stack   *)
(* of references to variables, literals and temporaries.  Values are       *)
(* terms: what was applied to what.                                        *)
EXTENDS Integers, Sequences, SequencesExt, FiniteSets

CONSTANTS
    Symbol,      \* symbols of an expression: [k, name, blank], see Token
    Given(_)     \* the symbols an expression may go on with (bounds the run)

VARIABLES
    text,        \* the symbols of the expression
    calltype,    \* of C_expr: "exp_assign", "exp_tmp" or "exp_normal"
    phase,       \* "read", "run", "end", "refused" or "astray"
    code,        \* the clause's code
    pc,          \* interpreRxcip
    stack,       \* interpre_RxStck: references
    mem,         \* the value each reference stands for
    slot         \* history: rexxrxArg.r and .a of the last call

vars == <<text, calltype, phase, code, pc, stack, mem, slot>>

-----------------------------------------------------------------------------
(* Symbols, by the place they have in nextsymb.h's order.                  *)
Prefix      == {"minus_sy", "not_sy", "plus_sy"}
Comparisons == {"eq_sy", "gt_sy"}
Products    == {"times_sy", "intdiv_sy"}
StartsTerm  == {"ident_sy", "function_sy", "literal_sy", "le_parent"} \cup Prefix \cup {"dot_sy"}
EndsTerm    == {"ident_sy", "literal_sy", "ri_parent", "dot_sy"}

\* A parse in progress: p.at the current symbol, p.ct and p.pos expr_exp_ct
\* and expr_exp_pos, p.bad once Lerror was called.
sy(p) == IF p.at > Len(text) THEN "semicolon_sy" ELSE text[p.at].k
nextsymbolPrevBlank(p) == p.at <= Len(text) /\ text[p.at].blank
nextsymbol(p) == [p EXCEPT !.at = @ + 1]
Lerror(p)     == [p EXCEPT !.bad = TRUE]
Add(p, ins)   == [p EXCEPT !.code = Append(@, ins)]

I(op)       == [op |-> op, name |-> "none", exist |-> << >>]
On(op, nm)  == [I(op) EXCEPT !.name = nm]

_mustbe(p, s) == IF sy(p) = s THEN nextsymbol(p) ELSE Lerror(p)

\* _CodeInsByte: the code from pos on moves up.
CodeIns(p, pos, ins) == [p EXCEPT !.code = InsertAt(@, pos + 1, ins)]

InsTmpBug(p, pos) ==       \* the variable stays the place of every result
    IF p.ct = "exp_assign" /\ p.pos = pos THEN p ELSE CodeIns(p, pos, I("PUSHTMP"))

\* A place for a result below what starts at pos: the variable assigned, the
\* first time its expression starts there, or else a temporary.
InsTmp(p, pos) ==
    IF p.ct = "exp_assign" /\ p.pos = pos THEN [p EXCEPT !.ct = "exp_normal"]
    ELSE CodeIns(p, pos, I("PUSHTMP"))

\* An operator between what starts at pos and what q has read after it.
Infix(p, pos, q, op) ==
    IF q.bad \/ Len(p.code) = pos \/ Len(q.code) = Len(p.code) THEN Lerror(q)
    ELSE Add(InsTmp(q, pos), I(op))

RECURSIVE Exp(_, _), Rest(_, _, _), Exp7(_), Arguments(_, _)

Arg(p, exist) ==
    IF sy(p) \in {"comma_sy", "ri_parent"} THEN [p |-> p, exist |-> Append(exist, FALSE)]
    ELSE [p |-> Exp(0, p), exist |-> Append(exist, TRUE)]

\* The arguments after the first; exist tells which are there.
Arguments(p, exist) ==
    IF p.bad \/ sy(p) # "comma_sy" THEN [p |-> p, exist |-> exist]
    ELSE LET a == Arg(nextsymbol(p), exist) IN Arguments(a.p, a.exist)

C_function(p) ==
    LET name   == text[p.at].name
        placed == IF p.ct = "exp_assign" /\ p.pos = Len(p.code) THEN [p EXCEPT !.ct = "exp_normal"]
                  ELSE Add(p, I("PUSHTMP"))
        begun  == nextsymbol(placed)
        first  == IF sy(begun) = "ri_parent" THEN [p |-> begun, exist |-> << >>] ELSE Arg(begun, << >>)
        args   == Arguments(first.p, first.exist)
        lastarg == SelectLastInSeq(args.exist, LAMBDA e : e)
    IN  Add(args.p, [On("CALL", name) EXCEPT !.exist = SubSeq(args.exist, 1, lastarg)])

Exp8(p) ==
    CASE p.bad -> p
      [] ~p.bad /\ sy(p) = "ident_sy" -> nextsymbol(Add(p, On("LOAD", text[p.at].name)))
      [] ~p.bad /\ sy(p) \in {"literal_sy", "dot_sy"} -> nextsymbol(Add(p, On("PUSH", text[p.at].name)))
      [] ~p.bad /\ sy(p) = "function_sy" -> _mustbe(C_function(p), "ri_parent")
      [] ~p.bad /\ sy(p) = "le_parent" -> _mustbe(Exp(0, nextsymbol(p)), "ri_parent")
      [] OTHER -> p

Exp7(p) ==
    IF p.bad \/ sy(p) \notin Prefix THEN Exp8(p)
    ELSE LET q == Exp7(nextsymbol(p))
         IN  IF q.bad \/ Len(q.code) = Len(p.code) THEN Lerror(q)
             ELSE Add(InsTmp(q, Len(p.code)), I(sy(p)))

\* The instruction each of Exp0 to Exp6 makes of the symbol p is at, if any.
Of(p, symbols) == IF sy(p) \in symbols THEN sy(p) ELSE "none"

Exp0Op(p) == Of(p, {"or_sy", "xor_sy"})
Exp1Op(p) == Of(p, {"and_sy"})
Exp2Op(p) == Of(p, Comparisons)
\* Whether two terms side by side have a blank between them was noted when
\* the second one's first symbol was read.
Exp3Op(p) == CASE sy(p) = "concat_sy" -> "CONCAT"
               [] sy(p) \in StartsTerm -> IF nextsymbolPrevBlank(p) THEN "BCONCAT" ELSE "CONCAT"
               [] OTHER -> "none"
Exp4Op(p) == CASE sy(p) = "plus_sy" -> "ADD" [] sy(p) = "minus_sy" -> "SUB" [] OTHER -> "none"
Exp5Op(p) == Of(p, Products)
Exp6Op(p) == Of(p, {"power_sy"})

OpAt(n, p) == CASE n = 0 -> Exp0Op(p) [] n = 1 -> Exp1Op(p) [] n = 2 -> Exp2Op(p) [] n = 3 -> Exp3Op(p)
                [] n = 4 -> Exp4Op(p) [] n = 5 -> Exp5Op(p) [] n = 6 -> Exp6Op(p)

\* Exp0 to Exp6: operands of the next level with operators of level n
\* between them, of which Exp2 takes one at most.
Exp(n, p) == IF n = 7 THEN Exp7(p) ELSE Rest(n, Exp(n + 1, p), Len(p.code))
Rest(n, p, pos) ==
    IF p.bad \/ OpAt(n, p) = "none" THEN p
    ELSE LET side == n = 3 /\ sy(p) # "concat_sy"
             q    == Infix(p, pos, Exp(n + 1, IF side THEN p ELSE nextsymbol(p)), OpAt(n, p))
         IN  IF n = 2 THEN q ELSE Rest(n, q, pos)

\* C_expr in the clause that calls it: an assignment creates its variable
\* first, and takes off what C_expr has left.
C_expr ==
    LET before == IF calltype = "exp_assign" THEN <<On("CREATE", "x")>> ELSE << >>
        pos    == Len(before)
        p      == Exp(0, [at |-> 1, code |-> before, ct |-> calltype, pos |-> pos, bad |-> FALSE])
        q      == IF Len(p.code) = pos THEN Add(p, On("PUSH", "null")) ELSE p
    IN  CASE q.ct = "exp_assign" -> Add(q, I("COPY"))
          [] q.ct = "exp_tmp"    -> Add(q, I("COPY2TMP"))
          [] q.ct = "exp_normal" -> IF calltype = "exp_assign" THEN Add(q, I("POP")) ELSE q

-----------------------------------------------------------------------------
(* References and terms.                                                   *)
Var(n) == <<"var", n>>
Lit(n) == <<"lit", n>>
Tmp(k) == <<"tmp", k>>

Leaf(n)      == <<n>>
Apply(op, s) == <<op>> \o s
Null         == Leaf("null")

Top        == Len(stack)
STACKP(n)  == stack[Top - n]
STACKTOP   == STACKP(0)
Store(r, v) == r :> v @@ mem
Drop(n)    == SubSeq(stack, 1, Top - n)
Op         == code[pc]

\* What an instruction uses of the stack: its operands, the result's place.
Real(exist) == Cardinality({i \in 1..Len(exist) : exist[i]})
Used ==
    CASE Op.op \in {"CREATE", "LOAD", "PUSH", "PUSHTMP"} -> 0
      [] Op.op \in {"POP", "COPY2TMP"} -> 1
      [] Op.op \in Prefix \cup {"COPY"} -> 2
      [] Op.op = "CALL" -> Real(Op.exist) + 1
      [] OTHER -> 3
Running    == phase = "run" /\ pc <= Len(code)
Runs(ops)  == Running /\ Op.op \in ops /\ Used <= Top
Onward     == pc' = pc + 1 /\ UNCHANGED <<text, calltype, phase, code>>

Init ==
    /\ text = << >>
    /\ calltype \in {"exp_assign", "exp_tmp", "exp_normal"}
    /\ phase = "read"
    /\ code = << >> /\ pc = 1 /\ stack = << >>
    /\ mem = [r \in {Var("x"), Var("y")} |-> <<r[2]>>]
    /\ slot = [r |-> << >>, a |-> << >>]

Read ==
    /\ phase = "read"
    /\ \E s \in Given(text) : text' = Append(text, s)
    /\ UNCHANGED <<calltype, phase, code, pc, stack, mem, slot>>

\* The expression ends where C_expr stops: anything more is an error.
Compile ==
    /\ phase = "read"
    /\ LET p == C_expr
       IN  IF p.bad \/ p.at <= Len(text) THEN phase' = "refused" /\ UNCHANGED code
           ELSE phase' = "run" /\ code' = p.code
    /\ UNCHANGED <<text, calltype, pc, stack, mem, slot>>

\* OP_CREATE and OP_LOAD of a variable, OP_PUSH of a literal.
Load ==
    /\ Runs({"CREATE", "LOAD", "PUSH"})
    /\ LET r == IF Op.op = "PUSH" THEN Lit(Op.name) ELSE Var(Op.name)
       IN  /\ stack' = Append(stack, r)
           /\ mem' = IF Op.op = "PUSH" THEN Store(r, Leaf(Op.name)) ELSE mem
    /\ Onward
    /\ UNCHANGED slot

\* A temporary string belongs to its place on the stack; what it held stays.
PushTmp ==
    /\ Runs({"PUSHTMP"})
    /\ stack' = Append(stack, Tmp(Top + 1))
    /\ mem' = IF Tmp(Top + 1) \in DOMAIN mem THEN mem ELSE Store(Tmp(Top + 1), Null)
    /\ Onward
    /\ UNCHANGED slot

Pop ==
    /\ Runs({"POP"})
    /\ stack' = Drop(1)
    /\ Onward
    /\ UNCHANGED <<mem, slot>>

Copy ==
    /\ Runs({"COPY"})
    /\ mem' = Store(STACKP(1), mem[STACKTOP])
    /\ stack' = Drop(2)
    /\ Onward
    /\ UNCHANGED slot

Copy2Tmp ==
    /\ Runs({"COPY2TMP"})
    /\ mem' = Store(Tmp(Top), mem[STACKTOP])
    /\ stack' = Append(Drop(1), Tmp(Top))
    /\ Onward
    /\ UNCHANGED slot

\* The two operands, and the place of the result below them.
Binary(ops) ==
    /\ Runs(ops)
    /\ mem' = Store(STACKP(2), Apply(Op.op, <<mem[STACKP(1)], mem[STACKTOP]>>))
    /\ stack' = Drop(2)
    /\ Onward
    /\ UNCHANGED slot

Compare == Binary(Comparisons)
Logic   == Binary({"and_sy", "or_sy", "xor_sy"})
Arith   == Binary({"ADD", "SUB", "power_sy"} \cup Products)

\* Lstrcpy of the first operand, Lstrcat of the second, unless that is the
\* result's own place: then it is saved first.
ConcatBug ==               \* not saved
    /\ Runs({"CONCAT", "BCONCAT"})
    /\ LET copied == Store(STACKP(2), mem[STACKP(1)])
       IN  mem' = STACKP(2) :> Apply(Op.op, <<mem[STACKP(1)], copied[STACKTOP]>>) @@ mem
    /\ stack' = Drop(2)
    /\ Onward
    /\ UNCHANGED slot

Concat ==
    /\ Runs({"CONCAT", "BCONCAT"})
    /\ LET aside  == IF STACKP(2) = STACKTOP THEN Tmp(Top) ELSE STACKTOP
           saved  == Store(aside, mem[STACKTOP])
           copied == STACKP(2) :> saved[STACKP(1)] @@ saved
       IN  mem' = STACKP(2) :> Apply(Op.op, <<saved[STACKP(1)], copied[aside]>>) @@ copied
    /\ stack' = Drop(2)
    /\ Onward
    /\ UNCHANGED slot

UnaryBug ==                \* in place
    /\ Runs(Prefix)
    /\ mem' = Store(STACKTOP, Apply(Op.op, <<mem[STACKTOP]>>))
    /\ stack' = Append(Drop(2), STACKTOP)
    /\ Onward
    /\ UNCHANGED slot

\* OP_NEG, OP_PLUS and OP_NOT
Unary ==
    /\ Runs(Prefix)
    /\ mem' = Store(STACKP(1), Apply(Op.op, <<mem[STACKTOP]>>))
    /\ stack' = Drop(1)
    /\ Onward
    /\ UNCHANGED slot

\* Where the i-th argument is on the stack: the last one is on top.
Place(exist, i) == Top - Cardinality({j \in i + 1..Len(exist) : exist[j]})

\* I_MakeIntArgs: an argument that is where the result goes is copied.
MakeIntArgs(exist) ==
    LET r == stack[Top - Real(exist)]
    IN  [r |-> r,
         a |-> [i \in 1..Len(exist) |->
                  IF ~exist[i] THEN << >>
                  ELSE IF stack[Place(exist, i)] = r THEN Tmp(Place(exist, i))
                  ELSE stack[Place(exist, i)]]]

\* OP_CALL of a built-in function.
Call ==
    /\ Runs({"CALL"})
    /\ slot' = MakeIntArgs(Op.exist)
    /\ LET copied == [i \in {j \in 1..Len(Op.exist) : Op.exist[j]} |-> mem[stack[Place(Op.exist, i)]]]
           value  == Apply(Op.name, [i \in 1..Len(Op.exist) |->
                                        IF Op.exist[i] THEN copied[i] ELSE Leaf("omitted")])
           saved  == [k \in {slot'.a[i] : i \in DOMAIN copied} |->
                        copied[CHOOSE i \in DOMAIN copied : slot'.a[i] = k]]
       IN  mem' = slot'.r :> value @@ saved @@ mem
    /\ stack' = Drop(Real(Op.exist))
    /\ Onward

\* An instruction whose operands are not there takes what lies below the
\* clause's own: nothing is said of what follows.
Astray ==
    /\ Running /\ Used > Top
    /\ phase' = "astray"
    /\ UNCHANGED <<text, calltype, code, pc, stack, mem, slot>>

Finish ==
    /\ phase = "run" /\ pc > Len(code)
    /\ phase' = "end"
    /\ UNCHANGED <<text, calltype, code, pc, stack, mem, slot>>

Next ==
    \/ Read \/ Compile \/ Load \/ PushTmp \/ Pop \/ Copy \/ Copy2Tmp
    \/ Compare \/ Logic \/ Arith \/ Concat \/ Unary \/ Call \/ Astray \/ Finish

Spec == Init /\ [][Next]_vars
=============================================================================
