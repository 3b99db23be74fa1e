------------------------------ MODULE Machine ------------------------------
(* The interpreter (RxInterpret) on the code Clauses makes: the operand    *)
(* stack as far as clauses keep values on it, jumps, calls and returns.    *)
(* An operand's value is left open; an entry of the stack says which loop  *)
(* it was kept for.  JF, JT and DECFOR may go either way.                  *)
EXTENDS Clauses

CONSTANTS
    MaxCalls,     \* routines called and not returned
    MaxStack,     \* operands on the stack
    Endings,      \* sequences of clauses a text could end with
    Runs(_)       \* which of the texts accepted are run (bounds the run)

VARIABLES
    pc,       \* interpreRxcip
    stack,    \* interpre_RxStck up to interpre_RxStckTop
    callers,  \* the activations below: [pc, base, at, keep]
    base,     \* stacktop of the activation
    at,       \* history: the clause announced last
    how       \* history: what happened since, see Structure

mvars == <<pc, stack, callers, base, at, how>>
vars  == <<cvars, mvars>>

ASSUME MachineConstants == MaxCalls \in Nat /\ MaxStack \in Nat

Value == [of |-> 0, role |-> "value", neg |-> FALSE]
Op    == code[pc]
Entry(n) == stack[Len(stack) - n]

-----------------------------------------------------------------------------
\* How many entries more or less an instruction leaves on the stack.
Stacking == [NOP |-> 0, PUSH |-> 1, PUSHTMP |-> 1, COPY |-> -2, COPY2TMP |-> 0]
Loading  == [LOADARG |-> 1, LOADOPT |-> 1, STOREOPT |-> -1, LOAD |-> 1, CREATE |-> 1,
             DROP |-> 0, DROPIND |-> -1, ASSIGNSTEM |-> 0]
Casing   == [LOWER |-> 0, UPPER |-> 0]
Interpreting == [INTERPRET |-> -1]
Output   == [SAY |-> -1, SYSTEM |-> -2]
Parsing  == [PARSE |-> 0, PVAR |-> -1]
Queueing == [RX_QUEUE |-> -1, RX_PUSH |-> -1, RX_PULL |-> 1, RX_EXTERNAL |-> 1]
Operator == [BCONCAT |-> -2, INC |-> -1, ADD |-> -2]
OneResult == [EXPRTO |-> 0]

Effect == Stacking @@ Loading @@ Casing @@ Interpreting @@ Output @@ Parsing @@ Queueing
            @@ Operator @@ OneResult

Cut(s, n) == SubSeq(s, 1, Len(s) - n)
Changed(n) == IF n >= 0 THEN stack \o [i \in 1..n |-> Value] ELSE Cut(stack, -n)

Goes(p) == pc' = p
At(op)  == phase = "run" /\ Op.op = op
Plain   == UNCHANGED <<cvars, callers, base, at, how>>

MInit ==
    /\ Init
    /\ pc = 1 /\ stack = << >> /\ callers = << >> /\ base = 0 /\ at = 0 /\ how = "on"

Compile == phase = "compile" /\ Next /\ UNCHANGED mvars

Start ==
    /\ phase = "accepted"
    /\ Runs(text)
    /\ phase' = "run"
    /\ UNCHANGED <<interpreted, text, sym, stat, checked, open, loops, code, table, labels>>
    /\ UNCHANGED mvars

\* OP_NEWCLAUSE; the ones not in the table are not announced.
NewClause ==
    /\ At("NEWCLAUSE")
    /\ LET rows == {r \in 1..Len(table) : table[r].code = pc}
       IN  IF rows = {} THEN UNCHANGED <<at, how>>
           ELSE /\ at' = table[CHOOSE r \in rows : TRUE].clause
                /\ how' = "on"
    /\ Goes(pc + 1)
    /\ UNCHANGED <<cvars, stack, callers, base>>

\* The instructions that go on to the next one.
Straight ==
    /\ phase = "run"
    /\ Op.op \in DOMAIN Effect
    /\ Len(stack) + Effect[Op.op] <= MaxStack
    /\ stack' = Changed(Effect[Op.op])
    /\ Goes(pc + 1)
    /\ Plain

\* The code of an expression; the value kept for BY has a sign.
Evaluate ==
    /\ At("EXPR")
    /\ Len(stack) < MaxStack
    /\ \E neg \in (IF Op.role = "by" THEN BOOLEAN ELSE {FALSE}) :
           stack' = Append(stack, [of |-> Op.of, role |-> Op.role, neg |-> neg])
    /\ Goes(pc + 1)
    /\ Plain

Dup ==
    /\ At("DUP")
    /\ Len(stack) < MaxStack
    /\ stack' = Append(stack, IF Op.n < Len(stack) THEN Entry(Op.n) ELSE Value)
    /\ Goes(pc + 1)
    /\ Plain

PopN ==
    /\ At("POP")
    /\ stack' = Cut(stack, Op.n)
    /\ Goes(pc + 1)
    /\ Plain

\* OP_BYINIT: the test of TO is made the one the step's sign needs.
ByInit ==
    /\ At("BYINIT")
    /\ code' = [code EXCEPT ![Op.to].op = IF Last(stack).neg THEN "TLE" ELSE "TGE"]
    /\ Goes(pc + 1)
    /\ UNCHANGED <<interpreted, text, sym, stat, checked, open, loops, table, labels, phase>>
    /\ UNCHANGED <<stack, callers, base, at, how>>

\* OP_FORINIT: a count that is not a whole number is an error.
ForInit ==
    /\ At("FORINIT")
    /\ \/ Goes(pc + 1) /\ UNCHANGED phase
       \/ UNCHANGED pc /\ phase' = "failed"
    /\ UNCHANGED <<interpreted, text, sym, stat, checked, open, loops, code, table, labels>>
    /\ UNCHANGED <<stack, callers, base, at, how>>

DecFor ==
    /\ At("DECFOR")
    /\ \/ Goes(pc + 1)
       \/ Goes(Op.to)
    /\ UNCHANGED stack
    /\ Plain

\* OP_TGE and OP_TLE: two operands, one result.
Test ==
    /\ phase = "run"
    /\ Op.op \in {"TGE", "TLE"}
    /\ stack' = Append(Cut(stack, 2), Value)
    /\ Goes(pc + 1)
    /\ Plain

Jump ==
    /\ At("JMP")
    /\ Goes(Op.to)
    /\ UNCHANGED stack
    /\ Plain

\* OP_JF and OP_JT take the condition off the stack first.
Branch ==
    /\ phase = "run"
    /\ Op.op \in {"JF", "JT"}
    /\ stack' = Cut(stack, 1)
    /\ \/ Goes(pc + 1)
       \/ Goes(Op.to)
    /\ Plain

\* OP_SIGNAL: the stack is cut back before the label is looked at.
Signal ==
    /\ At("SIGNAL")
    /\ stack' = SubSeq(stack, 1, base)
    /\ IF labels[Op.role] = UNKNOWN_LABEL
       THEN UNCHANGED pc /\ phase' = "failed"
       ELSE Goes(labels[Op.role]) /\ UNCHANGED phase
    /\ UNCHANGED <<interpreted, text, sym, stat, checked, open, loops, code, table, labels>>
    /\ UNCHANGED <<callers, base, at, how>>

\* OP_CALL of an internal routine, with one argument.
Call ==
    /\ At("CALL")
    /\ labels[Op.role] # UNKNOWN_LABEL
    /\ Len(callers) < MaxCalls
    /\ callers' = Append(callers, [pc |-> pc + 1, base |-> base, at |-> at,
                                   keep |-> Len(stack) - 2])
    /\ base' = Len(stack)
    /\ Goes(labels[Op.role])
    /\ how' = "called"
    /\ UNCHANGED <<cvars, stack, at>>

\* OP_RETURN and OP_RETURNF: arguments and result are off the stack.
Return ==
    /\ phase = "run"
    /\ Op.op \in {"RETURN", "RETURNF"}
    /\ callers # << >>
    /\ LET c == Last(callers)
       IN  /\ Goes(c.pc)
           /\ stack' = SubSeq(stack, 1, c.keep)
           /\ base' = c.base
           /\ at' = c.at
    /\ how' = "back"
    /\ callers' = Front(callers)
    /\ UNCHANGED cvars

\* OP_EXIT, OP_IEXIT, RETURN of the program itself, the end of INTERPRET.
End ==
    /\ phase = "run"
    /\ \/ Op.op \in {"EXIT", "IEXIT", "INTER_END"}
       \/ Op.op \in {"RETURN", "RETURNF"} /\ callers = << >>
    /\ phase' = "end"
    /\ stack' = IF Op.op = "INTER_END" THEN stack ELSE << >>
    /\ UNCHANGED <<interpreted, text, sym, stat, checked, open, loops, code, table, labels>>
    /\ UNCHANGED <<pc, callers, base, at, how>>

MNext ==
    \/ Compile \/ Start \/ NewClause \/ Straight \/ Evaluate \/ Dup \/ PopN
    \/ ByInit \/ ForInit \/ DecFor \/ Test \/ Jump \/ Branch
    \/ Signal \/ Call \/ Return \/ End

MSpec == MInit /\ [][MNext]_vars

-----------------------------------------------------------------------------
(* Properties.                                                             *)
S == INSTANCE Structure WITH calls <- [i \in 1..Len(callers) |-> callers[i].at]

\* The compiled jumps keep to the nesting of the text: a clause is announced
\* only where DO, IF, SELECT, LEAVE, ITERATE, SIGNAL and CALL lead (C_do,
\* C_if, C_select, C_leave, C_iterate against their help files).
Structured == S!Spec

\* What the loops around clause i keep, the outermost first.
Kept(i) ==
    LET around == SetToSortSeq(S!Around(text, i, "do"), <)
    IN  FlattenSeq([j \in 1..Len(around) |->
            [p \in 1..Len(text[around[j]].subs) |-> <<around[j], text[around[j]].subs[p]>>]])

\* A named LEAVE or ITERATE passes a loop that counts without a variable.
PassesCounter ==
    \E i \in 1..Len(text) :
        /\ text[i].k \in {"leave", "iterate"} /\ text[i].name # "none"
        /\ \E d \in S!Around(text, i, "do") :
             /\ text[d].name = "none" /\ text[d].subs # << >>
             /\ d > S!LoopOf(text, i)

\* The programs the invariants of the stack speak of.
Counted == S!WellFormed(text) /\ ~PassesCounter

Announced == phase = "run" /\ Op.op = "NEWCLAUSE" /\ \E r \in 1..Len(table) : table[r].code = pc
AnnouncedClause == table[CHOOSE r \in 1..Len(table) : table[r].code = pc].clause
Own == SubSeq(stack, base + 1, Len(stack))

\* Whatever way a clause is come to, the activation has on the operand stack
\* just what the loops around it keep there (the pops of C_do, C_leave and
\* C_iterate, and that every other clause leaves the stack as it found it).
StackAtClause ==
    (Announced /\ Counted) =>
        [j \in 1..Len(Own) |-> <<Own[j].of, Own[j].role>>] = Kept(AnnouncedClause)

\* TO, BY and FOR find their own loop's value (the DUP and DECFOR of C_do).
Finds == /\ Op.n < Len(stack)
         /\ Entry(Op.n).of = Op.of /\ Entry(Op.n).role = Op.role
OwnValues ==
    (phase = "run" /\ Op.op \in {"DUP", "DECFOR"} /\ Op.of # 0 /\ Counted) => Finds

\* The test of TO is the one the sign of the loop's own BY asks for
\* (OP_BYINIT).  TLC refutes it: BYINIT writes the test into the code, which a
\* recursive routine's loop shares.
StepOf(d) == CHOOSE i \in 1..Len(stack) : stack[i].of = d /\ stack[i].role = "by"
ByObeyed ==
    (phase = "run" /\ Op.op \in {"TGE", "TLE"} /\ Contains(text[Op.of].subs, "by") /\ Counted) =>
        Op.op = (IF stack[StepOf(Op.of)].neg THEN "TLE" ELSE "TGE")

\* "If none of the WHEN expressions results in 1, and there is no OTHERWISE
\* clause, an error occurs" (help/select.helprexx): from the last WHEN the
\* program goes to its instruction or nowhere.  TLC refutes it: C_select leads
\* the last WHEN behind END.
OtherwiseRequired ==
    [][LET m == S!Last1(text, at)
       IN  (/\ at # 0 /\ at' # at /\ how = "on" /\ S!WellFormed(text)
            /\ m <= Len(text) /\ text[m].k = "when"
            /\ text[S!Span(text)[<<"stmt", m + 1>>]].k = "end")
           => at' = S!Lead(text, m + 1)]_vars

\* ELSE's clause may not end an INTERPRETed text, THEN's may end any: C_if
\* takes one for an error, and has set normal_st at the other.
ElseLast == interpreted /\ "else" \in {text[i].k : i \in 1..Len(text)}
ThenLast == \E i \in 1..Len(text) : text[i].k = "if"

\* The compiler refuses a text at the clause that no ending can make good
\* (what may be left of the text is one of Endings), and compiles none that
\* is not well-formed (C_if, C_select, C_do, C_instr).
Judged ==
    /\ (phase = "refused" /\ ~ElseLast) =>
          \A e \in (IF sym \in Clause THEN Endings ELSE {<< >>}) : ~S!WellFormed(text \o e)
    /\ (phase = "accepted" /\ ~ThenLast) => S!WellFormed(text)
=============================================================================
