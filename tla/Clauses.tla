------------------------------ MODULE Clauses ------------------------------
(* The clause compiler (compile.c): the C_ functions that turn clauses     *)
(* into byte code, with the queue of loops LEAVE and ITERATE look in, the  *)
(* jumps filled in later, and the state of the scanner that decides what   *)
(* the end of the text means.  The text is not given: each read of a       *)
(* symbol picks the next clause.                                           *)
EXTENDS Integers, Sequences, SequencesExt, FiniteSets

CONSTANTS
    Clause,       \* clauses a program may contain: [k, name, subs, cond]
    Given(_, _)   \* the clauses a text may go on with, of INTERPRET or not (bounds the run)

VARIABLES
    interpreted,  \* compile_str_interpreted: the text is an INTERPRETed string
    text,         \* clauses read so far; the last one is the current symbol
    sym,          \* nextsymbsymbol, see nextsymbol
    stat,         \* nextsymbsymbolstat
    checked,      \* compile_checked_semicolon
    open,         \* the C_ functions in progress, with their local variables
    loops,        \* compile_Loop
    code,         \* compileCompileCode; an instruction is one element
    table,        \* compileCompileClause
    labels,       \* rexx_labels: where a label is in the code, or UNKNOWN_LABEL
    phase         \* "compile", "accepted" or "refused"; see Machine for the others

cvars == <<interpreted, text, sym, stat, checked, open, loops, code, table, labels, phase>>

UNKNOWN_LABEL == 0
Labels == {c.name : c \in {x \in Clause : x.k \in {"label", "signal", "call"}}}

-----------------------------------------------------------------------------
(* Instructions.  Offset 0 of the code, the value operands have until they *)
(* are filled in, is its first instruction.  "of" and "role" are not in    *)
(* the code: the DO clause an operand belongs to and what it is to it; for *)
(* a label, its name.                                                      *)
Unfixed == 1

I(op)          == [op |-> op, to |-> Unfixed, n |-> 0, of |-> 0, role |-> "none"]
J(op, to)      == [I(op) EXCEPT !.to = to]
L(op, n, d, r) == [I(op) EXCEPT !.n = n, !.of = d, !.role = r]

\* CODEFIXUP
Fix(cd, p, to) == [cd EXCEPT ![p].to = to]

Pop(n) == L("POP", n, 0, "none")
Expr   == L("EXPR", 0, 0, "value")     \* C_expr: its value is left on the stack
Keep(d, r) == L("EXPR", 0, d, r)       \* the same, a value that stays for loop d

\* OP_PARSE, a target, and the data off the stack.
C_template == <<I("PARSE"), I("CREATE"), I("PVAR"), Pop(1)>>

-----------------------------------------------------------------------------
(* The clauses that neither loop nor branch; v says which form it is.      *)
C_address(v) ==
    IF v = "value" THEN <<Expr, I("STOREOPT")>>
    ELSE IF v = "command" THEN <<I("PUSH"), Expr, I("SYSTEM")>>
    ELSE <<I("PUSH"), I("STOREOPT")>>

Upper(v) == IF v = "upper" THEN <<I("UPPER")>> ELSE << >>

C_arg == <<I("LOADARG"), I("COPY2TMP"), I("UPPER")>> \o C_template

C_drop(v) ==
    IF v = "name" THEN <<I("DROP")>> ELSE <<I("LOAD"), I("COPY2TMP"), I("DROPIND")>>

C_exit(v) == <<IF v = "none" THEN I("PUSH") ELSE Expr, I("EXIT")>>

C_interpret == <<Expr, I("INTERPRET")>>

C_lower == <<I("LOAD"), I("LOWER"), Pop(1)>>
C_upper == <<I("LOAD"), I("UPPER"), Pop(1)>>

C_nop == <<I("NOP")>>

C_numeric(v) == <<IF v = "form" THEN I("PUSH") ELSE Expr, I("STOREOPT")>>

C_options == <<Expr, I("UPPER"), I("STOREOPT")>>

\* The data of PARSE, by its source.
Source(v) ==
    [arg      |-> <<I("LOADARG"), I("COPY2TMP")>>,
     external |-> <<I("RX_EXTERNAL")>>,
     numeric  |-> <<I("PUSHTMP"), I("PUSHTMP"), I("LOADOPT")>>
                      \o <<I("LOADOPT"), I("BCONCAT"), I("LOADOPT"), I("BCONCAT")>>,
     pull     |-> <<I("RX_PULL")>>,
     var      |-> <<I("LOAD"), I("COPY2TMP")>>,
     source   |-> <<I("PUSHTMP"), I("PUSHTMP"), I("PUSHTMP"), I("PUSHTMP"), I("LOADOPT")>>
                      \o FlattenSeq([i \in 1..4 |-> <<I("LOADOPT"), I("BCONCAT")>>]),
     value    |-> <<Expr, I("COPY2TMP")>>,
     version  |-> <<I("LOADOPT")>>][v]

C_parse(v, up) == Source(v) \o Upper(up) \o C_template

C_pull == <<I("RX_PULL"), I("UPPER")>> \o C_template

C_push(v)  == <<IF v = "none" THEN I("PUSH") ELSE Expr, I("RX_PUSH")>>
C_queue(v) == <<IF v = "none" THEN I("PUSH") ELSE Expr, I("RX_QUEUE")>>

C_return(v) == IF v = "none" THEN <<I("RETURN")>> ELSE <<Expr, I("RETURNF")>>

C_say == <<Expr, I("SAY")>>

\* Bug: the name stays on the stack.
C_signalBug(v) ==
    IF v = "onname" THEN <<I("PUSH"), I("PUSH"), I("STOREOPT")>> ELSE <<I("PUSH"), I("STOREOPT")>>

\* SIGNAL ON and OFF; the label is C_signal's last branch.
C_signal(v) ==
    IF v = "onname" THEN <<I("PUSH"), I("PUSH"), I("STOREOPT"), Pop(1)>>
    ELSE <<I("PUSH"), I("STOREOPT")>>

C_trace(v) ==
    (IF v = "value" THEN <<Expr, I("COPY2TMP")>> ELSE <<I("PUSH")>>) \o <<I("STOREOPT")>>

C_HostCmd == <<I("LOADOPT"), Expr, I("SYSTEM")>>

\* An expression that ends in an operator stores into the variable itself.
C_assign(v) ==
    <<I("CREATE")>>
      \o (IF v = "operator" THEN <<I("EXPRTO"), Pop(1)>> ELSE <<Expr, I("COPY")>>)
      \o (IF v = "stem" THEN <<I("ASSIGNSTEM")>> ELSE << >>)

\* statements_list: which function a keyword calls.
Simple(c) ==
    CASE c.name = "address"   -> C_address(c.cond)
      [] c.name = "arg"       -> C_arg
      [] c.name = "assign"    -> C_assign(c.cond)
      [] c.name = "command"   -> C_HostCmd
      [] c.name = "drop"      -> C_drop(c.cond)
      [] c.name = "exit"      -> C_exit(c.cond)
      [] c.name = "interpret" -> C_interpret
      [] c.name = "lower"     -> C_lower
      [] c.name = "nop"       -> C_nop
      [] c.name = "numeric"   -> C_numeric(c.cond)
      [] c.name = "options"   -> C_options
      [] c.name = "parse"     -> C_parse(c.cond, c.subs[1])
      [] c.name = "pull"      -> C_pull
      [] c.name = "push"      -> C_push(c.cond)
      [] c.name = "queue"     -> C_queue(c.cond)
      [] c.name = "return"    -> C_return(c.cond)
      [] c.name = "say"       -> C_say
      [] c.name = "signal"    -> C_signal(c.cond)
      [] c.name = "trace"     -> C_trace(c.cond)
      [] c.name = "upper"     -> C_upper

-----------------------------------------------------------------------------
(* Reading.  A symbol is the clause that starts there, or one of these:    *)
(* the semicolon after a clause; "last", the newline InitNextsymbol        *)
(* appends to a text (an INTERPRETed text ends with it, a file has the     *)
(* newline of its own last line before it); the end of the text, which is  *)
(* "eof" or an error.                                                      *)
Sy(k) == [k |-> k]

Eof(st) == IF st = "normal_st" THEN Sy("eof") ELSE Sy("cut")

Following(st) ==
    Given(text, interpreted)
        \cup {IF interpreted THEN Eof(st) ELSE Sy("last")}

nextsymbol(S) ==
    /\ sym' \in S
    /\ text' = IF sym' \in Clause THEN Append(text, sym') ELSE text

Top   == IF open = << >> THEN [f |-> "main"] ELSE Last(open)
Under == Front(open)
Here  == Len(text)

\* The functions that call C_instr.
Calling == {"main", "group", "loop", "otherwise", "then", "else", "when"}

AtInstr ==
    /\ phase = "compile"
    /\ sym \in Clause
    /\ Top.f \in Calling

\* C_instr has returned FALSE: THEN, ELSE and WHEN go on, a list reads on.
Done(f) == CASE f = "then" -> "then done" [] f = "else" -> "else done" [] f = "when" -> "when done"
Returned(o) ==
    IF o = << >> \/ Last(o).f \notin {"then", "else", "when"} THEN o
    ELSE [o EXCEPT ![Len(o)].f = Done(@)]

\* The statement ends here: with its semicolon, if nothing has checked it.
MUSTBE_SEMICOLON(st) ==
    /\ nextsymbol(Following(st))
    /\ stat' = st

\* CreateClause makes no second NEWCLAUSE right after one of its own.
Shared           == table # << >> /\ Last(table).code = Len(code)
CreateClause     == IF Shared THEN code ELSE Append(code, I("NEWCLAUSE"))
ClauseTable(i)   ==
    IF Shared THEN table ELSE Append(table, [code |-> Len(code) + 1, clause |-> i])

\* Lerror leaves by longjmp; RxCompile drops the loops it finds.
Lerror ==
    /\ phase' = "refused"
    /\ loops' = << >>
    /\ UNCHANGED <<interpreted, text, sym, stat, checked, open, code, table, labels>>

-----------------------------------------------------------------------------
\* RxInitCompile
Init ==
    /\ interpreted \in BOOLEAN
    /\ text = << >>
    /\ sym = Sy("semi")
    /\ stat = "normal_st"
    /\ checked = FALSE
    /\ open = << >>
    /\ loops = << >>
    /\ code = << >>
    /\ table = << >>
    /\ labels = [l \in Labels |-> UNKNOWN_LABEL]
    /\ phase = "compile"

\* SKIP_SEMICOLONS
SkipSemicolons ==
    /\ phase = "compile"
    /\ \/ sym = Sy("semi") /\ nextsymbol(Following(stat))
       \/ sym = Sy("last") /\ nextsymbol({Eof(stat)})
    /\ Top.f \notin {"else done", "when done"}
    /\ UNCHANGED <<interpreted, stat, checked, open, loops, code, table, labels, phase>>

\* The end of the text inside a structure: ERR_INCOMPLETE_STRUCT and the like.
EndInside ==
    /\ phase = "compile"
    /\ \/ sym = Sy("cut")
       \/ sym = Sy("eof") /\ Top.f = "select"
    /\ Lerror

\* C_instr at exit_sy: the compilation is over, everything is well.
EndOfText ==
    /\ phase = "compile"
    /\ sym = Sy("eof")
    /\ Top.f \in Calling
    /\ code' = IF interpreted THEN Append(code, I("INTER_END"))
               ELSE Append(CreateClause, I("IEXIT"))
    /\ table' = IF interpreted THEN table ELSE ClauseTable(Here + 1)
    /\ loops' = << >>
    /\ phase' = "accepted"
    /\ UNCHANGED <<interpreted, text, sym, stat, checked, open, labels>>

\* A clause that neither loops nor branches.
SimpleClause ==
    /\ AtInstr
    /\ sym.k = "simple"
    /\ code' = CreateClause \o Simple(sym)
    /\ table' = ClauseTable(Here)
    /\ open' = Returned(open)
    /\ checked' = FALSE
    /\ MUSTBE_SEMICOLON(stat)
    /\ UNCHANGED <<interpreted, loops, labels, phase>>

\* C_signal to a label, C_call of a routine: the label may come later.
Transfer ==
    /\ AtInstr
    /\ sym.k \in {"signal", "call"}
    /\ code' = CreateClause \o
         (IF sym.k = "signal" THEN <<L("SIGNAL", 0, 0, sym.name)>>
          ELSE <<I("PUSHTMP"), Expr, L("CALL", 0, 0, sym.name)>>)
    /\ table' = ClauseTable(Here)
    /\ open' = Returned(open)
    /\ checked' = FALSE
    /\ MUSTBE_SEMICOLON(stat)
    /\ UNCHANGED <<interpreted, loops, labels, phase>>

\* A label, accepted in RxCompile's own loop; the first of a name counts.
Label ==
    /\ AtInstr
    /\ sym.k = "label"
    /\ open = << >> /\ ~interpreted
    /\ labels' = [labels EXCEPT ![sym.name] =
                    IF @ # UNKNOWN_LABEL THEN @
                    ELSE IF Shared THEN Len(code) ELSE Len(code) + 1]
    /\ code' = CreateClause
    /\ table' = ClauseTable(Here)
    /\ nextsymbol(Following(stat))
    /\ UNCHANGED <<interpreted, stat, checked, open, loops, phase>>

\* A label anywhere else; ELSE, OTHERWISE, WHEN, THEN or PROCEDURE out of
\* place (C_error); END where C_instr was called for one statement.
Stray ==
    /\ AtInstr
    /\ \/ sym.k = "label" /\ (open # << >> \/ interpreted)
       \/ sym.k \in {"else", "when", "otherwise"}
       \/ sym.k = "end" /\ Top.f \in {"main", "then", "else", "when"}
    /\ Lerror
-----------------------------------------------------------------------------
(* DO.  idx numbers the values a loop keeps on the stack, in the order of  *)
(* the phrases.  leave_p is the jump out of the loop, in front of it;      *)
(* body_p the start of its control.                                        *)
Assigned(c) == c.name # "none"
IdxOf(c, p) == SelectInSeq(c.subs, LAMBDA s : s = p)
Has(c, p)   == IdxOf(c, p) # 0

Phrase(d, p) ==
    CASE p = "to"  -> <<Keep(d, "to"), I("COPY2TMP")>>
      [] p = "by"  -> <<Keep(d, "by"), L("BYINIT", 0, d, "by")>>
      [] p = "for" -> <<Keep(d, "for"), I("FORINIT")>>

\* Bug: the place of ITERATE's jump forgotten.
leave_pBug(c, body_p) == body_p - 1
leave_p(c, body_p) == body_p - (IF Assigned(c) THEN 2 ELSE 1)
untilexpr(body_p)  == body_p + 1

\* The header up to body_p: the values, the jump over, leave and iterate.
Header(c, d, cd) ==
    LET init == cd \o (IF Assigned(c) THEN C_assign("value") ELSE << >>)
                   \o FlattenSeq([i \in 1..Len(c.subs) |-> Phrase(d, c.subs[i])])
        body_p == Len(init) + (IF Assigned(c) THEN 4 ELSE 3)
    IN  init \o <<J("JMP", body_p), I("JMP")>> \o (IF Assigned(c) THEN <<I("JMP")>> ELSE << >>)

\* WHILE, or UNTIL with the jump over it.
Condition(c, d, body_p) ==
    CASE c.cond = "none"  -> << >>
      [] c.cond = "while" -> <<Keep(0, "value"), J("JF", leave_p(c, body_p))>>
      [] c.cond = "until" -> <<J("JMP", body_p + 4), Keep(0, "value"),
                               J("JT", leave_p(c, body_p)), I("JMP")>>

\* Bug: the depth counted from the first phrase.
TestsBug(c, d, body_p) ==
    (IF ~Has(c, "to") THEN << >>
     ELSE <<L("DUP", IdxOf(c, "to") - 1, d, "to"), I("LOAD"), L("TGE", 0, d, "test"),
            J("JF", leave_p(c, body_p))>>)
      \o (IF ~Has(c, "for") THEN << >>
          ELSE <<[L("DECFOR", Len(c.subs) - IdxOf(c, "for"), d, "for")
                    EXCEPT !.to = leave_p(c, body_p)]>>)

\* The tests of TO and FOR, in this order.
Tests(c, d, body_p) ==
    (IF ~Has(c, "to") THEN << >>
     ELSE <<L("DUP", Len(c.subs) - IdxOf(c, "to"), d, "to"), I("LOAD"), L("TGE", 0, d, "test"),
            J("JF", leave_p(c, body_p))>>)
      \o (IF ~Has(c, "for") THEN << >>
          ELSE <<[L("DECFOR", Len(c.subs) - IdxOf(c, "for"), d, "for")
                    EXCEPT !.to = leave_p(c, body_p)]>>)

\* Where BYINIT finds the test of TO; without TO its operand stays as it was.
Patched(c, cd, pos) ==
    IF ~Has(c, "by") \/ ~Has(c, "to") THEN cd
    ELSE LET p == CHOOSE i \in 1..Len(cd) : cd[i].op = "BYINIT" /\ cd[i].of = Here
         IN  Fix(cd, p, pos)

\* DO without repetition.
Group ==
    /\ AtInstr
    /\ sym.k = "group"
    /\ code' = CreateClause
    /\ table' = ClauseTable(Here)
    /\ open' = Append(open, [f |-> "group", old |-> stat])
    /\ checked' = FALSE
    /\ MUSTBE_SEMICOLON("in_do_st")
    /\ UNCHANGED <<interpreted, loops, labels, phase>>

\* DO with repetition, up to its semicolon.
Loop ==
    /\ AtInstr
    /\ sym.k = "do"
    /\ IsInjective(sym.subs)
    /\ LET c     == sym
           head  == Header(c, Here, CreateClause)
           body_p == Len(head) + 1
           cond  == head \o Condition(c, Here, body_p)
           full  == cond \o Tests(c, Here, body_p)
       IN  /\ code' = Patched(c, full, Len(cond) + 3) \o <<I("NEWCLAUSE")>>
           /\ open' = Append(open, [f |-> "loop", old |-> stat, do |-> c, d |-> Here,
                                   body_p |-> body_p])
           /\ loops' = Append(loops,
                [it |-> IF c.cond = "until" THEN untilexpr(body_p)
                        ELSE IF Assigned(c) THEN body_p - 1 ELSE body_p,
                 le |-> leave_p(c, body_p), vars |-> Len(c.subs), var |-> c.name])
    /\ table' = ClauseTable(Here)
    /\ checked' = FALSE
    /\ MUSTBE_SEMICOLON("in_do_st")
    /\ UNCHANGED <<interpreted, labels, phase>>

\* A phrase given twice: ERR_INVALID_DO_SYNTAX
TwoPhrases ==
    /\ AtInstr
    /\ sym.k = "do"
    /\ ~IsInjective(sym.subs)
    /\ Lerror

-----------------------------------------------------------------------------
(* END of a list of instructions (DOuntilEND and what follows it in C_do). *)
\* The control variable's next value, for loop d.
Step(c, d) ==
    IF ~Assigned(c) THEN << >>
    ELSE IF ~Has(c, "by") THEN <<I("LOAD"), I("INC")>>
    ELSE <<I("LOAD"), L("DUP", 0, 0, "none"), L("DUP", Len(c.subs) - IdxOf(c, "by") + 2, d, "by"),
           I("ADD"), Pop(1)>>

\* What C_do adds at END: UNTIL's jump, the step, the jump back, the pop.
Closing(c, d, body_p, cd) ==
    LET back   == IF c.cond = "until" THEN Append(cd, J("JMP", untilexpr(body_p))) ELSE cd
        tested == IF c.cond = "until" THEN Fix(back, body_p + 3, Len(back) + 1) ELSE back
        stepped == (IF Assigned(c) THEN Fix(tested, body_p - 1, Len(tested) + 1) ELSE tested)
                     \o Step(c, d)
        closed == Append(stepped, J("JMP", body_p))
    IN  Fix(closed, leave_p(c, body_p), Len(closed) + 1)
          \o (IF c.subs = << >> THEN << >> ELSE <<Pop(Len(c.subs))>>)

EndGroup ==
    /\ AtInstr
    /\ sym.k = "end" /\ sym.name = "none"
    /\ Top.f = "group"
    /\ open' = Returned(Under)
    /\ checked' = FALSE
    /\ MUSTBE_SEMICOLON(Top.old)
    /\ UNCHANGED <<interpreted, loops, code, table, labels, phase>>

\* Bug: any name will do.
EndLoopBug ==
    /\ AtInstr
    /\ Top.f = "loop"
    /\ sym.k = "end"
    /\ code' = Closing(Top.do, Top.d, Top.body_p, code)
    /\ loops' = Front(loops)
    /\ open' = Returned(Under)
    /\ checked' = FALSE
    /\ MUSTBE_SEMICOLON(Top.old)
    /\ UNCHANGED <<interpreted, table, labels, phase>>

EndLoop ==
    /\ AtInstr
    /\ Top.f = "loop"
    /\ sym.k = "end" /\ sym.name \in {"none", Top.do.name}
    /\ code' = Closing(Top.do, Top.d, Top.body_p, code)
    /\ loops' = Front(loops)
    /\ open' = Returned(Under)
    /\ checked' = FALSE
    /\ MUSTBE_SEMICOLON(Top.old)
    /\ UNCHANGED <<interpreted, table, labels, phase>>

\* END with a name that is not the control variable of this DO.
EndNamed ==
    /\ AtInstr
    /\ sym.k = "end" /\ sym.name # "none"
    /\ \/ Top.f \in {"group", "otherwise"}
       \/ Top.f = "loop" /\ Top.do.name # sym.name
    /\ Lerror

-----------------------------------------------------------------------------
(* IF and SELECT.  The clause takes its THEN with it; the symbol after it  *)
(* is read while the state is in_if_st.                                    *)
If ==
    /\ AtInstr
    /\ sym.k = "if"
    /\ LET cd == CreateClause \o <<Expr, I("JF")>>
       IN  /\ code' = Append(cd, I("NEWCLAUSE"))
           /\ table' = Append(ClauseTable(Here), [code |-> Len(cd) + 1, clause |-> Here + 1])
           /\ open' = Append(open, [f |-> "then", old |-> stat, nxt |-> Len(cd)])
    /\ checked' = FALSE
    /\ nextsymbol(Following("in_if_st"))
    /\ stat' = IF sym' \in Clause THEN "normal_st" ELSE "in_if_st"
    /\ UNCHANGED <<interpreted, loops, labels, phase>>

\* After THEN's instruction: ELSE follows.
Else ==
    /\ phase = "compile"
    /\ Top.f = "then done"
    /\ sym.k = "else"
    /\ LET cd == Fix(Append(code, I("JMP")), Top.nxt, Len(code) + 2)
       IN  /\ code' = Append(cd, I("NEWCLAUSE"))
           /\ table' = Append(table, [code |-> Len(cd) + 1, clause |-> Here])
           /\ open' = Append(Under, [Top EXCEPT !.f = "else", !.nxt = Len(cd)])
    /\ MUSTBE_SEMICOLON("in_if_st")
    /\ UNCHANGED <<interpreted, checked, loops, labels, phase>>

\* After THEN's instruction, without ELSE, or after ELSE's: the IF is over.
\* Its semicolon is that of its last instruction.
EndIf ==
    /\ phase = "compile"
    /\ \/ Top.f = "then done" /\ sym.k \notin {"else", "semi", "last", "cut"}
       \/ Top.f = "else done" /\ sym.k # "cut"
    /\ code' = Fix(code, Top.nxt, Len(code) + 1)
    /\ stat' = Top.old
    /\ checked' = TRUE
    /\ open' = Returned(Under)
    /\ UNCHANGED <<interpreted, text, sym, loops, table, labels, phase>>

Select ==
    /\ AtInstr
    /\ sym.k = "select"
    /\ LET cd == CreateClause
       IN  /\ code' = cd \o <<I("JMP"), I("JMP")>>
           /\ open' = Append(open, [f |-> "select", old |-> stat, nxt |-> Len(cd) + 1,
                                   jmp2end |-> Len(cd) + 2, when |-> FALSE, otherwise |-> FALSE])
    /\ table' = ClauseTable(Here)
    /\ checked' = FALSE
    /\ MUSTBE_SEMICOLON(stat)
    /\ UNCHANGED <<interpreted, loops, labels, phase>>

When ==
    /\ phase = "compile"
    /\ Top.f = "select" /\ ~Top.otherwise
    /\ sym.k = "when"
    /\ LET started == Append(Fix(code, Top.nxt, Len(code) + 1), I("NEWCLAUSE"))
           cd == started \o <<Expr, I("JF")>>
       IN  /\ code' = Append(cd, I("NEWCLAUSE"))
           /\ table' = table \o <<[code |-> Len(started), clause |-> Here],
                                  [code |-> Len(cd) + 1, clause |-> Here + 1]>>
           /\ open' = Append(Under, [Top EXCEPT !.f = "when", !.when = TRUE, !.nxt = Len(cd)])
    /\ MUSTBE_SEMICOLON("in_if_st")
    /\ UNCHANGED <<interpreted, checked, loops, labels, phase>>

\* After WHEN's instruction: out of the SELECT.
EndWhen ==
    /\ phase = "compile"
    /\ Top.f = "when done"
    /\ sym.k # "cut"
    /\ code' = Append(code, J("JMP", Top.jmp2end))
    /\ open' = Append(Under, [Top EXCEPT !.f = "select"])
    /\ UNCHANGED <<interpreted, text, sym, stat, checked, loops, table, labels, phase>>

Otherwise ==
    /\ phase = "compile"
    /\ Top.f = "select" /\ Top.when
    /\ sym.k = "otherwise"
    /\ code' = Append(Fix(code, Top.nxt, Len(code) + 1), I("NEWCLAUSE"))
    /\ table' = Append(table, [code |-> Len(code) + 1, clause |-> Here])
    /\ open' = Append(Under, [Top EXCEPT !.f = "otherwise", !.otherwise = TRUE])
    /\ nextsymbol(Following(stat))
    /\ stat' = "in_do_st"
    /\ UNCHANGED <<interpreted, checked, loops, labels, phase>>

\* END of SELECT, found by C_select, or by C_instr in OTHERWISE's list.
EndSelect ==
    /\ phase = "compile"
    /\ sym.k = "end" /\ sym.name = "none"
    /\ Top.f \in {"select", "otherwise"}
    /\ Top.when
    /\ LET cd == IF Top.otherwise THEN code ELSE Fix(code, Top.nxt, Len(code) + 1)
       IN  code' = Fix(cd, Top.jmp2end, Len(cd) + 1)
    /\ open' = Returned(Under)
    /\ stat' = Top.old
    /\ checked' = (checked /\ Top.f = "select")
    /\ IF checked' THEN sym' = Sy("semi") /\ UNCHANGED text
       ELSE nextsymbol(Following(stat'))
    /\ UNCHANGED <<interpreted, loops, table, labels, phase>>

\* In SELECT: no WHEN yet, WHEN or another clause where WHEN is expected.
SelectError ==
    /\ phase = "compile"
    /\ Top.f = "select"
    /\ sym \in Clause
    /\ \/ sym.k \in {"otherwise", "end"} /\ ~Top.when
       \/ sym.k = "end" /\ sym.name # "none"
       \/ sym.k = "when" /\ Top.otherwise
       \/ sym.k \notin {"when", "otherwise", "end"}
    /\ Lerror

-----------------------------------------------------------------------------
(* LEAVE and ITERATE.  A name is looked for from the innermost loop out;   *)
(* what the loops passed keep is popped, of those with a control variable. *)
Named(c, q) == CHOOSE i \in 1..Len(q) : q[i].var = c.name /\ \A j \in i+1..Len(q) : q[j].var # c.name
Known(c)    == loops # << >> /\ (c.name = "none" \/ \E i \in 1..Len(loops) : loops[i].var = c.name)
Target(c)   == IF c.name = "none" THEN Len(loops) ELSE Named(c, loops)
pop(c) ==
    FoldSeq(+, 0, [i \in 1..Len(loops) - Target(c) |->
        IF loops[Target(c) + i].var = "none" THEN 0 ELSE loops[Target(c) + i].vars])

LeaveIterate ==
    /\ AtInstr
    /\ sym.k \in {"leave", "iterate"}
    /\ Known(sym)
    /\ LET lc == loops[Target(sym)]
       IN  code' = CreateClause \o (IF pop(sym) = 0 THEN << >> ELSE <<Pop(pop(sym))>>)
                     \o <<J("JMP", IF sym.k = "leave" THEN lc.le ELSE lc.it)>>
    /\ table' = ClauseTable(Here)
    /\ open' = Returned(open)
    /\ checked' = FALSE
    /\ MUSTBE_SEMICOLON(stat)
    /\ UNCHANGED <<interpreted, loops, labels, phase>>

\* ERR_INVALID_LEAVE
NoLoop ==
    /\ AtInstr
    /\ sym.k \in {"leave", "iterate"}
    /\ ~Known(sym)
    /\ Lerror

Next ==
    \/ SkipSemicolons \/ EndInside \/ EndOfText
    \/ SimpleClause \/ Transfer \/ Label \/ Stray
    \/ Group \/ Loop \/ TwoPhrases \/ EndGroup \/ EndLoop \/ EndNamed
    \/ If \/ Else \/ EndIf
    \/ Select \/ When \/ EndWhen \/ Otherwise \/ EndSelect \/ SelectError
    \/ LeaveIterate \/ NoLoop

Spec == Init /\ [][Next]_cvars
=============================================================================
