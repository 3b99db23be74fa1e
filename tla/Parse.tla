------------------------------- MODULE Parse -------------------------------
(* PARSE: the code template.c makes of a template, where every group of    *)
(* targets is left by a jump to the trigger that ends its data and resumed *)
(* by a jump back, and the instructions of interpre.c that run it on the   *)
(* positions of the source.  The source is PARSE VAR s, and s may itself   *)
(* be a target or a trigger.                                               *)
EXTENDS Integers, Sequences, SequencesExt

CONSTANTS
    Value,       \* what the variables may be: [Variables -> Seq of characters]
    Given(_)     \* the symbols a template may go on with (bounds the run)

VARIABLES
    tmpl,        \* the template's symbols: [k, name], see Step
    phase,       \* "read", "run", "end", "refused" or "error"
    code, pc,    \* its code, interpreRxcip
    stack,       \* interpre_RxStck: references
    mem,         \* the value each reference stands for
    word,        \* word_start and word_end
    data,        \* interpre_DataStart and DataEnd
    break,       \* interpre_BreakStart and BreakEnd
    got,         \* history: the targets assigned and what they were given
    found        \* history: the triggers obeyed

vars == <<tmpl, phase, code, pc, stack, mem, word, data, break, got, found>>
cursor == <<word, data, break>>

\* Names are sequences of characters, like values.
S == <<"s">>
V == <<"v">>
Dot == <<".">>
Variables == {S, V}
Var(n)  == <<"var", n>>
Lit(n)  == <<"lit", n>>
Tmp(i)  == <<"tmp", i>>

-----------------------------------------------------------------------------
(* Characters and numbers.  (Exponents, and the rounding of more than 15   *)
(* digits, are left out.)                                                  *)
Digits == <<"0", "1", "2", "3", "4", "5", "6", "7", "8", "9">>
Worth(ds) == FoldLeft(LAMBDA n, c : 10 * n + SelectInSeq(Digits, LAMBDA d : d = c) - 1, 0, ds)

\* The first place from p on of a character that is not among them, or the end.
Past(s, p, them) ==
    LET stop == {i \in p..Len(s) : s[i] \notin them}
    IN  IF stop = {} THEN Len(s) + 1 ELSE Min(stop)

\* The number a text is: blanks, a sign, blanks, digits, a point, digits,
\* blanks.  A point that ends the text needs no digits (it returns 1 there).
rxatof(s) ==
    LET at(p) == IF p <= Len(s) THEN s[p] ELSE " "
        a     == Past(s, 1, {" "})
        b     == Past(s, IF at(a) \in {"-", "+"} THEN a + 1 ELSE a, {" "})
        c     == Past(s, b, ToSet(Digits))
        point == at(c) = "."
        d     == IF point THEN Past(s, c + 1, ToSet(Digits)) ELSE c
        whole == SubSeq(s, b, c - 1)
        frac  == SubSeq(s, c + 1, d - 1)
    IN  [number |-> /\ Past(s, d, {" "}) > Len(s)
                    /\ whole \o frac # << >> \/ (point /\ d > Len(s)),
         whole  |-> ToSet(frac) \subseteq {"0"},
         value  |-> IF at(a) = "-" THEN -Worth(whole) ELSE Worth(whole)]

\* _Lisnum, and what L2int makes of it.
IsInt(s) == rxatof(s).number /\ rxatof(s).whole
IntOf(s) == rxatof(s).value
Unsigned(n) == IF n < 10 THEN <<Digits[n + 1]>> ELSE <<Digits[n \div 10 + 1], Digits[(n % 10) + 1]>>
Spelt(n)   == IF n < 0 THEN <<"-">> \o Unsigned(-n) ELSE Unsigned(n)   \* below 100

\* Lindex: where needle is in s, from place p on; 0 if it is not or is empty.
Lpos(needle, s, p) ==
    LET places == {i \in p..Len(s) - Len(needle) + 1 : SubSeq(s, i, i + Len(needle) - 1) = needle}
    IN  IF needle = << >> \/ places = {} THEN 0 ELSE CHOOSE i \in places : \A j \in places : i <= j

\* LSKIPBLANKS and LSKIPWORD: the first place from p, counted from 0, of a
\* character that is (not) a blank, or the end.
Skip(s, p, blanks) ==
    LET stop == {i \in p..Len(s) - 1 : (s[i + 1] = " ") # blanks}
    IN  IF stop = {} THEN (IF p > Len(s) THEN p ELSE Len(s))
        ELSE CHOOSE i \in stop : \A j \in stop : i <= j

RANGE(lo, x, hi) == IF x < lo THEN lo ELSE IF x > hi THEN hi ELSE x

-----------------------------------------------------------------------------
(* Compilation.  p.pre and p.post are the places of the jumps past the     *)
(* targets and past the trigger, p.dest where the targets start, p.pend    *)
(* the target that still has no data.                                      *)
Ins(op, ref) == [op |-> op, ref |-> ref, to |-> 0]
I(op)        == Ins(op, << >>)
Jmp(to)      == [I("JMP") EXCEPT !.to = to]
Add(p, ins)  == [p EXCEPT !.code = @ \o ins]
FixUp(c, at, to) == [c EXCEPT ![at].to = to]

wordparse_begin(p) ==
    IF p.pre # 0 THEN p
    ELSE [Add(p, <<Jmp(Len(p.code) + 2)>>) EXCEPT !.pre = Len(p.code) + 1, !.dest = Len(p.code) + 2]

wordparse_endBug(p) ==    \* the jump past the targets stays where it falls through
    IF p.pre = 0 THEN p
    ELSE [p EXCEPT !.code = Append(@, Jmp(0)), !.post = Len(p.code) + 1, !.pre = 0]

wordparse_end(p) ==
    IF p.pre = 0 THEN p
    ELSE [p EXCEPT !.code = FixUp(Append(@, Jmp(0)), p.pre, Len(@) + 2),
                   !.post = Len(p.code) + 1, !.pre = 0]

wordparse_invoke(p) ==
    IF p.dest = 0 \/ p.post = 0 THEN p
    ELSE [p EXCEPT !.code = FixUp(Append(@, Jmp(p.dest)), p.post, Len(@) + 2),
                   !.dest = 0, !.post = 0]

None   == << >>
\* The pending target takes what the trigger has found for it.
Flush(p) ==
    CASE p.pend = None -> p
      [] p.pend = Dot -> [Add(p, <<I("PDOT")>>) EXCEPT !.pend = None]
      [] OTHER -> [Add(p, <<Ins("CREATE", Var(p.pend)), I("PVAR")>>) EXCEPT !.pend = None]

\* A number or a variable's name in parentheses, or neither.
vrefp(n)    == <<Ins("LOAD", Var(n))>>
position(n) == (IF n \in Variables THEN vrefp(n) ELSE <<Ins("PUSH", Lit(n))>>) \o <<I("TOINT")>>
Accepted(s) == s.name \in Variables \/ IsInt(s.name)

TriggerCode(s) ==
    CASE s.k \in {"+", "-"} ->
              <<I("PUSHTMP")>> \o position(s.name)
              \o <<I(IF s.k = "-" THEN "NEG" ELSE "PLUS"), I("TR_REL")>>
      [] s.k = "string" -> <<Ins("PUSH", Lit(s.name)), I("TR_LIT")>>
      [] s.k = "number" -> <<Ins("PUSH", Lit(s.name)), I("TOINT"), I("TR_ABS")>>
      [] s.k = "var"    -> vrefp(s.name) \o <<I("TR_LIT")>>
      [] s.k = "="      -> position(s.name) \o <<I("TOINT"), I("TR_ABS")>>

IsTarget(s)  == s.k = "target"
IsTrigger(s) == s.k \in {"+", "-", "string", "number", "var", "="}

\* One symbol.  A target that follows another is first a blank to look for.
Step(p, s) ==
    IF IsTarget(s)
    THEN LET q == wordparse_begin(p)
             r == IF q.pend # None THEN Flush(Add(q, <<I("TR_SPACE")>>)) ELSE q
         IN  [r EXCEPT !.pend = s.name]
    ELSE Flush(wordparse_invoke(Add(wordparse_end(p), TriggerCode(s))))

Start == [code |-> <<Ins("LOAD", Var(S)), I("COPY2TMP"), I("PARSE")>>,
          pre |-> 0, post |-> 0, dest |-> 0, pend |-> None]

C_template(t) ==
    LET p == FoldLeft(Step, Start, t)
        q == wordparse_end(p)
    IN  (IF q.pend = None THEN q ELSE Flush(wordparse_invoke(Add(q, <<I("TR_END")>>)))).code
        \o <<I("POP")>>

Refuses(s) ==
    \/ ~IsTarget(s) /\ ~IsTrigger(s)
    \/ s.k \in {"+", "-", "=", "number"} /\ ~Accepted(s)

-----------------------------------------------------------------------------
Top       == Len(stack)
STACKTOP  == stack[Top]
ToParse   == mem[stack[1]]       \* interpre_ToParse: where PARSE found it
SourceEnd == Len(ToParse) + 1

Init ==
    /\ tmpl = << >> /\ phase = "read" /\ code = << >> /\ pc = 1 /\ stack = << >>
    /\ \E g \in Value : mem = [r \in {Var(n) : n \in Variables} |-> g[r[2]]]
    /\ word = <<1, 1>> /\ data = <<1, 1>> /\ break = <<1, 1>>
    /\ got = << >> /\ found = 0

Read ==
    /\ phase = "read"
    /\ \E s \in Given(tmpl) : tmpl' = Append(tmpl, s)
    /\ UNCHANGED <<phase, code, pc, stack, mem, cursor, got, found>>

\* The literals of the code are in the table of literals: one for a text.
Compile ==
    /\ phase = "read"
    /\ IF \E i \in 1..Len(tmpl) : Refuses(tmpl[i]) THEN phase' = "refused" /\ UNCHANGED <<code, mem>>
       ELSE LET c == C_template(tmpl)
            IN  /\ phase' = "run" /\ code' = c
                /\ mem' = [r \in {Lit(tmpl[i].name) : i \in {j \in 1..Len(tmpl) :
                                        IsTrigger(tmpl[j]) /\ tmpl[j].name \notin Variables}} |-> r[2]]
                          @@ mem
    /\ UNCHANGED <<tmpl, pc, stack, cursor, got, found>>

Runs(ops) == phase = "run" /\ pc <= Len(code) /\ code[pc].op \in ops
Onward    == pc' = pc + 1 /\ UNCHANGED <<tmpl, phase, code>>

\* OP_LOAD, OP_PUSH and OP_CREATE
Push ==
    /\ Runs({"LOAD", "PUSH", "CREATE"})
    /\ stack' = Append(stack, code[pc].ref)
    /\ Onward /\ UNCHANGED <<mem, cursor, got, found>>

PushTmp ==
    /\ Runs({"PUSHTMP"})
    /\ stack' = Append(stack, Tmp(Top + 1))
    /\ Onward /\ UNCHANGED <<mem, cursor, got, found>>

Copy2Tmp ==
    /\ Runs({"COPY2TMP"})
    /\ stack' = [stack EXCEPT ![Top] = Tmp(Top)]
    /\ mem' = Tmp(Top) :> mem[STACKTOP] @@ mem
    /\ Onward /\ UNCHANGED <<cursor, got, found>>

\* L2INT on the reference itself: what is pushed is spelt anew.
ToInt ==
    /\ Runs({"TOINT"})
    /\ IF IsInt(mem[STACKTOP])
       THEN mem' = [mem EXCEPT ![STACKTOP] = Spelt(IntOf(@))] /\ Onward
       ELSE phase' = "error" /\ UNCHANGED <<tmpl, code, pc, mem>>
    /\ UNCHANGED <<stack, cursor, got, found>>

\* OP_NEG and OP_PLUS
Sign ==
    /\ Runs({"NEG", "PLUS"})
    /\ LET n == IntOf(mem[STACKTOP])
       IN  mem' = stack[Top - 1] :> Spelt(IF code[pc].op = "NEG" THEN -n ELSE n) @@ mem
    /\ stack' = Front(stack)
    /\ Onward /\ UNCHANGED <<cursor, got, found>>

OP_JMP ==
    /\ Runs({"JMP"})
    /\ pc' = code[pc].to
    /\ UNCHANGED <<tmpl, phase, code, stack, mem, cursor, got, found>>

OP_PARSE ==
    /\ Runs({"PARSE"})
    /\ word' = <<1, word[2]>> /\ data' = <<1, data[2]>> /\ break' = <<1, 1>>
    /\ Onward /\ UNCHANGED <<stack, mem, got, found>>

\* Every trigger: the data start where start says, the break becomes b, and
\* the data end there unless that is no further on.
Trigger(start, b) ==
    /\ break' = b
    /\ data' = <<start, IF b[2] <= start THEN SourceEnd ELSE b[1]>>
    /\ word' = data'
    /\ found' = found + 1

TriggerLitBug ==           \* looks from where the last match started
    /\ Runs({"TR_LIT"})
    /\ LET at == Lpos(mem[STACKTOP], ToParse, break[1])
       IN  Trigger(break[2], IF at > 0 THEN <<at, at + Len(mem[STACKTOP])>> ELSE <<SourceEnd, SourceEnd>>)
    /\ stack' = Front(stack)
    /\ Onward /\ UNCHANGED <<mem, got>>

TriggerLit ==
    /\ Runs({"TR_LIT"})
    /\ LET at == Lpos(mem[STACKTOP], ToParse, break[2])
       IN  Trigger(break[2], IF at > 0 THEN <<at, at + Len(mem[STACKTOP])>> ELSE <<SourceEnd, SourceEnd>>)
    /\ stack' = Front(stack)
    /\ Onward /\ UNCHANGED <<mem, got>>

TriggerAbs ==
    /\ Runs({"TR_ABS"})
    /\ LET b == RANGE(1, IntOf(mem[STACKTOP]), SourceEnd) IN Trigger(break[2], <<b, b>>)
    /\ stack' = Front(stack)
    /\ Onward /\ UNCHANGED <<mem, got>>

TriggerRel ==
    /\ Runs({"TR_REL"})
    /\ LET b == RANGE(1, break[1] + IntOf(mem[STACKTOP]), SourceEnd) IN Trigger(break[1], <<b, b>>)
    /\ stack' = Front(stack)
    /\ Onward /\ UNCHANGED <<mem, got>>

TriggerEnd ==
    /\ Runs({"TR_END"})
    /\ Trigger(break[2], <<SourceEnd, SourceEnd>>)
    /\ Onward /\ UNCHANGED <<stack, mem, got>>

\* I_trigger_space: the next word, and where to go on after one blank.
TriggerSpace ==
    /\ Runs({"TR_SPACE"})
    /\ LET capped(p) == IF p >= data[2] THEN data[2] - 1 ELSE p
           from == capped(Skip(ToParse, word[1] - 1, TRUE))
           upto == capped(Skip(ToParse, from, FALSE))
       IN  word' = <<from + 1, upto + 1>> /\ data' = <<upto + 2, data[2]>>
    /\ Onward /\ UNCHANGED <<break, stack, mem, got, found>>

\* The word, and then, should no more words be looked for, the rest.
Word == IF word[2] > word[1] THEN SubSeq(ToParse, word[1], word[2] - 1) ELSE << >>

OP_PVAR ==
    /\ Runs({"PVAR"})
    /\ mem' = [mem EXCEPT ![STACKTOP] = Word]
    /\ got' = Append(got, <<STACKTOP[2], Word>>)
    /\ stack' = Front(stack)
    /\ word' = data
    /\ Onward /\ UNCHANGED <<data, break, found>>

OP_PDOT ==
    /\ Runs({"PDOT"})
    /\ got' = Append(got, <<Dot, Word>>)
    /\ word' = data
    /\ Onward /\ UNCHANGED <<data, break, stack, mem, found>>

OP_POP ==
    /\ Runs({"POP"})
    /\ stack' = Front(stack)
    /\ phase' = "end"
    /\ UNCHANGED <<tmpl, code, pc, mem, cursor, got, found>>

Next ==
    \/ Read \/ Compile \/ Push \/ PushTmp \/ Copy2Tmp \/ ToInt \/ Sign \/ OP_JMP \/ OP_PARSE
    \/ TriggerLit \/ TriggerAbs \/ TriggerRel \/ TriggerEnd \/ TriggerSpace
    \/ OP_PVAR \/ OP_PDOT \/ OP_POP

Spec == Init /\ [][Next]_vars
=============================================================================
