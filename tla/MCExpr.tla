------------------------------- MODULE MCExpr -------------------------------
(* Expressions for ExprCode: every short text, the longer ones that look   *)
(* like expressions, and calls with their arguments.                       *)
EXTENDS ExprMeaning

Y(k, n, b) == [k |-> k, name |-> n, blank |-> b]
S(k)       == Y(k, "none", FALSE)

Operand(n, b) == Y("ident_sy", n, b)
Infixes == {S(k) : k \in {"or_sy", "eq_sy", "concat_sy", "plus_sy", "times_sy", "power_sy"}}
Open    == {S("le_parent"), Y("le_parent", "none", TRUE)}
Func    == Y("function_sy", "f", FALSE)
Close   == S("ri_parent")
Comma   == S("comma_sy")

Short == {Operand("x", FALSE), Operand("y", TRUE), Y("literal_sy", "a", FALSE), S("minus_sy"),
          S("not_sy"), S("or_sy"), S("eq_sy"), S("times_sy"), S("concat_sy"),
          Func, Close, Comma} \cup Open
Rare  == {S("xor_sy"), S("and_sy"), S("gt_sy"), S("intdiv_sy"), Y("dot_sy", "dot", FALSE), S("plus_sy")}

AllSymbols == Short \cup Rare \cup Infixes \cup {Operand(n, b) : n \in {"x", "y"}, b \in BOOLEAN}

Number(t, cs) == Cardinality({i \in 1..Len(t) : t[i] \in cs})
Ended(t)  == t # << >> /\ Last(t).k \in EndsTerm

\* Expressions of four terms, x and y in turn, with parentheses, a function
\* or a prefix operator, or of three terms with two of these.
Terms(t)  == Cardinality({i \in 1..Len(t) : t[i].k = "ident_sy"})
Extra     == Open \cup {Func, S("minus_sy"), S("not_sy")}
Inside(t) == Number(t, Open \cup {Func}) - Number(t, {Close})
Term(t, b) == Operand(<<"x", "y", "x", "y", "x">>[Terms(t) + 1], b)
LongAfter(t) ==
    IF Ended(t)
    THEN (IF Terms(t) >= (IF Number(t, Extra) = 2 THEN 3 ELSE 4) THEN {} ELSE Infixes \cup {Term(t, TRUE), Term(t, FALSE)})
           \cup (IF Inside(t) > 0 THEN {Close} ELSE {})
    ELSE {Term(t, FALSE)} \cup (IF Number(t, Extra) < 2 THEN Extra \ {Y("le_parent", "none", TRUE)} ELSE {})

IsLong(t) == \A i \in 1..Len(t) : t[i] \in LongAfter(SubSeq(t, 1, i - 1))

\* Calls in calls, with arguments there or not.
InCall == {Operand("x", FALSE), Func, Comma, Close, S("minus_sy")}
IsCall(t) == t # << >> /\ t[1] = Func /\ \A i \in 1..Len(t) : t[i] \in InCall

Expressions(t) ==
    (IF Len(t) < 4 THEN Short \cup (IF Len(t) < 2 THEN Rare ELSE {}) ELSE {})
    \cup (IF IsLong(t) THEN LongAfter(t) ELSE {})
    \cup (IF IsCall(t) /\ Len(t) < 7 THEN InCall ELSE {})
=============================================================================
