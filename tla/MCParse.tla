------------------------------ MODULE MCParse ------------------------------
(* Templates for Parse: every short one, and longer ones of targets and    *)
(* the commonest triggers.                                                 *)
EXTENDS ParseMeaning

Y(k, n) == [k |-> k, name |-> n]

Target == {Y("target", n) : n \in {S, V, Dot}}
Comma  == Y("string", <<",">>)
String == {Comma, Y("string", << >>), Y("string", <<"0", "2">>), Y("var", V), Y("var", S)}
Place  == {Y("number", <<"1">>), Y("number", <<"9">>), Y("number", <<"0", "2">>), Y("=", V),
           Y("+", <<"1">>), Y("+", <<"0">>), Y("+", V), Y("-", <<"2">>), Y("=", <<"3">>),
           Y("number", <<"1", ".", "0">>), Y("+", <<"-", "1">>), Y("=", <<" ", "2", " ">>)}
Wrong  == {Y("operator", <<"?">>), Y("+", <<"?">>), Y("number", <<"1", ".", "5">>)}

Usual == {Y("target", V), Y("target", Dot), Comma, Y("number", <<"3">>), Y("+", <<"1">>)}

Templates(t) ==
    (IF Len(t) < 3 THEN Target \cup String \cup Place \cup (IF t = << >> THEN Wrong ELSE {}) ELSE {})
    \cup (IF Len(t) < 5 /\ \A i \in 1..Len(t) : t[i] \in Usual THEN Usual ELSE {})

Sources == {<< >>, <<" ">>, <<"a", ",", "2">>, <<" ", "2", " ", " ", "a">>, <<"0", "2", ",", "a", " ", ",">>}
Texts == {[n \in Variables |-> IF n = S THEN x ELSE y] : x \in Sources,
            y \in {<<",">>, <<"2">>, <<" ", "2">>, <<"-", " ", "1">>, <<".">>}}
=============================================================================
