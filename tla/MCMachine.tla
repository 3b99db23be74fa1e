----------------------------- MODULE MCMachine -----------------------------
(* Small texts for Machine: nested loops with LEAVE and ITERATE, branches, *)
(* transfers of control, and each kind of clause by itself.                *)
EXTENDS Machine

C(k, name, subs, cond) == [k |-> k, name |-> name, subs |-> subs, cond |-> cond]
Plain1(k)  == C(k, "none", << >>, "none")
Cl(name, v) == C("simple", name, << >>, v)

\* Loops to nest, and loops to look at alone.
Nested == { C("do", "i", << >>, "none"), C("do", "i", <<"by", "to">>, "none"),
            C("do", "i", <<"to", "for">>, "until"), C("do", "j", <<"for">>, "while"),
            C("do", "none", <<"for">>, "none"), C("do", "none", << >>, "until") }
\* Three loops, one in the other, and see Deep.
Loops3 == {C("do", "i", <<"by", "to">>, "none"), C("do", "j", <<"for">>, "while"),
           C("do", "i", <<"to", "for">>, "until"), C("do", "none", <<"for">>, "none")}
Alone == {C("do", n, s, c) : n \in {"i"}, c \in {"none", "while", "until"},
                             s \in {<<"to", "by">>, <<"for", "by", "to">>, <<"to", "for", "by">>,
                                    <<"by", "for">>, <<"by">>, << >>, <<"to", "to">>}}
            \cup {C("do", "none", << >>, c) : c \in {"none", "while"}}
Jumps == {C(k, n, << >>, "none") : k \in {"leave", "iterate"}, n \in {"none", "i", "j"}}
Ends1 == {C("end", n, << >>, "none") : n \in {"none", "i"}}
Branches == {Plain1(k) : k \in {"group", "if", "else", "select", "when", "otherwise"}}
Transfers == {C(k, "a", << >>, "none") : k \in {"label", "signal", "call"}}
Nop == Cl("nop", "none")
Forms == {Nop} \cup {C("simple", "parse", <<up>>, v) : up \in {"upper", "other"},
               v \in {"arg", "external", "numeric", "pull", "var", "source", "value", "version"}}
         \cup {Cl("address", v) : v \in {"value", "command", "none"}}
         \cup {Cl("assign", v) : v \in {"value", "operator", "stem"}}
         \cup {Cl("drop", v) : v \in {"name", "list"}}
         \cup {Cl("numeric", v) : v \in {"form", "digits"}}
         \cup {Cl(n, v) : n \in {"exit", "push", "queue", "return"}, v \in {"none", "value"}}
         \cup {Cl("signal", v) : v \in {"onname", "on"}} \cup {Cl("trace", v) : v \in {"value", "none"}}
         \cup {Cl(n, "none") : n \in {"arg", "command", "interpret", "lower", "options", "pull",
                                      "say", "upper"}}

AllClauses == Nested \cup Alone \cup Jumps \cup Ends1 \cup Branches \cup Transfers \cup Forms

Kinds(t)     == {t[i].k : i \in 1..Len(t)}
Count(t, cs) == Cardinality({i \in 1..Len(t) : t[i] \in cs})

OfNests     == Nested \cup Jumps \cup Ends1 \cup {Nop}
OfChoices   == Branches \cup Ends1 \cup {Nop, Plain1("leave"), C("do", "i", <<"to">>, "none")}
OfTransfers == Transfers \cup Ends1 \cup {Nop, Cl("return", "none"),
                                          C("do", "i", <<"by", "to">>, "none")}
OfAny       == AllClauses \ (Ends1 \cup {Nop})
Openers     == {c \in AllClauses : c.k \in {"do", "group", "select"}}
\* What may follow a first clause.
Core        == OfNests \cup Loops3 \cup OfChoices \cup OfTransfers
All(t, cs)  == \A i \in 1..Len(t) : t[i] \in cs

Nests(t)      == /\ All(t, OfNests)
                 /\ Count(t, Jumps) <= 1 /\ Count(t, {Nop}) <= 1 /\ Count(t, Nested) <= 2
Chooses(t)    == All(t, OfChoices)
Transfers1(t) == All(t, OfTransfers)
Single(t)     == Len(t) <= 3 /\ Count(t, OfAny) <= 1

\* A way out of, or back in, the innermost of three loops.
Deep(t)       == \A i \in 1..Len(t) : t[i] \in IF i <= 3 THEN Loops3 ELSE IF i = 4 THEN Jumps
                                              ELSE {Plain1("end")}
\* An empty DO group or OTHERWISE shares its announcement with what follows.
NoEmpty(t) == \A i \in 1..Len(t) - 1 :
                  ~(t[i].k \in {"group", "otherwise"} /\ t[i + 1].k = "end")

\* Long texts are those that may still become well-formed.
Opened(t) == Count(t, Openers) - Count(t, Ends1)
Viable(t) ==
    LET n == Len(t)
        Ks(k) == Cardinality({i \in 1..n : t[i].k = k})
        lone == {i \in 1..n : t[i].k \in {"if", "else", "when", "otherwise"}}
    IN  /\ Opened(t) + (IF n \in lone THEN 1 ELSE 0) \in 0..(IF Deep(t) THEN 7 ELSE 6) - n
        /\ Ks("else") <= Ks("if")
        /\ Ks("select") <= 1
        /\ \A i \in 1..n : t[i].k \in {"when", "otherwise"} => Ks("select") > 0
        /\ \A i \in 2..n : t[i - 1].k = "select" => t[i].k = "when"
        /\ \A i \in 2..n : t[i - 1].k \in {"if", "else", "when"}
                          => t[i].k \notin {"end", "else", "when", "otherwise"}

Fits(t, inter) ==
    /\ NoEmpty(t)
    /\ inter => Kinds(t) \cap {"label", "signal", "call"} = {}
    /\ \/ Len(t) <= 6 /\ (Nests(t) \/ Chooses(t) \/ Transfers1(t) \/ Single(t))
       \/ Deep(t) /\ ~inter
    /\ Len(t) > 3 => Viable(t)

Texts(t, inter) ==
    {c \in (IF t = << >> THEN AllClauses ELSE Core) : Fits(Append(t, c), inter)}

End1 == Plain1("end")
Closers == {<< >>, <<Nop>>, <<End1>>, <<Nop, End1>>, <<End1, End1>>, <<End1, End1, End1>>,
            <<Nop, End1, End1>>, <<Plain1("when"), Nop, End1>>}

Runnable(t) ==
    \A i \in 1..Len(t) : t[i].k \in {"signal", "call"} => "label" \in Kinds(t)
=============================================================================
