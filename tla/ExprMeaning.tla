---------------------------- MODULE ExprMeaning ----------------------------
(* What an expression means by the grammar and the table of priorities of  *)
(* help/expressi.helprexx, found by splitting the text where the operator  *)
(* applied last is; and that the code of ExprCode computes it.             *)
EXTENDS ExprCode

Nothing == Leaf("nothing")   \* of an empty text
Bad     == Leaf("bad")       \* of one that is no expression

\* How many parentheses are open around symbol i.
Depth(i) ==
      Cardinality({j \in 1..i - 1 : text[j].k \in {"le_parent", "function_sy"}})
    - Cardinality({j \in 1..i : text[j].k = "ri_parent"})
Balanced ==
    \A i \in 1..Len(text) + 1 : IF i <= Len(text) THEN Depth(i) >= 0
        ELSE Cardinality({j \in 1..Len(text) : text[j].k \in {"le_parent", "function_sy"}})
             = Cardinality({j \in 1..Len(text) : text[j].k = "ri_parent"})

Priority(k) ==
    CASE k \in {"or_sy", "xor_sy"} -> 1 [] k = "and_sy" -> 2 [] k \in Comparisons -> 3
      [] k = "concat_sy" -> 4 [] k \in {"plus_sy", "minus_sy"} -> 5
      [] k \in Products -> 6 [] k = "power_sy" -> 7 [] OTHER -> 0

Name(k) ==
    CASE k = "plus_sy" -> "ADD" [] k = "minus_sy" -> "SUB" [] k = "concat_sy" -> "CONCAT"
      [] OTHER -> k

\* Where lo..hi can be taken apart: at an operator, or between two terms.
Splits(lo, hi) ==
    LET after(i) == i > lo /\ text[i - 1].k \in EndsTerm
        level == {i \in lo..hi : Depth(i) = Depth(lo)}
    IN  {[at |-> i, lev |-> Priority(text[i].k), left |-> i - 1, right |-> i + 1,
          op |-> Name(text[i].k)] :
            i \in {j \in level : Priority(text[j].k) > 0 /\ (text[j].k \in Prefix => after(j))}}
        \cup
        {[at |-> i, lev |-> 4, left |-> i - 1, right |-> i,
          op |-> IF text[i].blank THEN "BCONCAT" ELSE "CONCAT"] :
            i \in {j \in level : after(j) /\ text[j].k \in StartsTerm \ {"plus_sy", "minus_sy"}}}

\* Of the operators of lowest priority the rightmost is applied last.
Applied(S) == CHOOSE s \in S : \A t \in S : t.lev > s.lev \/ (t.lev = s.lev /\ t.at <= s.at)

Build(op, s) == IF \E i \in 1..Len(s) : s[i] \in {Nothing, Bad} THEN Bad ELSE Apply(op, s)

RECURSIVE Value(_, _)

\* The arguments between lo and hi, the omitted ones at the end dropped.
Args(lo, hi) ==
    LET commas == SetToSortSeq({i \in lo..hi : text[i].k = "comma_sy" /\ Depth(i) = Depth(lo)}, <)
        from(n) == IF n = 1 THEN lo ELSE commas[n - 1] + 1
        upto(n) == IF n > Len(commas) THEN hi ELSE commas[n] - 1
        all == [n \in 1..Len(commas) + 1 |-> IF from(n) > upto(n) THEN Leaf("omitted")
                                             ELSE Value(from(n), upto(n))]
    IN  IF lo > hi THEN << >>
        ELSE SubSeq(all, 1, SelectLastInSeq(all, LAMBDA v : v # Leaf("omitted")))

Value(lo, hi) ==
    IF lo > hi THEN Nothing
    ELSE IF \E i \in lo..hi : text[i].k = "comma_sy" /\ Depth(i) = Depth(lo) THEN Bad
    ELSE IF Splits(lo, hi) # {}
         THEN LET s == Applied(Splits(lo, hi))
              IN  Build(s.op, <<Value(lo, s.left), Value(s.right, hi)>>)
    ELSE IF text[lo].k \in Prefix THEN Build(text[lo].k, <<Value(lo + 1, hi)>>)
    ELSE IF lo = hi THEN (IF text[lo].k \in {"ident_sy", "literal_sy", "dot_sy"}
                          THEN Leaf(text[lo].name) ELSE Bad)
    ELSE IF text[lo].k = "le_parent" THEN Value(lo + 1, hi - 1)
    ELSE IF text[lo].k = "function_sy" THEN Build(text[lo].name, Args(lo + 1, hi - 1))
    ELSE Bad

Meaning == IF Balanced THEN Value(1, Len(text)) ELSE Bad

\* The help file knows no limit to the comparisons in a row; Exp2 takes one.
Chained ==
    \E i \in 1..Len(text) : \E j \in i + 1..Len(text) :
        /\ {text[i].k, text[j].k} \subseteq Comparisons
        /\ Depth(i) = Depth(j)
        /\ \A m \in i..j : Depth(m) >= Depth(i) /\
               (Depth(m) = Depth(i) => text[m].k \notin {"and_sy", "or_sy", "xor_sy", "comma_sy"})

\* "()" as an argument is counted, but nothing is there for it.
HollowArgument ==
    /\ \E i \in 1..Len(text) : text[i].k = "function_sy"
    /\ \E i \in 2..Len(text) : text[i - 1].k = "le_parent" /\ text[i].k = "ri_parent"

-----------------------------------------------------------------------------
\* C_expr refuses no expression of the grammar but a chain of comparisons;
\* the code Exp0 to Exp8 and C_function make of the others leaves one value,
\* the meaning of the text, in the variable or on the stack, and nothing else
\* on the stack.
Means ==
    /\ phase = "refused" => Meaning = Bad \/ Chained
    /\ (phase = "end" /\ ~HollowArgument) =>
        LET value == IF Meaning = Nothing THEN Null ELSE Meaning
        IN  CASE calltype = "exp_assign" -> stack = << >> /\ mem[Var("x")] = value
              [] calltype = "exp_tmp"    -> stack = <<Tmp(1)>> /\ mem[Tmp(1)] = value
              [] calltype = "exp_normal" -> Len(stack) = 1 /\ mem[stack[1]] = value

\* The variable assigned keeps its value until its new one is complete
\* (InsTmp lets operators store into it): only POP is left to do then.
AssignedLast ==
    [][mem'[Var("x")] # mem[Var("x")] =>
          /\ calltype = "exp_assign"
          /\ \A k \in pc + 1..Len(code) : code[k].op = "POP"]_vars

\* Nothing else is stored into but temporaries (LOAD and PUSH give out
\* references to variables and literals), and a built-in function is never
\* given its own result's place as an argument.
OperandsIntact ==
    /\ mem[Var("y")] = Leaf("y")
    /\ \A r \in DOMAIN mem : r[1] = "lit" => mem[r] = Leaf(r[2])
    /\ \A i \in 1..Len(slot.a) : slot.a[i] # << >> => slot.a[i] # slot.r
=============================================================================
