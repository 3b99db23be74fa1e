---------------------------- MODULE ParseMeaning ----------------------------
(* What a template means: triggers cut the source into pieces, and the     *)
(* targets before each take the words of its piece; and that the code of   *)
(* Parse does that.  The words and positions are those of the definitions  *)
(* in help/parse.helprexx, with one difference: the trigger implied between *)
(* two targets takes one blank, not "1 or more" (lines 63-66), so that the *)
(* last target keeps what other blanks there are.  The examples of lines   *)
(* 119-130 and 157-163 count positions from 0 and from 2 and contradict    *)
(* each other, the definitions and the code; the one of lines 145-147 has  *)
(* the trigger ' ' end the data at the fifth blank, the definition and the *)
(* code have it end at the first.                                          *)
EXTENDS Parse, FiniteSets

Triggers(t)  == {i \in 1..Len(t) : IsTrigger(t[i])}
TriggersIn(t, i) == Cardinality({j \in 1..i : IsTrigger(t[j])})

\* The targets of the n-th piece, and the trigger after them if there is one.
Targets(t, n) ==
    LET of == SetToSortSeq({i \in 1..Len(t) : IsTarget(t[i]) /\ TriggersIn(t, i) = n - 1}, <)
    IN  [i \in 1..Len(of) |-> t[of[i]].name]
TriggerAfter(t, n) ==
    LET at == {i \in Triggers(t) : TriggersIn(t, i) = n}
    IN  IF at = {} THEN [k |-> "end", name |-> << >>] ELSE t[CHOOSE i \in at : TRUE]
Pieces(t) ==
    [n \in 1..Cardinality(Triggers(t)) + (IF Len(t) > 0 /\ IsTarget(Last(t)) THEN 1 ELSE 0) |->
        [targets |-> Targets(t, n), trigger |-> TriggerAfter(t, n)]]

\* The words of a text: from where to where each goes.
WordsOf(d) ==
    LET blank(i) == i < 1 \/ i > Len(d) \/ d[i] = " "
    IN  SetToSortSeq({w \in (1..Len(d)) \X (1..Len(d)) :
                        /\ w[1] <= w[2] /\ blank(w[1] - 1) /\ blank(w[2] + 1)
                        /\ \A i \in w[1]..w[2] : ~blank(i)},
                     LAMBDA a, b : a[1] < b[1])

\* The i-th of k targets gets the i-th word, the last one all that follows
\* the blank after the word before.
Share(d, i, k) ==
    LET w == WordsOf(d)
    IN  IF i < k THEN (IF i > Len(w) THEN << >> ELSE SubSeq(d, w[i][1], w[i][2]))
        ELSE IF k = 1 THEN d
        ELSE IF k - 1 > Len(w) THEN << >>
        ELSE SubSeq(d, w[k - 1][2] + 2, Len(d))

\* A whole number: blanks, a sign, blanks, digits with at most one point among
\* them and only zeros after it, blanks.
Trim(s) ==
    LET ink == {i \in 1..Len(s) : s[i] # " "}
    IN  IF ink = {} THEN << >> ELSE SubSeq(s, Min(ink), Max(ink))
Signed(s)   == s # << >> /\ s[1] \in {"-", "+"}
Unsign(s)   == IF Signed(Trim(s)) THEN Trim(Tail(Trim(s))) ELSE Trim(s)
Points(s)   == {i \in 1..Len(s) : s[i] = "."}
WholePart(s) == IF Points(s) = {} THEN s ELSE SubSeq(s, 1, Min(Points(s)) - 1)
IsWhole(s) ==
    LET u == Unsign(s)
    IN  /\ u \notin {<< >>, Dot} /\ Cardinality(Points(u)) <= 1
        /\ \A i \in 1..Len(u) :
              u[i] = "." \/ (IF i > Len(WholePart(u)) THEN u[i] = "0" ELSE Contains(Digits, u[i]))
Whole(s) ==
    LET n == Worth(WholePart(Unsign(s)))
    IN  IF Signed(Trim(s)) /\ Trim(s)[1] = "-" THEN -n ELSE n

\* m: where the last match starts and ends, the variables, what was given
\* so far, what was spelt anew, and whether that was then looked for or a point
\* alone was a position.
RefOf(s)     == IF s.name \in Variables THEN Var(s.name) ELSE Lit(s.name)
Positional(s) == s.k \in {"+", "-", "=", "number"}
TextOf(m, s) == IF s.name \in Variables THEN m.vars[s.name] ELSE s.name

Match(m, s, src) ==
    LET end == Len(src) + 1
        n   == Whole(TextOf(m, s))
        to(x) == <<RANGE(1, x, end), RANGE(1, x, end)>>
    IN  CASE s.k = "end" -> <<end, end>>
          [] s.k = "+" -> to(m.s + n)
          [] s.k = "-" -> to(m.s - n)
          [] s.k \in {"=", "number"} -> to(n)
          [] s.k \in {"string", "var"} ->
               LET at == Lpos(TextOf(m, s), src, m.e)
               IN  IF at = 0 THEN <<end, end>> ELSE <<at, at + Len(TextOf(m, s))>>

Piece(m, piece, src) ==
    LET s     == piece.trigger
        k     == Len(piece.targets)
        from  == IF s.k \in {"+", "-"} THEN m.s ELSE m.e
        match == Match(m, s, src)
        d     == SubSeq(src, from, IF match[2] > from THEN match[1] - 1 ELSE Len(src))
        given == [i \in 1..k |-> <<piece.targets[i], Share(d, i, k)>>]
        anew  == {RefOf(s) : x \in {y \in {1} : Positional(s) /\ TextOf(m, s) # Spelt(Whole(TextOf(m, s)))}}
        last(n) == SelectLastInSeq(given, LAMBDA g : g[1] = n)
    IN  IF m.bad \/ (Positional(s) /\ ~IsWhole(TextOf(m, s)))
        THEN [m EXCEPT !.bad = TRUE,
                       !.lost = @ \/ (~m.bad /\ Unsign(TextOf(m, s)) = Dot)]
        ELSE [s |-> match[1], e |-> match[2], bad |-> FALSE,
              got |-> m.got \o given,
              vars |-> [n \in Variables |-> IF last(n) = 0 THEN m.vars[n] ELSE given[last(n)][2]],
              anew |-> (m.anew \cup anew) \ {Var(n) : n \in {x \in Variables : last(x) > 0}},
              lost |-> m.lost \/ (s.k \in {"string", "var"} /\ RefOf(s) \in m.anew)]

Meaning(t, given) ==
    FoldLeft(LAMBDA m, piece : Piece(m, piece, given[S]),
             [s |-> 1, e |-> 1, bad |-> FALSE, got |-> << >>, vars |-> given, anew |-> {}, lost |-> FALSE],
             Pieces(t))

VARIABLE given               \* the variables before the instruction

MeaningInit == Init /\ given = [n \in Variables |-> mem[Var(n)]]
MeaningNext == Next /\ UNCHANGED given
MeaningSpec == MeaningInit /\ [][MeaningNext]_<<vars, given>>

-----------------------------------------------------------------------------
(* Every target is given its words, in the order of the template, dots and *)
(* repeated targets included, also where a target is the source or the     *)
(* value of a later trigger; and a position that is no number stops the    *)
(* clause before the targets that wait for it.  The jumps between targets  *)
(* and triggers obey each trigger once and leave the stack as it was.  A   *)
(* literal or variable that was a position is spelt as a number from then  *)
(* on (OP_TOINT), so one that is then looked for as a text may not be      *)
(* found; and a point alone is taken for the number 0 (rxatof).            *)
Parsed ==
    /\ phase \in {"end", "error"} =>
        LET m == Meaning(tmpl, given)
        IN  ~m.lost => got = m.got /\ (phase = "error") = m.bad
    /\ phase = "end" => stack = << >> /\ found = Len(Pieces(tmpl))

(* A target gets its value after the trigger that ends its data was found, *)
(* and before any later one is looked for.                                 *)
TriggersFirst ==
    [][got' # got =>
        LET at == CHOOSE i \in 1..Len(tmpl) : /\ IsTarget(tmpl[i])
                                              /\ Cardinality({j \in 1..i : IsTarget(tmpl[j])}) = Len(got')
        IN  found = TriggersIn(tmpl, at) + 1]_<<vars, given>>
=============================================================================
