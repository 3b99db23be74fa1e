----------------------------- MODULE Structure -----------------------------
(* What the clauses of a program promise: which clause may be announced    *)
(* after which, by the nesting of DO, IF and SELECT in the text.  There is *)
(* no code here, no jump and no stack.                                     *)
EXTENDS Integers, Sequences, SequencesExt, FiniteSets

VARIABLES
    text,   \* the clauses, being read while at = 0
    at,     \* the clause announced last
    how,    \* "on"; "called", a routine being entered; "back", returned from it
    calls   \* CALL clauses whose routines run

svars == <<text, at, how, calls>>

-----------------------------------------------------------------------------
(* The extent of statements: span[<<"stmt", i>>] is the place after the    *)
(* one that starts at i, span[<<"list", i>>] the END of the list that      *)
(* starts there, 0 where there is none.                                    *)
Span(t) ==
    LET n == Len(t)
        K(i) == IF i > n THEN "none" ELSE t[i].k
        f[x \in {"stmt", "list", "whens", "more"} \X (1..n + 1)] ==
            LET i == x[2]
                then(b, kind) == IF b = 0 THEN 0 ELSE f[<<kind, b>>]
                plus(e) == IF e = 0 THEN 0 ELSE e + 1
            IN  IF i > n THEN 0
                ELSE IF x[1] = "list"
                     THEN IF K(i) = "end" THEN i ELSE then(f[<<"stmt", i>>], "list")
                ELSE IF x[1] # "stmt"
                     THEN CASE K(i) = "when" -> then(f[<<"stmt", i + 1>>], "more")
                            [] K(i) = "otherwise" /\ x[1] = "more" -> f[<<"list", i + 1>>]
                            [] K(i) = "end" /\ x[1] = "more" -> i
                            [] OTHER -> 0
                ELSE CASE K(i) \in {"simple", "signal", "call", "leave", "iterate"} -> i + 1
                       [] K(i) \in {"group", "do"} -> plus(f[<<"list", i + 1>>])
                       [] K(i) = "select" -> plus(f[<<"whens", i + 1>>])
                       [] K(i) = "if" ->
                            (LET b == f[<<"stmt", i + 1>>]
                             IN  IF b # 0 /\ K(b) = "else" THEN f[<<"stmt", b + 1>>] ELSE b)
                       [] OTHER -> 0
    IN  f

\* The clauses that open what a list or statement at i is in, of kind k.
Around(t, i, k) ==
    LET s == Span(t)
    IN  {p \in 1..Len(t) : t[p].k = k /\ p < i /\ s[<<"stmt", p>>] > i}

Innermost(S) == CHOOSE p \in S : \A q \in S : q <= p
LoopOf(t, i) ==
    Innermost({d \in Around(t, i, "do") : t[i].name = "none" \/ t[d].name = t[i].name})

WellFormed(t) ==
    LET n == Len(t)
        s == Span(t)
        main[i \in 1..n + 1] ==
            IF i > n THEN TRUE
            ELSE IF t[i].k = "label" THEN main[i + 1]
            ELSE s[<<"stmt", i>>] # 0 /\ main[s[<<"stmt", i>>]]
    IN  /\ main[1]
        /\ \A i \in 1..n :
             /\ t[i].k = "do" => IsInjective(t[i].subs)
             /\ t[i].k \in {"leave", "iterate"} =>
                    \E d \in Around(t, i, "do") : t[i].name = "none" \/ t[d].name = t[i].name
             /\ t[i].k \in {"do", "group", "select"} =>
                    LET e == t[s[<<"stmt", i>>] - 1].name
                    IN  e = "none" \/ (t[i].k = "do" /\ e = t[i].name)

-----------------------------------------------------------------------------
\* Clauses that only lead to the next one are announced with it.
Silent == {"label", "else", "otherwise", "group"}
Lead(t, i) == CHOOSE j \in 1..i : /\ \A m \in j..i - 1 : t[m].k \in Silent
                                  /\ j = 1 \/ t[j - 1].k \notin Silent
Last1(t, i) == CHOOSE m \in i..Len(t) + 1 : /\ \A j \in i..m - 1 : t[j].k \in Silent
                                            /\ m > Len(t) \/ t[m].k \notin Silent

LabelOf(t, name) == CHOOSE i \in 1..Len(t) : /\ t[i].k = "label" /\ t[i].name = name
                                             /\ \A j \in 1..i - 1 : ~(t[j].k = "label" /\ t[j].name = name)

Ends(c)  == c.cond # "none" \/ \E p \in {"to", "for"} : Contains(c.subs, p)
Tested(c) == c.cond = "while" \/ \E p \in {"to", "for"} : Contains(c.subs, p)
Body(t, d) == IF t[d + 1].k = "end" THEN {} ELSE {Lead(t, d + 1)}

\* What comes after the statement that starts at i.
After(t) ==
    LET s == Span(t)
        f[i \in 1..Len(t)] ==
            LET e == s[<<"stmt", i>>]
                before == IF i = 1 THEN "none" ELSE t[i - 1].k
                opener == CHOOSE b \in 1..i - 1 :
                            t[b].k \in {"group", "do", "otherwise"} /\ s[<<"list", b + 1>>] = e
            IN  CASE before = "if" -> f[i - 1]
                  [] before = "else" ->
                       f[CHOOSE p \in 1..i - 1 : t[p].k = "if" /\ s[<<"stmt", p + 1>>] = i - 1]
                  [] before = "when" -> f[Innermost(Around(t, i, "select"))]
                  [] before \notin {"if", "else", "when"} ->
                       IF e > Len(t) \/ t[e].k # "end" THEN {Lead(t, e)}
                       ELSE IF t[opener].k = "group" THEN f[opener]
                       ELSE IF t[opener].k = "otherwise" THEN f[Innermost(Around(t, opener, "select"))]
                       ELSE Body(t, opener) \cup (IF Ends(t[opener]) THEN f[opener] ELSE {})
    IN  f

\* After the instructions of loop d, or ITERATE.
Again(t, d) == Body(t, d) \cup (IF Ends(t[d]) THEN After(t)[d] ELSE {})

\* WHEN's condition is false: the next WHEN, OTHERWISE, or out.
NextWhen(t, w) ==
    LET e == Span(t)[<<"stmt", w + 1>>]
    IN  IF t[e].k = "end" THEN After(t)[Innermost(Around(t, w, "select"))] ELSE {Lead(t, e)}

\* What may be announced after the clauses announced at i.
Flow(t, i) ==
    LET m == Last1(t, i)
        s == Span(t)
    IN  IF m > Len(t) THEN {}
        ELSE CASE t[m].k = "simple" -> After(t)[m]
               [] t[m].k = "if" ->
                    {Lead(t, m + 1)} \cup
                    (LET b == s[<<"stmt", m + 1>>]
                     IN  IF b <= Len(t) /\ t[b].k = "else" THEN {Lead(t, b)} ELSE After(t)[m])
               [] t[m].k = "do" ->
                    Body(t, m) \cup (IF Tested(t[m]) THEN After(t)[m] ELSE {})
                      \cup (IF Body(t, m) = {} /\ Ends(t[m]) THEN After(t)[m] ELSE {})
               [] t[m].k = "select" -> {m + 1}
               [] t[m].k = "when" -> {Lead(t, m + 1)} \cup NextWhen(t, m)
               [] t[m].k = "leave" -> After(t)[LoopOf(t, m)]
               [] t[m].k = "iterate" -> Again(t, LoopOf(t, m))
               [] t[m].k = "signal" -> {Lead(t, LabelOf(t, t[m].name))}
               [] OTHER -> {}

-----------------------------------------------------------------------------
Init == text = << >> /\ at = 0 /\ how = "on" /\ calls = << >>

\* Nothing is promised of texts that are not well-formed.
Free == ~WellFormed(text)

\* The clauses announced end in one that f holds of.
EndsIn(f(_)) == at # 0 /\ Last1(text, at) <= Len(text) /\ f(text[Last1(text, at)])

Read == at = 0 /\ UNCHANGED <<at, how, calls>>

Announce ==
    /\ Free \/ at' \in CASE at = 0 -> {Lead(text, 1)}
                         [] how = "called" -> {Lead(text, LabelOf(text, text[Last1(text, at)].name))}
                         [] how = "back" -> After(text)[Last1(text, at)]
                         [] OTHER -> Flow(text, at)
    /\ how' = "on"
    /\ UNCHANGED <<text, calls>>

Call ==
    /\ Free \/ (how = "on" /\ EndsIn(LAMBDA c : c.k = "call"))
    /\ how' = "called"
    /\ calls' = Append(calls, at)
    /\ UNCHANGED <<text, at>>

Return ==
    /\ Free \/ (how = "on" /\ EndsIn(LAMBDA c : c.name = "return"))
    /\ calls # << >>
    /\ at' = Last(calls)
    /\ how' = "back"
    /\ calls' = Front(calls)
    /\ UNCHANGED text

Next == Read \/ Announce \/ Call \/ Return
Spec == Init /\ [][Next]_svars
=============================================================================
