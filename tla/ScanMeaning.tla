---------------------------- MODULE ScanMeaning ----------------------------
(***************************************************************************)
(* What a program says, read as a whole: its comments are taken out first  *)
(* and leave a gap, a comma in front of a line end joins two lines, and    *)
(* the next symbol is the longest that stands at the beginning of the      *)
(* rest.  Scanner finds the same symbols one character at a time.          *)
(***************************************************************************)
EXTENDS Scanner

GAP  == "gap"       \* a comment was here
OPEN == "open"      \* a comment begins here and does not end
Void == Blank \cup {GAP}
From(t, i) == SubSeq(t, i, Len(t))

RECURSIVE Plain(_, _, _)
\* t without its comments: level of them are open in front of it, or the
\* string that began with the quote is.
Plain(t, level, quote) ==
    LET Two(c, d) == Len(t) > 1 /\ t[1] = c /\ t[2] = d IN
    IF t = << >> THEN IF level > 0 THEN <<OPEN>> ELSE << >>
    ELSE IF level > 0 THEN
        CASE Two("/", "*") -> Plain(From(t, 3), level + 1, "")
          [] Two("*", "/") -> (IF level = 1 THEN <<GAP>> ELSE << >>) \o Plain(From(t, 3), level - 1, "")
          [] OTHER -> Plain(Tail(t), level, "")
    ELSE IF quote = "" /\ Two("/", "*") THEN Plain(From(t, 3), 1, "")
    ELSE <<t[1]>> \o Plain(Tail(t), 0, CASE quote = "" /\ t[1] \in Quotes -> t[1]
                                         [] quote = t[1] -> ""
                                         [] OTHER -> quote)

\* The first place from i on where u has something else than is in skip.
Past(u, i, skip) == CHOOSE j \in i..(Len(u) + 1) :
    /\ \A k \in i..(j - 1) : u[k] \in skip
    /\ j <= Len(u) => u[j] \notin skip

RECURSIVE Trim(_)
\* Without what may stand in front of a symbol.
Trim(u) ==
    LET v == From(u, Past(u, 1, Void))
        k == Past(v, 2, Void)
    IN IF v # << >> /\ v[1] = "," /\ k <= Len(v) /\ v[k] \in {NL, CR}
       THEN Trim(From(v, IF v[k] = CR THEN k + 2 ELSE k + 1))
       ELSE v

Lies(p) == Trim(Plain(From(text, p), 0, ""))

---------------------------------------------------------------------------
(* One symbol at the beginning of u: what it is and where it ends.         *)

Result(u, sym, str, end) == [sym |-> sym, str |-> str, conv |-> "", rest |-> From(u, end)]
Bad == [sym |-> "", str |-> << >>, conv |-> "", rest |-> << >>]
Name(u, n) == [i \in 1..n |-> Up(u[i])]

\* A sign belongs to a number behind the E of its exponent.
Exponent(u, i) ==
    /\ i > 1 /\ u[1] \in Digits \cup {"."} /\ Up(u[i - 1]) = "E"
    /\ \A k \in 1..(i - 2) : u[k] \in Digits \cup {"."}
    /\ Cardinality({k \in 1..(i - 2) : u[k] = "."}) <= 1
WordAt(u, i) == Up(u[i]) \in Digits \cup Letters \cup {"."} \/ (u[i] \in {"+", "-"} /\ Exponent(u, i))
WordEnd(u) == CHOOSE n \in 1..Len(u) :
    /\ \A i \in 1..n : WordAt(u, i)
    /\ n < Len(u) => ~WordAt(u, n + 1)

ReadWord(u) ==
    LET n == WordEnd(u)
        paren == Past(u, n + 1, {GAP})
        colon == Past(u, n + 1, Void)
        word  == IF u[1] \in Digits \cup {"."} THEN "literal"
                 ELSE IF Name(u, n) \in DOMAIN Keyword(symbolstat) THEN Keyword(symbolstat)[Name(u, n)]
                 ELSE "ident"
    IN IF n > LMAXLEN THEN Bad
       ELSE IF paren <= Len(u) /\ u[paren] = "(" THEN Result(u, "function", Name(u, n), paren + 1)
       ELSE IF colon <= Len(u) /\ u[colon] = ":" THEN Result(u, "label", Name(u, n), colon + 1)
       ELSE Result(u, word, Name(u, n), n + 1)

\* A string ends at the first quote that is neither doubled nor the second
\* of two; a suffix B, H or X belongs to it unless it begins a word.
Count(u, q, i) == Cardinality({k \in 2..i : u[k] = q})
Ends(u, k) == u[k] = u[1] /\ Count(u, u[1], k) % 2 = 1 /\ (k < Len(u) => u[k + 1] # u[1])
Inner(u, k) ==
    LET kept == {i \in 2..(k - 1) : u[i] # u[1] \/ Count(u, u[1], i) % 2 = 1}
        nth  == SelectSeq([i \in 1..Len(u) |-> i], LAMBDA i : i \in kept)
    IN [i \in 1..Len(nth) |-> IF u[nth[i]] = NL THEN " " ELSE u[nth[i]]]

ReadString(u) ==
    IF ~\E k \in 2..Len(u) : Ends(u, k) THEN Bad
    ELSE LET k   == CHOOSE k \in 2..Len(u) : Ends(u, k) /\ \A j \in 2..(k - 1) : ~Ends(u, j)
             str == Inner(u, k)
             paren == Past(u, k + 1, {GAP})
             as  == IF k + 1 > Len(u) THEN "" ELSE Up(u[k + 1])
             suffixed == /\ as \in {"B", "H", "X"}
                         /\ k + 2 <= Len(u) => ~WordAt(From(u, k + 2), 1)
         IN IF Len(str) > LMAXLEN THEN Bad
            ELSE IF paren <= Len(u) /\ u[paren] = "(" THEN Result(u, "function", str, paren + 1)
            ELSE IF ~suffixed THEN Result(u, "literal", str, k + 1)
            ELSE IF Valid(str, as) THEN [Result(u, "literal", str, k + 2) EXCEPT !.conv = as]
            ELSE Bad

RECURSIVE Longest(_, _, _)
\* The longest operator from op on; a comment may stand inside one.
Longest(u, op, i) ==
    LET j == Past(u, i, {GAP}) IN
    IF j <= Len(u) /\ op \o u[j] \in DOMAIN Kind THEN Longest(u, op \o u[j], j + 1)
    ELSE IF j <= Len(u) /\ op \o u[j] = "*/" THEN Bad
    ELSE Result(u, Kind[op], << >>, i)

Lone(u) == u[1] = "." /\ ~(Len(u) > 1 /\ WordAt(u, 2))

Reading(u) ==
    IF u = << >> THEN IF symbolstat = "normal" THEN Result(u, "exit", << >>, 1) ELSE Bad
    ELSE CASE u[1] \in Quotes -> ReadString(u)
           [] Lone(u) -> Result(u, "dot", << >>, 2)
           [] WordAt(u, 1) /\ ~Lone(u) -> ReadWord(u)
           [] u[1] \in DOMAIN Kind -> Longest(u, u[1], 2)
           [] u[1] = "," -> Result(u, "comma", << >>, 2)
           [] u[1] \in {NL, ";"} -> Result(u, "semicolon", << >>, 2)
           [] u[1] = CR -> Result(u, "semicolon", << >>, 3)
           [] OTHER -> Bad

\* An error is met as soon as the scanner looks at it: with the symbol in
\* front of a comment that does not end, and with the commas in front of it.
RECURSIVE Doomed(_)
Doomed(u) ==
    LET r == Reading(u)
        v == Trim(r.rest)
    IN \/ r = Bad
       \/ v # << >> /\ v[1] = OPEN
       \/ r.sym = "comma" /\ Doomed(v)

---------------------------------------------------------------------------
(* Where the scanner is known to read something else.                      *)

\* A comment directly in front of a word, other than behind a word or a
\* string or where the text begins: the flag it left ends the word before it
\* begins, and an empty one is found.
Stale(s) ==
    LET v == Plain(From(text, s.ptr), 0, "")
        m == Len(v) - Len(Trim(v))      \* what stands in front of the symbol
    IN /\ m < Len(v) /\ WordAt(From(v, m + 1), 1) /\ v[m + 1] \notin {"+", "-"}
       /\ IF m = 0 THEN s.cmt ELSE v[m] = GAP
       /\ ~(s.fresh /\ \A i \in 1..m : v[i] = GAP)
\* The end of a clause behind a comma, on a later line because of a comment
\* or of another comma, passes for the end of the comma's line.
RECURSIVE Swallowed(_, _)
Swallowed(u, p) ==
    /\ u # << >> /\ u[1] = "," /\ \E q \in p..(Len(text) - 1) : text[q] = NL
    /\ LET v == Trim(Tail(u)) IN v # << >> /\ (v[1] \in {";", NL, CR} \/ Swallowed(v, p))
\* A dot in front of anything but a blank or the end of a clause is a number.
Stuck(u) == u # << >> /\ Lone(u) /\ Len(u) > 1 /\ u[2] \notin Blank \cup {",", NL, CR, ";"}
\* A word, a comment, a blank and a colon: the colon is not seen.
Detached(u) ==
    /\ u # << >> /\ WordAt(u, 1)
    /\ LET n == WordEnd(u)
       IN Len(u) > n /\ u[n + 1] = GAP /\ u[Past(u, n + 1, {GAP})] \in Blank
\* A string may not fill the buffer, a word may.
Full(r) == r.sym \in {"literal", "function"} /\ Len(r.str) = LMAXLEN

---------------------------------------------------------------------------
(* Properties.                                                             *)

\* Every symbol is the one that stands at the beginning of what is left of
\* the program without its comments, and leaves what stands behind it; an
\* error is one that this reading finds.
Symbols == [][
    phase = "read" =>
        LET u == Lies(sc.ptr)
            r == Reading(u)
        IN \/ Stale(sc) \/ Swallowed(u, sc.ptr) \/ Stuck(u) \/ Detached(u) \/ Full(r)
           \/ sc'.err # "" /\ Doomed(u)
           \/ /\ sc'.err = "" /\ r # Bad
              /\ <<sc'.sym, sc'.conv>> = <<r.sym, r.conv>>
              /\ sc'.sym \in {"ident", "literal", "function", "label"} => sc'.str = r.str
              /\ Lies(sc'.ptr) = Trim(r.rest) ]_vars

\* A line is counted for every line end the scanner has passed, whichever
\* way it passed it: in a comment, a string, a continuation, a look-ahead
\* taken back.  (Behind a first line "#!..." the count is one too high.)
Lines ==
    phase # "written" /\ ~Hashbang =>
        sc.line + (IF phase = "end" THEN 1 ELSE 0)
            = 1 + Cardinality({p \in 1..Len(text) : p < sc.ptr /\ text[p] = NL})

\* Every symbol takes the scanner on, never behind the zero that ends the
\* text, or takes down the flag that a comment left: the compiler, which asks
\* until it gets the exit symbol, gets it.
Advances == [][
    phase = "read" =>
        /\ sc'.ptr <= Len(text) + 1
        /\ phase' = "read" => \/ sc'.ptr > sc.ptr
                              \/ sc'.ptr = sc.ptr /\ sc.cmt /\ ~sc'.cmt ]_vars

\* A blank is seen between two terms of an expression, which it then joins,
\* exactly if one stands there; a comma that continues the line is one.
Spaced == [][
    LET v == Plain(SubSeq(text, 1, sc'.start - 1), 0, "")
        between == {i \in 1..Len(v) : \A k \in i..Len(v) : v[k] \in Void \cup {",", NL, CR}}
    IN /\ phase = "read" /\ sc'.err = ""
       /\ sc.sym \in {"ident", "literal", "ri_parent"} /\ (sc.sym = "ri_parent" \/ sc.isstr \/ sc.str # << >>)
       /\ sc'.sym \in {"ident", "literal", "function", "le_parent"}
       /\ ~Swallowed(Lies(sc.ptr), sc.ptr)
       => (sc'.prev <=> \E i \in between : v[i] \in Blank \cup {","}) ]_vars

\* A name is taken for the beginning of an assignment, and a number for the
\* beginning of a wrong one, exactly if an equal sign is what follows it (one
\* that a comment and then a blank, or a comma, separate from it is not looked
\* for).
AssignSeen ==
    LET u == Lies(sc.ptr) IN
    /\ phase = "read" /\ sc.sym \in {"ident", "literal"} /\ ~sc.isstr /\ sc.str # << >>
    /\ ~(At(sc.ptr - 1) = "/" /\ Here(sc) \in Blank) /\ Here(sc) # ","
    => C_chk4assign(sc) = IF u = << >> \/ u[1] # "=" THEN "no"
                          ELSE IF sc.sym = "ident" THEN "yes" ELSE "INVALID_START"
=============================================================================
