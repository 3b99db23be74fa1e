------------------------------ MODULE Scanner ------------------------------
(***************************************************************************)
(* The scanner of nextsymb.c: it reads a program character by character    *)
(* and hands the compiler one basic symbol at a time.  Comments vanish in  *)
(* nextchar, at whatever place a character is read; a flag, commentfound,  *)
(* tells the reader of a word that one just did.  The compiler's           *)
(* symbolstat decides which words are keywords.                            *)
(*                                                                         *)
(* A text is a sequence of one-character strings; the zero behind it is    *)
(* the character NUL.  What the symbol is called is the compiler's name    *)
(* for it without the "_sy".                                               *)
(***************************************************************************)
EXTENDS Naturals, Sequences, SequencesExt, FiniteSets

CONSTANTS
    Given,          \* the texts: [pieces, len, stats], pieces put together, at most len long
    LMAXLEN         \* the length of the buffer for a symbol (250)

ASSUME LimitAssumption == LMAXLEN \in Nat \ {0}

VARIABLES given, text, symbolstat, phase, sc
vars == <<given, text, symbolstat, phase, sc>>

NUL == "nul"
NL  == "nl"
CR  == "cr"
Blank  == {" ", "tab"}
Digits == {"0", "1", "2", "3", "4", "5", "6", "7", "8", "9"}
\* l2u: the capital of a letter
Capital ==
    [a |-> "A", b |-> "B", c |-> "C", d |-> "D", e |-> "E", f |-> "F", g |-> "G", h |-> "H",
     i |-> "I", j |-> "J", k |-> "K", l |-> "L", m |-> "M", n |-> "N", o |-> "O", p |-> "P",
     q |-> "Q", r |-> "R", s |-> "S", t |-> "T", u |-> "U", v |-> "V", w |-> "W", x |-> "X",
     y |-> "Y", z |-> "Z"]
Up(c) == IF c \in DOMAIN Capital THEN Capital[c] ELSE c
Letters == {Capital[c] : c \in DOMAIN Capital} \cup {"@", "#", "$", "_", "?", "!"}
Quotes == {"'", "\""}

\* What a run of operator characters means; every beginning of one is one.
\* ("~" stands for "^" and "\" as well.)
Kind ==
    "+" :> "plus" @@ "-" :> "minus" @@ "%" :> "intdiv" @@ "(" :> "le_parent" @@ ")" :> "ri_parent"
    @@ "*" :> "times" @@ "**" :> "power" @@ "|" :> "or" @@ "||" :> "concat"
    @@ "&" :> "and" @@ "&&" :> "xor"
    @@ "/" :> "div" @@ "//" :> "mod" @@ "/=" :> "ne" @@ "/==" :> "dne"
    @@ "~" :> "not" @@ "~=" :> "ne" @@ "~==" :> "dne"
    @@ "~>" :> "le" @@ "~>>" :> "dle" @@ "~<" :> "ge" @@ "~<<" :> "dge"
    @@ "=" :> "eq" @@ "==" :> "deq" @@ "=>" :> "ge" @@ "=>>" :> "dge" @@ "=<" :> "le" @@ "=<<" :> "dle"
    @@ "<" :> "lt" @@ "<<" :> "dlt" @@ "<<=" :> "dle" @@ "<=" :> "le" @@ "<>" :> "ne"
    @@ ">" :> "gt" @@ ">>" :> "dgt" @@ ">>=" :> "dge" @@ ">=" :> "ge" @@ "><" :> "ne"

\* The words that are symbols of their own while the compiler is in a state.
Keyword(stat) ==
    CASE stat = "in_do_init"     -> <<"B", "Y">> :> "by" @@ <<"F", "O", "R">> :> "for"
                                    @@ <<"T", "O">> :> "to"
                                    @@ <<"U", "N", "T", "I", "L">> :> "until"
                                    @@ <<"W", "H", "I", "L", "E">> :> "while"
      [] stat = "in_parse_value" -> <<"W", "I", "T", "H">> :> "with"
      [] stat = "in_if_init"     -> <<"T", "H", "E", "N">> :> "then"
      [] OTHER -> << >>

---------------------------------------------------------------------------
(* s is the state of a scan: where it is (ptr, line), the flags (cmt is    *)
(* commentfound), the symbol, and the error that ended it.                 *)

At(p) == IF p \in 1..Len(text) THEN text[p] ELSE NUL
Here(s) == At(s.ptr)
Fail(s, e) == IF s.err = "" THEN [s EXCEPT !.err = e] ELSE s
Put(s, c) == [s EXCEPT !.str = Append(@, c)]

\* One character on, counted when it ends a line.
Step(s) == [s EXCEPT !.ptr = @ + 1, !.line = IF Here(s) = NL THEN @ + 1 ELSE @]
Opens(s)  == Here(s) = "/" /\ At(s.ptr + 1) = "*"
Closes(s) == Here(s) = "*" /\ At(s.ptr + 1) = "/"

RECURSIVE Comment(_, _)
\* A comment may follow a comment directly.
Uncomment(s) == IF Opens(s) THEN Comment([s EXCEPT !.cmt = TRUE, !.ptr = @ + 2], 1) ELSE s
Comment(s, level) ==
    LET past == [s EXCEPT !.ptr = @ + 2] IN
    IF Here(s) \notin {"*", "/"}
    THEN IF Here(Step(s)) = NUL THEN Fail(Step(s), "UNMATCHED_QUOTE") ELSE Comment(Step(s), level)
    ELSE IF Opens(s) THEN Comment(past, level + 1)
    ELSE IF ~Closes(s) THEN Comment([s EXCEPT !.ptr = @ + 1], level)
    ELSE IF level > 1 THEN Comment(past, level - 1) ELSE Uncomment(past)

\* nextchar(FALSE), and nextchar(TRUE) inside a string, where a comment is none.
nextchar(s)  == IF s.err # "" THEN s ELSE Uncomment([Step(s) EXCEPT !.cmt = FALSE])
nextquoted(s) == IF s.err # "" THEN s ELSE [Step(s) EXCEPT !.cmt = FALSE]

RECURSIVE Skip(_)
Skip(s) == IF Here(s) \in Blank THEN Skip(nextchar(s)) ELSE s

---------------------------------------------------------------------------
(* Words: names, numbers, labels and the names of functions.               *)

\* A name that is only an identifier: its last dot does not make it compound.
Leave(s) ==
    LET dot == IF s.dot = Len(s.str) THEN 0 ELSE s.dot
        key == Keyword(symbolstat)
    IN IF s.sym # "ident" THEN s
       ELSE [s EXCEPT !.dot = dot, !.sym = IF s.str \in DOMAIN key THEN key[s.str] ELSE @]

\* After the blanks behind a word only a colon still belongs to it.
\* Bug: a blank ends the word at once.
ApartBug(s) == Leave([s EXCEPT !.next = TRUE])

Apart(s) ==
    LET t == Skip([s EXCEPT !.next = TRUE])
    IN IF Here(t) = ":" THEN [nextchar(t) EXCEPT !.sym = "label"] ELSE Leave(t)

RECURSIVE Word(_, _)
\* num: isnumber, exp: hasExp, dot: hasDot
Wordy(s, m) ==
    LET c == Up(Here(s))
        put == Put(s, c)
    IN CASE c \in Digits -> Word(nextchar(put), m)
         [] c \in Letters ->
              Word(nextchar(put), [m EXCEPT !.num = @ /\ c = "E" /\ ~m.exp,
                                            !.exp = @ \/ (m.num /\ c = "E")])
         [] c \in {"+", "-"} ->
              IF m.num /\ Last(s.str) = "E" THEN Word(nextchar(put), m) ELSE Leave(s)
         [] c = "." ->
              LET t == nextchar([put EXCEPT !.dot = IF @ = 0 THEN Len(put.str) ELSE @])
              IN IF m.num THEN Word([t EXCEPT !.dot = 0], [m EXCEPT !.num = ~m.dot, !.dot = TRUE])
                 ELSE Word(t, m)
         [] c = "(" -> [nextchar(s) EXCEPT !.sym = "function"]
         [] c = ":" -> [nextchar(s) EXCEPT !.sym = "label"]
         [] c \in Blank -> Apart(s)
         [] OTHER -> Leave(s)

\* A comment ends a word, unless a parenthesis or a colon stands behind it.
\* Bug: the flag of the comment stays up.
WordBug(s, m) ==
    IF Len(s.str) > LMAXLEN THEN Fail(s, "TOO_LONG_STRING")
    ELSE IF s.cmt /\ Here(s) \notin {"(", ":"} THEN Leave(s)
    ELSE Wordy(s, m)

Word(s, m) ==
    IF Len(s.str) > LMAXLEN THEN Fail(s, "TOO_LONG_STRING")
    ELSE IF s.cmt /\ Here(s) \notin {"(", ":"} THEN Leave([s EXCEPT !.cmt = FALSE])
    ELSE Wordy(s, m)

identifier(s, sym, isnumber) ==
    Word([s EXCEPT !.sym = sym, !.isstr = FALSE, !.dot = 0],
         [num |-> isnumber, exp |-> FALSE, dot |-> FALSE])

---------------------------------------------------------------------------
(* Strings.                                                                *)

\* Ldatatype: digits, in groups of w counted from the right.
Datatype(str, digits, w) ==
    \/ str = << >>
    \/ /\ str[1] # " " /\ Last(str) # " "
       /\ \A i \in 1..Len(str) :
             IF str[i] = " "
             THEN Cardinality({j \in i..Len(str) : str[j] # " "}) % w = 0
             ELSE Up(str[i]) \in digits
Hex == Digits \cup {"A", "B", "C", "D", "E", "F"}
Valid(str, as) == IF as = "B" THEN Datatype(str, {"0", "1"}, 4) ELSE Datatype(str, Hex, 2)

\* The suffix of a binary or hexadecimal string, unless a name begins there.
\* Bug: what stands behind the letter is not looked at.
SuffixedBug(s) ==
    LET as == Up(Here(s)) IN
    IF ~Valid(s.str, as) THEN Fail(s, "INVALID_HEX_CONST") ELSE nextchar([s EXCEPT !.conv = as])

Suffixed(s) ==
    LET as == Up(Here(s)) IN
    IF Up(At(s.ptr + 1)) \in Digits \cup Letters \cup {"."} THEN s
    ELSE IF ~Valid(s.str, as) THEN Fail(s, "INVALID_HEX_CONST")
    ELSE nextchar([s EXCEPT !.conv = as])

RECURSIVE Body(_, _)
Closed(s, quote) ==
    CASE Here(s) = "(" -> [nextchar(s) EXCEPT !.sym = "function"]
      [] Here(s) # "(" /\ s.cmt -> [s EXCEPT !.cmt = FALSE]
      [] ~s.cmt /\ Up(Here(s)) \in {"B", "X", "H"} -> Suffixed(s)
      [] ~s.cmt /\ Here(s) = quote -> Body(Put(s, quote), quote)
      [] OTHER -> s
Body(open, quote) ==
    LET s == nextquoted(open) IN
    IF Len(s.str) >= LMAXLEN THEN Fail(s, "TOO_LONG_STRING")
    ELSE CASE Here(s) = quote -> Closed(nextchar(s), quote)
           [] Here(s) = NL -> Body(Put(s, " "), quote)
           [] Here(s) = NUL -> Fail(s, "UNMATCHED_QUOTE")
           [] OTHER -> Body(Put(s, Here(s)), quote)

literal(s) == Body([s EXCEPT !.sym = "literal", !.isstr = TRUE, !.dot = 0], Here(s))

---------------------------------------------------------------------------
(* The symbol.                                                             *)

RECURSIVE Operator(_, _)
Operator(s, op) ==
    LET more == op \o Here(s) IN
    IF more = "*/" THEN Fail(s, "INVALID_EXPRESSION")
    ELSE IF more \in DOMAIN Kind THEN Operator(nextchar(s), more)
    ELSE [s EXCEPT !.sym = Kind[op]]

\* The end of the text.
Nul(s) ==
    CASE symbolstat \in {"in_do", "in_if"} -> Fail(s, "INCOMPLETE_STRUCT")
      [] symbolstat = "in_if_init" -> Fail(s, "THEN_EXPECTED")
      [] symbolstat = "normal" -> [s EXCEPT !.sym = "exit", !.line = @ - 1]
      [] OTHER -> Fail(s, "SYMBOL_EXPECTED")

RECURSIVE nextsymbol(_)
RECURSIVE Symbol(_)

\* The symbol behind a comma is read to see whether the line ends there.
\* Bug: the line of the look-ahead is not taken back.
CommaBug(s) ==
    LET a == nextchar(s)
        b == nextsymbol(a)
        plain == [b EXCEPT !.next = FALSE, !.prev = TRUE]
    IN IF b.err # "" THEN b
       ELSE IF b.sym = "semicolon" /\ b.line # a.line THEN Symbol(plain)
       ELSE [plain EXCEPT !.ptr = a.ptr, !.sym = "comma", !.cmt = FALSE]

Comma(s) ==
    LET a == nextchar(s)
        b == nextsymbol(a)
        plain == [b EXCEPT !.next = FALSE, !.prev = TRUE]
    IN IF b.err # "" THEN b
       ELSE IF b.sym = "semicolon" /\ b.line # a.line THEN Symbol(plain)
       ELSE [plain EXCEPT !.ptr = a.ptr, !.line = a.line, !.sym = "comma", !.cmt = FALSE]

\* A dot by itself is a placeholder.
Dot(s) ==
    IF At(s.ptr + 1) \in Blank \cup {",", NL, CR, ";"}
    THEN [nextchar(s) EXCEPT !.sym = "dot"]
    ELSE identifier(s, "literal", TRUE)

Symbol(from) ==
    LET past == Skip(from)
        s == [past EXCEPT !.start = past.ptr]
        c == Up(Here(s))
    IN IF s.err # "" THEN s
       ELSE CASE c \in Digits  -> identifier(s, "literal", TRUE)
              [] c \in Letters -> identifier(s, "ident", FALSE)
              [] c \in Quotes  -> literal(s)
              [] c = "." -> Dot(s)
              [] c = "," -> Comma(s)
              [] c \in DOMAIN Kind -> Operator(nextchar(s), c)
              [] c \in {NL, ";"} -> [nextchar(s) EXCEPT !.sym = "semicolon"]
              [] c = CR  -> [nextchar(nextchar(s)) EXCEPT !.sym = "semicolon"]
              [] c = ":" -> Fail(s, "SYMBOL_EXPECTED")
              [] c = NUL -> Nul(s)
              [] OTHER -> Fail(s, "INVALID_CHAR")

\* The first call looks for a comment where the text begins.
\* Bug: a blank seen in front of the last symbol is still seen.
nextsymbolBug(from) ==
    LET t == IF from.fresh THEN [Uncomment(from) EXCEPT !.cmt = FALSE, !.fresh = FALSE] ELSE from
        s == Symbol([t EXCEPT !.str = << >>, !.conv = "", !.prev = t.next])
    IN IF Here(s) \in Blank \cup {","} THEN [s EXCEPT !.next = TRUE] ELSE s

nextsymbol(from) ==
    LET t == IF from.fresh THEN [Uncomment(from) EXCEPT !.cmt = FALSE, !.fresh = FALSE] ELSE from
        s == Symbol([t EXCEPT !.str = << >>, !.conv = "", !.prev = t.next, !.next = FALSE])
    IN IF Here(s) \in Blank \cup {","} THEN [s EXCEPT !.next = TRUE] ELSE s

\* Whether the symbol that begins a clause begins an assignment; a number
\* may not.
C_chk4assign(s) ==
    IF Here(s) # "=" THEN "no"
    ELSE IF s.sym = "literal" /\ s.str # << >> /\ s.str[1] \in Digits \cup {"."} THEN "INVALID_START"
    ELSE "yes"

---------------------------------------------------------------------------
Hashbang == Len(text) > 1 /\ text[1] = "#" /\ text[2] = "!"
EOL == CHOOSE p \in 1..Len(text) : text[p] = NL /\ \A i \in 1..(p - 1) : text[i] # NL

Reset == [ptr |-> 1, start |-> 1, line |-> 1, cmt |-> FALSE, fresh |-> TRUE, next |-> FALSE,
          prev |-> FALSE, sym |-> "semicolon", str |-> << >>, dot |-> 0, isstr |-> FALSE,
          conv |-> "", err |-> ""]

Init == given \in Given /\ text = << >> /\ symbolstat = "normal" /\ phase = "written" /\ sc = Reset

\* The program gets longer.
Write ==
    /\ phase = "written"
    /\ \E p \in given.pieces : text' = text \o p /\ Len(text') <= given.len
    /\ UNCHANGED <<given, symbolstat, phase, sc>>

\* A line end is put behind the text; a first line "#!..." is passed over.
\* The state is what the compiler sets before it asks for a symbol.
InitNextsymbol ==
    /\ phase = "written" /\ phase' = "read"
    /\ text' = Append(text, NL)
    /\ symbolstat' \in given.stats
    /\ sc' = IF Hashbang' THEN [Reset EXCEPT !.ptr = EOL', !.line = 2] ELSE Reset
    /\ UNCHANGED given

Nextsymbol ==
    /\ phase = "read"
    /\ sc' = nextsymbol(sc)
    /\ phase' = IF sc'.err # "" THEN "error" ELSE IF sc'.sym = "exit" THEN "end" ELSE "read"
    /\ UNCHANGED <<given, text, symbolstat>>

Next == Write \/ InitNextsymbol \/ Nextsymbol

Spec == Init /\ [][Next]_vars
=============================================================================
