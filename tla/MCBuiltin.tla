----------------------------- MODULE MCBuiltin -----------------------------
(***************************************************************************)
(* The calls of one run: every function on all short texts of two letters  *)
(* and a blank, with every number around their lengths, and on the bytes,  *)
(* digits and numbers where a conversion changes its mind.                 *)
(***************************************************************************)
EXTENDS BuiltinMeaning

CONSTANTS LONGEST,      \* of a text
          WORDY         \* of a text for the functions on words

Seqs(S, n) == UNION {[1..k -> S] : k \in 0..n}
Texts(n) == {Text(s) : s \in Seqs({"a", "b", " "}, n)}
Plain == {Text(s) : s \in Seqs({"a", "b"}, 2)}
Two == {Text(s) : s \in {<< >>, <<"a">>, <<"a", "b">>}}
Upto(n) == {Int_(k) : k \in 0..n}
Maybe(S) == S \cup {None}
Pads == {None, Text(<<"a">>), Text(<<"a", "b">>)}

C(fs, args) == <<[f |-> fs, args |-> args]>>

TextCalls ==
    LET T == Texts(LONGEST) W == Texts(WORDY) N == Upto(LONGEST + 2) IN
    C({"INDEX", "POS", "LASTPOS", "ABBREV"}, T \X Texts(2) \X Maybe(N))
    \o C({"INDEX", "POS", "LASTPOS", "ABBREV"}, Texts(2) \X T \X Maybe(N))
    \o C({"CENTER", "LEFT", "RIGHT"}, T \X N \X Pads)
    \o C({"REVERSE", "LENGTH"}, {<<t>> : t \in T})
    \o C({"DELSTR"}, T \X N \X Maybe(N))
    \o C({"INSERT", "OVERLAY"}, Two \X Texts(2) \X Maybe(Upto(4)) \X Maybe(Upto(4)) \X Pads)
    \o C({"CHANGESTR"}, Plain \X T \X Plain)
    \o C({"COUNTSTR"}, Plain \X T)
    \o C({"COMPARE"}, Texts(2) \X T \X Pads) \o C({"COMPARE"}, T \X Texts(2) \X {None})
    \o C({"COPIES"}, Texts(2) \X (Upto(5) \cup {None}))
    \o C({"SUBSTR"}, T \X N \X Maybe(N) \X Pads)
    \o C({"STRIP"}, T \X {None, Text(<<"t">>), Text(<<"L">>), Text(<<"b">>)} \X Pads)
    \o C({"TRANSLATE"}, {<<t>> : t \in T})
    \o C({"TRANSLATE"}, Texts(2) \X (Maybe(Plain)) \X (Maybe(Texts(2))) \X Pads)
    \o C({"VERIFY"}, T \X Plain \X {None, Text(<<"m">>), Text(<<"N">>)} \X Maybe(N))
    \o C({"WORDS"}, {<<t>> : t \in W})
    \o C({"WORD", "WORDINDEX", "WORDLENGTH"}, W \X Upto(4))
    \o C({"SUBWORD", "DELWORD"}, W \X Upto(4) \X Maybe(Upto(3)))
    \o C({"SPACE"}, W \X Maybe(Upto(2)) \X {None, Text(<<"a">>)})
    \o C({"JUSTIFY"}, Texts(WORDY + 1) \X Upto(WORDY + 4) \X {None, Text(<<"-">>)})
    \o C({"WORDPOS"}, Texts(3) \X W \X Maybe(Upto(3)))
    \o C({"FIND"}, W \X Texts(3) \X Maybe(Upto(3)))

Bytes == {0, 1, 127, 128, 255}
HexTexts == {Text(s) : s \in Seqs({"0", "7", "8", "F", " "}, 5) \cup Seqs({"0", "G", " "}, 3)}
Numbers == {Int_(n) : n \in {-32768, -129, -128, -127, -1, 0, 1, 15, 16, 127, 128, 255, 256, 32767}}

CodeCalls ==
    C({"B2X"}, {<<Text(s)>> : s \in Seqs({"0", "1", " "}, 6) \cup Seqs({"0", "2", " "}, 3)})
    \o C({"X2B", "X2C"}, {<<t>> : t \in HexTexts})
    \o C({"C2X"}, {<<Text(s)>> : s \in Seqs(Bytes, 3)})
    \o C({"C2D"}, {Text(s) : s \in Seqs(Bytes, 3)} \X Maybe(Upto(4)))
    \o C({"X2D"}, HexTexts \X Maybe(Upto(5)))
    \o C({"BITAND", "BITOR", "BITXOR"}, {Text(s) : s \in Seqs({0, 85, 240}, 2)}
            \X Maybe({Text(s) : s \in Seqs({0, 102, 255}, 2)}) \X {None, Text(<<60>>), Text(<< >>)})
    \o C({"XRANGE"}, (Maybe({Text(<<b>>) : b \in {0, 3, 7, 255}}) \X Maybe({Text(<<b>>) : b \in {0, 3, 254}})) \cup {<< >>})
    \o C({"D2C", "D2X"}, Numbers \X Maybe(Upto(5)))

\* Too few, too many and missing arguments.
Wrong == C({"WORDS", "SPACE", "LEFT", "COPIES", "INSERT", "C2D", "D2X"}, {<< >>})
         \o C({"WORD", "LEFT", "COUNTSTR", "SUBSTR", "DELWORD"}, {<<Text(<<"a">>)>>})
         \o C({"WORD", "LEFT", "SUBSTR", "DELWORD"}, {<<None, Int_(1)>>})
         \o C({"WORDS", "REVERSE"}, {<<Text(<<"a">>), Text(<<"a">>)>>})

AllCalls == TextCalls \o CodeCalls \o Wrong
Held == {<<"z">>}
Codes_ == [c \in {"a", "b", " "} |-> IF c = "a" THEN 0 ELSE IF c = "b" THEN 1 ELSE 64]
=============================================================================
