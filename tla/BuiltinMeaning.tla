--------------------------- MODULE BuiltinMeaning ---------------------------
(***************************************************************************)
(* What the built-in functions promise (help/*.helprexx): every answer is  *)
(* defined anew, over positions, words and numbers, with nothing of how    *)
(* the library goes about it.                                              *)
(***************************************************************************)
EXTENDS Builtin

Done(f) == phase = "done" /\ call.f \in f /\ answer.is # "error"
Text1 == Arg(1).text
Text2 == Arg(2).text
Least(S, default) == IF S = {} THEN default ELSE CHOOSE x \in S : \A y \in S : x <= y

\* An explicit length of 0, which DELSTR takes for the rest of the text and
\* INSERT and OVERLAY for nothing to do, whatever the position.
LengthZero(i) == Arg(i).is = "int" /\ Arg(i).int = 0

\* TRANSLATE with neither table but a pad: the text is left as it is, where
\* help/translat.helprexx:10-11 has it made upper case as with one argument.
TablesOmitted == ARGN > 1 /\ Arg(2).is = "none" /\ Arg(3).is = "none"

---------------------------------------------------------------------------
(* Words: the longest stretches without a blank, in their order.           *)

WordSpans(s) == {w \in (1..Len(s)) \X (1..Len(s)) :
    /\ w[1] <= w[2]
    /\ \A i \in w[1]..w[2] : s[i] # " "
    /\ w[1] > 1 => s[w[1] - 1] = " "
    /\ w[2] < Len(s) => s[w[2] + 1] = " "}
Count(s) == Cardinality(WordSpans(s))
Span(s, n) == CHOOSE w \in WordSpans(s) : Cardinality({v \in WordSpans(s) : v[1] < w[1]}) = n - 1
TheWord(s, n) == SubSeq(s, Span(s, n)[1], Span(s, n)[2])
TheWords(s) == [n \in 1..Count(s) |-> TheWord(s, n)]

\* Words n to the last of length, or to the end for -1.
LastWord(s, n, length) == IF length < 0 \/ n + length - 1 > Count(s) THEN Count(s) ELSE n + length - 1

\* The words with gap(i) pads after the i-th.
Joined(words, gap(_), pad) ==
    FlattenSeq([i \in DOMAIN words |->
        words[i] \o (IF i < Len(words) THEN [k \in 1..gap(i) |-> pad] ELSE << >>)])

\* The words in their order, the gaps as even as they can be, to the length;
\* one word is padded at its right, and what does not fit is cut off.
Even(words, length, pad, text) ==
    LET letters == Len(FlattenSeq(words))
        gaps    == Len(words) - 1
        short   == (length - letters) \div gaps
        single  == Joined(words, LAMBDA i : 1, pad)
    IN IF length < letters + gaps THEN text = SubSeq(single, 1, length)
       ELSE IF gaps <= 0 THEN text = [i \in 1..length |-> IF i <= letters THEN single[i] ELSE pad]
       ELSE /\ Len(text) = length
            /\ \E more \in SUBSET (1..gaps) :
                  text = Joined(words, LAMBDA i : IF i \in more THEN short + 1 ELSE short, pad)

\* The word functions agree on what the words of a text are: counted, found,
\* measured, taken, deleted, spaced, justified and looked up as a phrase,
\* whatever blanks are before, between and after them, and whatever the
\* buffer of the answer held.
Words ==
    LET s == Text1
        n == Arg(2).int
        in == n <= Count(s)
        l == Number(3, -1)
        phrase == IF call.f = "FIND" THEN TheWords(Text2) ELSE TheWords(Text1)
        within == IF call.f = "FIND" THEN TheWords(Text1) ELSE TheWords(Text2)
    IN
    /\ Done({"WORDS"}) => answer = Int_(Count(s))
    /\ Done({"WORD"}) => answer = Text(IF in THEN TheWord(s, n) ELSE << >>)
    /\ Done({"WORDINDEX"}) => answer = Int_(IF in THEN Span(s, n)[1] ELSE 0)
    /\ Done({"WORDLENGTH"}) => answer = Int_(IF in THEN Len(TheWord(s, n)) ELSE 0)
    /\ Done({"SUBWORD"}) => answer = Text(
          IF in /\ l # 0 THEN SubSeq(s, Span(s, n)[1], Span(s, LastWord(s, n, l))[2]) ELSE << >>)
    /\ Done({"DELWORD"}) => answer = Text(
          IF ~in \/ l = 0 THEN s
          ELSE SubSeq(s, 1, Span(s, n)[1] - 1) \o
               (IF LastWord(s, n, l) < Count(s)
                THEN SubSeq(s, Span(s, LastWord(s, n, l) + 1)[1], Len(s)) ELSE << >>))
    /\ Done({"SPACE"}) => answer = Text(Joined(TheWords(s), LAMBDA i : Number(2, 1), Pad(3)))
    /\ Done({"JUSTIFY"}) => answer.is = "text" /\ Even(TheWords(s), n, Pad(3), answer.text)
    /\ Done({"FIND", "WORDPOS"}) => answer = Int_(Least(
          {k \in 1..Len(within) : /\ phrase # << >>
                                  /\ k >= Number(3, 0)
                                  /\ k + Len(phrase) - 1 <= Len(within)
                                  /\ SubSeq(within, k, k + Len(phrase) - 1) = phrase}, 0))

---------------------------------------------------------------------------
(* Pieces: the character at every position of the answer.                  *)

At(s, i, pad) == IF i \in DOMAIN s THEN s[i] ELSE pad
Greater(a, b) == IF a >= b THEN a ELSE b
Positions(s, P(_)) == LET keep == SelectSeq([i \in DOMAIN s |-> i], P)
                      IN [i \in DOMAIN keep |-> s[keep[i]]]

RECURSIVE Changed(_, _, _, _)
Changed(s, i, old, new) ==
    IF i > Len(s) THEN << >>
    ELSE IF old # << >> /\ i + Len(old) - 1 <= Len(s) /\ SubSeq(s, i, i + Len(old) - 1) = old
    THEN new \o Changed(s, i + Len(old), old, new)
    ELSE <<s[i]>> \o Changed(s, i + 1, old, new)

\* What a slice, a padding, an insertion, an overlay, a deletion, a stripping
\* or a translation answers is right character by character: positions before,
\* at and beyond the end, lengths of 0 and more than there is, an empty text,
\* and a buffer that held something (LengthZero and TablesOmitted are excepted).
Pieces ==
    LET s == Text1  n == Arg(2).int IN
    /\ Done({"LEFT"}) => answer = Text([i \in 1..n |-> At(s, i, Pad(3))])
    /\ Done({"RIGHT"}) => answer = Text([i \in 1..n |-> At(s, Len(s) - n + i, Pad(3))])
    /\ Done({"CENTER"}) =>
          LET off == IF n >= Len(s) THEN -((n - Len(s)) \div 2) ELSE (Len(s) - n) \div 2
          IN answer = Text([i \in 1..n |-> At(s, i + off, Pad(3))])
    /\ Done({"SUBSTR"}) =>
          answer = Text([i \in 1..Number(3, Greater(Len(s) - n + 1, 0)) |-> At(s, n + i - 1, Pad(4))])
    /\ Done({"REVERSE"}) => answer = Text([i \in DOMAIN s |-> s[Len(s) + 1 - i]])
    /\ Done({"LENGTH"}) => answer = Int_(Len(s))
    /\ Done({"COPIES"}) => answer = Text([i \in 1..(n * Len(s)) |-> s[1 + ((i - 1) % Len(s))]])
    /\ Done({"DELSTR"}) /\ ~LengthZero(3) =>
          answer = Text(Positions(s, LAMBDA i : i < n \/ (Arg(3).is = "int" /\ i >= n + Arg(3).int)))
    /\ Done({"INSERT"}) /\ ~LengthZero(4) =>
          LET pos == Number(3, 0)
              l   == Number(4, Len(s))
          IN answer = Text([i \in 1..(Greater(pos, Len(Text2)) + l) |->
                IF i <= pos THEN At(Text2, i, Pad(5))
                ELSE IF i <= pos + l THEN At(s, i - pos, Pad(5)) ELSE Text2[i - l]])
    /\ Done({"OVERLAY"}) /\ ~LengthZero(4) =>
          LET pos == Greater(Number(3, 0), 1)
              l   == Number(4, Len(s))
          IN answer = Text([i \in 1..Greater(Len(Text2), pos + l - 1) |->
                IF i \in pos..(pos + l - 1) THEN At(s, i - pos + 1, Pad(5)) ELSE At(Text2, i, Pad(5))])
    /\ Done({"STRIP"}) =>
          LET action == IF Arg(2).is = "none" THEN "B" ELSE Upper(Text2[1])
          IN answer = Text(Positions(s, LAMBDA i :
                /\ action \in {"L", "B"} => \E k \in 1..i : s[k] # Pad(3)
                /\ action \in {"T", "B"} => \E k \in i..Len(s) : s[k] # Pad(3)))
    /\ Done({"CHANGESTR"}) => answer = Text(Changed(Text2, 1, s, Arg(3).text))
    /\ Done({"TRANSLATE"}) /\ ~TablesOmitted =>
          LET in  == Arg(3).text
              to(i) == IF Arg(2).is = "none" THEN Pad(4) ELSE At(Text2, i, Pad(4))
              new(c) == IF ARGN = 1 THEN Upper(c)
                        ELSE IF Arg(3).is # "none"
                        THEN LET i == Least({k \in DOMAIN in : in[k] = c}, 0) IN IF i = 0 THEN c ELSE to(i)
                        ELSE to(Code[c] + 1)
          IN answer = Text([i \in DOMAIN s |-> new(s[i])])

---------------------------------------------------------------------------
(* Places.                                                                 *)

MatchAt(needle, s, p) == /\ needle # << >>
                         /\ p + Len(needle) - 1 <= Len(s)
                         /\ SubSeq(s, p, p + Len(needle) - 1) = needle

\* A search finds the first place there is from where it starts, the last one
\* that ends before it, as many as do not overlap, the first difference, and 0
\* for none: for every start, before, in and beyond the text.
Places ==
    LET a == Text1
        b == Text2
        n == Number(3, 0)
        first(needle, s) == Least({p \in DOMAIN s : p >= n /\ MatchAt(needle, s, p)}, 0)
        end == IF n = 0 \/ n > Len(b) THEN Len(b) ELSE n
        match == Arg(3).is # "none" /\ Upper(Arg(3).text[1]) = "M"
    IN
    /\ Done({"INDEX"}) => answer = Int_(first(b, a))
    /\ Done({"POS"}) => answer = Int_(first(a, b))
    /\ Done({"LASTPOS"}) => answer = Int_(-Least(
          {-p : p \in {q \in DOMAIN b : MatchAt(a, b, q) /\ q + Len(a) - 1 <= end}}, 0))
    /\ Done({"COUNTSTR"}) =>
          answer = Int_(IF a = << >> THEN 0
                        ELSE Len(Changed(b, 1, a, a \o <<"one more">>)) - Len(b))
    /\ Done({"COMPARE"}) => answer = Int_(Least(
          {i \in 1..Greater(Len(a), Len(b)) : At(a, i, Pad(3)) # At(b, i, Pad(3))}, 0))
    /\ Done({"VERIFY"}) => answer = Int_(Least(
          {p \in DOMAIN a : p >= Number(4, 1) /\ (match <=> (a[p] \in ToSet(b)))}, 0))
    /\ Done({"ABBREV"}) => answer = Int_(IF /\ Len(b) <= Len(a)
                                            /\ \A i \in DOMAIN b : a[i] = b[i]
                                            /\ Len(b) >= n THEN 1 ELSE 0)

---------------------------------------------------------------------------
(* Codes.                                                                  *)

Nibble(c) == CHOOSE d \in 0..15 : chex[d + 1] = c
RECURSIVE NumberOf(_, _)
NumberOf(digits, base) ==
    IF digits = << >> THEN 0 ELSE NumberOf(Front(digits), base) * base + Last(digits)
Digits(n, base, count) == [i \in 1..count |-> (n \div base^(count - i)) % base]
Shortest(n, base, most) == Digits(n, base, Least({k \in 1..most : n < base^k}, most))
TwosComplement(n, base, count) == IF 2 * n >= base^count THEN n - base^count ELSE n
Hex(digits) == [i \in DOMAIN digits |-> chex[digits[i] + 1]]
Nibbles(text) == [i \in DOMAIN text |-> Nibble(text[i])]
LastDigits(digits, count) == [i \in 1..count |->
    IF i > count - Len(digits) THEN digits[Len(digits) - count + i] ELSE 0]

\* Blanks only between pairs of digits, the first of which may be one digit.
Paired(h) == \A i \in DOMAIN h : h[i] = " " =>
    Cardinality({k \in (i + 1)..Len(h) : h[k] # " "}) % 2 = 0
AllIn(text, S) == ToSet(text) \subseteq S
Bits(from) == LET c == Unblanked(from) IN [i \in DOMAIN c |-> IF c[i] = "1" THEN 1 ELSE 0]

\* Characters, bits, hexadecimal and decimal digits stand for the same number
\* on both sides of a conversion, left-padded, sign-extended or truncated to
\* the length asked for; what is no digit is error 15.  Numbers are within a
\* long, a length is no more than its size, and a text of that size without a
\* length, which the code takes for signed, is left out.
Codes ==
    LET s == Text1
        n == Arg(1).int
        length == Number(2, 0)
        hexa == Unblanked(s)
    IN
    /\ phase = "done" /\ call.f = "B2X" => answer =
          IF AllIn(s, {"0", "1", " "})
          THEN LET b == Bits(s)
               IN Text(Hex(Digits(NumberOf(b, 2), 16, (Len(b) + 3) \div 4)))
          ELSE Error(15)
    /\ phase = "done" /\ call.f = "X2B" => answer =
          IF AllIn(s, ToSet(chex) \cup {" "})
          THEN Text([i \in 1..(4 * Len(hexa)) |->
                  IF Digits(NumberOf(Nibbles(hexa), 16), 2, 4 * Len(hexa))[i] = 1 THEN "1" ELSE "0"])
          ELSE Error(15)
    /\ phase = "done" /\ call.f = "X2C" =>
          IF ~AllIn(s, ToSet(chex) \cup {" "}) THEN answer = Error(15)
          ELSE Paired(s) => answer = Text(Digits(NumberOf(Nibbles(hexa), 16), 256, (Len(hexa) + 1) \div 2))
    /\ Done({"C2X"}) => answer = Text(Hex(Digits(NumberOf(s, 256), 16, 2 * Len(s))))
    /\ Done({"C2D"}) /\ Arg(2).is = "none" /\ Len(s) < LONG => answer = Int_(NumberOf(s, 256))
    /\ Done({"C2D"}) /\ Arg(2).is = "int" /\ length <= LONG =>
          answer = Int_(TwosComplement(NumberOf(LastDigits(s, length), 256), 256, length))
    /\ Done({"D2C"}) /\ Arg(2).is = "none" /\ n >= 0 => answer = Text(Shortest(n, 256, LONG))
    /\ Done({"D2C"}) /\ Arg(2).is = "int" /\ length <= LONG =>
          answer = Text(Digits(n % 256^length, 256, length))
    /\ Done({"D2X"}) /\ Arg(2).is = "none" /\ n >= 0 => answer = Text(Hex(Shortest(n, 16, 2 * LONG)))
    /\ Done({"D2X"}) /\ Arg(2).is = "int" /\ length <= 2 * LONG =>
          answer = Text(Hex(Digits(n % 16^length, 16, length)))
    /\ Done({"X2D"}) /\ Arg(2).is = "none" /\ Paired(s) /\ AllIn(hexa, ToSet(chex)) /\ Len(hexa) <= 2 * LONG - 2 =>
          answer = Int_(NumberOf(Nibbles(hexa), 16))
    /\ Done({"X2D"}) /\ Arg(2).is = "int" /\ AllIn(hexa, ToSet(chex)) /\ length <= 2 * LONG =>
          answer = Int_(TwosComplement(NumberOf(LastDigits(Nibbles(hexa), length), 16), 16, length))
    /\ Done({"BITAND", "BITOR", "BITXOR"}) =>
          LET all == IF call.f = "BITAND" THEN 255 ELSE 0
              pad == IF Arg(3).is = "none" THEN all ELSE Arg(3).text[1]
              bit(b, k) == (b \div 2^k) % 2
              x(i, k) == bit(At(s, i, pad), k) + bit(At(Text2, i, pad), k)
              result(c) == CASE call.f = "BITAND" -> c = 2 [] call.f = "BITOR" -> c > 0 [] call.f = "BITXOR" -> c = 1
          IN /\ Len(answer.text) = Greater(Len(s), Len(Text2))
             /\ \A i \in DOMAIN answer.text, k \in 0..7 : bit(answer.text[i], k) = 1 <=> result(x(i, k))
    /\ Done({"XRANGE"}) =>
          LET r == answer.text IN
          /\ r[1] = (IF Arg(1).is = "none" THEN 0 ELSE s[1])
          /\ Last(r) = (IF Arg(2).is = "none" THEN 255 ELSE Text2[1])
          /\ Len(r) <= 256
          /\ \A i \in 2..Len(r) : r[i] = (r[i - 1] + 1) % 256
=============================================================================
