------------------------------ MODULE Builtin ------------------------------
(***************************************************************************)
(* The built-in functions on strings, words and characters: rxstr.c,       *)
(* rxword.c and rxconv.c, which check the arguments of a call, and the     *)
(* files of the string library, which compute the answer.                  *)
(*                                                                         *)
(* A text is a sequence of characters, for the functions on codes of       *)
(* bytes.  Positions p, lp, i, k are C's and count from 0.  "to" is what   *)
(* the buffer of the answer held before: a function that appends to it     *)
(* must have emptied it.                                                   *)
(***************************************************************************)
EXTENDS Integers, Sequences, FiniteSets, SequencesExt

CONSTANTS
    Calls,          \* families of calls: names of functions with their arguments
    Stale,          \* what the buffer of an answer may hold
    Code,           \* the code of a character, where a table is indexed by it
    LONG            \* sizeof(long)

ASSUME LongAssumption == LONG \in Nat \ {0}

VARIABLES phase, call, answer
vars == <<phase, call, answer>>

Text(s) == [is |-> "text", text |-> s, int |-> 0]
Int_(n) == [is |-> "int", text |-> << >>, int |-> n]
None    == [is |-> "none", text |-> << >>, int |-> 0]
Error(e) == [is |-> "error", text |-> << >>, int |-> e]

---------------------------------------------------------------------------
(* Moving over a text.                                                     *)

Blank(s, p) == s[p + 1] = " "
LSKIPBLANKS(s, p) == CHOOSE q \in p..Len(s) :
    (\A k \in p..(q - 1) : Blank(s, k)) /\ (q < Len(s) => ~Blank(s, q))
LSKIPWORD(s, p) == CHOOSE q \in p..Len(s) :
    (\A k \in p..(q - 1) : ~Blank(s, k)) /\ (q < Len(s) => Blank(s, q))

Lstrset(n, pad) == [i \in 1..n |-> pad]

\* The low-level substring: a length of 0 is the rest.
CSubstr(from, start, length) ==
    LET st == start - 1
        n  == IF length = 0 \/ length + st > Len(from) THEN Len(from) - st ELSE length
    IN IF st < Len(from) THEN SubSeq(from, st + 1, st + n) ELSE << >>

Lsubstr(from, start, length, pad) ==
    LET st == IF start - 1 < 0 THEN 0 ELSE start - 1
        n  == IF length < 0 THEN Len(from) - st ELSE length
        l  == Len(from) - st
    IN IF length = 0 \/ (length < 0 /\ st >= Len(from)) THEN << >>
       ELSE IF st >= Len(from) THEN Lstrset(n, pad)
       ELSE IF n > l THEN SubSeq(from, st + 1, Len(from)) \o Lstrset(n - l, pad)
       ELSE SubSeq(from, st + 1, st + n)

Lleft(from, length, pad) == Lsubstr(from, 1, length, pad)
Lright(from, length, pad) ==
    IF length <= 0 THEN << >>
    ELSE IF length > Len(from) THEN Lstrset(length - Len(from), pad) \o from
    ELSE Lsubstr(from, Len(from) - length + 1, -1, pad)

\* The longer half of what is cut off or padded is at the right.
Lcenter(from, length, pad) ==
    LET i == length - Len(from) IN
    IF length <= 0 THEN << >>
    ELSE IF i < 0 THEN CSubstr(from, (-i) \div 2 + 1, length)
    ELSE LET a == i \div 2 IN Lstrset(a, pad) \o from \o Lstrset(i - a, pad)

Lreverse(s) == [i \in 1..Len(s) |-> s[Len(s) + 1 - i]]

\* A text of pads is empty, whichever end it is stripped at.
Lstrip(str, action, pad) ==
    LET lead  == CHOOSE n \in 0..Len(str) :
                    (\A k \in 1..n : str[k] = pad) /\ (n < Len(str) => str[n + 1] # pad)
        trail == CHOOSE n \in 0..Len(str) :
                    (\A k \in (n + 1)..Len(str) : str[k] = pad) /\ (n > 0 => str[n] # pad)
        cf == IF action \in {"B", "L"} THEN lead ELSE 0
        cl == IF action \in {"B", "T"} THEN trail ELSE Len(str)
    IN IF cf = Len(str) \/ cl = 0 THEN << >> ELSE SubSeq(str, cf + 1, cl)

---------------------------------------------------------------------------
(* Finding.                                                                *)

RECURSIVE Lindex_(_, _, _)
\* The comparison at every place where the first character fits.
Lindex_(haystack, needle, p) ==
    LET fits(n) == p + n < Len(haystack) /\ haystack[p + n + 1] = needle[n + 1]
        n == CHOOSE n \in 0..Len(needle) : (\A k \in 0..(n - 1) : fits(k)) /\ (n < Len(needle) => ~fits(n))
    IN IF p >= Len(haystack) THEN 0
       ELSE IF n = Len(needle) THEN p + 1
       ELSE IF p + n >= Len(haystack) THEN 0
       ELSE Lindex_(haystack, needle, p + 1)

Lindex(haystack, needle, p) ==
    IF needle = << >> \/ Len(needle) > Len(haystack) THEN 0
    ELSE Lindex_(haystack, needle, IF p - 1 < 0 THEN 0 ELSE p - 1)

\* A plausible bug: the start is not turned round with the texts.
LlastposBug(needle, haystack, start) ==
    LET p == Lindex(Lreverse(haystack), Lreverse(needle), start)
    IN IF p = 0 THEN 0 ELSE Len(haystack) - (p + Len(needle)) + 2

\* The first place of the reversed needle in the reversed haystack.
Llastpos(needle, haystack, start) ==
    LET from == IF start < 0 \/ start >= Len(haystack) THEN Len(haystack) ELSE start
        p == Lindex(Lreverse(haystack), Lreverse(needle), IF from > 0 THEN Len(haystack) - from + 1 ELSE 0)
    IN IF needle = << >> \/ p = 0 THEN 0 ELSE Len(haystack) - (p + Len(needle)) + 2

RECURSIVE Count_(_, _, _)
Count_(target, source, position) ==
    IF position = 0 THEN 0
    ELSE 1 + Count_(target, source, Lindex(source, target, position + Len(target)))
Lcountstr(target, source) == IF target = << >> THEN 0 ELSE Count_(target, source, Lindex(source, target, 0))

RECURSIVE Change_(_, _, _, _, _)
Change_(to, oldstr, str, newstr, pos) ==
    LET found == Lindex(str, oldstr, pos)
        kept  == IF found # pos THEN CSubstr(str, pos, found - pos) ELSE << >>
    IN IF found = 0 THEN to \o CSubstr(str, pos, 0)
       ELSE Change_(to \o kept \o newstr, oldstr, str, newstr, found + Len(oldstr))
Lchangestr(to, oldstr, str, newstr) ==
    IF oldstr = << >> THEN str ELSE Change_(<< >>, oldstr, str, newstr, 1)

Lverify(str, ref, match, start) ==
    LET at == {p \in (IF start < 1 THEN 1 ELSE start)..Len(str) :
                  (\A i \in 1..Len(ref) : ref[i] # str[p]) # match}
    IN IF at = {} THEN 0 ELSE CHOOSE p \in at : \A q \in at : p <= q

Lcompare(A, B, pad) ==
    LET a == IF Len(A) < Len(B) THEN A ELSE B
        b == IF Len(A) < Len(B) THEN B ELSE A
        differ == {i \in 1..Len(a) : a[i] # b[i]} \cup {i \in (Len(a) + 1)..Len(b) : b[i] # pad}
    IN IF differ = {} THEN 0 ELSE CHOOSE i \in differ : \A j \in differ : i <= j

Labbrev(information, info, length) ==
    LET least == IF length <= 0 THEN Len(info) ELSE length
    IN Len(information) >= Len(info) /\ Len(info) >= least /\ SubSeq(information, 1, Len(info)) = info

---------------------------------------------------------------------------
(* Words.                                                                  *)

RECURSIVE WordFrom(_, _, _)
WordFrom(str, p, n) ==
    LET q == LSKIPBLANKS(str, p)
    IN IF q >= Len(str) THEN 0 ELSE IF n = 1 THEN q + 1 ELSE WordFrom(str, LSKIPWORD(str, q), n - 1)
Lwordindex(str, n) == IF str = << >> \/ n <= 0 THEN 0 ELSE WordFrom(str, 0, n)

Lword(from, n) ==
    LET i == Lwordindex(from, n)
    IN IF i = 0 THEN << >> ELSE CSubstr(from, i, LSKIPWORD(from, i - 1) - i + 1)

Lwordlength(from, n) ==
    LET i == Lwordindex(from, n) IN IF i = 0 THEN 0 ELSE LSKIPWORD(from, i - 1) - i + 1

RECURSIVE WordsFrom(_, _)
WordsFrom(from, i) ==
    LET q == LSKIPBLANKS(from, i)
    IN IF q >= Len(from) THEN 0 ELSE 1 + WordsFrom(from, LSKIPWORD(from, q))
Lwords(from) == WordsFrom(from, 0)

RECURSIVE PhraseAt(_, _, _, _, _, _)
\* The phrase from k, the text from p; at a difference the phrase is tried
\* again at the next word, the n + 1st, after lp.
PhraseAt(phrase, s, n, lp, p, k) ==
    LET lk    == LSKIPBLANKS(phrase, 0)
        next  == LSKIPBLANKS(s, LSKIPWORD(s, lp))
        retry == IF next >= Len(s) THEN 0 ELSE PhraseAt(phrase, s, n + 1, next, next, lk)
        k2    == LSKIPBLANKS(phrase, k)
        p2    == LSKIPBLANKS(s, p)
    IN IF p >= Len(s) THEN IF k2 >= Len(phrase) THEN n ELSE 0
       ELSE IF k >= Len(phrase) THEN IF Blank(s, p) THEN n ELSE retry
       ELSE IF Blank(phrase, k)
       THEN IF ~Blank(s, p) THEN retry
            ELSE IF k2 >= Len(phrase) THEN n
            ELSE IF p2 >= Len(s) THEN 0
            ELSE PhraseAt(phrase, s, n, lp, p2, k2)
       ELSE IF phrase[k + 1] = s[p + 1] THEN PhraseAt(phrase, s, n, lp, p + 1, k + 1)
       ELSE retry

Lwordpos(phrase, s, n) ==
    LET idx == IF n > 0 THEN Lwordindex(s, n) - 1 ELSE LSKIPBLANKS(s, 0)
        lk  == LSKIPBLANKS(phrase, 0)
    IN IF idx < 0 \/ lk >= Len(phrase) THEN 0
       ELSE PhraseAt(phrase, s, IF n > 0 THEN n ELSE 1, idx, idx, lk)

RECURSIVE PastWords(_, _, _)
\* The end of the length words from i, without the blanks that follow.
PastWords(from, i, length) ==
    LET e == LSKIPWORD(from, i)
        b == LSKIPBLANKS(from, e)
    IN IF e >= Len(from) \/ length = 1 THEN e
       ELSE IF b >= Len(from) THEN b
       ELSE PastWords(from, b, length - 1)

Lsubword(from, start, length) ==
    LET i == Lwordindex(from, start)
    IN IF i = 0 \/ length = 0 THEN << >>
       ELSE IF length < 0 THEN Lstrip(CSubstr(from, i, 0), "T", " ")
       ELSE Lstrip(CSubstr(from, i, PastWords(from, i - 1, length) - i + 1), "T", " ")

RECURSIVE SkipWords(_, _, _)
\* Over length words and the blanks after each.
SkipWords(from, i, length) ==
    IF length = 0 \/ i >= Len(from) THEN i
    ELSE SkipWords(from, LSKIPBLANKS(from, LSKIPWORD(from, i)), length - 1)

\* A plausible bug: the low-level substring is not kept from the length 0.
LdelwordBug(to, from, start, length) ==
    LET i == Lwordindex(from, start)
        j == SkipWords(from, i - 1, length)
    IN IF i = 0 THEN from
       ELSE IF length < 0 \/ j >= Len(from) THEN CSubstr(from, 1, i - 1)
       ELSE CSubstr(from, 1, i - 1) \o CSubstr(from, j + 1, 0)

Ldelword(to, from, start, length) ==
    LET i    == Lwordindex(from, start)
        kept == IF i = 1 THEN << >> ELSE CSubstr(from, 1, i - 1)
        j    == SkipWords(from, i - 1, length)
    IN IF i = 0 THEN from
       ELSE IF length < 0 \/ j >= Len(from) THEN kept
       ELSE kept \o CSubstr(from, j + 1, 0)

RECURSIVE Spaced(_, _, _, _)
Spaced(to, from, p, space) ==
    LET e == LSKIPWORD(from, p)
        b == LSKIPBLANKS(from, e)
        t == to \o CSubstr(from, p + 1, e - p)
    IN IF b >= Len(from) THEN t ELSE Spaced(t \o space, from, b, space)
Lspace(from, n, pad) == Spaced(<< >>, from, LSKIPBLANKS(from, 0), Lstrset(n, pad))

RECURSIVE Justified(_, _, _, _, _, _, _, _)
\* The word at p, then the gap: one more while extra are left and the step
\* (k steps of (spaces + 1) / (extras + 1), in the code a double) is reached.
Justified(to, tmp, p, i, space, pad, ratio, k) ==
    LET e    == LSKIPWORD(tmp, p)
        more == k < ratio.extra /\ ((k + 1) * (ratio.spaces + 1)) \div (ratio.extra + 1) <= i
        t    == to \o CSubstr(tmp, p + 1, e - p)
    IN IF e >= Len(tmp) THEN t
       ELSE Justified(t \o space \o (IF more THEN <<pad>> ELSE << >>), tmp, LSKIPBLANKS(tmp, e),
                      i + 1, space, pad, ratio, IF more THEN k + 1 ELSE k)

Ljustify(from, length, pad) ==
    LET tmp    == Lspace(from, 1, " ")
        spaces == Cardinality({p \in DOMAIN tmp : tmp[p] = " "})
        ins    == length - (Len(tmp) - spaces)
    IN IF length <= 0 THEN << >>
       ELSE IF tmp = << >> THEN Lstrset(length, pad)
       ELSE IF Len(tmp) > length THEN [p \in 1..length |-> IF tmp[p] = " " THEN pad ELSE tmp[p]]
       ELSE IF spaces = 0 THEN Lleft(tmp, length, pad)
       ELSE Justified(<< >>, tmp, 0, 1, Lstrset(ins \div spaces, pad), pad,
                      [spaces |-> spaces, extra |-> ins % spaces], 0)

---------------------------------------------------------------------------
(* Putting together.                                                       *)

\* An explicit length of 0 deletes the rest.
Ldelstr(from, start, length) ==
    LET st   == start - 1
        kept == IF st > 0 THEN CSubstr(from, 1, st) ELSE << >>
    IN IF st >= Len(from) THEN from
       ELSE IF length > 0 /\ st + length < Len(from) THEN kept \o CSubstr(from, st + length + 1, 0)
       ELSE kept

\* A plausible bug: the target is not emptied before the new text.
LinsertBug(to, newstr, target, n, length, pad) ==
    LET l    == IF length < 0 THEN Len(newstr) ELSE length
        head == IF n >= 1 THEN Lsubstr(target, 1, n, pad) ELSE to
    IN IF length = 0 THEN target
       ELSE head \o Lsubstr(newstr, 1, l, pad) \o (IF n <= Len(target) THEN CSubstr(target, n + 1, 0) ELSE << >>)

\* An explicit length of 0 inserts nothing, and pads nothing.
Linsert(to, newstr, target, n, length, pad) ==
    LET l    == IF length < 0 THEN Len(newstr) ELSE length
        head == IF n >= 1 THEN Lsubstr(target, 1, n, pad) ELSE << >>
    IN IF length = 0 THEN target
       ELSE head \o Lsubstr(newstr, 1, l, pad) \o (IF n <= Len(target) THEN CSubstr(target, n + 1, 0) ELSE << >>)

Loverlay(newstr, target, pos, length, pad) ==
    LET n   == IF pos < 1 THEN 0 ELSE pos - 1
        l   == IF length < 0 THEN Len(newstr) ELSE length
        to  == IF n + l > Len(target) THEN Lsubstr(target, 1, n + l, pad) ELSE target
        new == Lsubstr(newstr, 1, l, pad)
    IN IF length = 0 THEN target
       ELSE [i \in DOMAIN to |-> IF i \in (n + 1)..(n + l) THEN new[i - n] ELSE to[i]]

RECURSIVE Doubled(_, _, _)
Doubled(to, tmp, n) ==
    IF n = 0 THEN to ELSE Doubled(IF n % 2 = 1 THEN to \o tmp ELSE to, tmp \o tmp, n \div 2)
Lcopies(from, n) == IF from = << >> THEN << >> ELSE Doubled(<< >>, from, n)

\* The first place of a character in the table counts.
Ltranslate(from, tableout, tablein, pad) ==
    LET out(i)  == IF tableout.is # "none" /\ i <= Len(tableout.text) THEN tableout.text[i] ELSE pad
        at(c)   == {i \in DOMAIN tablein.text : tablein.text[i] = c}
        new(c)  == IF tablein.is = "none" THEN IF tableout.is = "none" THEN c ELSE out(Code[c] + 1)
                   ELSE IF at(c) = {} THEN c
                   ELSE out(CHOOSE i \in at(c) : \A j \in at(c) : i <= j)
    IN [i \in DOMAIN from |-> new(from[i])]

---------------------------------------------------------------------------
(* Conversions.  A text of bytes is a sequence of 0..255; a decimal number *)
(* is a long.  BadDigit is the answer for a character that is no digit.    *)

chex == <<"0", "1", "2", "3", "4", "5", "6", "7", "8", "9", "A", "B", "C", "D", "E", "F">>
HEXVAL(c) == (CHOOSE d \in 1..16 : chex[d] = c) - 1
ISXDIGIT(c) == c \in ToSet(chex)
BadDigit == Error(15)

Unblanked(from) == SelectSeq(from, LAMBDA c : c # " ")

\* Groups of four from the right; blanks anywhere are passed over.
Lb2x(from) ==
    LET to     == Lreverse(Unblanked(from))
        bit(i) == IF i <= Len(to) /\ to[i] = "1" THEN 1 ELSE 0
        j(g)   == bit(4 * g - 3) + 2 * bit(4 * g - 2) + 4 * bit(4 * g - 1) + 8 * bit(4 * g)
    IN IF ToSet(to) \subseteq {"0", "1"}
       THEN Text(Lreverse([g \in 1..((Len(to) + 3) \div 4) |-> chex[j(g) + 1]]))
       ELSE BadDigit

Lx2b(from) ==
    LET c == Unblanked(from)
        bits(d) == [k \in 1..4 |-> IF (d \div 2^(4 - k)) % 2 = 1 THEN "1" ELSE "0"]
    IN IF \A i \in DOMAIN c : ISXDIGIT(c[i])
       THEN Text(FlattenSeq([i \in DOMAIN c |-> bits(HEXVAL(c[i]))]))
       ELSE BadDigit

Lc2x(from) == [i \in 1..(2 * Len(from)) |->
    chex[1 + (IF i % 2 = 1 THEN from[(i + 1) \div 2] \div 16 ELSE from[i \div 2] % 16)]]

RECURSIVE HexGroups(_, _, _)
\* A plausible bug: an odd group is filled on the right.
HexGroupsBug(t, f, i) ==
    LET p == LSKIPBLANKS(f, i)
        j == CHOOSE j \in p..Len(f) : (\A k \in p..(j - 1) : ISXDIGIT(f[k + 1]))
                                        /\ (j < Len(f) => ~ISXDIGIT(f[j + 1]))
        v(k) == IF k <= j THEN HEXVAL(f[k]) ELSE 0
    IN IF i >= Len(f) THEN Text(t)
       ELSE IF p < Len(f) /\ j = p THEN BadDigit
       ELSE HexGroups(t \o [b \in 1..((j - p + 1) \div 2) |-> 16 * v(p + 2 * b - 1) + v(p + 2 * b)], f, j)

\* A run of digits is a group, and an odd one is filled on the left.
HexGroups(t, f, i) ==
    LET p == LSKIPBLANKS(f, i)
        j == CHOOSE j \in p..Len(f) : (\A k \in p..(j - 1) : ISXDIGIT(f[k + 1]))
                                        /\ (j < Len(f) => ~ISXDIGIT(f[j + 1]))
        odd  == (j - p) % 2
        v(k) == IF k > p THEN HEXVAL(f[k]) ELSE 0
    IN IF i >= Len(f) THEN Text(t)
       ELSE IF p < Len(f) /\ j = p THEN BadDigit
       ELSE HexGroups(t \o [b \in 1..((j - p + odd) \div 2) |->
                16 * v(p + 2 * b - 1 - odd) + v(p + 2 * b - odd)], f, j)
Lx2c(from) == HexGroups(<< >>, from, 0)

\* The last n bytes of a text as a number.
Unsigned(from, n) == FoldLeft(LAMBDA num, b : 256 * num + b, 0, SubSeq(from, Len(from) - n + 1, Len(from)))

\* The sign is looked for at the length asked for, which no length makes
\* sizeof(long).
Lc2d(from, length) ==
    LET asked    == IF length < 1 \/ length > LONG THEN LONG ELSE length
        negative == asked <= Len(from) /\ from[Len(from) - asked + 1] >= 128
        n        == IF asked < Len(from) THEN asked ELSE Len(from)
    IN IF from = << >> \/ length = 0 THEN 0
       ELSE Unsigned(from, n) - (IF negative THEN 256^n ELSE 0)

\* The bytes of num, or of its complement if it is negative, up to the last
\* that is not zero and at least one, filled with its sign to the length.
Ld2c(number, length) ==
    LET negative == number < 0
        num      == IF negative THEN -number - 1 ELSE number
        n        == IF length < 0 THEN 0 ELSE IF length > LONG THEN LONG ELSE length
        n2       == IF n > 0 THEN n ELSE LONG
        used     == {i \in 1..n2 : num \div 256^(i - 1) > 0}
        count    == IF Cardinality(used) >= n THEN Cardinality(used) ELSE n
        byte(i)  == LET b == (num \div 256^(i - 1)) % 256 IN IF negative THEN 255 - b ELSE b
    IN IF length = 0 THEN << >>
       ELSE Lreverse([i \in 1..(IF count = 0 THEN 1 ELSE count) |-> byte(i)])

Ld2x(number, length) ==
    LET bare == Lc2x(Ld2c(number, -1))
        n    == (length + 1) \div 2
    IN IF length < 0 THEN Lright(bare, Len(bare) - (IF bare[1] = "0" THEN 1 ELSE 0), " ")
       ELSE Lright(Lc2x(Ld2c(number, n)), length, " ")

\* The sign is that of the first of the n digits asked for.
Lx2d(from, length) ==
    LET n     == IF length > 2 * LONG THEN 2 * LONG ELSE length
        to    == IF length < 0 THEN from ELSE Lright(Lspace(from, 0, " "), n, "0")
        bytes == Lx2c(to)
        num   == Lc2d(bytes.text, -1)
        sign  == length > 0 /\ HEXVAL(to[1]) >= 8 /\ n # 2 * LONG
    IN IF length = 0 THEN Int_(0)
       ELSE IF bytes.is = "error" THEN bytes
       ELSE Int_(num - (IF sign THEN 16^n ELSE 0))

\* Bit by bit over the shorter text; what is left of the longer one is as it
\* was, or taken with the pad if one was given.
Table(bits) == [a, b \in 0..1 |-> bits[a + b + 1]]     \* by how many bits are 1
Bitwise_(bit, a, b) ==
    LET p(k) == 2^(k - 1) IN
    FoldLeft(LAMBDA n, k : n + p(k) * bit[(a \div p(k)) % 2, (b \div p(k)) % 2], 0, <<1, 2, 3, 4, 5, 6, 7, 8>>)
LbitOf(bit, s1, s2, usepad, pad) ==
    LET short == IF Len(s1) < Len(s2) THEN s1 ELSE s2
        long  == IF Len(s1) < Len(s2) THEN s2 ELSE s1
    IN [i \in DOMAIN long |-> IF i <= Len(short) THEN Bitwise_(bit, short[i], long[i])
                              ELSE IF usepad THEN Bitwise_(bit, long[i], pad) ELSE long[i]]
Lbitand(s1, s2, usepad, pad) == LbitOf(Table(<<0, 0, 1>>), s1, s2, usepad, pad)
Lbitor(s1, s2, usepad, pad)  == LbitOf(Table(<<0, 1, 1>>), s1, s2, usepad, pad)
Lbitxor(s1, s2, usepad, pad) == LbitOf(Table(<<0, 1, 0>>), s1, s2, usepad, pad)

Lxrange(start, stop) ==
    IF start <= stop THEN [i \in 1..(stop - start + 1) |-> start + i - 1]
    ELSE [i \in 1..(257 - (start - stop)) |-> (start + i - 1) % 256]

---------------------------------------------------------------------------
(* The checks of the arguments.  A kind of argument: S a text that must be *)
(* there, oS one that need not be; I a number from 1, I0 one from 0, N any *)
(* number; oI, oI0 the same where it need not be there; C a pad, one       *)
(* character or none.                                                      *)

ARGN == Len(call.args)
Arg(i) == IF i <= ARGN THEN call.args[i] ELSE None
Is(f) == phase = "called" /\ call.f \in f

Fits(kind, arg) ==
    CASE kind = "S"   -> arg.is = "text"
      [] kind = "oS"  -> arg.is \in {"text", "none"}
      [] kind = "C"   -> arg.is = "none" \/ (arg.is = "text" /\ Len(arg.text) = 1)
      [] kind = "N"   -> arg.is = "int"
      [] kind = "I"   -> arg.is = "int" /\ arg.int > 0
      [] kind = "I0"  -> arg.is = "int" /\ arg.int >= 0
      [] kind = "oI"  -> arg.is = "none" \/ (arg.is = "int" /\ arg.int > 0)
      [] kind = "oI0" -> arg.is = "none" \/ (arg.is = "int" /\ arg.int >= 0)

Number(i, default) == IF Arg(i).is = "none" THEN default ELSE Arg(i).int
Pad(i) == IF Arg(i).is = "none" THEN " " ELSE Arg(i).text[1]

\* The answer, or error 40 unless there are at least so many arguments, at
\* most one of each kind, and each is of its kind.
Returns(least, kinds, value) ==
    /\ answer' = IF ARGN \in least..Len(kinds) /\ \A i \in DOMAIN kinds : Fits(kinds[i], Arg(i))
                 THEN value ELSE Error(40)
    /\ phase' = "done"
    /\ UNCHANGED call

---------------------------------------------------------------------------
(* The functions.                                                          *)

l2u == [a |-> "A", b |-> "B", t |-> "T", l |-> "L", m |-> "M"]
Upper(c) == IF c \in DOMAIN l2u THEN l2u[c] ELSE c

R_SSoI ==
    LET s == Arg(1).text  t == Arg(2).text  l == Number(3, 0) IN
    /\ Is({"ABBREV", "INDEX", "FIND", "LASTPOS", "POS", "WORDPOS"})
    /\ Returns(2, <<"S", "S", "oI0">>, Int_(
        CASE call.f = "ABBREV"  -> IF Labbrev(s, t, l) THEN 1 ELSE 0
          [] call.f = "INDEX"   -> Lindex(s, t, l)
          [] call.f = "FIND"    -> Lwordpos(t, s, l)
          [] call.f = "LASTPOS" -> Llastpos(s, t, l)
          [] call.f = "POS"     -> Lindex(t, s, l)
          [] call.f = "WORDPOS" -> Lwordpos(s, t, l)))

R_SIoC ==
    LET s == Arg(1).text  l == Arg(2).int IN
    /\ Is({"CENTER", "JUSTIFY", "LEFT", "RIGHT"})
    /\ Returns(2, <<"S", "I0", "C">>, Text(
        CASE call.f = "CENTER"  -> Lcenter(s, l, Pad(3))
          [] call.f = "JUSTIFY" -> Ljustify(s, l, Pad(3))
          [] call.f = "LEFT"    -> Lleft(s, l, Pad(3))
          [] call.f = "RIGHT"   -> Lright(s, l, Pad(3))))

R_S ==
    LET s == Arg(1).text IN
    /\ Is({"B2X", "C2X", "LENGTH", "WORDS", "REVERSE", "X2B", "X2C"})
    /\ Returns(1, <<"S">>,
        CASE call.f = "B2X"     -> Lb2x(s)
          [] call.f = "C2X"     -> Text(Lc2x(s))
          [] call.f = "LENGTH"  -> Int_(Len(s))
          [] call.f = "WORDS"   -> Int_(Lwords(s))
          [] call.f = "REVERSE" -> Text(Lreverse(s))
          [] call.f = "X2B"     -> Lx2b(s)
          [] call.f = "X2C"     -> Lx2c(s))

R_SIoI ==
    LET s == Arg(1).text  n == Arg(2).int  l == Number(3, -1) IN
    /\ Is({"DELSTR", "DELWORD", "SUBWORD"})
    /\ Returns(2, <<"S", "I", "oI0">>, Text(
        CASE call.f = "DELSTR"  -> Ldelstr(s, n, l)
          [] call.f = "DELWORD" -> Ldelword(answer.text, s, n, l)
          [] call.f = "SUBWORD" -> Lsubword(s, n, l)))

R_SSoIoIoC ==
    LET s == Arg(1).text  t == Arg(2).text  n == Number(3, 0)  l == Number(4, -1) IN
    /\ Is({"INSERT", "OVERLAY"})
    /\ Returns(2, <<"S", "S", "oI0", "oI0", "C">>, Text(
        IF call.f = "INSERT" THEN Linsert(answer.text, s, t, n, l, Pad(5))
        ELSE Loverlay(s, t, n, l, Pad(5))))

R_changestr ==
    /\ Is({"CHANGESTR"})
    /\ Returns(3, <<"S", "S", "S">>, Text(Lchangestr(answer.text, Arg(1).text, Arg(2).text, Arg(3).text)))

R_compare ==
    /\ Is({"COMPARE"})
    /\ Returns(2, <<"S", "S", "C">>, Int_(Lcompare(Arg(1).text, Arg(2).text, Pad(3))))

R_copies ==
    /\ Is({"COPIES"})
    /\ Returns(2, <<"S", "I0">>, Text(Lcopies(Arg(1).text, Arg(2).int)))

R_substr ==
    /\ Is({"SUBSTR"})
    /\ Returns(2, <<"S", "I", "oI0", "C">>, Text(Lsubstr(Arg(1).text, Arg(2).int, Number(3, -1), Pad(4))))

R_strip ==
    LET action == IF Arg(2).is = "none" THEN "B" ELSE Upper(Arg(2).text[1]) IN
    /\ Is({"STRIP"})
    /\ Returns(1, <<"S", "oS", "C">>, Text(Lstrip(Arg(1).text, action, Pad(3))))

\* Only a call with one argument makes the text upper case.
R_translate ==
    /\ Is({"TRANSLATE"})
    /\ Returns(1, <<"S", "oS", "oS", "C">>, Text(
        IF ARGN = 1 THEN [i \in DOMAIN Arg(1).text |-> Upper(Arg(1).text[i])]
        ELSE Ltranslate(Arg(1).text, Arg(2), Arg(3), Pad(4))))

R_verify ==
    LET match == Arg(3).is # "none" /\ Upper(Arg(3).text[1]) = "M" IN
    /\ Is({"VERIFY"})
    /\ Returns(2, <<"S", "S", "oS", "oI">>, Int_(Lverify(Arg(1).text, Arg(2).text, match, Number(4, 0))))

R_SS ==
    /\ Is({"COUNTSTR"})
    /\ Returns(2, <<"S", "S">>, Int_(Lcountstr(Arg(1).text, Arg(2).text)))

R_space ==
    /\ Is({"SPACE"})
    /\ Returns(1, <<"S", "oI0", "C">>, Text(Lspace(Arg(1).text, Number(2, 1), Pad(3))))

R_SI ==
    LET s == Arg(1).text  n == Arg(2).int IN
    /\ Is({"WORD", "WORDLENGTH", "WORDINDEX"})
    /\ Returns(2, <<"S", "I">>,
        CASE call.f = "WORD"       -> Text(Lword(s, n))
          [] call.f = "WORDLENGTH" -> Int_(Lwordlength(s, n))
          [] call.f = "WORDINDEX"  -> Int_(Lwordindex(s, n)))

R_SoI ==
    /\ Is({"C2D", "X2D"})
    /\ Returns(1, <<"S", "oI0">>,
        IF call.f = "C2D" THEN Int_(Lc2d(Arg(1).text, Number(2, -1))) ELSE Lx2d(Arg(1).text, Number(2, -1)))

R_IoI ==
    /\ Is({"D2C", "D2X"})
    /\ Returns(1, <<"N", "oI0">>, Text(
        IF call.f = "D2C" THEN Ld2c(Arg(1).int, Number(2, -1)) ELSE Ld2x(Arg(1).int, Number(2, -1))))

R_SoSoC ==
    LET s == Arg(1).text
        t == Arg(2).text
        usepad == Arg(3).is # "none"
        pad == Arg(3).text[1]
    IN
    /\ Is({"BITAND", "BITOR", "BITXOR"})
    /\ Returns(1, <<"S", "oS", "C">>, Text(
        CASE call.f = "BITAND" -> Lbitand(s, t, usepad, pad)
          [] call.f = "BITOR"  -> Lbitor(s, t, usepad, pad)
          [] call.f = "BITXOR" -> Lbitxor(s, t, usepad, pad)))

R_xrange ==
    LET start == IF Arg(1).is = "none" THEN 0 ELSE Arg(1).text[1]
        stop  == IF Arg(2).is = "none" THEN 255 ELSE Arg(2).text[1]
    IN
    /\ Is({"XRANGE"})
    /\ Returns(0, <<"C", "C">>, Text(Lxrange(start, stop)))

---------------------------------------------------------------------------
Init ==
    /\ phase = "called"
    /\ \E c \in DOMAIN Calls : call \in [f : Calls[c].f, args : Calls[c].args]
    /\ \E s \in Stale : answer = Text(s)

Next == R_SSoI \/ R_SIoC \/ R_S \/ R_SIoI \/ R_SSoIoIoC \/ R_changestr \/ R_compare \/ R_copies \/ R_substr
        \/ R_strip \/ R_translate \/ R_verify \/ R_SS \/ R_space \/ R_SI \/ R_SoI \/ R_IoI
        \/ R_SoSoC \/ R_xrange

Spec == Init /\ [][Next]_vars
=============================================================================
