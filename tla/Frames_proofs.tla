---------------------------- MODULE Frames_proofs ----------------------------
(* What the table of activations keeps right, for every program, depth and *)
(* size of the operand stack.                                              *)
EXTENDS Frames, SequenceTheorems, WellFoundedInduction, TLAPS

-----------------------------------------------------------------------------
(* The invariant.  Its parts speak of a table p of activations, so that    *)
(* they can be carried from one table to the next.                         *)

Table == Seq(FrameType) \ {<< >>}

\* The operands of an activation lie above those of the one below.
Stacked(p) ==
    /\ \A k \in 1..Len(p) : Floor(p[k]) >= -1
    /\ \A k \in 2..Len(p) : p[k].stack >= Floor(p[k - 1]) /\ Floor(p[k]) >= Floor(p[k - 1])

\* The texts of activations lie above one another and below len.
Layered(p, len) ==
    /\ \A k \in 1..Len(p) : p[k].ip.seg <= len
    /\ \A k \in 1..Len(p) : p[k].calltype \in Inner =>
        /\ p[k].ip.seg <= p[k].codelen /\ p[k].codelen < len
        /\ \A j \in 1..(k - 1) :
            /\ p[j].ip.seg <= p[k].codelen
            /\ p[j].calltype \in Inner => p[j].codelen < p[k].codelen

\* Environment pairs are shared with the activation below or one's own.
Pair(p, k)   == {p[k].env, p[k].alt}

Paired(p, lv) ==
    \A k \in 1..Len(p) :
        /\ Pair(p, k) \subseteq lv /\ p[k].env # p[k].alt
        /\ k > 1 => (p[k].env = p[k - 1].env <=> p[k].alt = p[k - 1].alt)
        /\ k > 1 /\ p[k].env # p[k - 1].env =>
             \A j \in 1..(k - 1) : Pair(p, k) \cap Pair(p, j) = {}

\* The first activation is the program; a return ends a routine above it.
Rooted(p, m) ==
    /\ p[1].calltype \in Kinds
    /\ m = "return" => \E k \in 2..Len(p) : p[k].calltype \notin Inner

InForce(p, m, tr) ==
    m \in {"run", "return", "trap"} /\ (\A k \in 1..Len(p) : p[k].calltype # "INTERACTIVE")
        => tr = Loud(p[Len(p)].trace)

\* What holds of the table p, the stack's top t, the environments lv in use,
\* the len texts there are, the next instruction's place and the loop m.
Sound(p, t, lv, len, at, m) ==
    /\ p \in Table /\ Len(p) <= MaxProc
    /\ t \in -1..STCK_SIZE /\ lv \subseteq EnvIds /\ len \in 0..MaxCode
    /\ at \in Places /\ m \in Modes
    /\ Rooted(p, m)
    /\ Stacked(p) /\ (m \in {"run", "return"} => t >= Floor(p[Len(p)]))
    /\ Layered(p, len) /\ at.seg <= len
    /\ m = "trap" => at = Main
    /\ m # "end" => Paired(p, lv)

Scalars ==
    /\ heap \in [EnvIds -> EnvNames] /\ lNumericDigits \in Nat
    /\ tracing \in BOOLEAN /\ traceflag \in BOOLEAN
    /\ trapped \in Conditions \cup {"", "SYNTAX"} /\ elapsed \in 0..MaxResets

FramesInv == Scalars /\ Sound(proc, top, live, codelen, Rxcip, mode)

TracingInv == InForce(proc, mode, tracing)

-----------------------------------------------------------------------------
(* Tables of activations.                                                  *)

LEMMA TableFacts ==
    ASSUME NEW p \in Table
    PROVE  /\ p \in Seq(FrameType) /\ Len(p) \in Nat /\ Len(p) >= 1
           /\ Len(p) \in 1..Len(p)
           /\ \A k \in 1..Len(p) : p[k] \in FrameType
BY EmptySeq, LenProperties, ElementOfSeq DEF Table

LEMMA TableLen ==
    ASSUME NEW p \in Seq(FrameType), Len(p) >= 1
    PROVE  p \in Table
BY EmptySeq DEF Table

LEMMA UpdateFacts ==
    ASSUME NEW p \in Table, NEW f \in FrameType
    PROVE  /\ Update(p, f) \in Table /\ Len(Update(p, f)) = Len(p)
           /\ \A k \in 1..Len(p) : Update(p, f)[k] = IF k = Len(p) THEN f ELSE p[k]
<1>1. /\ Update(p, f) \in Seq(FrameType) /\ Len(Update(p, f)) = Len(p)
      /\ \A k \in 1..Len(p) : Update(p, f)[k] = IF k = Len(p) THEN f ELSE p[k]
  BY TableFacts, ExceptSeq DEF Update
<1> QED BY <1>1, TableFacts, TableLen

LEMMA AppendFacts ==
    ASSUME NEW p \in Table, NEW f \in FrameType
    PROVE  /\ Append(p, f) \in Table /\ Len(Append(p, f)) = Len(p) + 1
           /\ Append(p, f)[Len(p) + 1] = f
           /\ \A k \in 1..Len(p) : Append(p, f)[k] = p[k]
<1> DEFINE q == Append(p, f)
<1>1. /\ q \in Seq(FrameType) /\ Len(q) = Len(p) + 1
      /\ q[Len(p) + 1] = f
      /\ \A k \in 1..Len(p) : q[k] = p[k]
  BY TableFacts, AppendProperties
<1>2. Len(p) \in Nat
  BY TableFacts
<1> HIDE DEF q
<1>3. q \in Table
  BY <1>1, <1>2, TableLen
<1>4. /\ q \in Table /\ Len(q) = Len(p) + 1
      /\ q[Len(p) + 1] = f
      /\ \A k \in 1..Len(p) : q[k] = p[k]
  BY <1>1, <1>3
<1> QED BY <1>4 DEF q

LEMMA PopFacts ==
    ASSUME NEW p \in Table, Len(p) > 1
    PROVE  /\ Pop(p) \in Table /\ Len(Pop(p)) = Len(p) - 1
           /\ \A k \in 1..(Len(p) - 1) : Pop(p)[k] = p[k]
<1> DEFINE n == Len(p) - 1
<1>1. n \in Nat /\ 1 <= n /\ n <= Len(p)
  BY TableFacts
<1>2. \A k \in 1..n : p[k] \in FrameType
  BY <1>1, TableFacts
<1>3. /\ SubSeq(p, 1, n) \in Seq(FrameType)
      /\ Len(SubSeq(p, 1, n)) = IF 1 <= n THEN n - 1 + 1 ELSE 0
      /\ \A k \in 1..(n - 1 + 1) : SubSeq(p, 1, n)[k] = p[1 + k - 1]
  <2> HIDE DEF n
  <2> QED BY <1>1, <1>2, SubSeqProperties
<1>4. /\ Pop(p) \in Seq(FrameType) /\ Len(Pop(p)) = n
      /\ \A k \in 1..n : Pop(p)[k] = p[k]
  BY <1>1, <1>3 DEF Pop
<1> QED BY <1>1, <1>4, TableLen

-----------------------------------------------------------------------------
(* One table for another that differs in settings only.                    *)

Texted(p, q) ==
    /\ Len(q) = Len(p)
    /\ \A k \in 1..Len(p) : /\ q[k].calltype = p[k].calltype /\ q[k].ip = p[k].ip
                            /\ q[k].codelen = p[k].codelen

Enved(p, q) ==
    /\ Len(q) = Len(p)
    /\ \A k \in 1..Len(p) : q[k].env = p[k].env /\ q[k].alt = p[k].alt

Floored(p, q) ==
    /\ Len(q) = Len(p)
    /\ \A k \in 1..Len(p) : q[k].stack = p[k].stack
    /\ \A k \in 1..(Len(p) - 1) : Floor(q[k]) = Floor(p[k])
    /\ Floor(q[Len(p)]) >= Floor(p[Len(p)])

Settled(p, q) == Texted(p, q) /\ Enved(p, q) /\ Floored(p, q)

LEMMA FrameInts ==
    ASSUME NEW f \in FrameType
    PROVE  /\ f.stack \in Int /\ f.stacktop \in Int /\ f.held \in Int
           /\ Floor(f) \in Int /\ f.ip.seg \in Int /\ f.codelen \in Int
           /\ f.codelen >= 0 /\ f.ip.seg >= 0
BY FrameConstants DEF FrameType, Floor, Places

LEMMA TextedKeeps ==
    ASSUME NEW p \in Table, NEW q \in Table, Texted(p, q),
           NEW len \in Nat, NEW len2 \in Nat, len <= len2, Layered(p, len)
    PROVE  /\ Layered(q, len2)
           /\ \A m : Rooted(p, m) => Rooted(q, m)
           /\ \A k \in 1..Len(q) : q[k].calltype = p[k].calltype
<1>1. \A k \in 1..Len(q) : /\ k \in 1..Len(p) /\ q[k].calltype = p[k].calltype
                           /\ q[k].ip = p[k].ip /\ q[k].codelen = p[k].codelen
                           /\ p[k].ip.seg \in Int /\ p[k].codelen \in Int
  BY TableFacts, FrameInts DEF Texted
<1>2. \A k \in 1..Len(q) : \A j \in 1..(k - 1) : j \in 1..Len(q)
  BY TableFacts
<1>3. Layered(q, len2)
  BY <1>1, <1>2 DEF Layered
<1>4. 1 \in 1..Len(q) /\ Len(q) = Len(p) /\ \A k \in 2..Len(p) : k \in 1..Len(q)
  BY TableFacts DEF Texted
<1>5. \A m : Rooted(p, m) => Rooted(q, m)
  BY <1>1, <1>4 DEF Rooted
<1> QED BY <1>1, <1>3, <1>5

LEMMA EnvedKeeps ==
    ASSUME NEW p \in Table, NEW q \in Table, Enved(p, q), NEW lv, Paired(p, lv)
    PROVE  Paired(q, lv)
<1>1. /\ Len(q) = Len(p) /\ Len(p) \in Nat
      /\ \A k \in 1..Len(q) : q[k].env = p[k].env /\ q[k].alt = p[k].alt
  BY TableFacts DEF Enved
<1>2. \A k \in 1..Len(q) : /\ \A j \in 1..(k - 1) : j \in 1..Len(q)
                           /\ k > 1 => k - 1 \in 1..Len(q)
  BY <1>1
<1>3. \A k \in 1..Len(q) : Pair(q, k) = Pair(p, k)
  BY <1>1 DEF Pair
<1> QED BY <1>1, <1>2, <1>3 DEF Paired

LEMMA FlooredKeeps ==
    ASSUME NEW p \in Table, NEW q \in Table, Floored(p, q), Stacked(p)
    PROVE  Stacked(q)
<1>1. /\ Len(q) = Len(p) /\ Len(p) \in Nat /\ Len(p) >= 1
      /\ \A k \in 1..Len(q) : q[k].stack = p[k].stack
  BY TableFacts DEF Floored
<1>2. \A k \in 1..Len(q) : Floor(p[k]) \in Int /\ Floor(q[k]) \in Int
  BY <1>1, TableFacts, FrameInts
<1>3. \A k \in 1..Len(q) : Floor(q[k]) >= Floor(p[k])
  BY <1>1, <1>2 DEF Floored
<1>4. \A k \in 2..Len(q) : k \in 1..Len(p) /\ k - 1 \in 1..(Len(p) - 1)
                           /\ Floor(q[k - 1]) = Floor(p[k - 1])
  BY <1>1 DEF Floored
<1> HIDE DEF Floor
<1>5. \A k \in 1..Len(q) : Floor(q[k]) >= -1
  BY <1>1, <1>2, <1>3 DEF Stacked
<1>6. ASSUME NEW k \in 2..Len(q)
      PROVE  q[k].stack >= Floor(q[k - 1]) /\ Floor(q[k]) >= Floor(q[k - 1])
  <2>1. /\ k \in 1..Len(q) /\ k - 1 \in 1..Len(q) /\ Floor(q[k - 1]) = Floor(p[k - 1])
        /\ q[k].stack = p[k].stack
    BY <1>1, <1>4
  <2>2. p[k].stack >= Floor(p[k - 1]) /\ Floor(p[k]) >= Floor(p[k - 1])
    BY <1>1 DEF Stacked
  <2>3. /\ Floor(q[k]) >= Floor(p[k]) /\ Floor(p[k]) \in Int /\ Floor(q[k]) \in Int
        /\ Floor(p[k - 1]) \in Int
    BY <1>2, <1>3, <2>1
  <2> QED BY <2>1, <2>2, <2>3
<1> QED BY <1>5, <1>6 DEF Stacked

\* What is left to see about a step from table p to q with the same activations.
Stays(p, q, len, t2, len2, at2, m2) ==
    /\ q \in Table /\ Settled(p, q)
    /\ t2 \in -1..STCK_SIZE /\ len2 \in 0..MaxCode /\ len <= len2
    /\ at2 \in Places /\ at2.seg <= len2 /\ m2 \in Modes
    /\ m2 = "trap" => at2 = Main
    /\ m2 = "return" => Rooted(p, m2)
    /\ m2 \in {"run", "return"} => t2 >= Floor(q[Len(q)])

LEMMA Settle ==
    ASSUME NEW p, NEW t, NEW lv, NEW len, NEW at, NEW m, Sound(p, t, lv, len, at, m),
           m # "end", NEW q, NEW t2, NEW len2, NEW at2, NEW m2,
           Stays(p, q, len, t2, len2, at2, m2)
    PROVE  Sound(q, t2, lv, len2, at2, m2)
<1>1. p \in Table /\ q \in Table /\ Len(q) = Len(p) /\ Len(p) <= MaxProc /\ lv \subseteq EnvIds
      /\ len \in Nat /\ len2 \in Nat /\ Layered(p, len) /\ Stacked(p) /\ Paired(p, lv)
      /\ Rooted(p, m) /\ Settled(p, q) /\ len <= len2
  BY DEF Sound, Stays, Settled, Texted
<1>2. Rooted(p, m2)
  BY <1>1 DEF Rooted, Stays
<1>3. Layered(q, len2) /\ Rooted(q, m2)
  BY <1>1, <1>2, TextedKeeps DEF Settled
<1>4. Paired(q, lv) /\ Stacked(q)
  BY <1>1, EnvedKeeps, FlooredKeeps DEF Settled
<1> QED BY <1>1, <1>3, <1>4 DEF Sound, Stays

-----------------------------------------------------------------------------
(* One activation more.                                                    *)

\* What makes f fit on top of g where len texts become len2.
Fits(f, g, len, t2, len2, at2) ==
    /\ f \in FrameType /\ len2 \in 0..MaxCode /\ len <= len2
    /\ t2 \in -1..STCK_SIZE /\ t2 >= Floor(f)
    /\ at2 \in Places /\ at2.seg <= len2
    /\ f.stack >= Floor(g) /\ Floor(f) >= Floor(g)
    /\ f.env = g.env /\ f.alt = g.alt
    /\ f.ip.seg <= len
    /\ f.calltype \in Inner => len <= f.codelen /\ f.codelen < len2

LEMMA AppendStacked ==
    ASSUME NEW p \in Table, NEW f \in FrameType, Stacked(p),
           f.stack >= Floor(p[Len(p)]), Floor(f) >= Floor(p[Len(p)])
    PROVE  Stacked(Append(p, f))
<1> DEFINE q == Append(p, f)
           n == Len(p)
<1>1. /\ q \in Table /\ Len(q) = n + 1 /\ q[n + 1] = f /\ n \in Nat /\ n >= 1
      /\ \A k \in 1..n : q[k] = p[k]
  BY AppendFacts, TableFacts
<1>2. n \in 1..n /\ Floor(p[n]) >= -1 /\ Floor(p[n]) \in Int /\ Floor(f) \in Int
  BY TableFacts, FrameInts DEF Stacked
<1>3. Floor(f) >= -1
  BY <1>2
<1> HIDE DEF q, n
<1>4. \A k \in 1..Len(q) : k = n + 1 \/ k \in 1..n
  BY <1>1
<1>5. \A k \in 1..Len(q) : Floor(q[k]) >= -1
  BY <1>1, <1>3, <1>4 DEF Stacked, n
<1>6. ASSUME NEW k \in 2..Len(q)
      PROVE  q[k].stack >= Floor(q[k - 1]) /\ Floor(q[k]) >= Floor(q[k - 1])
  <2>1. CASE k = n + 1
    <3>1. q[k] = f /\ q[k - 1] = p[n]
      BY <1>1, <1>2, <2>1
    <3> QED BY <3>1 DEF n
  <2>2. CASE k \in 2..n
    <3>1. q[k] = p[k] /\ q[k - 1] = p[k - 1]
      BY <1>1, <2>2
    <3> QED BY <2>2, <3>1 DEF Stacked, n
  <2> QED BY <1>1, <2>1, <2>2
<1> QED BY <1>5, <1>6 DEF Stacked, q

LEMMA AppendLayered ==
    ASSUME NEW p \in Table, NEW f \in FrameType, NEW len \in Nat, NEW len2 \in Nat,
           Layered(p, len), len <= len2, f.ip.seg <= len,
           f.calltype \in Inner => len <= f.codelen /\ f.codelen < len2
    PROVE  Layered(Append(p, f), len2)
<1> DEFINE q == Append(p, f)
           n == Len(p)
<1>1. /\ q \in Table /\ Len(q) = n + 1 /\ q[n + 1] = f /\ n \in Nat /\ n >= 1
      /\ \A k \in 1..n : q[k] = p[k]
  BY AppendFacts, TableFacts
<1>2. \A k \in 1..n : p[k].ip.seg \in Int /\ p[k].codelen \in Int
  BY TableFacts, FrameInts
<1>3. f.ip.seg \in Int /\ f.codelen \in Int
  BY FrameInts
<1>4. \A k \in 1..n : p[k].ip.seg <= len /\ (p[k].calltype \in Inner => p[k].codelen < len)
  BY DEF Layered
<1> HIDE DEF q
<1>5. \A k \in 1..Len(q) : k = n + 1 \/ k \in 1..n
  BY <1>1
<1>6. \A k \in 1..Len(q) : q[k].ip.seg <= len2
  BY <1>1, <1>2, <1>3, <1>4, <1>5
<1>7. ASSUME NEW k \in 1..Len(q), q[k].calltype \in Inner
      PROVE  /\ q[k].ip.seg <= q[k].codelen /\ q[k].codelen < len2
             /\ \A j \in 1..(k - 1) :
                 /\ q[j].ip.seg <= q[k].codelen
                 /\ q[j].calltype \in Inner => q[j].codelen < q[k].codelen
  <2>1. \A j \in 1..(k - 1) : j \in 1..n
    BY <1>1
  <2>2. CASE k = n + 1
    BY <1>1, <1>2, <1>3, <1>4, <1>7, <2>1, <2>2
  <2>3. CASE k \in 1..n
    <3>1. q[k] = p[k] /\ \A j \in 1..(k - 1) : q[j] = p[j]
      BY <1>1, <2>1, <2>3
    <3>2. /\ p[k].ip.seg <= p[k].codelen /\ p[k].codelen < len
          /\ \A j \in 1..(k - 1) :
              /\ p[j].ip.seg <= p[k].codelen
              /\ p[j].calltype \in Inner => p[j].codelen < p[k].codelen
      BY <1>7, <2>3, <3>1 DEF Layered
    <3>3. p[k].codelen < len2
      BY <1>2, <2>3, <3>2
    <3> QED BY <3>1, <3>2, <3>3
  <2> QED BY <1>5, <2>2, <2>3
<1> QED BY <1>6, <1>7 DEF Layered, q

LEMMA AppendPaired ==
    ASSUME NEW p \in Table, NEW f \in FrameType, NEW lv, Paired(p, lv),
           f.env = p[Len(p)].env, f.alt = p[Len(p)].alt
    PROVE  Paired(Append(p, f), lv)
<1> DEFINE q == Append(p, f)
           n == Len(p)
<1>1. /\ q \in Table /\ Len(q) = n + 1 /\ q[n + 1] = f /\ n \in Nat /\ n >= 1
      /\ \A k \in 1..n : q[k] = p[k]
  BY AppendFacts, TableFacts
<1>2. f.env = p[n].env /\ f.alt = p[n].alt
  OBVIOUS
<1> HIDE DEF q
<1>3. ASSUME NEW k \in 1..Len(q)
      PROVE  /\ Pair(q, k) \subseteq lv /\ q[k].env # q[k].alt
             /\ k > 1 => (q[k].env = q[k - 1].env <=> q[k].alt = q[k - 1].alt)
             /\ k > 1 /\ q[k].env # q[k - 1].env =>
                  \A j \in 1..(k - 1) : Pair(q, k) \cap Pair(q, j) = {}
  <2>1. CASE k = n + 1
    <3>1. q[k] = f /\ q[k - 1] = p[n] /\ n \in 1..n
      BY <1>1, <2>1
    <3>2. Pair(p, n) \subseteq lv /\ p[n].env # p[n].alt
      BY <3>1 DEF Paired
    <3> QED BY <1>2, <3>1, <3>2 DEF Pair
  <2>2. CASE k \in 1..n
    <3>1. q[k] = p[k] /\ (k > 1 => q[k - 1] = p[k - 1]) /\ \A j \in 1..(k - 1) : q[j] = p[j]
      BY <1>1, <2>2
    <3> QED BY <2>2, <3>1 DEF Paired, Pair
  <2> QED BY <1>1, <2>1, <2>2
<1> QED BY <1>3 DEF Paired, q

LEMMA Grow ==
    ASSUME NEW p, NEW t, NEW lv, NEW len, NEW at, Sound(p, t, lv, len, at, "run"),
           Len(p) < MaxProc, NEW f, NEW t2, NEW len2, NEW at2,
           Fits(f, p[Len(p)], len, t2, len2, at2)
    PROVE  Sound(Append(p, f), t2, lv, len2, at2, "run")
<1> DEFINE q == Append(p, f)
<1>0. f \in FrameType /\ len2 \in 0..MaxCode /\ len2 \in Nat /\ len <= len2
  BY DEF Fits
<1>1. p \in Table /\ lv \subseteq EnvIds
      /\ len \in Nat /\ len2 \in Nat /\ Layered(p, len) /\ Stacked(p) /\ Paired(p, lv)
      /\ Rooted(p, "run") /\ Len(p) \in Nat
  BY <1>0, TableFacts DEF Sound
<1>2. /\ q \in Table /\ Len(q) = Len(p) + 1 /\ q[Len(q)] = f
      /\ \A k \in 1..Len(p) : q[k] = p[k]
  BY <1>0, <1>1, AppendFacts
<1>3. Stacked(q) /\ Layered(q, len2) /\ Paired(q, lv)
  BY <1>0, <1>1, AppendStacked, AppendLayered, AppendPaired DEF Fits
<1> HIDE DEF q
<1>4. 1 \in 1..Len(p)
  BY <1>1, TableFacts
<1>5. Rooted(q, "run")
  BY <1>1, <1>2, <1>4 DEF Rooted
<1>6. Len(q) <= MaxProc
  BY <1>1, <1>2, FrameConstants
<1>7. "run" \in Modes
  BY DEF Modes
<1> QED BY <1>1, <1>2, <1>3, <1>5, <1>6, <1>7 DEF Sound, Fits, q

-----------------------------------------------------------------------------
(* One activation less.                                                    *)

LEMMA PopStacked ==
    ASSUME NEW p \in Table, Len(p) > 1, Stacked(p)
    PROVE  Stacked(Pop(p))
<1> DEFINE q == Pop(p)
           n == Len(p)
<1>1. /\ Len(q) = n - 1 /\ n \in Nat /\ \A k \in 1..(n - 1) : q[k] = p[k]
  BY PopFacts, TableFacts
<1> HIDE DEF q
<1>2. \A k \in 1..Len(q) : q[k] = p[k] /\ k \in 1..n
  BY <1>1
<1>3. \A k \in 2..Len(q) : k \in 2..n /\ q[k] = p[k] /\ q[k - 1] = p[k - 1]
  BY <1>1
<1> QED BY <1>2, <1>3 DEF Stacked, q

LEMMA PopLayered ==
    ASSUME NEW p \in Table, Len(p) > 1, NEW len \in Nat, Layered(p, len), NEW len2,
           \/ len2 = len
           \/ p[Len(p)].calltype \in Inner /\ len2 = p[Len(p)].codelen
    PROVE  Layered(Pop(p), len2)
<1> DEFINE q == Pop(p)
           n == Len(p)
<1>1. /\ Len(q) = n - 1 /\ n \in Nat /\ \A k \in 1..(n - 1) : q[k] = p[k]
  BY PopFacts, TableFacts
<1> HIDE DEF q
<1>2. n \in 1..n
  BY TableFacts
<1>3. \A k \in 1..(n - 1) :
        p[k].ip.seg <= len2 /\ (p[k].calltype \in Inner => p[k].codelen < len2)
  <2>1. CASE len2 = len
    BY <1>1, <2>1 DEF Layered
  <2>2. CASE p[n].calltype \in Inner /\ len2 = p[n].codelen
    BY <1>2, <2>2 DEF Layered
  <2> QED BY <2>1, <2>2
<1>4. \A k \in 1..Len(q) : /\ q[k] = p[k] /\ k \in 1..n /\ k \in 1..(n - 1)
                           /\ \A j \in 1..(k - 1) : q[j] = p[j]
  BY <1>1
<1> QED BY <1>3, <1>4 DEF Layered, q

LEMMA PopPaired ==
    ASSUME NEW p \in Table, Len(p) > 1, NEW lv, Paired(p, lv), NEW lv2,
           \/ lv2 = lv
           \/ /\ p[Len(p)].env # p[Len(p) - 1].env
              /\ lv2 \subseteq lv /\ lv \ lv2 \subseteq Pair(p, Len(p))
    PROVE  Paired(Pop(p), lv2)
<1> DEFINE q == Pop(p)
           n == Len(p)
<1>1. /\ Len(q) = n - 1 /\ n \in Nat /\ \A k \in 1..(n - 1) : q[k] = p[k]
  BY PopFacts, TableFacts
<1> HIDE DEF q
<1>2. n \in 1..n /\ n > 1
  BY TableFacts
<1>3. \A k \in 1..(n - 1) : Pair(p, k) \subseteq lv2
  <2>1. \A k \in 1..(n - 1) : k \in 1..n /\ Pair(p, k) \subseteq lv
    BY <1>1 DEF Paired
  <2>2. CASE lv2 = lv
    BY <2>1, <2>2
  <2>3. CASE p[n].env # p[n - 1].env /\ lv \ lv2 \subseteq Pair(p, n)
    <3>1. \A j \in 1..(n - 1) : Pair(p, n) \cap Pair(p, j) = {}
      BY <1>2, <2>3 DEF Paired
    <3> QED BY <2>1, <2>3, <3>1
  <2> QED BY <2>2, <2>3
<1>4. \A k \in 1..Len(q) : /\ q[k] = p[k] /\ k \in 1..n /\ k \in 1..(n - 1)
                           /\ k > 1 => q[k - 1] = p[k - 1]
                           /\ \A j \in 1..(k - 1) : q[j] = p[j]
  BY <1>1
<1>5. \A k \in 1..Len(q) : /\ Pair(q, k) = Pair(p, k)
                           /\ \A j \in 1..(k - 1) : Pair(q, j) = Pair(p, j)
  BY <1>4 DEF Pair
<1> QED BY <1>3, <1>4, <1>5 DEF Paired, q

\* What may become of the environments and of the texts when the topmost
\* activation of p goes.
Freed(p, lv, lv2) ==
    \/ lv2 = lv
    \/ /\ p[Len(p)].env # p[Len(p) - 1].env
       /\ lv2 \subseteq lv /\ lv \ lv2 \subseteq Pair(p, Len(p))

CutOff(p, len, len2) ==
    \/ len2 = len
    \/ p[Len(p)].calltype \in Inner /\ len2 = p[Len(p)].codelen

Falls(p, q, lv, len, t2, lv2, len2, at2, m2) ==
    /\ q \in Table /\ Settled(Pop(p), q) /\ Freed(p, lv, lv2) /\ CutOff(p, len, len2)
    /\ t2 \in -1..STCK_SIZE /\ at2 \in Places /\ at2.seg <= len2
    /\ m2 \in Modes
    /\ m2 = "trap" => at2 = Main
    /\ m2 = "return" => \E k \in 2..(Len(p) - 1) : p[k].calltype \notin Inner
    /\ m2 \in {"run", "return"} => t2 >= Floor(q[Len(q)])

LEMMA Shrink ==
    ASSUME NEW p, NEW t, NEW lv, NEW len, NEW at, NEW m, Sound(p, t, lv, len, at, m),
           Len(p) > 1, m # "end", NEW q, NEW t2, NEW lv2, NEW len2, NEW at2, NEW m2,
           Falls(p, q, lv, len, t2, lv2, len2, at2, m2)
    PROVE  Sound(q, t2, lv2, len2, at2, m2)
<1> DEFINE r == Pop(p)
<1>1. p \in Table /\ Len(p) \in Nat /\ Len(p) \in 1..Len(p) /\ p[Len(p)] \in FrameType
  BY TableFacts DEF Sound
<1>2. /\ len \in 0..MaxCode /\ len \in Nat /\ lv \subseteq EnvIds /\ Len(p) <= MaxProc
      /\ Layered(p, len) /\ Stacked(p) /\ Paired(p, lv) /\ Rooted(p, m)
  BY DEF Sound
<1>3. /\ r \in Table /\ Len(r) = Len(p) - 1 /\ \A k \in 1..(Len(p) - 1) : r[k] = p[k]
  BY <1>1, PopFacts
<1>4. len2 \in 0..MaxCode /\ len2 \in Nat
  <2>1. CASE len2 = len
    BY <1>2, <2>1
  <2>2. CASE p[Len(p)].calltype \in Inner /\ len2 = p[Len(p)].codelen
    <3>1. len2 < len
      BY <1>1, <1>2, <2>2 DEF Layered
    <3>2. len2 \in Nat
      BY <1>1, <2>2, FrameInts
    <3> QED BY <1>2, <3>1, <3>2, FrameConstants
  <2> QED BY <2>1, <2>2 DEF CutOff, Falls
<1>5. Layered(r, len2) /\ Stacked(r) /\ Paired(r, lv2)
  BY <1>1, <1>2, PopLayered, PopStacked, PopPaired DEF Freed, CutOff, Falls
<1> HIDE DEF r
<1>6. Rooted(r, m2)
  BY <1>1, <1>2, <1>3 DEF Rooted, Falls
<1>7. q \in Table /\ Len(q) = Len(r) /\ Layered(q, len2) /\ Rooted(q, m2)
  BY <1>3, <1>4, <1>5, <1>6, TextedKeeps DEF Settled, Texted, Falls, r
<1>8. Paired(q, lv2) /\ Stacked(q)
  BY <1>3, <1>5, EnvedKeeps, FlooredKeeps DEF Settled, Falls, r
<1>9. Len(q) <= MaxProc /\ lv2 \subseteq EnvIds
  BY <1>1, <1>2, <1>3, <1>7, FrameConstants DEF Freed, Falls
<1> QED BY <1>4, <1>7, <1>8, <1>9 DEF Sound, Falls

-----------------------------------------------------------------------------
(* Changing the topmost activation.                                        *)

LEMMA UpdateSettled ==
    ASSUME NEW p \in Table, NEW f \in FrameType, NEW g, g = p[Len(p)],
           f.calltype = g.calltype, f.ip = g.ip, f.codelen = g.codelen,
           f.env = g.env, f.alt = g.alt, f.stack = g.stack, Floor(f) >= Floor(g)
    PROVE  Update(p, f) \in Table /\ Settled(p, Update(p, f))
<1> DEFINE q == Update(p, f)
<1>1. /\ q \in Table /\ Len(q) = Len(p) /\ Len(p) \in Nat /\ Len(p) \in 1..Len(p)
      /\ \A k \in 1..Len(p) : q[k] = IF k = Len(p) THEN f ELSE p[k]
  BY UpdateFacts, TableFacts
<1> HIDE DEF q
<1>2. \A k \in 1..(Len(p) - 1) : q[k] = p[k]
  BY <1>1
<1>3. Floored(p, q)
  BY <1>1, <1>2 DEF Floored
<1> QED BY <1>1, <1>3 DEF Settled, Texted, Enved, q

LEMMA SettledTrans ==
    ASSUME NEW p \in Table, NEW q \in Table, NEW r \in Table, Settled(p, q), Settled(q, r)
    PROVE  Settled(p, r)
<1>1. Len(p) = Len(q) /\ Len(q) = Len(r) /\ Len(p) \in 1..Len(p) /\ Len(p) \in Nat
  BY TableFacts DEF Settled, Texted
<1>2. Texted(p, r) /\ Enved(p, r)
  BY <1>1 DEF Settled, Texted, Enved
<1>3. Floor(p[Len(p)]) \in Int /\ Floor(q[Len(p)]) \in Int /\ Floor(r[Len(p)]) \in Int
  BY <1>1, TableFacts, FrameInts
<1>4. \A k \in 1..(Len(p) - 1) : k \in 1..Len(p)
  BY <1>1
<1> HIDE DEF Floor
<1>5. Floored(p, r)
  BY <1>1, <1>3, <1>4 DEF Settled, Floored
<1> QED BY <1>2, <1>5 DEF Settled

LEMMA SettledRefl ==
    ASSUME NEW p \in Table
    PROVE  Settled(p, p)
<1>1. Floor(p[Len(p)]) \in Int
  BY TableFacts, FrameInts
<1> QED BY <1>1 DEF Settled, Texted, Enved, Floored

\* The fields that NUMERIC, TRACE and SIGNAL set.
LEMMA SettingTypes ==
    ASSUME NEW f \in FrameType
    PROVE  /\ \A x \in Nat : [f EXCEPT !.digits = x] \in FrameType
           /\ \A x \in Nat : [f EXCEPT !.fuzz = x] \in FrameType
           /\ \A x \in Forms : [f EXCEPT !.form = x] \in FrameType
           /\ \A x \in SUBSET Conditions : [f EXCEPT !.condition = x] \in FrameType
           /\ \A x \in Letters, b \in BOOLEAN :
                [f EXCEPT !.interactive = b, !.trace = x] \in FrameType
           /\ [f EXCEPT !.held = 0] \in FrameType
BY DEF FrameType

LEMMA DisableFacts ==
    ASSUME NEW p \in Table, NEW c
    PROVE  /\ Disable(p, c) \in Table /\ Settled(p, Disable(p, c))
           /\ \A k \in 1..Len(p) : Disable(p, c)[k].trace = p[k].trace
<1> DEFINE n == Len(p)
           f == [p[n] EXCEPT !.condition = @ \ {c}]
<1>1. n \in 1..n /\ p[n] \in FrameType
  BY TableFacts
<1>2. p[n].condition \in SUBSET Conditions /\ p[n].condition \ {c} \in SUBSET Conditions
  BY <1>1 DEF FrameType
<1>3. f = [p[n] EXCEPT !.condition = p[n].condition \ {c}]
  OBVIOUS
<1>4. f \in FrameType
  BY <1>1, <1>2, <1>3, SettingTypes
<1>5. /\ f.calltype = p[n].calltype /\ f.ip = p[n].ip /\ f.codelen = p[n].codelen
      /\ f.env = p[n].env /\ f.alt = p[n].alt /\ f.stack = p[n].stack
      /\ f.stacktop = p[n].stacktop /\ f.held = p[n].held /\ f.trace = p[n].trace
  BY <1>1 DEF FrameType
<1>6. Disable(p, c) = Update(p, f)
  BY <1>1, TableFacts DEF Disable, Update
<1> HIDE DEF f
<1>7. Floor(f) >= Floor(p[n])
  BY <1>1, <1>5, FrameInts DEF Floor
<1>8. /\ Update(p, f) \in Table /\ Settled(p, Update(p, f))
      /\ \A k \in 1..n : Update(p, f)[k] = IF k = n THEN f ELSE p[k]
  BY <1>4, <1>5, <1>7, UpdateSettled, UpdateFacts
<1>9. \A k \in 1..n : Update(p, f)[k].trace = p[k].trace
  BY <1>5, <1>8
<1> QED BY <1>6, <1>8, <1>9

-----------------------------------------------------------------------------
(* Conditions and errors.                                                  *)

\* An outcome o for the table p: only traps are turned off.
Outcome(p, o) ==
    /\ o.proc \in Table /\ Settled(p, o.proc)
    /\ \A k \in 1..Len(p) : o.proc[k].trace = p[k].trace
    /\ o.mode \in {"trap", "exit"} /\ o.trapped \in Conditions \cup {"", "SYNTAX"}

LEMMA JumpOutcome ==
    ASSUME NEW p \in Table, NEW q \in Table, Settled(p, q),
           \A k \in 1..Len(p) : q[k].trace = p[k].trace,
           NEW c \in Conditions \cup {"", "SYNTAX"}
    PROVE  Outcome(p, Jump(q, c)) /\ Outcome(p, Quit(q, c))
BY DEF Outcome, Jump, Quit

LEMMA SignalOutcome ==
    ASSUME NEW p \in Table, NEW c \in Conditions \cup {"SYNTAX"}
    PROVE  Outcome(p, RxSignalCondition(p, c))
<1> DEFINE off == Disable(p, c)
           both == Disable(off, "SYNTAX")
<1>1. /\ off \in Table /\ Settled(p, off)
      /\ \A k \in 1..Len(p) : off[k].trace = p[k].trace
  BY DisableFacts
<1>2. /\ both \in Table /\ Settled(off, both)
      /\ \A k \in 1..Len(off) : both[k].trace = off[k].trace
  BY <1>1, DisableFacts
<1>3. Settled(p, both) /\ Len(off) = Len(p)
  BY <1>1, <1>2, SettledTrans DEF Settled, Texted
<1>4. \A k \in 1..Len(p) : both[k].trace = p[k].trace
  BY <1>1, <1>2, <1>3
<1> HIDE DEF off, both
<1>5. /\ Outcome(p, Jump(off, c)) /\ Outcome(p, Quit(off, c))
      /\ Outcome(p, Jump(both, "SYNTAX")) /\ Outcome(p, Quit(both, "SYNTAX"))
  BY <1>1, <1>2, <1>3, <1>4, JumpOutcome
<1>6. RxSignalCondition(p, c) \in
        {Jump(off, c), Quit(off, c), Jump(both, "SYNTAX"), Quit(both, "SYNTAX")}
  BY DEF RxSignalCondition, off, both
<1> QED BY <1>5, <1>6

LEMMA RerrorOutcome ==
    ASSUME NEW p \in Table, trapped \in Conditions \cup {"", "SYNTAX"}
    PROVE  Outcome(p, Rerror(p)) /\ Outcome(p, CompileError(p))
<1>1. Outcome(p, RxSignalCondition(p, "SYNTAX"))
  BY SignalOutcome
<1>2. Outcome(p, Quit(p, trapped))
  BY SettledRefl, JumpOutcome
<1> QED BY <1>1, <1>2 DEF Rerror, CompileError

LEMMA MainPlace == Main \in Places /\ Main.seg = 0
BY FrameConstants DEF Main, Places

LEMMA TakeSound ==
    ASSUME NEW p, NEW t, NEW lv, NEW len, NEW at, Sound(p, t, lv, len, at, "run"),
           NEW o, Outcome(p, o),
           NEW t2 \in -1..STCK_SIZE, NEW len2 \in 0..MaxCode, len <= len2
    PROVE  Sound(o.proc, t2, lv, len2, Main, o.mode)
<1>1. o.mode \in Modes /\ o.mode \notin {"run", "return"} /\ "run" # "end"
  BY DEF Outcome, Modes
<1>2. Main.seg <= len2 /\ Main \in Places
  BY MainPlace
<1>3. Stays(p, o.proc, len, t2, len2, Main, o.mode)
  BY <1>1, <1>2 DEF Outcome, Stays
<1> QED BY <1>1, <1>3, Settle

-----------------------------------------------------------------------------
(* Instructions that leave the activations where they are.                 *)

LEMMA Here ==
    ASSUME FramesInv
    PROVE  /\ proc \in Table /\ rx \in Nat /\ rx \in 1..rx /\ rx <= MaxProc
           /\ Running \in FrameType /\ Floor(Running) \in Int /\ Floor(Running) >= -1
           /\ top \in -1..STCK_SIZE /\ top \in Int /\ codelen \in 0..MaxCode /\ codelen \in Nat
           /\ live \subseteq EnvIds /\ Rxcip \in Places /\ Rxcip.seg \in Nat
           /\ STCK_SIZE \in Nat /\ MaxCode \in Nat /\ MaxProc \in Nat
           /\ Sound(proc, top, live, codelen, Rxcip, mode)
           /\ mode \in {"run", "return"} => top >= Floor(Running)
<1>1. proc \in Table /\ Stacked(proc) /\ Sound(proc, top, live, codelen, Rxcip, mode)
  BY DEF FramesInv, Sound
<1>2. rx \in Nat /\ rx \in 1..rx /\ Running \in FrameType
  BY <1>1, TableFacts DEF rx, Running
<1>3. Floor(Running) \in Int /\ Floor(Running) >= -1
  BY <1>1, <1>2, FrameInts DEF Stacked, rx, Running
<1>4. STCK_SIZE \in Nat /\ MaxCode \in Nat /\ MaxProc \in Nat
  BY FrameConstants
<1> HIDE DEF Floor, Running
<1>5. /\ top \in -1..STCK_SIZE /\ codelen \in 0..MaxCode /\ live \subseteq EnvIds
      /\ Rxcip \in Places /\ rx <= MaxProc /\ top \in Int /\ codelen \in Nat
  BY <1>1, <1>4 DEF Sound, rx
<1>6. Rxcip.seg \in Nat
  BY <1>4, <1>5 DEF Places
<1>7. mode \in {"run", "return"} => top >= Floor(Running)
  BY <1>1 DEF Sound, Running, rx
<1> QED BY <1>1, <1>2, <1>3, <1>4, <1>5, <1>6, <1>7

\* The table, the environments and the code stay.
LEMMA StillSound ==
    ASSUME FramesInv, mode = "run",
           UNCHANGED <<proc, live, codelen, Rxcip>>,
           top' \in -1..STCK_SIZE, mode' \in Modes,
           mode' = "trap" => Rxcip' = Main,
           mode' = "return" => Rooted(proc, mode'),
           mode' \in {"run", "return"} => top' >= Floor(Running)
    PROVE  Sound(proc', top', live', codelen', Rxcip', mode')
<1>1. Settled(proc, proc')
  BY Here, SettledRefl
<1>2. codelen <= codelen' /\ Rxcip'.seg <= codelen' /\ codelen' \in 0..MaxCode
  BY Here DEF Sound
<1>3. proc' = proc /\ live' = live /\ Rxcip' = Rxcip /\ codelen' = codelen /\ Rxcip' \in Places
  BY Here
<1>4. Stays(proc, proc, codelen, top', codelen', Rxcip', mode')
  BY <1>1, <1>2, <1>3, Here DEF Stays, Running, rx
<1>5. Sound(proc, top', live, codelen', Rxcip', mode')
  BY <1>4, Here, Settle
<1> QED BY <1>3, <1>5

\* An error or a condition in an instruction that changed no activation.
LEMMA TookSound ==
    ASSUME FramesInv, mode = "run", \E o : Outcome(proc, o) /\ Take(o),
           top' \in -1..STCK_SIZE, live' = live, codelen' \in 0..MaxCode, codelen <= codelen'
    PROVE  /\ Sound(proc', top', live', codelen', Rxcip', mode')
           /\ trapped' \in Conditions \cup {"", "SYNTAX"}
<1>1. Sound(proc, top, live, codelen, Rxcip, "run")
  BY Here
<1>2. PICK o : Outcome(proc, o) /\ Take(o)
  OBVIOUS
<1>3. Sound(o.proc, top', live, codelen', Main, o.mode)
  BY <1>1, <1>2, TakeSound
<1> QED BY <1>2, <1>3 DEF Take, Outcome

LEMMA PushInv == FramesInv /\ Push => FramesInv'
<1> SUFFICES ASSUME FramesInv, Push PROVE FramesInv'
  OBVIOUS
<1>1. /\ mode = "run" /\ Scalars /\ top' \in -1..STCK_SIZE /\ top' >= top
      /\ live' = live /\ codelen' = codelen
  BY Here DEF Push, Idle, FramesInv
<1>2. CASE top' = STCK_SIZE - 1
  <2>1. Take(Rerror(proc)) /\ Outcome(proc, Rerror(proc))
    BY <1>1, <1>2, Here, RerrorOutcome DEF Push, Scalars
  <2>2. Sound(proc', top', live', codelen', Rxcip', mode')
        /\ trapped' \in Conditions \cup {"", "SYNTAX"}
    <3>1. /\ \E o : Outcome(proc, o) /\ Take(o)
          /\ codelen' \in 0..MaxCode /\ codelen <= codelen'
      BY <1>1, <2>1, Here
    <3> QED BY <1>1, <3>1, TookSound
  <2> QED BY <2>2 DEF Push, FramesInv, Scalars
<1>3. CASE top' # STCK_SIZE - 1
  <2>1. UNCHANGED <<proc, live, codelen, Rxcip, trapped, mode>>
    BY <1>1, <1>3 DEF Push
  <2>2. top' >= Floor(Running)
    BY <1>1, Here
  <2>3. Sound(proc', top', live', codelen', Rxcip', mode')
    BY <1>1, <2>1, <2>2, StillSound DEF Modes
  <2> QED BY <2>1, <2>3 DEF Push, FramesInv, Scalars
<1> QED BY <1>2, <1>3

LEMMA DropInv == FramesInv /\ Drop => FramesInv'
<1> SUFFICES ASSUME FramesInv, Drop PROVE FramesInv'
  OBVIOUS
<1>1. mode = "run" /\ mode' = mode /\ top' \in -1..STCK_SIZE /\ top' >= Floor(Running)
  BY Here DEF Drop, Idle
<1>2. Sound(proc', top', live', codelen', Rxcip', mode')
  BY <1>1, StillSound DEF Drop, Modes
<1> QED BY <1>2 DEF Drop, FramesInv, Scalars

LEMMA ErrorInv == FramesInv /\ (Error \/ Proc) => FramesInv'
<1> SUFFICES ASSUME FramesInv, Error \/ Proc PROVE FramesInv'
  OBVIOUS
<1>1. /\ mode = "run" /\ Take(Rerror(proc)) /\ Scalars
      /\ UNCHANGED <<top, heap, live, lNumericDigits, tracing, traceflag, elapsed, codelen>>
  BY DEF Error, Proc, Idle, FramesInv
<1>2. Outcome(proc, Rerror(proc))
  BY <1>1, Here, RerrorOutcome DEF Scalars
<1>3. top' \in -1..STCK_SIZE /\ codelen' \in 0..MaxCode /\ codelen <= codelen'
  BY <1>1, Here
<1>4. Sound(proc', top', live', codelen', Rxcip', mode')
      /\ trapped' \in Conditions \cup {"", "SYNTAX"}
  BY <1>1, <1>2, <1>3, TookSound
<1> QED BY <1>1, <1>4 DEF FramesInv, Scalars

LEMMA ConditionInv ==
    ASSUME FramesInv, RxHaltTrap \/ \E c \in Conditions : Condition(c)
    PROVE  FramesInv'
<1>1. /\ mode = "run" /\ Scalars
      /\ UNCHANGED <<top, heap, live, lNumericDigits, tracing, traceflag, elapsed, codelen>>
  BY DEF RxHaltTrap, Condition, Idle, FramesInv
<1>2. PICK o : Outcome(proc, o) /\ Take(o)
  <2>1. CASE RxHaltTrap
    <3>1. CASE "HALT" \in Running.condition
      <4>1. "HALT" \in Conditions
        BY <3>1, Here DEF FrameType
      <4> QED BY <2>1, <3>1, <4>1, Here, SignalOutcome DEF RxHaltTrap
    <3>2. CASE "HALT" \notin Running.condition
      BY <1>1, <2>1, <3>2, Here, RerrorOutcome DEF RxHaltTrap, Scalars
    <3> QED BY <3>1, <3>2
  <2>2. ASSUME NEW c \in Conditions, Condition(c) PROVE \E o : Outcome(proc, o) /\ Take(o)
    BY <2>2, Here, SignalOutcome DEF Condition
  <2> QED BY <2>1, <2>2
<1>3. top' \in -1..STCK_SIZE /\ codelen' \in 0..MaxCode /\ codelen <= codelen'
  BY <1>1, Here
<1>4. Sound(proc', top', live', codelen', Rxcip', mode')
      /\ trapped' \in Conditions \cup {"", "SYNTAX"}
  BY <1>1, <1>2, <1>3, TookSound
<1> QED BY <1>1, <1>4 DEF FramesInv, Scalars

-----------------------------------------------------------------------------
(* Settings.                                                               *)

\* f is Running with other settings.
Reset(f) ==
    /\ f \in FrameType
    /\ f.calltype = Running.calltype /\ f.ip = Running.ip /\ f.codelen = Running.codelen
    /\ f.env = Running.env /\ f.alt = Running.alt /\ f.stack = Running.stack
    /\ f.stacktop = Running.stacktop /\ (f.held = Running.held \/ f.held = 0)

LEMMA ResetTable ==
    ASSUME FramesInv, NEW f, Reset(f)
    PROVE  /\ Update(proc, f) \in Table /\ Settled(proc, Update(proc, f))
           /\ Len(Update(proc, f)) = rx /\ Update(proc, f)[rx] = f
           /\ f.held = Running.held => Floor(f) = Floor(Running)
           /\ Floor(f) <= Running.stacktop
<1>1. f \in FrameType /\ Running \in FrameType /\ proc \in Table /\ rx \in 1..rx
  BY Here DEF Reset
<1>2. /\ f.stacktop \in Int /\ f.held \in {0, 2} /\ Running.held \in {0, 2}
      /\ Running.stacktop \in Int
  BY <1>1, FrameInts DEF FrameType
<1>3. Floor(f) >= Floor(Running) /\ (f.held = Running.held => Floor(f) = Floor(Running))
      /\ Floor(f) <= Running.stacktop
  BY <1>2 DEF Reset, Floor
<1>4. Update(proc, f) \in Table /\ Settled(proc, Update(proc, f))
  BY <1>1, <1>3, UpdateSettled DEF Reset, Running, rx
<1>5. Len(Update(proc, f)) = rx /\ Update(proc, f)[rx] = f
  BY <1>1, UpdateFacts DEF rx
<1> QED BY <1>3, <1>4, <1>5

LEMMA ResetSound ==
    ASSUME FramesInv, mode = "run", NEW f, Reset(f), f.held = Running.held
    PROVE  Sound(Update(proc, f), top, live, codelen, Rxcip, "run")
<1> DEFINE q == Update(proc, f)
<1>1. /\ q \in Table /\ Settled(proc, q) /\ Len(q) = rx /\ q[rx] = f
      /\ Floor(f) = Floor(Running)
  BY ResetTable
<1> HIDE DEF q
<1>2. top >= Floor(q[Len(q)]) /\ codelen <= codelen /\ Rxcip.seg <= codelen /\ "run" \in Modes
  BY <1>1, Here DEF Sound, Modes
<1>3. Stays(proc, q, codelen, top, codelen, Rxcip, "run")
  BY <1>1, <1>2, Here DEF Stays
<1>4. Sound(proc, top, live, codelen, Rxcip, "run")
  BY Here
<1> QED BY <1>3, <1>4, Settle DEF q

\* A setting was made, or made and found wrong.
LEMMA SetSound ==
    ASSUME FramesInv, mode = "run", NEW f, Reset(f), f.held = Running.held,
           \/ proc' = Update(proc, f) /\ UNCHANGED <<trapped, Rxcip, mode>>
           \/ Take(Rerror(Update(proc, f))),
           UNCHANGED <<top, live, codelen>>
    PROVE  /\ Sound(proc', top', live', codelen', Rxcip', mode')
           /\ trapped' \in Conditions \cup {"", "SYNTAX"}
<1> DEFINE q == Update(proc, f)
<1>1. Sound(q, top, live, codelen, Rxcip, "run") /\ q \in Table
  BY ResetSound, ResetTable
<1> HIDE DEF q
<1>2. trapped \in Conditions \cup {"", "SYNTAX"}
  BY DEF FramesInv, Scalars
<1>3. CASE proc' = q /\ UNCHANGED <<trapped, Rxcip, mode>>
  BY <1>1, <1>2, <1>3
<1>4. CASE Take(Rerror(q))
  <2>1. PICK o : Outcome(q, o) /\ Take(o)
    BY <1>1, <1>2, <1>4, RerrorOutcome
  <2>2. top \in -1..STCK_SIZE /\ codelen \in 0..MaxCode /\ codelen <= codelen
    BY Here
  <2>3. Sound(o.proc, top, live, codelen, Main, o.mode)
    BY <1>1, <2>1, <2>2, TakeSound
  <2> QED BY <2>1, <2>3 DEF Take, Outcome
<1> QED BY <1>3, <1>4 DEF q

LEMMA TraceSetReset ==
    ASSUME FramesInv, NEW a \in [toggle : BOOLEAN, letter : Letters \cup {"bad"}]
    PROVE  /\ Reset(TraceSet(Running, a)) /\ TraceSet(Running, a).held = Running.held
           /\ TraceSet(Running, a).trace = IF a.letter = "bad" THEN Running.trace ELSE a.letter
<1>1. Running \in FrameType
  BY Here
<1>2. Running.trace \in Letters /\ Running.interactive \in BOOLEAN
  BY <1>1 DEF FrameType
<1> DEFINE x == IF a.letter = "bad" THEN Running.trace ELSE a.letter
           y == IF a.letter = "O" THEN FALSE
                ELSE IF a.toggle THEN ~ Running.interactive ELSE Running.interactive
<1>3. x \in Letters /\ y \in BOOLEAN
  BY <1>2
<1>4. TraceSet(Running, a) = [Running EXCEPT !.interactive = y, !.trace = x]
  BY DEF TraceSet
<1> HIDE DEF x, y
<1>5. [Running EXCEPT !.interactive = y, !.trace = x] \in FrameType
  BY <1>1, <1>3, SettingTypes
<1>6. [Running EXCEPT !.interactive = y, !.trace = x].trace = x
  BY <1>1 DEF FrameType
<1> QED BY <1>1, <1>4, <1>5, <1>6 DEF Reset, FrameType, x

LEMMA TraceInv == FramesInv /\ Trace => FramesInv'
<1> SUFFICES ASSUME FramesInv, Trace PROVE FramesInv'
  OBVIOUS
<1>1. PICK a \in TraceArgs :
        IF a.letter = "bad"
        THEN Take(Rerror(Update(proc, TraceSet(Running, a)))) /\ tracing' = tracing
        ELSE /\ proc' = Update(proc, TraceSet(Running, a))
             /\ tracing' = Loud(a.letter)
             /\ UNCHANGED <<trapped, Rxcip, mode>>
  BY DEF Trace
<1>2. a \in [toggle : BOOLEAN, letter : Letters \cup {"bad"}]
  BY FrameConstants
<1>3. /\ mode = "run" /\ Scalars
      /\ UNCHANGED <<top, heap, live, lNumericDigits, traceflag, elapsed, codelen>>
  BY DEF Trace, Idle, FramesInv
<1>4. Reset(TraceSet(Running, a)) /\ TraceSet(Running, a).held = Running.held
  BY <1>2, TraceSetReset
<1>5. tracing' \in BOOLEAN
  BY <1>1, <1>3 DEF Scalars, Loud
<1>6. \/ /\ proc' = Update(proc, TraceSet(Running, a))
         /\ UNCHANGED <<trapped, Rxcip, mode>>
      \/ Take(Rerror(Update(proc, TraceSet(Running, a))))
  BY <1>1
<1>7. PICK f : /\ Reset(f) /\ f.held = Running.held
               /\ \/ proc' = Update(proc, f) /\ UNCHANGED <<trapped, Rxcip, mode>>
                  \/ Take(Rerror(Update(proc, f)))
  BY <1>4, <1>6
<1>8. Sound(proc', top', live', codelen', Rxcip', mode')
      /\ trapped' \in Conditions \cup {"", "SYNTAX"}
  BY <1>3, <1>7, SetSound
<1> QED BY <1>3, <1>5, <1>8 DEF FramesInv, Scalars

LEMMA TracePollInv == FramesInv /\ TracePoll => FramesInv'
<1> SUFFICES ASSUME FramesInv, TracePoll PROVE FramesInv'
  OBVIOUS
<1> DEFINE a == [toggle |-> traceflag', letter |-> IF traceflag' THEN "A" ELSE "O"]
<1>1. /\ mode = "run" /\ Scalars
      /\ UNCHANGED <<top, heap, live, lNumericDigits, trapped, elapsed, codelen, Rxcip, mode>>
      /\ tracing' = traceflag' /\ proc' = Update(proc, TraceSet(Running, a))
  BY DEF TracePoll, FramesInv
<1>2. traceflag' \in BOOLEAN
  BY FrameConstants DEF TracePoll
<1>3. a \in [toggle : BOOLEAN, letter : Letters \cup {"bad"}]
  BY <1>2 DEF Letters
<1> HIDE DEF a
<1>4. Reset(TraceSet(Running, a)) /\ TraceSet(Running, a).held = Running.held
  BY <1>3, TraceSetReset
<1>5. PICK f : Reset(f) /\ f.held = Running.held /\ proc' = Update(proc, f)
  BY <1>1, <1>4
<1>6. Sound(proc', top', live', codelen', Rxcip', mode')
  BY <1>1, <1>5, SetSound
<1> QED BY <1>1, <1>2, <1>6 DEF FramesInv, Scalars

LEMMA NumericReset ==
    ASSUME FramesInv, NEW n \in Nat
    PROVE  LET f == [Running EXCEPT !.digits = n]
               g == [Running EXCEPT !.fuzz = n]
           IN  Reset(f) /\ Reset(g) /\ f.held = Running.held /\ g.held = Running.held
<1>1. Running \in FrameType
  BY Here
<1>2. [Running EXCEPT !.digits = n] \in FrameType /\ [Running EXCEPT !.fuzz = n] \in FrameType
  BY <1>1, SettingTypes
<1> QED BY <1>1, <1>2 DEF Reset, FrameType

LEMMA NumericInv == FramesInv /\ (Digits \/ Fuzz) => FramesInv'
<1> SUFFICES ASSUME FramesInv, Digits \/ Fuzz PROVE FramesInv'
  OBVIOUS
<1>1. /\ mode = "run" /\ Scalars
      /\ UNCHANGED <<top, heap, live, tracing, traceflag, elapsed, codelen>>
  BY DEF Digits, Fuzz, Idle, FramesInv
<1>2. lNumericDigits' \in Nat
  <2>1. CASE Digits
    BY <2>1, FrameConstants DEF Digits, Min2
  <2>2. CASE Fuzz
    BY <1>1, <2>2 DEF Fuzz, Scalars
  <2> QED BY <2>1, <2>2
<1>3. \E f : Reset(f) /\ f.held = Running.held /\ Numeric(f)
  <2>1. CASE Digits
    <3>1. PICK n \in DigitValues \cup {LMaxDigits} : Numeric([Running EXCEPT !.digits = n])
      BY <2>1 DEF Digits
    <3>2. n \in Nat
      BY FrameConstants
    <3> QED BY <3>1, <3>2, NumericReset
  <2>2. CASE Fuzz
    <3>1. PICK n \in FuzzValues \cup {0} : Numeric([Running EXCEPT !.fuzz = n])
      BY <2>2 DEF Fuzz
    <3>2. n \in Nat
      BY FrameConstants
    <3> QED BY <3>1, <3>2, NumericReset
  <2> QED BY <2>1, <2>2
<1>4. PICK f : Reset(f) /\ f.held = Running.held /\ Numeric(f)
  BY <1>3
<1>5. \/ proc' = Update(proc, f) /\ UNCHANGED <<trapped, Rxcip, mode>>
      \/ Take(Rerror(Update(proc, f)))
  BY <1>4 DEF Numeric
<1>6. Sound(proc', top', live', codelen', Rxcip', mode')
      /\ trapped' \in Conditions \cup {"", "SYNTAX"}
  BY <1>1, <1>4, <1>5, SetSound
<1> QED BY <1>1, <1>2, <1>6 DEF FramesInv, Scalars

\* NUMERIC FORM and SIGNAL ON or OFF.
LEMMA SetReset ==
    ASSUME FramesInv, NEW f \in Form \cup SignalOn \cup SignalOff
    PROVE  Reset(f) /\ f.held = Running.held /\ f.trace = Running.trace
<1> DEFINE r == Running
<1>1. r \in FrameType
  BY Here
<1> HIDE DEF r
<1>2. CASE f \in Form
  <2>1. PICK n \in Forms : f = [r EXCEPT !.form = n]
    BY <1>2 DEF Form, r
  <2>2. f \in FrameType
    BY <1>1, <2>1, SettingTypes
  <2> QED BY <1>1, <2>1, <2>2 DEF Reset, FrameType, r
<1>3. CASE f \in SignalOff
  <2>1. PICK c \in Conditions : f = [r EXCEPT !.condition = @ \ {c}]
    BY <1>3 DEF SignalOff, r
  <2>2. f = [r EXCEPT !.condition = r.condition \ {c}] /\ r.condition \ {c} \in SUBSET Conditions
    BY <1>1, <2>1 DEF FrameType
  <2>3. f \in FrameType
    BY <1>1, <2>2, SettingTypes
  <2> QED BY <1>1, <2>2, <2>3 DEF Reset, FrameType, r
<1>4. CASE f \in SignalOn
  <2>1. PICK c \in Conditions :
          f \in {[r EXCEPT !.condition = @ \cup {c}, !.lbl[c] = l] :
                     l \in {c} \cup (Labels \ Conditions)}
    BY <1>4 DEF SignalOn, r
  <2>2. PICK l \in {c} \cup (Labels \ Conditions) :
          f = [r EXCEPT !.condition = @ \cup {c}, !.lbl[c] = l]
    BY <2>1
  <2>3. l \in Labels /\ c \in Conditions
    BY FrameConstants
  <2> DEFINE conds == r.condition \cup {c}
             lbls  == [r.lbl EXCEPT ![c] = l]
  <2>4. conds \in SUBSET Conditions /\ lbls \in [Conditions -> Labels]
    BY <1>1, <2>3 DEF FrameType
  <2>5. f = [r EXCEPT !.condition = conds, !.lbl = lbls]
    BY <2>2
  <2> HIDE DEF conds, lbls
  <2>6. f \in FrameType
    BY <1>1, <2>4, <2>5 DEF FrameType
  <2> QED BY <1>1, <2>5, <2>6 DEF Reset, FrameType, r
<1> QED BY <1>2, <1>3, <1>4

LEMMA SetInv == FramesInv /\ Set => FramesInv'
<1> SUFFICES ASSUME FramesInv, Set PROVE FramesInv'
  OBVIOUS
<1>1. /\ mode = "run" /\ Scalars
      /\ UNCHANGED <<top, heap, live, lNumericDigits, tracing, traceflag, trapped,
                     elapsed, codelen, Rxcip, mode>>
  BY DEF Set, Idle, FramesInv
<1>2. PICK f \in Form \cup SignalOn \cup SignalOff : proc' = Update(proc, f)
  BY DEF Set
<1>3. Reset(f) /\ f.held = Running.held
  BY SetReset
<1>4. Sound(proc', top', live', codelen', Rxcip', mode')
  BY <1>1, <1>2, <1>3, SetSound
<1> QED BY <1>1, <1>4 DEF FramesInv, Scalars

LEMMA ResetClockInv == FramesInv /\ ResetClock => FramesInv'
<1> SUFFICES ASSUME FramesInv, ResetClock PROVE FramesInv'
  OBVIOUS
<1>1. mode = "run" /\ mode' = mode /\ top' \in -1..STCK_SIZE /\ top' >= Floor(Running)
      /\ UNCHANGED <<proc, live, codelen, Rxcip>>
  BY Here DEF ResetClock, Idle
<1>2. Sound(proc', top', live', codelen', Rxcip', mode')
  BY <1>1, StillSound DEF Modes
<1>3. elapsed \in 0..MaxResets /\ MaxResets \in Nat
  BY FrameConstants DEF FramesInv, Scalars
<1>4. elapsed' \in 0..MaxResets
  BY <1>3 DEF ResetClock
<1> QED BY <1>2, <1>4 DEF ResetClock, FramesInv, Scalars

-----------------------------------------------------------------------------
(* Jumps and the ends of activations.                                      *)

\* Jumping to a label, and a trap that has arrived, clear the stack.
LEMMA Unhold ==
    ASSUME FramesInv, mode \in {"run", "trap"}
    PROVE  LET f == [Running EXCEPT !.held = 0]
               q == Update(proc, f)
           IN  /\ Sound(q, Running.stacktop, live, codelen, Main, "run")
               /\ Running.stacktop \in -1..STCK_SIZE /\ f.trace = Running.trace
               /\ f \in FrameType
<1> DEFINE f == [Running EXCEPT !.held = 0]
           q == Update(proc, f)
<1>1. Running \in FrameType
  BY Here
<1>2. f \in FrameType
  BY <1>1, SettingTypes
<1>3. Reset(f) /\ f.trace = Running.trace
  BY <1>1, <1>2 DEF Reset, FrameType
<1>4. /\ q \in Table /\ Settled(proc, q) /\ Len(q) = rx /\ q[rx] = f
      /\ Floor(f) <= Running.stacktop
  BY <1>3, ResetTable
<1>5. Running.stacktop \in -1..STCK_SIZE /\ Running.stacktop \in Int /\ Floor(f) \in Int
  BY <1>1, <1>2, FrameInts DEF FrameType
<1> HIDE DEF q, f
<1>6. Running.stacktop >= Floor(q[Len(q)])
  BY <1>4, <1>5
<1>7. Main \in Places /\ Main.seg <= codelen /\ codelen <= codelen
  BY MainPlace, Here
<1>8. Stays(proc, q, codelen, Running.stacktop, codelen, Main, "run")
  BY <1>4, <1>5, <1>6, <1>7, Here DEF Stays, Modes
<1>9. Sound(q, Running.stacktop, live, codelen, Main, "run")
  BY <1>8, Here, Settle
<1> QED BY <1>2, <1>3, <1>5, <1>9 DEF q, f

LEMMA SignalInv == FramesInv /\ Signal => FramesInv'
<1> SUFFICES ASSUME FramesInv, Signal PROVE FramesInv'
  OBVIOUS
<1>1. /\ mode = "run" /\ Scalars /\ top' = Running.stacktop
      /\ UNCHANGED <<heap, live, lNumericDigits, tracing, traceflag, elapsed, codelen>>
      /\ \/ /\ proc' = Update(proc, [Running EXCEPT !.held = 0])
            /\ Rxcip' = Main /\ UNCHANGED <<trapped, mode>>
         \/ Take(Rerror(proc))
  BY DEF Signal, Idle, FramesInv
<1>2. top' \in -1..STCK_SIZE
  BY <1>1, Unhold
<1>3. CASE /\ proc' = Update(proc, [Running EXCEPT !.held = 0])
           /\ Rxcip' = Main /\ UNCHANGED <<trapped, mode>>
  <2>1. Sound(proc', top', live', codelen', Rxcip', mode')
    BY <1>1, <1>3, Unhold
  <2> QED BY <1>1, <1>3, <2>1 DEF FramesInv, Scalars
<1>4. CASE Take(Rerror(proc))
  <2>1. \E o : Outcome(proc, o) /\ Take(o)
    BY <1>1, <1>4, Here, RerrorOutcome DEF Scalars
  <2>2. codelen' \in 0..MaxCode /\ codelen <= codelen'
    BY <1>1, Here
  <2>3. Sound(proc', top', live', codelen', Rxcip', mode')
        /\ trapped' \in Conditions \cup {"", "SYNTAX"}
    BY <1>1, <1>2, <2>1, <2>2, TookSound
  <2> QED BY <1>1, <2>3 DEF FramesInv, Scalars
<1> QED BY <1>1, <1>3, <1>4

LEMMA ExitInv == FramesInv /\ (Exit \/ IExit) => FramesInv'
<1> SUFFICES ASSUME FramesInv, Exit \/ IExit PROVE FramesInv'
  OBVIOUS
<1>1. /\ mode = "run" /\ Scalars
      /\ UNCHANGED <<heap, live, lNumericDigits, tracing, traceflag, elapsed, codelen>>
      /\ \/ top' = -1 /\ mode' = "exit" /\ UNCHANGED <<proc, trapped, Rxcip>>
         \/ Take(Rerror(proc)) /\ top' = top
  BY DEF Exit, IExit, Idle, FramesInv
<1>2. CASE top' = -1 /\ mode' = "exit" /\ UNCHANGED <<proc, trapped, Rxcip>>
  <2>1. top' \in -1..STCK_SIZE
    BY <1>2, Here
  <2>2. Sound(proc', top', live', codelen', Rxcip', mode')
    BY <1>1, <1>2, <2>1, StillSound DEF Modes
  <2> QED BY <1>1, <1>2, <2>2 DEF FramesInv, Scalars
<1>3. CASE Take(Rerror(proc)) /\ top' = top
  <2>1. \E o : Outcome(proc, o) /\ Take(o)
    BY <1>1, <1>3, Here, RerrorOutcome DEF Scalars
  <2>2. codelen' \in 0..MaxCode /\ codelen <= codelen' /\ top' \in -1..STCK_SIZE
    BY <1>1, <1>3, Here
  <2>3. Sound(proc', top', live', codelen', Rxcip', mode')
        /\ trapped' \in Conditions \cup {"", "SYNTAX"}
    BY <1>1, <2>1, <2>2, TookSound
  <2> QED BY <1>1, <2>3 DEF FramesInv, Scalars
<1> QED BY <1>1, <1>2, <1>3

LEMMA RunExitInv == FramesInv /\ RunExit => FramesInv'
<1> SUFFICES ASSUME FramesInv, RunExit PROVE FramesInv'
  OBVIOUS
<1>1. Scalars /\ live' \subseteq EnvIds /\ mode' = "end"
      /\ UNCHANGED <<proc, top, heap, lNumericDigits, tracing, traceflag, trapped,
                     elapsed, codelen, Rxcip>>
  BY Here DEF RunExit, FramesInv
<1>2. Sound(proc, top, live', codelen, Rxcip, "end")
  BY <1>1, Here DEF Sound, Modes, Rooted
<1> QED BY <1>1, <1>2 DEF FramesInv, Scalars
\* Some routine is running: the topmost activation not made for a text, or the first.
LEMMA RoutineFacts ==
    ASSUME NEW p \in Table
    PROVE  /\ Routine(p) \in 1..Len(p)
           /\ Routine(p) = 1 \/ p[Routine(p)].calltype \notin Inner
           /\ \A j \in (Routine(p) + 1)..Len(p) : p[j].calltype \in Inner
<1> DEFINE n == Len(p)
           Outer(k) == k = 1 \/ p[k].calltype \notin Inner
           Depths == {m \in Nat : m < n /\ Outer(n - m)}
<1>1. n \in Nat /\ n >= 1
  BY TableFacts
<1>2. n - 1 \in Depths
  BY <1>1
<1>3. Depths \subseteq Nat /\ Depths # {}
  BY <1>2
<1> HIDE DEF Depths
<1>4. PICK m \in Depths : \A y \in Depths : <<y, m>> \notin OpToRel(<, Nat)
  BY <1>3, WFMin, NatLessThanWellFounded, Zenon
<1>5. \A y \in Depths : ~ (y < m)
  BY <1>3, <1>4, Zenon DEF OpToRel
<1>6. m \in Nat /\ m < n /\ Outer(n - m)
  BY <1>4 DEF Depths
<1>7. ASSUME NEW j \in (n - m + 1)..n, ~ Outer(j) PROVE p[j].calltype \in Inner
  BY <1>7
<1>8. ASSUME NEW j \in (n - m + 1)..n, Outer(j) PROVE FALSE
  <2>1. n - j \in Nat /\ n - j < n /\ n - (n - j) = j /\ n - j < m
    BY <1>1, <1>6, <1>8
  <2>2. n - j \in Depths
    BY <1>8, <2>1 DEF Depths
  <2> QED BY <1>5, <2>1, <2>2
<1>9. \A j \in (n - m + 1)..n : p[j].calltype \in Inner
  BY <1>7, <1>8
<1>10. n - m \in 1..n
  BY <1>1, <1>6
<1>11. \E k \in 1..n : Outer(k) /\ \A j \in (k + 1)..n : p[j].calltype \in Inner
  BY <1>6, <1>9, <1>10
<1> QED BY <1>11 DEF Routine

LEMMA ReturnInv ==
    ASSUME FramesInv, NEW data, Return(data)
    PROVE  FramesInv'
<1> DEFINE r == Routine(proc)
<1>1. /\ mode = "run" /\ Scalars
      /\ UNCHANGED <<top, heap, live, lNumericDigits, tracing, traceflag, elapsed, codelen>>
      /\ \/ Take(Rerror(proc))
         \/ /\ mode' = (IF r = 1 THEN "exit" ELSE "return")
            /\ UNCHANGED <<proc, trapped, Rxcip>>
  BY DEF Return, Idle, FramesInv
<1>2. top' \in -1..STCK_SIZE /\ codelen' \in 0..MaxCode /\ codelen <= codelen'
      /\ top' >= Floor(Running)
  BY <1>1, Here
<1>3. CASE Take(Rerror(proc))
  <2>1. \E o : Outcome(proc, o) /\ Take(o)
    BY <1>1, <1>3, Here, RerrorOutcome DEF Scalars
  <2>2. Sound(proc', top', live', codelen', Rxcip', mode')
        /\ trapped' \in Conditions \cup {"", "SYNTAX"}
    BY <1>1, <1>2, <2>1, TookSound
  <2> QED BY <1>1, <2>2 DEF FramesInv, Scalars
<1>4. CASE mode' = (IF r = 1 THEN "exit" ELSE "return") /\ UNCHANGED <<proc, trapped, Rxcip>>
  <2>1. r \in 1..rx /\ (r = 1 \/ proc[r].calltype \notin Inner) /\ rx \in Nat
    BY Here, RoutineFacts DEF rx
  <2> HIDE DEF r
  <2>2. Rooted(proc, "run")
    BY <1>1, Here DEF Sound
  <2>3. r # 1 => r \in 2..rx
    BY <2>1
  <2>4. mode' = "return" => Rooted(proc, mode')
    BY <1>4, <2>1, <2>2, <2>3 DEF Rooted, rx
  <2>5. mode' \in Modes /\ mode' # "trap"
    BY <1>4 DEF Modes
  <2>6. Sound(proc', top', live', codelen', Rxcip', mode')
    BY <1>1, <1>2, <1>4, <2>4, <2>5, StillSound
  <2> QED BY <1>1, <1>4, <2>6 DEF FramesInv, Scalars
<1> QED BY <1>1, <1>3, <1>4
-----------------------------------------------------------------------------
(* ADDRESS.                                                                *)

LEMMA FreshFacts ==
    ASSUME \E e, a \in FreeEnvs : e # a
    PROVE  /\ FreshEnv[1] \in FreeEnvs /\ FreshEnv[2] \in FreeEnvs
           /\ FreshEnv[1] # FreshEnv[2]
<1>1. PICK e \in FreeEnvs, a \in FreeEnvs : e # a
  OBVIOUS
<1>2. <<e, a>> \in FreeEnvs \X FreeEnvs /\ <<e, a>>[1] # <<e, a>>[2]
  BY <1>1
<1>3. \E t \in FreeEnvs \X FreeEnvs : t[1] # t[2]
  BY <1>2
<1>4. FreshEnv \in FreeEnvs \X FreeEnvs /\ FreshEnv[1] # FreshEnv[2]
  BY <1>3 DEF FreshEnv
<1> QED BY <1>4

\* The topmost activation of p gets another environment pair: its own for its
\* own, or an unused one.
LEMMA UpdatePaired ==
    ASSUME NEW p \in Table, NEW f \in FrameType, NEW lv, NEW lv2, Paired(p, lv), lv \subseteq lv2,
           {f.env, f.alt} \subseteq lv2, f.env # f.alt,
           \/ f.env = p[Len(p)].env /\ f.alt = p[Len(p)].alt
           \/ \A k \in 1..Len(p) : {f.env, f.alt} \cap Pair(p, k) = {}
    PROVE  Paired(Update(p, f), lv2)
<1> DEFINE q == Update(p, f)
           n == Len(p)
<1>1. /\ q \in Table /\ Len(q) = n /\ n \in Nat /\ n \in 1..n
      /\ \A k \in 1..n : q[k] = IF k = n THEN f ELSE p[k]
  BY UpdateFacts, TableFacts
<1> HIDE DEF q
<1>2. Pair(q, n) = {f.env, f.alt} /\ \A k \in 1..(n - 1) : Pair(q, k) = Pair(p, k)
  BY <1>1 DEF Pair
<1>3. ASSUME NEW k \in 1..n
      PROVE  /\ Pair(q, k) \subseteq lv2 /\ q[k].env # q[k].alt
             /\ k > 1 => (q[k].env = q[k - 1].env <=> q[k].alt = q[k - 1].alt)
             /\ k > 1 /\ q[k].env # q[k - 1].env =>
                  \A j \in 1..(k - 1) : Pair(q, k) \cap Pair(q, j) = {}
  <2>1. \A j \in 1..(k - 1) : j \in 1..(n - 1) /\ j \in 1..n /\ q[j] = p[j]
    BY <1>1
  <2>2. CASE k # n
    <3>1. /\ k \in 1..(n - 1) /\ q[k] = p[k] /\ (k > 1 => q[k - 1] = p[k - 1])
          /\ Pair(q, k) = Pair(p, k) /\ \A j \in 1..(k - 1) : Pair(q, j) = Pair(p, j)
      BY <1>1, <1>2, <2>1, <2>2
    <3> QED BY <3>1 DEF Paired
  <2>3. CASE k = n /\ f.env = p[n].env /\ f.alt = p[n].alt
    <3>1. /\ Pair(q, k) = Pair(p, k) /\ (k > 1 => q[k - 1] = p[k - 1])
          /\ q[k].env = p[k].env /\ q[k].alt = p[k].alt
          /\ \A j \in 1..(k - 1) : Pair(q, j) = Pair(p, j)
      BY <1>1, <1>2, <2>1, <2>3 DEF Pair
    <3> QED BY <3>1 DEF Paired
  <2>4. CASE k = n /\ \A i \in 1..n : {f.env, f.alt} \cap Pair(p, i) = {}
    <3>1. \A j \in 1..(k - 1) : /\ Pair(q, k) \cap Pair(q, j) = {}
                                /\ Pair(q, k) = {f.env, f.alt}
      BY <1>2, <2>1, <2>4
    <3>2. k > 1 => k - 1 \in 1..(k - 1)
      BY <1>1
    <3>3. k > 1 => f.env # q[k - 1].env /\ f.alt # q[k - 1].alt
      BY <3>1, <3>2 DEF Pair
    <3>4. q[k] = f /\ Pair(q, k) = {f.env, f.alt}
      BY <1>1, <1>2, <2>4
    <3> QED BY <3>1, <3>3, <3>4
  <2> QED BY <2>2, <2>3, <2>4
<1> QED BY <1>1, <1>3 DEF Paired, q

LEMMA AddressInv ==
    ASSUME FramesInv, Address
    PROVE  /\ FramesInv'
           /\ \E f \in FrameType :
                /\ proc' = Update(proc, f)
                /\ f.calltype = Running.calltype /\ f.trace = Running.trace
                /\ f.stack = Running.stack /\ Floor(f) = Floor(Running)
<1> DEFINE r == Running
           shared == SharesEnv(rx)
           alt == IF shared THEN FreshEnv[1] ELSE r.alt
           env == IF shared THEN FreshEnv[2] ELSE r.env
           f == [r EXCEPT !.alt = alt, !.env = env]
           q == Update(proc, f)
           lv2 == live \cup {alt, env}
<1>1. /\ mode = "run" /\ Scalars
      /\ SharesEnv(rx) \/ SharesAlt(rx) => \E e, a \in FreeEnvs : e # a
      /\ UNCHANGED <<top, lNumericDigits, tracing, traceflag, trapped, elapsed,
                     codelen, Rxcip, mode>>
  BY DEF Address, Idle, FramesInv
<1>2. Paired(proc, live)
  BY <1>1, Here DEF Sound
<1>3. SharesEnv(rx) <=> SharesAlt(rx)
  BY <1>2, Here DEF Paired, SharesEnv, SharesAlt, Below, rx
<1>4. PICK n \in EnvNames \cup {heap[r.alt]} : SetEnv(r, n)
  BY DEF Address
<1>5. r \in FrameType /\ r.env \in EnvIds /\ r.alt \in EnvIds
  BY Here DEF FrameType
<1>6. r = proc[rx] /\ rx \in 1..rx /\ proc \in Table
  BY Here DEF Running
<1>7. r.env # r.alt /\ {r.env, r.alt} \subseteq live
  BY <1>2, <1>6 DEF Paired, Pair, rx
<1>8. proc' = q /\ heap' = [heap EXCEPT ![alt] = heap[r.env], ![env] = n] /\ live' = lv2
  BY <1>3, <1>4 DEF SetEnv
<1>9. shared => /\ alt \in FreeEnvs /\ env \in FreeEnvs /\ alt # env
  BY <1>1, FreshFacts
<1> HIDE DEF r, shared
<1>10. /\ alt \in EnvIds /\ env \in EnvIds /\ env # alt
       /\ \/ env = r.env /\ alt = r.alt
          \/ \A k \in 1..rx : {env, alt} \cap Pair(proc, k) = {}
  <2>1. CASE shared
    <3>1. alt \in FreeEnvs /\ env \in FreeEnvs /\ alt # env
      BY <1>9, <2>1
    <3>2. \A k \in 1..rx : {env, alt} \cap Pair(proc, k) = {}
      BY <3>1 DEF FreeEnvs, Pair
    <3> QED BY <3>1, <3>2 DEF FreeEnvs
  <2>2. CASE ~ shared
    BY <1>5, <1>7, <2>2
  <2> QED BY <2>1, <2>2
<1> HIDE DEF alt, env
<1>11. f \in FrameType
  BY <1>5, <1>10 DEF FrameType
<1>12. /\ f.env = env /\ f.alt = alt /\ f.calltype = r.calltype /\ f.ip = r.ip
       /\ f.codelen = r.codelen /\ f.stack = r.stack /\ f.stacktop = r.stacktop
       /\ f.held = r.held /\ f.trace = r.trace
  BY <1>5 DEF FrameType
<1> HIDE DEF f
<1>13. Floor(f) = Floor(r) /\ Floor(f) \in Int
  BY <1>11, <1>12, FrameInts DEF Floor
<1>14. Paired(q, lv2)
  BY <1>2, <1>6, <1>10, <1>11, <1>12, UpdatePaired DEF rx
<1>15. /\ q \in Table /\ Len(q) = rx /\ rx \in Nat /\ \A k \in 1..rx : q[k] = IF k = rx THEN f ELSE proc[k]
  BY <1>6, <1>11, UpdateFacts, TableFacts DEF rx
<1>16. Texted(proc, q)
  BY <1>6, <1>12, <1>15 DEF Texted, rx
<1>17. Floored(proc, q)
  BY <1>6, <1>12, <1>13, <1>15 DEF Floored, rx
<1> HIDE DEF q, lv2
<1>18. /\ Layered(proc, codelen) /\ Stacked(proc) /\ Rooted(proc, "run") /\ codelen <= codelen
       /\ Rxcip.seg <= codelen
  BY <1>1, Here DEF Sound
<1>19. Layered(q, codelen) /\ Rooted(q, "run") /\ Stacked(q)
  BY <1>15, <1>16, <1>17, <1>18, Here, TextedKeeps, FlooredKeeps
<1>20. lv2 \subseteq EnvIds /\ top >= Floor(q[Len(q)])
  BY <1>1, <1>6, <1>10, <1>13, <1>15, Here DEF lv2, r
<1>21. Sound(q, top, lv2, codelen, Rxcip, "run")
  BY <1>14, <1>15, <1>18, <1>19, <1>20, Here DEF Sound, Modes
<1>22. heap' \in [EnvIds -> EnvNames]
  <2>1. heap \in [EnvIds -> EnvNames]
    BY <1>1 DEF Scalars
  <2>2. n \in EnvNames /\ heap[r.env] \in EnvNames
    BY <1>5, <2>1
  <2> QED BY <1>8, <2>1, <2>2
<1>23. FramesInv'
  BY <1>1, <1>8, <1>21, <1>22 DEF FramesInv, Scalars
<1> QED BY <1>8, <1>11, <1>12, <1>13, <1>23 DEF q, r
-----------------------------------------------------------------------------
(* Texts and calls.                                                        *)

\* There is room for a text above g, and a place to go on at.
Room(g, at, t, held, t2, at2) ==
    /\ codelen \in 0..MaxCode /\ codelen < MaxCode
    /\ at \in Places /\ at.seg <= codelen /\ at2 \in Places /\ at2.seg <= codelen + 1
    /\ t \in 0..STCK_SIZE /\ held \in {0, 2}
    /\ t - 1 >= Floor(g) /\ t - held >= Floor(g)
    /\ t2 \in -1..STCK_SIZE /\ t2 >= t - held

\* q is p with an activation for a text on top that fits.
TextOn(q, p, type, t2, at2) ==
    \E f : /\ q = Append(p, f) /\ Fits(f, p[Len(p)], codelen, t2, codelen + 1, at2)
           /\ f.calltype = type /\ f.trace = p[Len(p)].trace

LEMMA TextFits ==
    ASSUME NEW p \in Table, NEW type \in Inner, NEW at, NEW t, NEW held, NEW t2, NEW at2,
           Room(p[Len(p)], at, t, held, t2, at2)
    PROVE  TextOn(InitInterStr(p, type, at, t, held), p, type, t2, at2)
<1> DEFINE g == p[Len(p)]
           f == [g EXCEPT !.calltype = type, !.ip = at, !.codelen = codelen,
                          !.stack = t - 1, !.stacktop = t, !.held = held]
<1>1. g \in FrameType /\ Floor(g) \in Int
  BY TableFacts, FrameInts
<1>2. /\ STCK_SIZE \in Nat /\ MaxCode \in Nat /\ codelen \in Nat /\ codelen + 1 \in 0..MaxCode
      /\ t - 1 \in -1..STCK_SIZE /\ t \in -1..STCK_SIZE /\ codelen \in 0..(MaxCode + 1)
      /\ at \in Places /\ held \in {0, 2}
  BY FrameConstants DEF Room
<1>3. Room(g, at, t, held, t2, at2)
  OBVIOUS
<1>4. InitInterStr(p, type, at, t, held) = Append(p, f)
  BY DEF InitInterStr
<1> HIDE DEF g
<1>5. f \in FrameType
  BY <1>1, <1>2 DEF FrameType
<1>6. /\ f.calltype = type /\ f.ip = at /\ f.codelen = codelen /\ f.stack = t - 1
      /\ f.stacktop = t /\ f.held = held /\ f.env = g.env /\ f.alt = g.alt
      /\ f.trace = g.trace
  BY <1>1 DEF FrameType
<1> HIDE DEF f
<1>7. Floor(f) = t - held
  BY <1>6 DEF Floor
<1>8. Fits(f, g, codelen, t2, codelen + 1, at2)
  BY <1>2, <1>3, <1>5, <1>6, <1>7 DEF Fits, Room
<1> QED BY <1>4, <1>6, <1>8 DEF TextOn, g

LEMMA ObeySound ==
    ASSUME NEW p, NEW t0, NEW at0, Sound(p, t0, live, codelen, at0, "run"), mode = "run",
           NEW at \in Places, at.seg <= codelen, NEW t \in -1..STCK_SIZE,
           NEW held \in {0, 2}, t >= Floor(p[Len(p)]), t + 1 - held >= Floor(p[Len(p)]),
           ObeyLine(p, at, t, held)
    PROVE  /\ Sound(proc', top', live, codelen', Rxcip', mode')
           /\ TextOn(proc', p, "INTERACTIVE", top', Rxcip')
<1>1. /\ Len(p) < MaxProc /\ t < STCK_SIZE /\ codelen < MaxCode /\ codelen' = codelen + 1
      /\ proc' = InitInterStr(p, "INTERACTIVE", at, t + 1, held)
      /\ top' = t + 1 - held /\ Rxcip' = [seg |-> codelen + 1, next |-> "any"]
      /\ mode' = "run"
  BY DEF ObeyLine, Appended
<1>2. p \in Table /\ codelen \in 0..MaxCode /\ STCK_SIZE \in Nat /\ MaxCode \in Nat
      /\ Stacked(p)
  BY FrameConstants DEF Sound
<1>3. Rxcip' \in Places /\ Rxcip'.seg <= codelen + 1
  BY <1>1, <1>2 DEF Places
<1>4. Floor(p[Len(p)]) >= -1 /\ Floor(p[Len(p)]) \in Int
  BY <1>2, TableFacts, FrameInts DEF Stacked
<1> DEFINE u == t + 1
<1>5. /\ u \in 0..STCK_SIZE /\ u - 1 >= Floor(p[Len(p)]) /\ u - held >= Floor(p[Len(p)])
      /\ top' >= u - held
  BY <1>1, <1>2, <1>4
<1>6. top' \in -1..STCK_SIZE
  BY <1>1, <1>2, <1>4
<1>7. proc' = InitInterStr(p, "INTERACTIVE", at, u, held) /\ "INTERACTIVE" \in Inner
  BY <1>1 DEF Inner
<1> HIDE DEF u
<1>7a. Room(p[Len(p)], at, u, held, top', Rxcip')
  BY <1>1, <1>2, <1>3, <1>5, <1>6 DEF Room
<1>7b. p \in Table /\ "INTERACTIVE" \in Inner
  BY <1>2, <1>7
<1>8. TextOn(proc', p, "INTERACTIVE", top', Rxcip')
  BY <1>7, <1>7a, <1>7b, TextFits
<1>8a. PICK f : /\ proc' = Append(p, f)
                /\ Fits(f, p[Len(p)], codelen, top', codelen + 1, Rxcip')
  BY <1>8 DEF TextOn
<1>9. Sound(Append(p, f), top', live, codelen + 1, Rxcip', "run")
  BY <1>1, <1>8a, Grow
<1> QED BY <1>1, <1>8, <1>8a, <1>9

LEMMA RefuseSound ==
    ASSUME NEW p, NEW t0, NEW at0, Sound(p, t0, live, codelen, at0, "run"),
           trapped \in Conditions \cup {"", "SYNTAX"},
           NEW t \in -1..STCK_SIZE, RefuseLine(p, t)
    PROVE  /\ Sound(proc', top', live, codelen', Rxcip', mode')
           /\ trapped' \in Conditions \cup {"", "SYNTAX"}
<1>1. p \in Table /\ codelen \in 0..MaxCode /\ MaxCode \in Nat /\ STCK_SIZE \in Nat
  BY FrameConstants DEF Sound
<1>1a. t < STCK_SIZE /\ top' = t + 1 /\ codelen < MaxCode /\ codelen' = codelen + 1
  BY DEF RefuseLine, Appended
<1>1b. t \in -1..STCK_SIZE
  OBVIOUS
<1>2. top' \in -1..STCK_SIZE /\ codelen' \in 0..MaxCode /\ codelen <= codelen'
  BY ONLY <1>1, <1>1a, <1>1b
<1>3. PICK o : Outcome(p, o) /\ Take(o)
  BY <1>1, RerrorOutcome DEF RefuseLine
<1>4. Sound(o.proc, top', live, codelen', Main, o.mode)
  BY <1>2, <1>3, TakeSound
<1> QED BY <1>3, <1>4 DEF Take, Outcome

LEMMA InteractiveSound ==
    ASSUME NEW p, NEW t0, NEW at0, Sound(p, t0, live, codelen, at0, "run"), mode = "run",
           trapped \in Conditions \cup {"", "SYNTAX"},
           NEW at \in Places, at.seg <= codelen, NEW t \in -1..STCK_SIZE,
           t >= Floor(p[Len(p)]), TraceInteractive(p, at, t)
    PROVE  /\ Sound(proc', top', live, codelen', Rxcip', mode')
           /\ trapped' \in Conditions \cup {"", "SYNTAX"} /\ tracing' = FALSE
<1>1. CASE ObeyLine(p, at, t, 0)
  <2>1. p \in Table /\ STCK_SIZE \in Nat
    BY FrameConstants DEF Sound
  <2>2. Floor(p[Len(p)]) \in Int
    BY <2>1, TableFacts, FrameInts
  <2>2a. t \in -1..STCK_SIZE /\ t >= Floor(p[Len(p)])
    OBVIOUS
  <2>3. t + 1 - 0 >= Floor(p[Len(p)]) /\ 0 \in {0, 2}
    BY ONLY <2>1, <2>2, <2>2a
  <2> DEFINE h == 0
  <2>4. h \in {0, 2} /\ t + 1 - h >= Floor(p[Len(p)]) /\ ObeyLine(p, at, t, h)
    BY <1>1, <2>3
  <2> HIDE DEF h
  <2>5. Sound(proc', top', live, codelen', Rxcip', mode')
    BY <2>4, ObeySound
  <2> QED BY <1>1, <2>5 DEF ObeyLine
<1>2. CASE RefuseLine(p, t)
  BY <1>2, RefuseSound DEF RefuseLine
<1> QED BY <1>1, <1>2 DEF TraceInteractive

LEMMA NewClauseInv == FramesInv /\ NewClause => FramesInv'
<1> SUFFICES ASSUME FramesInv, NewClause PROVE FramesInv'
  OBVIOUS
<1>1. mode = "run" /\ Scalars /\ UNCHANGED <<heap, live, lNumericDigits, traceflag, elapsed>>
  BY DEF NewClause, FramesInv
<1>2. CASE TraceInteractive(proc, Rxcip, top)
  <2>1. /\ Sound(proc, top, live, codelen, Rxcip, "run") /\ Rxcip \in Places
        /\ Rxcip.seg <= codelen /\ top \in -1..STCK_SIZE /\ top >= Floor(proc[Len(proc)])
    BY <1>1, Here DEF Sound
  <2>2. /\ Sound(proc', top', live, codelen', Rxcip', mode')
        /\ trapped' \in Conditions \cup {"", "SYNTAX"} /\ tracing' = FALSE
    BY <1>1, <1>2, <2>1, InteractiveSound DEF Scalars
  <2> QED BY <1>1, <2>2 DEF FramesInv, Scalars
<1>3. CASE /\ Rxcip' = [Rxcip EXCEPT !.next = "proc"]
           /\ UNCHANGED <<proc, top, tracing, trapped, codelen, mode>>
  <2>1. Rxcip' \in Places /\ Rxcip'.seg = Rxcip.seg
    BY <1>3, Here DEF Places
  <2>2. Sound(proc', top', live', codelen', Rxcip', mode')
    BY <1>1, <1>3, <2>1, Here DEF Sound
  <2> QED BY <1>1, <1>3, <2>2 DEF FramesInv, Scalars
<1> QED BY <1>2, <1>3 DEF NewClause

LEMMA InterpretInv == FramesInv /\ Interpret => FramesInv'
<1> SUFFICES ASSUME FramesInv, Interpret PROVE FramesInv'
  OBVIOUS
<1>1. /\ mode = "run" /\ Scalars /\ rx < MaxProc /\ top > Floor(Running)
      /\ codelen < MaxCode /\ codelen' = codelen + 1
      /\ UNCHANGED <<top, heap, live, lNumericDigits, tracing, traceflag, elapsed>>
  BY DEF Interpret, Idle, Appended, FramesInv
<1>2. codelen' \in 0..MaxCode /\ codelen <= codelen' /\ top' \in -1..STCK_SIZE
  BY <1>1, Here
<1>3. CASE /\ proc' = InitInterStr(proc, "INTERPRET", Rxcip, top, 0)
           /\ Rxcip' = [seg |-> codelen + 1, next |-> "any"]
           /\ UNCHANGED <<trapped, mode>>
  <2>1. top \in 0..STCK_SIZE /\ top - 1 >= Floor(Running) /\ top - 0 >= Floor(Running)
        /\ top >= top - 0
    BY <1>1, Here
  <2>2. Rxcip' \in Places /\ Rxcip'.seg <= codelen + 1 /\ Rxcip.seg <= codelen
    BY <1>2, <1>3, Here DEF Places, Sound
  <2>3. "INTERPRET" \in Inner /\ 0 \in {0, 2} /\ proc[Len(proc)] = Running
    BY DEF Inner, Running, rx
  <2>3a. Room(proc[Len(proc)], Rxcip, top, 0, top, Rxcip')
    BY <1>1, <2>1, <2>2, <2>3, Here DEF Room
  <2>3b. TextOn(proc', proc, "INTERPRET", top, Rxcip')
    BY <1>3, <2>3, <2>3a, Here, TextFits
  <2>4. PICK f : /\ proc' = Append(proc, f)
                 /\ Fits(f, proc[Len(proc)], codelen, top, codelen + 1, Rxcip')
    BY <2>3b DEF TextOn
  <2>5. Sound(proc, top, live, codelen, Rxcip, "run") /\ Len(proc) < MaxProc
    BY <1>1, Here DEF rx
  <2>6. Sound(Append(proc, f), top, live, codelen + 1, Rxcip', "run")
    BY <2>4, <2>5, Grow
  <2>7. Sound(proc', top', live', codelen', Rxcip', mode')
    BY <1>1, <1>3, <2>4, <2>6
  <2> QED BY <1>1, <1>3, <2>7 DEF FramesInv, Scalars
<1>4. CASE Take(CompileError(proc))
  <2>1. \E o : Outcome(proc, o) /\ Take(o)
    BY <1>1, <1>4, Here, RerrorOutcome DEF Scalars
  <2>2. Sound(proc', top', live', codelen', Rxcip', mode')
        /\ trapped' \in Conditions \cup {"", "SYNTAX"}
    BY <1>1, <1>2, <2>1, TookSound
  <2> QED BY <1>1, <2>2 DEF FramesInv, Scalars
<1> QED BY <1>3, <1>4 DEF Interpret
\* I_MakeArgs: the operands of the caller stay below those of the routine.
LEMMA ArgsSound ==
    ASSUME FramesInv, mode = "run", rx < MaxProc, NEW n \in Nat, top - n > Floor(Running),
           NEW type \in {"PROCEDURE", "FUNCTION"}
    PROVE  LET q == MakeArgs(type, n)
           IN  /\ Sound(q, top, live, codelen, Main, "run")
               /\ Len(q) = rx + 1 /\ Floor(q[Len(q)]) = top
               /\ q[Len(q)].trace = Running.trace
<1> DEFINE g == Running
           s == IF type = "FUNCTION" THEN top - n ELSE top - n - 1
           f == [g EXCEPT !.calltype = type, !.ip = Rxcip, !.held = 0,
                          !.stacktop = top, !.stack = s]
           q == MakeArgs(type, n)
<1>1. g \in FrameType /\ Floor(g) \in Int /\ Floor(g) >= -1 /\ top \in -1..STCK_SIZE
      /\ STCK_SIZE \in Nat /\ top - n > Floor(g)
  BY Here
<1>2. s \in Int /\ s >= Floor(g) /\ s \in -1..STCK_SIZE /\ top >= Floor(g)
  BY ONLY <1>1, n \in Nat
<1>3. q = Append(proc, f)
  BY DEF MakeArgs
<1> HIDE DEF g, s, q
<1>4. f \in FrameType
  BY <1>1, <1>2, Here DEF FrameType, Kinds
<1>5. /\ f.calltype = type /\ f.ip = Rxcip /\ f.codelen = g.codelen /\ f.stack = s
      /\ f.stacktop = top /\ f.held = 0 /\ f.env = g.env /\ f.alt = g.alt
      /\ f.trace = g.trace
  BY <1>1 DEF FrameType
<1> HIDE DEF f
<1>6. Floor(f) = top /\ type \notin Inner
  BY <1>1, <1>5 DEF Floor, Inner
<1>7. Sound(proc, top, live, codelen, Rxcip, "run") /\ Rxcip.seg <= codelen
  BY Here DEF Sound
<1>8. Main \in Places /\ Main.seg <= codelen /\ codelen <= codelen
  BY MainPlace, Here
<1>9. Fits(f, g, codelen, top, codelen, Main)
  BY <1>1, <1>2, <1>4, <1>5, <1>6, <1>7, <1>8, Here DEF Fits
<1>10. Sound(q, top, live, codelen, Main, "run")
  BY <1>3, <1>7, <1>9, Grow DEF g, Running, rx
<1>11. Len(q) = rx + 1 /\ q[Len(q)] = f
  BY <1>3, <1>4, Here, AppendFacts DEF rx
<1> QED BY <1>5, <1>6, <1>10, <1>11 DEF q, g

LEMMA CallInv ==
    ASSUME FramesInv, NEW type \in {"PROCEDURE", "FUNCTION"}, NEW n \in Arities,
           NEW isproc \in BOOLEAN, Call(type, n, isproc)
    PROVE  FramesInv'
<1> DEFINE q == MakeArgs(type, n)
<1>1. /\ mode = "run" /\ Scalars /\ rx < MaxProc /\ top - n > Floor(Running) /\ n \in Nat
      /\ UNCHANGED <<heap, live, lNumericDigits, traceflag, elapsed>>
  BY FrameConstants DEF Call, Idle, FramesInv
<1>2. Sound(q, top, live, codelen, Main, "run") /\ Floor(q[Len(q)]) = top
  BY <1>1, ArgsSound
<1> HIDE DEF q
<1>3. CASE proc' = q /\ Rxcip' = Main /\ UNCHANGED <<top, tracing, trapped, codelen, mode>>
  BY <1>1, <1>2, <1>3 DEF FramesInv, Scalars
<1>4. ASSUME NEW at, at = [Main EXCEPT !.next = IF isproc THEN "label" ELSE "any"],
             TraceInteractive(q, at, top)
      PROVE  FramesInv'
  <2>1. at \in Places /\ at.seg = 0
    BY <1>4, FrameConstants DEF Main, Places
  <2>2. at.seg <= codelen /\ top \in -1..STCK_SIZE /\ top >= Floor(q[Len(q)])
    BY <1>2, <2>1, Here
  <2>3. /\ Sound(proc', top', live, codelen', Rxcip', mode')
        /\ trapped' \in Conditions \cup {"", "SYNTAX"} /\ tracing' = FALSE
    BY <1>1, <1>2, <1>4, <2>1, <2>2, InteractiveSound DEF Scalars
  <2> QED BY <1>1, <2>3 DEF FramesInv, Scalars
<1> QED BY <1>3, <1>4 DEF Call, q

\* A line typed when a command has failed, obeyed above the two operands.
LEMMA LineSound ==
    ASSUME FramesInv, mode = "run", rx < MaxProc, top < STCK_SIZE, codelen < MaxCode
    PROVE  LET q == InitInterStr(proc, "INTERACTIVE", Rxcip, top + 1, 0)
           IN  /\ Sound(q, top + 1, live, codelen + 1, Main, "run")
               /\ TextOn(q, proc, "INTERACTIVE", top + 1, Main)
<1> DEFINE u == top + 1
           h == 0
           q == InitInterStr(proc, "INTERACTIVE", Rxcip, u, h)
<1>1. /\ proc \in Table /\ top \in -1..STCK_SIZE /\ Floor(Running) \in Int
      /\ top >= Floor(Running) /\ STCK_SIZE \in Nat /\ top < STCK_SIZE
      /\ codelen \in Nat /\ codelen < MaxCode
  BY Here
<1>2. /\ u \in 0..STCK_SIZE /\ u - 1 >= Floor(Running) /\ u - h >= Floor(Running)
      /\ u \in -1..STCK_SIZE /\ u >= u - h /\ h \in {0, 2} /\ 0 <= codelen + 1
  BY ONLY <1>1
<1>3. Rxcip.seg <= codelen /\ Main \in Places /\ Main.seg <= codelen + 1
  BY <1>2, Here, MainPlace DEF Sound
<1> HIDE DEF u, h
<1>4. Room(Running, Rxcip, u, h, u, Main)
  BY <1>1, <1>2, <1>3, Here DEF Room
<1>5. TextOn(q, proc, "INTERACTIVE", u, Main)
  BY <1>1, <1>4, TextFits DEF Running, rx, Inner
<1>6. PICK f : q = Append(proc, f) /\ Fits(f, proc[Len(proc)], codelen, u, codelen + 1, Main)
  BY <1>5 DEF TextOn
<1>7. Sound(proc, top, live, codelen, Rxcip, "run") /\ Len(proc) < MaxProc
  BY Here DEF rx
<1>8. Sound(Append(proc, f), u, live, codelen + 1, Main, "run")
  BY <1>6, <1>7, Grow
<1> QED BY <1>5, <1>6, <1>8 DEF u, h

LEMMA CommandInv ==
    ASSUME FramesInv, NEW rc \in Codes, Command(rc)
    PROVE  FramesInv'
<1> DEFINE c == IF "FAILURE" \in CommandTrap(rc) THEN "FAILURE" ELSE "ERROR"
<1>1. /\ mode = "run" /\ Scalars /\ top > Floor(Running) + 1
      /\ UNCHANGED <<heap, live, lNumericDigits, traceflag, elapsed>>
  BY DEF Command, Idle, FramesInv
<1>2. CommandTrap(rc) # {} => c \in Conditions
  BY Here DEF CommandTrap, FrameType
<1>3. /\ Sound(proc, top, live, codelen, Rxcip, "run") /\ Rxcip.seg <= codelen
      /\ proc \in Table /\ Rxcip \in Places /\ top \in -1..STCK_SIZE
      /\ codelen \in 0..MaxCode /\ codelen \in Nat /\ codelen <= codelen
  BY <1>1, Here DEF Sound
<1>4. /\ top - 2 >= Floor(Running) /\ top - 2 \in -1..STCK_SIZE
      /\ top + 1 - 2 >= Floor(Running) /\ top >= Floor(Running)
  <2>1. /\ top \in -1..STCK_SIZE /\ STCK_SIZE \in Nat /\ top > Floor(Running) + 1
        /\ Floor(Running) \in Int /\ Floor(Running) >= -1
    BY <1>1, Here
  <2> QED BY ONLY <2>1
<1> HIDE DEF c
<1>5. CASE CommandTrap(rc) # {} /\ Take(RxSignalCondition(proc, c)) /\ UNCHANGED <<top, tracing, codelen>>
  <2>1. \E o : Outcome(proc, o) /\ Take(o)
    BY <1>2, <1>3, <1>5, SignalOutcome
  <2>2. top' \in -1..STCK_SIZE /\ codelen' \in 0..MaxCode /\ codelen <= codelen'
    BY <1>3, <1>5
  <2>3. Sound(proc', top', live', codelen', Rxcip', mode')
        /\ trapped' \in Conditions \cup {"", "SYNTAX"}
    BY <1>1, <2>1, <2>2, TookSound
  <2> QED BY <1>1, <1>5, <2>3 DEF FramesInv, Scalars
<1>6. CASE top' = top - 2 /\ UNCHANGED <<proc, trapped, Rxcip, mode, tracing, codelen>>
  <2>1. Sound(proc', top', live', codelen', Rxcip', mode')
    BY <1>1, <1>4, <1>6, StillSound DEF Modes
  <2> QED BY <1>1, <1>6, <2>1 DEF FramesInv, Scalars
<1>7. CASE ObeyLine(proc, Rxcip, top, 2)
  <2> DEFINE h == 2
  <2>1. h \in {0, 2} /\ top + 1 - h >= Floor(proc[Len(proc)]) /\ top >= Floor(proc[Len(proc)])
        /\ ObeyLine(proc, Rxcip, top, h)
    BY <1>4, <1>7 DEF Running, rx
  <2> HIDE DEF h
  <2>2. Sound(proc', top', live, codelen', Rxcip', mode')
    BY <1>1, <1>3, <2>1, ObeySound
  <2>3. tracing' = FALSE /\ trapped' = trapped
    BY <1>7 DEF ObeyLine
  <2> QED BY <1>1, <2>2, <2>3 DEF FramesInv, Scalars
<1>8. CASE CommandTrap(rc) # {} /\ TrappedLine(c)
  <2> DEFINE q == InitInterStr(proc, "INTERACTIVE", Rxcip, top + 1, 0)
  <2>1. /\ rx < MaxProc /\ top < STCK_SIZE /\ codelen < MaxCode /\ codelen' = codelen + 1
        /\ Take(RxSignalCondition(q, c)) /\ top' = top + 1 /\ tracing' = FALSE
    BY <1>8 DEF TrappedLine, Appended
  <2>2. Sound(q, top + 1, live, codelen + 1, Main, "run")
    BY <1>1, <2>1, LineSound
  <2> HIDE DEF q
  <2>3. q \in Table /\ codelen + 1 \in 0..MaxCode /\ top + 1 \in -1..STCK_SIZE
    BY <2>2 DEF Sound
  <2>4. codelen + 1 <= codelen + 1
    BY <1>3
  <2>5. PICK o : Outcome(q, o) /\ Take(o)
    BY <1>2, <1>8, <2>1, <2>3, SignalOutcome
  <2>6. Sound(o.proc, top + 1, live, codelen + 1, Main, o.mode)
    BY <2>2, <2>3, <2>4, <2>5, TakeSound
  <2>7. Sound(proc', top', live', codelen', Rxcip', mode')
        /\ trapped' \in Conditions \cup {"", "SYNTAX"}
    BY <1>1, <2>1, <2>5, <2>6 DEF Take, Outcome
  <2> QED BY <1>1, <2>1, <2>7 DEF FramesInv, Scalars
<1>9. CASE RefuseLine(proc, top)
  <2>1. Sound(proc', top', live, codelen', Rxcip', mode')
        /\ trapped' \in Conditions \cup {"", "SYNTAX"}
    BY <1>1, <1>3, <1>9, RefuseSound DEF Scalars
  <2>2. tracing' = FALSE
    BY <1>9 DEF RefuseLine
  <2> QED BY <1>1, <2>1, <2>2 DEF FramesInv, Scalars
<1> QED BY <1>5, <1>6, <1>7, <1>8, <1>9 DEF Command, c
-----------------------------------------------------------------------------
(* Leaving activations.                                                    *)

\* There is an activation below one made for a text, and below any that a
\* return leaves.
LEMMA NotFirst ==
    ASSUME FramesInv, Running.calltype \in Inner \/ mode = "return" \/ rx > 1
    PROVE  rx > 1 /\ rx - 1 \in 1..rx /\ rx - 1 >= 1 /\ Below(rx) = proc[rx - 1]
           /\ Below(rx) \in FrameType
<1>1. Rooted(proc, mode) /\ proc \in Table /\ rx \in Nat /\ rx >= 1
  BY Here DEF Sound
<1>2. CASE Running.calltype \in Inner
  <2>1. proc[1].calltype \notin Inner
    BY <1>1 DEF Rooted, Kinds, Inner
  <2>2. rx # 1
    BY <1>2, <2>1 DEF Running
  <2>3. rx > 1
    BY ONLY <1>1, <2>2
  <2> QED BY <1>1, <2>3, TableFacts DEF Below, rx
<1>3. CASE mode = "return"
  <2>1. \E k \in 2..rx : TRUE
    BY <1>1, <1>3 DEF Rooted, rx
  <2>2. rx > 1
    BY <1>1, <2>1
  <2> QED BY <1>1, <2>2, TableFacts DEF Below, rx
<1>4. CASE rx > 1
  BY <1>1, <1>4, TableFacts DEF Below, rx
<1> QED BY <1>2, <1>3, <1>4

\* A text has come to its end: RxDoneInterStr.
LEMMA DoneSound ==
    ASSUME FramesInv, Running.calltype \in Inner, DoneInterStr, NEW at \in Places,
           at.seg <= Running.codelen, NEW m \in {"run", "trap"}, m = "trap" => at = Main,
           mode # "end"
    PROVE  /\ Sound(proc', Running.stack, live', codelen', at, m)
           /\ heap' \in [EnvIds -> EnvNames]
           /\ rx > 1 /\ Len(proc') = rx - 1 /\ proc'[rx - 1].trace = Running.trace
           /\ \A k \in 1..(rx - 1) : proc'[k].calltype = proc[k].calltype
<1> DEFINE r == Running
           g == Below(rx)
           f == [g EXCEPT !.trace = r.trace, !.interactive = r.interactive]
           p == Pop(proc)
           q == Update(p, f)
           n == rx - 1
<1>1. rx > 1 /\ rx \in Nat /\ proc \in Table /\ rx = Len(proc) /\ n \in 1..n
      /\ g = proc[n] /\ g \in FrameType /\ r \in FrameType
  BY Here, NotFirst DEF rx
<1>2. p \in Table /\ Len(p) = n /\ \A k \in 1..n : p[k] = proc[k]
  BY <1>1, PopFacts
<1>3. /\ proc' = q /\ codelen' = r.codelen
      /\ \/ heap' = heap /\ live' = live
         \/ /\ ~ SharesEnv(rx) /\ live' = live \ {r.env, r.alt}
            /\ heap' = [heap EXCEPT ![g.env] = heap[r.env], ![g.alt] = heap[r.alt]]
  BY DEF DoneInterStr
<1> HIDE DEF r, g, p
<1>4. r.trace \in Letters /\ r.interactive \in BOOLEAN
  BY <1>1 DEF FrameType
<1>5. f \in FrameType
  BY <1>1, <1>4 DEF FrameType
<1>6. /\ f.calltype = g.calltype /\ f.ip = g.ip /\ f.codelen = g.codelen
      /\ f.env = g.env /\ f.alt = g.alt /\ f.stack = g.stack
      /\ f.stacktop = g.stacktop /\ f.held = g.held /\ f.trace = r.trace
  BY <1>1 DEF FrameType
<1> HIDE DEF f
<1>7. Floor(f) = Floor(g) /\ Floor(f) \in Int /\ g = p[Len(p)]
  BY <1>1, <1>2, <1>5, <1>6, FrameInts DEF Floor
<1>7a. Floor(f) >= Floor(g)
  BY <1>7
<1>7b. q \in Table /\ Settled(p, q)
  BY <1>2, <1>5, <1>6, <1>7, <1>7a, UpdateSettled
<1>7c. Len(q) = n /\ q[n] = f
  <2>1. Len(q) = Len(p) /\ \A k \in 1..Len(p) : q[k] = IF k = Len(p) THEN f ELSE p[k]
    BY <1>2, <1>5, UpdateFacts
  <2> HIDE DEF n
  <2> QED BY <1>1, <1>2, <2>1
<1>8. q \in Table /\ Settled(p, q) /\ Len(q) = n /\ q[n] = f
  BY <1>7b, <1>7c
<1> HIDE DEF q
<1>8a. r = proc[rx] /\ r.env = proc[rx].env /\ r.alt = proc[rx].alt
  BY DEF r, Running
<1>8b. ~ SharesEnv(rx) => proc[rx].env # proc[rx - 1].env
  BY <1>1 DEF SharesEnv, Below
<1>9. Freed(proc, live, live')
  BY <1>1, <1>3, <1>8a, <1>8b DEF Freed, Pair
<1>10. CutOff(proc, codelen, codelen')
  BY <1>1, <1>3 DEF CutOff, r, Running
<1>11. Stacked(proc) /\ rx \in 2..rx
  BY <1>1, Here DEF Sound
<1>12. r.stack >= Floor(g)
  BY <1>1, <1>11 DEF Stacked, r, Running
<1>13. r.stack \in -1..STCK_SIZE /\ r.stack >= Floor(q[Len(q)])
  BY <1>1, <1>7, <1>8, <1>12 DEF FrameType
<1>14. m \in Modes /\ m # "return"
  BY DEF Modes
<1>15. at.seg <= codelen'
  BY <1>3 DEF r
<1>16. Falls(proc, q, live, codelen, r.stack, live', codelen', at, m)
  BY <1>8, <1>9, <1>10, <1>13, <1>14, <1>15 DEF Falls, p
<1>17. Sound(q, r.stack, live', codelen', at, m)
  BY <1>1, <1>16, Here, Shrink
<1>18. heap' \in [EnvIds -> EnvNames]
  <2>1. heap \in [EnvIds -> EnvNames] /\ r.env \in EnvIds /\ r.alt \in EnvIds
    BY <1>1 DEF FramesInv, Scalars, FrameType
  <2>2. heap[r.env] \in EnvNames /\ heap[r.alt] \in EnvNames
    BY <2>1
  <2> QED BY <1>3, <2>1, <2>2
<1>19. \A k \in 1..n : q[k].calltype = proc[k].calltype
  BY <1>2, <1>8 DEF Settled, Texted
<1> QED BY <1>1, <1>3, <1>6, <1>8, <1>17, <1>18, <1>19 DEF r

LEMMA InterEndInv == FramesInv /\ InterEnd => FramesInv'
<1> SUFFICES ASSUME FramesInv, InterEnd PROVE FramesInv'
  OBVIOUS
<1>1. /\ mode = "run" /\ mode' = mode /\ Scalars /\ Running.calltype \in Inner /\ DoneInterStr
      /\ Rxcip' = Running.ip /\ top' = Running.stack
      /\ tracing' = (IF Running.calltype = "INTERACTIVE" THEN Loud(Running.trace) ELSE tracing)
      /\ UNCHANGED <<lNumericDigits, traceflag, trapped, elapsed>>
  BY DEF InterEnd, Idle, FramesInv
<1>2. Running.ip \in Places /\ Layered(proc, codelen)
  BY Here DEF FrameType, Sound
<1>3. Running.ip.seg <= Running.codelen
  BY <1>1, <1>2, Here DEF Layered, Running, rx
<1>4. Sound(proc', Running.stack, live', codelen', Running.ip, "run")
      /\ heap' \in [EnvIds -> EnvNames]
  BY <1>1, <1>2, <1>3, DoneSound
<1>5. tracing' \in BOOLEAN
  BY <1>1 DEF Scalars, Loud
<1> QED BY <1>1, <1>4, <1>5 DEF FramesInv, Scalars

LEMMA TrapInv == FramesInv /\ Trap => FramesInv'
<1> SUFFICES ASSUME FramesInv, Trap PROVE FramesInv'
  OBVIOUS
<1>1. /\ mode = "trap" /\ Scalars /\ Rxcip = Main
      /\ UNCHANGED <<lNumericDigits, tracing, traceflag, trapped, elapsed, Rxcip>>
  BY Here DEF Trap, FramesInv, Sound
<1>2. CASE /\ Running.calltype = "INTERPRET" /\ DoneInterStr
           /\ top' = Running.stack /\ mode' = mode
  <2>1. Running.calltype \in Inner /\ Main \in Places /\ Main.seg <= Running.codelen
    BY <1>2, Here, FrameInts, MainPlace DEF Inner
  <2>2. Sound(proc', Running.stack, live', codelen', Main, "trap")
        /\ heap' \in [EnvIds -> EnvNames]
    BY <1>1, <1>2, <2>1, DoneSound
  <2> QED BY <1>1, <1>2, <2>2 DEF FramesInv, Scalars
<1>3. CASE /\ top' = Running.stacktop /\ mode' = "run"
           /\ proc' = Update(proc, [Running EXCEPT !.held = 0])
           /\ UNCHANGED <<heap, live, codelen>>
  <2>1. Sound(proc', top', live', codelen', Rxcip', mode')
    BY <1>1, <1>3, Unhold
  <2> QED BY <1>1, <1>3, <2>1 DEF FramesInv, Scalars
<1> QED BY <1>2, <1>3 DEF Trap

\* An activation is left by a return or on the way out.
LEMMA LeaveSound ==
    ASSUME FramesInv, mode # "end", rx > 1, Leave, NEW t2 \in -1..STCK_SIZE,
           NEW at2 \in Places, at2.seg <= codelen, NEW m2 \in Modes \ {"trap"},
           m2 = "return" => \E k \in 2..(rx - 1) : proc[k].calltype \notin Inner,
           m2 \in {"run", "return"} => t2 >= Floor(Below(rx))
    PROVE  Sound(proc', t2, live', codelen', at2, m2) /\ Scalars'
<1> DEFINE q == Pop(proc)
           n == rx - 1
<1>1. rx \in Nat /\ proc \in Table /\ rx = Len(proc) /\ n \in 1..n /\ Below(rx) = proc[n]
      /\ Below(rx) \in FrameType
  BY Here, NotFirst DEF rx
<1>2. q \in Table /\ Len(q) = n /\ \A k \in 1..n : q[k] = proc[k]
  BY <1>1, PopFacts
<1>3. /\ proc' = q /\ codelen' = codelen
      /\ live' = (IF SharesEnv(rx) THEN live ELSE live \ {Running.env})
  BY DEF Leave
<1>4. Settled(Pop(proc), q) /\ q[Len(q)] = Below(rx)
  BY <1>1, <1>2, SettledRefl
<1> HIDE DEF q
<1>5. Freed(proc, live, live')
  BY <1>1, <1>3 DEF Freed, SharesEnv, Below, Pair, Running
<1>6. CutOff(proc, codelen, codelen')
  BY <1>3 DEF CutOff
<1>7. Falls(proc, q, live, codelen, t2, live', codelen', at2, m2)
  BY <1>1, <1>2, <1>3, <1>4, <1>5, <1>6 DEF Falls
<1>8. Sound(q, t2, live', codelen', at2, m2)
  BY <1>1, <1>7, Here, Shrink
<1>9. Scalars'
  <2>1. Scalars /\ Below(rx).digits \in Nat /\ Loud(Below(rx).trace) \in BOOLEAN
    BY <1>1 DEF FramesInv, FrameType, Loud
  <2> QED BY <2>1 DEF Scalars, Leave
<1> QED BY <1>3, <1>8, <1>9

LEMMA ReturnProcInv == FramesInv /\ ReturnProc => FramesInv'
<1> SUFFICES ASSUME FramesInv, ReturnProc PROVE FramesInv'
  OBVIOUS
<1>1. /\ mode = "return" /\ Leave /\ top' = Running.stack /\ Rxcip' = Running.ip
      /\ mode' = IF Running.calltype \in Inner THEN "return" ELSE "run"
  BY DEF ReturnProc
<1>2. rx > 1 /\ rx \in Nat /\ Below(rx) = proc[rx - 1]
  BY <1>1, Here, NotFirst
<1>3. Stacked(proc) /\ Layered(proc, codelen) /\ Rooted(proc, "return")
  BY <1>1, Here DEF Sound
<1>4. Running = proc[rx] /\ rx \in 1..rx /\ rx \in 2..rx
  BY <1>2 DEF Running
<1>5. Running.stack >= Floor(Below(rx)) /\ Running.ip.seg <= codelen
  BY <1>2, <1>3, <1>4 DEF Stacked, Layered, rx
<1>6. Running.stack \in -1..STCK_SIZE /\ Running.ip \in Places
  BY Here DEF FrameType
<1>7. mode' = "return" => \E k \in 2..(rx - 1) : proc[k].calltype \notin Inner
  <2>1. PICK k \in 2..rx : proc[k].calltype \notin Inner
    BY <1>3 DEF Rooted, rx
  <2>2. mode' = "return" => k # rx
    BY <1>1, <1>4, <2>1
  <2>3. k # rx => k \in 2..(rx - 1)
    BY <1>2, <2>1
  <2> QED BY <2>1, <2>2, <2>3
<1>8. mode' \in Modes \ {"trap"}
  BY <1>1 DEF Modes
<1>9. Sound(proc', top', live', codelen', Rxcip', mode') /\ Scalars'
  BY <1>1, <1>2, <1>5, <1>6, <1>7, <1>8, LeaveSound
<1> QED BY <1>9 DEF FramesInv

LEMMA UnwindInv == FramesInv /\ Unwind => FramesInv'
<1> SUFFICES ASSUME FramesInv, Unwind PROVE FramesInv'
  OBVIOUS
<1>1. mode = "exit" /\ rx > 1 /\ Leave /\ UNCHANGED <<top, Rxcip, mode>>
  BY DEF Unwind
<1>2. top' \in -1..STCK_SIZE /\ Rxcip' \in Places /\ Rxcip'.seg <= codelen
      /\ mode' \in Modes \ {"trap"} /\ mode' \notin {"run", "return"}
  BY <1>1, Here DEF Sound, Modes
<1>3. Sound(proc', top', live', codelen', Rxcip', mode') /\ Scalars'
  BY <1>1, <1>2, LeaveSound
<1> QED BY <1>3 DEF FramesInv
-----------------------------------------------------------------------------
(* The invariant holds in every state.                                     *)

LEMMA BaseFrame ==
    ASSUME NEW type \in Started
    PROVE  /\ Base(type) \in FrameType /\ FirstEnv[1] # FirstEnv[2]
           /\ FirstEnv[1] \in EnvIds /\ FirstEnv[2] \in EnvIds
<1>1. PICK e \in EnvIds, a \in EnvIds : e # a
  BY FrameConstants
<1>2. <<e, a>> \in EnvIds \X EnvIds /\ <<e, a>>[1] # <<e, a>>[2]
  BY <1>1
<1>3. FirstEnv \in EnvIds \X EnvIds /\ FirstEnv[1] # FirstEnv[2]
  BY <1>2 DEF FirstEnv
<1>4. FirstEnv[1] \in EnvIds /\ FirstEnv[2] \in EnvIds
  BY <1>3
<1>5. /\ type \in Kinds \cup Inner /\ Main \in Places
      /\ -1 \in -1..STCK_SIZE /\ 0 \in 0..(MaxCode + 1) /\ 9 \in Nat /\ 0 \in Nat
      /\ "SCIENTIFIC" \in Forms /\ {} \in SUBSET Conditions /\ "N" \in Letters
      /\ FALSE \in BOOLEAN /\ 0 \in {0, 2}
  BY FrameConstants, MainPlace DEF Letters
<1>6. [c \in Conditions |-> c] \in [Conditions -> Labels]
  BY FrameConstants
<1> HIDE DEF FirstEnv
<1>7. Base(type) \in FrameType
  BY <1>4, <1>5, <1>6 DEF Base, FrameType
<1> QED BY <1>3, <1>4, <1>7

\* What the first activation is like, with or without a TRACE operand.
Fresh(f) ==
    /\ f \in FrameType /\ f.calltype \in Kinds /\ f.ip = Main
    /\ f.stack = -1 /\ f.stacktop = -1 /\ f.held = 0
    /\ f.env = FirstEnv[1] /\ f.alt = FirstEnv[2] /\ f.digits = 9

LEMMA FirstFrame ==
    ASSUME Init
    PROVE  \E f : Fresh(f) /\ proc = <<f>>
<1>1. PICK type \in Started :
        proc \in {<<Base(type)>>} \cup
                 {<<TraceSet(Base(type), a)>> : a \in {b \in TraceArgs : b.letter # "bad"}}
  BY DEF Init
<1> DEFINE base == Base(type)
<1>2. base \in FrameType
  BY BaseFrame
<1>3. /\ base.calltype = type /\ base.ip = Main /\ base.stack = -1 /\ base.stacktop = -1
      /\ base.held = 0 /\ base.env = FirstEnv[1] /\ base.alt = FirstEnv[2]
      /\ base.interactive = FALSE /\ base.digits = 9
  BY DEF Base
<1>4. type \in Kinds
  BY FrameConstants
<1> HIDE DEF base
<1>5. CASE proc = <<base>>
  BY <1>2, <1>3, <1>4, <1>5 DEF Fresh
<1>6. ASSUME NEW a \in TraceArgs, a.letter # "bad", proc = <<TraceSet(base, a)>>
      PROVE  \E f : Fresh(f) /\ proc = <<f>>
  <2>1. a.letter \in Letters /\ a.toggle \in BOOLEAN
    BY <1>6, FrameConstants
  <2> DEFINE y == IF a.letter = "O" THEN FALSE
                  ELSE IF a.toggle THEN ~ base.interactive ELSE base.interactive
             f == [base EXCEPT !.interactive = y, !.trace = a.letter]
  <2>2. y \in BOOLEAN
    BY <1>2 DEF FrameType
  <2>3. TraceSet(base, a) = f
    BY <1>6 DEF TraceSet
  <2> HIDE DEF y
  <2>4. f \in FrameType
    BY <1>2, <2>1, <2>2, SettingTypes
  <2>5. /\ f.calltype = base.calltype /\ f.ip = base.ip /\ f.stack = base.stack
        /\ f.stacktop = base.stacktop /\ f.held = base.held /\ f.env = base.env
        /\ f.alt = base.alt /\ f.digits = base.digits
    BY <1>2 DEF FrameType
  <2> QED BY <1>3, <1>4, <1>6, <2>3, <2>4, <2>5 DEF Fresh
<1> QED BY <1>1, <1>5, <1>6 DEF base

LEMMA InitInv == Init => FramesInv
<1> SUFFICES ASSUME Init PROVE FramesInv
  OBVIOUS
<1>1. PICK f : Fresh(f) /\ proc = <<f>>
  BY FirstFrame
<1>2. /\ traceflag \in TraceFlags /\ live = {FirstEnv[1], FirstEnv[2]}
      /\ heap = [e \in EnvIds |-> System]
      /\ top = -1 /\ lNumericDigits = 9 /\ tracing = Loud(proc[1].trace)
      /\ trapped = "" /\ elapsed = 0 /\ codelen = 0 /\ Rxcip = Main /\ mode = "run"
  BY DEF Init
<1>3. f \in FrameType
  BY <1>1 DEF Fresh
<1>4. proc \in Table /\ Len(proc) = 1 /\ proc[1] = f
  <2>1. proc \in Seq(FrameType) /\ Len(proc) = 1 /\ proc[1] = f
    BY <1>1, <1>3
  <2>2. Len(proc) >= 1
    BY <2>1
  <2> QED BY <2>1, <2>2, TableLen
<1>5. FirstEnv[1] \in EnvIds /\ FirstEnv[2] \in EnvIds /\ FirstEnv[1] # FirstEnv[2]
  <2>1. \E type : type \in Started
    BY DEF Init
  <2> QED BY <2>1, BaseFrame
<1>6. Scalars
  <2>1. heap \in [EnvIds -> EnvNames] /\ traceflag \in BOOLEAN /\ tracing \in BOOLEAN
    BY <1>2, FrameConstants DEF Loud
  <2>2. 9 \in Nat /\ 0 \in 0..MaxResets
    BY FrameConstants
  <2> QED BY <1>2, <2>1, <2>2 DEF Scalars
<1>7. Rooted(proc, "run")
  BY <1>1, <1>4 DEF Rooted, Fresh
<1>8. Floor(f) = -1 /\ Main.seg = 0
  BY <1>1, MainPlace DEF Floor, Fresh
<1>9. 2..1 = {} /\ \A k \in 1..1 : k = 1 /\ 1..(k - 1) = {} /\ ~ (k > 1)
  OBVIOUS
<1>10. Stacked(proc) /\ top >= Floor(proc[Len(proc)])
  <2>1. -1 >= -1 /\ \A k \in 1..Len(proc) : proc[k] = f
    BY <1>4, <1>9
  <2>2. 2..Len(proc) = {} /\ proc[Len(proc)] = f
    BY <1>4, <1>9
  <2> QED BY <1>2, <1>8, <2>1, <2>2, Zenon DEF Stacked
<1>11. Layered(proc, 0)
  BY <1>1, <1>4, <1>8, <1>9 DEF Layered, Fresh, Kinds, Inner
<1>12. Paired(proc, live)
  <2>1. f.env = FirstEnv[1] /\ f.alt = FirstEnv[2]
    BY <1>1 DEF Fresh
  <2>2. \A k \in 1..Len(proc) : k = 1 /\ proc[k] = f /\ ~ (k > 1)
    BY <1>4, <1>9
  <2> HIDE DEF FirstEnv
  <2> QED BY <1>2, <1>5, <2>1, <2>2 DEF Paired, Pair
<1>13. /\ Len(proc) <= MaxProc /\ top \in -1..STCK_SIZE /\ 0 \in 0..MaxCode
       /\ live \subseteq EnvIds /\ Main \in Places /\ Main.seg <= 0 /\ "run" \in Modes
  <2>1. 1 <= MaxProc /\ -1 \in -1..STCK_SIZE /\ 0 \in 0..MaxCode /\ 0 <= 0
    BY FrameConstants
  <2> QED BY <1>2, <1>4, <1>5, <2>1, MainPlace DEF Modes
<1> QED BY <1>2, <1>4, <1>6, <1>7, <1>10, <1>11, <1>12, <1>13 DEF FramesInv, Sound

LEMMA NextInv == FramesInv /\ [Next]_vars => FramesInv'
<1> SUFFICES ASSUME FramesInv, [Next]_vars PROVE FramesInv'
  OBVIOUS
<1>1. CASE Push \/ Drop \/ Error \/ Proc
  BY <1>1, PushInv, DropInv, ErrorInv
<1>2. CASE Address \/ Trace \/ TracePoll \/ Digits \/ Fuzz \/ Set \/ ResetClock
  BY <1>2, AddressInv, TraceInv, TracePollInv, NumericInv, SetInv, ResetClockInv
<1>3. CASE RxHaltTrap \/ \E c \in Conditions \cap {"NOVALUE", "NOTREADY"} : Condition(c)
  BY <1>3, ConditionInv
<1>4. CASE NewClause \/ Interpret \/ InterEnd \/ Signal \/ Exit \/ IExit
  BY <1>4, NewClauseInv, InterpretInv, InterEndInv, SignalInv, ExitInv
<1>5. CASE \E type \in {"PROCEDURE", "FUNCTION"}, n \in Arities, isproc \in BOOLEAN :
              Call(type, n, isproc)
  BY <1>5, CallInv
<1>6. CASE (\E data \in BOOLEAN : Return(data)) \/ (\E rc \in Codes : Command(rc))
  BY <1>6, ReturnInv, CommandInv
<1>7. CASE Loops
  BY <1>7, TrapInv, ReturnProcInv, UnwindInv, RunExitInv DEF Loops
<1>8. CASE UNCHANGED vars
  BY <1>8 DEF vars, FramesInv, Scalars
<1> QED BY <1>1, <1>2, <1>3, <1>4, <1>5, <1>6, <1>7, <1>8 DEF Next

LEMMA InvAlways == Spec => []FramesInv
BY InitInv, NextInv, PTL DEF Spec

-----------------------------------------------------------------------------
(* The theorems.                                                           *)

\* Whatever is called, interpreted, trapped or returned from, every field of
\* every activation, the top of the operand stack and the settings keep to
\* the values their C declarations and the interpreter allow.
THEOREM TypesKept == Spec => []TypeOK
<1>1. ASSUME FramesInv PROVE TypeOK
  <2>1. /\ proc \in Seq(FrameType) /\ Len(proc) \in 1..MaxProc
        /\ top \in -1..(STCK_SIZE + 1) /\ mode \in Modes
    BY <1>1, Here, TableFacts DEF rx, Sound
  <2> QED BY <1>1, <2>1, Here DEF TypeOK, FramesInv, Scalars
<1> QED BY <1>1, InvAlways, PTL

\* The operands that an activation has on the stack when it calls or
\* interprets something are not cut into until it runs again (stack and
\* stacktop, rexx.h:185), at any depth and on a stack of any size.
THEOREM FloorsKept == Spec => []Floors
<1>1. ASSUME FramesInv PROVE Floors
  <2>1. Stacked(proc) /\ (mode \in {"run", "return"} => top >= Floor(Running))
    BY <1>1, Here DEF Sound
  <2> QED BY <2>1 DEF Floors, Stacked, Below, rx
<1> QED BY <1>1, InvAlways, PTL

\* Code that is running, or that a return or the end of a text will go on in,
\* has not been cut off by the end of another text (RxDoneInterStr).
THEOREM CodeAlwaysKept == Spec => []CodeKept
<1>1. ASSUME FramesInv PROVE CodeKept
  <2>1. Layered(proc, codelen) /\ Rxcip.seg <= codelen /\ \A k \in 2..rx : k \in 1..rx
    BY <1>1, Here DEF Sound
  <2> QED BY <2>1 DEF CodeKept, Layered, rx
<1> QED BY <1>1, InvAlways, PTL

\* However deep the calls, ADDRESS in an activation gives it an environment
\* pair of its own or changes its own, every pair in use is allocated, and no
\* return frees one that another activation uses (interpre.c:935, 1046).
THEOREM EnvsOwned == Spec => []EnvOwned
<1>1. ASSUME FramesInv PROVE EnvOwned
  <2>1. mode # "end" => Paired(proc, live)
    BY <1>1 DEF FramesInv, Sound
  <2> QED BY <2>1 DEF EnvOwned, Paired, Pair, SharesEnv, SharesAlt, Below, rx
<1> QED BY <1>1, InvAlways, PTL
-----------------------------------------------------------------------------
(* Tracing.  A line typed at the console turns tracing off until it has    *)
(* been obeyed.  One that does not compile is never obeyed: where its      *)
(* program traps SYNTAX, tracing stays off whatever TRACE says.            *)

LinesCompile == "bad" \notin Typed \/ "SYNTAX" \notin Conditions

Going == {"run", "return", "trap"}

\* The same activations, traced as before.
LEMMA ForceSettled ==
    ASSUME NEW p \in Table, NEW q \in Table, Settled(p, q), NEW m \in Going, NEW m2,
           NEW tr, InForce(p, m, tr), q[Len(p)].trace = p[Len(p)].trace
    PROVE  InForce(q, m2, tr)
BY DEF InForce, Settled, Texted, Going

LEMMA ForceOutcome ==
    ASSUME NEW p \in Table, NEW m \in Going, InForce(p, m, tracing),
           tracing' = tracing, \E o : Outcome(p, o) /\ Take(o)
    PROVE  InForce(proc', mode', tracing')
<1>1. PICK o : Outcome(p, o) /\ Take(o)
  OBVIOUS
<1>2. /\ o.proc \in Table /\ Settled(p, o.proc) /\ o.proc[Len(p)].trace = p[Len(p)].trace
  BY <1>1, TableFacts DEF Outcome
<1>3. InForce(o.proc, o.mode, tracing)
  BY <1>2, ForceSettled
<1> QED BY <1>1, <1>3 DEF Take

\* What an activation for a text on top does not change.
LEMMA TextTop ==
    ASSUME NEW p \in Table, NEW q, NEW type, NEW t2, NEW at2, TextOn(q, p, type, t2, at2)
    PROVE  /\ Len(q) = Len(p) + 1 /\ Len(q) \in 1..Len(q)
           /\ q[Len(q)].calltype = type /\ q[Len(q)].trace = p[Len(p)].trace
           /\ \A k \in 1..Len(p) : k \in 1..Len(q) /\ q[k].calltype = p[k].calltype
<1>1. PICK f : /\ q = Append(p, f) /\ f \in FrameType
               /\ f.calltype = type /\ f.trace = p[Len(p)].trace
  BY DEF TextOn, Fits
<1>2. /\ Len(q) = Len(p) + 1 /\ q[Len(p) + 1] = f /\ \A k \in 1..Len(p) : q[k] = p[k]
  BY <1>1, AppendFacts
<1> QED BY <1>1, <1>2, TableFacts

LEMMA ForceText ==
    ASSUME NEW p \in Table, NEW q, NEW type, NEW t2, NEW at2, TextOn(q, p, type, t2, at2),
           NEW m \in Going, NEW tr, InForce(p, m, tr)
    PROVE  \A m2, tr2 : type = "INTERACTIVE" \/ tr2 = tr => InForce(q, m2, tr2)
<1>1. /\ Len(q) = Len(p) + 1 /\ Len(q) \in 1..Len(q)
      /\ q[Len(q)].calltype = type /\ q[Len(q)].trace = p[Len(p)].trace
      /\ \A k \in 1..Len(p) : k \in 1..Len(q) /\ q[k].calltype = p[k].calltype
  BY TextTop
<1> QED BY <1>1 DEF InForce, Going

LEMMA RefuseExits ==
    ASSUME LinesCompile, NEW p \in Table, NEW t, RefuseLine(p, t)
    PROVE  mode' = "exit"
<1>1. "bad" \in Typed /\ Take(CompileError(p))
  BY DEF RefuseLine
<1>2. p[Len(p)].condition \subseteq Conditions
  BY TableFacts DEF FrameType
<1>3. "SYNTAX" \notin p[Len(p)].condition
  BY <1>1, <1>2 DEF LinesCompile
<1> QED BY <1>1, <1>3 DEF CompileError, Quit, Take

LEMMA ForceLine ==
    ASSUME LinesCompile, NEW p, NEW t0, NEW at0, Sound(p, t0, live, codelen, at0, "run"),
           mode = "run", NEW m \in Going, NEW tr, InForce(p, m, tr),
           NEW at \in Places, at.seg <= codelen, NEW t \in -1..STCK_SIZE, NEW held \in {0, 2},
           t >= Floor(p[Len(p)]), t + 1 - held >= Floor(p[Len(p)]),
           ObeyLine(p, at, t, held) \/ RefuseLine(p, t)
    PROVE  InForce(proc', mode', tracing')
<1>1. p \in Table
  BY DEF Sound
<1>2. CASE ObeyLine(p, at, t, held)
  <2>1. TextOn(proc', p, "INTERACTIVE", top', Rxcip')
    BY <1>2, ObeySound
  <2> QED BY <1>1, <2>1, ForceText
<1>3. CASE RefuseLine(p, t)
  BY <1>1, <1>3, RefuseExits DEF InForce
<1> QED BY <1>2, <1>3

LEMMA ForceInteractive ==
    ASSUME LinesCompile, NEW p, NEW t0, NEW at0, Sound(p, t0, live, codelen, at0, "run"),
           mode = "run", NEW m \in Going, NEW tr, InForce(p, m, tr),
           NEW at \in Places, at.seg <= codelen, NEW t \in -1..STCK_SIZE,
           t >= Floor(p[Len(p)]), TraceInteractive(p, at, t)
    PROVE  InForce(proc', mode', tracing')
<1> DEFINE h == 0
<1>1. p \in Table /\ STCK_SIZE \in Nat
  BY FrameConstants DEF Sound
<1>2. Floor(p[Len(p)]) \in Int /\ t \in -1..STCK_SIZE /\ t >= Floor(p[Len(p)])
  BY <1>1, TableFacts, FrameInts
<1>3. h \in {0, 2} /\ t + 1 - h >= Floor(p[Len(p)])
  BY ONLY <1>1, <1>2
<1>4. ObeyLine(p, at, t, h) \/ RefuseLine(p, t)
  BY DEF TraceInteractive
<1> HIDE DEF h
<1> QED BY <1>3, <1>4, ForceLine
\* Instructions that change neither the activations nor tracing.
LEMMA ForceSame ==
    ASSUME TracingInv, UNCHANGED <<proc, tracing>>, mode \in Going
    PROVE  TracingInv'
BY DEF TracingInv, InForce, Going

\* Errors, conditions and commands trapped in the running activation.
LEMMA ForceTook ==
    ASSUME FramesInv, TracingInv, mode = "run", tracing' = tracing,
           \/ Take(Rerror(proc)) \/ Take(CompileError(proc))
           \/ \E c \in Conditions : Take(RxSignalCondition(proc, c))
    PROVE  TracingInv'
<1>1. trapped \in Conditions \cup {"", "SYNTAX"} /\ proc \in Table /\ mode \in Going
  BY Here DEF FramesInv, Scalars, Going
<1>2. Outcome(proc, Rerror(proc)) /\ Outcome(proc, CompileError(proc))
  BY <1>1, RerrorOutcome
<1>3. \A c \in Conditions : Outcome(proc, RxSignalCondition(proc, c))
  BY <1>1, SignalOutcome
<1>4. \E o : Outcome(proc, o) /\ Take(o)
  BY <1>2, <1>3
<1> QED BY <1>1, <1>4, ForceOutcome DEF TracingInv

\* A setting other than TRACE was made, or made and found wrong.
LEMMA ForceReset ==
    ASSUME FramesInv, TracingInv, mode = "run", tracing' = tracing,
           NEW f, Reset(f), f.trace = Running.trace,
           \/ proc' = Update(proc, f)
           \/ Take(Rerror(Update(proc, f)))
    PROVE  TracingInv'
<1> DEFINE q == Update(proc, f)
<1>1. /\ q \in Table /\ Settled(proc, q) /\ Len(q) = rx /\ q[rx] = f
  BY ResetTable
<1>2. proc \in Table /\ mode \in Going /\ trapped \in Conditions \cup {"", "SYNTAX"}
  BY Here DEF FramesInv, Scalars, Going
<1> HIDE DEF q
<1>3. \A m2 : InForce(q, m2, tracing)
  BY <1>1, <1>2, ForceSettled DEF TracingInv, Running, rx
<1>4. CASE proc' = q
  BY <1>3, <1>4 DEF TracingInv
<1>5. CASE Take(Rerror(q))
  <2>1. Outcome(q, Rerror(q))
    BY <1>1, <1>2, RerrorOutcome
  <2>2. InForce(proc', mode', tracing')
    BY <1>1, <1>2, <1>3, <1>5, <2>1, ForceOutcome
  <2> QED BY <2>2 DEF TracingInv
<1> QED BY <1>4, <1>5 DEF q

LEMMA ForceSettings ==
    ASSUME FramesInv, TracingInv, Digits \/ Fuzz \/ Set
    PROVE  TracingInv'
<1>1. mode = "run" /\ tracing' = tracing
  BY DEF Digits, Fuzz, Set, Idle
<1>2. \E f : /\ Reset(f) /\ f.trace = Running.trace
             /\ proc' = Update(proc, f) \/ Take(Rerror(Update(proc, f)))
  <2>1. Running \in FrameType
    BY Here
  <2>2. CASE Digits
    <3>1. PICK n \in DigitValues \cup {LMaxDigits} : Numeric([Running EXCEPT !.digits = n])
      BY <2>2 DEF Digits
    <3>2. n \in Nat
      BY FrameConstants
    <3>3. [Running EXCEPT !.digits = n].trace = Running.trace
      BY <2>1 DEF FrameType
    <3> QED BY <3>1, <3>2, <3>3, NumericReset DEF Numeric
  <2>3. CASE Fuzz
    <3>1. PICK n \in FuzzValues \cup {0} : Numeric([Running EXCEPT !.fuzz = n])
      BY <2>3 DEF Fuzz
    <3>2. n \in Nat
      BY FrameConstants
    <3>3. [Running EXCEPT !.fuzz = n].trace = Running.trace
      BY <2>1 DEF FrameType
    <3> QED BY <3>1, <3>2, <3>3, NumericReset DEF Numeric
  <2>4. CASE Set
    BY <2>4, SetReset DEF Set
  <2> QED BY <2>2, <2>3, <2>4
<1> QED BY <1>1, <1>2, ForceReset

LEMMA ForceTrace ==
    ASSUME FramesInv, TracingInv, Trace \/ TracePoll
    PROVE  TracingInv'
<1>1. CASE Trace
  <2>1. mode = "run"
    BY <1>1 DEF Trace, Idle
  <2>2. PICK a \in TraceArgs :
          IF a.letter = "bad"
          THEN Take(Rerror(Update(proc, TraceSet(Running, a)))) /\ tracing' = tracing
          ELSE /\ proc' = Update(proc, TraceSet(Running, a))
               /\ tracing' = Loud(a.letter)
               /\ UNCHANGED <<trapped, Rxcip, mode>>
    BY <1>1 DEF Trace
  <2> DEFINE f == TraceSet(Running, a)
  <2>3. a \in [toggle : BOOLEAN, letter : Letters \cup {"bad"}]
    BY FrameConstants
  <2>4. Reset(f) /\ f.trace = IF a.letter = "bad" THEN Running.trace ELSE a.letter
    BY <2>3, TraceSetReset
  <2>5. CASE a.letter = "bad"
    <3> HIDE DEF f
    <3>1. Take(Rerror(Update(proc, f))) /\ tracing' = tracing /\ f.trace = Running.trace
      BY <2>2, <2>4, <2>5 DEF f
    <3> QED BY <2>1, <2>4, <3>1, ForceReset
  <2>6. CASE a.letter # "bad"
    <3>1. Len(Update(proc, f)) = rx /\ Update(proc, f)[rx] = f
      BY <2>4, ResetTable
    <3> QED BY <2>2, <2>4, <2>6, <3>1 DEF TracingInv, InForce
  <2> QED BY <2>5, <2>6
<1>2. CASE TracePoll
  <2> DEFINE a == [toggle |-> traceflag', letter |-> IF traceflag' THEN "A" ELSE "O"]
             f == TraceSet(Running, a)
  <2>1. traceflag' \in BOOLEAN /\ tracing' = traceflag' /\ proc' = Update(proc, f)
    BY <1>2, FrameConstants DEF TracePoll
  <2>2. a \in [toggle : BOOLEAN, letter : Letters \cup {"bad"}]
    BY <2>1 DEF Letters
  <2>3. Reset(f) /\ f.trace = a.letter
    <3> HIDE DEF a
    <3>1. a.letter # "bad"
      BY DEF a
    <3> QED BY <2>2, <3>1, TraceSetReset
  <2>4. Loud(a.letter) = traceflag'
    BY <2>1 DEF Loud, Quiet
  <2> HIDE DEF f
  <2>5. Len(Update(proc, f)) = rx /\ Update(proc, f)[rx] = f
    BY <2>3, ResetTable
  <2> QED BY <2>1, <2>3, <2>4, <2>5 DEF TracingInv, InForce
<1> QED BY <1>1, <1>2
LEMMA ForceAddress ==
    ASSUME FramesInv, TracingInv, Address
    PROVE  TracingInv'
<1>1. mode = "run" /\ UNCHANGED <<tracing, mode>>
  BY DEF Address, Idle
<1>2. PICK f \in FrameType : /\ proc' = Update(proc, f) /\ f.trace = Running.trace
                            /\ f.calltype = Running.calltype
  BY AddressInv
<1>3. /\ Len(Update(proc, f)) = rx
      /\ \A k \in 1..rx : Update(proc, f)[k] = IF k = rx THEN f ELSE proc[k]
  BY Here, UpdateFacts DEF rx
<1> QED BY <1>1, <1>2, <1>3, Here DEF TracingInv, InForce, Running, rx

\* Calls and texts: the activation on top starts with the setting below.
LEMMA ForceCall ==
    ASSUME LinesCompile, FramesInv, TracingInv, NEW type \in {"PROCEDURE", "FUNCTION"},
           NEW n \in Arities, NEW isproc \in BOOLEAN, Call(type, n, isproc)
    PROVE  TracingInv'
<1> DEFINE q == MakeArgs(type, n)
           f == q[Len(q)]
<1>1. mode = "run" /\ mode \in Going /\ rx < MaxProc /\ top - n > Floor(Running) /\ n \in Nat
  BY FrameConstants DEF Call, Idle, Going
<1>2. /\ Sound(q, top, live, codelen, Main, "run") /\ Len(q) = rx + 1 /\ Floor(f) = top
      /\ f.trace = Running.trace
  BY <1>1, ArgsSound
<1>3. \A k \in 1..rx : k \in 1..Len(q) /\ q[k] = proc[k]
  <2>1. PICK g : q = Append(proc, g)
    BY DEF MakeArgs
  <2>2. q \in Table /\ Len(q) = rx + 1 /\ rx \in Nat /\ rx = Len(proc) /\ proc \in Table
    BY <1>2, Here DEF Sound, rx
  <2>3. \A k \in 1..rx : k \in 1..Len(q)
    BY <2>2
  <2>4. \A k \in 1..Len(proc) : Append(proc, g)[k] = proc[k]
    BY <2>2 DEF Table
  <2> QED BY <2>1, <2>2, <2>3, <2>4
<1> HIDE DEF q
<1>4. InForce(q, mode, tracing)
  BY <1>1, <1>2, <1>3 DEF TracingInv, InForce, Running, rx, Going
<1>5. CASE proc' = q /\ UNCHANGED <<tracing, mode>>
  BY <1>4, <1>5 DEF TracingInv
<1>6. ASSUME NEW at, at = [Main EXCEPT !.next = IF isproc THEN "label" ELSE "any"],
             TraceInteractive(q, at, top)
      PROVE  TracingInv'
  <2>1. at \in Places /\ at.seg = 0
    BY <1>6, FrameConstants DEF Main, Places
  <2>2. at.seg <= codelen /\ top \in -1..STCK_SIZE /\ top >= Floor(q[Len(q)])
    BY <1>2, <2>1, Here
  <2>3. InForce(proc', mode', tracing')
    BY <1>1, <1>2, <1>4, <1>6, <2>1, <2>2, ForceInteractive
  <2> QED BY <2>3 DEF TracingInv
<1> QED BY <1>5, <1>6 DEF Call, q

LEMMA ForceInterpret ==
    ASSUME FramesInv, TracingInv, Interpret
    PROVE  TracingInv'
<1>1. mode = "run" /\ mode \in Going /\ tracing' = tracing /\ rx < MaxProc
      /\ top > Floor(Running) /\ codelen < MaxCode
  BY DEF Interpret, Idle, Going, Appended
<1>2. CASE /\ proc' = InitInterStr(proc, "INTERPRET", Rxcip, top, 0)
           /\ Rxcip' = [seg |-> codelen + 1, next |-> "any"]
           /\ UNCHANGED <<trapped, mode>>
  <2> DEFINE h == 0
  <2>1. /\ top \in -1..STCK_SIZE /\ STCK_SIZE \in Nat /\ top > Floor(Running)
        /\ Floor(Running) \in Int /\ Floor(Running) >= -1
    BY <1>1, Here
  <2>2. top \in 0..STCK_SIZE /\ top - 1 >= Floor(Running) /\ top - h >= Floor(Running)
        /\ top >= top - h /\ h \in {0, 2}
    BY ONLY <2>1
  <2>3. Rxcip' \in Places /\ Rxcip'.seg <= codelen + 1 /\ Rxcip.seg <= codelen
    BY <1>1, <1>2, Here DEF Places, Sound
  <2> HIDE DEF h
  <2>4. Room(Running, Rxcip, top, h, top, Rxcip')
    BY <1>1, <2>2, <2>3, Here DEF Room
  <2>5. TextOn(proc', proc, "INTERPRET", top, Rxcip')
    BY <1>2, <2>4, Here, TextFits DEF Running, rx, Inner, h
  <2>6. InForce(proc', mode', tracing')
    BY <1>1, <2>5, Here, ForceText DEF TracingInv
  <2> QED BY <2>6 DEF TracingInv
<1>3. CASE Take(CompileError(proc))
  BY <1>1, <1>3, ForceTook
<1> QED BY <1>2, <1>3 DEF Interpret

LEMMA ForceNewClause ==
    ASSUME LinesCompile, FramesInv, TracingInv, NewClause
    PROVE  TracingInv'
<1>1. mode = "run" /\ mode \in Going
  BY DEF NewClause, Going
<1>2. CASE TraceInteractive(proc, Rxcip, top)
  <2>1. /\ Sound(proc, top, live, codelen, Rxcip, "run") /\ Rxcip \in Places
        /\ Rxcip.seg <= codelen /\ top \in -1..STCK_SIZE /\ top >= Floor(proc[Len(proc)])
    BY <1>1, Here DEF Sound
  <2>2. InForce(proc', mode', tracing')
    BY <1>1, <1>2, <2>1, ForceInteractive DEF TracingInv
  <2> QED BY <2>2 DEF TracingInv
<1>3. CASE UNCHANGED <<proc, tracing>>
  BY <1>1, <1>3, ForceSame
<1> QED BY <1>2, <1>3 DEF NewClause

LEMMA ForceCommand ==
    ASSUME LinesCompile, FramesInv, TracingInv, NEW rc \in Codes, Command(rc)
    PROVE  TracingInv'
<1> DEFINE c == IF "FAILURE" \in CommandTrap(rc) THEN "FAILURE" ELSE "ERROR"
<1>1. mode = "run" /\ mode \in Going /\ top > Floor(Running) + 1
  BY DEF Command, Idle, Going
<1>2. CommandTrap(rc) # {} => c \in Conditions
  BY Here DEF CommandTrap, FrameType
<1>3. /\ Sound(proc, top, live, codelen, Rxcip, "run") /\ Rxcip.seg <= codelen
      /\ proc \in Table /\ Rxcip \in Places /\ top \in -1..STCK_SIZE
  BY <1>1, Here DEF Sound
<1> DEFINE h == 2
<1>4. /\ top + 1 - h >= Floor(Running) /\ top >= Floor(Running) /\ h \in {0, 2}
  <2>1. /\ top \in -1..STCK_SIZE /\ STCK_SIZE \in Nat /\ top > Floor(Running) + 1
        /\ Floor(Running) \in Int
    BY <1>1, Here
  <2> QED BY ONLY <2>1
<1> HIDE DEF c
<1>5. CASE tracing' = tracing /\ CommandTrap(rc) # {} /\ Take(RxSignalCondition(proc, c))
  BY <1>1, <1>2, <1>5, ForceTook
<1>6. CASE UNCHANGED <<proc, tracing>>
  BY <1>1, <1>6, ForceSame
<1>7. CASE ObeyLine(proc, Rxcip, top, 2) \/ RefuseLine(proc, top)
  <2>1. ObeyLine(proc, Rxcip, top, h) \/ RefuseLine(proc, top)
    BY <1>7
  <2>2. top + 1 - h >= Floor(proc[Len(proc)]) /\ top >= Floor(proc[Len(proc)])
    BY <1>4 DEF Running, rx
  <2> HIDE DEF h
  <2>3. InForce(proc', mode', tracing')
    BY <1>1, <1>3, <1>4, <2>1, <2>2, ForceLine DEF TracingInv
  <2> QED BY <2>3 DEF TracingInv
<1>8. CASE CommandTrap(rc) # {} /\ TrappedLine(c)
  <2> DEFINE q == InitInterStr(proc, "INTERACTIVE", Rxcip, top + 1, 0)
  <2>1. /\ rx < MaxProc /\ top < STCK_SIZE /\ codelen < MaxCode
        /\ Take(RxSignalCondition(q, c))
    BY <1>8 DEF TrappedLine, Appended
  <2>2. q \in Table /\ TextOn(q, proc, "INTERACTIVE", top + 1, Main)
    BY <1>1, <2>1, LineSound DEF Sound
  <2> HIDE DEF q
  <2>3. Len(q) \in 1..Len(q) /\ q[Len(q)].calltype = "INTERACTIVE"
    BY <1>3, <2>2, TextTop
  <2>4. Outcome(q, RxSignalCondition(q, c)) /\ proc' = RxSignalCondition(q, c).proc
    BY <1>2, <1>8, <2>1, <2>2, SignalOutcome DEF Take
  <2>5. Len(q) \in 1..Len(proc') /\ proc'[Len(q)].calltype = "INTERACTIVE"
    BY <2>3, <2>4 DEF Outcome, Settled, Texted
  <2> QED BY <2>5 DEF TracingInv, InForce
<1> QED BY <1>5, <1>6, <1>7, <1>8 DEF Command, c
\* The end of a text hands the TRACE setting down.
LEMMA ForceDone ==
    ASSUME FramesInv, TracingInv, mode \in Going, NEW tr,
           Len(proc') = rx - 1, proc'[rx - 1].trace = Running.trace, rx > 1,
           \A k \in 1..(rx - 1) : proc'[k].calltype = proc[k].calltype,
           \/ Running.calltype # "INTERACTIVE" /\ tr = tracing
           \/ tr = Loud(Running.trace)
    PROVE  InForce(proc', mode', tr)
<1>1. rx \in Nat /\ rx - 1 \in 1..(rx - 1) /\ \A k \in 1..rx : k = rx \/ k \in 1..(rx - 1)
  BY Here
<1>2. CASE tr = Loud(Running.trace)
  BY <1>2 DEF InForce
<1>3. CASE Running.calltype # "INTERACTIVE" /\ tr = tracing
  <2>1. (\A k \in 1..(rx - 1) : proc'[k].calltype # "INTERACTIVE")
          => \A k \in 1..rx : proc[k].calltype # "INTERACTIVE"
    BY <1>1, <1>3 DEF Running
  <2> QED BY <1>3, <2>1 DEF TracingInv, InForce, Going, Running, rx
<1> QED BY <1>2, <1>3

LEMMA ForceInterEnd ==
    ASSUME FramesInv, TracingInv, InterEnd
    PROVE  TracingInv'
<1>1. /\ mode = "run" /\ mode \in Going /\ Running.calltype \in Inner /\ DoneInterStr
      /\ tracing' = (IF Running.calltype = "INTERACTIVE" THEN Loud(Running.trace) ELSE tracing)
  BY DEF InterEnd, Idle, Going
<1>2. Running.ip \in Places /\ Layered(proc, codelen)
  BY Here DEF FrameType, Sound
<1>3. Running.ip.seg <= Running.codelen
  BY <1>1, <1>2, Here DEF Layered, Running, rx
<1>4. /\ rx > 1 /\ Len(proc') = rx - 1 /\ proc'[rx - 1].trace = Running.trace
      /\ \A k \in 1..(rx - 1) : proc'[k].calltype = proc[k].calltype
  BY <1>1, <1>2, <1>3, DoneSound
<1> QED BY <1>1, <1>4, ForceDone DEF TracingInv

LEMMA ForceTrap ==
    ASSUME FramesInv, TracingInv, Trap
    PROVE  TracingInv'
<1>1. mode = "trap" /\ mode \in Going /\ tracing' = tracing
  BY DEF Trap, Going
<1>2. CASE Running.calltype = "INTERPRET" /\ DoneInterStr
  <2>1. Running.calltype \in Inner /\ Main \in Places /\ Main.seg <= Running.codelen
    BY <1>2, Here, FrameInts, MainPlace DEF Inner
  <2>2. /\ rx > 1 /\ Len(proc') = rx - 1 /\ proc'[rx - 1].trace = Running.trace
        /\ \A k \in 1..(rx - 1) : proc'[k].calltype = proc[k].calltype
    BY <1>1, <1>2, <2>1, DoneSound
  <2> QED BY <1>1, <1>2, <2>2, ForceDone DEF TracingInv
<1>3. CASE proc' = Update(proc, [Running EXCEPT !.held = 0])
  <2> DEFINE f == [Running EXCEPT !.held = 0]
  <2>1. Running \in FrameType
    BY Here
  <2>2. f \in FrameType
    BY <2>1, SettingTypes
  <2>3. Reset(f) /\ f.trace = Running.trace
    BY <2>1, <2>2 DEF Reset, FrameType
  <2> HIDE DEF f
  <2>4. LET q == Update(proc, f)
        IN  q \in Table /\ Settled(proc, q) /\ Len(q) = rx /\ q[rx] = f
    BY <2>3, ResetTable
  <2>5. InForce(proc', mode', tracing')
    BY <1>1, <1>3, <2>3, <2>4, Here, ForceSettled DEF TracingInv, Running, rx, f
  <2> QED BY <2>5 DEF TracingInv
<1> QED BY <1>2, <1>3 DEF Trap

LEMMA ForceSignal ==
    ASSUME FramesInv, TracingInv, Signal
    PROVE  TracingInv'
<1>1. mode = "run" /\ tracing' = tracing
  BY DEF Signal, Idle
<1>2. CASE proc' = Update(proc, [Running EXCEPT !.held = 0])
  <2>1. LET f == [Running EXCEPT !.held = 0] IN Reset(f) /\ f.trace = Running.trace
    BY Here, SettingTypes DEF Reset, FrameType
  <2> QED BY <1>1, <1>2, <2>1, ForceReset
<1>3. CASE Take(Rerror(proc))
  BY <1>1, <1>3, ForceTook
<1> QED BY <1>2, <1>3 DEF Signal

\* What returns or goes on after an activation was left is traced as it asks.
LEMMA ForceLeave ==
    ASSUME FramesInv, ReturnProc \/ Unwind \/ RunExit \/ Exit
    PROVE  TracingInv'
<1>1. CASE ReturnProc
  <2>1. rx > 1 /\ Below(rx) = proc[rx - 1] /\ proc \in Table
    BY <1>1, Here, NotFirst DEF ReturnProc
  <2>2. proc' = Pop(proc) /\ tracing' = Loud(Below(rx).trace)
    BY <1>1 DEF ReturnProc, Leave
  <2>3. Len(proc') = rx - 1 /\ rx - 1 \in 1..(rx - 1) /\ proc'[rx - 1] = proc[rx - 1]
    BY <2>1, <2>2, Here, PopFacts DEF rx
  <2> QED BY <2>1, <2>2, <2>3 DEF TracingInv, InForce
<1>2. CASE Unwind \/ RunExit \/ Exit
  <2>1. mode' \in {"exit", "end"}
    BY <1>2 DEF Unwind, RunExit, Exit
  <2> QED BY <2>1 DEF TracingInv, InForce
<1> QED BY <1>1, <1>2

LEMMA ForceReturn ==
    ASSUME FramesInv, TracingInv, IExit \/ \E data \in BOOLEAN : Return(data)
    PROVE  TracingInv'
<1>1. mode = "run" /\ mode \in Going /\ tracing' = tracing
  BY DEF IExit, Return, Idle, Going
<1>2. CASE Take(Rerror(proc))
  BY <1>1, <1>2, ForceTook
<1>3. CASE UNCHANGED proc
  BY <1>1, <1>3, ForceSame
<1> QED BY <1>2, <1>3 DEF IExit, Return

LEMMA ForcePush ==
    ASSUME FramesInv, TracingInv, \/ Push \/ Drop \/ Error \/ Proc \/ ResetClock \/ RxHaltTrap
                                  \/ \E c \in Conditions : Condition(c)
    PROVE  TracingInv'
<1>1. mode = "run" /\ mode \in Going /\ tracing' = tracing
  BY DEF Push, Drop, Error, Proc, ResetClock, RxHaltTrap, Condition, Idle, Going
<1>2. Running.condition \subseteq Conditions
  BY Here DEF FrameType
<1>3. \/ UNCHANGED proc \/ Take(Rerror(proc))
      \/ \E c \in Conditions : Take(RxSignalCondition(proc, c))
  BY <1>2 DEF Push, Drop, Error, Proc, ResetClock, RxHaltTrap, Condition
<1> QED BY <1>1, <1>3, ForceSame, ForceTook

LEMMA ForceNext ==
    ASSUME LinesCompile, FramesInv, TracingInv, [Next]_vars
    PROVE  TracingInv'
<1>1. CASE \/ Push \/ Drop \/ Error \/ Proc \/ ResetClock \/ RxHaltTrap
           \/ \E c \in Conditions \cap {"NOVALUE", "NOTREADY"} : Condition(c)
  BY <1>1, ForcePush
<1>2. CASE Address \/ Trace \/ TracePoll \/ Digits \/ Fuzz \/ Set
  BY <1>2, ForceAddress, ForceTrace, ForceSettings
<1>3. CASE NewClause \/ Interpret \/ InterEnd \/ Signal
  BY <1>3, ForceNewClause, ForceInterpret, ForceInterEnd, ForceSignal
<1>4. CASE \E type \in {"PROCEDURE", "FUNCTION"}, n \in Arities, isproc \in BOOLEAN :
              Call(type, n, isproc)
  BY <1>4, ForceCall
<1>5. CASE Exit \/ IExit \/ (\E data \in BOOLEAN : Return(data)) \/ (\E rc \in Codes : Command(rc))
  BY <1>5, ForceLeave, ForceReturn, ForceCommand
<1>6. CASE Loops
  BY <1>6, ForceTrap, ForceLeave DEF Loops
<1>7. CASE UNCHANGED vars
  BY <1>7 DEF vars, TracingInv
<1> QED BY <1>1, <1>2, <1>3, <1>4, <1>5, <1>6, <1>7 DEF Next

LEMMA ForceInit == Init => TracingInv
<1> SUFFICES ASSUME Init PROVE TracingInv
  OBVIOUS
<1>1. PICK f : Fresh(f) /\ proc = <<f>>
  BY FirstFrame
<1>2. Len(proc) = 1 /\ tracing = Loud(proc[1].trace)
  BY <1>1 DEF Init
<1> QED BY <1>2 DEF TracingInv, InForce

\* Unless a program that traps SYNTAX is given a line at the console that does
\* not compile, clauses are traced whenever the TRACE setting of the running
\* activation says so, after every call, text, trap and return (trace.c:313).
THEOREM TracingKept == LinesCompile => (Spec => []TracingInForce)
<1> SUFFICES ASSUME LinesCompile PROVE Spec => []TracingInForce
  OBVIOUS
<1>1. Init => FramesInv /\ TracingInv
  BY InitInv, ForceInit
<1>2. (FramesInv /\ TracingInv) /\ [Next]_vars => (FramesInv /\ TracingInv)'
  BY NextInv, ForceNext
<1>3. TracingInv => TracingInForce
  BY DEF TracingInv, InForce, TracingInForce, Running, rx
<1> QED BY <1>1, <1>2, <1>3, PTL DEF Spec
==============================================================================
