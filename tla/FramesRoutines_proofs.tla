------------------------ MODULE FramesRoutines_proofs ------------------------
(* The table of activations keeps the promises of calls: every step of the *)
(* interpreter is a step of Routines, for every program and depth.         *)
EXTENDS FramesRoutines, Frames_proofs, FiniteSetTheorems

-----------------------------------------------------------------------------
(* The i-th element of a set of numbers is the one with i - 1 below it.    *)

Rank(S, k) == Cardinality({j \in S : j < k})

LEMMA RankFacts ==
    ASSUME NEW n \in Nat, NEW S \in SUBSET (1..n)
    PROVE  /\ IsFiniteSet(S) /\ Cardinality(S) \in Nat
           /\ \A k : IsFiniteSet({j \in S : j < k}) /\ Rank(S, k) \in Nat
<1>1. IsFiniteSet(1..n)
  BY FS_Interval
<1>2. \A T \in SUBSET (1..n) : IsFiniteSet(T) /\ Cardinality(T) \in Nat
  BY <1>1, FS_Subset, FS_CardinalityType
<1>3. \A k : {j \in S : j < k} \in SUBSET (1..n)
  OBVIOUS
<1> QED BY <1>2, <1>3 DEF Rank

LEMMA UnderFacts ==
    ASSUME NEW S \in SUBSET Int, NEW k \in Int, NEW l \in Int, k < l
    PROVE  /\ {j \in S : j < k} \subseteq {j \in S : j < l}
           /\ {i \in {j \in S : j < l} : i < k} = {j \in S : j < k}
<1>1. \A j \in S : j < k => j < l
  <2>1. TAKE j \in S
  <2>2. j \in Int
    OBVIOUS
  <2> QED BY ONLY <2>2, k \in Int, l \in Int, k < l
<1> QED BY ONLY <1>1

LEMMA RankRises ==
    ASSUME NEW n \in Nat, NEW S \in SUBSET (1..n), NEW k \in S
    PROVE  /\ Rank(S, k) < Cardinality(S)
           /\ \A l \in S : k < l => Rank(S, k) < Rank(S, l)
<1> DEFINE Under(l) == {j \in S : j < l}
<1>1. k \in Int /\ ~ (k < k)
  OBVIOUS
<1>2. ASSUME NEW T \in SUBSET S, IsFiniteSet(T), k \in T, Under(k) \subseteq T
      PROVE  Rank(S, k) < Cardinality(T)
  <2>1. Under(k) \in SUBSET T /\ Under(k) # T
    BY <1>1, <1>2
  <2>3. Cardinality(Under(k)) \in Nat /\ Cardinality(T) \in Nat
    BY <1>2, RankFacts, FS_CardinalityType DEF Rank
  <2> HIDE DEF Under
  <2>2. Cardinality(Under(k)) <= Cardinality(T) /\ Cardinality(Under(k)) # Cardinality(T)
    BY ONLY <1>2, <2>1, FS_Subset
  <2>4. Cardinality(Under(k)) < Cardinality(T)
    BY ONLY <2>2, <2>3
  <2> QED BY <2>4 DEF Rank, Under
<1>3. Rank(S, k) < Cardinality(S)
  BY <1>2, RankFacts
<1>4. ASSUME NEW l \in S, k < l PROVE Rank(S, k) < Rank(S, l)
  <2>0. l \in Int /\ k \in Int /\ \A j \in S : j \in Int
    OBVIOUS
  <2>1. k \in Under(l) /\ Under(k) \subseteq Under(l) /\ Under(l) \in SUBSET S
    BY <1>4, <2>0, UnderFacts
  <2>2. IsFiniteSet(Under(l))
    BY RankFacts
  <2>3. Rank(S, k) < Cardinality(Under(l))
    BY <1>2, <2>1, <2>2
  <2> QED BY <2>3 DEF Rank
<1> QED BY <1>3, <1>4

\* The last element has all others below it.
LEMMA LastRank ==
    ASSUME NEW n \in Nat, NEW S \in SUBSET (1..n), S # {}
    PROVE  \E k \in S : Rank(S, k) = Cardinality(S) - 1
<1> DEFINE Gaps == {m \in Nat : m <= n /\ n - m \in S}
<1>1. PICK s \in S : s \in 1..n
  OBVIOUS
<1>2. n - s \in Nat /\ n - s <= n /\ n - (n - s) = s
  BY <1>1
<1>3. n - s \in Gaps /\ Gaps \subseteq Nat /\ Gaps # {}
  BY <1>1, <1>2
<1> HIDE DEF Gaps
<1>4. PICK m \in Gaps : \A y \in Gaps : <<y, m>> \notin OpToRel(<, Nat)
  BY <1>3, WFMin, NatLessThanWellFounded, Zenon
<1>5. \A y \in Gaps : ~ (y < m)
  BY <1>3, <1>4, Zenon DEF OpToRel
<1> DEFINE k == n - m
<1>6. k \in S /\ m \in Nat /\ m <= n
  BY <1>4 DEF Gaps
<1>7. ASSUME NEW j \in S, j # k PROVE j < k
  <2>1. j \in 1..n /\ n - j \in Nat /\ n - j <= n /\ n - (n - j) = j
    OBVIOUS
  <2>2. n - j \in Gaps
    BY <2>1 DEF Gaps
  <2>3. ~ (n - j < m)
    BY <1>5, <2>2
  <2> QED BY <1>6, <1>7, <2>1, <2>3
<1>8. k \in Int /\ ~ (k < k)
  BY <1>6
<1> HIDE DEF k
<1>9. {j \in S : j < k} = S \ {k}
  BY <1>7, <1>8
<1>10. IsFiniteSet(S)
  BY RankFacts
<1>11. Cardinality(S \ {k}) = Cardinality(S) - 1
  BY <1>6, <1>10, FS_RemoveElement
<1> QED BY <1>6, <1>9, <1>11 DEF Rank

LEMMA Enumerated ==
    ASSUME NEW n \in Nat, NEW S \in SUBSET (1..n), NEW i \in 1..Cardinality(S)
    PROVE  \E k \in S : Rank(S, k) = i - 1
<1> DEFINE Late == {m \in Nat : m \in S /\ Rank(S, m) >= i - 1}
<1>1. Cardinality(S) \in Nat /\ i \in Nat /\ 1 <= i /\ i <= Cardinality(S)
  BY RankFacts
<1>2. S # {}
  BY <1>1, FS_EmptySet
<1>3. PICK l \in S : Rank(S, l) = Cardinality(S) - 1
  BY <1>2, LastRank
<1>4. l \in Late /\ Late \subseteq Nat /\ Late # {}
  BY <1>1, <1>3
<1> HIDE DEF Late
<1>5. PICK k \in Late : \A y \in Late : <<y, k>> \notin OpToRel(<, Nat)
  BY <1>4, WFMin, NatLessThanWellFounded, Zenon
<1>6. \A y \in Late : ~ (y < k)
  BY <1>4, <1>5, Zenon DEF OpToRel
<1>7. k \in S /\ k \in Nat /\ Rank(S, k) >= i - 1
  BY <1>5 DEF Late
<1> DEFINE T == {j \in S : j < k}
<1>8. /\ T \in SUBSET (1..n) /\ Cardinality(T) = Rank(S, k) /\ Rank(S, k) \in Nat
      /\ IsFiniteSet(T)
  BY RankFacts DEF Rank
<1>9. ASSUME Rank(S, k) # i - 1 PROVE FALSE
  <2>1. Rank(S, k) >= i /\ Rank(S, k) # 0
    BY <1>1, <1>7, <1>8, <1>9
  <2>2. T # {}
    BY ONLY <1>8, <2>1, FS_EmptySet
  <2>3. PICK t \in T : Rank(T, t) = Cardinality(T) - 1
    BY <1>8, <2>2, LastRank
  <2>4. t \in S /\ t < k /\ t \in Nat /\ t \in 1..n
    <3>1. t \in S /\ t < k
      OBVIOUS
    <3>2. \A j \in 1..n : j \in Nat
      OBVIOUS
    <3> QED BY <3>1, <3>2
  <2>5. {j \in T : j < t} = {j \in S : j < t}
    <3>1. S \in SUBSET Int /\ t \in Int /\ k \in Int /\ t < k
      BY <1>7, <2>4
    <3> QED BY ONLY <3>1, UnderFacts
  <2>6. Rank(S, t) = Rank(S, k) - 1
    BY <1>8, <2>3, <2>5 DEF Rank
  <2>7. Rank(S, t) >= i - 1
    BY <1>1, <1>8, <2>1, <2>6
  <2>8. t \in Late
    BY <2>4, <2>7 DEF Late
  <2> QED BY <1>6, <2>4, <2>8
<1> QED BY <1>7, <1>9
-----------------------------------------------------------------------------
(* The routines of a table p of activations, as in FramesRoutines.         *)

StartsIn(p) == {k \in 1..Len(p) : k = 1 \/ p[k].calltype \notin Inner}
Count(p)    == Cardinality(StartsIn(p))
StartOf(p, i) == CHOOSE k \in StartsIn(p) : Rank(StartsIn(p), k) = i - 1
TopOf(p, i)   == IF i = Count(p) THEN Len(p) ELSE StartOf(p, i + 1) - 1

RoutineAt(p, i) ==
    [kind |-> p[StartOf(p, i)].calltype, resume |-> p[StartOf(p, i)].stack,
     settings |-> SettingsOf(p[TopOf(p, i)])]

RoutinesIn(p) == [i \in 1..Count(p) |-> RoutineAt(p, i)]

LEMMA RoutinesHere ==
    RoutinesOf = RoutinesIn(proc) /\ RoutinesOf' = RoutinesIn(proc')
<1>1. Starts = StartsIn(proc) /\ Starts' = StartsIn(proc')
  BY DEF Starts, StartsIn, rx
<1>2. \A i : Start(i) = StartOf(proc, i) /\ Start(i)' = StartOf(proc', i)
  BY <1>1 DEF Start, StartOf, Rank
<1>3. \A i : Topmost(i) = TopOf(proc, i) /\ Topmost(i)' = TopOf(proc', i)
  BY <1>1, <1>2 DEF Topmost, TopOf, Count, rx
<1> QED BY <1>1, <1>2, <1>3 DEF RoutinesOf, RoutinesIn, RoutineAt, Count

LEMMA CountFacts ==
    ASSUME NEW p \in Table
    PROVE  /\ StartsIn(p) \in SUBSET (1..Len(p)) /\ 1 \in StartsIn(p)
           /\ Len(p) \in Nat /\ Count(p) \in Nat /\ Count(p) >= 1
           /\ Count(p) \in 1..Count(p)
<1>1. Len(p) \in Nat /\ Len(p) >= 1 /\ StartsIn(p) \in SUBSET (1..Len(p)) /\ 1 \in StartsIn(p)
  BY TableFacts DEF StartsIn
<1>2. Count(p) \in Nat
  BY <1>1, RankFacts DEF Count
<1>3. Rank(StartsIn(p), 1) < Count(p) /\ Rank(StartsIn(p), 1) \in Nat
  BY <1>1, RankFacts, RankRises DEF Count
<1> QED BY <1>1, <1>2, <1>3

\* There is just one activation that starts the i-th routine.
LEMMA StartFacts ==
    ASSUME NEW p \in Table, NEW i \in 1..Count(p)
    PROVE  /\ StartOf(p, i) \in StartsIn(p) /\ StartOf(p, i) \in 1..Len(p)
           /\ \A k \in StartsIn(p) : Rank(StartsIn(p), k) = i - 1 => k = StartOf(p, i)
<1> DEFINE S == StartsIn(p)
           s == StartOf(p, i)
<1>1. S \in SUBSET (1..Len(p)) /\ Len(p) \in Nat
  BY CountFacts
<1>2. \E k \in S : Rank(S, k) = i - 1
  BY <1>1, Enumerated DEF Count
<1>3. s \in S /\ Rank(S, s) = i - 1
  BY <1>2 DEF StartOf
<1> HIDE DEF s, S
<1>4. ASSUME NEW k \in S, Rank(S, k) = i - 1 PROVE k = s
  <2>1. k \in Int /\ s \in Int /\ Rank(S, k) \in Nat
    <3>1. \A a : Rank(S, a) \in Nat
      BY ONLY <1>1, RankFacts
    <3>2. \A a \in S : a \in Int
      BY ONLY <1>1
    <3> QED BY <1>3, <3>1, <3>2
  <2>2. \A a, b \in S : a < b => Rank(S, a) < Rank(S, b)
    BY ONLY <1>1, RankRises
  <2>3. ~ (k < s)
    BY ONLY <1>3, <1>4, <2>1, <2>2, k \in S
  <2>4. ~ (s < k)
    BY ONLY <1>3, <1>4, <2>1, <2>2, k \in S
  <2> QED BY ONLY <2>1, <2>3, <2>4
<1> QED BY <1>1, <1>3, <1>4 DEF s, S

\* The first routine starts at the bottom; each starts above those before.
LEMMA StartsRise ==
    ASSUME NEW p \in Table, NEW i \in 1..Count(p), NEW j \in 1..Count(p), i < j
    PROVE  StartOf(p, i) < StartOf(p, j)
<1> DEFINE S == StartsIn(p)
           a == StartOf(p, i)
           b == StartOf(p, j)
<1>1. S \in SUBSET (1..Len(p)) /\ Len(p) \in Nat /\ Count(p) \in Nat
  BY CountFacts
<1>2. a \in S /\ b \in S /\ Rank(S, a) = i - 1 /\ Rank(S, b) = j - 1
  <2>1. (\E k \in S : Rank(S, k) = i - 1) /\ (\E k \in S : Rank(S, k) = j - 1)
    BY <1>1, Enumerated DEF Count
  <2> QED BY <2>1 DEF StartOf
<1>3. a \in Int /\ b \in Int /\ i \in Int /\ j \in Int
  BY <1>1, <1>2
<1> HIDE DEF a, b, S
<1>4. a # b
  BY <1>2, <1>3
<1>5. ~ (b < a)
  <2>1. ASSUME b < a PROVE FALSE
    <3>1. Rank(S, b) < Rank(S, a)
      BY <1>1, <1>2, <2>1, RankRises
    <3> QED BY <1>2, <1>3, <3>1
  <2> QED BY <2>1
<1> QED BY <1>3, <1>4, <1>5 DEF a, b
LEMMA TopFacts ==
    ASSUME NEW p \in Table, NEW i \in 1..Count(p)
    PROVE  /\ TopOf(p, i) \in 1..Len(p)
           /\ i # Count(p) => TopOf(p, i) \in 1..(Len(p) - 1)
           /\ i = Count(p) => TopOf(p, i) = Len(p)
<1>1. Count(p) \in Nat /\ Len(p) \in Nat /\ Len(p) \in 1..Len(p)
  BY CountFacts, TableFacts
<1>2. ASSUME i # Count(p)
      PROVE  TopOf(p, i) \in 1..(Len(p) - 1)
  <2>1. i + 1 \in 1..Count(p) /\ i < i + 1
    BY <1>1, <1>2
  <2>2. /\ StartOf(p, i) \in 1..Len(p) /\ StartOf(p, i + 1) \in 1..Len(p)
        /\ StartOf(p, i) < StartOf(p, i + 1)
    BY <2>1, StartFacts, StartsRise
  <2>3. StartOf(p, i + 1) - 1 \in 1..(Len(p) - 1)
    BY ONLY <1>1, <2>2
  <2> QED BY <1>2, <2>3 DEF TopOf
<1>3. \A x \in 1..(Len(p) - 1) : x \in 1..Len(p)
  BY <1>1
<1> QED BY <1>1, <1>2, <1>3 DEF TopOf

-----------------------------------------------------------------------------
(* Work of the running routine, and a routine more.                        *)

\* q has the routines of p, the last with other settings perhaps.
Same(p, q) ==
    /\ Count(q) = Count(p)
    /\ \A i \in 1..(Count(p) - 1) : RoutineAt(q, i) = RoutineAt(p, i)
    /\ q[StartOf(q, Count(p))].calltype = p[StartOf(p, Count(p))].calltype
    /\ q[StartOf(q, Count(p))].stack = p[StartOf(p, Count(p))].stack

\* q has one routine more than p.
More(p, q) ==
    /\ Count(q) = Count(p) + 1
    /\ \A i \in 1..Count(p) : RoutineAt(q, i) = RoutineAt(p, i)

LEMMA SameTrans ==
    ASSUME NEW p, NEW q, NEW r
    PROVE  /\ Same(p, p) /\ (Same(p, q) => Same(q, p))
           /\ (Same(p, q) /\ Same(q, r) => Same(p, r))
BY DEF Same

LEMMA MoreSame ==
    ASSUME NEW p \in Table, NEW q, NEW r, More(p, q), Same(q, r)
    PROVE  More(p, r)
<1>1. Count(p) \in Nat /\ Count(q) = Count(p) + 1 /\ Count(r) = Count(q)
  BY CountFacts DEF More, Same
<1>2. \A i \in 1..Count(p) : i \in 1..(Count(q) - 1)
  BY <1>1
<1> QED BY <1>1, <1>2 DEF More, Same

\* q differs from p in settings of the topmost activation.
Alike(p, q) ==
    /\ q \in Table /\ Len(q) = Len(p)
    /\ \A k \in 1..Len(p) : q[k].calltype = p[k].calltype /\ q[k].stack = p[k].stack
    /\ \A k \in 1..(Len(p) - 1) : SettingsOf(q[k]) = SettingsOf(p[k])

LEMMA AlikeSame ==
    ASSUME NEW p \in Table, NEW q, Alike(p, q)
    PROVE  Same(p, q) /\ StartOf(q, Count(q)) = StartOf(p, Count(p))
<1>1. StartsIn(q) = StartsIn(p)
  BY DEF StartsIn, Alike
<1>2. Count(q) = Count(p) /\ \A i : StartOf(q, i) = StartOf(p, i)
  BY <1>1 DEF Count, StartOf
<1>3. \A i : TopOf(q, i) = TopOf(p, i)
  BY <1>2 DEF TopOf, Alike
<1>4. /\ Count(p) \in Nat /\ Count(p) \in 1..Count(p)
      /\ \A i \in 1..(Count(p) - 1) : i \in 1..Count(p) /\ i # Count(p)
  <2>1. Count(p) \in Nat /\ Count(p) \in 1..Count(p)
    BY CountFacts
  <2> QED BY <2>1
<1>5. ASSUME NEW i \in 1..(Count(p) - 1) PROVE RoutineAt(q, i) = RoutineAt(p, i)
  <2>1. StartOf(p, i) \in 1..Len(p) /\ TopOf(p, i) \in 1..(Len(p) - 1)
    BY <1>4, StartFacts, TopFacts
  <2> QED BY <1>2, <1>3, <2>1 DEF RoutineAt, Alike
<1>6. StartOf(p, Count(p)) \in 1..Len(p)
  BY <1>4, StartFacts
<1> QED BY <1>2, <1>5, <1>6 DEF Same, Alike

\* q has one activation more than p.
Above(p, q) ==
    q \in Table /\ Len(q) = Len(p) + 1 /\ \A k \in 1..Len(p) : q[k] = p[k]

LEMMA TextSame ==
    ASSUME NEW p \in Table, NEW q, Above(p, q), q[Len(q)].calltype \in Inner
    PROVE  Same(p, q)
<1>0. /\ Len(p) \in Nat /\ Len(p) >= 1 /\ q \in Table /\ Len(q) = Len(p) + 1
      /\ \A k \in 1..Len(p) : q[k] = p[k] /\ k \in 1..Len(q)
      /\ \A k \in 1..Len(q) : k = Len(q) \/ k \in 1..Len(p)
      /\ Len(q) # 1
  BY TableFacts DEF Above
<1>1. StartsIn(q) = StartsIn(p)
  BY <1>0 DEF StartsIn
<1>2. Count(q) = Count(p) /\ \A i : StartOf(q, i) = StartOf(p, i)
  BY <1>1 DEF Count, StartOf
<1>3. /\ Count(p) \in Nat /\ Count(p) \in 1..Count(p)
      /\ \A i \in 1..(Count(p) - 1) : i \in 1..Count(p) /\ i # Count(p)
  <2>1. Count(p) \in Nat /\ Count(p) \in 1..Count(p)
    BY CountFacts
  <2> QED BY <2>1
<1>4. \A k \in 1..(Len(p) - 1) : k \in 1..Len(p)
  BY <1>0
<1>5. ASSUME NEW i \in 1..(Count(p) - 1) PROVE RoutineAt(q, i) = RoutineAt(p, i)
  <2>1. StartOf(p, i) \in 1..Len(p) /\ TopOf(p, i) \in 1..Len(p)
    BY <1>3, StartFacts, TopFacts
  <2>2. TopOf(q, i) = TopOf(p, i)
    BY <1>2, <1>3 DEF TopOf
  <2> QED BY <1>0, <1>2, <2>1, <2>2 DEF RoutineAt
<1>6. StartOf(p, Count(p)) \in 1..Len(p)
  BY <1>3, StartFacts
<1> QED BY <1>0, <1>2, <1>5, <1>6 DEF Same

LEMMA RoutineMore ==
    ASSUME NEW p \in Table, NEW q, Above(p, q), q[Len(q)].calltype \notin Inner
    PROVE  More(p, q) /\ StartOf(q, Count(q)) = Len(q)
<1>0. /\ Len(p) \in Nat /\ Len(p) >= 1 /\ q \in Table /\ Len(q) = Len(p) + 1
      /\ \A k \in 1..Len(p) : q[k] = p[k] /\ k \in 1..Len(q) /\ k < Len(q) /\ k # Len(q)
      /\ \A k \in 1..Len(q) : k = Len(q) \/ k \in 1..Len(p)
      /\ Len(q) \in 1..Len(q)
  BY TableFacts DEF Above
<1>1. StartsIn(q) = StartsIn(p) \cup {Len(q)}
  BY <1>0 DEF StartsIn
<1>2. /\ StartsIn(p) \in SUBSET (1..Len(p)) /\ Count(p) \in Nat /\ Count(p) \in 1..Count(p)
      /\ Len(q) \notin StartsIn(p) /\ IsFiniteSet(StartsIn(p))
  BY <1>0, CountFacts, RankFacts
<1>3. Count(q) = Count(p) + 1
  BY <1>1, <1>2, FS_AddElement DEF Count
<1>4. Rank(StartsIn(q), Len(q)) = Count(p)
  <2>1. ~ (Len(q) < Len(q)) /\ \A k \in StartsIn(p) : k < Len(q)
    BY <1>0, <1>2
  <2>2. {j \in StartsIn(q) : j < Len(q)} = StartsIn(p)
    BY <1>1, <2>1
  <2> QED BY <2>2 DEF Rank, Count
<1>5. ASSUME NEW k \in StartsIn(p) PROVE Rank(StartsIn(q), k) = Rank(StartsIn(p), k)
  <2>1. k \in 1..Len(p)
    BY <1>2
  <2>2. ~ (Len(q) < k)
    BY <1>0, <2>1
  <2>3. {j \in StartsIn(q) : j < k} = {j \in StartsIn(p) : j < k}
    BY <1>1, <2>2
  <2> QED BY <2>3 DEF Rank
<1>6. /\ \A i \in 1..Count(p) : i \in 1..Count(q) /\ i # Count(q)
                                /\ (i # Count(p) => i + 1 \in 1..Count(p))
      /\ Count(q) \in 1..Count(q) /\ Count(q) - 1 = Count(p)
  BY <1>2, <1>3
<1>7. StartOf(q, Count(q)) = Len(q)
  BY <1>0, <1>1, <1>4, <1>6, StartFacts
<1>8. ASSUME NEW i \in 1..Count(p) PROVE StartOf(q, i) = StartOf(p, i)
  <2>1. \E k \in StartsIn(p) : Rank(StartsIn(p), k) = i - 1
    BY <1>0, <1>2, Enumerated DEF Count
  <2>2. StartOf(p, i) \in StartsIn(p) /\ Rank(StartsIn(p), StartOf(p, i)) = i - 1
    BY <2>1 DEF StartOf
  <2>3. StartOf(p, i) \in StartsIn(q) /\ Rank(StartsIn(q), StartOf(p, i)) = i - 1
    BY <1>1, <1>5, <2>2
  <2> QED BY <1>0, <1>6, <2>3, StartFacts
<1>9. ASSUME NEW i \in 1..Count(p) PROVE RoutineAt(q, i) = RoutineAt(p, i)
  <2>1. TopOf(q, i) = TopOf(p, i)
    <3>1. CASE i = Count(p)
      <4>1. TopOf(q, i) = Len(q) - 1
        BY <1>3, <1>6, <1>7, <3>1 DEF TopOf
      <4> QED BY <1>0, <3>1, <4>1 DEF TopOf
    <3>2. CASE i # Count(p)
      BY <1>6, <1>8, <3>2 DEF TopOf
    <3> QED BY <3>1, <3>2
  <2>2. StartOf(p, i) \in 1..Len(p) /\ TopOf(p, i) \in 1..Len(p)
    BY StartFacts, TopFacts
  <2> QED BY <1>0, <1>8, <2>1, <2>2 DEF RoutineAt
<1> QED BY <1>3, <1>7, <1>9 DEF More
-----------------------------------------------------------------------------
(* Steps of the table that are steps of Routines.                          *)

RoutineType == [kind : Kinds \cup Inner, resume : Int, settings : AllSettings]

LEMMA SettingsType ==
    ASSUME NEW f \in FrameType
    PROVE  SettingsOf(f) \in AllSettings
BY DEF FrameType, SettingsOf, AllSettings

LEMMA RoutinesSeq ==
    ASSUME NEW p \in Table
    PROVE  /\ RoutinesIn(p) \in Seq(RoutineType) /\ Len(RoutinesIn(p)) = Count(p)
           /\ \A i \in 1..Count(p) : RoutinesIn(p)[i] = RoutineAt(p, i)
<1>1. Count(p) \in Nat
  BY CountFacts
<1>2. ASSUME NEW i \in 1..Count(p) PROVE RoutineAt(p, i) \in RoutineType
  <2>1. p[StartOf(p, i)] \in FrameType /\ p[TopOf(p, i)] \in FrameType
    BY StartFacts, TopFacts, TableFacts
  <2>2. p[StartOf(p, i)].calltype \in Kinds \cup Inner /\ p[StartOf(p, i)].stack \in Int
    BY <2>1, FrameInts DEF FrameType
  <2> QED BY <2>1, <2>2, SettingsType DEF RoutineAt, RoutineType
<1> DEFINE f == RoutinesIn(p)
           m == Count(p)
<1>3. f \in [1..m -> RoutineType] /\ \A i \in 1..m : f[i] = RoutineAt(p, i)
  BY <1>2 DEF RoutinesIn
<1> HIDE DEF f, m
<1>4. f \in Seq(RoutineType)
  BY ONLY <1>1, <1>3 DEF m
<1>5. Len(f) = m
  BY <1>1, <1>3, <1>4, LenProperties DEF m
<1> QED BY <1>3, <1>4, <1>5 DEF f, m

LEMMA SamePart ==
    ASSUME NEW T, NEW r \in Seq(T), NEW s \in Seq(T), NEW m \in Nat,
           m <= Len(r), m <= Len(s), \A i \in 1..m : r[i] = s[i]
    PROVE  SubSeq(r, 1, m) = SubSeq(s, 1, m)
<1>1. /\ \A i \in 1..m : r[i] \in T /\ s[i] \in T
      /\ \A i \in 1..(m - 1 + 1) : i \in 1..m /\ 1 + i - 1 = i
  <2>1. \A i \in 1..m : i \in 1..Len(r) /\ i \in 1..Len(s)
    BY LenProperties
  <2> QED BY <2>1, ElementOfSeq
<1>2. /\ SubSeq(r, 1, m) \in Seq(T) /\ SubSeq(s, 1, m) \in Seq(T)
      /\ Len(SubSeq(r, 1, m)) = m /\ Len(SubSeq(s, 1, m)) = m
      /\ \A i \in 1..(m - 1 + 1) : SubSeq(r, 1, m)[i] = r[1 + i - 1]
                                   /\ SubSeq(s, 1, m)[i] = s[1 + i - 1]
  <2> DEFINE one == 1
  <2>1. one \in Int /\ m \in Int
    OBVIOUS
  <2> HIDE DEF one
  <2>2. \A i \in one..m : r[i] \in T /\ s[i] \in T
    BY <1>1 DEF one
  <2>3. /\ SubSeq(r, one, m) \in Seq(T) /\ SubSeq(s, one, m) \in Seq(T)
        /\ Len(SubSeq(r, one, m)) = IF one <= m THEN m - one + 1 ELSE 0
        /\ Len(SubSeq(s, one, m)) = IF one <= m THEN m - one + 1 ELSE 0
        /\ \A i \in 1..(m - one + 1) : SubSeq(r, one, m)[i] = r[one + i - 1]
        /\ \A i \in 1..(m - one + 1) : SubSeq(s, one, m)[i] = s[one + i - 1]
    BY <2>1, <2>2, SubSeqProperties
  <2> QED BY <2>3 DEF one
<1>3. \A i \in 1..m : SubSeq(r, 1, m)[i] = SubSeq(s, 1, m)[i]
  BY <1>1, <1>2
<1> QED BY <1>2, <1>3, SeqEqual

Ended(m) == m \in {"exit", "end"}

\* The lowest activation of the running routine.
Lowest(p) == p[StartOf(p, Count(p))]

WorkStep ==
    /\ proc \in Table /\ proc' \in Table /\ Same(proc, proc')
    /\ Ended(mode) => Ended(mode')
    /\ Ended(mode') \/ top' >= Lowest(proc).stack

EnterStep ==
    /\ proc \in Table /\ proc' \in Table /\ More(proc, proc')
    /\ ~ Ended(mode) /\ Lowest(proc').calltype \in {"PROCEDURE", "FUNCTION"}
    /\ Lowest(proc').stack \in Lowest(proc).stack..top
    /\ Lowest(proc').calltype = "PROCEDURE" => Lowest(proc').stack < top
    /\ R!Inherits(SettingsOf(proc[rx]), SettingsOf(proc'[Len(proc')]))
    /\ top' >= top /\ lNumericDigits' = lNumericDigits

LeaveStep ==
    /\ proc \in Table /\ proc' \in Table /\ More(proc', proc)
    /\ Ended(mode') <=> Ended(mode)
    /\ Ended(mode) \/ top' = Lowest(proc).stack
    /\ lNumericDigits' = proc'[Len(proc')].digits

LEMMA LastRoutine ==
    ASSUME NEW p \in Table
    PROVE  RoutineAt(p, Count(p)) =
             [kind |-> Lowest(p).calltype, resume |-> Lowest(p).stack,
              settings |-> SettingsOf(p[Len(p)])]
BY CountFacts, TopFacts DEF RoutineAt, Lowest

LEMMA Works == WorkStep => R!Work
<1> SUFFICES ASSUME WorkStep PROVE R!Work
  OBVIOUS
<1> DEFINE r == RoutinesIn(proc)
           s == RoutinesIn(proc')
           n == Count(proc)
<1>1. /\ r \in Seq(RoutineType) /\ s \in Seq(RoutineType) /\ Len(r) = n /\ Len(s) = n
      /\ n \in Nat /\ n > 0 /\ n \in 1..n
      /\ \A i \in 1..n : r[i] = RoutineAt(proc, i) /\ s[i] = RoutineAt(proc', i)
  BY RoutinesSeq, CountFacts DEF WorkStep, Same
<1>2. \A i \in 1..(n - 1) : i \in 1..n /\ s[i] = r[i]
  BY <1>1 DEF WorkStep, Same
<1>3. /\ r[n] = [kind |-> Lowest(proc).calltype, resume |-> Lowest(proc).stack,
                 settings |-> SettingsOf(proc[Len(proc)])]
      /\ s[n] = [kind |-> Lowest(proc').calltype, resume |-> Lowest(proc').stack,
                 settings |-> SettingsOf(proc'[Len(proc')])]
  BY <1>1, LastRoutine DEF WorkStep, Same
<1>4. /\ Lowest(proc').calltype = Lowest(proc).calltype
      /\ Lowest(proc').stack = Lowest(proc).stack
  BY DEF WorkStep, Same, Lowest
<1>5. s[n].settings \in AllSettings
  BY <1>1, <1>3, TableFacts, SettingsType DEF WorkStep
<1>6. s[n] = [r[n] EXCEPT !.settings = s[n].settings]
  BY <1>3, <1>4
<1>7. RoutinesOf = r /\ RoutinesOf' = s
  BY RoutinesHere
<1>8. r[n].resume = Lowest(proc).stack
  BY <1>3
<1> HIDE DEF r, s, n
<1>9. SubSeq(s, 1, n - 1) = SubSeq(r, 1, n - 1)
  <2>1. n - 1 \in Nat /\ n - 1 <= Len(r) /\ n - 1 <= Len(s)
    BY <1>1
  <2> DEFINE m == n - 1
  <2> HIDE DEF m
  <2>2. m \in Nat /\ m <= Len(r) /\ m <= Len(s) /\ \A i \in 1..m : s[i] = r[i]
    BY <1>2, <2>1 DEF m
  <2>3. SubSeq(s, 1, m) = SubSeq(r, 1, m)
    BY <1>1, <2>2, SamePart
  <2> QED BY <2>3 DEF m
<1>10. (Ended(mode) => Ended(mode')) /\ (Ended(mode') \/ top' >= r[n].resume)
  BY <1>8 DEF WorkStep
<1> QED BY <1>1, <1>5, <1>6, <1>7, <1>9, <1>10 DEF R!Work, R!n, Ended
LEMMA Enters == EnterStep => R!Enter
<1> SUFFICES ASSUME EnterStep PROVE R!Enter
  OBVIOUS
<1> DEFINE r == RoutinesIn(proc)
           s == RoutinesIn(proc')
           n == Count(proc)
<1>1. /\ r \in Seq(RoutineType) /\ s \in Seq(RoutineType) /\ Len(r) = n /\ Len(s) = n + 1
      /\ n \in Nat /\ n > 0 /\ n \in 1..n /\ n + 1 \in 1..(n + 1)
      /\ \A i \in 1..n : r[i] = RoutineAt(proc, i)
      /\ \A i \in 1..(n + 1) : s[i] = RoutineAt(proc', i)
  BY RoutinesSeq, CountFacts DEF EnterStep, More
<1>2. \A i \in 1..n : s[i] = r[i]
  <2>1. \A i \in 1..n : i \in 1..(n + 1)
    BY <1>1
  <2> QED BY <1>1, <2>1 DEF EnterStep, More
<1>3. /\ r[n] = [kind |-> Lowest(proc).calltype, resume |-> Lowest(proc).stack,
                 settings |-> SettingsOf(proc[rx])]
      /\ s[n + 1] = [kind |-> Lowest(proc').calltype, resume |-> Lowest(proc').stack,
                     settings |-> SettingsOf(proc'[Len(proc')])]
  BY <1>1, LastRoutine DEF EnterStep, More, rx
<1>4. RoutinesOf = r /\ RoutinesOf' = s
  BY RoutinesHere
<1>5. /\ s[n + 1].kind \in {"PROCEDURE", "FUNCTION"}
      /\ s[n + 1].resume \in r[n].resume..top
      /\ s[n + 1].kind = "PROCEDURE" => s[n + 1].resume < top
      /\ R!Inherits(r[n].settings, s[n + 1].settings)
      /\ ~ Ended(mode) /\ top' >= top /\ lNumericDigits' = lNumericDigits
  BY <1>3 DEF EnterStep
<1> HIDE DEF r, s, n
<1>6. SubSeq(s, 1, n) = SubSeq(r, 1, n)
  <2>1. n <= Len(r) /\ n <= Len(s)
    BY <1>1
  <2> QED BY <1>1, <1>2, <2>1, SamePart
<1>7. SubSeq(r, 1, n) = r
  BY <1>1, SubSeqFull
<1> QED BY <1>1, <1>4, <1>5, <1>6, <1>7 DEF R!Enter, R!n, Ended

LEMMA Leaves == LeaveStep => R!Leave
<1> SUFFICES ASSUME LeaveStep PROVE R!Leave
  OBVIOUS
<1> DEFINE r == RoutinesIn(proc)
           s == RoutinesIn(proc')
           n == Count(proc)
           m == Count(proc')
<1>1. /\ r \in Seq(RoutineType) /\ s \in Seq(RoutineType) /\ Len(r) = n /\ Len(s) = m
      /\ m \in Nat /\ m > 0 /\ n = m + 1 /\ n > 1 /\ n - 1 = m /\ m \in 1..m /\ n \in 1..n
      /\ \A i \in 1..n : r[i] = RoutineAt(proc, i)
      /\ \A i \in 1..m : s[i] = RoutineAt(proc', i)
  BY RoutinesSeq, CountFacts DEF LeaveStep, More
<1>2. \A i \in 1..m : s[i] = r[i]
  <2>1. \A i \in 1..m : i \in 1..n
    BY <1>1
  <2> QED BY <1>1, <2>1 DEF LeaveStep, More
<1>3. /\ r[n].resume = Lowest(proc).stack
      /\ s[m].settings = SettingsOf(proc'[Len(proc')])
  BY <1>1, LastRoutine DEF LeaveStep, More
<1>4. RoutinesOf = r /\ RoutinesOf' = s
  BY RoutinesHere
<1>5. /\ Ended(mode') <=> Ended(mode)
      /\ Ended(mode) \/ top' = r[n].resume
      /\ lNumericDigits' = s[m].settings.digits
  BY <1>3 DEF LeaveStep, SettingsOf
<1> HIDE DEF r, s, n, m
<1>6. SubSeq(s, 1, m) = SubSeq(r, 1, m)
  <2>1. m <= Len(r) /\ m <= Len(s)
    BY <1>1
  <2> QED BY <1>1, <1>2, <2>1, SamePart
<1>7. SubSeq(s, 1, m) = s
  BY <1>1, SubSeqFull
<1>8. r[n - 1].settings = s[m].settings
  BY <1>1, <1>2
<1> QED BY <1>1, <1>4, <1>5, <1>6, <1>7, <1>8 DEF R!Leave, R!n, Ended

-----------------------------------------------------------------------------
(* The operands of a routine rest on those it was called with.             *)

Resting(p) ==
    \A k \in 1..Len(p) : k = 1 \/ p[k].calltype \notin Inner => p[k].stack <= Floor(p[k])

LEMMA FloorsRise ==
    ASSUME NEW p \in Table, Stacked(p), NEW j \in 1..Len(p), NEW k \in 1..Len(p), j <= k
    PROVE  Floor(p[j]) <= Floor(p[k])
<1> DEFINE Low == {i \in Nat : i \in 1..Len(p) /\ j <= i /\ ~ (Floor(p[j]) <= Floor(p[i]))}
<1>1. Len(p) \in Nat /\ \A i \in 1..Len(p) : Floor(p[i]) \in Int /\ i \in Nat
  BY TableFacts, FrameInts
<1> SUFFICES ASSUME ~ (Floor(p[j]) <= Floor(p[k])) PROVE FALSE
  OBVIOUS
<1>2. k \in Low /\ Low \subseteq Nat /\ Low # {}
  BY <1>1
<1> HIDE DEF Low
<1>3. PICK i \in Low : \A y \in Low : <<y, i>> \notin OpToRel(<, Nat)
  BY <1>2, WFMin, NatLessThanWellFounded, Zenon
<1>4. \A y \in Low : ~ (y < i)
  BY <1>2, <1>3, Zenon DEF OpToRel
<1>5. i \in 1..Len(p) /\ i \in Nat /\ j <= i /\ ~ (Floor(p[j]) <= Floor(p[i]))
  BY <1>3 DEF Low
<1>6. i # j
  BY <1>1, <1>5
<1>7. i \in 2..Len(p) /\ i - 1 \in 1..Len(p) /\ j <= i - 1 /\ i - 1 < i /\ i - 1 \in Nat
  BY <1>1, <1>5, <1>6
<1>8. Floor(p[i]) >= Floor(p[i - 1])
  BY <1>7 DEF Stacked
<1>9. ~ (Floor(p[j]) <= Floor(p[i - 1]))
  BY <1>1, <1>5, <1>7, <1>8
<1>10. i - 1 \in Low
  BY <1>7, <1>9 DEF Low
<1> QED BY <1>4, <1>7, <1>10

LEMMA RestsOn ==
    ASSUME NEW p \in Table, Stacked(p), Resting(p)
    PROVE  /\ Lowest(p) \in FrameType /\ Lowest(p).stack \in Int
           /\ Lowest(p).stack <= Floor(p[Len(p)])
<1> DEFINE k == StartOf(p, Count(p))
<1>1. k \in StartsIn(p) /\ k \in 1..Len(p) /\ Len(p) \in 1..Len(p) /\ k <= Len(p)
  BY CountFacts, StartFacts, TableFacts
<1>2. p[k] \in FrameType /\ p[k].stack \in Int /\ Floor(p[k]) \in Int
      /\ Floor(p[Len(p)]) \in Int
  BY <1>1, TableFacts, FrameInts
<1>3. p[k].stack <= Floor(p[k])
  BY <1>1 DEF StartsIn, Resting
<1> HIDE DEF k, Floor
<1>4. Floor(p[k]) <= Floor(p[Len(p)])
  BY <1>1, FloorsRise
<1>5. p[k].stack <= Floor(p[Len(p)])
  BY ONLY <1>2, <1>3, <1>4
<1> QED BY <1>2, <1>5 DEF Lowest, k

LEMMA RestingKept ==
    ASSUME NEW p \in Table, NEW q \in Table, Settled(p, q), Resting(p)
    PROVE  Resting(q)
<1>1. Len(q) = Len(p) /\ Len(p) \in Nat
      /\ \A k \in 1..Len(p) : q[k].calltype = p[k].calltype /\ q[k].stack = p[k].stack
                              /\ p[k].stack \in Int /\ Floor(p[k]) \in Int
                              /\ Floor(q[k]) \in Int
  BY TableFacts, FrameInts DEF Settled, Texted, Floored
<1>2. \A k \in 1..Len(p) : k \in 1..(Len(p) - 1) \/ k = Len(p)
  BY <1>1
<1>3. \A k \in 1..Len(p) : Floor(q[k]) >= Floor(p[k])
  BY <1>1, <1>2 DEF Settled, Floored
<1> HIDE DEF Floor
<1> QED BY <1>1, <1>3 DEF Resting

LEMMA RestingAbove ==
    ASSUME NEW p \in Table, NEW q, Above(p, q)
    PROVE  /\ Resting(q) => Resting(p)
           /\ Resting(p) /\ (q[Len(q)].calltype \in Inner \/ q[Len(q)].stack <= Floor(q[Len(q)]))
                => Resting(q)
<1>1. /\ Len(p) \in Nat /\ Len(p) >= 1 /\ Len(q) = Len(p) + 1
      /\ \A k \in 1..Len(p) : q[k] = p[k] /\ k \in 1..Len(q)
  BY TableFacts DEF Above
<1>2. Len(q) # 1 /\ \A k \in 1..Len(q) : k \in 1..Len(p) \/ k = Len(q)
  BY <1>1
<1> HIDE DEF Floor
<1> QED BY <1>1, <1>2 DEF Resting
-----------------------------------------------------------------------------
(* Steps that change the topmost activation, or what it traps only.        *)

Topped(p, q) ==
    /\ q \in Table /\ Len(q) = Len(p)
    /\ \A k \in 1..(Len(p) - 1) : q[k] = p[k]
    /\ q[Len(p)].calltype = p[Len(p)].calltype /\ q[Len(p)].stack = p[Len(p)].stack
    /\ Floor(q[Len(p)]) >= Floor(p[Len(p)])

Lost(p, q) == Topped(p, q) /\ R!Inherits(SettingsOf(p[Len(p)]), SettingsOf(q[Len(p)]))

LEMMA ToppedFacts ==
    ASSUME NEW p \in Table, NEW q, Topped(p, q)
    PROVE  Alike(p, q) /\ (Resting(p) => Resting(q))
<1>1. Len(p) \in Nat /\ \A k \in 1..Len(p) : k \in 1..(Len(p) - 1) \/ k = Len(p)
  BY TableFacts
<1>2. Alike(p, q)
  BY <1>1 DEF Topped, Alike
<1>3. \A k \in 1..Len(p) : /\ p[k].stack \in Int /\ Floor(p[k]) \in Int /\ Floor(q[k]) \in Int
                           /\ k \in 1..Len(q)
  BY TableFacts, FrameInts DEF Topped
<1> HIDE DEF Floor
<1>4. \A k \in 1..Len(p) : Floor(q[k]) >= Floor(p[k])
  BY <1>1, <1>3 DEF Topped
<1>5. Resting(p) => Resting(q)
  BY <1>2, <1>3, <1>4 DEF Alike, Resting
<1> QED BY <1>2, <1>5

LEMMA ToppedTrans ==
    ASSUME NEW p \in Table, NEW q \in Table, NEW r, Topped(p, q), Topped(q, r)
    PROVE  Topped(p, r)
<1>1. Len(p) \in 1..Len(p) /\ r \in Table /\ Len(r) = Len(p) /\ Len(q) = Len(p)
  BY TableFacts DEF Topped
<1>2. /\ Floor(p[Len(p)]) \in Int /\ Floor(q[Len(p)]) \in Int /\ Floor(r[Len(p)]) \in Int
  BY <1>1, TableFacts, FrameInts
<1> HIDE DEF Floor
<1>3. Floor(r[Len(p)]) >= Floor(p[Len(p)])
  BY <1>1, <1>2 DEF Topped
<1> QED BY <1>1, <1>3 DEF Topped

LEMMA ToppedRefl ==
    ASSUME NEW p \in Table
    PROVE  Topped(p, p) /\ Lost(p, p)
<1>1. p[Len(p)] \in FrameType /\ Floor(p[Len(p)]) \in Int
  BY TableFacts, FrameInts
<1>2. Topped(p, p)
  BY <1>1 DEF Topped
<1>3. R!Inherits(SettingsOf(p[Len(p)]), SettingsOf(p[Len(p)]))
  BY <1>1, SettingsType DEF R!Inherits, SettingsOf
<1> QED BY <1>2, <1>3 DEF Lost

LEMMA UpdateTopped ==
    ASSUME NEW p \in Table, NEW f \in FrameType, NEW g, g = p[Len(p)],
           f.calltype = g.calltype, f.stack = g.stack, Floor(f) >= Floor(g)
    PROVE  Topped(p, Update(p, f))
<1>1. /\ Update(p, f) \in Table /\ Len(Update(p, f)) = Len(p)
      /\ Len(p) \in Nat /\ Len(p) \in 1..Len(p)
      /\ \A k \in 1..Len(p) : Update(p, f)[k] = IF k = Len(p) THEN f ELSE p[k]
  BY UpdateFacts, TableFacts
<1>2. \A k \in 1..(Len(p) - 1) : Update(p, f)[k] = p[k]
  BY <1>1
<1> QED BY <1>1, <1>2 DEF Topped

LEMMA DisableLost ==
    ASSUME NEW p \in Table, NEW c
    PROVE  Lost(p, Disable(p, c))
<1> DEFINE n == Len(p)
           g == p[n]
           f == [g EXCEPT !.condition = @ \ {c}]
<1>1. n \in 1..n /\ g \in FrameType /\ Floor(g) \in Int
  BY TableFacts, FrameInts
<1>2. g.condition \in SUBSET Conditions /\ g.condition \ {c} \in SUBSET Conditions
  BY <1>1 DEF FrameType
<1>3. f = [g EXCEPT !.condition = g.condition \ {c}]
  OBVIOUS
<1>4. f \in FrameType
  BY <1>1, <1>2, <1>3, SettingTypes
<1>5. /\ f.calltype = g.calltype /\ f.stack = g.stack /\ f.stacktop = g.stacktop
      /\ f.held = g.held /\ f.condition = g.condition \ {c}
      /\ f.digits = g.digits /\ f.fuzz = g.fuzz /\ f.form = g.form /\ f.trace = g.trace
      /\ f.interactive = g.interactive /\ f.lbl = g.lbl
  BY <1>1 DEF FrameType
<1>6. Disable(p, c) = Update(p, f)
  BY <1>1, TableFacts DEF Disable, Update
<1> HIDE DEF f
<1>7. Floor(f) >= Floor(g)
  BY <1>1, <1>5 DEF Floor
<1>8. Topped(p, Update(p, f)) /\ Update(p, f)[n] = f
  BY <1>1, <1>4, <1>5, <1>7, UpdateTopped, UpdateFacts
<1>9. /\ SettingsOf(f) = [SettingsOf(g) EXCEPT !.condition = g.condition \ {c}]
      /\ SettingsOf(f).condition = g.condition \ {c} /\ SettingsOf(g).condition = g.condition
  <2> DEFINE x == g.condition \ {c}
  <2> HIDE DEF x, g
  <2>1. SettingsOf(f) = [SettingsOf(g) EXCEPT !.condition = x]
    BY <1>5 DEF SettingsOf, x
  <2>2. SettingsOf(f).condition = x /\ SettingsOf(g).condition = g.condition
    BY <1>5 DEF SettingsOf, x
  <2> QED BY <2>1, <2>2 DEF x
<1>10. R!Inherits(SettingsOf(g), SettingsOf(f))
  BY <1>9 DEF R!Inherits
<1> QED BY <1>6, <1>8, <1>10 DEF Lost

LEMMA LostTrans ==
    ASSUME NEW p \in Table, NEW q \in Table, NEW r, Lost(p, q), Lost(q, r)
    PROVE  Lost(p, r)
<1>1. Topped(p, r) /\ Len(q) = Len(p)
  BY ToppedTrans DEF Lost, Topped
<1> DEFINE a == SettingsOf(p[Len(p)])
           b == SettingsOf(q[Len(p)])
           c == SettingsOf(r[Len(p)])
<1>2. R!Inherits(a, b) /\ R!Inherits(b, c)
  BY <1>1 DEF Lost
<1> HIDE DEF a, b, c
<1>3. R!Inherits(a, c)
  BY <1>2 DEF R!Inherits
<1> QED BY <1>1, <1>3 DEF Lost, a, c

\* A condition, an error or a text that does not compile.
Loses(p, o) == Lost(p, o.proc) /\ o.mode \in {"trap", "exit"}

LEMMA OutcomeLoses ==
    ASSUME NEW p \in Table
    PROVE  /\ \A c : Loses(p, RxSignalCondition(p, c))
           /\ Loses(p, Rerror(p)) /\ Loses(p, CompileError(p))
<1>1. ASSUME NEW c PROVE Loses(p, RxSignalCondition(p, c))
  <2> DEFINE off == Disable(p, c)
             both == Disable(off, "SYNTAX")
  <2>1. Lost(p, off) /\ off \in Table
    BY DisableLost, DisableFacts
  <2>2. Lost(off, both)
    BY <2>1, DisableLost
  <2> HIDE DEF off, both
  <2>3. Lost(p, both)
    BY <2>1, <2>2, LostTrans
  <2>4. /\ Loses(p, Jump(off, c)) /\ Loses(p, Quit(off, c))
        /\ Loses(p, Jump(both, "SYNTAX")) /\ Loses(p, Quit(both, "SYNTAX"))
    BY <2>1, <2>3 DEF Loses, Jump, Quit
  <2>5. RxSignalCondition(p, c) \in
          {Jump(off, c), Quit(off, c), Jump(both, "SYNTAX"), Quit(both, "SYNTAX")}
    BY DEF RxSignalCondition, off, both
  <2> QED BY <2>4, <2>5
<1>2. Loses(p, Quit(p, trapped))
  BY ToppedRefl DEF Loses, Quit
<1> QED BY <1>1, <1>2 DEF Rerror, CompileError
-----------------------------------------------------------------------------
(* Each action of Frames is work, a call or a return.                      *)

RestInv == FramesInv /\ Resting(proc)
Kept    == Resting(proc') /\ (WorkStep \/ EnterStep \/ LeaveStep)

LEMMA Next2 ==
    ASSUME FramesInv'
    PROVE  /\ proc' \in Table /\ Stacked(proc') /\ mode' \in Modes
           /\ top' \in -1..STCK_SIZE /\ top' \in Int
           /\ mode' \in {"run", "return"} => top' >= Floor(proc'[Len(proc')])
           /\ Floor(proc'[Len(proc')]) \in Int
<1>1. /\ proc' \in Table /\ Stacked(proc') /\ mode' \in Modes
      /\ top' \in -1..STCK_SIZE
      /\ mode' \in {"run", "return"} => top' >= Floor(proc'[Len(proc')])
  BY DEF FramesInv, Sound
<1>2. STCK_SIZE \in Nat
  BY FrameConstants
<1>3. Floor(proc'[Len(proc')]) \in Int
  BY <1>1, TableFacts, FrameInts
<1>4. top' \in Int
  BY <1>1, <1>2
<1> QED BY <1>1, <1>3, <1>4

LEMMA WorkFrom ==
    ASSUME RestInv, FramesInv', Resting(proc'), Same(proc, proc'),
           Ended(mode) => Ended(mode'),
           mode' = "trap" => \/ top' >= Floor(proc[Len(proc)])
                             \/ top' >= Floor(proc'[Len(proc')])
    PROVE  Kept
<1>1. proc \in Table /\ Stacked(proc) /\ Floor(proc[Len(proc)]) \in Int
  BY TableFacts, FrameInts DEF RestInv, FramesInv, Sound
<1>2. /\ Lowest(proc).stack \in Int /\ Lowest(proc).stack <= Floor(proc[Len(proc)])
      /\ Lowest(proc').stack <= Floor(proc'[Len(proc')])
  BY <1>1, Next2, RestsOn DEF RestInv
<1>3. Lowest(proc').stack = Lowest(proc).stack
  BY DEF Same, Lowest
<1>4. mode' \in {"run", "return", "trap"} \/ Ended(mode')
  BY Next2 DEF Modes, Ended
<1> HIDE DEF Floor, Lowest
<1>5. Ended(mode') \/ top' >= Lowest(proc).stack
  BY <1>1, <1>2, <1>3, <1>4, Next2
<1> QED BY <1>1, <1>5, Next2 DEF WorkStep, Kept

\* The topmost activation changes.
LEMMA TopWork ==
    ASSUME RestInv, FramesInv', Topped(proc, proc'), Ended(mode) => Ended(mode'),
           mode' = "trap" => top' >= Floor(proc[Len(proc)])
    PROVE  Kept
<1>1. proc \in Table
  BY Here DEF RestInv
<1>2. Same(proc, proc') /\ Resting(proc')
  BY <1>1, ToppedFacts, AlikeSame DEF RestInv
<1> QED BY <1>2, WorkFrom

LEMMA StillWork ==
    ASSUME RestInv, FramesInv', proc' = proc, Ended(mode) => Ended(mode'), mode' # "trap"
    PROVE  Kept
<1>1. proc \in Table
  BY Here DEF RestInv
<1>2. Topped(proc, proc')
  BY <1>1, ToppedRefl
<1> QED BY <1>2, TopWork

\* A condition or an error, after a change of the topmost activation.
LEMMA TookWork ==
    ASSUME RestInv, FramesInv', mode = "run", top' >= top \/ top' = Running.stacktop,
           \E p, o : Topped(proc, p) /\ Loses(p, o) /\ Take(o)
    PROVE  Kept
<1>1. PICK p, o : Topped(proc, p) /\ Loses(p, o) /\ Take(o)
  OBVIOUS
<1>2. proc \in Table /\ p \in Table /\ Topped(p, proc')
  BY <1>1, Here DEF RestInv, Loses, Lost, Take, Topped
<1>3. Topped(proc, proc')
  BY <1>1, <1>2, ToppedTrans
<1>4. ~ Ended(mode)
  BY DEF Ended
<1>5. top >= Floor(proc[Len(proc)]) /\ Floor(proc[Len(proc)]) \in Int /\ top \in Int
  BY Here DEF RestInv, Running, rx
<1>6. Running.stacktop >= Floor(proc[Len(proc)])
  <2>1. Running.stacktop \in Int /\ Running.held \in {0, 2}
    BY Here, FrameInts DEF RestInv, FrameType
  <2> QED BY <2>1 DEF Floor, Running, rx
<1> HIDE DEF Floor
<1>7. top' >= Floor(proc[Len(proc)])
  BY <1>5, <1>6, Next2
<1> QED BY <1>3, <1>4, <1>7, TopWork

\* The topmost activation gets another in its place.
LEMMA UpdateWork ==
    ASSUME RestInv, FramesInv', Ended(mode) => Ended(mode'), mode' # "trap",
           \E f \in FrameType : /\ proc' = Update(proc, f)
                                /\ f.calltype = Running.calltype /\ f.stack = Running.stack
                                /\ Floor(f) >= Floor(Running)
    PROVE  Kept
<1>1. PICK f \in FrameType : /\ proc' = Update(proc, f)
                             /\ f.calltype = Running.calltype /\ f.stack = Running.stack
                             /\ Floor(f) >= Floor(Running)
  OBVIOUS
<1>2. Topped(proc, proc')
  BY <1>1, Here, UpdateTopped DEF RestInv, Running, rx
<1> QED BY <1>2, TopWork

LEMMA ErrorWork ==
    ASSUME RestInv, FramesInv', mode = "run", top' >= top \/ top' = Running.stacktop,
           Take(Rerror(proc)) \/ Take(CompileError(proc)) \/ \E c : Take(RxSignalCondition(proc, c))
    PROVE  Kept
<1>1. proc \in Table /\ Topped(proc, proc)
  BY Here, ToppedRefl DEF RestInv
<1>2. /\ \A c : Loses(proc, RxSignalCondition(proc, c))
      /\ Loses(proc, Rerror(proc)) /\ Loses(proc, CompileError(proc))
  BY <1>1, OutcomeLoses
<1>3. \E o : Loses(proc, o) /\ Take(o)
  BY <1>2, Zenon
<1> QED BY <1>1, <1>3, TookWork, Zenon
\* Settings of the running activation.
LEMMA ResetTopped ==
    ASSUME FramesInv, NEW f, Reset(f)
    PROVE  Topped(proc, Update(proc, f)) /\ Update(proc, f) \in Table
<1>1. f \in FrameType /\ Running \in FrameType /\ proc \in Table
  BY Here DEF Reset
<1>2. /\ f.stacktop \in Int /\ f.held \in {0, 2} /\ Running.held \in {0, 2}
      /\ Running.stacktop \in Int
  BY <1>1, FrameInts DEF FrameType
<1>3. Floor(f) >= Floor(Running)
  BY <1>2 DEF Reset, Floor
<1>4. Topped(proc, Update(proc, f))
  BY <1>1, <1>3, UpdateTopped DEF Reset, Running, rx
<1> QED BY <1>4 DEF Topped

LEMMA SettingWork ==
    ASSUME RestInv, FramesInv', mode = "run", NEW f, Reset(f),
           \/ proc' = Update(proc, f) /\ mode' = mode
           \/ Take(Rerror(Update(proc, f))) /\ top' = top
    PROVE  Kept
<1>1. Topped(proc, Update(proc, f)) /\ Update(proc, f) \in Table
  BY ResetTopped DEF RestInv
<1>2. CASE proc' = Update(proc, f) /\ mode' = mode
  <2>1. Topped(proc, proc') /\ mode' # "trap" /\ ~ Ended(mode)
    BY <1>1, <1>2 DEF Ended
  <2> QED BY <2>1, TopWork
<1>3. CASE Take(Rerror(Update(proc, f))) /\ top' = top
  <2>1. Loses(Update(proc, f), Rerror(Update(proc, f)))
    BY <1>1, OutcomeLoses
  <2>2. top' >= top
    BY <1>3, Here DEF RestInv
  <2>3. \E p, o : Topped(proc, p) /\ Loses(p, o) /\ Take(o)
    BY <1>1, <1>3, <2>1, Zenon
  <2> QED BY <2>2, <2>3, TookWork
<1> QED BY <1>2, <1>3

LEMMA SettingsWork ==
    ASSUME RestInv, FramesInv', Trace \/ TracePoll \/ Digits \/ Fuzz \/ Set
    PROVE  Kept
<1> USE DEF RestInv
<1>1. CASE Trace
  <2>1. PICK a \in TraceArgs :
          IF a.letter = "bad"
          THEN Take(Rerror(Update(proc, TraceSet(Running, a)))) /\ tracing' = tracing
          ELSE /\ proc' = Update(proc, TraceSet(Running, a))
               /\ tracing' = Loud(a.letter)
               /\ UNCHANGED <<trapped, Rxcip, mode>>
    BY <1>1 DEF Trace
  <2>2. a \in [toggle : BOOLEAN, letter : Letters \cup {"bad"}]
    BY FrameConstants
  <2>3. Reset(TraceSet(Running, a)) /\ mode = "run" /\ top' = top
    BY <1>1, <2>2, TraceSetReset DEF Trace, Idle
  <2>4. \/ proc' = Update(proc, TraceSet(Running, a)) /\ mode' = mode
        \/ Take(Rerror(Update(proc, TraceSet(Running, a)))) /\ top' = top
    BY <2>1, <2>3
  <2> QED BY <2>3, <2>4, SettingWork
<1>2. CASE TracePoll
  <2> DEFINE a == [toggle |-> traceflag', letter |-> IF traceflag' THEN "A" ELSE "O"]
  <2>1. mode = "run" /\ mode' = mode /\ proc' = Update(proc, TraceSet(Running, a))
    BY <1>2 DEF TracePoll
  <2>2. traceflag' \in BOOLEAN
    BY <1>2, FrameConstants DEF TracePoll
  <2>3. a \in [toggle : BOOLEAN, letter : Letters \cup {"bad"}]
    BY <2>2 DEF Letters
  <2> HIDE DEF a
  <2>4. Reset(TraceSet(Running, a))
    BY <2>3, TraceSetReset
  <2> QED BY <2>1, <2>4, SettingWork
<1>3. CASE Digits \/ Fuzz
  <2>1. mode = "run" /\ top' = top
    BY <1>3 DEF Digits, Fuzz, Idle
  <2>2. \E f : Reset(f) /\ Numeric(f)
    <3>1. CASE Digits
      <4>1. PICK n \in DigitValues \cup {LMaxDigits} : Numeric([Running EXCEPT !.digits = n])
        BY <3>1 DEF Digits
      <4>2. n \in Nat
        BY FrameConstants
      <4> QED BY <4>1, <4>2, NumericReset
    <3>2. CASE Fuzz
      <4>1. PICK n \in FuzzValues \cup {0} : Numeric([Running EXCEPT !.fuzz = n])
        BY <3>2 DEF Fuzz
      <4>2. n \in Nat
        BY FrameConstants
      <4> QED BY <4>1, <4>2, NumericReset
    <3> QED BY <1>3, <3>1, <3>2
  <2>3. PICK f : Reset(f) /\ Numeric(f)
    BY <2>2
  <2>4. \/ proc' = Update(proc, f) /\ mode' = mode
        \/ Take(Rerror(Update(proc, f))) /\ top' = top
    BY <2>1, <2>3 DEF Numeric
  <2> QED BY <2>1, <2>3, <2>4, SettingWork
<1>4. CASE Set
  <2>1. PICK f \in Form \cup SignalOn \cup SignalOff : proc' = Update(proc, f)
    BY <1>4 DEF Set
  <2>2. Reset(f) /\ mode = "run" /\ mode' = mode
    BY <1>4, SetReset DEF Set, Idle
  <2> QED BY <2>1, <2>2, SettingWork
<1> QED BY <1>1, <1>2, <1>3, <1>4
\* Instructions that leave the activations where they are.
LEMMA PlainWork ==
    ASSUME RestInv, FramesInv',
           \/ Push \/ Drop \/ Error \/ Proc \/ RxHaltTrap \/ ResetClock \/ Signal
           \/ Exit \/ IExit \/ RunExit \/ Address
           \/ \E c \in Conditions : Condition(c)
           \/ \E data \in BOOLEAN : Return(data)
    PROVE  Kept
<1>0. FramesInv /\ top \in Int /\ top >= top
  BY Here DEF RestInv
<1>1. CASE Push
  <2>1. /\ mode = "run" /\ top' >= top
        /\ Take(Rerror(proc)) \/ (proc' = proc /\ mode' = mode)
    BY <1>0, <1>1 DEF Push, Idle
  <2>2. CASE Take(Rerror(proc))
    BY <2>1, <2>2, ErrorWork
  <2>3. CASE proc' = proc /\ mode' = mode
    BY <2>1, <2>3, StillWork
  <2> QED BY <2>1, <2>2, <2>3
<1>2. CASE Drop \/ ResetClock
  <2>1. proc' = proc /\ mode' = mode /\ mode = "run"
    BY <1>2 DEF Drop, ResetClock, Idle
  <2> QED BY <2>1, StillWork
<1>3. CASE Error \/ Proc
  <2>1. Take(Rerror(proc)) /\ top' >= top /\ mode = "run"
    BY <1>0, <1>3 DEF Error, Proc, Idle
  <2> QED BY <2>1, ErrorWork
<1>4. CASE RxHaltTrap \/ \E c \in Conditions : Condition(c)
  <2>1. /\ Take(Rerror(proc)) \/ \E c : Take(RxSignalCondition(proc, c))
        /\ top' >= top /\ mode = "run"
    BY <1>0, <1>4 DEF RxHaltTrap, Condition, Idle
  <2> QED BY <2>1, ErrorWork
<1>5. CASE Signal
  <2>1. /\ mode = "run" /\ top' = Running.stacktop
        /\ \/ proc' = Update(proc, [Running EXCEPT !.held = 0]) /\ mode' = mode
           \/ Take(Rerror(proc))
    BY <1>5 DEF Signal, Idle
  <2>2. CASE Take(Rerror(proc))
    BY <2>1, <2>2, ErrorWork
  <2>3. CASE proc' = Update(proc, [Running EXCEPT !.held = 0]) /\ mode' = mode
    <3>1. Running \in FrameType
      BY <1>0, Here
    <3>2. [Running EXCEPT !.held = 0] \in FrameType
      BY <3>1, SettingTypes
    <3>3. Reset([Running EXCEPT !.held = 0])
      BY <3>1, <3>2 DEF Reset, FrameType
    <3> QED BY <2>1, <2>3, <3>3, SettingWork
  <2> QED BY <2>1, <2>2, <2>3
<1>6. CASE Exit \/ IExit
  <2>1. /\ mode = "run"
        /\ (proc' = proc /\ mode' = "exit") \/ (Take(Rerror(proc)) /\ top' = top)
    BY <1>6 DEF Exit, IExit, Idle
  <2>2. CASE proc' = proc /\ mode' = "exit"
    BY <2>1, <2>2, StillWork DEF Ended
  <2>3. CASE Take(Rerror(proc)) /\ top' = top
    BY <1>0, <2>1, <2>3, ErrorWork
  <2> QED BY <2>1, <2>2, <2>3
<1>7. CASE \E data \in BOOLEAN : Return(data)
  <2>1. /\ mode = "run" /\ top' = top
        /\ (proc' = proc /\ mode' \in {"exit", "return"}) \/ Take(Rerror(proc))
    BY <1>7 DEF Return, Idle
  <2>2. CASE proc' = proc /\ mode' \in {"exit", "return"}
    BY <2>1, <2>2, StillWork DEF Ended
  <2>3. CASE Take(Rerror(proc))
    BY <1>0, <2>1, <2>3, ErrorWork
  <2> QED BY <2>1, <2>2, <2>3
<1>8. CASE RunExit
  <2>1. proc' = proc /\ mode' = "end"
    BY <1>8 DEF RunExit
  <2> QED BY <2>1, StillWork DEF Ended
<1>9. CASE Address
  <2>1. mode = "run" /\ mode' = mode
    BY <1>9 DEF Address, Idle
  <2>2. PICK f \in FrameType : /\ proc' = Update(proc, f)
                               /\ f.calltype = Running.calltype /\ f.stack = Running.stack
                               /\ Floor(f) = Floor(Running)
    BY <1>0, <1>9, AddressInv
  <2>3. Floor(f) >= Floor(Running)
    BY <1>0, <2>2, Here
  <2> QED BY <2>1, <2>2, <2>3, UpdateWork DEF Ended
<1> QED BY <1>1, <1>2, <1>3, <1>4, <1>5, <1>6, <1>7, <1>8, <1>9
\* Texts.
Text(p, q) ==
    /\ Above(p, q) /\ q[Len(q)].calltype \in Inner
    /\ SettingsOf(q[Len(q)]) = SettingsOf(p[Len(p)])

LEMMA TextAbove ==
    ASSUME FramesInv, NEW p \in Table, NEW type \in Inner, NEW at \in Places,
           NEW u \in 0..STCK_SIZE, NEW held \in {0, 2}
    PROVE  Text(p, InitInterStr(p, type, at, u, held))
<1> DEFINE g == p[Len(p)]
           f == [g EXCEPT !.calltype = type, !.ip = at, !.codelen = codelen,
                          !.stack = u - 1, !.stacktop = u, !.held = held]
           q == InitInterStr(p, type, at, u, held)
<1>1. g \in FrameType
  BY TableFacts
<1>2. /\ u - 1 \in -1..STCK_SIZE /\ u \in -1..STCK_SIZE /\ codelen \in 0..(MaxCode + 1)
      /\ at \in Places /\ held \in {0, 2} /\ type \in Inner
  BY Here
<1>3. q = Append(p, f)
  BY DEF InitInterStr
<1> HIDE DEF g
<1>4. f \in FrameType
  BY <1>1, <1>2 DEF FrameType
<1>5. /\ f.calltype = type /\ f.digits = g.digits /\ f.fuzz = g.fuzz /\ f.form = g.form
      /\ f.trace = g.trace /\ f.interactive = g.interactive
      /\ f.condition = g.condition /\ f.lbl = g.lbl
  BY <1>1 DEF FrameType
<1> HIDE DEF f, q
<1>6. SettingsOf(f) = SettingsOf(g)
  BY <1>5 DEF SettingsOf
<1>7. q \in Table /\ Len(q) = Len(p) + 1 /\ q[Len(q)] = f /\ \A k \in 1..Len(p) : q[k] = p[k]
  BY <1>3, <1>4, AppendFacts
<1> QED BY <1>2, <1>5, <1>6, <1>7 DEF Text, Above, q, g

LEMMA LineAbove ==
    ASSUME FramesInv, NEW p \in Table, NEW at \in Places, NEW held \in {0, 2}, top < STCK_SIZE
    PROVE  Text(p, InitInterStr(p, "INTERACTIVE", at, top + 1, held))
<1> DEFINE u == top + 1
<1>1. u \in 0..STCK_SIZE /\ "INTERACTIVE" \in Inner
  BY Here DEF Inner
<1> HIDE DEF u
<1>2. Text(p, InitInterStr(p, "INTERACTIVE", at, u, held))
  BY <1>1, TextAbove
<1> QED BY <1>2 DEF u

LEMMA TextWork ==
    ASSUME RestInv, FramesInv', mode = "run", NEW q, Text(proc, q),
           \/ proc' = q /\ mode' = mode
           \/ top' >= top /\ \E c : Take(RxSignalCondition(q, c))
    PROVE  Kept
<1>1. proc \in Table /\ q \in Table /\ Same(proc, q) /\ Resting(q)
  BY Here, TextSame, RestingAbove DEF RestInv, Text, Above
<1>2. CASE proc' = q /\ mode' = mode
  BY <1>1, <1>2, WorkFrom
<1>3. CASE top' >= top /\ \E c : Take(RxSignalCondition(q, c))
  <2>1. Topped(q, proc')
    BY <1>1, <1>3, OutcomeLoses DEF Loses, Lost, Take
  <2>2. Same(q, proc') /\ Resting(proc')
    BY <1>1, <2>1, ToppedFacts, AlikeSame
  <2>3. Same(proc, proc')
    BY <1>1, <2>2, SameTrans
  <2>4. top >= Floor(proc[Len(proc)]) /\ Floor(proc[Len(proc)]) \in Int /\ top \in Int
    BY Here DEF RestInv, Running, rx
  <2> HIDE DEF Floor
  <2>5. top' >= Floor(proc[Len(proc)])
    BY <1>3, <2>4, Next2
  <2> QED BY <2>2, <2>3, <2>5, WorkFrom DEF Ended
<1> QED BY <1>2, <1>3

\* A line typed to the running activation.
LEMMA LineWork ==
    ASSUME RestInv, FramesInv', mode = "run", NEW at \in Places, NEW held \in {0, 2},
           ObeyLine(proc, at, top, held) \/ RefuseLine(proc, top)
    PROVE  Kept
<1>1. CASE ObeyLine(proc, at, top, held)
  <2>1. top < STCK_SIZE /\ mode' = mode
        /\ proc' = InitInterStr(proc, "INTERACTIVE", at, top + 1, held)
    BY <1>1 DEF ObeyLine
  <2>2. Text(proc, proc')
    BY <2>1, Here, LineAbove DEF RestInv
  <2> QED BY <2>1, <2>2, TextWork
<1>2. CASE RefuseLine(proc, top)
  <2>1. Take(CompileError(proc)) /\ top' >= top
    BY <1>2, Here DEF RefuseLine, RestInv
  <2> QED BY <2>1, ErrorWork
<1> QED BY <1>1, <1>2

LEMMA TextsWork ==
    ASSUME RestInv, FramesInv', NewClause \/ Interpret \/ \E rc \in Codes : Command(rc)
    PROVE  Kept
<1>0. FramesInv /\ proc \in Table /\ Rxcip \in Places /\ top \in Int
  BY Here DEF RestInv
<1>1. CASE NewClause
  <2>1. mode = "run"
    BY <1>1 DEF NewClause
  <2>2. \/ TraceInteractive(proc, Rxcip, top)
        \/ proc' = proc /\ mode' = mode
    BY <1>1 DEF NewClause
  <2>3. CASE TraceInteractive(proc, Rxcip, top)
    <3> DEFINE h == 0
    <3>1. h \in {0, 2} /\ (ObeyLine(proc, Rxcip, top, h) \/ RefuseLine(proc, top))
      BY <2>3 DEF TraceInteractive
    <3> HIDE DEF h
    <3> QED BY <1>0, <2>1, <3>1, LineWork
  <2>4. CASE proc' = proc /\ mode' = mode
    BY <2>1, <2>4, StillWork
  <2> QED BY <2>2, <2>3, <2>4
<1>2. CASE Interpret
  <2>1. /\ mode = "run" /\ top' = top /\ top > Floor(Running)
        /\ \/ proc' = InitInterStr(proc, "INTERPRET", Rxcip, top, 0) /\ mode' = mode
           \/ Take(CompileError(proc))
    BY <1>2 DEF Interpret, Idle
  <2>2. CASE proc' = InitInterStr(proc, "INTERPRET", Rxcip, top, 0) /\ mode' = mode
    <3>1. top \in 0..STCK_SIZE /\ "INTERPRET" \in Inner
      BY <1>0, <2>1, Here DEF Inner
    <3> DEFINE h == 0
    <3>2. h \in {0, 2} /\ proc' = InitInterStr(proc, "INTERPRET", Rxcip, top, h)
      BY <2>2
    <3> HIDE DEF h
    <3>3. Text(proc, proc')
      BY <1>0, <3>1, <3>2, TextAbove
    <3> QED BY <2>1, <2>2, <3>3, TextWork
  <2>3. CASE Take(CompileError(proc))
    BY <1>0, <2>1, <2>3, ErrorWork
  <2> QED BY <2>1, <2>2, <2>3
<1>3. ASSUME NEW rc \in Codes, Command(rc) PROVE Kept
  <2>1. mode = "run" /\ top > Floor(Running) + 1
    BY <1>3 DEF Command, Idle
  <2>2. \/ top' = top /\ \E c : Take(RxSignalCondition(proc, c))
        \/ proc' = proc /\ mode' = mode
        \/ ObeyLine(proc, Rxcip, top, 2) \/ RefuseLine(proc, top)
        \/ \E c : TrappedLine(c)
    BY <1>3 DEF Command
  <2>3. CASE top' = top /\ \E c : Take(RxSignalCondition(proc, c))
    BY <1>0, <2>1, <2>3, ErrorWork
  <2>4. CASE proc' = proc /\ mode' = mode
    BY <2>1, <2>4, StillWork
  <2>5. CASE ObeyLine(proc, Rxcip, top, 2) \/ RefuseLine(proc, top)
    <3> DEFINE h == 2
    <3>1. h \in {0, 2} /\ (ObeyLine(proc, Rxcip, top, h) \/ RefuseLine(proc, top))
      BY <2>5
    <3> HIDE DEF h
    <3> QED BY <1>0, <2>1, <3>1, LineWork
  <2>6. CASE \E c : TrappedLine(c)
    <3> DEFINE h == 0
               q == InitInterStr(proc, "INTERACTIVE", Rxcip, top + 1, h)
    <3>1. h \in {0, 2} /\ top < STCK_SIZE /\ top' = top + 1
          /\ \E c : Take(RxSignalCondition(q, c))
      BY <2>6 DEF TrappedLine
    <3>2. top' >= top
      BY <1>0, <3>1
    <3> HIDE DEF h
    <3>3. Text(proc, q)
      BY <1>0, <3>1, LineAbove
    <3> HIDE DEF q
    <3> QED BY <2>1, <3>1, <3>2, <3>3, TextWork
  <2> QED BY <2>2, <2>3, <2>4, <2>5, <2>6
<1> QED BY <1>1, <1>2, <1>3
\* Calls.
Called(q, type, n) ==
    /\ Above(proc, q) /\ Floor(q[Len(q)]) = top
    /\ q[Len(q)].calltype = type
    /\ q[Len(q)].stack = (IF type = "FUNCTION" THEN top - n ELSE top - n - 1)
    /\ SettingsOf(q[Len(q)]) = SettingsOf(proc[rx])

LEMMA ArgsAbove ==
    ASSUME FramesInv, NEW n \in Nat, top - n > Floor(Running),
           NEW type \in {"PROCEDURE", "FUNCTION"}
    PROVE  Called(MakeArgs(type, n), type, n)
<1> DEFINE g == Running
           s == IF type = "FUNCTION" THEN top - n ELSE top - n - 1
           f == [g EXCEPT !.calltype = type, !.ip = Rxcip, !.held = 0,
                          !.stacktop = top, !.stack = s]
           q == MakeArgs(type, n)
<1>1. g \in FrameType /\ Floor(g) \in Int /\ Floor(g) >= -1 /\ top \in -1..STCK_SIZE
      /\ STCK_SIZE \in Nat /\ top - n > Floor(g)
  BY Here
<1>2. s \in -1..STCK_SIZE
  BY ONLY <1>1, n \in Nat
<1>3. q = Append(proc, f)
  BY DEF MakeArgs
<1> HIDE DEF g, s, q
<1>4. f \in FrameType
  BY <1>1, <1>2, Here DEF FrameType, Kinds
<1>5. /\ f.calltype = type /\ f.stack = s /\ f.stacktop = top /\ f.held = 0
      /\ f.digits = g.digits /\ f.fuzz = g.fuzz /\ f.form = g.form
      /\ f.trace = g.trace /\ f.interactive = g.interactive
      /\ f.condition = g.condition /\ f.lbl = g.lbl
  BY <1>1 DEF FrameType
<1> HIDE DEF f
<1>6. Floor(f) = top
  BY <1>1, <1>5 DEF Floor
<1>7. SettingsOf(f) = SettingsOf(g)
  BY <1>5 DEF SettingsOf
<1>8. q \in Table /\ Len(q) = rx + 1 /\ q[Len(q)] = f /\ \A k \in 1..rx : q[k] = proc[k]
  BY <1>3, <1>4, Here, AppendFacts DEF rx
<1> QED BY <1>5, <1>6, <1>7, <1>8 DEF Called, Above, q, g, s, Running, rx

LEMMA CalledFacts ==
    ASSUME RestInv, mode = "run", NEW n \in Nat, top - n > Floor(Running),
           NEW type \in {"PROCEDURE", "FUNCTION"}, NEW q, Called(q, type, n)
    PROVE  /\ q \in Table /\ Resting(q) /\ More(proc, q)
           /\ Lowest(q).calltype = type /\ Lowest(q).stack \in Lowest(proc).stack..top
           /\ type = "PROCEDURE" => Lowest(q).stack < top
<1> DEFINE s == IF type = "FUNCTION" THEN top - n ELSE top - n - 1
<1>1. /\ proc \in Table /\ q \in Table /\ Above(proc, q) /\ Stacked(proc) /\ Resting(proc)
      /\ q[Len(q)].calltype = type /\ q[Len(q)].stack = s /\ Floor(q[Len(q)]) = top
  BY Here DEF Called, Above, RestInv, Sound
<1>2. /\ top \in Int /\ Floor(Running) \in Int /\ n \in Nat /\ top - n > Floor(Running)
      /\ Lowest(proc).stack \in Int /\ Lowest(proc).stack <= Floor(Running)
  BY <1>1, Here, RestsOn DEF RestInv, Running, rx
<1>3. s \in Lowest(proc).stack..top /\ s <= top /\ (type = "PROCEDURE" => s < top)
  BY ONLY <1>2
<1>4. type \notin Inner
  BY DEF Inner
<1> HIDE DEF s, Floor
<1>5. Resting(q)
  BY <1>1, <1>3, RestingAbove
<1>6. More(proc, q) /\ Lowest(q) = q[Len(q)]
  BY <1>1, <1>4, RoutineMore DEF Lowest
<1> QED BY <1>1, <1>3, <1>5, <1>6

LEMMA CallWork ==
    ASSUME RestInv, FramesInv', NEW type \in {"PROCEDURE", "FUNCTION"}, NEW n \in Arities,
           NEW isproc \in BOOLEAN, Call(type, n, isproc)
    PROVE  Kept
<1> DEFINE q == MakeArgs(type, n)
           at == [Main EXCEPT !.next = IF isproc THEN "label" ELSE "any"]
<1>1. /\ mode = "run" /\ top - n > Floor(Running) /\ n \in Nat
      /\ lNumericDigits' = lNumericDigits
      /\ \/ proc' = q /\ top' = top
         \/ ObeyLine(q, at, top, 0)
         \/ RefuseLine(q, top)
  BY FrameConstants DEF Call, Idle, TraceInteractive
<1>2. FramesInv /\ proc \in Table /\ top \in Int /\ at \in Places
  BY Here, FrameConstants DEF RestInv, Main, Places
<1>3. Called(q, type, n)
  BY <1>1, <1>2, ArgsAbove
<1> HIDE DEF q, at
<1>4. /\ q \in Table /\ Resting(q) /\ More(proc, q) /\ SettingsOf(q[Len(q)]) = SettingsOf(proc[rx])
      /\ Lowest(q).calltype = type /\ Lowest(q).stack \in Lowest(proc).stack..top
      /\ type = "PROCEDURE" => Lowest(q).stack < top
  BY <1>1, <1>3, CalledFacts DEF Called
<1>5. ASSUME Same(q, proc'), Resting(proc'), top' >= top,
             R!Inherits(SettingsOf(q[Len(q)]), SettingsOf(proc'[Len(proc')]))
      PROVE  Kept
  <2>1. More(proc, proc')
    BY <1>2, <1>4, <1>5, MoreSame
  <2>2. Lowest(proc').calltype = Lowest(q).calltype /\ Lowest(proc').stack = Lowest(q).stack
    BY <1>5 DEF Same, Lowest
  <2> QED BY <1>1, <1>2, <1>4, <1>5, <2>1, <2>2, Next2 DEF EnterStep, Kept, Ended
<1>6. Lost(q, q)
  BY <1>4, ToppedRefl
<1>7. CASE proc' = q /\ top' = top
  <2>1. R!Inherits(SettingsOf(q[Len(q)]), SettingsOf(proc'[Len(proc')]))
    BY <1>6, <1>7 DEF Lost
  <2>2. top' >= top /\ Same(q, proc') /\ Resting(proc')
    BY <1>2, <1>4, <1>7, SameTrans
  <2> QED BY <1>5, <2>1, <2>2
<1>8. CASE ObeyLine(q, at, top, 0)
  <2> DEFINE h == 0
  <2>1. /\ h \in {0, 2} /\ top < STCK_SIZE /\ top' = top + 1 - 0
        /\ proc' = InitInterStr(q, "INTERACTIVE", at, top + 1, h)
    BY <1>8 DEF ObeyLine
  <2>2. top' >= top
    BY <1>2, <2>1
  <2> HIDE DEF h
  <2>3. Text(q, proc')
    BY <1>2, <1>4, <2>1, LineAbove
  <2>4. Same(q, proc') /\ Resting(proc')
    BY <1>4, <2>3, TextSame, RestingAbove DEF Text
  <2>5. R!Inherits(SettingsOf(q[Len(q)]), SettingsOf(proc'[Len(proc')]))
    BY <1>6, <2>3 DEF Lost, Text
  <2> QED BY <1>5, <2>2, <2>4, <2>5
<1>9. CASE RefuseLine(q, top)
  <2>1. Take(CompileError(q)) /\ top' = top + 1
    BY <1>9 DEF RefuseLine
  <2>2. Lost(q, proc') /\ top' >= top
    BY <1>2, <1>4, <2>1, OutcomeLoses DEF Loses, Take
  <2>3. Same(q, proc') /\ Resting(proc') /\ Len(proc') = Len(q)
    BY <1>4, <2>2, ToppedFacts, AlikeSame DEF Lost, Topped
  <2>4. R!Inherits(SettingsOf(q[Len(q)]), SettingsOf(proc'[Len(proc')]))
    BY <2>2, <2>3 DEF Lost
  <2> QED BY <1>5, <2>2, <2>3, <2>4
<1> QED BY <1>1, <1>7, <1>8, <1>9
\* Returns.
LEMMA PopAbove ==
    ASSUME RestInv, rx > 1
    PROVE  /\ Pop(proc) \in Table /\ Above(Pop(proc), proc) /\ Resting(Pop(proc))
           /\ Pop(proc)[Len(Pop(proc))] = Below(rx) /\ Below(rx) \in FrameType
           /\ proc \in Table /\ proc[Len(proc)] = Running
<1> DEFINE p == Pop(proc)
<1>1. proc \in Table /\ rx = Len(proc) /\ rx \in Nat /\ rx - 1 \in 1..(rx - 1)
  BY Here DEF RestInv, rx
<1>2. p \in Table /\ Len(p) = rx - 1 /\ \A k \in 1..(rx - 1) : p[k] = proc[k]
  BY <1>1, PopFacts
<1> HIDE DEF p
<1>3. Above(p, proc)
  BY <1>1, <1>2 DEF Above
<1>4. Resting(p)
  BY <1>2, <1>3, RestingAbove DEF RestInv
<1>5. p[Len(p)] = Below(rx) /\ Below(rx) \in FrameType
  BY <1>1, <1>2, NotFirst DEF RestInv, Below
<1> QED BY <1>1, <1>2, <1>3, <1>4, <1>5 DEF p, Running

LEMMA DoneWork ==
    ASSUME RestInv, FramesInv', Running.calltype \in Inner, DoneInterStr,
           mode \in {"run", "trap"}, mode' = mode, top' = Running.stack
    PROVE  Kept
<1> DEFINE p == Pop(proc)
           g == Below(rx)
           f == [g EXCEPT !.trace = Running.trace, !.interactive = Running.interactive]
<1>1. FramesInv /\ rx > 1
  BY NotFirst DEF RestInv
<1>2. p \in Table /\ Above(p, proc) /\ Resting(p) /\ p[Len(p)] = g /\ g \in FrameType
      /\ proc \in Table /\ proc[Len(proc)] = Running
  BY <1>1, PopAbove
<1>3. proc' = Update(p, f)
  BY DEF DoneInterStr
<1> HIDE DEF p, g
<1>4. Running.trace \in Letters /\ Running.interactive \in BOOLEAN
  BY <1>1, Here DEF FrameType
<1>5. f \in FrameType
  BY <1>2, <1>4 DEF FrameType
<1>6. f.calltype = g.calltype /\ f.stack = g.stack /\ f.stacktop = g.stacktop
      /\ f.held = g.held
  BY <1>2 DEF FrameType
<1> HIDE DEF f
<1>7. Floor(f) >= Floor(g)
  BY <1>2, <1>6, FrameInts DEF Floor
<1>8. Topped(p, proc')
  BY <1>2, <1>3, <1>5, <1>6, <1>7, UpdateTopped
<1>9. Same(p, proc') /\ Resting(proc')
  BY <1>2, <1>8, ToppedFacts, AlikeSame
<1>10. Same(p, proc)
  BY <1>2, TextSame
<1>11. Same(proc, proc')
  BY <1>9, <1>10, SameTrans
<1>12. top' >= Floor(proc'[Len(proc')])
  <2>1. Main \in Places /\ Main.seg <= Running.codelen
    BY <1>1, Here, FrameInts, MainPlace
  <2> DEFINE m == "run"
  <2>2. m \in {"run", "trap"} /\ (m = "trap" => Main = Main) /\ mode # "end"
    OBVIOUS
  <2> HIDE DEF m
  <2>3. Sound(proc', Running.stack, live', codelen', Main, m)
    BY <1>1, <2>1, <2>2, DoneSound
  <2> QED BY <2>3 DEF Sound, m
<1>13. Ended(mode) => Ended(mode')
  BY DEF Ended
<1> QED BY <1>9, <1>11, <1>12, <1>13, WorkFrom

LEMMA LeaveWork ==
    ASSUME RestInv, FramesInv', rx > 1, Leave, Ended(mode') <=> Ended(mode), mode' # "trap",
           Ended(mode) \/ top' = Running.stack
    PROVE  Kept
<1> DEFINE p == Pop(proc)
<1>1. p \in Table /\ Above(p, proc) /\ Resting(p) /\ p[Len(p)] = Below(rx)
      /\ proc \in Table /\ proc[Len(proc)] = Running
  BY PopAbove
<1>2. proc' = p /\ lNumericDigits' = Below(rx).digits
  BY DEF Leave
<1> HIDE DEF p
<1>3. CASE Running.calltype \in Inner
  <2>1. Same(proc, proc')
    BY <1>1, <1>2, <1>3, TextSame, SameTrans
  <2> QED BY <1>1, <1>2, <2>1, WorkFrom
<1>4. CASE Running.calltype \notin Inner
  <2>1. More(proc', proc) /\ Lowest(proc) = Running
    BY <1>1, <1>2, <1>4, RoutineMore DEF Lowest
  <2> QED BY <1>1, <1>2, <2>1 DEF LeaveStep, Kept
<1> QED BY <1>3, <1>4

LEMMA ReturnsWork ==
    ASSUME RestInv, FramesInv', InterEnd \/ Trap \/ ReturnProc \/ Unwind
    PROVE  Kept
<1>0. FramesInv /\ Running \in FrameType
  BY Here DEF RestInv
<1>1. CASE InterEnd
  <2>1. /\ mode = "run" /\ mode' = mode /\ Running.calltype \in Inner /\ DoneInterStr
        /\ top' = Running.stack
    BY <1>1 DEF InterEnd, Idle
  <2> QED BY <2>1, DoneWork
<1>2. CASE Trap
  <2>1. mode = "trap"
    BY <1>2 DEF Trap
  <2>2. CASE Running.calltype = "INTERPRET" /\ DoneInterStr /\ top' = Running.stack /\ mode' = mode
    BY <2>1, <2>2, DoneWork DEF Inner
  <2>3. CASE mode' = "run" /\ proc' = Update(proc, [Running EXCEPT !.held = 0])
    <3>1. [Running EXCEPT !.held = 0] \in FrameType
      BY <1>0, SettingTypes
    <3>2. Reset([Running EXCEPT !.held = 0])
      BY <1>0, <3>1 DEF Reset, FrameType
    <3>3. Topped(proc, proc') /\ ~ Ended(mode) /\ mode' # "trap"
      BY <1>0, <2>1, <2>3, <3>2, ResetTopped DEF Ended
    <3> QED BY <3>3, TopWork
  <2> QED BY <1>2, <2>2, <2>3 DEF Trap
<1>3. CASE ReturnProc
  <2>1. mode = "return" /\ Leave /\ top' = Running.stack /\ mode' \in {"return", "run"}
    BY <1>3 DEF ReturnProc
  <2>2. rx > 1
    BY <1>0, <2>1, NotFirst
  <2> QED BY <2>1, <2>2, LeaveWork DEF Ended
<1>4. CASE Unwind
  <2>1. mode = "exit" /\ mode' = mode /\ rx > 1 /\ Leave
    BY <1>4 DEF Unwind
  <2> QED BY <2>1, LeaveWork DEF Ended
<1> QED BY <1>1, <1>2, <1>3, <1>4

-----------------------------------------------------------------------------
(* The table of activations implements Routines.                           *)

LEMMA RestNext ==
    ASSUME RestInv, [Next]_vars
    PROVE  RestInv' /\ [R!Next]_(R!rvars)
<1>1. FramesInv'
  BY NextInv DEF RestInv
<1>2. CASE UNCHANGED vars
  <2>1. proc' = proc /\ top' = top /\ lNumericDigits' = lNumericDigits /\ mode' = mode
    BY <1>2 DEF vars
  <2>2. RoutinesOf' = RoutinesOf
    BY <2>1, RoutinesHere
  <2> QED BY <1>1, <2>1, <2>2 DEF RestInv, R!rvars
<1>3. CASE Next
  <2>1. Kept
    <3>1. CASE \/ Push \/ Drop \/ Error \/ Proc \/ RxHaltTrap \/ ResetClock \/ Signal
               \/ Exit \/ IExit \/ RunExit \/ Address
               \/ \E c \in Conditions \cap {"NOVALUE", "NOTREADY"} : Condition(c)
               \/ \E data \in BOOLEAN : Return(data)
      <4>1. (\E c \in Conditions \cap {"NOVALUE", "NOTREADY"} : Condition(c)) =>
              \E c \in Conditions : Condition(c)
        OBVIOUS
      <4> QED BY <1>1, <3>1, <4>1, PlainWork
    <3>2. CASE Trace \/ TracePoll \/ Digits \/ Fuzz \/ Set
      BY <1>1, <3>2, SettingsWork
    <3>3. CASE NewClause \/ Interpret \/ \E rc \in Codes : Command(rc)
      BY <1>1, <3>3, TextsWork
    <3>4. CASE \E type \in {"PROCEDURE", "FUNCTION"}, n \in Arities, isproc \in BOOLEAN :
                  Call(type, n, isproc)
      BY <1>1, <3>4, CallWork
    <3>5. CASE InterEnd \/ Trap \/ ReturnProc \/ Unwind
      BY <1>1, <3>5, ReturnsWork
    <3> QED BY <1>3, <3>1, <3>2, <3>3, <3>4, <3>5 DEF Next, Loops
  <2>2. R!Next
    BY <2>1, Works, Enters, Leaves DEF Kept, R!Next
  <2> QED BY <1>1, <2>1, <2>2 DEF Kept, RestInv
<1> QED BY <1>2, <1>3
LEMMA RestInit == Init => RestInv /\ R!Init
<1> SUFFICES ASSUME Init PROVE RestInv /\ R!Init
  OBVIOUS
<1>1. PICK f : Fresh(f) /\ proc = <<f>>
  BY FirstFrame
<1>2. top = -1 /\ lNumericDigits = 9 /\ mode = "run" /\ FramesInv
  BY InitInv DEF Init
<1>3. f \in FrameType /\ f.calltype \in Kinds /\ f.stack = -1 /\ f.digits = 9
      /\ f.stacktop = -1 /\ f.held = 0
  BY <1>1 DEF Fresh
<1>4. proc \in Table /\ Len(proc) = 1 /\ proc[1] = f
  BY <1>1, <1>2, Here
<1>5. Floor(f) = -1
  BY <1>3 DEF Floor
<1>6. Resting(proc)
  <2>1. \A k \in 1..Len(proc) : proc[k] = f
    BY <1>4
  <2> HIDE DEF Floor
  <2>2. f.stack <= Floor(f)
    BY <1>3, <1>5
  <2> QED BY <2>1, <2>2 DEF Resting
<1>7. Count(proc) = 1 /\ StartOf(proc, Count(proc)) = 1
  <2>1. StartsIn(proc) = {1}
    BY <1>4 DEF StartsIn
  <2>2. Count(proc) = 1
    BY <2>1, FS_Singleton DEF Count
  <2>3. StartOf(proc, Count(proc)) \in StartsIn(proc)
    BY <1>4, CountFacts, StartFacts
  <2> QED BY <2>1, <2>2, <2>3
<1>8. RoutineAt(proc, 1) = [kind |-> f.calltype, resume |-> -1, settings |-> SettingsOf(f)]
  BY <1>3, <1>4, <1>7, LastRoutine DEF Lowest
<1>9. Len(RoutinesOf) = 1 /\ RoutinesOf[1] = RoutineAt(proc, 1)
  <2>1. RoutinesOf = RoutinesIn(proc)
    BY RoutinesHere
  <2>2. 1 \in 1..Count(proc)
    BY <1>7
  <2> QED BY <1>4, <1>7, <2>1, <2>2, RoutinesSeq
<1>10. SettingsOf(f) \in AllSettings /\ SettingsOf(f).digits = 9
  BY <1>3, SettingsType DEF SettingsOf
<1>11. /\ RoutinesOf[1].kind = f.calltype /\ RoutinesOf[1].resume = -1
       /\ RoutinesOf[1].settings = SettingsOf(f)
  BY <1>8, <1>9
<1>12. R!Init
  BY <1>2, <1>3, <1>9, <1>10, <1>11 DEF R!Init, R!n, Kinds
<1> QED BY <1>2, <1>6, <1>12 DEF RestInv

\* Whatever a program does, its calls keep the promises of Routines: a routine
\* starts with the settings of its caller but for conditions already trapped,
\* works on its own routine only and never on operands its caller left, and
\* when it returns the caller has its settings, its operands and its digits of
\* arithmetic again (I_MakeArgs, I_ReturnProc, RxInitInterStr,
\* RxDoneInterStr, RxSignalCondition).
THEOREM PromisesKept == Spec => Promised
<1>1. Init => RestInv /\ R!Init
  BY RestInit
<1>2. RestInv /\ [Next]_vars => RestInv' /\ [R!Next]_(R!rvars)
  BY RestNext
<1> QED BY <1>1, <1>2, PTL DEF Spec, Promised, R!Spec
==============================================================================
