--------------------------- MODULE VarMarks_proofs ---------------------------
(* Who owns and who frees the variables that activations share: the marks  *)
(* of VarPool's simple variables and stems, for every program and depth.   *)
EXTENDS VarPool_proofs

-----------------------------------------------------------------------------
(* The invariant, of a pool p and the frames 0..rx of a table pr.          *)

Objects(p)   == {p.head[s][n] : s \in Frames, n \in Names} \ {Nil}
Used(pr, rx) == {pr[f].scope : f \in 0..rx}

\* Heads are storage in use, each of one name, and never a tail as well.
Tidy(p) ==
    /\ p \in PoolType
    /\ Objects(p) \subseteq p.live
    /\ Objects(p) \cap TailsOf(p, VarIds) = {}
    /\ \A s, k \in Frames : \A n, m \in Names :
          p.head[s][n] # Nil /\ p.head[k][m] = p.head[s][n] => m = n

Sharers(p, pr, rx, n, v) == {s \in Used(pr, rx) : p.head[s][n] = v}

\* HeadMarks, for one variable.
Marks(p, pr, rx, s, n) ==
    LET v == p.head[s][n]
        m == p.mark[v]
        H == Sharers(p, pr, rx, n, v)
    IN  IF m = NoProc THEN H = {s}
        ELSE /\ m + 1 \in 0..rx /\ pr[m + 1].scope = m + 1
             /\ {pr[m].scope, m + 1} \subseteq H
             /\ \A h \in H : h = pr[m].scope \/ h > m

Accounted(p, pr, rx) ==
    \A s \in Used(pr, rx), n \in Names : p.head[s][n] # Nil => Marks(p, pr, rx, s, n)

Owned(p, pr, rx) == Tidy(p) /\ Accounted(p, pr, rx)

\* Storage that nobody has.
Unused(p, v) == v \in VarIds /\ v \notin Objects(p) /\ v \notin TailsOf(p, VarIds)

\* What the operations of the pool keep; N are the objects they take.
Keeps(p, q, pr, rx, N) ==
    Owned(p, pr, rx) =>
        /\ Owned(q, pr, rx)
        /\ \A x : Unused(p, x) /\ x \notin N => Unused(q, x)

LEMMA KeepsTrans ==
    ASSUME NEW p, NEW q, NEW r, NEW pr, NEW rx, NEW N, NEW M,
           Keeps(p, q, pr, rx, N), Keeps(q, r, pr, rx, M)
    PROVE  Keeps(p, r, pr, rx, N \cup M)
BY DEF Keeps

LEMMA KeepsSelf ==
    ASSUME NEW p, NEW pr, NEW rx, NEW N
    PROVE  Keeps(p, p, pr, rx, N)
BY DEF Keeps

LEMMA KeepsMore ==
    ASSUME NEW p, NEW q, NEW pr, NEW rx, NEW N, NEW M, Keeps(p, q, pr, rx, N), N \subseteq M
    PROVE  Keeps(p, q, pr, rx, M)
BY DEF Keeps

LEMMA ObjectFacts ==
    ASSUME NEW p \in PoolType
    PROVE  /\ \A s \in Frames, n \in Names :
                 p.head[s][n] = Nil \/ (p.head[s][n] \in Objects(p) /\ p.head[s][n] \in VarIds)
           /\ \A v \in Objects(p) : v \in VarIds /\ v # Nil
           /\ \A v \in VarIds, s \in Slots :
                 p.tail[v][s] = Nil \/ p.tail[v][s] \in TailsOf(p, VarIds)
           /\ \A v \in TailsOf(p, VarIds) : v \in VarIds /\ v # Nil
           /\ \A V \in SUBSET VarIds : TailsOf(p, V) \subseteq TailsOf(p, VarIds)
<1>1. p.head \in [Frames -> [Names -> VarRefs]] /\ p.tail \in [VarIds -> [Slots -> VarRefs]]
  BY DEF PoolType, VarRefs
<1>2. \A v \in VarRefs : v # Nil => v \in VarIds
  BY DEF VarRefs
<1> QED BY <1>1, <1>2 DEF Objects, TailsOf

\* Heads come, stay, or go from the one scope that has them.
Moves(p, q) ==
    \A s \in Frames, n \in Names :
        LET v == p.head[s][n]
            u == q.head[s][n]
        IN  \/ u = v /\ (v # Nil => q.mark[v] = p.mark[v])
            \/ /\ v = Nil /\ u # Nil /\ u \notin Objects(p) /\ q.mark[u] = NoProc
               /\ \A k \in Frames, m \in Names : q.head[k][m] = u => k = s
            \/ v # Nil /\ p.mark[v] = NoProc /\ u = Nil

LEMMA MovesShare ==
    ASSUME NEW p \in PoolType, NEW q \in PoolType, Moves(p, q), NEW pr, NEW rx,
           Used(pr, rx) \subseteq Frames, Accounted(p, pr, rx)
    PROVE  Accounted(q, pr, rx)
<1> SUFFICES ASSUME NEW s \in Used(pr, rx), NEW n \in Names, q.head[s][n] # Nil
             PROVE  Marks(q, pr, rx, s, n)
  BY DEF Accounted
<1> DEFINE v == q.head[s][n]
<1>1. s \in Frames
  OBVIOUS
<1>2. CASE p.head[s][n] = v
  <2>1. q.mark[v] = p.mark[v] /\ v \in Objects(p)
    BY <1>1, <1>2, ObjectFacts DEF Moves
  <2>2. Marks(p, pr, rx, s, n)
    BY <1>2 DEF Accounted
  <2>3. p.mark[v] = NoProc => \A k \in Used(pr, rx) : p.head[k][n] = v => k = s
    BY <1>2, <2>2 DEF Marks, Sharers
  <2>4. ASSUME NEW k \in Used(pr, rx)
        PROVE  q.head[k][n] = v <=> p.head[k][n] = v
    <3>1. k \in Frames
      OBVIOUS
    <3>2. ASSUME q.head[k][n] = v PROVE p.head[k][n] = v
      BY <2>1, <3>1, <3>2 DEF Moves
    <3>3. ASSUME p.head[k][n] = v PROVE q.head[k][n] = v
      <4>1. CASE p.mark[v] = NoProc
        BY <2>3, <3>3, <4>1
      <4>2. CASE p.mark[v] # NoProc
        BY <3>1, <3>3, <4>2 DEF Moves
      <4> QED BY <4>1, <4>2
    <3> QED BY <3>2, <3>3
  <2>5. Sharers(q, pr, rx, n, v) = Sharers(p, pr, rx, n, v)
    BY <2>4 DEF Sharers
  <2> QED BY <1>2, <2>1, <2>2, <2>5 DEF Marks
<1>3. CASE p.head[s][n] # v
  <2>1. /\ q.mark[v] = NoProc
        /\ \A k \in Frames, m \in Names : q.head[k][m] = v => k = s
    BY <1>1, <1>3 DEF Moves
  <2>2. Sharers(q, pr, rx, n, v) = {s}
    BY <2>1 DEF Sharers
  <2> QED BY <2>1, <2>2 DEF Marks
<1> QED BY <1>2, <1>3

\* Operations that leave all heads alone.
LEMMA StillKeeps ==
    ASSUME NEW p, NEW q \in PoolType, q.head = p.head,
           NEW pr, NEW rx, Used(pr, rx) \subseteq Frames,
           \A v \in Objects(p) : q.mark[v] = p.mark[v] /\ (v \in p.live => v \in q.live),
           NEW N, TailsOf(q, VarIds) \subseteq TailsOf(p, VarIds) \cup N,
           N \cap Objects(p) = {}
    PROVE  Keeps(p, q, pr, rx, N)
<1> SUFFICES ASSUME Owned(p, pr, rx)
             PROVE  /\ Owned(q, pr, rx)
                    /\ \A x : Unused(p, x) /\ x \notin N => Unused(q, x)
  BY DEF Keeps
<1>1. p \in PoolType /\ Tidy(p) /\ Accounted(p, pr, rx)
  BY DEF Owned, Tidy
<1>2. Objects(q) = Objects(p)
  BY DEF Objects
<1>3. Moves(p, q)
  BY <1>1, ObjectFacts DEF Moves
<1>4. Accounted(q, pr, rx)
  BY <1>1, <1>3, MovesShare
<1>5. Tidy(q)
  BY <1>1, <1>2 DEF Tidy
<1> QED BY <1>2, <1>4, <1>5 DEF Owned, Unused

\* Those that change values and caches only.
SameShape(p, q) ==
    q \in PoolType /\ q.head = p.head /\ q.tail = p.tail /\ q.mark = p.mark /\ q.live = p.live

LEMMA ShapeKeeps ==
    ASSUME NEW p, NEW q, SameShape(p, q), NEW pr, NEW rx, Used(pr, rx) \subseteq Frames
    PROVE  Keeps(p, q, pr, rx, {})
<1>1. TailsOf(q, VarIds) = TailsOf(p, VarIds)
  BY DEF SameShape, TailsOf
<1> QED BY <1>1, StillKeeps DEF SameShape

LEMMA ShapeTrans ==
    ASSUME NEW p, NEW q, NEW r, SameShape(p, q), SameShape(q, r)
    PROVE  SameShape(p, r)
BY DEF SameShape

LEMMA StoreShape ==
    ASSUME NEW p \in PoolType, NEW v, NEW val \in Text
    PROVE  SameShape(p, Store(p, v, val))
<1> DEFINE w == [p.value EXCEPT ![v] = val]
           q == [p EXCEPT !.value = w]
<1>1. Store(p, v, val) \in PoolType
  BY StoreQuiet DEF Quiet
<1>2. Store(p, v, val) = q
  BY DEF Store
<1> HIDE DEF w
<1>3. q.head = p.head /\ q.tail = p.tail /\ q.mark = p.mark /\ q.live = p.live
  BY DEF PoolType
<1> QED BY <1>1, <1>2, <1>3 DEF SameShape

LEMMA AssignShape ==
    ASSUME NEW p \in PoolType, NEW v \in VarIds
    PROVE  SameShape(p, ScopeAssign(p, v))
BY ScopeAssignQuiet DEF SameShape, ScopeAssign, Quiet

LEMMA ForgetShape ==
    ASSUME NEW p \in PoolType, NEW n \in Names
    PROVE  SameShape(p, Forget(p, n))
<1>1. Forget(p, n) \in PoolType
  BY CacheSet, ConstantTypes DEF Forget
<1> QED BY <1>1 DEF SameShape, Forget

LEMMA MemoShape ==
    ASSUME NEW p \in PoolType, NEW id \in IdRange, NEW sc \in Frames, NEW n \in Names
    PROVE  SameShape(p, Memo(p, id, sc, n))
<1>1. Memo(p, id, sc, n) \in PoolType
  BY MemoGood DEF Good
<1> QED BY <1>1 DEF SameShape, Memo

LEMMA FindShape ==
    ASSUME NEW p \in PoolType, NEW id \in IdRange, NEW sc \in Frames, NEW cur \in Frames,
           NEW r \in Refs
    PROVE  SameShape(p, Find(p, id, sc, cur, r).pool)
<1>1. \A u \in PoolType : SameShape(u, u)
  BY DEF SameShape
<1>2. ASSUME NEW u \in PoolType, NEW s \in Frames, NEW n \in Names
      PROVE  SameShape(u, SearchName(u, id, s, n)) /\ SameShape(u, SearchStem(u, id, s, n))
  BY <1>1, MemoShape DEF SearchName, SearchStem
<1>3. CASE r \in Names
  BY <1>2, <1>3 DEF Find
<1>4. CASE r \notin Names
  <2>1. r[1] \in Names /\ r[2] \in Indexes
    BY <1>4, ConstantTypes DEF Names
  <2> DEFINE q == SearchStem(p, id, sc, r[1])
             z == SearchIndex(q, id, cur, r[2])
  <2>2. SameShape(p, q)
    BY <1>2, <2>1
  <2> HIDE DEF q
  <2>3. q \in PoolType
    BY <2>2 DEF SameShape
  <2>4. r[2] \in Data \/ r[2] \in Names
    BY <2>1 DEF Indexes, Names
  <2>5. SameShape(q, z)
    BY <1>1, <1>2, <2>3, <2>4 DEF SearchIndex
  <2>6. Find(p, id, sc, cur, r).pool = z
    BY <1>4 DEF Find, q
  <2> HIDE DEF z
  <2> QED BY <2>2, <2>5, <2>6, ShapeTrans
<1> QED BY <1>3, <1>4
-----------------------------------------------------------------------------
(* New objects.                                                            *)

LEMMA AllocFields ==
    ASSUME NEW p \in PoolType, NEW v \in VarIds, NEW val \in Text
    PROVE  LET q == Alloc(p, v, val)
           IN  /\ q \in PoolType /\ q.head = p.head /\ q.tail = p.tail
               /\ q.live = p.live \cup {v} /\ q.mark[v] = NoProc
               /\ \A u \in VarIds \ {v} : q.mark[u] = p.mark[u]
<1> DEFINE q == Alloc(p, v, val)
<1>1. q \in PoolType
  BY AllocQuiet DEF Quiet
<1>2. q.head = p.head /\ q.tail = p.tail /\ q.live = p.live \cup {v}
      /\ q.mark = [p.mark EXCEPT ![v] = NoProc]
  BY DEF Alloc, PoolType
<1>3. p.mark \in [VarIds -> -1..MaxProc]
  BY DEF PoolType
<1> HIDE DEF q
<1>4. /\ q \in PoolType /\ q.head = p.head /\ q.tail = p.tail
      /\ q.live = p.live \cup {v} /\ q.mark[v] = NoProc
      /\ \A u \in VarIds \ {v} : q.mark[u] = p.mark[u]
  BY <1>1, <1>2, <1>3
<1> QED BY <1>4 DEF q

LEMMA AllocKeeps ==
    ASSUME NEW p \in PoolType, NEW v, Unused(p, v), NEW val \in Text,
           NEW pr, NEW rx, Used(pr, rx) \subseteq Frames
    PROVE  Keeps(p, Alloc(p, v, val), pr, rx, {})
<1> DEFINE q == Alloc(p, v, val)
<1>1. v \in VarIds /\ v \notin Objects(p)
  BY DEF Unused
<1>2. /\ q \in PoolType /\ q.head = p.head /\ q.tail = p.tail
      /\ q.live = p.live \cup {v}
      /\ \A u \in VarIds \ {v} : q.mark[u] = p.mark[u]
  BY <1>1, AllocFields
<1> HIDE DEF q
<1>3. TailsOf(q, VarIds) = TailsOf(p, VarIds)
  BY <1>2 DEF TailsOf
<1>4. \A u \in Objects(p) : q.mark[u] = p.mark[u]
  BY <1>1, <1>2, ObjectFacts
<1>5. Keeps(p, q, pr, rx, {})
  BY <1>2, <1>3, <1>4, StillKeeps
<1> QED BY <1>5 DEF q

LEMMA HeadFields ==
    ASSUME NEW p \in PoolType, NEW sc \in Frames, NEW n \in Names, NEW v \in VarRefs
    PROVE  LET q == SetHead(p, sc, n, v)
           IN  /\ q \in PoolType /\ q.tail = p.tail /\ q.live = p.live /\ q.mark = p.mark
               /\ q.head[sc][n] = v
               /\ \A s \in Frames, m \in Names :
                     s # sc \/ m # n => q.head[s][m] = p.head[s][m]
<1> DEFINE q == SetHead(p, sc, n, v)
<1>1. q.tail = p.tail /\ q.live = p.live /\ q.mark = p.mark
  BY DEF SetHead
<1>2. /\ q \in PoolType /\ q.head[sc][n] = v
      /\ \A s \in Frames, m \in Names : s # sc \/ m # n => q.head[s][m] = p.head[s][m]
  BY HeadSet
<1> HIDE DEF q
<1>3. /\ q \in PoolType /\ q.tail = p.tail /\ q.live = p.live /\ q.mark = p.mark
      /\ q.head[sc][n] = v
      /\ \A s \in Frames, m \in Names : s # sc \/ m # n => q.head[s][m] = p.head[s][m]
  BY <1>1, <1>2
<1> QED BY <1>3 DEF q

LEMMA NewHeadKeeps ==
    ASSUME NEW p \in PoolType, NEW sc \in Frames, NEW n \in Names, p.head[sc][n] = Nil,
           NEW v, Unused(p, v), NEW val \in Text,
           NEW pr, NEW rx, Used(pr, rx) \subseteq Frames
    PROVE  Keeps(p, SetHead(Alloc(p, v, val), sc, n, v), pr, rx, {v})
<1> SUFFICES ASSUME Owned(p, pr, rx)
             PROVE  LET q == SetHead(Alloc(p, v, val), sc, n, v)
                    IN  /\ Owned(q, pr, rx)
                        /\ \A x : Unused(p, x) /\ x \notin {v} => Unused(q, x)
  BY DEF Keeps
<1> DEFINE a == Alloc(p, v, val)
           q == SetHead(a, sc, n, v)
<1>1. v \in VarIds /\ v \notin Objects(p) /\ v \notin TailsOf(p, VarIds) /\ v \in VarRefs /\ v # Nil
  BY PoolConstants DEF Unused, VarRefs
<1>2. /\ a \in PoolType /\ a.head = p.head /\ a.tail = p.tail
      /\ a.live = p.live \cup {v} /\ a.mark[v] = NoProc
      /\ \A u \in VarIds \ {v} : a.mark[u] = p.mark[u]
  BY <1>1, AllocFields
<1> HIDE DEF a
<1>3. /\ q \in PoolType /\ q.tail = a.tail /\ q.live = a.live /\ q.mark = a.mark
      /\ q.head[sc][n] = v
      /\ \A s \in Frames, m \in Names : s # sc \/ m # n => q.head[s][m] = a.head[s][m]
  BY <1>1, <1>2, HeadFields
<1> HIDE DEF q
<1>4. Tidy(p) /\ Accounted(p, pr, rx)
  BY DEF Owned
<1>5. \A s \in Frames, m \in Names : s # sc \/ m # n => q.head[s][m] = p.head[s][m]
  BY <1>2, <1>3
<1>6. \A s \in Frames, m \in Names :
         /\ p.head[s][m] # v
         /\ p.head[s][m] # Nil => p.head[s][m] \in Objects(p) /\ p.head[s][m] \in VarIds
  BY <1>1, ObjectFacts
<1>7. Objects(q) = Objects(p) \cup {v}
  <2>1. \A s \in Frames, m \in Names : q.head[s][m] # Nil =>
           q.head[s][m] = v \/ q.head[s][m] \in Objects(p)
    BY <1>3, <1>5, <1>6
  <2>2. \A s \in Frames, m \in Names : p.head[s][m] # Nil => q.head[s][m] = p.head[s][m]
    BY <1>5
  <2> QED BY <1>1, <1>3, <2>1, <2>2 DEF Objects
<1>8. TailsOf(q, VarIds) = TailsOf(p, VarIds)
  BY <1>2, <1>3 DEF TailsOf
<1>9. Tidy(q)
  <2>1. Objects(q) \subseteq q.live /\ Objects(q) \cap TailsOf(q, VarIds) = {}
    BY <1>1, <1>2, <1>3, <1>4, <1>7, <1>8 DEF Tidy
  <2>2. ASSUME NEW s \in Frames, NEW k \in Frames, NEW i \in Names, NEW j \in Names,
               q.head[s][i] # Nil, q.head[k][j] = q.head[s][i]
        PROVE  j = i
    <3>1. CASE s = sc /\ i = n
      BY <1>3, <1>5, <1>6, <2>2, <3>1
    <3>2. CASE ~ (s = sc /\ i = n)
      <4>1. q.head[s][i] = p.head[s][i] /\ p.head[s][i] # v
        BY <1>5, <1>6, <3>2
      <4>2. q.head[k][j] = p.head[k][j]
        BY <1>3, <1>5, <2>2, <4>1
      <4> QED BY <1>4, <2>2, <4>1, <4>2 DEF Tidy
    <3> QED BY <3>1, <3>2
  <2> QED BY <1>3, <2>1, <2>2 DEF Tidy
<1>10. Moves(p, q)
  <2> SUFFICES ASSUME NEW s \in Frames, NEW m \in Names
               PROVE  LET x == p.head[s][m]
                          u == q.head[s][m]
                      IN  \/ u = x /\ (x # Nil => q.mark[x] = p.mark[x])
                          \/ /\ x = Nil /\ u # Nil /\ u \notin Objects(p) /\ q.mark[u] = NoProc
                             /\ \A k \in Frames, l \in Names : q.head[k][l] = u => k = s
                          \/ x # Nil /\ p.mark[x] = NoProc /\ u = Nil
    BY DEF Moves
  <2>1. CASE s = sc /\ m = n
    <3>1. \A k \in Frames, l \in Names : q.head[k][l] = v => k = sc
      BY <1>5, <1>6
    <3> QED BY <1>1, <1>2, <1>3, <2>1, <3>1
  <2>2. CASE ~ (s = sc /\ m = n)
    BY <1>2, <1>3, <1>5, <1>6, <2>2
  <2> QED BY <2>1, <2>2
<1>11. Accounted(q, pr, rx)
  BY <1>3, <1>4, <1>10, MovesShare
<1>12. \A x : Unused(p, x) /\ x \notin {v} => Unused(q, x)
  BY <1>7, <1>8 DEF Unused
<1> QED BY <1>9, <1>11, <1>12 DEF Owned, q, a

LEMMA TailFields ==
    ASSUME NEW p \in PoolType, NEW h \in VarIds, NEW s \in Slots, NEW v \in VarIds
    PROVE  LET q == [p EXCEPT !.tail[h][s] = v]
           IN  /\ q \in PoolType /\ q.head = p.head /\ q.live = p.live /\ q.mark = p.mark
               /\ \A u \in VarIds, c \in Slots :
                     q.tail[u][c] = p.tail[u][c] \/ q.tail[u][c] = v
<1> DEFINE t == [p.tail EXCEPT ![h][s] = v]
           q == [p EXCEPT !.tail = t]
<1>1. [p EXCEPT !.tail[h][s] = v] = q
  OBVIOUS
<1>2. [p EXCEPT !.tail[h][s] = v] \in PoolType
  BY TailSetQuiet DEF Quiet
<1>3. \A u \in VarIds, c \in Slots : t[u][c] = p.tail[u][c] \/ t[u][c] = v
  BY DEF PoolType
<1> HIDE DEF t
<1>4. q.head = p.head /\ q.live = p.live /\ q.mark = p.mark /\ q.tail = t
  BY DEF PoolType
<1> QED BY <1>1, <1>2, <1>3, <1>4

LEMMA TailKeeps ==
    ASSUME NEW p \in PoolType, NEW h \in VarIds, NEW s \in Slots, NEW v \in VarIds,
           v \notin Objects(p), NEW pr, NEW rx, Used(pr, rx) \subseteq Frames
    PROVE  Keeps(p, [p EXCEPT !.tail[h][s] = v], pr, rx, {v})
<1> DEFINE q == [p EXCEPT !.tail[h][s] = v]
<1>1. /\ q \in PoolType /\ q.head = p.head /\ q.live = p.live /\ q.mark = p.mark
      /\ \A u \in VarIds, c \in Slots : q.tail[u][c] = p.tail[u][c] \/ q.tail[u][c] = v
  BY TailFields
<1> HIDE DEF q
<1>2. TailsOf(q, VarIds) \subseteq TailsOf(p, VarIds) \cup {v}
  BY <1>1 DEF TailsOf
<1>3. {v} \cap Objects(p) = {}
  OBVIOUS
<1>4. Keeps(p, q, pr, rx, {v})
  BY <1>1, <1>2, <1>3, StillKeeps
<1> QED BY <1>4 DEF q

\* RxVarAdd; r has no object in sc, and stem is the stem's, if there is one.
LEMMA AddKeeps ==
    ASSUME NEW p \in PoolType, NEW sc \in Frames, NEW r \in Refs,
           NEW stem \in VarRefs, NEW t \in Text,
           NEW v, Unused(p, v), NEW w, Unused(p, w), v # w \/ r \in Names,
           r \in Names => p.head[sc][r] = Nil,
           r \notin Names => stem = p.head[sc][r[1]],
           NEW pr, NEW rx, Used(pr, rx) \subseteq Frames
    PROVE  Keeps(p, Add(p, sc, r, stem, t, v, w), pr, rx, {v, w})
<1>0. v \in VarIds /\ w \in VarIds
  BY DEF Unused
<1>1. CASE r \in Names
  <2>1. Add(p, sc, r, stem, t, v, w) = SetHead(Alloc(p, v, Empty), sc, r, v)
    BY <1>1 DEF Add
  <2>2. Keeps(p, Add(p, sc, r, stem, t, v, w), pr, rx, {v})
    BY <1>1, <2>1, NewHeadKeeps, ConstantTypes
  <2> QED BY <2>2, KeepsMore
<1>2. CASE r \notin Names
  <2> DEFINE h == IF stem = Nil THEN w ELSE stem
             q == IF stem = Nil
                  THEN SetHead(Alloc(p, w, Null), sc, r[1], w)
                  ELSE p
             d == IF q.value[h] = Null THEN Empty ELSE q.value[h]
             a == Alloc(q, v, d)
             z == [a EXCEPT !.tail[h][<<t, "hash">>] = v]
  <2>1. r[1] \in Names
    BY <1>2, ConstantTypes DEF Names
  <2>2. h \in VarIds
    BY <1>0 DEF VarRefs
  <2>3. q \in PoolType /\ Keeps(p, q, pr, rx, {w})
    <3>1. CASE stem = Nil
      <4>1. q = SetHead(Alloc(p, w, Null), sc, r[1], w) /\ p.head[sc][r[1]] = Nil
        BY <1>2, <3>1
      <4>2. Adds(p, q, sc)
        BY <1>0, <2>1, <4>1, NewHeadAdds, ConstantTypes
      <4> HIDE DEF q
      <4> QED BY <2>1, <4>1, <4>2, NewHeadKeeps, ConstantTypes DEF Adds
    <3>2. CASE stem # Nil
      BY <3>2, KeepsSelf
    <3> QED BY <3>1, <3>2
  <2> HIDE DEF h, q
  <2>4. d \in Text
    BY <2>2, <2>3, ConstantTypes DEF PoolType
  <2> HIDE DEF d
  <2>5. SUFFICES ASSUME Owned(p, pr, rx) PROVE Keeps(p, z, pr, rx, {v, w})
    <3>1. Add(p, sc, r, stem, t, v, w) = z
      BY <1>2 DEF Add, h, q, d
    <3> HIDE DEF z
    <3> QED BY <2>5, <3>1 DEF Keeps
  <2>6. Unused(q, v)
    BY <1>2, <2>3, <2>5 DEF Keeps
  <2>7. a \in PoolType /\ a.head = q.head
    BY <1>0, <2>3, <2>4, AllocFields
  <2>8. Keeps(q, a, pr, rx, {})
    BY <2>3, <2>4, <2>6, AllocKeeps
  <2> HIDE DEF a
  <2>9. v \notin Objects(a) /\ <<t, "hash">> \in Slots
    BY <2>6, <2>7 DEF Unused, Objects, Slots
  <2>10. Keeps(a, z, pr, rx, {v})
    BY <1>0, <2>2, <2>7, <2>9, TailKeeps
  <2> HIDE DEF z
  <2>11. Keeps(p, a, pr, rx, {w} \cup {})
    BY <2>3, <2>8, KeepsTrans
  <2>12. Keeps(p, z, pr, rx, ({w} \cup {}) \cup {v})
    BY <2>10, <2>11, KeepsTrans
  <2>13. ({w} \cup {}) \cup {v} = {v, w}
    OBVIOUS
  <2> QED BY <2>12, <2>13
<1> QED BY <1>1, <1>2

LEMMA UnusedHead ==
    ASSUME NEW p, NEW q, q.head = p.head, q.tail = p.tail, NEW v, Unused(p, v)
    PROVE  Unused(q, v)
BY DEF Unused, Objects, TailsOf

\* OP_CREATE, and RxVarSet of a special variable.
LEMMA CreateKeeps ==
    ASSUME NEW p \in PoolType, NEW id \in IdRange, NEW sc \in Frames, NEW r \in Refs,
           CoherentIn(p, id, sc), id # NoCache,
           NEW v, Unused(p, v), NEW w, Unused(p, w), v # w \/ r \in Names,
           NEW pr, NEW rx, Used(pr, rx) \subseteq Frames
    PROVE  Keeps(p, Create(p, id, sc, r, v, w).pool, pr, rx, {v, w})
<1> DEFINE f == Find(p, id, sc, sc, r)
           q == Add(f.pool, sc, r, f.stem, f.tail, v, w)
           z == IF r \in Names THEN Memo(q, id, sc, r) ELSE q
           c == Create(p, id, sc, r, v, w)
<1>1. SameShape(p, f.pool)
  BY FindShape
<1>2. Keeps(p, f.pool, pr, rx, {})
  BY <1>1, ShapeKeeps
<1>3. f.var \in VarRefs /\ f.stem \in VarRefs /\ f.tail \in Text
  BY FindTypes
<1>4. r \in Names => f.var = p.head[sc][r]
  BY DEF Find
<1>5. r \notin Names => f.stem = p.head[sc][r[1]]
  BY FindStem
<1>6. \/ c.pool = p
      \/ c.pool = f.pool
      \/ c.pool = z /\ f.var = Nil
  BY DEF Create
<1>7. CASE c.pool = p
  <2> HIDE DEF c
  <2> QED BY <1>7, KeepsSelf DEF c
<1>8. CASE c.pool = f.pool
  <2> HIDE DEF c, f
  <2>1. Keeps(p, c.pool, pr, rx, {v, w})
    BY <1>2, <1>8, KeepsMore
  <2> QED BY <2>1 DEF c
<1>9. CASE c.pool = z /\ f.var = Nil
  <2> HIDE DEF c, f
  <2>0. v \in VarIds /\ w \in VarIds
    BY DEF Unused
  <2>1. f.pool \in PoolType /\ f.pool.head = p.head /\ Unused(f.pool, v) /\ Unused(f.pool, w)
    BY <1>1, UnusedHead DEF SameShape
  <2>2. Keeps(f.pool, q, pr, rx, {v, w})
    BY <1>3, <1>4, <1>5, <1>9, <2>1, AddKeeps
  <2>3. Adds(f.pool, q, sc)
    BY <1>3, <1>4, <1>5, <1>9, <2>0, <2>1, AddAdds
  <2> HIDE DEF q
  <2>4. q \in PoolType
    BY <2>3 DEF Adds
  <2>5. Keeps(q, z, pr, rx, {})
    <3>1. CASE r \in Names
      BY <2>4, <3>1, MemoShape, ShapeKeeps
    <3>2. CASE r \notin Names
      BY <3>2, KeepsSelf
    <3> QED BY <3>1, <3>2
  <2> HIDE DEF z
  <2>6. Keeps(p, q, pr, rx, {} \cup {v, w})
    BY <1>2, <2>2, KeepsTrans
  <2>7. Keeps(p, z, pr, rx, ({} \cup {v, w}) \cup {})
    BY <2>5, <2>6, KeepsTrans
  <2>8. Keeps(p, c.pool, pr, rx, {v, w})
    BY <1>9, <2>7, KeepsMore
  <2> QED BY <2>8 DEF c
<1> QED BY <1>6, <1>7, <1>8, <1>9

LEMMA VarSetKeeps ==
    ASSUME NEW p \in PoolType, NEW id \in IdRange, NEW sc \in Frames, NEW n \in Names,
           CoherentIn(p, id, sc), id # NoCache, NEW val \in Text, NEW v, Unused(p, v),
           NEW pr, NEW rx, Used(pr, rx) \subseteq Frames
    PROVE  Keeps(p, VarSet(p, id, sc, n, val, v), pr, rx, {v})
<1> DEFINE c == Create(p, id, sc, n, v, v)
           z == Store(c.pool, c.var, val)
<1>1. n \in Refs /\ v \in VarIds
  BY DEF Refs, Unused
<1>2. Keeps(p, c.pool, pr, rx, {v, v})
  BY <1>1, CreateKeeps
<1>3. c.pool \in PoolType
  BY <1>1, CreateGood DEF Good
<1> HIDE DEF c
<1>4. Keeps(c.pool, z, pr, rx, {})
  BY <1>3, StoreShape, ShapeKeeps
<1> HIDE DEF z
<1>5. Keeps(p, z, pr, rx, {v, v} \cup {})
  BY <1>2, <1>4, KeepsTrans
<1>6. Keeps(p, z, pr, rx, {v})
  BY <1>5, KeepsMore
<1> QED BY <1>6 DEF VarSet, c, z

-----------------------------------------------------------------------------
(* Freeing.                                                                *)

\* RxVarFree of objects that are no heads (any more).
LEMMA ReleaseFields ==
    ASSUME NEW p \in PoolType, NEW V \in SUBSET VarIds, NEW rx0
    PROVE  LET q == Release(p, V, rx0)
           IN  /\ q \in PoolType /\ q.head = p.head
               /\ TailsOf(q, VarIds) \subseteq TailsOf(p, VarIds)
               /\ \A v \in VarIds : v \notin V /\ v \notin TailsOf(p, VarIds) =>
                     q.mark[v] = p.mark[v] /\ (v \in p.live => v \in q.live)
               /\ \A v \in V : p.mark[v] # NoProc /\ v \notin TailsOf(p, VarIds) =>
                     /\ v \in p.live => v \in q.live
                     /\ q.mark[v] = IF p.mark[v] = rx0 - 1 THEN NoProc ELSE p.mark[v]
<1> DEFINE q == Release(p, V, rx0)
           stems == {v \in V : p.mark[v] = NoProc}
           all   == V \cup TailsOf(p, stems)
           freed == {v \in all : p.mark[v] = NoProc}
<1>1. q \in PoolType /\ q.head = p.head
  BY ReleaseQuiet DEF Quiet
<1>2. /\ q.live = p.live \ freed
      /\ q.tail = [v \in VarIds |-> IF v \in freed THEN NoTails ELSE p.tail[v]]
      /\ q.mark = [v \in VarIds |->
                     IF v \in all /\ p.mark[v] = rx0 - 1 THEN NoProc ELSE p.mark[v]]
  BY DEF Release, PoolType
<1>3. stems \in SUBSET VarIds
  OBVIOUS
<1> HIDE DEF stems
<1>4. TailsOf(p, stems) \subseteq TailsOf(p, VarIds)
  BY <1>3, ObjectFacts
<1>5. V \subseteq all /\ all \subseteq V \cup TailsOf(p, VarIds)
  BY <1>4
<1> HIDE DEF all
<1>6. freed \subseteq all /\ \A v \in freed : p.mark[v] = NoProc
  OBVIOUS
<1> HIDE DEF freed, q
<1>7. \A v \in VarIds, s \in Slots : q.tail[v][s] = p.tail[v][s] \/ q.tail[v][s] = Nil
  BY <1>2 DEF NoTails
<1>8. TailsOf(q, VarIds) \subseteq TailsOf(p, VarIds)
  BY <1>7 DEF TailsOf
<1>9. \A v \in VarIds : v \notin V /\ v \notin TailsOf(p, VarIds) =>
         q.mark[v] = p.mark[v] /\ (v \in p.live => v \in q.live)
  BY <1>2, <1>5, <1>6
<1>10. \A v \in V : p.mark[v] # NoProc /\ v \notin TailsOf(p, VarIds) =>
          /\ v \in p.live => v \in q.live
          /\ q.mark[v] = IF p.mark[v] = rx0 - 1 THEN NoProc ELSE p.mark[v]
  BY <1>2, <1>5, <1>6
<1> QED BY <1>1, <1>8, <1>9, <1>10 DEF q

LEMMA EmptyStemKeeps ==
    ASSUME NEW p \in PoolType, NEW v \in VarIds, NEW rx0,
           NEW pr, NEW rx, Used(pr, rx) \subseteq Frames
    PROVE  Keeps(p, EmptyStem(p, v, rx0), pr, rx, {})
<1> SUFFICES ASSUME Owned(p, pr, rx) PROVE Keeps(p, EmptyStem(p, v, rx0), pr, rx, {})
  BY DEF Keeps
<1> DEFINE V == TailsOf(p, {v})
           q == Release(p, V, rx0)
           z == EmptyStem(p, v, rx0)
<1>1. V \in SUBSET VarIds /\ V \subseteq TailsOf(p, VarIds)
  BY ObjectFacts
<1>2. Objects(p) \cap TailsOf(p, VarIds) = {} /\ Objects(p) \subseteq VarIds
  BY ObjectFacts DEF Owned, Tidy
<1> HIDE DEF V
<1>3. /\ q \in PoolType /\ q.head = p.head
      /\ TailsOf(q, VarIds) \subseteq TailsOf(p, VarIds)
      /\ \A u \in Objects(p) : q.mark[u] = p.mark[u] /\ (u \in p.live => u \in q.live)
  BY <1>1, <1>2, ReleaseFields
<1>4. z = [q EXCEPT !.tail[v] = NoTails]
  BY DEF EmptyStem, V
<1> HIDE DEF q
<1>5. z \in PoolType
  BY <1>3, <1>4, ResetQuiet DEF Quiet
<1> DEFINE t == [q.tail EXCEPT ![v] = NoTails]
<1>6. z = [q EXCEPT !.tail = t]
  BY <1>4
<1>7. \A u \in VarIds, s \in Slots : t[u][s] = q.tail[u][s] \/ t[u][s] = Nil
  BY <1>3 DEF PoolType, NoTails
<1> HIDE DEF t, z
<1>8. z.head = q.head /\ z.live = q.live /\ z.mark = q.mark /\ z.tail = t
  BY <1>3, <1>6 DEF PoolType
<1>9. TailsOf(z, VarIds) \subseteq TailsOf(q, VarIds)
  BY <1>7, <1>8 DEF TailsOf
<1>10. Keeps(p, z, pr, rx, {})
  BY <1>3, <1>5, <1>8, <1>9, StillKeeps
<1> QED BY <1>10 DEF z
\* A scope that no frame has is empty (Sound).
Closed(p, pr, rx) == \A s \in Frames : s \notin Used(pr, rx) => p.head[s] = NoHeads

\* BinDel of a variable that no other scope has.
LEMMA RemoveKeeps ==
    ASSUME NEW p \in PoolType, NEW sc \in Frames, NEW n \in Names,
           p.head[sc][n] # Nil, p.mark[p.head[sc][n]] = NoProc,
           NEW rx0, NEW pr, NEW rx, Used(pr, rx) \subseteq Frames,
           sc \in Used(pr, rx), Closed(p, pr, rx)
    PROVE  Keeps(p, Remove(p, sc, n, rx0), pr, rx, {})
<1> SUFFICES ASSUME Owned(p, pr, rx) PROVE Keeps(p, Remove(p, sc, n, rx0), pr, rx, {})
  BY DEF Keeps
<1> DEFINE v == p.head[sc][n]
           a == SetHead(p, sc, n, Nil)
           q == Remove(p, sc, n, rx0)
<1>1. Tidy(p) /\ Accounted(p, pr, rx)
  BY DEF Owned
<1>2. v \in VarIds /\ v \in Objects(p) /\ v # Nil /\ p.mark[v] = NoProc
  BY ObjectFacts
<1>3. Marks(p, pr, rx, sc, n)
  BY <1>1 DEF Accounted
<1>4. \A s \in Used(pr, rx) : p.head[s][n] = v => s = sc
  BY <1>2, <1>3 DEF Marks, Sharers
<1>5. \A s \in Frames, m \in Names : p.head[s][m] = v => s = sc /\ m = n
  <2> SUFFICES ASSUME NEW s \in Frames, NEW m \in Names, p.head[s][m] = v
               PROVE  s = sc /\ m = n
    OBVIOUS
  <2>1. m = n
    BY <1>1, <1>2 DEF Tidy
  <2>2. s \in Used(pr, rx)
    BY <1>2 DEF Closed, NoHeads
  <2> QED BY <1>4, <2>1, <2>2
<1>6. /\ a \in PoolType /\ a.tail = p.tail /\ a.live = p.live /\ a.mark = p.mark
      /\ a.head[sc][n] = Nil
      /\ \A s \in Frames, m \in Names : s # sc \/ m # n => a.head[s][m] = p.head[s][m]
  BY HeadFields DEF VarRefs
<1>7. q = Release(a, {v}, rx0)
  BY DEF Remove
<1> HIDE DEF a, v
<1>8. {v} \in SUBSET VarIds
  BY <1>2
<1>9. TailsOf(a, VarIds) = TailsOf(p, VarIds)
  BY <1>6 DEF TailsOf
<1>10. /\ q \in PoolType /\ q.head = a.head
       /\ TailsOf(q, VarIds) \subseteq TailsOf(p, VarIds)
       /\ \A u \in VarIds : u # v /\ u \notin TailsOf(p, VarIds) =>
             q.mark[u] = p.mark[u] /\ (u \in p.live => u \in q.live)
  <2> DEFINE z == Release(a, {v}, rx0)
  <2>1. /\ z \in PoolType /\ z.head = a.head
        /\ TailsOf(z, VarIds) \subseteq TailsOf(a, VarIds)
        /\ \A u \in VarIds : u \notin {v} /\ u \notin TailsOf(a, VarIds) =>
              z.mark[u] = a.mark[u] /\ (u \in a.live => u \in z.live)
    BY <1>6, <1>8, ReleaseFields
  <2> HIDE DEF z, q
  <2>2. q = z
    BY <1>7 DEF z
  <2> QED BY <1>6, <1>9, <2>1, <2>2
<1> HIDE DEF q
<1>11. /\ q.head[sc][n] = Nil
       /\ \A s \in Frames, m \in Names : s # sc \/ m # n =>
             q.head[s][m] = p.head[s][m] /\ p.head[s][m] # v
  BY <1>5, <1>6, <1>10
<1>12. Objects(q) \subseteq Objects(p) \ {v}
  BY <1>11 DEF Objects
<1>13. \A u \in Objects(p) \ {v} : q.mark[u] = p.mark[u] /\ u \in q.live
  BY <1>1, <1>10, ObjectFacts DEF Tidy
<1>14. Moves(p, q)
  <2> SUFFICES ASSUME NEW s \in Frames, NEW m \in Names
               PROVE  LET x == p.head[s][m]
                          u == q.head[s][m]
                      IN  \/ u = x /\ (x # Nil => q.mark[x] = p.mark[x])
                          \/ x # Nil /\ p.mark[x] = NoProc /\ u = Nil
    BY DEF Moves
  <2>1. CASE s = sc /\ m = n
    BY <1>2, <1>11, <2>1 DEF v
  <2>2. CASE ~ (s = sc /\ m = n)
    BY <1>11, <1>13, <2>2, ObjectFacts
  <2> QED BY <2>1, <2>2
<1>15. Accounted(q, pr, rx)
  BY <1>1, <1>10, <1>14, MovesShare
<1>16. Tidy(q)
  <2>1. Objects(q) \subseteq q.live
    BY <1>12, <1>13
  <2>2. Objects(q) \cap TailsOf(q, VarIds) = {}
    BY <1>1, <1>10, <1>12 DEF Tidy
  <2>3. \A s \in Frames, m \in Names :
           q.head[s][m] # Nil => q.head[s][m] = p.head[s][m]
    BY <1>11
  <2>4. ASSUME NEW s \in Frames, NEW k \in Frames, NEW i \in Names, NEW j \in Names,
               q.head[s][i] # Nil, q.head[k][j] = q.head[s][i]
        PROVE  j = i
    <3>1. q.head[s][i] = p.head[s][i] /\ q.head[k][j] = p.head[k][j]
      BY <2>3, <2>4
    <3> QED BY <1>1, <2>4, <3>1 DEF Tidy
  <2> QED BY <1>10, <2>1, <2>2, <2>4 DEF Tidy
<1>17. \A x : Unused(p, x) => Unused(q, x)
  BY <1>10, <1>12 DEF Unused
<1> QED BY <1>15, <1>16, <1>17 DEF Keeps, Owned, q

LEMMA ShapeClosed ==
    ASSUME NEW p, NEW q, SameShape(p, q), NEW pr, NEW rx, Closed(p, pr, rx)
    PROVE  Closed(q, pr, rx)
BY DEF SameShape, Closed

\* A stem that stays loses its tails and takes its own name.
LEMMA ClearKeeps ==
    ASSUME NEW p \in PoolType, NEW v \in VarIds, NEW val \in Text, NEW rx0,
           NEW pr, NEW rx, Used(pr, rx) \subseteq Frames
    PROVE  /\ EmptyStem(Store(p, v, val), v, rx0) \in PoolType
           /\ Keeps(p, EmptyStem(Store(p, v, val), v, rx0), pr, rx, {})
<1> DEFINE a == Store(p, v, val)
           z == EmptyStem(a, v, rx0)
<1>1. SameShape(p, a)
  BY StoreShape
<1> HIDE DEF a
<1>2. a \in PoolType /\ Keeps(p, a, pr, rx, {})
  BY <1>1, ShapeKeeps DEF SameShape
<1>3. z \in PoolType /\ Keeps(a, z, pr, rx, {})
  BY <1>2, EmptyStemKeeps, EmptyStemQuiet DEF Quiet
<1> HIDE DEF z
<1>4. Keeps(p, z, pr, rx, {} \cup {})
  BY <1>2, <1>3, KeepsTrans
<1>5. z \in PoolType /\ Keeps(p, z, pr, rx, {})
  BY <1>3, <1>4
<1> QED BY <1>5 DEF z, a

LEMMA ForgetKeeps ==
    ASSUME NEW p, NEW q \in PoolType, NEW n \in Names, NEW pr, NEW rx,
           Used(pr, rx) \subseteq Frames, Keeps(p, q, pr, rx, {})
    PROVE  Keeps(p, Forget(q, n), pr, rx, {})
<1>1. Keeps(q, Forget(q, n), pr, rx, {})
  BY ForgetShape, ShapeKeeps
<1>2. Keeps(p, Forget(q, n), pr, rx, {} \cup {})
  BY <1>1, KeepsTrans
<1> QED BY <1>2

\* OP_DROP.
LEMMA DropKeeps ==
    ASSUME NEW p \in PoolType, NEW id \in IdRange, NEW sc \in Frames, NEW r \in Refs,
           CoherentIn(p, id, sc), NEW rx0, NEW pr, NEW rx, Used(pr, rx) \subseteq Frames,
           sc \in Used(pr, rx), Closed(p, pr, rx)
    PROVE  Keeps(p, Drop(p, id, sc, r, rx0), pr, rx, {})
<1> DEFINE hit == r \in Names /\ Cached(p, id, r)
           f == Find(p, id, sc, sc, r)
           q == IF hit THEN p ELSE f.pool
           v == IF hit THEN p.cache[r].var ELSE f.var
           val == IF q.value[v] = Null THEN Null ELSE r
           d == Drop(p, id, sc, r, rx0)
<1>1. SameShape(p, f.pool) /\ SameShape(p, p)
  BY FindShape DEF SameShape
<1>2. f.tail \in Text /\ f.var \in VarRefs
  BY FindTypes
<1>3. r \in Names => v = p.head[sc][r]
  BY DEF Cached, CoherentIn, Find
<1>4. \/ d = q
      \/ d = Store(q, v, OwnName(r, f.tail))
      \/ r \in Names /\ d = Forget(q, r)
      \/ r \in Names /\ v # Nil /\ d = Forget(EmptyStem(Store(q, v, val), v, rx0), r)
      \/ r \in Names /\ v # Nil /\ q.mark[v] = NoProc /\ d = Forget(Remove(q, sc, r, rx0), r)
  <2>1. CASE r \notin Names
    BY <2>1 DEF Drop
  <2>2. CASE r \in Names /\ v = Nil
    BY <2>2 DEF Drop
  <2>3. CASE r \in Names /\ v # Nil /\ q.mark[v] # NoProc
    BY <2>3 DEF Drop
  <2>4. CASE r \in Names /\ v # Nil /\ q.mark[v] = NoProc
    BY <2>4 DEF Drop
  <2> HIDE DEF f, q, v, val, d
  <2> QED BY <2>1, <2>2, <2>3, <2>4
<1>5. SameShape(p, q)
  BY <1>1
<1> HIDE DEF f, q, v
<1>6. r \in Names => val \in Text
  BY ConstantTypes
<1> HIDE DEF val, d
<1>7. q \in PoolType /\ Keeps(p, q, pr, rx, {}) /\ q.head = p.head /\ Closed(q, pr, rx)
  BY <1>5, ShapeKeeps, ShapeClosed DEF SameShape
<1>8. r \in Names /\ v # Nil => v \in VarIds
  BY <1>3, ObjectFacts
<1>9. Keeps(q, d, pr, rx, {})
  <2>1. CASE d = q
    BY <2>1, KeepsSelf
  <2>2. CASE d = Store(q, v, OwnName(r, f.tail))
    BY <1>2, <1>7, <2>2, NameTypes, StoreShape, ShapeKeeps
  <2>3. CASE r \in Names /\ d = Forget(q, r)
    BY <1>7, <2>3, ForgetShape, ShapeKeeps
  <2>4. CASE r \in Names /\ v # Nil /\ d = Forget(EmptyStem(Store(q, v, val), v, rx0), r)
    BY <1>6, <1>7, <1>8, <2>4, ClearKeeps, ForgetKeeps
  <2>5. CASE r \in Names /\ v # Nil /\ q.mark[v] = NoProc /\ d = Forget(Remove(q, sc, r, rx0), r)
    <3>1. q.head[sc][r] # Nil /\ q.mark[q.head[sc][r]] = NoProc
      BY <1>3, <1>7, <2>5
    <3>2. Keeps(q, Remove(q, sc, r, rx0), pr, rx, {})
      BY <1>7, <2>5, <3>1, RemoveKeeps
    <3>3. Remove(q, sc, r, rx0) \in PoolType
      BY <1>7, <2>5, RemoveFacts
    <3> QED BY <2>5, <3>2, <3>3, ForgetKeeps
  <2> QED BY <1>4, <2>1, <2>2, <2>3, <2>4, <2>5
<1>10. Keeps(p, d, pr, rx, {} \cup {})
  BY <1>7, <1>9, KeepsTrans
<1>11. Keeps(p, d, pr, rx, {})
  BY <1>10
<1> QED BY <1>11 DEF d

\* One name of a list, or of a drop request.
LEMMA DropNameKeeps ==
    ASSUME NEW p \in PoolType, NEW sc \in Frames, NEW r \in Refs,
           NEW rx0, NEW pr, NEW rx, Used(pr, rx) \subseteq Frames,
           sc \in Used(pr, rx), Closed(p, pr, rx)
    PROVE  Keeps(p, DropName(p, sc, r, rx0), pr, rx, {})
<1> DEFINE f == FindName(p, sc, r)
           d == DropName(p, sc, r, rx0)
<1>1. f.tail \in Text /\ f.var \in VarRefs
  BY FindTypes DEF FindName
<1>2. r \in Names => f.var = p.head[sc][r]
  BY DEF FindName, Find
<1>3. \/ d = p
      \/ f.var # Nil /\ d = EmptyStem(Store(p, f.var, Written(r)), f.var, rx0)
      \/ d = Store(p, f.var, OwnName(r, f.tail))
      \/ /\ r \in Names /\ f.var # Nil /\ p.mark[f.var] = NoProc
         /\ d = Forget(Remove(p, sc, r, rx0), r)
  <2>1. CASE f.var = Nil
    BY <2>1 DEF DropName
  <2>2. CASE f.var # Nil /\ p.mark[f.var] # NoProc
    BY <2>2 DEF DropName
  <2>3. CASE f.var # Nil /\ p.mark[f.var] = NoProc /\ r \notin Names
    BY <2>3 DEF DropName
  <2>4. CASE f.var # Nil /\ p.mark[f.var] = NoProc /\ r \in Names
    BY <2>4 DEF DropName
  <2> HIDE DEF f, d
  <2> QED BY <2>1, <2>2, <2>3, <2>4
<1> HIDE DEF f, d
<1>4. CASE d = p
  BY <1>4, KeepsSelf DEF d
<1>5. CASE f.var # Nil /\ d = EmptyStem(Store(p, f.var, Written(r)), f.var, rx0)
  <2>1. f.var \in VarIds /\ Written(r) \in Text
    BY <1>1, <1>5, NameTypes DEF VarRefs
  <2>2. Keeps(p, d, pr, rx, {})
    BY <1>5, <2>1, ClearKeeps
  <2> QED BY <2>2 DEF d
<1>6. CASE d = Store(p, f.var, OwnName(r, f.tail))
  <2>1. Keeps(p, d, pr, rx, {})
    BY <1>1, <1>6, NameTypes, StoreShape, ShapeKeeps
  <2> QED BY <2>1 DEF d
<1>7. CASE /\ r \in Names /\ f.var # Nil /\ p.mark[f.var] = NoProc
           /\ d = Forget(Remove(p, sc, r, rx0), r)
  <2>1. Keeps(p, Remove(p, sc, r, rx0), pr, rx, {})
    BY <1>2, <1>7, RemoveKeeps
  <2>2. Remove(p, sc, r, rx0) \in PoolType
    BY <1>7, RemoveFacts
  <2>3. Keeps(p, d, pr, rx, {})
    BY <1>7, <2>1, <2>2, ForgetKeeps
  <2> QED BY <2>3 DEF d
<1> QED BY <1>3, <1>4, <1>5, <1>6, <1>7
-----------------------------------------------------------------------------
(* PROCEDURE EXPOSE.                                                       *)

\* RxVarAdd of a compound symbol: of the new objects, the tail is no head.
LEMMA AddHeads ==
    ASSUME NEW p \in PoolType, NEW sc \in Frames, NEW r \in Refs \ Names,
           NEW stem, NEW t, NEW v, NEW w \in VarIds
    PROVE  Objects(Add(p, sc, r, stem, t, v, w)) \subseteq Objects(p) \cup {w}
<1> DEFINE q == IF stem = Nil THEN SetHead(Alloc(p, w, Null), sc, r[1], w) ELSE p
           a == Alloc(p, w, Null)
<1>1. Add(p, sc, r, stem, t, v, w).head = q.head
  BY DEF Add, Alloc
<1>2. r[1] \in Names /\ w \in VarRefs
  BY ConstantTypes DEF Names, VarRefs
<1>3. a \in PoolType /\ a.head = p.head
  BY AllocFields, ConstantTypes
<1>4. ASSUME NEW s \in Frames, NEW n \in Names
      PROVE  q.head[s][n] = p.head[s][n] \/ q.head[s][n] = w
  <2>1. CASE stem = Nil
    <3>1. q = SetHead(a, sc, r[1], w)
      BY <2>1
    <3> HIDE DEF q, a
    <3>2. SetHead(a, sc, r[1], w).head[sc][r[1]] = w
      BY <1>2, <1>3, HeadSet
    <3>3. s # sc \/ n # r[1] => SetHead(a, sc, r[1], w).head[s][n] = a.head[s][n]
      BY <1>2, <1>3, HeadSet
    <3> QED BY <1>3, <3>1, <3>2, <3>3
  <2>2. CASE stem # Nil
    BY <2>2
  <2> QED BY <2>1, <2>2
<1> HIDE DEF q
<1> QED BY <1>1, <1>4 DEF Objects

LEMMA OldVarKeeps ==
    ASSUME NEW p \in PoolType, NEW id \in IdRange, NEW sc \in Frames,
           NEW old \in Frames, NEW r \in Refs,
           NEW v, Unused(p, v), NEW w, Unused(p, w), v # w,
           NEW pr, NEW rx, Used(pr, rx) \subseteq Frames
    PROVE  LET o == OldVar(p, id, old, sc, r, v, w)
           IN  /\ Keeps(p, o.pool, pr, rx, {v, w})
               /\ r \notin Names /\ Tidy(p) =>
                     /\ o.var \notin Objects(o.pool)
                     /\ \A x : Unused(p, x) /\ x # v => o.var # x
<1> DEFINE g == FindOld(p, id, old, sc, r)
           o == OldVar(p, id, old, sc, r, v, w)
           q == o.pool
<1>0. v \in VarIds /\ w \in VarIds /\ NoCache \in IdRange
  BY PoolConstants DEF Unused, IdRange, NoCache
<1>1. SameShape(p, g.pool)
  BY <1>0, FindShape DEF FindOld
<1>2. g.var \in VarRefs /\ g.stem \in VarRefs /\ g.tail \in Text
  BY FindTypes DEF FindOld
<1>3. r \in Names => g.var = p.head[old][r]
  BY DEF FindOld, Find
<1>4. r \notin Names => g.stem = p.head[old][r[1]]
  BY FindStem DEF FindOld
<1>5. g.pool \in PoolType /\ Keeps(p, g.pool, pr, rx, {}) /\ g.pool.head = p.head
      /\ Objects(g.pool) = Objects(p)
  BY <1>1, ShapeKeeps DEF SameShape, Objects
<1>6. CASE g.var # Nil
  <2>1. q = g.pool /\ o.var = g.var
    BY <1>6 DEF OldVar
  <2>2. r \notin Names => g.var \in TailsOf(p, VarIds)
    <3> SUFFICES ASSUME r \notin Names PROVE g.var \in TailsOf(p, VarIds)
      OBVIOUS
    <3> DEFINE h == HeadVar(p, NoCache, old, r[1])
               t == TailOf(p, NoCache, sc, r[2])
    <3>1. h \in VarRefs /\ t \in Text
      BY FindTypes DEF Find
    <3>2. g.var = IF h = Nil THEN Nil ELSE p.tail[h][<<t, "hash">>]
      BY DEF FindOld, Find
    <3> HIDE DEF h, t, g
    <3>3. <<t, "hash">> \in Slots /\ h \in VarIds
      BY <1>6, <3>1, <3>2 DEF Slots, VarRefs
    <3> QED BY <1>6, <3>2, <3>3, ObjectFacts
  <2> HIDE DEF g, o
  <2>3. Keeps(p, q, pr, rx, {v, w})
    BY <1>5, <2>1, KeepsMore
  <2>4. ASSUME r \notin Names, Tidy(p)
        PROVE  o.var \notin Objects(q) /\ \A x : Unused(p, x) /\ x # v => o.var # x
    BY <1>5, <2>1, <2>2, <2>4 DEF Tidy, Unused
  <2> QED BY <2>3, <2>4 DEF o
<1>7. CASE g.var = Nil
  <2> DEFINE a == Add(g.pool, old, r, g.stem, g.tail, v, w)
             name == OwnName(r, g.tail)
  <2>1. Unused(g.pool, v) /\ Unused(g.pool, w)
    BY <1>1, UnusedHead DEF SameShape
  <2>2. Keeps(g.pool, a, pr, rx, {v, w})
    BY <1>2, <1>3, <1>4, <1>5, <1>7, <2>1, AddKeeps
  <2>3. Adds(g.pool, a, old)
    BY <1>0, <1>2, <1>3, <1>4, <1>5, <1>7, AddAdds
  <2>4. name \in Text
    BY <1>2, NameTypes
  <2>5. q = Store(a, v, name) /\ o.var = v
    BY <1>7 DEF OldVar
  <2>6. r \notin Names => Objects(a) \subseteq Objects(g.pool) \cup {w}
    BY <1>0, <1>5, AddHeads
  <2> HIDE DEF a, name, g, o
  <2>7. SameShape(a, q)
    BY <2>3, <2>4, <2>5, StoreShape DEF Adds
  <2>8. Keeps(a, q, pr, rx, {})
    BY <2>7, ShapeKeeps
  <2>9. Keeps(p, a, pr, rx, {} \cup {v, w})
    BY <1>5, <2>2, KeepsTrans
  <2>10. Keeps(p, q, pr, rx, ({} \cup {v, w}) \cup {})
    BY <2>8, <2>9, KeepsTrans
  <2>11. Keeps(p, q, pr, rx, {v, w})
    BY <2>10, KeepsMore
  <2>12. Objects(q) = Objects(a)
    BY <2>7 DEF SameShape, Objects
  <2>13. ASSUME r \notin Names
         PROVE  o.var \notin Objects(q) /\ \A x : Unused(p, x) /\ x # v => o.var # x
    BY <1>5, <2>5, <2>6, <2>12, <2>13 DEF Unused
  <2> QED BY <2>11, <2>13 DEF o
<1> QED BY <1>6, <1>7

LEMMA MarkedFields ==
    ASSUME NEW p \in PoolType, NEW v \in VarIds, NEW rx0 \in Frames
    PROVE  LET q == Marked(p, v, rx0)
           IN  /\ q \in PoolType /\ q.head = p.head /\ q.tail = p.tail /\ q.live = p.live
               /\ \A u \in VarIds : u # v => q.mark[u] = p.mark[u]
               /\ q.mark[v] = IF p.mark[v] = NoProc THEN rx0 - 1 ELSE p.mark[v]
<1> DEFINE m == [p.mark EXCEPT ![v] = rx0 - 1]
           q == Marked(p, v, rx0)
<1>1. q \in PoolType
  BY MarkedQuiet DEF Quiet
<1>2. q = IF p.mark[v] = NoProc THEN [p EXCEPT !.mark = m] ELSE p
  BY DEF Marked
<1>3. m[v] = rx0 - 1 /\ \A u \in VarIds : u # v => m[u] = p.mark[u]
  BY DEF PoolType
<1> HIDE DEF m, q
<1>4. /\ q \in PoolType /\ q.head = p.head /\ q.tail = p.tail /\ q.live = p.live
      /\ q.mark = IF p.mark[v] = NoProc THEN m ELSE p.mark
  BY <1>1, <1>2 DEF PoolType
<1>5. /\ \A u \in VarIds : u # v => q.mark[u] = p.mark[u]
      /\ q.mark[v] = IF p.mark[v] = NoProc THEN rx0 - 1 ELSE p.mark[v]
  BY <1>3, <1>4
<1> QED BY <1>4, <1>5 DEF q

LEMMA MarkTailKeeps ==
    ASSUME NEW p \in PoolType, NEW v \in VarIds, v \notin Objects(p), NEW rx0 \in Frames,
           NEW pr, NEW rx, Used(pr, rx) \subseteq Frames
    PROVE  Keeps(p, Marked(p, v, rx0), pr, rx, {})
<1> DEFINE q == Marked(p, v, rx0)
<1>1. /\ q \in PoolType /\ q.head = p.head /\ q.tail = p.tail /\ q.live = p.live
      /\ \A u \in VarIds : u # v => q.mark[u] = p.mark[u]
  BY MarkedFields
<1> HIDE DEF q
<1>2. \A u \in Objects(p) : q.mark[u] = p.mark[u]
  BY <1>1, ObjectFacts
<1>3. TailsOf(q, VarIds) = TailsOf(p, VarIds)
  BY <1>1 DEF TailsOf
<1>4. Keeps(p, q, pr, rx, {})
  BY <1>1, <1>2, <1>3, StillKeeps
<1> QED BY <1>4 DEF q

LEMMA NewHeadFields ==
    ASSUME NEW p \in PoolType, NEW sc \in Frames, NEW n \in Names,
           NEW v \in VarIds, NEW val \in Text
    PROVE  LET a == SetHead(Alloc(p, v, val), sc, n, v)
           IN  /\ a.head[sc][n] = v
               /\ \A k \in Frames, m \in Names :
                     k # sc \/ m # n => a.head[k][m] = p.head[k][m]
<1> DEFINE b == Alloc(p, v, val)
           a == SetHead(b, sc, n, v)
<1>1. b \in PoolType /\ b.head = p.head /\ v \in VarRefs
  BY AllocFields DEF VarRefs
<1> HIDE DEF b
<1>2. /\ a.head[sc][n] = v
      /\ \A k \in Frames, m \in Names : k # sc \/ m # n => a.head[k][m] = b.head[k][m]
  BY <1>1, HeadSet
<1> HIDE DEF a
<1>3. \A k \in Frames, m \in Names : k # sc \/ m # n => a.head[k][m] = p.head[k][m]
  BY <1>1, <1>2
<1> QED BY <1>2, <1>3 DEF a, b

\* A compound symbol enters the routine's scope.
LEMMA EnterKeeps ==
    ASSUME NEW p \in PoolType, NEW sc \in Frames, NEW r \in Refs \ Names, NEW t \in Text,
           NEW v \in VarIds, v \notin Objects(p), NEW w, Unused(p, w), v # w,
           NEW pr, NEW rx, Used(pr, rx) \subseteq Frames
    PROVE  Keeps(p, Enter(p, sc, r, t, v, w), pr, rx, {v, w})
<1> DEFINE none == p.head[sc][r[1]] = Nil
           h == IF none THEN w ELSE p.head[sc][r[1]]
           a == SetHead(Alloc(p, w, Null), sc, r[1], w)
           q == IF none THEN a ELSE p
           s == <<t, IF t \in Split THEN "first" ELSE "hash">>
           z == [q EXCEPT !.tail[h][s] = v]
           e == Enter(p, sc, r, t, v, w)
<1>1. e = q \/ e = z
  BY DEF Enter
<1>2. r[1] \in Names /\ s \in Slots /\ w \in VarIds /\ Null \in Text
  BY ConstantTypes DEF Names, Slots, Unused
<1>3. h \in VarIds
  BY <1>2, ObjectFacts
<1>4. q \in PoolType /\ Keeps(p, q, pr, rx, {w}) /\ v \notin Objects(q)
  <2>1. CASE none
    <3>1. a \in PoolType
      BY <1>2, <2>1, NewHeadAdds DEF Adds
    <3>2. Keeps(p, a, pr, rx, {w})
      BY <1>2, <2>1, NewHeadKeeps
    <3>5. /\ a.head[sc][r[1]] = w
          /\ \A k \in Frames, m \in Names : k # sc \/ m # r[1] => a.head[k][m] = p.head[k][m]
      BY <1>2, NewHeadFields
    <3> HIDE DEF a
    <3>6. v \notin Objects(a)
      <4> SUFFICES ASSUME NEW k \in Frames, NEW m \in Names, v # Nil, a.head[k][m] = v
                   PROVE  FALSE
        BY DEF Objects
      <4>1. p.head[k][m] = v
        BY <3>5
      <4> QED BY <4>1 DEF Objects
    <3> QED BY <2>1, <3>1, <3>2, <3>6
  <2>2. CASE ~none
    BY <2>2, KeepsSelf
  <2> QED BY <2>1, <2>2
<1> HIDE DEF q, h, s, e
<1>5. CASE e = q
  <2>1. Keeps(p, e, pr, rx, {v, w})
    BY <1>4, <1>5, KeepsMore
  <2> QED BY <2>1 DEF e
<1>6. CASE e = z
  <2>1. Keeps(q, z, pr, rx, {v})
    BY <1>2, <1>3, <1>4, TailKeeps
  <2> HIDE DEF z
  <2>2. Keeps(p, z, pr, rx, {w} \cup {v})
    BY <1>4, <2>1, KeepsTrans
  <2>3. Keeps(p, e, pr, rx, {v, w})
    BY <1>6, <2>2, KeepsMore
  <2> QED BY <2>3 DEF e
<1> QED BY <1>1, <1>5, <1>6

\* The frame rx is a PROCEDURE's, old its caller's scope.
Callee(pr, rx, old) ==
    /\ rx \in Frames /\ old \in Frames /\ rx > 0 /\ rx # old
    /\ pr[rx].scope = rx /\ pr[rx - 1].scope = old

\* A caller's simple variable or stem enters the routine's scope.
LEMMA ShareKeeps ==
    ASSUME NEW p \in PoolType, NEW pr, NEW rx, Used(pr, rx) \subseteq Frames,
           NEW old, Callee(pr, rx, old), NEW r \in Names,
           p.head[old][r] # Nil, p.head[rx][r] = Nil
    PROVE  Keeps(p, SetHead(Marked(p, p.head[old][r], rx), rx, r, p.head[old][r]), pr, rx, {})
<1> DEFINE v == p.head[old][r]
           a == Marked(p, v, rx)
           q == SetHead(a, rx, r, v)
<1> SUFFICES ASSUME Owned(p, pr, rx) PROVE Keeps(p, q, pr, rx, {})
  BY DEF Keeps
<1>0. rx \in Frames /\ old \in Frames /\ rx # old /\ rx \in Int /\ rx > 0
  BY DEF Callee, Frames
<1>1. Tidy(p) /\ Accounted(p, pr, rx)
  BY DEF Owned
<1>2. v \in VarIds /\ v \in Objects(p) /\ v # Nil /\ v \in VarRefs
  BY <1>0, ObjectFacts DEF VarRefs
<1>3. old \in Used(pr, rx) /\ rx \in Used(pr, rx)
  <2>1. rx \in 0..rx /\ rx - 1 \in 0..rx
    BY <1>0
  <2> QED BY <2>1 DEF Callee, Used
<1>4. Marks(p, pr, rx, old, r)
  BY <1>1, <1>3 DEF Accounted
<1>5. p.head[rx][r] = Nil /\ p.head[old][r] = v
  OBVIOUS
<1> HIDE DEF v
<1>6. /\ a \in PoolType /\ a.head = p.head /\ a.tail = p.tail /\ a.live = p.live
      /\ \A u \in VarIds : u # v => a.mark[u] = p.mark[u]
      /\ a.mark[v] = IF p.mark[v] = NoProc THEN rx - 1 ELSE p.mark[v]
  BY <1>0, <1>2, MarkedFields
<1> HIDE DEF a
<1>7. /\ q \in PoolType /\ q.tail = p.tail /\ q.live = p.live /\ q.mark = a.mark
      /\ q.head[rx][r] = v
      /\ \A s \in Frames, m \in Names : s # rx \/ m # r => q.head[s][m] = p.head[s][m]
  BY <1>0, <1>2, <1>6, HeadFields
<1> HIDE DEF q
<1>8. /\ \A u \in VarIds : u # v => q.mark[u] = p.mark[u]
      /\ q.mark[v] = IF p.mark[v] = NoProc THEN rx - 1 ELSE p.mark[v]
  BY <1>6, <1>7
<1>9. \A s \in Frames, m \in Names :
         q.head[s][m] = p.head[s][m] \/ (s = rx /\ m = r /\ q.head[s][m] = v)
  BY <1>7
<1>10. Objects(q) \subseteq Objects(p)
  BY <1>2, <1>9 DEF Objects
<1>11. TailsOf(q, VarIds) = TailsOf(p, VarIds)
  BY <1>7 DEF TailsOf
<1>12. Tidy(q)
  <2>1. Objects(q) \subseteq q.live /\ Objects(q) \cap TailsOf(q, VarIds) = {}
    BY <1>1, <1>7, <1>10, <1>11 DEF Tidy
  <2>2. \A s \in Frames, m \in Names : q.head[s][m] # Nil =>
           \E k \in Frames : p.head[k][m] = q.head[s][m]
    BY <1>0, <1>5, <1>9
  <2>3. ASSUME NEW s \in Frames, NEW k \in Frames, NEW i \in Names, NEW j \in Names,
               q.head[s][i] # Nil, q.head[k][j] = q.head[s][i]
        PROVE  j = i
    <3>1. PICK x \in Frames : p.head[x][i] = q.head[s][i]
      BY <2>2, <2>3
    <3>2. PICK y \in Frames : p.head[y][j] = q.head[k][j]
      BY <2>2, <2>3
    <3> QED BY <1>1, <2>3, <3>1, <3>2 DEF Tidy
  <2> QED BY <1>7, <2>1, <2>3 DEF Tidy
<1>13. Accounted(q, pr, rx)
  <2> SUFFICES ASSUME NEW s \in Used(pr, rx), NEW n \in Names, q.head[s][n] # Nil
               PROVE  Marks(q, pr, rx, s, n)
    BY DEF Accounted
  <2> DEFINE u == q.head[s][n]
  <2>0. s \in Frames
    OBVIOUS
  <2>1. CASE u = v
    <3>1. n = r
      BY <1>0, <1>5, <1>9, <1>12, <2>0, <2>1, <1>7 DEF Tidy
    <3>2. Sharers(q, pr, rx, n, u) = Sharers(p, pr, rx, r, v) \cup {rx}
      BY <1>3, <1>7, <2>1, <3>1 DEF Sharers
    <3>3. pr[rx].scope = rx /\ pr[rx - 1].scope = old
      BY DEF Callee
    <3>4. CASE p.mark[v] = NoProc
      <4>1. Sharers(p, pr, rx, r, v) = {old}
        BY <1>4, <1>5, <3>4 DEF Marks
      <4> DEFINE m == rx - 1
      <4>2. q.mark[u] = m
        BY <1>8, <2>1, <3>4
      <4>3. m # NoProc /\ m + 1 = rx /\ rx > m /\ m + 1 \in 0..rx
        BY <1>0 DEF NoProc
      <4>4. pr[m].scope = old
        BY <3>3
      <4> HIDE DEF m
      <4>5. /\ pr[m + 1].scope = m + 1 /\ {pr[m].scope, m + 1} \subseteq {old} \cup {rx}
            /\ \A h \in {old} \cup {rx} : h = pr[m].scope \/ h > m
        BY <3>3, <4>3, <4>4
      <4> QED BY <3>2, <4>1, <4>2, <4>3, <4>5 DEF Marks
    <3>5. CASE p.mark[v] # NoProc
      <4> DEFINE m == p.mark[v]
                 H == Sharers(p, pr, rx, r, v)
      <4>1. /\ m + 1 \in 0..rx /\ pr[m + 1].scope = m + 1 /\ {pr[m].scope, m + 1} \subseteq H
            /\ \A h \in H : h = pr[m].scope \/ h > m
        BY <1>4, <1>5, <3>5 DEF Marks
      <4>2. q.mark[u] = m
        BY <1>8, <2>1, <3>5
      <4>3. m \in Int
        BY <1>2 DEF PoolType
      <4> HIDE DEF m, H
      <4>4. rx > m
        BY <1>0, <4>1, <4>3
      <4>5. Sharers(q, pr, rx, n, u) = H \cup {rx}
        BY <3>2 DEF H
      <4>6. m # NoProc
        BY <3>5 DEF m
      <4> HIDE DEF u
      <4>7. /\ {pr[m].scope, m + 1} \subseteq H \cup {rx}
            /\ \A h \in H \cup {rx} : h = pr[m].scope \/ h > m
        BY <4>1, <4>4
      <4> QED BY <4>1, <4>2, <4>5, <4>6, <4>7 DEF Marks, u
    <3> QED BY <3>4, <3>5
  <2>2. CASE u # v
    <3>1. p.head[s][n] = u /\ u \in VarIds
      BY <1>9, <2>0, <2>2, <1>7, ObjectFacts
    <3>2. q.mark[u] = p.mark[u]
      BY <1>8, <2>2, <3>1
    <3>3. \A k \in Used(pr, rx) : q.head[k][n] = u <=> p.head[k][n] = u
      BY <1>5, <1>7, <1>9, <2>2
    <3>4. Sharers(q, pr, rx, n, u) = Sharers(p, pr, rx, n, u)
      BY <3>3 DEF Sharers
    <3>5. Marks(p, pr, rx, s, n)
      BY <1>1, <3>1 DEF Accounted
    <3> QED BY <3>1, <3>2, <3>4, <3>5 DEF Marks
  <2> QED BY <2>1, <2>2
<1>14. \A x : Unused(p, x) => Unused(q, x)
  BY <1>10, <1>11 DEF Unused
<1> QED BY <1>12, <1>13, <1>14 DEF Keeps, Owned
\* Three objects nobody has (MALLOC).
Fresh3(p, new) ==
    /\ new \in VarIds \X VarIds \X VarIds
    /\ Unused(p, new[1]) /\ Unused(p, new[2]) /\ Unused(p, new[3])
    /\ new[1] # new[2] /\ new[1] # new[3] /\ new[2] # new[3]

\* RxVarExpose.
LEMMA ExposeKeeps ==
    ASSUME NEW p \in PoolType, NEW id \in IdRange, NEW old, NEW r \in Refs,
           NEW new, Fresh3(p, new),
           NEW pr, NEW rx, Used(pr, rx) \subseteq Frames, Callee(pr, rx, old)
    PROVE  Keeps(p, Expose(p, id, rx, old, r, rx, new), pr, rx, {new[1], new[2], new[3]})
<1> DEFINE f == Find(p, id, rx, rx, r)
           o == OldVar(f.pool, id, old, rx, r, new[1], new[2])
           q == o.pool
           v == o.var
           a == Marked(q, v, rx)
           e == Enter(a, rx, r, o.tail, v, new[3])
           x == Expose(p, id, rx, old, r, rx, new)
           N == {new[1], new[2], new[3]}
<1> SUFFICES ASSUME Owned(p, pr, rx) PROVE Keeps(p, x, pr, rx, N)
  BY DEF Keeps
<1>0. rx \in Frames /\ old \in Frames /\ rx # old
  BY DEF Callee
<1>1. SameShape(p, f.pool)
  BY <1>0, FindShape
<1>2. r \in Names => f.var = p.head[rx][r]
  BY DEF Find
<1>3. x = f.pool \/ (x = e /\ f.var = Nil)
  BY DEF Expose
<1> HIDE DEF f
<1>4. Keeps(p, f.pool, pr, rx, {}) /\ f.pool \in PoolType /\ f.pool.head = p.head
  BY <1>1, ShapeKeeps DEF SameShape
<1>5. Owned(f.pool, pr, rx) /\ Tidy(f.pool)
  BY <1>4 DEF Keeps, Owned
<1>6. new \in VarIds \X VarIds \X VarIds
      /\ new[1] \in VarIds /\ new[2] \in VarIds /\ new[3] \in VarIds
      /\ new[1] # new[2] /\ new[1] # new[3] /\ new[2] # new[3]
  BY DEF Fresh3
<1>7. Unused(f.pool, new[1]) /\ Unused(f.pool, new[2]) /\ Unused(f.pool, new[3])
  BY <1>1, UnusedHead DEF Fresh3, SameShape
<1>8. CASE x = f.pool
  <2> HIDE DEF x
  <2>1. Keeps(p, x, pr, rx, N)
    BY <1>4, <1>8, KeepsMore
  <2> QED BY <2>1 DEF x
<1>9. CASE x = e /\ f.var = Nil
  <2>1. /\ Keeps(f.pool, q, pr, rx, {new[1], new[2]})
        /\ r \notin Names =>
              /\ v \notin Objects(q)
              /\ \A y : Unused(f.pool, y) /\ y # new[1] => v # y
    <3> DEFINE g == f.pool
               c == new[1]
               d == new[2]
               z == OldVar(g, id, old, rx, r, c, d)
    <3>1. g \in PoolType /\ Tidy(g) /\ Unused(g, c) /\ Unused(g, d) /\ c # d
      BY <1>4, <1>5, <1>6, <1>7
    <3> HIDE DEF g, c, d
    <3>2. /\ Keeps(g, z.pool, pr, rx, {c, d})
          /\ r \notin Names /\ Tidy(g) =>
                /\ z.var \notin Objects(z.pool)
                /\ \A y : Unused(g, y) /\ y # c => z.var # y
      BY <1>0, <3>1, OldVarKeeps
    <3> QED BY <3>1, <3>2 DEF g, c, d
  <2>2. q \in PoolType /\ Grows(f.pool, q, {old}) /\ v \in VarIds /\ o.tail \in Text
    BY <1>0, <1>4, <1>6, OldVarFacts
  <2>3. ASSUME r \in Names PROVE q.head[old][r] = v
    BY <1>0, <1>4, <1>6, <2>3, OldVarHead
  <2> HIDE DEF o, x
  <2>4. Unused(q, new[3])
    BY <1>5, <1>6, <1>7, <2>1 DEF Keeps
  <2>5. CASE r \in Names
    <3>1. q.head[rx][r] = Nil
      BY <1>0, <1>2, <1>4, <1>9, <2>2, <2>5 DEF Grows
    <3>2. v # Nil /\ q.head[old][r] = v
      BY <2>2, <2>3, <2>5, PoolConstants
    <3>3. e = SetHead(Marked(q, v, rx), rx, r, v)
      BY <2>5 DEF Enter
    <3> HIDE DEF q, v, e
    <3>4. Keeps(q, e, pr, rx, {})
      BY <2>2, <2>5, <3>1, <3>2, <3>3, ShareKeeps
    <3>5. Keeps(p, q, pr, rx, {} \cup {new[1], new[2]})
      BY <1>4, <2>1, KeepsTrans
    <3>6. Keeps(p, e, pr, rx, ({} \cup {new[1], new[2]}) \cup {})
      BY <3>4, <3>5, KeepsTrans
    <3>7. Keeps(p, x, pr, rx, N)
      BY <1>9, <3>6, KeepsMore
    <3> QED BY <3>7 DEF x
  <2>6. CASE r \notin Names
    <3>1. v \notin Objects(q) /\ v # new[3]
      BY <1>6, <1>7, <2>1, <2>6
    <3> HIDE DEF q, v
    <3>2. a \in PoolType /\ a.head = q.head /\ a.tail = q.tail
      BY <1>0, <2>2, MarkedFields
    <3>3. Keeps(q, a, pr, rx, {})
      BY <1>0, <2>2, <3>1, MarkTailKeeps
    <3> HIDE DEF a
    <3>4. Unused(a, new[3]) /\ v \notin Objects(a)
      BY <2>4, <3>1, <3>2, UnusedHead DEF Objects
    <3>5. Keeps(a, e, pr, rx, {v, new[3]})
      BY <1>0, <2>2, <2>6, <3>1, <3>2, <3>4, EnterKeeps
    <3> HIDE DEF e
    <3>6. Keeps(p, q, pr, rx, {} \cup {new[1], new[2]})
      BY <1>4, <2>1, KeepsTrans
    <3>7. Keeps(p, a, pr, rx, ({} \cup {new[1], new[2]}) \cup {})
      BY <3>3, <3>6, KeepsTrans
    <3>8. Keeps(p, e, pr, rx, (({} \cup {new[1], new[2]}) \cup {}) \cup {v, new[3]})
      BY <3>5, <3>7, KeepsTrans
    <3>9. \A y : Unused(p, y) /\ y \notin N => y # v
      <4> SUFFICES ASSUME NEW y, Unused(p, y), y \notin N PROVE y # v
        OBVIOUS
      <4>1. Unused(f.pool, y)
        BY <1>1, UnusedHead DEF SameShape
      <4> QED BY <2>1, <2>6, <4>1
    <3>10. Keeps(p, x, pr, rx, N)
      BY <1>9, <3>8, <3>9 DEF Keeps
    <3> QED BY <3>10 DEF x
  <2> QED BY <2>5, <2>6
<1> QED BY <1>3, <1>8, <1>9
-----------------------------------------------------------------------------
(* Frames that come and go.                                                *)

\* A call, an INTERPRET or a return that frees no scope; a new scope is empty.
LEMMA FramesOwned ==
    ASSUME NEW p, NEW pr, NEW rx, NEW cnt, Framed(pr, rx, cnt), Owned(p, pr, rx),
           NEW pr2, NEW rx2, NEW cnt2, Framed(pr2, rx2, cnt2),
           \A g \in 0..rx : g \in 0..rx2 => pr2[g] = pr[g],
           Used(pr, rx) \subseteq Used(pr2, rx2),
           \A s \in Used(pr2, rx2) : s \notin Used(pr, rx) => p.head[s] = NoHeads
    PROVE  Owned(p, pr2, rx2)
<1> SUFFICES ASSUME NEW s \in Used(pr2, rx2), NEW n \in Names, p.head[s][n] # Nil
             PROVE  Marks(p, pr2, rx2, s, n)
  BY DEF Owned, Accounted
<1> DEFINE v == p.head[s][n]
           m == p.mark[v]
           H == Sharers(p, pr, rx, n, v)
<1>1. \A k \in Used(pr2, rx2) : p.head[k][n] # Nil => k \in Used(pr, rx)
  BY DEF NoHeads
<1>2. s \in Used(pr, rx) /\ Sharers(p, pr2, rx2, n, v) = H
  BY <1>1 DEF Sharers
<1>3. Marks(p, pr, rx, s, n)
  BY <1>2 DEF Owned, Accounted
<1>4. CASE m = NoProc
  BY <1>2, <1>3, <1>4 DEF Marks
<1>5. CASE m # NoProc
  <2>1. /\ m + 1 \in 0..rx /\ pr[m + 1].scope = m + 1 /\ {pr[m].scope, m + 1} \subseteq H
        /\ \A h \in H : h = pr[m].scope \/ h > m
    BY <1>3, <1>5 DEF Marks
  <2>2. m \in Int /\ m >= -1
    <3>1. v \in VarIds /\ p.mark \in [VarIds -> -1..MaxProc]
      <4>1. s \in Frames /\ p \in PoolType
        BY <1>2, FramedFacts DEF Used, Owned, Tidy
      <4> QED BY <4>1, ObjectFacts DEF PoolType
    <3> QED BY <3>1, PoolConstants
  <2>3. \E g \in 0..rx2 : pr2[g].scope = m + 1
    <3>1. m + 1 \in Used(pr2, rx2)
      BY <2>1 DEF Sharers
    <3> QED BY <3>1 DEF Used
  <2>4. PICK g \in 0..rx2 : pr2[g].scope = m + 1
    BY <2>3
  <2>5. rx2 \in Int /\ g \in Int /\ m + 1 <= g /\ g <= rx2 /\ rx \in Int
    BY <2>4, FramedFacts
  <2> HIDE DEF m, H
  <2>6. m \in 0..rx /\ m \in 0..rx2 /\ m + 1 \in 0..rx2
    BY <1>5, <2>1, <2>2, <2>5 DEF NoProc
  <2>7. pr2[m] = pr[m] /\ pr2[m + 1] = pr[m + 1]
    BY <2>1, <2>6
  <2> QED BY <1>2, <1>5, <2>1, <2>6, <2>7 DEF Marks, m
<1> QED BY <1>4, <1>5

\* RxScopeFree: f is a routine with a scope of its own, and nothing but
\* INTERPRETs run above it.
LEMMA FreeOwned ==
    ASSUME NEW p \in PoolType, NEW pr, NEW rx, NEW cnt, Framed(pr, rx, cnt),
           Closed(p, pr, rx), Owned(p, pr, rx), NEW f \in 0..rx,
           \A g \in f..rx : pr[g].scope = f,
           NEW pr2, NEW k, k = f - 1, \A g \in 0..k : pr2[g] = pr[g],
           NEW q, q = ScopeFree(p, f, f)
    PROVE  Owned(q, pr2, k) /\ \A x : Unused(p, x) => Unused(q, x)
<1> DEFINE V == HeadsOf(p, f)
           a == [p EXCEPT !.head[f] = NoHeads]
<1>1. Tidy(p) /\ Accounted(p, pr, rx)
  BY DEF Owned
<1>2. /\ f \in Int /\ k \in Int /\ rx \in Int /\ 0 <= f /\ f <= rx /\ f = k + 1 /\ k < f
      /\ f \in Frames
  BY FramedFacts
<1>3. /\ \A g \in 0..k : g \in 0..rx /\ pr2[g] = pr[g] /\ pr[g].scope \in Int
                          /\ pr[g].scope <= g /\ pr[g].scope < f /\ pr[g].scope \in Frames
      /\ \A g \in 0..rx : g \in 0..k \/ pr[g].scope = f
  <2>1. ASSUME NEW g \in 0..k
        PROVE  /\ g \in 0..rx /\ pr2[g] = pr[g] /\ pr[g].scope \in Int
               /\ pr[g].scope <= g /\ pr[g].scope < f /\ pr[g].scope \in Frames
    <3>1. g \in 0..rx /\ g <= k /\ g \in Int
      BY <1>2
    <3>2. pr[g].scope \in Int /\ pr[g].scope <= g /\ pr[g].scope \in Frames
      BY <3>1, FramedFacts
    <3> QED BY <1>2, <3>1, <3>2
  <2>2. \A g \in 0..rx : g \in 0..k \/ g \in f..rx
    BY <1>2
  <2> QED BY <2>1, <2>2
<1>4. /\ Used(pr2, k) = Used(pr, k) /\ f \notin Used(pr2, k)
      /\ \A s \in Used(pr2, k) : s \in Frames /\ s \in Int /\ s < f
      /\ \A s : s \in Used(pr, rx) <=> s \in Used(pr2, k) \/ s = f
  <2>1. f \in f..rx /\ f \in 0..rx
    BY <1>2
  <2> QED BY <1>2, <1>3, <2>1 DEF Used
<1>5. q \in PoolType /\ q.head[f] = NoHeads /\ \A s \in Frames \ {f} : q.head[s] = p.head[s]
  BY <1>2, ScopeFreeFacts
<1>6. /\ TailsOf(q, VarIds) \subseteq TailsOf(p, VarIds)
      /\ \A v \in VarIds : v \notin V /\ v \notin TailsOf(p, VarIds) =>
            q.mark[v] = p.mark[v] /\ (v \in p.live => v \in q.live)
      /\ \A v \in V : p.mark[v] # NoProc /\ v \notin TailsOf(p, VarIds) =>
            /\ v \in p.live => v \in q.live
            /\ q.mark[v] = IF p.mark[v] = k THEN NoProc ELSE p.mark[v]
  <2>1. a \in PoolType /\ a.tail = p.tail /\ a.mark = p.mark /\ a.live = p.live
    <3> DEFINE h == [p.head EXCEPT ![f] = NoHeads]
    <3>1. h \in [Frames -> [Names -> VarRefs]]
      BY ConstantTypes DEF PoolType, VarRefs
    <3>2. a = [p EXCEPT !.head = h]
      OBVIOUS
    <3> HIDE DEF h
    <3> QED BY <3>1, <3>2 DEF PoolType, VarRefs
  <2>2. V \in SUBSET VarIds
    BY <1>2, ObjectFacts DEF HeadsOf
  <2>3. q = Release(a, V, f)
    BY DEF ScopeFree
  <2> HIDE DEF a, V
  <2>4. TailsOf(a, VarIds) = TailsOf(p, VarIds)
    BY <2>1 DEF TailsOf
  <2> DEFINE z == Release(a, V, f)
  <2>5. /\ TailsOf(z, VarIds) \subseteq TailsOf(a, VarIds)
        /\ \A v \in VarIds : v \notin V /\ v \notin TailsOf(a, VarIds) =>
              z.mark[v] = a.mark[v] /\ (v \in a.live => v \in z.live)
        /\ \A v \in V : a.mark[v] # NoProc /\ v \notin TailsOf(a, VarIds) =>
              /\ v \in a.live => v \in z.live
              /\ z.mark[v] = IF a.mark[v] = f - 1 THEN NoProc ELSE a.mark[v]
    BY <2>1, <2>2, ReleaseFields
  <2>6. q = z
    BY <2>3
  <2> HIDE DEF z
  <2> QED BY <2>1, <2>4, <2>5, <2>6
<1>7. \A s \in Frames, n \in Names : q.head[s][n] # Nil =>
         /\ s \in Used(pr2, k) /\ s # f /\ q.head[s][n] = p.head[s][n]
  BY <1>4, <1>5 DEF NoHeads, Closed
<1>8. ASSUME NEW s \in Used(pr2, k), NEW n \in Names, p.head[s][n] # Nil
      PROVE  LET v == p.head[s][n]
             IN  /\ v \in VarIds /\ v \in Objects(p) /\ v \notin TailsOf(p, VarIds) /\ v \in p.live
                 /\ Marks(p, pr, rx, s, n)
                 /\ v \in V <=> p.head[f][n] = v
                 /\ v \in V => p.mark[v] # NoProc
  <2> DEFINE v == p.head[s][n]
  <2>1. s \in Frames /\ s \in Used(pr, rx) /\ s # f /\ f \in Used(pr, rx)
    BY <1>4
  <2>2. v \in VarIds /\ v \in Objects(p) /\ v # Nil
    BY <1>8, <2>1, ObjectFacts
  <2>3. v \notin TailsOf(p, VarIds) /\ v \in p.live
    BY <1>1, <2>2 DEF Tidy
  <2>4. Marks(p, pr, rx, s, n)
    BY <1>1, <1>8, <2>1 DEF Accounted
  <2>5. v \in V <=> p.head[f][n] = v
    BY <1>1, <1>2, <2>1, <2>2 DEF HeadsOf, Tidy
  <2>6. p.mark[v] = NoProc => p.head[f][n] # v
    BY <2>1, <2>4 DEF Marks, Sharers
  <2> QED BY <2>2, <2>3, <2>4, <2>5, <2>6
<1> HIDE DEF V, a
<1>9. Objects(q) \subseteq Objects(p)
  BY <1>7 DEF Objects
<1>10. Tidy(q)
  <2>1. Objects(q) \subseteq q.live
    <3> SUFFICES ASSUME NEW s \in Frames, NEW n \in Names, q.head[s][n] # Nil
                 PROVE  q.head[s][n] \in q.live
      BY DEF Objects
    <3> QED BY <1>6, <1>7, <1>8
  <2>2. Objects(q) \cap TailsOf(q, VarIds) = {}
    BY <1>1, <1>6, <1>9 DEF Tidy
  <2>3. ASSUME NEW s \in Frames, NEW l \in Frames, NEW i \in Names, NEW j \in Names,
               q.head[s][i] # Nil, q.head[l][j] = q.head[s][i]
        PROVE  j = i
    BY <1>1, <1>7, <2>3 DEF Tidy
  <2> QED BY <1>5, <2>1, <2>2, <2>3 DEF Tidy
<1>11. Accounted(q, pr2, k)
  <2> SUFFICES ASSUME NEW s \in Used(pr2, k), NEW n \in Names, q.head[s][n] # Nil
               PROVE  Marks(q, pr2, k, s, n)
    BY DEF Accounted
  <2> DEFINE v == q.head[s][n]
             m == p.mark[v]
             H == Sharers(p, pr, rx, n, v)
  <2>1. s \in Frames /\ v = p.head[s][n] /\ v # Nil
    BY <1>4, <1>7
  <2>2. /\ v \in VarIds /\ v \notin TailsOf(p, VarIds)
        /\ Marks(p, pr, rx, s, n)
        /\ v \in V <=> p.head[f][n] = v
        /\ v \in V => m # NoProc
    BY <1>8, <2>1
  <2>3. Sharers(q, pr2, k, n, v) = H \ {f}
    BY <1>4, <1>5, <2>1 DEF Sharers
  <2>4. s \in H /\ s # f
    BY <1>4, <2>1 DEF Sharers
  <2>5. f \in H <=> v \in V
    BY <1>4, <2>2 DEF Sharers
  <2>6. CASE m = NoProc
    <3>1. H = {s} /\ v \notin V
      BY <2>1, <2>2, <2>6 DEF Marks
    <3>2. q.mark[v] = NoProc
      BY <1>6, <2>2, <2>6, <3>1
    <3>3. Sharers(q, pr2, k, n, v) = {s}
      BY <2>3, <2>4, <3>1
    <3> QED BY <3>2, <3>3 DEF Marks
  <2>7. CASE m # NoProc
    <3>1. /\ m + 1 \in 0..rx /\ pr[m + 1].scope = m + 1 /\ {pr[m].scope, m + 1} \subseteq H
          /\ \A h \in H : h = pr[m].scope \/ h > m
      BY <2>1, <2>2, <2>7 DEF Marks
    <3>2. m \in Int /\ m >= 0
      <4>1. m \in -1..MaxProc
        BY <2>2 DEF PoolType
      <4> QED BY <2>7, <4>1, PoolConstants DEF NoProc
    <3>3. \A h \in H : h \in Int /\ (h = f \/ (h < f /\ h \in Used(pr2, k)))
      BY <1>2, <1>4 DEF Sharers
    <3> HIDE DEF m, H, v
    <3>4. CASE m = k
      <4>1. f \in H /\ v \in V
        BY <1>2, <2>5, <3>1, <3>4
      <4>2. q.mark[v] = NoProc
        BY <1>6, <2>2, <2>7, <3>4, <4>1 DEF m
      <4>3. \A h \in H \ {f} : h = pr[m].scope
        BY <1>2, <3>1, <3>3, <3>4
      <4>4. H \ {f} = {s}
        BY <2>4, <4>3
      <4> QED BY <2>3, <4>2, <4>4 DEF Marks, v
    <3>5. CASE m # k
      <4>1. m + 1 < f
        BY <1>2, <3>1, <3>2, <3>3, <3>5
      <4>2. m \in 0..k /\ m + 1 \in 0..k
        BY <1>2, <3>2, <4>1
      <4>3. pr2[m] = pr[m] /\ pr2[m + 1] = pr[m + 1] /\ pr[m].scope # f /\ m + 1 # f
        BY <1>2, <1>3, <4>1, <4>2
      <4>4. q.mark[v] = m
        BY <1>6, <2>2, <2>7, <3>5 DEF m
      <4> QED BY <2>3, <2>7, <3>1, <4>2, <4>3, <4>4 DEF Marks, v
    <3> QED BY <3>4, <3>5
  <2> QED BY <2>6, <2>7
<1>12. \A x : Unused(p, x) => Unused(q, x)
  BY <1>6, <1>9 DEF Unused
<1> QED BY <1>10, <1>11, <1>12 DEF Owned

LEMMA CutOwned ==
    ASSUME NEW p \in PoolType, NEW pr, NEW rx, NEW cnt, Framed(pr, rx, cnt),
           Closed(p, pr, rx), Owned(p, pr, rx), NEW f \in 0..rx,
           \A h \in (f + 1)..rx : pr[h].calltype = "INTERPRET",
           NEW pr2, NEW k, k = f - 1, NEW cnt2, Framed(pr2, k, cnt2),
           \A g \in 0..k : pr2[g] = pr[g],
           NEW q, q = IF f = 0 \/ pr[f].scope # pr[k].scope
                      THEN ScopeFree(p, pr[f].scope, f) ELSE p
    PROVE  Owned(q, pr2, k) /\ \A x : Unused(p, x) => Unused(q, x)
<1>1. f \in Int /\ 0 <= f /\ f <= rx /\ rx \in Int /\ k \in Int /\ k < f
  BY FramedFacts
<1>2. \A g \in f..rx : g \in 0..rx /\ pr[g].scope = pr[f].scope
  <2> SUFFICES ASSUME NEW g \in f..rx PROVE g \in 0..rx /\ pr[g].scope = pr[f].scope
    OBVIOUS
  <2>1. g \in 0..rx /\ f <= g
    BY <1>1
  <2>2. \A h \in (f + 1)..g : pr[h].calltype = "INTERPRET"
    BY <1>1, <2>1
  <2> QED BY <2>1, <2>2 DEF Framed
<1>3. CASE f = 0 \/ pr[f].scope # pr[k].scope
  <2>1. pr[f].scope = f
    <3>1. CASE f = 0
      <4>1. pr[f].scope \in Frames /\ pr[f].scope <= f
        BY FramedFacts
      <4> QED BY <3>1, <4>1, PoolConstants DEF Frames
    <3>2. CASE f # 0
      BY <1>1, <1>3, <3>2 DEF Framed
    <3> QED BY <3>1, <3>2
  <2>2. q = ScopeFree(p, f, f) /\ \A g \in f..rx : pr[g].scope = f
    BY <1>2, <1>3, <2>1
  <2> QED BY <2>2, FreeOwned
<1>4. CASE f # 0 /\ pr[f].scope = pr[k].scope
  <2>1. q = p
    BY <1>4
  <2>2. k \in 0..k /\ pr2[k].scope = pr[f].scope
    BY <1>1, <1>4
  <2>3. \A g \in 0..rx : g \in 0..k \/ g \in f..rx
    BY <1>1
  <2>4. \A g \in 0..rx : \E h \in 0..k : pr2[h].scope = pr[g].scope
    BY <1>2, <2>2, <2>3
  <2>5. \A h \in 0..k : h \in 0..rx
    BY <1>1
  <2>6. Used(pr, rx) \subseteq Used(pr2, k) /\ Used(pr2, k) \subseteq Used(pr, rx)
    BY <2>4, <2>5 DEF Used
  <2>7. Owned(p, pr2, k)
    BY <2>6, FramesOwned
  <2> QED BY <2>1, <2>7
<1> QED BY <1>3, <1>4

LEMMA UsedFrames ==
    ASSUME NEW pr, NEW rx, NEW cnt, Framed(pr, rx, cnt)
    PROVE  Used(pr, rx) \subseteq Frames
BY FramedFacts DEF Used

LEMMA SoundClosed ==
    ASSUME NEW p, NEW pr, NEW rx, NEW cnt, Sound(p, pr, rx, cnt)
    PROVE  Closed(p, pr, rx)
BY DEF Sound, Closed, Used

LEMMA FreshUnused ==
    ASSUME Room, pool \in PoolType
    PROVE  Fresh3(pool, Fresh)
<1> DEFINE P(u) == u[1] # u[2] /\ u[1] # u[3] /\ u[2] # u[3]
<1>1. PICK u \in Free, v \in Free, w \in Free : u # v /\ u # w /\ v # w
  BY DEF Room
<1>2. <<u, v, w>> \in Free \X Free \X Free /\ P(<<u, v, w>>)
  BY <1>1
<1>3. Fresh = CHOOSE y \in Free \X Free \X Free : P(y)
  BY DEF Fresh
<1> HIDE DEF P
<1>4. Fresh \in Free \X Free \X Free /\ P(Fresh)
  BY <1>2, <1>3
<1>5. \A x \in Free : Unused(pool, x)
  <2> SUFFICES ASSUME NEW x \in Free PROVE Unused(pool, x)
    OBVIOUS
  <2>1. x \in VarIds /\ x \notin InUse(pool)
    BY DEF Free
  <2> DEFINE A == UNION {HeadsOf(pool, sc) : sc \in Frames}
             B == TailsOf(pool, VarIds)
             C == {proc[f].r : f \in Frames}
  <2>a. Objects(pool) \subseteq A
    <3> SUFFICES ASSUME NEW s \in Frames, NEW n \in Names, pool.head[s][n] # Nil
                 PROVE  \E sc \in Frames : pool.head[s][n] \in HeadsOf(pool, sc)
      BY DEF Objects
    <3>1. pool.head[s][n] \in HeadsOf(pool, s)
      BY DEF HeadsOf
    <3> QED BY <3>1
  <2>b. InUse(pool) = pool.live \cup A \cup B \cup C
    BY DEF InUse
  <2> HIDE DEF A, B, C
  <2>2. Objects(pool) \subseteq InUse(pool) /\ B \subseteq InUse(pool)
    BY <2>a, <2>b
  <2>3. TailsOf(pool, VarIds) \subseteq InUse(pool)
    BY <2>2 DEF B
  <2> QED BY <2>1, <2>2, <2>3 DEF Unused
<1>6. Fresh \in VarIds \X VarIds \X VarIds
  BY FreshTypes
<1>7. Fresh[1] \in Free /\ Fresh[2] \in Free /\ Fresh[3] \in Free
  BY <1>4
<1>8. Fresh[1] # Fresh[2] /\ Fresh[1] # Fresh[3] /\ Fresh[2] # Fresh[3]
  BY <1>4 DEF P
<1> QED BY <1>5, <1>6, <1>7, <1>8 DEF Fresh3
-----------------------------------------------------------------------------
(* The actions.                                                            *)

MarksInv == IInv /\ Owned(pool, proc, rx_proc)

LEMMA MarksFacts ==
    ASSUME MarksInv
    PROVE  /\ IInv /\ Owned(pool, proc, rx_proc) /\ pool \in PoolType
           /\ Framed(proc, rx_proc, procidcnt) /\ Sound(pool, proc, rx_proc, procidcnt)
           /\ Used(proc, rx_proc) \subseteq Frames /\ Closed(pool, proc, rx_proc)
           /\ rx_proc >= 0 => Scope \in Used(proc, rx_proc)
<1>1. /\ IInv /\ Owned(pool, proc, rx_proc) /\ pool \in PoolType
      /\ Framed(proc, rx_proc, procidcnt) /\ Sound(pool, proc, rx_proc, procidcnt)
  BY DEF MarksInv, IInv, Sound
<1>2. Used(proc, rx_proc) \subseteq Frames /\ Closed(pool, proc, rx_proc)
  BY <1>1, UsedFrames, SoundClosed
<1>3. rx_proc >= 0 => Scope \in Used(proc, rx_proc)
  BY <1>1, RunningFacts DEF Scope, Used
<1> QED BY <1>1, <1>2, <1>3

LEMMA KeptOwned ==
    ASSUME MarksInv, UNCHANGED <<proc, rx_proc>>, NEW N,
           Keeps(pool, pool', proc, rx_proc, N)
    PROVE  Owned(pool', proc', rx_proc')
BY MarksFacts DEF Keeps

LEMMA LoadMarks ==
    ASSUME MarksInv, NEW r \in Lits, Load(r)
    PROVE  Owned(pool', proc', rx_proc')
<1>1. Running /\ UNCHANGED <<proc, rx_proc>> /\ pool' = Find(pool, Id, Scope, Scope, r).pool
      /\ r \in Refs
  BY PoolConstants DEF Load
<1>2. SameShape(pool, pool')
  BY <1>1, MarksFacts, RunningFacts, FindShape DEF Running
<1>3. Keeps(pool, pool', proc, rx_proc, {})
  BY <1>2, MarksFacts, ShapeKeeps
<1> QED BY <1>1, <1>3, KeptOwned

LEMMA AssignMarks ==
    ASSUME MarksInv, NEW r \in Lits, NEW val \in Data, Assign(r, val)
    PROVE  Owned(pool', proc', rx_proc')
<1> DEFINE c == Create(pool, Id, Scope, r, Fresh[1], Fresh[2])
           q == Store(c.pool, c.var, val)
           z == IF r \in Stems THEN ScopeAssign(q, c.var) ELSE q
           N == {Fresh[1], Fresh[2]}
<1>1. Running /\ UNCHANGED <<proc, rx_proc>> /\ Room /\ pool' = z
  BY DEF Assign
<1>2. /\ pool \in PoolType /\ Id \in IdRange /\ Id # NoCache /\ Scope \in Frames
      /\ CoherentIn(pool, Id, Scope) /\ Used(proc, rx_proc) \subseteq Frames
  BY <1>1, MarksFacts, RunningFacts DEF Running
<1>3. r \in Refs /\ val \in Text
  BY PoolConstants
<1>4. Unused(pool, Fresh[1]) /\ Unused(pool, Fresh[2]) /\ Fresh[1] # Fresh[2]
      /\ Fresh[1] \in VarIds /\ Fresh[2] \in VarIds
  BY <1>1, <1>2, FreshUnused DEF Fresh3, Unused
<1>5. Keeps(pool, c.pool, proc, rx_proc, N)
  BY <1>2, <1>3, <1>4, CreateKeeps
<1>6. c.pool \in PoolType /\ c.var \in VarIds
  BY <1>2, <1>3, <1>4, CreateGood DEF Good
<1> HIDE DEF c, N
<1>7. SameShape(c.pool, q)
  BY <1>3, <1>6, StoreShape
<1> HIDE DEF q
<1>8. SameShape(q, z)
  BY <1>6, <1>7, AssignShape DEF SameShape
<1> HIDE DEF z
<1>9. SameShape(c.pool, z)
  BY <1>7, <1>8, ShapeTrans
<1>10. Keeps(c.pool, z, proc, rx_proc, {})
  BY <1>2, <1>9, ShapeKeeps
<1>11. Keeps(pool, z, proc, rx_proc, N \cup {})
  BY <1>5, <1>10, KeepsTrans
<1> QED BY <1>1, <1>11, KeptOwned

LEMMA DropVarMarks ==
    ASSUME MarksInv, NEW r \in Lits, DropVar(r)
    PROVE  Owned(pool', proc', rx_proc')
<1>1. Running /\ UNCHANGED <<proc, rx_proc>> /\ pool' = Drop(pool, Id, Scope, r, rx_proc)
      /\ r \in Refs /\ rx_proc >= 0
  BY PoolConstants DEF DropVar, Running
<1>2. /\ pool \in PoolType /\ Id \in IdRange /\ Scope \in Frames
      /\ CoherentIn(pool, Id, Scope)
  BY <1>1, MarksFacts, RunningFacts
<1>3. /\ Used(proc, rx_proc) \subseteq Frames /\ Scope \in Used(proc, rx_proc)
      /\ Closed(pool, proc, rx_proc)
  BY <1>1, MarksFacts
<1>4. Keeps(pool, pool', proc, rx_proc, {})
  BY <1>1, <1>2, <1>3, DropKeeps
<1> QED BY <1>1, <1>4, KeptOwned

LEMMA DropNextMarks ==
    ASSUME MarksInv, DropNext
    PROVE  Owned(pool', proc', rx_proc')
<1> DEFINE r == Head(pending).ref
<1>1. /\ UNCHANGED <<proc, rx_proc>> /\ pending # << >>
      /\ pool' = DropName(pool, Scope, r, rx_proc)
  BY DEF DropNext
<1>2. PendingOK /\ r \in Refs /\ rx_proc >= 0
  BY <1>1, MarksFacts, TailFacts DEF IInv, PendingOK
<1>3. pool \in PoolType /\ Scope \in Frames
  BY <1>2, MarksFacts, RunningFacts
<1>4. /\ Used(proc, rx_proc) \subseteq Frames /\ Scope \in Used(proc, rx_proc)
      /\ Closed(pool, proc, rx_proc)
  BY <1>2, MarksFacts
<1> HIDE DEF r
<1>5. Keeps(pool, pool', proc, rx_proc, {})
  BY <1>1, <1>2, <1>3, <1>4, DropNameKeeps
<1> QED BY <1>1, <1>5, KeptOwned

LEMMA PoolSetMarks ==
    ASSUME MarksInv, NEW k \in 0..rx_proc, NEW r \in PoolNames, NEW val \in Data,
           PoolSet(k, r, val)
    PROVE  Owned(pool', proc', rx_proc')
<1> DEFINE sc == proc[k].scope
           f == FindName(pool, sc, r)
           v == IF f.var = Nil THEN Fresh[1] ELSE f.var
           q == IF f.var = Nil
                THEN Add(pool, sc, r, f.stem, f.tail, Fresh[1], Fresh[2])
                ELSE pool
           z == Store(q, v, val)
           N == {Fresh[1], Fresh[2]}
<1>1. UNCHANGED <<proc, rx_proc>> /\ Room /\ pool' = z
  BY DEF PoolSet
<1>2. r \in Refs /\ val \in Text
  BY PoolConstants
<1>3. pool \in PoolType /\ sc \in Frames /\ Used(proc, rx_proc) \subseteq Frames
  BY MarksFacts, FramedId
<1>4. Unused(pool, Fresh[1]) /\ Unused(pool, Fresh[2]) /\ Fresh[1] # Fresh[2]
      /\ Fresh[1] \in VarIds /\ Fresh[2] \in VarIds
  BY <1>1, <1>3, FreshUnused DEF Fresh3, Unused
<1>5. f.stem \in VarRefs /\ f.tail \in Text
  BY <1>2, <1>3, FindTypes DEF FindName
<1>6. r \in Names => f.var = pool.head[sc][r]
  BY DEF FindName, Find
<1>7. r \notin Names => f.stem = pool.head[sc][r[1]]
  BY <1>2, <1>3, FindStem DEF FindName
<1> HIDE DEF f, sc
<1>8. Keeps(pool, q, proc, rx_proc, N) /\ q \in PoolType
  <2>1. CASE f.var = Nil
    <3>1. q = Add(pool, sc, r, f.stem, f.tail, Fresh[1], Fresh[2])
      BY <2>1
    <3>2. Adds(pool, q, sc)
      BY <1>2, <1>3, <1>4, <1>5, <1>6, <1>7, <2>1, <3>1, AddAdds
    <3> HIDE DEF q
    <3>3. Keeps(pool, q, proc, rx_proc, {Fresh[1], Fresh[2]})
      BY <1>2, <1>3, <1>4, <1>5, <1>6, <1>7, <2>1, <3>1, AddKeeps
    <3> QED BY <3>2, <3>3 DEF Adds
  <2>2. CASE f.var # Nil
    <3>1. q = pool
      BY <2>2
    <3> HIDE DEF q
    <3> QED BY <1>3, <3>1, KeepsSelf
  <2> QED BY <2>1, <2>2
<1> HIDE DEF q, N, v
<1>9. SameShape(q, z)
  BY <1>2, <1>8, StoreShape
<1> HIDE DEF z
<1>10. Keeps(q, z, proc, rx_proc, {})
  BY <1>3, <1>9, ShapeKeeps
<1>11. Keeps(pool, z, proc, rx_proc, N \cup {})
  BY <1>8, <1>10, KeepsTrans
<1> QED BY <1>1, <1>11, KeptOwned

LEMMA SignalMarks ==
    ASSUME MarksInv, NEW line \in Data, Signal(line)
    PROVE  Owned(pool', proc', rx_proc')
<1>1. Running /\ UNCHANGED <<proc, rx_proc>> /\ Room
      /\ pool' = VarSet(pool, Id, Scope, Sigl, line, Fresh[1])
  BY DEF Signal
<1>2. /\ pool \in PoolType /\ Id \in IdRange /\ Id # NoCache /\ Scope \in Frames
      /\ CoherentIn(pool, Id, Scope) /\ Used(proc, rx_proc) \subseteq Frames
  BY <1>1, MarksFacts, RunningFacts DEF Running
<1>3. Sigl \in Names /\ line \in Text /\ Unused(pool, Fresh[1])
  BY <1>1, <1>2, PoolConstants, FreshUnused DEF Names, Fresh3
<1>4. Keeps(pool, pool', proc, rx_proc, {Fresh[1]})
  BY <1>1, <1>2, <1>3, VarSetKeeps
<1> QED BY <1>1, <1>4, KeptOwned

LEMMA ExposedMarks ==
    ASSUME MarksInv, pending # << >>, Head(pending).op # "drop", Room, NEW r \in Refs,
           NEW q, q = Expose(pool, Id, Scope, proc[rx_proc - 1].scope, r, rx_proc, Fresh)
    PROVE  \E N : Keeps(pool, q, proc, rx_proc, N)
<1> DEFINE old == proc[rx_proc - 1].scope
           new == Fresh
<1>1. /\ rx_proc > 0 /\ Scope = rx_proc /\ Scope # old /\ old \in Frames
  BY MarksFacts, ExposingFacts
<1>2. rx_proc >= 0
  BY <1>1, MarksFacts, FramedFacts
<1>3. pool \in PoolType /\ Id \in IdRange /\ rx_proc \in Frames
      /\ Used(proc, rx_proc) \subseteq Frames
  BY <1>2, MarksFacts, RunningFacts
<1>4. Callee(proc, rx_proc, old)
  BY <1>1, <1>3 DEF Callee, Scope
<1>5. Fresh3(pool, new)
  BY <1>3, FreshUnused
<1>6. q = Expose(pool, Id, rx_proc, old, r, rx_proc, new)
  BY <1>1
<1> HIDE DEF old, new
<1>7. Keeps(pool, q, proc, rx_proc, {new[1], new[2], new[3]})
  BY <1>3, <1>4, <1>5, <1>6, ExposeKeeps
<1> QED BY <1>7

LEMMA ExposeNextMarks ==
    ASSUME MarksInv, ExposeNext
    PROVE  Owned(pool', proc', rx_proc')
<1> DEFINE r == Head(pending).ref
           q == Expose(pool, Id, Scope, proc[rx_proc - 1].scope, r, rx_proc, Fresh)
<1>1. /\ UNCHANGED <<proc, rx_proc>> /\ pending # << >> /\ Head(pending).op # "drop" /\ Room
      /\ pool' = pool \/ pool' = q
  BY DEF ExposeNext
<1>2. r \in Refs
  BY <1>1, MarksFacts, TailFacts DEF IInv
<1>3. \E N : Keeps(pool, q, proc, rx_proc, N)
  BY <1>1, <1>2, ExposedMarks
<1> HIDE DEF q
<1>4. \E N : Keeps(pool, pool', proc, rx_proc, N)
  BY <1>1, <1>3, KeepsSelf
<1> QED BY <1>1, <1>4, KeptOwned

LEMMA ExposeIndirectMarks ==
    ASSUME MarksInv, ExposeIndirect
    PROVE  Owned(pool', proc', rx_proc')
<1> DEFINE r == Head(pending).ref
           old == proc[rx_proc - 1].scope
           q == Expose(pool, Id, Scope, proc[rx_proc - 1].scope, r, rx_proc, Fresh)
<1>1. /\ UNCHANGED <<proc, rx_proc>> /\ pending # << >> /\ Head(pending).op # "drop" /\ Room
      /\ pool' = Find(q, Id, old, Scope, r).pool
  BY DEF ExposeIndirect
<1>2. r \in Refs
  BY <1>1, MarksFacts, TailFacts DEF IInv
<1>3. PICK N : Keeps(pool, q, proc, rx_proc, N)
  BY <1>1, <1>2, ExposedMarks
<1>4. q \in PoolType
  BY <1>1, <1>2, MarksFacts, ExposedStep
<1>5. rx_proc > 0 /\ Scope = rx_proc /\ old \in Frames
  BY <1>1, MarksFacts, ExposingFacts
<1>6. rx_proc >= 0
  BY <1>5, MarksFacts, FramedFacts
<1>7. Id \in IdRange /\ Scope \in Frames /\ Used(proc, rx_proc) \subseteq Frames
  BY <1>6, MarksFacts, RunningFacts
<1> HIDE DEF q, old, r
<1>8. SameShape(q, pool')
  BY <1>1, <1>2, <1>4, <1>5, <1>7, FindShape
<1>9. Keeps(q, pool', proc, rx_proc, {})
  BY <1>7, <1>8, ShapeKeeps
<1>10. Keeps(pool, pool', proc, rx_proc, N \cup {})
  BY <1>3, <1>9, KeepsTrans
<1> QED BY <1>1, <1>10, KeptOwned

\* What the caller does before the routine starts.
LEMMA CallerMarks ==
    ASSUME MarksInv, Running, Room, NEW target \in Targets \cup {Nil},
           NEW line \in Data,
           NEW c, c = Created(target)
    PROVE  Owned(VarSet(c.pool, Id, Scope, Sigl, line, Fresh[3]), proc, rx_proc)
<1> DEFINE N == {Fresh[1], Fresh[2]}
           z == VarSet(c.pool, Id, Scope, Sigl, line, Fresh[3])
<1>1. /\ pool \in PoolType /\ Id \in IdRange /\ Id # NoCache /\ Scope \in Frames
      /\ CoherentIn(pool, Id, Scope) /\ Used(proc, rx_proc) \subseteq Frames
      /\ Owned(pool, proc, rx_proc)
  BY MarksFacts, RunningFacts DEF Running
<1>2. line \in Text /\ Sigl \in Names /\ (target # Nil => target \in Refs)
  BY PoolConstants DEF Names
<1>3. /\ Unused(pool, Fresh[1]) /\ Unused(pool, Fresh[2]) /\ Unused(pool, Fresh[3])
      /\ Fresh[1] # Fresh[2] /\ Fresh[1] # Fresh[3] /\ Fresh[2] # Fresh[3]
      /\ Fresh[1] \in VarIds /\ Fresh[2] \in VarIds
  BY <1>1, FreshUnused DEF Fresh3, Unused
<1>4. Good(pool, c.pool, Id, Scope, {Scope}) /\ Keeps(pool, c.pool, proc, rx_proc, N)
  <2>1. CASE target # Nil
    <3>1. c = Create(pool, Id, Scope, target, Fresh[1], Fresh[2])
      BY <2>1 DEF Created
    <3>2. target \in Refs
      BY <1>2, <2>1
    <3>3. Good(pool, Create(pool, Id, Scope, target, Fresh[1], Fresh[2]).pool, Id, Scope, {Scope})
      BY <1>1, <1>3, <3>2, CreateGood
    <3>4. Keeps(pool, Create(pool, Id, Scope, target, Fresh[1], Fresh[2]).pool, proc, rx_proc, N)
      BY <1>1, <1>3, <3>2, CreateKeeps
    <3> QED BY <3>1, <3>3, <3>4
  <2>2. CASE target = Nil
    <3>1. c.pool = pool
      BY <2>2 DEF Created
    <3> QED BY <1>1, <3>1, QuietGood, KeepsSelf DEF Quiet
  <2> QED BY <2>1, <2>2
<1>5. c.pool \in PoolType
  BY <1>4 DEF Good
<1>6. CoherentIn(c.pool, Id, Scope)
  BY <1>1, <1>4, GoodCoherent
<1>7. Unused(c.pool, Fresh[3]) /\ Owned(c.pool, proc, rx_proc)
  BY <1>1, <1>3, <1>4 DEF Keeps
<1>8. Keeps(c.pool, z, proc, rx_proc, {Fresh[3]})
  BY <1>1, <1>2, <1>5, <1>6, <1>7, VarSetKeeps
<1> HIDE DEF z, N
<1>9. Owned(z, proc, rx_proc)
  BY <1>7, <1>8 DEF Keeps
<1> QED BY <1>9 DEF z

\* A frame that runs in the scope of the one below it.
LEMMA PushMarks ==
    ASSUME MarksInv, IInv', rx_proc >= 0, NEW kind, NEW slot, Push(kind, slot),
           NEW q, Owned(q, proc, rx_proc)
    PROVE  Owned(q, proc', rx_proc')
<1>1. /\ rx_proc' = rx_proc + 1
      /\ proc' = [proc EXCEPT ![rx_proc + 1] =
                     [proc[rx_proc] EXCEPT !.calltype = kind, !.r = slot]]
  BY DEF Push
<1>2. Framed(proc, rx_proc, procidcnt) /\ Framed(proc', rx_proc', procidcnt')
  BY MarksFacts DEF IInv
<1>3. rx_proc \in Int /\ rx_proc \in 0..rx_proc
  BY <1>2, FramedFacts
<1>4. 0..rx_proc' = (0..rx_proc) \cup {rx_proc + 1} /\ 0..rx_proc' \subseteq Frames
  BY <1>1, <1>2, <1>3, FramedFacts
<1>5. /\ proc'[rx_proc + 1].scope = proc[rx_proc].scope
      /\ \A f \in 0..rx_proc : proc'[f] = proc[f]
  <2>1. rx_proc + 1 \in Frames /\ \A f \in 0..rx_proc : f # rx_proc + 1 /\ f \in Frames
    BY <1>2, <1>3, <1>4, FramedFacts
  <2>2. proc \in [Frames -> FrameType] /\ proc[rx_proc] \in FrameType
    BY <1>2, <1>3, FramedFacts DEF Framed
  <2> QED BY <1>1, <2>1, <2>2 DEF FrameType
<1>6. \A f \in 0..rx_proc' : \E g \in 0..rx_proc : proc'[f].scope = proc[g].scope
  BY <1>3, <1>4, <1>5
<1>7. Used(proc', rx_proc') \subseteq Used(proc, rx_proc)
  BY <1>6 DEF Used
<1>8. Used(proc, rx_proc) \subseteq Used(proc', rx_proc')
  BY <1>4, <1>5 DEF Used
<1> QED BY <1>2, <1>5, <1>7, <1>8, FramesOwned

LEMMA CallSharedMarks ==
    ASSUME MarksInv, IInv', NEW kind \in {"FUNCTION", "PROCEDURE"},
           NEW target \in Targets \cup {Nil}, NEW line \in Data,
           CallShared(kind, target, line)
    PROVE  Owned(pool', proc', rx_proc')
<1> DEFINE c == Created(target)
<1>1. /\ Running /\ Room /\ Push(kind, c.var) /\ rx_proc >= 0
      /\ pool' = VarSet(c.pool, Id, Scope, Sigl, line, Fresh[3])
  BY DEF CallShared, Running
<1>2. Owned(pool', proc, rx_proc)
  BY <1>1, CallerMarks
<1> HIDE DEF c
<1> QED BY <1>1, <1>2, PushMarks

LEMMA InterpretMarks ==
    ASSUME MarksInv, IInv', Interpret
    PROVE  Owned(pool', proc', rx_proc')
<1>1. rx_proc >= 0 /\ Push("INTERPRET", Nil) /\ pool' = pool
  BY DEF Interpret, Running
<1>2. Owned(pool, proc, rx_proc)
  BY MarksFacts
<1> QED BY <1>1, <1>2, PushMarks

\* The scope of a PROCEDURE starts empty.
LEMMA CallProcedureMarks ==
    ASSUME MarksInv, IInv', NEW kind \in {"FUNCTION", "PROCEDURE"},
           NEW target \in Targets \cup {Nil}, NEW line \in Data,
           NEW list \in ExposeLists, CallProcedure(kind, target, line, list)
    PROVE  Owned(pool', proc', rx_proc')
<1> DEFINE c == Created(target)
           n == rx_proc + 1
<1>1. /\ Running /\ Room /\ rx_proc >= 0
      /\ pool' = VarSet(c.pool, Id, Scope, Sigl, line, Fresh[3])
      /\ proc' = [proc EXCEPT ![rx_proc + 1] = NewFrame(kind, c.var)]
      /\ rx_proc' = rx_proc + 1
  BY DEF CallProcedure, Running
<1>2. Owned(pool', proc, rx_proc)
  BY <1>1, CallerMarks
<1>3. Good(pool, pool', Id, Scope, {Scope})
  BY <1>1, MarksFacts, CallerGood
<1> HIDE DEF c
<1>4. /\ Framed(proc, rx_proc, procidcnt) /\ Framed(proc', rx_proc', procidcnt')
      /\ Closed(pool, proc, rx_proc) /\ pool \in PoolType
  BY MarksFacts DEF IInv
<1>5. /\ rx_proc \in Int /\ n \in 0..rx_proc' /\ n \in Frames
      /\ 0..rx_proc' = (0..rx_proc) \cup {n} /\ n \notin 0..rx_proc
  <2>1. rx_proc \in Int /\ \A g \in 0..rx_proc' : g \in Frames
    BY <1>4, FramedFacts
  <2> QED BY <1>1, <2>1
<1>6. \A g \in 0..rx_proc : g \in Frames /\ g # n /\ proc[g].scope # n
  <2> SUFFICES ASSUME NEW g \in 0..rx_proc PROVE g \in Frames /\ g # n /\ proc[g].scope # n
    OBVIOUS
  <2>1. g \in Frames /\ g <= rx_proc /\ proc[g].scope \in Int /\ proc[g].scope <= g /\ g \in Int
    BY <1>4, FramedFacts
  <2> QED BY <1>5, <2>1
<1>7. proc \in [Frames -> FrameType]
  BY <1>4 DEF Framed
<1>8. \A g \in 0..rx_proc : proc'[g] = proc[g]
  BY <1>1, <1>6, <1>7
<1>9. proc'[n].scope = n
  BY <1>1, <1>5, <1>7 DEF NewFrame
<1> HIDE DEF n
<1>10. n \notin Used(proc, rx_proc) /\ n # Scope
  <2>1. rx_proc \in 0..rx_proc
    BY <1>1, <1>5
  <2> QED BY <1>6, <2>1 DEF Used, Scope
<1>11. \A s \in Used(proc', rx_proc') : s \in Used(proc, rx_proc) \/ s = n
  BY <1>5, <1>8, <1>9 DEF Used
<1>12. Used(proc, rx_proc) \subseteq Used(proc', rx_proc')
  BY <1>5, <1>8 DEF Used
<1>13. pool'.head[n] = NoHeads
  <2>1. pool.head[n] = NoHeads
    BY <1>4, <1>5, <1>10 DEF Closed
  <2>2. \A m \in Names : pool'.head[n][m] = pool.head[n][m]
    BY <1>3, <1>5, <1>10 DEF Good, Grows
  <2>3. pool'.head[n] \in [Names -> VarRefs]
    BY <1>3, <1>5 DEF Good, PoolType, VarRefs
  <2> QED BY <2>1, <2>2, <2>3 DEF NoHeads
<1> QED BY <1>2, <1>4, <1>8, <1>11, <1>12, <1>13, FramesOwned
\* Leaving INTERPRETs frees nothing.
LEMMA LeaveMarks ==
    ASSUME MarksInv, NEW f \in 0..rx_proc,
           \A g \in (f + 1)..rx_proc : proc[g].calltype = "INTERPRET",
           NEW pr2, NEW cnt2, Framed(pr2, f, cnt2), \A g \in 0..f : pr2[g] = proc[g],
           NEW q, Owned(q, proc, rx_proc)
    PROVE  Owned(q, pr2, f)
<1>1. Framed(proc, rx_proc, procidcnt) /\ rx_proc \in Int /\ f \in Int /\ f >= 0 /\ f <= rx_proc
  BY MarksFacts, FramedFacts
<1>2. \A g \in 0..f : g \in 0..rx_proc
  BY <1>1
<1>3. \A g \in 0..rx_proc : \E h \in 0..f : pr2[h].scope = proc[g].scope
  <2> SUFFICES ASSUME NEW g \in 0..rx_proc
               PROVE  \E h \in 0..f : pr2[h].scope = proc[g].scope
    OBVIOUS
  <2>1. CASE g \in 0..f
    BY <2>1
  <2>2. CASE g \notin 0..f
    <3>1. f \in 0..f /\ f <= g /\ (f + 1)..g \subseteq (f + 1)..rx_proc
      BY <1>1, <2>2
    <3>2. proc[f].scope = proc[g].scope
      BY <1>1, <3>1 DEF Framed
    <3> QED BY <3>1, <3>2
  <2> QED BY <2>1, <2>2
<1>4. Used(proc, rx_proc) \subseteq Used(pr2, f) /\ Used(pr2, f) \subseteq Used(proc, rx_proc)
  BY <1>2, <1>3 DEF Used
<1> QED BY <1>1, <1>4, FramesOwned

LEMMA InterEndMarks ==
    ASSUME MarksInv, InterEnd
    PROVE  Owned(pool', proc', rx_proc')
<1> DEFINE f == rx_proc - 1
<1>1. /\ rx_proc > 0 /\ proc[rx_proc].calltype = "INTERPRET"
      /\ rx_proc' = f /\ procidcnt' = procidcnt /\ pool' = pool
      /\ proc' = [proc EXCEPT ![rx_proc] = NoFrame]
  BY DEF InterEnd
<1>2. rx_proc \in Int /\ Framed(proc, rx_proc, procidcnt) /\ Owned(pool, proc, rx_proc)
  BY MarksFacts, FramedFacts
<1>3. /\ Framed(proc', rx_proc', procidcnt')
      /\ \A g \in 0..f : proc'[g] = proc[g]
  BY <1>1, <1>2, PopOne
<1>4. f \in 0..rx_proc /\ (f + 1)..rx_proc = {rx_proc}
  BY <1>1, <1>2
<1> HIDE DEF f
<1>5. \A g \in (f + 1)..rx_proc : proc[g].calltype = "INTERPRET"
  BY <1>1, <1>4
<1>6. Owned(pool, proc', f)
  BY <1>1, <1>2, <1>3, <1>4, <1>5, LeaveMarks
<1> QED BY <1>1, <1>6

LEMMA TrapMarks ==
    ASSUME MarksInv, NEW target \in Targets \cup {Nil}, NEW line \in Data, Trap(target, line)
    PROVE  Owned(pool', proc', rx_proc')
<1>1. /\ Running /\ Room
      /\ pool' = VarSet(Created(target).pool, Id, Scope, Sigl, line, Fresh[3])
  BY DEF Trap
<1>2. PICK f \in 0..rx_proc :
         /\ \A g \in (f + 1)..rx_proc : proc[g].calltype = "INTERPRET"
         /\ rx_proc' = f
         /\ proc' = [g \in Frames |-> IF g <= f THEN proc[g] ELSE NoFrame]
  BY DEF Trap
<1>3. Framed(proc, rx_proc, procidcnt) /\ rx_proc \in Int
  BY <1>1, MarksFacts, RunningFacts DEF Running
<1>4. PICK c : c = Created(target)
  OBVIOUS
<1>6. Owned(pool', proc, rx_proc)
  BY <1>1, <1>4, CallerMarks
<1>7. f \in -1..rx_proc
  BY <1>3
<1>8. Framed(proc', f, procidcnt) /\ \A g \in 0..f : proc'[g] = proc[g]
  BY <1>2, <1>3, <1>7, CutFramed
<1> QED BY <1>2, <1>6, <1>8, LeaveMarks

\* A return pops the routine at f; p is the pool before its scope is freed.
LEMMA PopMarks ==
    ASSUME MarksInv, NEW f \in 1..rx_proc, PopTo(f),
           NEW p, Sound(p, proc, rx_proc, procidcnt), Owned(p, proc, rx_proc),
           NEW q, q = IF proc[f].scope # proc[f - 1].scope
                      THEN ScopeFree(p, proc[f].scope, f) ELSE p
    PROVE  Owned(q, proc', f - 1) /\ \A x : Unused(p, x) => Unused(q, x)
<1> DEFINE k == f - 1
<1>1. Framed(proc, rx_proc, procidcnt) /\ rx_proc \in Int
  BY MarksFacts, FramedFacts
<1>2. f \in Int /\ f # 0 /\ f \in 0..rx_proc /\ k \in -1..rx_proc /\ k \in Int
  BY <1>1
<1>3. /\ \A h \in (f + 1)..rx_proc : proc[h].calltype = "INTERPRET"
      /\ proc' = [g \in Frames |-> IF g <= k THEN proc[g] ELSE NoFrame]
  <2>1. \A g \in Frames : g < f <=> g <= k
    BY <1>2 DEF Frames
  <2> QED BY <2>1 DEF PopTo
<1>4. q = IF f = 0 \/ proc[f].scope # proc[k].scope THEN ScopeFree(p, proc[f].scope, f) ELSE p
  BY <1>2
<1>5. k = f - 1
  OBVIOUS
<1> HIDE DEF k
<1>6. Framed(proc', k, procidcnt) /\ \A g \in 0..k : proc'[g] = proc[g]
  BY <1>1, <1>2, <1>3, CutFramed
<1>7. p \in PoolType /\ Closed(p, proc, rx_proc)
  BY SoundClosed DEF Sound
<1>8. Owned(q, proc', k) /\ \A x : Unused(p, x) => Unused(q, x)
  BY <1>1, <1>2, <1>3, <1>4, <1>5, <1>6, <1>7, CutOwned
<1> QED BY <1>8 DEF k

LEMMA ReturnMarks ==
    ASSUME MarksInv, Return
    PROVE  Owned(pool', proc', rx_proc')
<1>1. PICK f \in 1..rx_proc : PopTo(f) /\ pool' = AfterPop(f)
  BY DEF Return
<1>2. Sound(pool, proc, rx_proc, procidcnt) /\ Owned(pool, proc, rx_proc)
  BY MarksFacts
<1>3. pool' = IF proc[f].scope # proc[f - 1].scope
              THEN ScopeFree(pool, proc[f].scope, f) ELSE pool
  BY <1>1 DEF AfterPop
<1>4. Owned(pool', proc', f - 1)
  BY <1>1, <1>2, <1>3, PopMarks
<1> QED BY <1>1, <1>4 DEF PopTo

LEMMA ReturnFMarks ==
    ASSUME MarksInv, NEW val \in Data, ReturnF(val)
    PROVE  Owned(pool', proc', rx_proc')
<1> DEFINE Set(f) == VarSet(AfterPop(f), proc[f - 1].id, proc[f - 1].scope,
                            Result, val, Fresh[1])
           Put(f) == Store(pool, proc[f].r, val)
           Popped(p, f) == IF proc[f].scope # proc[f - 1].scope
                           THEN ScopeFree(p, proc[f].scope, f) ELSE p
<1>1. PICK f \in 1..rx_proc :
         /\ PopTo(f)
         /\ \/ pool' = Set(f)
            \/ pool' = Popped(Put(f), f)
            \/ pool' = Popped(pool, f)
  BY DEF ReturnF, AfterPop
<1>2. Room /\ rx_proc' = f - 1
  BY <1>1 DEF ReturnF, PopTo
<1>3. /\ Framed(proc, rx_proc, procidcnt) /\ Sound(pool, proc, rx_proc, procidcnt)
      /\ Owned(pool, proc, rx_proc) /\ pool \in PoolType
      /\ Used(proc, rx_proc) \subseteq Frames
  BY MarksFacts
<1>4. val \in Text /\ Result \in Names
  BY PoolConstants DEF Names
<1>5. ASSUME NEW p, Sound(p, proc, rx_proc, procidcnt), Owned(p, proc, rx_proc),
             NEW q, q = Popped(p, f)
      PROVE  /\ Owned(q, proc', f - 1) /\ \A x : Unused(p, x) => Unused(q, x)
             /\ f - 1 \in 0..(f - 1) /\ Framed(proc', f - 1, procidcnt)
             /\ Sound(q, proc', f - 1, procidcnt) /\ proc'[f - 1] = proc[f - 1]
  <2>1. Owned(q, proc', f - 1) /\ \A x : Unused(p, x) => Unused(q, x)
    BY <1>1, <1>5, PopMarks
  <2>2. /\ f - 1 \in 0..(f - 1) /\ Framed(proc', f - 1, procidcnt)
        /\ Sound(q, proc', f - 1, procidcnt) /\ proc'[f - 1] = proc[f - 1]
    BY <1>1, <1>3, <1>5, PopFacts
  <2> QED BY <2>1, <2>2
<1>6. CASE pool' = Popped(pool, f)
  BY <1>2, <1>3, <1>5, <1>6
<1>7. CASE pool' = Popped(Put(f), f)
  <2>1. SameShape(pool, Put(f)) /\ Quiet(pool, Put(f))
    BY <1>3, <1>4, StoreShape, StoreQuiet
  <2> HIDE DEF Put
  <2>2. Keeps(pool, Put(f), proc, rx_proc, {})
    BY <1>3, <2>1, ShapeKeeps
  <2>3. Owned(Put(f), proc, rx_proc)
    BY <1>3, <2>2 DEF Keeps
  <2>4. Sound(Put(f), proc, rx_proc, procidcnt)
    BY <1>3, <2>1, QuietSound
  <2> QED BY <1>2, <1>5, <1>7, <2>3, <2>4
<1>8. CASE pool' = Set(f)
  <2> DEFINE a == AfterPop(f)
             k == f - 1
  <2>1. a = Popped(pool, f)
    BY DEF AfterPop
  <2>2. /\ Owned(a, proc', k) /\ \A x : Unused(pool, x) => Unused(a, x)
        /\ k \in 0..k /\ Framed(proc', k, procidcnt)
        /\ Sound(a, proc', k, procidcnt) /\ proc'[k] = proc[k]
    BY <1>3, <1>5, <2>1
  <2>3. pool' = VarSet(a, proc[k].id, proc[k].scope, Result, val, Fresh[1])
    BY <1>8
  <2>4. Unused(a, Fresh[1])
    BY <1>2, <1>3, <2>2, FreshUnused DEF Fresh3
  <2>5. rx_proc' = k
    BY <1>2
  <2> HIDE DEF a, k
  <2>6. proc[k].id \in IdRange /\ proc[k].id # NoCache /\ proc[k].scope \in Frames
    BY <2>2, FramedId
  <2>7. a \in PoolType /\ CoherentIn(a, proc[k].id, proc[k].scope)
    BY <2>2 DEF Sound
  <2>8. Used(proc', k) \subseteq Frames
    BY <2>2, UsedFrames
  <2>9. Keeps(a, pool', proc', k, {Fresh[1]})
    BY <1>4, <2>3, <2>4, <2>6, <2>7, <2>8, VarSetKeeps
  <2> QED BY <2>2, <2>5, <2>9 DEF Keeps
<1> QED BY <1>1, <1>6, <1>7, <1>8

LEMMA UnwindMarks ==
    ASSUME MarksInv, Unwind
    PROVE  Owned(pool', proc', rx_proc')
<1> DEFINE k == rx_proc - 1
<1>1. /\ rx_proc >= 0 /\ rx_proc' = rx_proc - 1 /\ procidcnt' = procidcnt
      /\ proc' = [proc EXCEPT ![rx_proc] = NoFrame]
      /\ pool' = IF rx_proc = 0 \/ proc[rx_proc].scope # proc[rx_proc - 1].scope
                 THEN ScopeFree(pool, Scope, rx_proc) ELSE pool
  BY DEF Unwind
<1>2. /\ Framed(proc, rx_proc, procidcnt) /\ Owned(pool, proc, rx_proc) /\ pool \in PoolType
      /\ Closed(pool, proc, rx_proc) /\ rx_proc \in Int
  BY MarksFacts, FramedFacts
<1>3. Framed(proc', rx_proc', procidcnt') /\ \A g \in 0..(rx_proc - 1) : proc'[g] = proc[g]
  BY <1>1, <1>2, PopOne
<1>4. rx_proc \in 0..rx_proc /\ (rx_proc + 1)..rx_proc = {}
  BY <1>1, <1>2
<1>5. /\ k = rx_proc - 1 /\ rx_proc' = k /\ Framed(proc', k, procidcnt')
      /\ \A g \in 0..k : proc'[g] = proc[g]
      /\ pool' = IF rx_proc = 0 \/ proc[rx_proc].scope # proc[k].scope
                 THEN ScopeFree(pool, proc[rx_proc].scope, rx_proc) ELSE pool
  BY <1>1, <1>3 DEF Scope
<1> HIDE DEF k
<1>6. \A h \in (rx_proc + 1)..rx_proc : proc[h].calltype = "INTERPRET"
  BY <1>4
<1>7. Owned(pool', proc', k)
  BY <1>2, <1>4, <1>5, <1>6, CutOwned
<1> QED BY <1>5, <1>7
-----------------------------------------------------------------------------
(* The theorems.                                                           *)

LEMMA InitMarks == Init => MarksInv
<1> SUFFICES ASSUME Init PROVE MarksInv
  OBVIOUS
<1>1. IInv /\ pool \in PoolType
  BY InitInv DEF IInv, Sound
<1>2. \A s \in Frames : pool.head[s] = NoHeads
  BY DEF Init
<1>3. \A s \in Frames, n \in Names : pool.head[s][n] = Nil
  BY <1>2 DEF NoHeads
<1>4. Objects(pool) = {}
  BY <1>3 DEF Objects
<1>5. Tidy(pool)
  BY <1>1, <1>3, <1>4 DEF Tidy
<1>6. Used(proc, rx_proc) \subseteq Frames
  BY <1>1, UsedFrames DEF IInv
<1>7. Accounted(pool, proc, rx_proc)
  BY <1>3, <1>6 DEF Accounted
<1> QED BY <1>1, <1>5, <1>7 DEF MarksInv, Owned

LEMMA NextMarks == ListsSimple /\ MarksInv /\ [Next]_vars => MarksInv'
<1> SUFFICES ASSUME ListsSimple, MarksInv, [Next]_vars PROVE MarksInv'
  OBVIOUS
<1> DEFINE Goal == Owned(pool', proc', rx_proc')
<1>0. IInv' /\ Owned(pool, proc, rx_proc)
  BY NextInv, MarksFacts
<1>1. ASSUME NEW r \in Lits, Load(r) PROVE Goal
  BY <1>1, LoadMarks
<1>2. ASSUME NEW r \in Lits, DropVar(r) PROVE Goal
  BY <1>2, DropVarMarks
<1>3. ASSUME NEW r \in Lits, NEW val \in Data, Assign(r, val) PROVE Goal
  BY <1>3, AssignMarks
<1>4. ASSUME NEW ws \in DropLists, DropList(ws) PROVE Goal
  BY <1>0, <1>4 DEF DropList
<1>5. ASSUME DropNext PROVE Goal
  BY <1>5, DropNextMarks
<1>6. ASSUME NEW k \in 0..rx_proc, NEW r \in PoolNames, NEW val \in Data,
             PoolSet(k, r, val)
      PROVE  Goal
  BY <1>6, PoolSetMarks
<1>7. ASSUME NEW line \in Data, Signal(line) PROVE Goal
  BY <1>7, SignalMarks
<1>8. ASSUME NEW kind \in {"FUNCTION", "PROCEDURE"}, NEW target \in Targets \cup {Nil},
             NEW line \in Data, CallShared(kind, target, line)
      PROVE  Goal
  BY <1>0, <1>8, CallSharedMarks
<1>9. ASSUME NEW kind \in {"FUNCTION", "PROCEDURE"}, NEW target \in Targets \cup {Nil},
             NEW line \in Data, NEW list \in ExposeLists,
             CallProcedure(kind, target, line, list)
      PROVE  Goal
  BY <1>0, <1>9, CallProcedureMarks
<1>10. ASSUME ExposeNext \/ ExposeIndirect PROVE Goal
  BY <1>10, ExposeNextMarks, ExposeIndirectMarks
<1>11. ASSUME Interpret \/ InterEnd PROVE Goal
  BY <1>0, <1>11, InterpretMarks, InterEndMarks
<1>12. ASSUME Return PROVE Goal
  BY <1>12, ReturnMarks
<1>13. ASSUME NEW val \in Data, ReturnF(val) PROVE Goal
  BY <1>13, ReturnFMarks
<1>14. ASSUME Exit \/ Unwind PROVE Goal
  BY <1>0, <1>14, UnwindMarks DEF Exit
<1>15. ASSUME UNCHANGED vars PROVE Goal
  BY <1>0, <1>15 DEF vars
<1>16. ASSUME NEW line \in Data, NEW target \in Targets \cup {Nil},
              \/ Trap(target, line)
              \/ CallShared("FUNCTION", target, line)
              \/ \E list \in ExposeLists : CallProcedure("FUNCTION", target, line, list)
       PROVE  Goal
  BY <1>8, <1>9, <1>16, TrapMarks
<1>17. ASSUME NEW line \in Data,
              \/ CallShared("PROCEDURE", Nil, line)
              \/ \E list \in ExposeLists : CallProcedure("PROCEDURE", Nil, line, list)
       PROVE  Goal
  <2>1. Nil \in Targets \cup {Nil}
    OBVIOUS
  <2> QED BY <1>8, <1>9, <1>17, <2>1
<1> HIDE DEF Goal
<1>18. ASSUME Next PROVE Goal
  BY <1>1, <1>2, <1>3, <1>4, <1>5, <1>6, <1>7, <1>10, <1>11, <1>12, <1>13,
     <1>14, <1>16, <1>17, <1>18, Zenon DEF Next
<1>19. Goal
  BY <1>15, <1>18
<1> QED BY <1>0, <1>19 DEF MarksInv, Goal

LEMMA MarksAlways == ListsSimple => (Spec => []MarksInv)
<1> SUFFICES ASSUME ListsSimple PROVE Spec => []MarksInv
  OBVIOUS
<1>1. Init => MarksInv
  BY InitMarks
<1>2. MarksInv /\ [Next]_vars => MarksInv'
  BY NextMarks
<1> QED BY <1>1, <1>2, PTL DEF Spec

\* A simple variable or stem that no EXPOSE marked is in one scope only, and a
\* marked one came by EXPOSE from the frame its mark names: RxVarFree frees it
\* when the last scope that has it goes, not before, whatever the calls,
\* exposures, drops and traps in between.
THEOREM MarksKept == ListsSimple => (Spec => []HeadMarks)
<1> SUFFICES ASSUME ListsSimple PROVE Spec => []HeadMarks
  OBVIOUS
<1>1. Spec => []MarksInv
  BY MarksAlways
<1>2. MarksInv => HeadMarks
  <2> SUFFICES ASSUME MarksInv, NEW s \in Scopes, NEW n \in Names, pool.head[s][n] # Nil
               PROVE  LET v == pool.head[s][n]
                          m == pool.mark[v]
                      IN  IF m = NoProc THEN Holders(n, v) = {s}
                          ELSE /\ m + 1 \in Active /\ proc[m + 1].scope = m + 1
                               /\ {proc[m].scope, m + 1} \subseteq Holders(n, v)
                               /\ \A h \in Holders(n, v) : h = proc[m].scope \/ h > m
    BY DEF HeadMarks
  <2>1. Scopes = Used(proc, rx_proc) /\ Active = 0..rx_proc
    BY DEF Scopes, Used, Active
  <2>2. \A v : Holders(n, v) = Sharers(pool, proc, rx_proc, n, v)
    BY <2>1 DEF Holders, Sharers
  <2>3. Marks(pool, proc, rx_proc, s, n)
    BY <2>1, MarksFacts DEF Owned, Accounted
  <2> QED BY <2>1, <2>2, <2>3 DEF Marks
<1> QED BY <1>1, <1>2, PTL

\* No activation, however it was entered and whatever was freed before, finds
\* freed storage under a simple symbol or a stem, nor one object under two
\* names; the scopes of activations that are gone are empty (RxScopeFree,
\* RxVarExpose, I_ReturnProc).
THEOREM HeadsKept == ListsSimple => (Spec => []HeadsLive)
<1> SUFFICES ASSUME ListsSimple PROVE Spec => []HeadsLive
  OBVIOUS
<1>1. Spec => []MarksInv
  BY MarksAlways
<1>2. MarksInv => HeadsLive
  <2> SUFFICES ASSUME MarksInv, NEW s \in Frames, NEW n \in Names, pool.head[s][n] # Nil
               PROVE  /\ s \in Scopes /\ pool.head[s][n] \in pool.live
                      /\ \A k \in Scopes, m \in Names :
                            pool.head[k][m] = pool.head[s][n] => m = n
    BY DEF HeadsLive
  <2>1. Scopes = Used(proc, rx_proc) /\ Scopes \subseteq Frames
    BY MarksFacts DEF Scopes, Used, Active
  <2>2. s \in Scopes
    BY <2>1, MarksFacts DEF Closed, NoHeads
  <2>3. Tidy(pool) /\ pool.head[s][n] \in Objects(pool)
    BY MarksFacts, ObjectFacts DEF Owned
  <2> QED BY <2>1, <2>2, <2>3 DEF Tidy
<1> QED BY <1>1, <1>2, PTL
==============================================================================
