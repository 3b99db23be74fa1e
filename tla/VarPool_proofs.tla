-------------------------- MODULE VarPool_proofs ---------------------------
(* Type correctness, the frame structure and the coherence of the leaf     *)
(* caches of VarPool, for every program, name set and depth.               *)
EXTENDS VarPool, TLAPS

VarRefs == VarIds \cup {Nil}
IdRange == -1..(MaxId + 2)

-----------------------------------------------------------------------------
(* What every operation but those that free a head does to a pool: heads   *)
(* appear in the scopes of S only, and a leaf is cached for the activation *)
(* id only if its scope sc holds it.                                       *)

Grows(p, q, S) ==
    \A s \in Frames, n \in Names :
        \/ q.head[s][n] = p.head[s][n]
        \/ s \in S /\ p.head[s][n] = Nil

Caches(p, q, id, sc) ==
    \A n \in Names :
        \/ q.cache[n] = p.cache[n]
        \/ q.cache[n].id = NoCache
        \/ /\ q.cache[n].id = id
           /\ q.cache[n].var = q.head[sc][n]
           /\ q.cache[n].var # Nil

Good(p, q, id, sc, S) ==
    /\ q \in PoolType
    /\ Grows(p, q, S)
    /\ Caches(p, q, id, sc)

\* Neither heads nor caches change.
Quiet(p, q) == q \in PoolType /\ q.head = p.head /\ q.cache = p.cache

LEMMA QuietGood ==
    ASSUME NEW p \in PoolType, NEW q, Quiet(p, q),
           NEW id, NEW sc, NEW S
    PROVE  Good(p, q, id, sc, S)
BY DEF Quiet, Good, Grows, Caches, PoolType

LEMMA GoodTrans ==
    ASSUME NEW p \in PoolType, NEW q \in PoolType, NEW r \in PoolType,
           NEW id, NEW sc \in Frames, NEW S,
           Good(p, q, id, sc, S), Good(q, r, id, sc, S)
    PROVE  Good(p, r, id, sc, S)
<1>1. Grows(p, r, S)
  BY DEF Good, Grows
<1>2. ASSUME NEW n \in Names
      PROVE  \/ r.cache[n] = p.cache[n]
             \/ r.cache[n].id = NoCache
             \/ /\ r.cache[n].id = id
                /\ r.cache[n].var = r.head[sc][n]
                /\ r.cache[n].var # Nil
  <2>1. r.head[sc][n] = q.head[sc][n] \/ q.head[sc][n] = Nil
    BY DEF Good, Grows
  <2>2. \/ r.cache[n] = q.cache[n]
        \/ r.cache[n].id = NoCache
        \/ /\ r.cache[n].id = id
           /\ r.cache[n].var = r.head[sc][n]
           /\ r.cache[n].var # Nil
    BY DEF Good, Caches
  <2>3. \/ q.cache[n] = p.cache[n]
        \/ q.cache[n].id = NoCache
        \/ /\ q.cache[n].id = id
           /\ q.cache[n].var = q.head[sc][n]
           /\ q.cache[n].var # Nil
    BY DEF Good, Caches
  <2> QED BY <2>1, <2>2, <2>3
<1> QED BY <1>1, <1>2 DEF Good, Caches

LEMMA ConstantTypes ==
    /\ Null \in Text /\ Empty \in Text
    /\ Names \subseteq Text /\ Indexes \subseteq Text
    /\ \A r \in Refs \ Names : r[1] \in Stems /\ r[2] \in Indexes
    /\ NoProc \in -1..MaxProc /\ NoLeaf \in Leaves
    /\ NoHeads \in [Names -> VarRefs] /\ NoTails \in [Slots -> VarRefs]
    /\ 0 \in Frames
BY PoolConstants DEF Names, Indexes, Refs, Compound, NoProc, NoLeaf, Leaves,
   NoHeads, NoTails, VarRefs, Frames, NoCache

LEMMA AllocQuiet ==
    ASSUME NEW p \in PoolType, NEW v \in VarIds, NEW val \in Text
    PROVE  Quiet(p, Alloc(p, v, val))
BY ConstantTypes DEF Quiet, Alloc, PoolType

LEMMA StoreQuiet ==
    ASSUME NEW p \in PoolType, NEW v, NEW val \in Text
    PROVE  Quiet(p, Store(p, v, val))
BY DEF Quiet, Store, PoolType

LEMMA ReleaseQuiet ==
    ASSUME NEW p \in PoolType, NEW V, NEW rx
    PROVE  Quiet(p, Release(p, V, rx))
BY ConstantTypes DEF Quiet, Release, PoolType, VarRefs

LEMMA ResetQuiet ==
    ASSUME NEW p \in PoolType, NEW v
    PROVE  Quiet(p, [p EXCEPT !.tail[v] = NoTails])
BY ConstantTypes DEF Quiet, PoolType, VarRefs

LEMMA EmptyStemQuiet ==
    ASSUME NEW p \in PoolType, NEW v, NEW rx
    PROVE  Quiet(p, EmptyStem(p, v, rx))
<1> DEFINE q == Release(p, TailsOf(p, {v}), rx)
<1>1. Quiet(p, q)
  BY ReleaseQuiet
<1>2. Quiet(q, EmptyStem(p, v, rx))
  BY <1>1, ResetQuiet DEF EmptyStem, Quiet
<1> QED BY <1>1, <1>2 DEF Quiet
LEMMA ScopeAssignQuiet ==
    ASSUME NEW p \in PoolType, NEW v \in VarIds
    PROVE  Quiet(p, ScopeAssign(p, v))
BY DEF Quiet, ScopeAssign, PoolType

LEMMA MarkQuiet ==
    ASSUME NEW p \in PoolType, NEW m \in [VarIds -> -1..MaxProc]
    PROVE  Quiet(p, [p EXCEPT !.mark = m])
BY DEF Quiet, PoolType

LEMMA MarkedQuiet ==
    ASSUME NEW p \in PoolType, NEW v, NEW rx \in Frames
    PROVE  Quiet(p, Marked(p, v, rx))
<1> DEFINE m == [p.mark EXCEPT ![v] = rx - 1]
<1>1. rx - 1 \in -1..MaxProc
  BY PoolConstants DEF Frames
<1>2. m \in [VarIds -> -1..MaxProc]
  BY <1>1 DEF PoolType
<1>3. [p EXCEPT !.mark[v] = rx - 1] = [p EXCEPT !.mark = m]
  OBVIOUS
<1> HIDE DEF m
<1>4. Quiet(p, [p EXCEPT !.mark = m])
  BY <1>2, MarkQuiet
<1>5. Quiet(p, p)
  BY DEF Quiet
<1> QED BY <1>3, <1>4, <1>5 DEF Marked

-----------------------------------------------------------------------------
(* Lookup.                                                                 *)

LEMMA CacheSet ==
    ASSUME NEW p \in PoolType, NEW n \in Names, NEW leaf \in Leaves
    PROVE  LET q == [p EXCEPT !.cache[n] = leaf]
           IN  /\ q \in PoolType /\ q.head = p.head
               /\ q.cache[n] = leaf
               /\ \A m \in Names \ {n} : q.cache[m] = p.cache[m]
<1> DEFINE c == [p.cache EXCEPT ![n] = leaf]
           q == [p EXCEPT !.cache = c]
<1>1. c \in [Names -> Leaves] /\ c[n] = leaf
      /\ \A m \in Names \ {n} : c[m] = p.cache[m]
  BY DEF PoolType
<1> HIDE DEF c
<1>2. q \in PoolType /\ q.head = p.head /\ q.cache = c
  BY <1>1 DEF PoolType
<1>3. q = [p EXCEPT !.cache[n] = leaf]
  BY DEF c
<1> HIDE DEF q
<1> QED BY <1>1, <1>2, <1>3

LEMMA MemoGood ==
    ASSUME NEW p \in PoolType, NEW id \in IdRange, NEW sc \in Frames,
           NEW n \in Names, NEW S
    PROVE  /\ Good(p, Memo(p, id, sc, n), id, sc, S)
           /\ Good(p, Memo(p, NoCache, sc, n), id, sc, S)
           /\ Memo(p, id, sc, n).head = p.head
           /\ Memo(p, NoCache, sc, n).head = p.head
<1> DEFINE hit == [id |-> id, scope |-> sc, var |-> p.head[sc][n]]
<1>1. hit \in Leaves /\ NoLeaf \in Leaves /\ NoLeaf.id = NoCache
  BY ConstantTypes DEF IdRange, Leaves, PoolType, NoLeaf
<1>2. hit.id = id /\ hit.var = p.head[sc][n]
  OBVIOUS
<1>3. ASSUME NEW leaf \in {hit, NoLeaf}, leaf = NoLeaf \/ hit.var # Nil
      PROVE  /\ Good(p, [p EXCEPT !.cache[n] = leaf], id, sc, S)
             /\ [p EXCEPT !.cache[n] = leaf].head = p.head
  <2> DEFINE q == [p EXCEPT !.cache[n] = leaf]
  <2> HIDE DEF hit
  <2>1. /\ q \in PoolType /\ q.head = p.head /\ q.cache[n] = leaf
        /\ \A m \in Names \ {n} : q.cache[m] = p.cache[m]
    BY <1>1, <1>3, CacheSet
  <2> HIDE DEF q
  <2>2. Grows(p, q, S)
    BY <2>1 DEF Grows
  <2>3. Caches(p, q, id, sc)
    BY <1>1, <1>2, <1>3, <2>1 DEF Caches
  <2>4. Good(p, q, id, sc, S) /\ q.head = p.head
    BY <2>1, <2>2, <2>3 DEF Good
  <2> QED BY <2>4 DEF q
<1>4. Memo(p, NoCache, sc, n) = [p EXCEPT !.cache[n] = NoLeaf]
  BY DEF Memo
<1>5. \/ Memo(p, id, sc, n) = [p EXCEPT !.cache[n] = NoLeaf]
      \/ hit.var # Nil /\ Memo(p, id, sc, n) = [p EXCEPT !.cache[n] = hit]
  BY DEF Memo
<1> HIDE DEF hit
<1> QED BY <1>3, <1>4, <1>5

LEMMA SearchGood ==
    ASSUME NEW p \in PoolType, NEW id \in IdRange, NEW sc \in Frames,
           NEW n \in Names, NEW i \in Indexes, NEW S
    PROVE  /\ Good(p, SearchName(p, id, sc, n), id, sc, S)
           /\ Good(p, SearchStem(p, id, sc, n), id, sc, S)
           /\ Good(p, SearchIndex(p, id, sc, i), id, sc, S)
           /\ SearchName(p, id, sc, n).head = p.head
           /\ SearchStem(p, id, sc, n).head = p.head
           /\ SearchIndex(p, id, sc, i).head = p.head
<1>1. Good(p, p, id, sc, S)
  BY QuietGood DEF Quiet
<1>2. ASSUME NEW m \in Names
      PROVE  Good(p, SearchName(p, id, sc, m), id, sc, S)
             /\ SearchName(p, id, sc, m).head = p.head
  BY <1>1, MemoGood DEF SearchName
<1>3. Good(p, SearchStem(p, id, sc, n), id, sc, S)
      /\ SearchStem(p, id, sc, n).head = p.head
  BY <1>1, MemoGood DEF SearchStem
<1>4. i \in Data \/ i \in Names
  BY DEF Indexes, Names
<1> QED BY <1>1, <1>2, <1>3, <1>4 DEF SearchIndex

\* What a search in the running activation leaves and finds.
LEMMA FindGood ==
    ASSUME NEW p \in PoolType, NEW id \in IdRange, NEW sc \in Frames,
           NEW r \in Refs, NEW S
    PROVE  /\ Good(p, Find(p, id, sc, sc, r).pool, id, sc, S)
           /\ Find(p, id, sc, sc, r).pool.head = p.head
<1>1. CASE r \in Names
  <2>1. Find(p, id, sc, sc, r).pool = SearchName(p, id, sc, r)
    BY <1>1 DEF Find
  <2>2. Sigl \in Indexes
    BY PoolConstants DEF Indexes
  <2> QED BY <1>1, <2>1, <2>2, SearchGood
<1>2. CASE r \notin Names
  <2>1. r[1] \in Names /\ r[2] \in Indexes
    BY <1>2, ConstantTypes DEF Names
  <2> DEFINE q == SearchStem(p, id, sc, r[1])
             z == SearchIndex(q, id, sc, r[2])
  <2>2. Good(p, q, id, sc, S) /\ q.head = p.head
    BY <2>1, SearchGood
  <2>3. q \in PoolType
    BY <2>2 DEF Good
  <2>4. Good(q, z, id, sc, S) /\ z.head = q.head
    BY <2>1, <2>3, SearchGood
  <2>5. z \in PoolType
    BY <2>4 DEF Good
  <2>6. Find(p, id, sc, sc, r).pool = z
    BY <1>2 DEF Find
  <2>7. Good(p, z, id, sc, S)
    BY <2>2, <2>3, <2>4, <2>5, GoodTrans
  <2> QED BY <2>2, <2>4, <2>6, <2>7
<1> QED BY <1>1, <1>2

LEMMA FindTypes ==
    ASSUME NEW p \in PoolType, NEW id, NEW sc \in Frames, NEW cur \in Frames,
           NEW r \in Refs
    PROVE  LET f == Find(p, id, sc, cur, r)
           IN  f.var \in VarRefs /\ f.stem \in VarRefs /\ f.tail \in Text
<1>1. ASSUME NEW n \in Names, NEW s \in Frames
      PROVE  HeadVar(p, id, s, n) \in VarRefs
  BY DEF HeadVar, PoolType, Leaves, VarRefs
<1>2. CASE r \in Names
  BY <1>2, ConstantTypes DEF Find, PoolType, VarRefs
<1>3. CASE r \notin Names
  <2>1. r[1] \in Names /\ r[2] \in Indexes /\ r[2] \in Text
    BY <1>3, ConstantTypes DEF Names
  <2>2. r[2] \in Data \/ r[2] \in Names
    BY <2>1 DEF Indexes, Names
  <2> DEFINE h == HeadVar(p, id, sc, r[1])
             t == TailOf(p, id, cur, r[2])
  <2>3. h \in VarRefs
    BY <1>1, <2>1
  <2>4. t \in Text
    BY <1>1, <2>1, <2>2 DEF TailOf, PoolType, VarRefs
  <2>5. <<t, "hash">> \in Slots
    BY <2>4 DEF Slots
  <2> HIDE DEF h, t
  <2>6. (IF h = Nil THEN Nil ELSE p.tail[h][<<t, "hash">>]) \in VarRefs
    BY <2>3, <2>5 DEF PoolType, VarRefs
  <2> USE DEF h, t
  <2> QED BY <1>3, <2>3, <2>4, <2>6 DEF Find
<1> QED BY <1>2, <1>3

\* A search without caches, and one for a simple symbol.
LEMMA FindOldGood ==
    ASSUME NEW p \in PoolType, NEW id \in IdRange, NEW sc \in Frames,
           NEW old \in Frames, NEW cur \in Frames, NEW r \in Refs, NEW S
    PROVE  LET q == Find(p, NoCache, old, cur, r).pool
           IN  Good(p, q, id, sc, S) /\ q.head = p.head
<1>0. NoCache \in IdRange
  BY PoolConstants DEF IdRange, NoCache
<1>a. Sigl \in Names /\ Sigl \in Indexes
  BY PoolConstants DEF Names, Indexes
<1>1. ASSUME NEW u \in PoolType, NEW s \in Frames, NEW n \in Names
      PROVE  LET q == SearchName(u, NoCache, s, n)
             IN  Good(u, q, NoCache, s, S) /\ q.head = u.head
  BY <1>0, <1>a, SearchGood
<1>2. ASSUME NEW u \in PoolType, NEW s \in Frames, NEW n \in Names
      PROVE  LET q == SearchStem(u, NoCache, s, n)
             IN  Good(u, q, NoCache, s, S) /\ q.head = u.head
  BY <1>0, <1>a, SearchGood
<1>3. ASSUME NEW u \in PoolType, NEW s \in Frames, NEW i \in Indexes
      PROVE  LET q == SearchIndex(u, NoCache, s, i)
             IN  Good(u, q, NoCache, s, S) /\ q.head = u.head
  BY <1>0, <1>a, SearchGood
\* An entry cached without an id is none.
<1>4. ASSUME NEW u \in PoolType, NEW q, NEW s \in Frames,
             Good(u, q, NoCache, s, S)
      PROVE  Good(u, q, id, sc, S)
  BY <1>4 DEF Good, Caches
<1>5. CASE r \in Names
  <2>1. Find(p, NoCache, old, cur, r).pool = SearchName(p, NoCache, old, r)
    BY <1>5 DEF Find
  <2> QED BY <1>1, <1>4, <1>5, <2>1
<1>6. CASE r \notin Names
  <2>1. r[1] \in Names /\ r[2] \in Indexes
    BY <1>6, ConstantTypes DEF Names
  <2> DEFINE q == SearchStem(p, NoCache, old, r[1])
             z == SearchIndex(q, NoCache, cur, r[2])
  <2>2. Good(p, q, id, sc, S) /\ q.head = p.head
    BY <1>2, <1>4, <2>1
  <2>3. q \in PoolType
    BY <2>2 DEF Good
  <2>4. Good(q, z, id, sc, S) /\ z.head = q.head
    BY <1>3, <1>4, <2>1, <2>3
  <2>5. z \in PoolType
    BY <2>4 DEF Good
  <2>6. Find(p, NoCache, old, cur, r).pool = z
    BY <1>6 DEF Find
  <2>7. Good(p, z, id, sc, S)
    BY <2>2, <2>3, <2>4, <2>5, GoodTrans
  <2> QED BY <2>2, <2>4, <2>6, <2>7
<1> QED BY <1>5, <1>6

\* The caller's leaf of a simple symbol serves the routine as its own if both
\* scopes hold the same object.
LEMMA FindListGood ==
    ASSUME NEW p \in PoolType, NEW id \in IdRange, NEW sc \in Frames,
           NEW old \in Frames, NEW r \in Simple, NEW S,
           p.head[old][r] = p.head[sc][r]
    PROVE  LET q == Find(p, id, old, sc, r).pool
           IN  Good(p, q, id, sc, S) /\ q.head = p.head
<1>1. r \in Names /\ r \in Indexes
  BY DEF Names, Indexes
<1> DEFINE q == Find(p, id, old, sc, r).pool
<1>2. q = SearchName(p, id, old, r)
  BY <1>1 DEF Find
<1>3. Good(p, q, id, old, S) /\ q.head = p.head
  BY <1>1, <1>2, SearchGood
<1>4. q = p \/ q = Memo(p, id, old, r)
  BY <1>2 DEF SearchName
<1>5. ASSUME NEW m \in Names \ {r}
      PROVE  q.cache[m] = p.cache[m]
  BY <1>4 DEF Memo, PoolType
<1> HIDE DEF q
<1>6. \/ q.cache[r] = p.cache[r]
      \/ q.cache[r].id = NoCache
      \/ /\ q.cache[r].id = id
         /\ q.cache[r].var = q.head[old][r]
         /\ q.cache[r].var # Nil
  BY <1>1, <1>3 DEF Good, Caches
<1>7. q.head[old][r] = q.head[sc][r]
  BY <1>3
<1>8. Caches(p, q, id, sc)
  BY <1>5, <1>6, <1>7 DEF Caches
<1>9. Good(p, q, id, sc, S)
  BY <1>3, <1>8 DEF Good
<1> QED BY <1>3, <1>9 DEF q

-----------------------------------------------------------------------------
(* Operations that add heads.                                              *)

Adds(p, q, sc) == q \in PoolType /\ q.cache = p.cache /\ Grows(p, q, {sc})

LEMMA AddsGood ==
    ASSUME NEW p \in PoolType, NEW q, NEW sc, Adds(p, q, sc),
           NEW id, NEW s, NEW S, sc \in S
    PROVE  Good(p, q, id, s, S)
BY DEF Adds, Good, Grows, Caches

LEMMA HeadSetFun ==
    ASSUME NEW p \in PoolType, NEW sc \in Frames, NEW n \in Names,
           NEW v \in VarRefs
    PROVE  LET q == SetHead(p, sc, n, v)
           IN  /\ q \in PoolType /\ q.cache = p.cache
               /\ q.head = [p.head EXCEPT ![sc][n] = v]
<1> DEFINE h == [p.head EXCEPT ![sc][n] = v]
           q == [p EXCEPT !.head = h]
<1>1. h \in [Frames -> [Names -> VarRefs]]
  BY DEF PoolType, VarRefs
<1>2. SetHead(p, sc, n, v) = q
  BY DEF SetHead
<1>3. h = [p.head EXCEPT ![sc][n] = v]
  OBVIOUS
<1> HIDE DEF h
<1>4. q \in PoolType /\ q.head = h /\ q.cache = p.cache
  BY <1>1 DEF PoolType, VarRefs
<1> HIDE DEF q
<1> QED BY <1>2, <1>3, <1>4

LEMMA HeadSet ==
    ASSUME NEW p \in PoolType, NEW sc \in Frames, NEW n \in Names,
           NEW v \in VarRefs
    PROVE  /\ SetHead(p, sc, n, v) \in PoolType
           /\ SetHead(p, sc, n, v).cache = p.cache
           /\ SetHead(p, sc, n, v).head[sc][n] = v
           /\ \A s \in Frames, m \in Names :
                 s # sc \/ m # n => SetHead(p, sc, n, v).head[s][m] = p.head[s][m]
           /\ \A s \in Frames \ {sc} : SetHead(p, sc, n, v).head[s] = p.head[s]
<1> DEFINE q == SetHead(p, sc, n, v)
<1>1. q \in PoolType /\ q.cache = p.cache
      /\ q.head = [p.head EXCEPT ![sc][n] = v]
  BY HeadSetFun
<1> HIDE DEF q
<1>2. /\ q.head[sc][n] = v
      /\ \A s \in Frames, m \in Names : s # sc \/ m # n => q.head[s][m] = p.head[s][m]
      /\ \A s \in Frames \ {sc} : q.head[s] = p.head[s]
  BY <1>1 DEF PoolType
<1> QED BY <1>1, <1>2 DEF q

LEMMA HeadAdds ==
    ASSUME NEW p \in PoolType, NEW sc \in Frames, NEW n \in Names,
           NEW v \in VarIds, p.head[sc][n] = Nil
    PROVE  Adds(p, SetHead(p, sc, n, v), sc)
<1>1. v \in VarRefs
  BY DEF VarRefs
<1> QED BY <1>1, HeadSet DEF Adds, Grows

LEMMA TailSetQuiet ==
    ASSUME NEW p \in PoolType, NEW h \in VarIds, NEW s \in Slots,
           NEW v \in VarIds
    PROVE  Quiet(p, [p EXCEPT !.tail[h][s] = v])
<1> DEFINE u == [p.tail EXCEPT ![h][s] = v]
           q == [p EXCEPT !.tail = u]
<1>1. u \in [VarIds -> [Slots -> VarRefs]]
  BY DEF PoolType, VarRefs
<1>2. [p EXCEPT !.tail[h][s] = v] = q
  OBVIOUS
<1> HIDE DEF u
<1>3. q \in PoolType /\ q.head = p.head /\ q.cache = p.cache
  BY <1>1 DEF PoolType, VarRefs
<1> QED BY <1>2, <1>3 DEF Quiet

LEMMA AddsQuiet ==
    ASSUME NEW p, NEW q, NEW r, NEW sc,
           \/ Adds(p, q, sc) /\ Quiet(q, r)
           \/ Quiet(p, q) /\ Adds(q, r, sc)
    PROVE  Adds(p, r, sc)
BY DEF Adds, Quiet, Grows

\* Allocating a head where there is none.
LEMMA NewHeadAdds ==
    ASSUME NEW p \in PoolType, NEW sc \in Frames, NEW n \in Names,
           NEW v \in VarIds, NEW val \in Text, p.head[sc][n] = Nil
    PROVE  Adds(p, SetHead(Alloc(p, v, val), sc, n, v), sc)
<1> DEFINE q == Alloc(p, v, val)
<1>1. Quiet(p, q)
  BY AllocQuiet
<1> HIDE DEF q
<1>2. q \in PoolType /\ q.head[sc][n] = Nil
  BY <1>1 DEF Quiet
<1>3. Adds(q, SetHead(q, sc, n, v), sc)
  BY <1>2, HeadAdds
<1>4. Adds(p, SetHead(q, sc, n, v), sc)
  BY <1>1, <1>3, AddsQuiet
<1> QED BY <1>4 DEF q

LEMMA AddAdds ==
    ASSUME NEW p \in PoolType, NEW sc \in Frames, NEW r \in Refs,
           NEW stem \in VarRefs, NEW t \in Text,
           NEW v \in VarIds, NEW w \in VarIds,
           r \in Names => p.head[sc][r] = Nil,
           r \notin Names /\ stem = Nil => p.head[sc][r[1]] = Nil
    PROVE  Adds(p, Add(p, sc, r, stem, t, v, w), sc)
<1>1. CASE r \in Names
  BY <1>1, NewHeadAdds, ConstantTypes DEF Add
<1>2. CASE r \notin Names
  <2> DEFINE h == IF stem = Nil THEN w ELSE stem
             q == IF stem = Nil
                  THEN SetHead(Alloc(p, w, Null), sc, r[1], w)
                  ELSE p
             d == IF q.value[h] = Null THEN Empty ELSE q.value[h]
             a == Alloc(q, v, d)
             z == [a EXCEPT !.tail[h][<<t, "hash">>] = v]
  <2>1. r[1] \in Names
    BY <1>2, ConstantTypes DEF Names
  <2>2. h \in VarIds
    BY DEF VarRefs
  <2>3. Quiet(p, p)
    BY DEF Quiet
  <2>4. Adds(p, q, sc)
    <3>1. CASE stem = Nil
      BY <1>2, <2>1, <3>1, NewHeadAdds, ConstantTypes
    <3>2. CASE stem # Nil
      BY <3>2 DEF Adds, Grows
    <3> QED BY <3>1, <3>2
  <2> HIDE DEF h, q
  <2>5. q \in PoolType /\ d \in Text
    BY <2>2, <2>4, ConstantTypes DEF Adds, PoolType
  <2> HIDE DEF d
  <2>6. Quiet(q, a)
    BY <2>5, AllocQuiet
  <2> HIDE DEF a
  <2>7. a \in PoolType /\ <<t, "hash">> \in Slots
    BY <2>6 DEF Quiet, Slots
  <2>8. Quiet(a, z)
    BY <2>2, <2>7, TailSetQuiet
  <2>9. Adds(p, a, sc)
    BY <2>4, <2>6, AddsQuiet
  <2>10. Adds(p, z, sc)
    BY <2>8, <2>9, AddsQuiet
  <2>11. Add(p, sc, r, stem, t, v, w) = z
    BY <1>2 DEF Add, h, q, d, a
  <2> QED BY <2>10, <2>11
<1> QED BY <1>1, <1>2

-----------------------------------------------------------------------------
(* Coherence of the caches for one activation.                             *)

CoherentIn(p, id, sc) ==
    \A n \in Names :
        p.cache[n].id = id =>
            p.cache[n].var # Nil /\ p.cache[n].var = p.head[sc][n]

LEMMA GoodCoherent ==
    ASSUME NEW p, NEW q, NEW id, NEW sc, NEW S, Good(p, q, id, sc, S),
           NEW i, NEW s \in Frames, i # NoCache, i = id => s = sc,
           CoherentIn(p, i, s)
    PROVE  CoherentIn(q, i, s)
<1> SUFFICES ASSUME NEW n \in Names, q.cache[n].id = i
             PROVE  q.cache[n].var # Nil /\ q.cache[n].var = q.head[s][n]
  BY DEF CoherentIn
<1>1. CASE q.cache[n] = p.cache[n]
  BY <1>1 DEF Good, Grows, CoherentIn
<1>2. CASE q.cache[n] # p.cache[n]
  BY <1>2 DEF Good, Caches
<1> QED BY <1>1, <1>2

\* With coherent caches, a search that finds no stem means there is none.
LEMMA FindStem ==
    ASSUME NEW p \in PoolType, NEW id, NEW sc \in Frames, NEW cur,
           NEW r \in Refs \ Names,
           id = NoCache \/ CoherentIn(p, id, sc)
    PROVE  Find(p, id, sc, cur, r).stem = p.head[sc][r[1]]
<1>1. r[1] \in Names
  BY ConstantTypes DEF Names
<1>2. Find(p, id, sc, cur, r).stem = HeadVar(p, id, sc, r[1])
  BY DEF Find
<1> QED BY <1>1, <1>2 DEF HeadVar, Cached, CoherentIn

LEMMA CreateGood ==
    ASSUME NEW p \in PoolType, NEW id \in IdRange, NEW sc \in Frames,
           NEW r \in Refs, NEW v \in VarIds, NEW w \in VarIds,
           CoherentIn(p, id, sc), id # NoCache
    PROVE  LET c == Create(p, id, sc, r, v, w)
           IN  Good(p, c.pool, id, sc, {sc}) /\ c.var \in VarIds
<1> DEFINE f == Find(p, id, sc, sc, r)
           q == Add(f.pool, sc, r, f.stem, f.tail, v, w)
           z == IF r \in Names THEN Memo(q, id, sc, r) ELSE q
           c == Create(p, id, sc, r, v, w)
<1>1. Good(p, f.pool, id, sc, {sc}) /\ f.pool.head = p.head
  BY FindGood
<1>2. f.var \in VarRefs /\ f.stem \in VarRefs /\ f.tail \in Text
  BY FindTypes
<1>3. r \in Names => f.var = p.head[sc][r]
  BY DEF Find
<1>4. r \notin Names => f.stem = p.head[sc][r[1]]
  BY FindStem
<1>5. CASE r \in Names /\ Cached(p, id, r)
  <2>1. c = [pool |-> p, var |-> p.cache[r].var]
    BY <1>5 DEF Create
  <2>2. Good(p, p, id, sc, {sc})
    BY QuietGood DEF Quiet
  <2>3. p.cache[r].var \in VarIds
    BY <1>5 DEF PoolType, Leaves, Cached, CoherentIn
  <2> QED BY <2>1, <2>2, <2>3
<1>6. CASE ~(r \in Names /\ Cached(p, id, r)) /\ f.var # Nil
  <2>1. c = [pool |-> f.pool, var |-> f.var]
    BY <1>6 DEF Create
  <2> HIDE DEF f, c
  <2>2. Good(p, c.pool, id, sc, {sc}) /\ c.var \in VarIds
    BY <1>1, <1>2, <1>6, <2>1 DEF f, VarRefs
  <2> QED BY <2>2 DEF c
<1>7. CASE ~(r \in Names /\ Cached(p, id, r)) /\ f.var = Nil
  <2>1. c = [pool |-> z, var |-> v]
    BY <1>7 DEF Create
  <2> HIDE DEF f, c
  <2>2. f.pool \in PoolType
    BY <1>1 DEF Good
  <2>3. Adds(f.pool, q, sc)
    BY <1>1, <1>2, <1>3, <1>4, <1>7, <2>2, AddAdds
  <2> HIDE DEF q
  <2>4. q \in PoolType /\ Good(f.pool, q, id, sc, {sc})
    BY <2>2, <2>3, AddsGood DEF Adds
  <2>5. Good(q, z, id, sc, {sc})
    <3>1. CASE r \in Names
      BY <2>4, <3>1, MemoGood
    <3>2. CASE r \notin Names
      BY <2>4, <3>2, QuietGood DEF Quiet
    <3> QED BY <3>1, <3>2
  <2> HIDE DEF z
  <2>6. z \in PoolType
    BY <2>5 DEF Good
  <2>7. Good(p, q, id, sc, {sc})
    BY <1>1, <2>2, <2>4, GoodTrans
  <2>8. Good(p, z, id, sc, {sc})
    BY <2>4, <2>5, <2>6, <2>7, GoodTrans
  <2>9. Good(p, c.pool, id, sc, {sc}) /\ c.var \in VarIds
    BY <2>1, <2>8
  <2> QED BY <2>9 DEF c
<1> QED BY <1>5, <1>6, <1>7

LEMMA VarSetGood ==
    ASSUME NEW p \in PoolType, NEW id \in IdRange, NEW sc \in Frames,
           NEW n \in Names, NEW val \in Text, NEW v \in VarIds,
           CoherentIn(p, id, sc), id # NoCache
    PROVE  Good(p, VarSet(p, id, sc, n, val, v), id, sc, {sc})
<1> DEFINE c == Create(p, id, sc, n, v, v)
           z == Store(c.pool, c.var, val)
<1>1. n \in Refs
  BY DEF Refs
<1>2. Good(p, c.pool, id, sc, {sc})
  BY <1>1, CreateGood
<1>3. VarSet(p, id, sc, n, val, v) = z
  BY DEF VarSet
<1> HIDE DEF c
<1>4. c.pool \in PoolType
  BY <1>2 DEF Good
<1>5. Quiet(c.pool, z)
  BY <1>4, StoreQuiet
<1>6. Good(c.pool, z, id, sc, {sc}) /\ z \in PoolType
  BY <1>4, <1>5, QuietGood DEF Quiet
<1> QED BY <1>2, <1>3, <1>4, <1>6, GoodTrans

-----------------------------------------------------------------------------
(* EXPOSE.                                                                 *)

\* The head that a reference goes through, and pools that differ there only.
Key(r) == IF r \in Names THEN r ELSE r[1]
But(p, q, n) ==
    \A s \in Frames, m \in Names : m # n => q.head[s][m] = p.head[s][m]

LEMMA KeyName == \A r \in Refs : Key(r) \in Names /\ (r \notin Names => Key(r) \in Stems)
BY ConstantTypes DEF Key, Names

LEMMA NewHeadBut ==
    ASSUME NEW p \in PoolType, NEW sc \in Frames, NEW n \in Names,
           NEW v \in VarIds, NEW val \in Text
    PROVE  LET q == SetHead(Alloc(p, v, val), sc, n, v)
           IN  But(p, q, n) /\ q.head[sc][n] = v
<1> DEFINE a == Alloc(p, v, val)
           q == SetHead(a, sc, n, v)
<1>1. Quiet(p, a)
  BY AllocQuiet
<1> HIDE DEF a
<1>2. a \in PoolType /\ a.head = p.head /\ v \in VarRefs
  BY <1>1 DEF Quiet, VarRefs
<1>3. q = SetHead(a, sc, n, v)
  OBVIOUS
<1> HIDE DEF q
<1>4. /\ q.head[sc][n] = v
      /\ \A s \in Frames, m \in Names :
            s # sc \/ m # n => q.head[s][m] = a.head[s][m]
  BY <1>2, <1>3, HeadSet
<1>5. But(p, q, n) /\ q.head[sc][n] = v
  BY <1>2, <1>4 DEF But
<1> QED BY <1>5 DEF a, q

LEMMA AddBut ==
    ASSUME NEW p \in PoolType, NEW sc \in Frames, NEW r \in Refs,
           NEW stem \in VarRefs, NEW t \in Text,
           NEW v \in VarIds, NEW w \in VarIds
    PROVE  LET q == Add(p, sc, r, stem, t, v, w)
           IN  But(p, q, Key(r)) /\ (r \in Names => q.head[sc][r] = v)
<1>1. CASE r \in Names
  <2>1. Add(p, sc, r, stem, t, v, w) = SetHead(Alloc(p, v, Empty), sc, r, v)
    BY <1>1 DEF Add
  <2> QED BY <1>1, <2>1, NewHeadBut, ConstantTypes DEF Key
<1>2. CASE r \notin Names
  <2> DEFINE h == IF stem = Nil THEN w ELSE stem
             q == IF stem = Nil
                  THEN SetHead(Alloc(p, w, Null), sc, r[1], w)
                  ELSE p
             d == IF q.value[h] = Null THEN Empty ELSE q.value[h]
             a == Alloc(q, v, d)
             z == [a EXCEPT !.tail[h][<<t, "hash">>] = v]
  <2>1. r[1] \in Names /\ Key(r) = r[1]
    BY <1>2, ConstantTypes DEF Names, Key
  <2>2. But(p, q, r[1])
    <3>1. CASE stem = Nil
      BY <2>1, <3>1, NewHeadBut, ConstantTypes
    <3>2. CASE stem # Nil
      BY <3>2 DEF But
    <3> QED BY <3>1, <3>2
  <2>3. z.head = q.head
    BY DEF Alloc
  <2> HIDE DEF h, q, d, a
  <2>4. But(p, z, r[1])
    BY <2>2, <2>3 DEF But
  <2>5. Add(p, sc, r, stem, t, v, w) = z
    BY <1>2 DEF Add, h, q, d, a
  <2> HIDE DEF z
  <2> QED BY <1>2, <2>1, <2>4, <2>5
<1> QED BY <1>1, <1>2

LEMMA EnterFacts ==
    ASSUME NEW p \in PoolType, NEW sc \in Frames, NEW r \in Refs,
           NEW t \in Text, NEW v \in VarIds, NEW w \in VarIds,
           r \in Names => p.head[sc][r] = Nil
    PROVE  LET q == Enter(p, sc, r, t, v, w)
           IN  /\ Adds(p, q, sc) /\ But(p, q, Key(r))
               /\ \A s \in Frames \ {sc} : q.head[s] = p.head[s]
               /\ r \in Names => q.head[sc][r] = v
<1>1. CASE r \in Names
  <2> DEFINE q == SetHead(p, sc, r, v)
  <2>1. Enter(p, sc, r, t, v, w) = q
    BY <1>1 DEF Enter
  <2>2. v \in VarRefs
    BY DEF VarRefs
  <2>3. Adds(p, q, sc)
    BY <1>1, HeadAdds
  <2> HIDE DEF q
  <2>4. /\ q.head[sc][r] = v
        /\ \A s \in Frames \ {sc} : q.head[s] = p.head[s]
        /\ \A s \in Frames, m \in Names :
              s # sc \/ m # r => q.head[s][m] = p.head[s][m]
    BY <1>1, <2>2, HeadSet DEF q
  <2>5. But(p, q, r)
    BY <2>4 DEF But
  <2> QED BY <1>1, <2>1, <2>3, <2>4, <2>5 DEF Key
<1>2. CASE r \notin Names
  <2> DEFINE none == p.head[sc][r[1]] = Nil
             h == IF none THEN w ELSE p.head[sc][r[1]]
             a == SetHead(Alloc(p, w, Null), sc, r[1], w)
             q == IF none THEN a ELSE p
             s == <<t, IF t \in Split THEN "first" ELSE "hash">>
             y == [q EXCEPT !.tail[h][s] = v]
             z == IF q.tail[h][s] # Nil THEN q ELSE y
  <2>1. r[1] \in Names /\ Key(r) = r[1]
    BY <1>2, ConstantTypes DEF Names, Key
  <2>2. h \in VarIds /\ s \in Slots
    BY <2>1 DEF PoolType, Slots
  <2>3. ASSUME none
        PROVE  Adds(p, q, sc) /\ But(p, q, r[1])
               /\ \A u \in Frames \ {sc} : q.head[u] = p.head[u]
    <3> DEFINE b == Alloc(p, w, Null)
    <3>1. Adds(p, a, sc) /\ But(p, a, r[1])
      BY <2>1, <2>3, NewHeadAdds, NewHeadBut, ConstantTypes
    <3>2. Quiet(p, b) /\ w \in VarRefs
      BY AllocQuiet, ConstantTypes DEF VarRefs
    <3>3. \A u \in Frames \ {sc} : a.head[u] = p.head[u]
      <4> HIDE DEF b
      <4>1. b \in PoolType /\ b.head = p.head
        BY <3>2 DEF Quiet
      <4>2. a = SetHead(b, sc, r[1], w)
        BY DEF b
      <4> HIDE DEF a
      <4> QED BY <2>1, <3>2, <4>1, <4>2, HeadSet
    <3>4. q = a
      BY <2>3
    <3> HIDE DEF a, q
    <3> QED BY <3>1, <3>3, <3>4
  <2>4. ASSUME ~none
        PROVE  Adds(p, q, sc) /\ But(p, q, r[1])
               /\ \A u \in Frames \ {sc} : q.head[u] = p.head[u]
    <3>1. q = p
      BY <2>4
    <3> HIDE DEF q
    <3> QED BY <3>1 DEF Adds, Grows, But
  <2> HIDE DEF q
  <2>5. Adds(p, q, sc) /\ But(p, q, r[1])
        /\ \A u \in Frames \ {sc} : q.head[u] = p.head[u]
    BY <2>3, <2>4
  <2> HIDE DEF h, s
  <2>6. Quiet(q, y)
    BY <2>2, <2>5, TailSetQuiet DEF Adds
  <2>7. Quiet(q, z)
    BY <2>5, <2>6 DEF Quiet, Adds
  <2> HIDE DEF z
  <2>8. Adds(p, z, sc) /\ But(p, z, r[1])
        /\ \A u \in Frames \ {sc} : z.head[u] = p.head[u]
    BY <2>5, <2>7, AddsQuiet DEF Quiet, But
  <2>9. Enter(p, sc, r, t, v, w) = z
    BY <1>2 DEF Enter, z, q, h, s
  <2> QED BY <1>2, <2>1, <2>8, <2>9
<1> QED BY <1>1, <1>2

\* What the routine sees under a simple symbol is its caller's variable.
Agree(p, sc, old) ==
    \A n \in Simple : p.head[sc][n] # Nil => p.head[old][n] = p.head[sc][n]

\* The variable exposed is the caller's, created for the purpose if needed.
LEMMA OldVarFacts ==
    ASSUME NEW p \in PoolType, NEW id \in IdRange, NEW sc \in Frames,
           NEW old \in Frames, NEW r \in Refs,
           NEW v \in VarIds, NEW w \in VarIds
    PROVE  LET o == OldVar(p, id, old, sc, r, v, w)
           IN  /\ o.pool \in PoolType /\ Good(p, o.pool, id, sc, {sc, old})
               /\ Grows(p, o.pool, {old}) /\ But(p, o.pool, Key(r))
               /\ o.var \in VarIds /\ o.tail \in Text
<1> DEFINE g == FindOld(p, id, old, sc, r)
           o == OldVar(p, id, old, sc, r, v, w)
           q == o.pool
<1>1. Good(p, g.pool, id, sc, {sc, old}) /\ g.pool.head = p.head
      /\ g.pool \in PoolType
  BY FindOldGood DEF FindOld, Good
<1>2. g.var \in VarRefs /\ g.stem \in VarRefs /\ g.tail \in Text
  BY FindTypes DEF FindOld
<1>3. r \in Names => g.var = p.head[old][r]
  BY DEF FindOld, Find
<1>4. r \notin Names => g.stem = p.head[old][r[1]]
  BY FindStem DEF FindOld
<1>5. CASE g.var # Nil
  <2>1. q = g.pool /\ o.var = g.var /\ o.tail = g.tail
    BY <1>5 DEF OldVar
  <2> HIDE DEF g, o
  <2>2. Grows(p, q, {old}) /\ But(p, q, Key(r))
    BY <1>1, <2>1 DEF Grows, But
  <2> QED BY <1>1, <1>2, <1>3, <1>5, <2>1, <2>2 DEF o, VarRefs
<1>6. CASE g.var = Nil
  <2> DEFINE a == Add(g.pool, old, r, g.stem, g.tail, v, w)
             name == OwnName(r, g.tail)
  <2>1. Adds(g.pool, a, old)
    BY <1>1, <1>2, <1>3, <1>4, <1>6, AddAdds
  <2>2. But(g.pool, a, Key(r)) /\ (r \in Names => a.head[old][r] = v)
    BY <1>1, <1>2, AddBut
  <2>3. name \in Text
    BY <1>2, ConstantTypes, PoolConstants DEF OwnName, Names
  <2>4. q = Store(a, v, name) /\ o.var = v /\ o.tail = g.tail
    BY <1>6 DEF OldVar
  <2> HIDE DEF a, name, g, o
  <2>5. Quiet(a, q)
    BY <2>1, <2>3, <2>4, StoreQuiet DEF Adds
  <2>6. Adds(g.pool, q, old)
    BY <2>1, <2>5, AddsQuiet
  <2>7. q \in PoolType /\ Good(g.pool, q, id, sc, {sc, old})
    BY <1>1, <2>6, AddsGood DEF Adds
  <2>8. Good(p, q, id, sc, {sc, old})
    BY <1>1, <2>7, GoodTrans
  <2>9. Grows(p, q, {old}) /\ But(p, q, Key(r))
    BY <1>1, <2>2, <2>5, <2>6 DEF Adds, Grows, But, Quiet
  <2> QED BY <1>2, <2>4, <2>7, <2>8, <2>9 DEF o
<1> QED BY <1>5, <1>6

LEMMA OldVarHead ==
    ASSUME NEW p \in PoolType, NEW id \in IdRange, NEW sc \in Frames,
           NEW old \in Frames, NEW r \in Names,
           NEW v \in VarIds, NEW w \in VarIds
    PROVE  OldVar(p, id, old, sc, r, v, w).pool.head[old][r]
             = OldVar(p, id, old, sc, r, v, w).var
<1> DEFINE g == FindOld(p, id, old, sc, r)
           o == OldVar(p, id, old, sc, r, v, w)
           a == Add(g.pool, old, r, g.stem, g.tail, v, w)
           name == OwnName(r, g.tail)
<1>1. r \in Refs
  BY DEF Refs
<1>2. g.pool.head = p.head /\ g.pool \in PoolType
  BY <1>1, FindOldGood DEF FindOld, Good
<1>3. g.stem \in VarRefs /\ g.tail \in Text /\ g.var = p.head[old][r]
  BY <1>1, FindTypes DEF FindOld, Find
<1>4. name \in Text
  BY ConstantTypes DEF OwnName
<1>5. CASE g.var # Nil
  BY <1>2, <1>3, <1>5 DEF OldVar
<1>6. CASE g.var = Nil
  <2>a. a = SetHead(Alloc(g.pool, v, Empty), old, r, v)
    BY DEF Add
  <2>b. Adds(g.pool, a, old)
    BY <1>2, <1>3, <1>6, <2>a, NewHeadAdds, ConstantTypes
  <2>1. Adds(g.pool, a, old) /\ a.head[old][r] = v
    BY <1>2, <2>a, <2>b, NewHeadBut, ConstantTypes
  <2>2. o.pool = Store(a, v, name) /\ o.var = v
    BY <1>6 DEF OldVar
  <2> HIDE DEF a, name, o
  <2>3. Quiet(a, Store(a, v, name))
    BY <1>4, <2>1, StoreQuiet DEF Adds
  <2>4. o.pool.head[old][r] = o.var
    BY <2>1, <2>2, <2>3 DEF Quiet
  <2> QED BY <2>4 DEF o
<1> QED BY <1>5, <1>6

LEMMA ExposeFacts ==
    ASSUME NEW p \in PoolType, NEW id \in IdRange, NEW sc \in Frames,
           NEW old \in Frames, sc # old, NEW r \in Refs, NEW rx \in Frames,
           NEW new \in VarIds \X VarIds \X VarIds
    PROVE  /\ Good(p, Expose(p, id, sc, old, r, rx, new), id, sc, {sc, old})
           /\ Agree(p, sc, old) =>
                 /\ Agree(Expose(p, id, sc, old, r, rx, new), sc, old)
                 /\ r \in Simple =>
                      Expose(p, id, sc, old, r, rx, new).head[sc][r]
                        = Expose(p, id, sc, old, r, rx, new).head[old][r]
<1> DEFINE f == Find(p, id, sc, sc, r)
           o == OldVar(f.pool, id, old, sc, r, new[1], new[2])
           q == o.pool
           v == o.var
           m == Marked(q, v, rx)
           e == Enter(m, sc, r, o.tail, v, new[3])
           found == \/ f.var # Nil
                    \/ f.stem # Nil /\ p.mark[f.stem] # NoProc
           x == Expose(p, id, sc, old, r, rx, new)
<1>1. Good(p, f.pool, id, sc, {sc, old}) /\ f.pool.head = p.head
  BY FindGood
<1>2. f.pool \in PoolType
  BY <1>1 DEF Good
<1>3. r \in Names => f.var = p.head[sc][r]
  BY DEF Find
<1>4. x = IF found THEN f.pool ELSE e
  BY DEF Expose
<1>5. Simple \subseteq Names /\ Simple \cap Stems = {}
  BY PoolConstants DEF Names
<1>6. CASE found
  <2>1. x = f.pool
    BY <1>4, <1>6
  <2>2. r \in Simple => p.head[sc][r] # Nil
    BY <1>3, <1>5, <1>6, PoolConstants DEF Find, Names
  <2> HIDE DEF f, x
  <2>3. Good(p, x, id, sc, {sc, old}) /\ x.head = p.head
    BY <1>1, <2>1
  <2>4. Agree(p, sc, old) =>
           Agree(x, sc, old) /\ (r \in Simple => x.head[sc][r] = x.head[old][r])
    BY <2>2, <2>3 DEF Agree
  <2> QED BY <2>3, <2>4 DEF x
<1>7. CASE ~found
  <2>1. f.var = Nil /\ x = e
    BY <1>4, <1>7
  <2> HIDE DEF f, x
  <2>2. new[1] \in VarIds /\ new[2] \in VarIds /\ new[3] \in VarIds
    OBVIOUS
  <2>3. f.pool \in PoolType
    BY <1>2
  <2>a. q \in PoolType /\ Grows(f.pool, q, {old}) /\ But(f.pool, q, Key(r))
    BY <2>2, <2>3, OldVarFacts
  <2>b. Good(f.pool, q, id, sc, {sc, old})
    BY <2>2, <2>3, OldVarFacts
  <2>c. v \in VarIds /\ o.tail \in Text
    BY <2>2, <2>3, OldVarFacts
  <2>d. ASSUME r \in Names PROVE q.head[old][r] = v
    BY <2>2, <2>3, <2>d, OldVarHead
  <2> HIDE DEF o
  <2>5. v \in VarIds
    BY <2>c
  <2>6. Quiet(q, m)
    BY <2>a, <2>b, <2>c, <2>d, MarkedQuiet
  <2> HIDE DEF m
  <2>7. m \in PoolType /\ m.head = q.head
    BY <2>6 DEF Quiet
  <2>8. r \in Names => m.head[sc][r] = Nil
    BY <1>1, <1>3, <2>1, <2>a, <2>b, <2>c, <2>d, <2>7 DEF Grows
  <2>9. /\ Adds(m, e, sc) /\ But(m, e, Key(r))
        /\ \A s \in Frames \ {sc} : e.head[s] = m.head[s]
        /\ r \in Names => e.head[sc][r] = v
    BY <2>2, <2>c, <2>7, <2>8, EnterFacts, SMTT(30)
  <2> HIDE DEF e
  <2>10. e \in PoolType /\ Good(m, e, id, sc, {sc, old})
    BY <2>7, <2>9, AddsGood DEF Adds
  <2>11. Good(q, m, id, sc, {sc, old})
    BY <2>a, <2>b, <2>c, <2>d, <2>6, QuietGood
  <2>12. Good(p, q, id, sc, {sc, old})
    BY <1>1, <1>2, <2>a, <2>b, <2>c, <2>d, GoodTrans
  <2>13. Good(p, m, id, sc, {sc, old})
    BY <2>a, <2>b, <2>c, <2>d, <2>7, <2>11, <2>12, GoodTrans
  <2>14. Good(p, e, id, sc, {sc, old})
    BY <2>7, <2>10, <2>13, GoodTrans
  <2>15. But(p, e, Key(r))
    BY <1>1, <2>a, <2>b, <2>c, <2>d, <2>7, <2>9 DEF But
  <2>16. r \in Names => e.head[sc][r] = v /\ e.head[old][r] = v
    BY <2>a, <2>b, <2>c, <2>d, <2>7, <2>9
  <2>17. ASSUME Agree(p, sc, old)
         PROVE  Agree(e, sc, old) /\ (r \in Simple => e.head[sc][r] = e.head[old][r])
    <3>1. ASSUME NEW n \in Simple, n # Key(r)
          PROVE  e.head[sc][n] # Nil => e.head[old][n] = e.head[sc][n]
      BY <1>5, <2>15, <2>17, <3>1 DEF Agree, But
    <3>2. Key(r) \in Simple => r \in Names /\ r = Key(r)
      BY <1>5, KeyName DEF Key
    <3> QED BY <1>5, <2>16, <3>1, <3>2 DEF Agree
  <2>18. /\ Good(p, x, id, sc, {sc, old})
         /\ Agree(p, sc, old) =>
              Agree(x, sc, old) /\ (r \in Simple => x.head[sc][r] = x.head[old][r])
    BY <2>1, <2>14, <2>17
  <2> QED BY <2>18 DEF x
<1> QED BY <1>6, <1>7

-----------------------------------------------------------------------------
(* What every operation of the activation id with the scope sc does: it    *)
(* changes the heads of the scopes in S only, caches leaves for itself     *)
(* only, and leaves the caches of all activations coherent.                *)

Safe(p, q, id, sc, S) ==
    /\ q \in PoolType
    /\ \A s \in Frames \ S : q.head[s] = p.head[s]
    /\ \A n \in Names : q.cache[n].id \in {p.cache[n].id, id, NoCache}
    /\ \A i \in IdRange \ {NoCache}, s \in Frames :
          (i = id => s = sc) /\ CoherentIn(p, i, s) => CoherentIn(q, i, s)

LEMMA GoodSafe ==
    ASSUME NEW p \in PoolType, NEW q, NEW id, NEW sc, NEW S,
           Good(p, q, id, sc, S)
    PROVE  Safe(p, q, id, sc, S)
<1>1. q \in PoolType
  BY DEF Good
<1>2. ASSUME NEW s \in Frames \ S
      PROVE  q.head[s] = p.head[s]
  <2>1. \A n \in Names : q.head[s][n] = p.head[s][n]
    BY DEF Good, Grows
  <2> QED BY <1>1, <2>1 DEF PoolType
<1>3. \A n \in Names : q.cache[n].id \in {p.cache[n].id, id, NoCache}
  BY DEF Good, Caches
<1>4. \A i \in IdRange \ {NoCache}, s \in Frames :
         (i = id => s = sc) /\ CoherentIn(p, i, s) => CoherentIn(q, i, s)
  BY GoodCoherent
<1> QED BY <1>1, <1>2, <1>3, <1>4 DEF Safe

LEMMA SafeTrans ==
    ASSUME NEW p, NEW q, NEW r, NEW id, NEW sc, NEW S,
           Safe(p, q, id, sc, S), Safe(q, r, id, sc, S)
    PROVE  Safe(p, r, id, sc, S)
BY DEF Safe

\* Freeing the leaf of n is safe once n is no longer cached.
LEMMA ForgetSafe ==
    ASSUME NEW p \in PoolType, NEW q \in PoolType, NEW n \in Names,
           q.cache = p.cache, But(p, q, n), NEW id, NEW sc \in Frames,
           \A s \in Frames \ {sc} : q.head[s] = p.head[s]
    PROVE  Safe(p, Forget(q, n), id, sc, {sc})
<1> DEFINE z == Forget(q, n)
<1>1. /\ z \in PoolType /\ z.head = q.head /\ z.cache[n] = NoLeaf
      /\ \A m \in Names \ {n} : z.cache[m] = q.cache[m]
  BY CacheSet, ConstantTypes DEF Forget
<1> HIDE DEF z
<1>2. NoLeaf.id = NoCache
  BY DEF NoLeaf
<1>3. \A m \in Names : z.cache[m].id \in {p.cache[m].id, id, NoCache}
  BY <1>1, <1>2
<1>4. ASSUME NEW i \in IdRange \ {NoCache}, NEW s \in Frames, CoherentIn(p, i, s)
      PROVE  CoherentIn(z, i, s)
  BY <1>1, <1>2, <1>4 DEF CoherentIn, But
<1>5. Safe(p, z, id, sc, {sc})
  BY <1>1, <1>3, <1>4 DEF Safe
<1> QED BY <1>5 DEF z

LEMMA RemoveFacts ==
    ASSUME NEW p \in PoolType, NEW sc \in Frames, NEW n \in Names, NEW rx
    PROVE  /\ Remove(p, sc, n, rx) \in PoolType
           /\ Remove(p, sc, n, rx).cache = p.cache
           /\ But(p, Remove(p, sc, n, rx), n)
           /\ \A s \in Frames \ {sc} : Remove(p, sc, n, rx).head[s] = p.head[s]
<1> DEFINE h == SetHead(p, sc, n, Nil)
           q == Release(h, {p.head[sc][n]}, rx)
<1>1. Nil \in VarRefs
  BY DEF VarRefs
<1>2. h \in PoolType /\ h.cache = p.cache
  BY <1>1, HeadSet
<1>3. \A s \in Frames, m \in Names : s # sc \/ m # n => h.head[s][m] = p.head[s][m]
  BY <1>1, HeadSet
<1>4. \A s \in Frames \ {sc} : h.head[s] = p.head[s]
  BY <1>1, HeadSet
<1>5. Remove(p, sc, n, rx) = q
  BY DEF Remove
<1> HIDE DEF h
<1>6. Quiet(h, q)
  BY <1>2, ReleaseQuiet
<1> HIDE DEF q
<1> QED BY <1>2, <1>3, <1>4, <1>5, <1>6 DEF Quiet, But

LEMMA RemoveSafe ==
    ASSUME NEW p \in PoolType, NEW sc \in Frames, NEW n \in Names, NEW rx,
           NEW id
    PROVE  Safe(p, Forget(Remove(p, sc, n, rx), n), id, sc, {sc})
BY RemoveFacts, ForgetSafe

LEMMA QuietSafe ==
    ASSUME NEW p \in PoolType, NEW q, Quiet(p, q),
           NEW id, NEW sc \in Frames, NEW n \in Names
    PROVE  /\ Safe(p, q, id, sc, {sc})
           /\ Safe(p, Forget(q, n), id, sc, {sc})
<1>1. Good(p, q, id, sc, {sc})
  BY QuietGood
<1>2. q \in PoolType /\ q.cache = p.cache /\ q.head = p.head
  BY DEF Quiet
<1>3. But(p, q, n) /\ \A s \in Frames \ {sc} : q.head[s] = p.head[s]
  BY <1>2 DEF But
<1> QED BY <1>1, <1>2, <1>3, GoodSafe, ForgetSafe

\* The text a dropped variable is left with.
LEMMA NameTypes ==
    ASSUME NEW r \in Refs, NEW t \in Text
    PROVE  OwnName(r, t) \in Text /\ Written(r) \in Text
BY ConstantTypes, PoolConstants DEF OwnName, Written, Names, Refs, Compound

LEMMA DropSafe ==
    ASSUME NEW p \in PoolType, NEW id \in IdRange, NEW sc \in Frames,
           NEW r \in Refs, NEW rx
    PROVE  Safe(p, Drop(p, id, sc, r, rx), id, sc, {sc})
<1> DEFINE hit == r \in Names /\ Cached(p, id, r)
           f == Find(p, id, sc, sc, r)
           q == IF hit THEN p ELSE f.pool
           v == IF hit THEN p.cache[r].var ELSE f.var
           val == IF q.value[v] = Null THEN Null ELSE r
           d == Drop(p, id, sc, r, rx)
<1>1. Good(p, f.pool, id, sc, {sc})
  BY FindGood
<1>2. f.tail \in Text
  BY FindTypes
<1>3. Sigl \in Names
  BY PoolConstants DEF Names
<1>4. Quiet(p, p)
  BY DEF Quiet
<1>5. q \in PoolType /\ Safe(p, q, id, sc, {sc})
  BY <1>1, <1>3, <1>4, GoodSafe, QuietSafe DEF Good
<1>6. \/ r \notin Names /\ v = Nil /\ d = q
      \/ r \notin Names /\ d = Store(q, v, OwnName(r, f.tail))
      \/ r \in Names /\ d = Forget(q, r)
      \/ r \in Names /\ d = Forget(EmptyStem(Store(q, v, val), v, rx), r)
      \/ r \in Names /\ d = Forget(Remove(q, sc, r, rx), r)
  <2>1. CASE r \notin Names
    BY <2>1 DEF Drop
  <2>2. CASE r \in Names /\ v = Nil
    BY <2>2 DEF Drop
  <2>3. CASE r \in Names /\ v # Nil /\ q.mark[v] # NoProc
    BY <2>3 DEF Drop
  <2>4. CASE r \in Names /\ v # Nil /\ q.mark[v] = NoProc
    BY <2>4 DEF Drop
  <2> HIDE DEF f, q, v, val, d
  <2> QED BY <2>1, <2>2, <2>3, <2>4
<1> HIDE DEF f, q, v
<1>7. r \in Names => val \in Text
  BY ConstantTypes
<1> HIDE DEF val, d
<1>8. Safe(q, d, id, sc, {sc})
  <2>1. CASE d = q
    BY <1>3, <1>5, <2>1, QuietSafe DEF Quiet
  <2>2. CASE d = Store(q, v, OwnName(r, f.tail))
    BY <1>2, <1>3, <1>5, <2>2, StoreQuiet, NameTypes, QuietSafe
  <2>3. CASE r \in Names /\ d = Forget(q, r)
    <3>1. Quiet(q, q)
      BY <1>5 DEF Quiet
    <3> QED BY <1>5, <2>3, <3>1, QuietSafe
  <2>4. CASE r \in Names /\ d = Forget(EmptyStem(Store(q, v, val), v, rx), r)
    <3> DEFINE a == Store(q, v, val)
               b == EmptyStem(a, v, rx)
    <3>1. Quiet(q, a)
      BY <1>5, <1>7, <2>4, StoreQuiet
    <3> HIDE DEF a
    <3>2. Quiet(a, b)
      BY <3>1, EmptyStemQuiet DEF Quiet
    <3>3. d = Forget(b, r)
      BY <2>4 DEF a
    <3> HIDE DEF b
    <3>4. Quiet(q, b)
      BY <3>1, <3>2 DEF Quiet
    <3> QED BY <1>5, <2>4, <3>3, <3>4, QuietSafe
  <2>5. CASE r \in Names /\ d = Forget(Remove(q, sc, r, rx), r)
    BY <1>5, <2>5, RemoveSafe
  <2> QED BY <1>6, <2>1, <2>2, <2>3, <2>4, <2>5
<1>9. Safe(p, d, id, sc, {sc})
  BY <1>5, <1>8, SafeTrans
<1> QED BY <1>9 DEF d

LEMMA DropNameSafe ==
    ASSUME NEW p \in PoolType, NEW id \in IdRange, NEW sc \in Frames,
           NEW r \in Refs, NEW rx
    PROVE  Safe(p, DropName(p, sc, r, rx), id, sc, {sc})
<1> DEFINE f == FindName(p, sc, r)
           d == DropName(p, sc, r, rx)
<1>1. f.tail \in Text
  BY FindTypes DEF FindName
<1>2. Sigl \in Names /\ Quiet(p, p)
  BY PoolConstants DEF Names, Quiet
<1>3. \/ d = p
      \/ d = EmptyStem(Store(p, f.var, Written(r)), f.var, rx)
      \/ d = Store(p, f.var, OwnName(r, f.tail))
      \/ r \in Names /\ d = Forget(Remove(p, sc, r, rx), r)
  <2>1. CASE f.var = Nil
    BY <2>1 DEF DropName
  <2>2. CASE f.var # Nil /\ p.mark[f.var] # NoProc
    BY <2>2 DEF DropName
  <2>3. CASE f.var # Nil /\ p.mark[f.var] = NoProc /\ r \notin Names
    BY <2>3 DEF DropName
  <2>4. CASE f.var # Nil /\ p.mark[f.var] = NoProc /\ r \in Names
    BY <2>4 DEF DropName
  <2> HIDE DEF f, d
  <2> QED BY <2>1, <2>2, <2>3, <2>4
<1> HIDE DEF f, d
<1>4. CASE d = p
  BY <1>2, <1>4, QuietSafe DEF d
<1>5. CASE d = EmptyStem(Store(p, f.var, Written(r)), f.var, rx)
  <2> DEFINE a == Store(p, f.var, Written(r))
  <2>1. Quiet(p, a)
    BY <1>1, StoreQuiet, NameTypes
  <2> HIDE DEF a
  <2>2. d = EmptyStem(a, f.var, rx)
    BY <1>5 DEF a
  <2>3. Quiet(a, d)
    BY <2>1, <2>2, EmptyStemQuiet DEF Quiet
  <2>4. Quiet(p, d)
    BY <2>1, <2>3 DEF Quiet
  <2> QED BY <1>2, <2>4, QuietSafe DEF d
<1>6. CASE d = Store(p, f.var, OwnName(r, f.tail))
  BY <1>1, <1>2, <1>6, StoreQuiet, NameTypes, QuietSafe DEF d
<1>7. CASE r \in Names /\ d = Forget(Remove(p, sc, r, rx), r)
  BY <1>7, RemoveSafe DEF d
<1> QED BY <1>3, <1>4, <1>5, <1>6, <1>7 DEF d

-----------------------------------------------------------------------------
(* The inductive invariant: well-formed frames, and a pool that fits them. *)

Framed(pr, rx, cnt) ==
    /\ pr \in [Frames -> FrameType] /\ rx \in -1..MaxProc /\ cnt \in 0..(MaxId + 2)
    /\ \A f \in Frames \ 0..rx : pr[f] = NoFrame
    /\ \A f \in 0..rx : pr[f].calltype = "PROGRAM" <=> f = 0
    /\ \A f \in (0..rx) \ {0} : pr[f].scope \in {pr[f - 1].scope, f}
    /\ \A f, g \in 0..rx : pr[f].id = pr[g].id <=> pr[f].scope = pr[g].scope
    /\ \A f \in 0..rx : 1 <= pr[f].id /\ pr[f].id <= cnt /\ pr[f].scope <= f
    /\ \A f, g \in 0..rx :
          f <= g /\ (\A h \in (f + 1)..g : pr[h].calltype = "INTERPRET")
             => pr[f].scope = pr[g].scope

\* A scope that is not in use is empty, as RxScopeFree left it.
Sound(p, pr, rx, cnt) ==
    /\ p \in PoolType
    /\ \A n \in Names : p.cache[n].id <= cnt
    /\ \A f \in 0..rx : CoherentIn(p, pr[f].id, pr[f].scope)
    /\ \A s \in Frames : (\A f \in 0..rx : pr[f].scope # s) => p.head[s] = NoHeads

\* While a PROCEDURE still exposes names, its scope and its caller's agree on
\* the simple symbols exposed so far, so that the leaf of a (name) found in
\* the caller's scope can be cached for the routine.
Exposing(p, pr, rx) ==
    /\ rx > 0 /\ pr[rx].scope = rx
    /\ Agree(p, rx, pr[rx - 1].scope)
    /\ \A i \in 1..Len(pending) : pending[i].op # "drop"
    /\ \A i \in 1..Len(pending) : pending[i].op = "list" => pending[i].ref \in Simple

PendingOK ==
    /\ pending \in Seq([op : Ops, ref : Refs]) /\ closing \in BOOLEAN
    /\ pending # << >> =>
          /\ rx_proc >= 0 /\ ~closing
          /\ \/ \A i \in 1..Len(pending) : pending[i].op = "drop"
             \/ Exposing(pool, proc, rx_proc)

IInv ==
    /\ Framed(proc, rx_proc, procidcnt)
    /\ Sound(pool, proc, rx_proc, procidcnt)
    /\ PendingOK

LEMMA InvImplies == IInv => TypeOK /\ FramesOK /\ CacheCoherent
<1> SUFFICES ASSUME IInv PROVE TypeOK /\ FramesOK /\ CacheCoherent
  OBVIOUS
<1>1. TypeOK
  BY DEF IInv, Framed, Sound, PendingOK, TypeOK, Active
<1>2. FramesOK
  BY DEF IInv, Framed, Sound, FramesOK, Active
<1>3. CacheCoherent
  BY DEF IInv, Sound, CoherentIn, CacheCoherent, Active
<1> QED BY <1>1, <1>2, <1>3

LEMMA FrameArith ==
    /\ MaxProc \in Nat /\ MaxId \in Nat
    /\ \A rx \in -1..MaxProc : 0..rx \subseteq Frames /\ \A f \in 0..rx : f \in Int
BY PoolConstants DEF Frames

LEMMA FramedId ==
    ASSUME NEW pr, NEW rx, NEW cnt, Framed(pr, rx, cnt), NEW f \in 0..rx
    PROVE  /\ pr[f].id \in IdRange /\ pr[f].id # NoCache
           /\ pr[f].scope \in Frames /\ pr[f].r \in VarRefs /\ f \in Frames
<1>1. f \in Frames
  BY FrameArith DEF Framed
<1>2. pr[f] \in FrameType
  BY <1>1 DEF Framed
<1> QED BY <1>1, <1>2, PoolConstants DEF Framed, FrameType, IdRange, NoCache, VarRefs

LEMMA FramedFacts ==
    ASSUME NEW pr, NEW rx, NEW cnt, Framed(pr, rx, cnt)
    PROVE  /\ rx \in Int /\ rx >= -1 /\ rx <= MaxProc /\ cnt \in Int /\ cnt >= 0
           /\ \A f \in 0..rx :
                 /\ f \in Int /\ 0 <= f /\ f <= rx /\ f \in Frames
                 /\ pr[f].id \in Int /\ 1 <= pr[f].id /\ pr[f].id <= cnt
                 /\ pr[f].scope \in Int /\ pr[f].scope <= f
                 /\ pr[f].scope \in Frames /\ pr[f] \in FrameType
<1>1. rx \in Int /\ rx >= -1 /\ rx <= MaxProc /\ cnt \in Int /\ cnt >= 0
  BY PoolConstants DEF Framed
<1>2. \A f \in 0..rx : f \in Int /\ 0 <= f /\ f <= rx /\ f \in Frames
  BY <1>1, PoolConstants DEF Frames
<1>3. \A f \in 0..rx : pr[f] \in FrameType
  BY <1>2 DEF Framed
<1>4. \A f \in 0..rx : pr[f].id \in Int /\ pr[f].scope \in Int /\ pr[f].scope \in Frames
  BY <1>3, PoolConstants DEF FrameType, Frames
<1>5. \A f \in 0..rx : 1 <= pr[f].id /\ pr[f].id <= cnt /\ pr[f].scope <= f
  BY DEF Framed
<1> QED BY <1>1, <1>2, <1>3, <1>4, <1>5

\* A frame pushed as a copy of the running one.
LEMMA PushFramed ==
    ASSUME NEW pr, NEW rx, NEW cnt, Framed(pr, rx, cnt), rx >= 0, rx < MaxProc,
           NEW kind \in CallTypes \ {"PROGRAM"}, NEW slot \in VarRefs,
           NEW z, z = [pr EXCEPT ![rx + 1] =
                          [pr[rx] EXCEPT !.calltype = kind, !.r = slot]]
    PROVE  Framed(z, rx + 1, cnt)
<1> DEFINE new == [pr[rx] EXCEPT !.calltype = kind, !.r = slot]
<1>1. rx \in Int /\ MaxProc \in Int /\ rx + 1 \in Frames /\ rx \in Frames
  BY FrameArith DEF Framed, Frames
<1>2. pr[rx] \in FrameType
  BY <1>1 DEF Framed
<1>3. /\ new \in FrameType /\ new.calltype = kind
      /\ new.id = pr[rx].id /\ new.scope = pr[rx].scope
  BY <1>2 DEF FrameType, VarRefs
<1> HIDE DEF new
<1>4. z \in [Frames -> FrameType] /\ z[rx + 1] = new
      /\ \A f \in Frames \ {rx + 1} : z[f] = pr[f]
  BY <1>1, <1>3 DEF Framed, new
<1>5. 0..(rx + 1) = (0..rx) \cup {rx + 1}
  BY <1>1
<1>6. \A f \in 0..rx : z[f] = pr[f] /\ f \in Int /\ f # rx + 1 /\ f \in Frames
  BY <1>1, <1>4, FrameArith DEF Framed
<1>7. rx \in 0..rx
  BY <1>1
<1>8. \A f \in Frames \ 0..(rx + 1) : z[f] = NoFrame
  BY <1>1, <1>4, <1>5 DEF Framed
<1>9. \A f \in 0..(rx + 1) : z[f].calltype = "PROGRAM" <=> f = 0
  BY <1>1, <1>3, <1>4, <1>5, <1>6 DEF Framed
<1>10. \A f \in (0..(rx + 1)) \ {0} : z[f].scope \in {z[f - 1].scope, f}
  <2>1. (rx + 1) - 1 = rx
    BY <1>1
  <2>2. z[rx + 1].scope = z[(rx + 1) - 1].scope
    BY <1>3, <1>4, <1>6, <1>7, <2>1
  <2>3. \A f \in (0..rx) \ {0} : f - 1 \in 0..rx
    BY <1>1
  <2>4. \A f \in (0..rx) \ {0} : z[f].scope \in {z[f - 1].scope, f}
    BY <1>6, <2>3 DEF Framed
  <2> QED BY <1>5, <2>2, <2>4
<1>11. \A f, g \in 0..(rx + 1) : z[f].id = z[g].id <=> z[f].scope = z[g].scope
  BY <1>3, <1>4, <1>5, <1>6, <1>7 DEF Framed
<1>12. \A f \in 0..(rx + 1) : 1 <= z[f].id /\ z[f].id <= cnt /\ z[f].scope <= f
  <2>1. pr[rx].scope \in Int /\ pr[rx].scope <= rx
    BY <1>1, <1>2, <1>7 DEF Framed, FrameType, Frames
  <2> QED BY <1>1, <1>3, <1>4, <1>5, <1>6, <1>7, <2>1 DEF Framed
<1>13. ASSUME NEW f \in 0..(rx + 1), NEW g \in 0..(rx + 1), f <= g,
              \A h \in (f + 1)..g : z[h].calltype = "INTERPRET"
       PROVE  z[f].scope = z[g].scope
  <2>1. CASE g \in 0..rx
    <3>1. f \in 0..rx
      BY <1>1, <1>13, <2>1
    <3>2. \A h \in (f + 1)..g : h \in 0..rx
      BY <1>1, <2>1, <3>1
    <3>3. \A h \in (f + 1)..g : pr[h].calltype = "INTERPRET"
      BY <1>6, <1>13, <3>2
    <3> QED BY <1>6, <1>13, <2>1, <3>1, <3>3 DEF Framed
  <2>2. CASE g = rx + 1 /\ f \in 0..rx
    <3>1. \A h \in (f + 1)..rx : h \in 0..rx /\ h \in (f + 1)..g
      BY <1>1, <2>2
    <3>2. \A h \in (f + 1)..rx : pr[h].calltype = "INTERPRET"
      BY <1>6, <1>13, <3>1
    <3>3. f <= rx
      BY <1>1, <2>2
    <3>4. pr[f].scope = pr[rx].scope
      BY <1>7, <2>2, <3>2, <3>3 DEF Framed
    <3> QED BY <1>3, <1>4, <1>6, <2>2, <3>4
  <2> QED BY <1>5, <1>13, <2>1, <2>2
<1>14. rx + 1 \in -1..MaxProc /\ cnt \in 0..(MaxId + 2)
  BY <1>1 DEF Framed
<1> QED
  BY <1>4, <1>8, <1>9, <1>10, <1>11, <1>12, <1>13, <1>14 DEF Framed

\* A frame with a new id and a scope of its own.
LEMMA CallFramed ==
    ASSUME NEW pr, NEW rx, NEW cnt, Framed(pr, rx, cnt), rx >= 0, rx < MaxProc,
           cnt < MaxId + 2,
           NEW kind \in CallTypes \ {"PROGRAM", "INTERPRET"}, NEW slot \in VarRefs,
           NEW z, z = [pr EXCEPT ![rx + 1] = [calltype |-> kind, id |-> cnt + 1,
                                              scope |-> rx + 1, r |-> slot]]
    PROVE  Framed(z, rx + 1, cnt + 1)
<1> DEFINE new == [calltype |-> kind, id |-> cnt + 1, scope |-> rx + 1, r |-> slot]
<1>1. /\ rx \in Int /\ MaxProc \in Int /\ rx + 1 \in Frames /\ cnt \in Int
      /\ MaxId \in Int /\ cnt >= 0
  BY FrameArith DEF Framed, Frames
<1>2. new \in FrameType
  BY <1>1 DEF FrameType, VarRefs
<1>3. new.calltype = kind /\ new.id = cnt + 1 /\ new.scope = rx + 1
  OBVIOUS
<1> HIDE DEF new
<1>4. z \in [Frames -> FrameType] /\ z[rx + 1] = new
      /\ \A f \in Frames \ {rx + 1} : z[f] = pr[f]
  BY <1>1, <1>2 DEF Framed, new
<1>5. 0..(rx + 1) = (0..rx) \cup {rx + 1}
  BY <1>1
<1>a. \A f \in 0..rx : f \in Int /\ f # rx + 1 /\ f \in Frames
  BY <1>1, FramedFacts
<1>6. \A f \in 0..rx : z[f] = pr[f] /\ f \in Int /\ f # rx + 1 /\ f \in Frames
  BY <1>4, <1>a
<1>7. \A f \in 0..rx : /\ pr[f].id \in Int /\ pr[f].id <= cnt /\ 1 <= pr[f].id
                      /\ pr[f].scope \in Int /\ pr[f].scope <= f /\ f <= rx
  BY FramedFacts
<1>8. \A f \in Frames \ 0..(rx + 1) : z[f] = NoFrame
  BY <1>1, <1>4, <1>5 DEF Framed
<1>9. \A f \in 0..(rx + 1) : z[f].calltype = "PROGRAM" <=> f = 0
  BY <1>1, <1>3, <1>4, <1>5, <1>6 DEF Framed
<1>10. \A f \in (0..(rx + 1)) \ {0} : z[f].scope \in {z[f - 1].scope, f}
  <2>1. z[rx + 1].scope = rx + 1
    BY <1>3, <1>4
  <2>2. \A f \in (0..rx) \ {0} : f - 1 \in 0..rx
    BY <1>1
  <2>3. \A f \in (0..rx) \ {0} : z[f].scope \in {z[f - 1].scope, f}
    BY <1>6, <2>2 DEF Framed
  <2> QED BY <1>5, <2>1, <2>3
<1>11. \A f, g \in 0..(rx + 1) : z[f].id = z[g].id <=> z[f].scope = z[g].scope
  <2>1. \A f \in 0..rx : z[f].id # z[rx + 1].id /\ z[f].scope # z[rx + 1].scope
    BY <1>1, <1>3, <1>4, <1>6, <1>7
  <2>2. \A f, g \in 0..rx : z[f].id = z[g].id <=> z[f].scope = z[g].scope
    BY <1>6 DEF Framed
  <2> QED BY <1>5, <2>1, <2>2
<1>12. \A f \in 0..(rx + 1) : 1 <= z[f].id /\ z[f].id <= cnt + 1 /\ z[f].scope <= f
  BY <1>1, <1>3, <1>4, <1>5, <1>6, <1>7
<1>13. ASSUME NEW f \in 0..(rx + 1), NEW g \in 0..(rx + 1), f <= g,
              \A h \in (f + 1)..g : z[h].calltype = "INTERPRET"
       PROVE  z[f].scope = z[g].scope
  <2>1. CASE g \in 0..rx
    <3>1. f \in 0..rx
      BY <1>1, <1>13, <2>1
    <3>2. \A h \in (f + 1)..g : h \in 0..rx
      BY <1>1, <2>1, <3>1
    <3>3. \A h \in (f + 1)..g : pr[h].calltype = "INTERPRET"
      BY <1>6, <1>13, <3>2
    <3> QED BY <1>6, <1>13, <2>1, <3>1, <3>3 DEF Framed
  <2>2. ASSUME g = rx + 1, f \in 0..rx PROVE FALSE
    <3>1. rx + 1 \in (f + 1)..g
      BY <1>1, <2>2
    <3> QED BY <1>3, <1>4, <1>13, <3>1
  <2> QED BY <1>5, <1>13, <2>1, <2>2
<1>14. rx + 1 \in -1..MaxProc /\ cnt + 1 \in 0..(MaxId + 2)
  BY <1>1
<1> QED
  BY <1>4, <1>8, <1>9, <1>10, <1>11, <1>12, <1>13, <1>14 DEF Framed

\* The frames above k are popped.
LEMMA CutFramedBy ==
    ASSUME NEW pr, NEW rx, NEW cnt, Framed(pr, rx, cnt), NEW k \in -1..rx,
           NEW z \in [Frames -> FrameType],
           \A f \in 0..k : z[f] = pr[f],
           \A f \in Frames \ 0..k : z[f] = NoFrame
    PROVE  Framed(z, k, cnt)
<1>1. rx \in Int /\ k \in Int /\ k \in -1..MaxProc
  BY FramedFacts, PoolConstants
<1>2. \A f \in 0..k : f \in Int /\ f <= k /\ f \in 0..rx
  BY <1>1
<1>3. \A f \in 0..k : z[f].calltype = "PROGRAM" <=> f = 0
  BY <1>2 DEF Framed
<1>4. \A f \in (0..k) \ {0} : z[f].scope \in {z[f - 1].scope, f}
  <2>1. \A f \in (0..k) \ {0} : f - 1 \in 0..k
    BY <1>1
  <2> QED BY <1>2, <2>1 DEF Framed
<1>5. \A f, g \in 0..k : z[f].id = z[g].id <=> z[f].scope = z[g].scope
  BY <1>2 DEF Framed
<1>6. \A f \in 0..k : 1 <= z[f].id /\ z[f].id <= cnt /\ z[f].scope <= f
  BY <1>2 DEF Framed
<1>7. ASSUME NEW f \in 0..k, NEW g \in 0..k, f <= g,
             \A h \in (f + 1)..g : z[h].calltype = "INTERPRET"
      PROVE  z[f].scope = z[g].scope
  <2>1. \A h \in (f + 1)..g : h \in 0..k
    BY <1>1
  <2>2. \A h \in (f + 1)..g : pr[h].calltype = "INTERPRET"
    BY <1>7, <2>1
  <2> QED BY <1>2, <1>7, <2>2 DEF Framed
<1>8. cnt \in 0..(MaxId + 2)
  BY DEF Framed
<1> QED BY <1>1, <1>3, <1>4, <1>5, <1>6, <1>7, <1>8 DEF Framed

LEMMA CutFramed ==
    ASSUME NEW pr, NEW rx, NEW cnt, Framed(pr, rx, cnt), NEW k \in -1..rx,
           NEW z, z = [g \in Frames |-> IF g <= k THEN pr[g] ELSE NoFrame]
    PROVE  /\ Framed(z, k, cnt)
           /\ \A f \in 0..k : z[f] = pr[f] /\ f \in 0..rx
<1>1. rx \in Int /\ k \in Int
  BY FramedFacts
<1>2. NoFrame \in FrameType
  BY FrameArith, ConstantTypes DEF NoFrame, FrameType, CallTypes, Frames
<1>3. z \in [Frames -> FrameType]
  BY <1>2 DEF Framed
<1>4. \A f \in 0..k : f \in 0..rx /\ f <= k
  BY <1>1
<1>5. \A f \in 0..k : z[f] = pr[f]
  BY <1>4, FramedFacts
<1>6. \A f \in Frames \ 0..k : z[f] = NoFrame
  BY <1>1, PoolConstants DEF Frames
<1>7. Framed(z, k, cnt)
  BY <1>3, <1>5, <1>6, CutFramedBy
<1> QED BY <1>4, <1>5, <1>7

-----------------------------------------------------------------------------
(* The pool when frames come and go.                                       *)

Alike(pr, rx, pr2, rx2) ==
    /\ 0..rx2 \subseteq Frames
    /\ \A f \in 0..rx2 : \E g \in 0..rx :
          pr2[f].id = pr[g].id /\ pr2[f].scope = pr[g].scope
    /\ \A f \in 0..rx : \E g \in 0..rx2 : pr2[g].scope = pr[f].scope

UsedBy(S, pr, rx) == \A s \in S : \E f \in 0..rx : pr[f].scope = s

\* A step of the activation of frame k, after which the same scopes are used.
LEMMA KeepSound ==
    ASSUME NEW p, NEW pr, NEW rx, NEW cnt,
           Framed(pr, rx, cnt), Sound(p, pr, rx, cnt),
           NEW k \in 0..rx, NEW S, NEW q,
           Safe(p, q, pr[k].id, pr[k].scope, S),
           NEW pr2, NEW rx2, Alike(pr, rx, pr2, rx2), UsedBy(S, pr, rx)
    PROVE  Sound(q, pr2, rx2, cnt)
<1>1. pr[k].id \in Int /\ pr[k].id <= cnt /\ cnt \in Int /\ cnt >= 0
  BY FramedFacts
<1>2. q \in PoolType
  BY DEF Safe
<1>3. \A n \in Names : q.cache[n].id <= cnt
  BY <1>1 DEF Safe, Sound, NoCache
<1>4. ASSUME NEW f \in 0..rx2
      PROVE  CoherentIn(q, pr2[f].id, pr2[f].scope)
  <2>1. PICK g \in 0..rx : pr2[f].id = pr[g].id /\ pr2[f].scope = pr[g].scope
    BY DEF Alike
  <2>2. CoherentIn(p, pr[g].id, pr[g].scope)
    BY DEF Sound
  <2>3. pr[g].id = pr[k].id => pr[g].scope = pr[k].scope
    BY DEF Framed
  <2>4. pr[g].id \in IdRange \ {NoCache} /\ pr[g].scope \in Frames
    BY FramedId
  <2> QED BY <2>1, <2>2, <2>3, <2>4 DEF Safe
<1>5. ASSUME NEW s \in Frames, \A f \in 0..rx2 : pr2[f].scope # s
      PROVE  q.head[s] = NoHeads
  <2>1. \A f \in 0..rx : pr[f].scope # s
    BY <1>5 DEF Alike
  <2>2. s \notin S
    BY <2>1 DEF UsedBy
  <2> QED BY <2>1, <2>2 DEF Safe, Sound
<1> QED BY <1>2, <1>3, <1>4, <1>5 DEF Sound

\* A frame with a scope of its own starts with an empty one.
LEMMA CallSound ==
    ASSUME NEW p, NEW pr, NEW rx, NEW cnt,
           Framed(pr, rx, cnt), Sound(p, pr, rx, cnt), rx >= 0,
           NEW q, Safe(p, q, pr[rx].id, pr[rx].scope, {pr[rx].scope}),
           NEW z, \A f \in 0..rx : z[f] = pr[f],
           z[rx + 1].id = cnt + 1, z[rx + 1].scope = rx + 1, rx + 1 \in Frames
    PROVE  Sound(q, z, rx + 1, cnt + 1) /\ q.head[rx + 1] = NoHeads
<1>1. rx \in Int /\ rx \in 0..rx /\ cnt \in Int /\ cnt >= 0
  BY FrameArith DEF Framed
<1>2. \A f \in 0..rx : /\ pr[f].id \in Int /\ pr[f].id <= cnt
                      /\ pr[f].scope \in Frames /\ pr[f].scope \in Int
                      /\ pr[f].scope <= f /\ f <= rx /\ f \in Int
  BY FramedFacts
<1>3. 0..(rx + 1) = (0..rx) \cup {rx + 1}
  BY <1>1
<1>4. q \in PoolType
  BY DEF Safe
<1>5. \A n \in Names : q.cache[n].id <= cnt
  BY <1>1, <1>2 DEF Safe, Sound, NoCache
<1>6. \A n \in Names : q.cache[n].id \in Int
  BY <1>4, PoolConstants DEF PoolType, Leaves
<1>7. \A n \in Names : q.cache[n].id <= cnt + 1 /\ q.cache[n].id # cnt + 1
  BY <1>1, <1>5, <1>6
<1>8. CoherentIn(q, z[rx + 1].id, z[rx + 1].scope)
  BY <1>7 DEF CoherentIn
<1>9. ASSUME NEW f \in 0..rx
      PROVE  CoherentIn(q, z[f].id, z[f].scope)
  <2>1. CoherentIn(p, pr[f].id, pr[f].scope)
    BY DEF Sound
  <2>2. pr[f].id = pr[rx].id => pr[f].scope = pr[rx].scope
    BY <1>1 DEF Framed
  <2>3. pr[f].id \in IdRange \ {NoCache} /\ pr[f].scope \in Frames
    BY FramedId
  <2> QED BY <2>1, <2>2, <2>3 DEF Safe
<1>10. ASSUME NEW s \in Frames, \A f \in 0..rx : pr[f].scope # s
       PROVE  q.head[s] = NoHeads
  BY <1>1, <1>10 DEF Safe, Sound
<1>11. \A f \in 0..rx : pr[f].scope # rx + 1
  BY <1>1, <1>2
<1>12. q.head[rx + 1] = NoHeads
  BY <1>10, <1>11
<1>13. \A s \in Frames : (\A f \in 0..(rx + 1) : z[f].scope # s) => q.head[s] = NoHeads
  BY <1>3, <1>10
<1>14. \A f \in 0..(rx + 1) : CoherentIn(q, z[f].id, z[f].scope)
  BY <1>3, <1>8, <1>9
<1> QED BY <1>4, <1>7, <1>12, <1>13, <1>14 DEF Sound

LEMMA ScopeFreeFacts ==
    ASSUME NEW p \in PoolType, NEW sc \in Frames, NEW rx
    PROVE  /\ ScopeFree(p, sc, rx) \in PoolType
           /\ ScopeFree(p, sc, rx).cache = p.cache
           /\ ScopeFree(p, sc, rx).head[sc] = NoHeads
           /\ \A s \in Frames \ {sc} : ScopeFree(p, sc, rx).head[s] = p.head[s]
<1> DEFINE h == [p.head EXCEPT ![sc] = NoHeads]
           a == [p EXCEPT !.head = h]
           q == Release(a, HeadsOf(p, sc), rx)
<1>1. h \in [Frames -> [Names -> VarRefs]] /\ h[sc] = NoHeads
      /\ \A s \in Frames \ {sc} : h[s] = p.head[s]
  BY ConstantTypes DEF PoolType, VarRefs
<1>2. ScopeFree(p, sc, rx) = q
  BY DEF ScopeFree
<1> HIDE DEF h
<1>3. a \in PoolType /\ a.head = h /\ a.cache = p.cache
  BY <1>1 DEF PoolType, VarRefs
<1> HIDE DEF a
<1>4. Quiet(a, q)
  BY <1>3, ReleaseQuiet
<1> HIDE DEF q
<1> QED BY <1>1, <1>2, <1>3, <1>4 DEF Quiet

\* The frames above k are popped: k + 1, and INTERPRETs started from it.
LEMMA CutSound ==
    ASSUME NEW p, NEW pr, NEW rx, NEW cnt,
           Framed(pr, rx, cnt), Sound(p, pr, rx, cnt),
           NEW k \in -1..(rx - 1),
           \A h \in (k + 2)..rx : pr[h].calltype = "INTERPRET",
           NEW z, \A f \in 0..k : z[f] = pr[f],
           NEW q,
           \/ k >= 0 /\ pr[k + 1].scope = pr[k].scope /\ q = p
           \/ /\ k >= 0 => pr[k + 1].scope # pr[k].scope
              /\ q = ScopeFree(p, pr[k + 1].scope, k + 1)
    PROVE  Sound(q, z, k, cnt)
<1>1. rx \in Int /\ k \in Int /\ k < rx /\ k >= -1
  BY FrameArith DEF Framed
<1>2. k + 1 \in 0..rx /\ 0..k \subseteq 0..rx /\ \A f \in 0..k : f \in Int /\ f <= k
  BY <1>1
<1> DEFINE sc == pr[k + 1].scope
<1>3. sc \in Frames
  BY <1>2, FramedId
<1>4. \A h \in 0..rx : h \in 0..k \/ pr[h].scope = sc
  <2> SUFFICES ASSUME NEW h \in 0..rx, h \notin 0..k PROVE pr[h].scope = sc
    OBVIOUS
  <2>1. k + 1 <= h /\ ((k + 1) + 1)..h \subseteq (k + 2)..rx
    BY <1>1
  <2> QED BY <1>2, <2>1 DEF Framed
<1>5. p \in PoolType
  BY DEF Sound
<1>6. CASE k >= 0 /\ sc = pr[k].scope /\ q = p
  <2>1. k \in 0..k
    BY <1>1, <1>6
  <2>2. ASSUME NEW s \in Frames, \A f \in 0..k : z[f].scope # s
        PROVE  q.head[s] = NoHeads
    BY <1>4, <1>6, <2>1, <2>2 DEF Sound
  <2> HIDE DEF sc
  <2> QED BY <1>2, <1>6, <2>2 DEF Sound
<1>7. CASE (k >= 0 => sc # pr[k].scope) /\ q = ScopeFree(p, sc, k + 1)
  <2>1. /\ q \in PoolType /\ q.cache = p.cache /\ q.head[sc] = NoHeads
        /\ \A s \in Frames \ {sc} : q.head[s] = p.head[s]
    BY <1>3, <1>5, <1>7, ScopeFreeFacts
  <2>2. ASSUME NEW f \in 0..k PROVE pr[f].scope # sc
    <3>1. k >= 0 /\ k \in 0..k
      BY <1>1
    <3>2. k + 1 # 0 /\ (k + 1) - 1 = k
      BY <1>1, <3>1
    <3>3. sc \in {pr[k].scope, k + 1}
      BY <1>2, <3>2 DEF Framed
    <3>4. sc = k + 1
      BY <1>7, <3>1, <3>3
    <3>5. pr[f].scope \in Frames /\ pr[f].scope <= f
      BY <1>2, FramedId DEF Framed
    <3>6. pr[f].scope \in Int /\ f \in Int /\ f <= k
      BY <1>1, <3>5, PoolConstants DEF Frames
    <3> HIDE DEF sc
    <3> QED BY <1>1, <3>4, <3>5, <3>6
  <2> HIDE DEF sc
  <2>3. ASSUME NEW f \in 0..k
        PROVE  CoherentIn(q, z[f].id, z[f].scope)
    <3>1. CoherentIn(p, pr[f].id, pr[f].scope) /\ pr[f].scope \in Frames
      BY <1>2, FramedId DEF Sound
    <3>2. q.head[pr[f].scope] = p.head[pr[f].scope]
      BY <2>1, <2>2, <3>1
    <3> QED BY <2>1, <3>1, <3>2 DEF CoherentIn
  <2>4. ASSUME NEW s \in Frames, \A f \in 0..k : z[f].scope # s
        PROVE  q.head[s] = NoHeads
    <3>1. CASE s = sc
      BY <2>1, <3>1
    <3>2. CASE s # sc
      <4>1. \A h \in 0..rx : pr[h].scope # s
        BY <1>4, <2>4, <3>2
      <4> QED BY <2>1, <3>2, <4>1 DEF Sound
    <3> QED BY <3>1, <3>2
  <2>5. \A n \in Names : q.cache[n].id <= cnt
    BY <2>1 DEF Sound
  <2> QED BY <2>1, <2>3, <2>4, <2>5 DEF Sound
<1> QED BY <1>6, <1>7

-----------------------------------------------------------------------------
(* The steps of the interpreter.                                           *)

LEMMA FreshTypes == Room => Fresh \in VarIds \X VarIds \X VarIds
<1> SUFFICES ASSUME Room PROVE Fresh \in VarIds \X VarIds \X VarIds
  OBVIOUS
<1> DEFINE P(u) == u[1] # u[2] /\ u[1] # u[3] /\ u[2] # u[3]
<1>1. PICK u \in Free, v \in Free, w \in Free : u # v /\ u # w /\ v # w
  BY DEF Room
<1>2. <<u, v, w>> \in Free \X Free \X Free /\ P(<<u, v, w>>)
  BY <1>1
<1>3. Fresh = CHOOSE y \in Free \X Free \X Free : P(y)
  BY DEF Fresh
<1> HIDE DEF P
<1>4. Fresh \in Free \X Free \X Free
  BY <1>2, <1>3
<1> QED BY <1>4 DEF Free

\* The running activation.
LEMMA RunningFacts ==
    ASSUME IInv, rx_proc >= 0
    PROVE  /\ rx_proc \in 0..rx_proc /\ rx_proc \in Frames /\ rx_proc \in Int
           /\ pool \in PoolType
           /\ Id = proc[rx_proc].id /\ Scope = proc[rx_proc].scope
           /\ Id \in IdRange /\ Id # NoCache /\ Scope \in Frames
           /\ CoherentIn(pool, Id, Scope)
<1>1. rx_proc \in Int /\ rx_proc \in 0..rx_proc
  BY FramedFacts DEF IInv
<1>2. /\ Id \in IdRange /\ Id # NoCache /\ Scope \in Frames /\ rx_proc \in Frames
  BY <1>1, FramedId DEF IInv, Id, Scope
<1>3. pool \in PoolType /\ CoherentIn(pool, Id, Scope)
  BY <1>1 DEF IInv, Sound, Id, Scope
<1> QED BY <1>1, <1>2, <1>3 DEF Id, Scope

\* A step of the pool alone, in the scope of the frame k.
LEMMA PoolStep ==
    ASSUME IInv, UNCHANGED <<proc, rx_proc, procidcnt>>,
           NEW k \in 0..rx_proc, NEW S,
           Safe(pool, pool', proc[k].id, proc[k].scope, S),
           UsedBy(S, proc, rx_proc)
    PROVE  /\ Framed(proc', rx_proc', procidcnt')
           /\ Sound(pool', proc', rx_proc', procidcnt')
<1>1. Framed(proc, rx_proc, procidcnt) /\ Sound(pool, proc, rx_proc, procidcnt)
  BY DEF IInv
<1>2. Alike(proc, rx_proc, proc, rx_proc)
  BY <1>1, FramedFacts DEF Alike
<1>3. Sound(pool', proc, rx_proc, procidcnt)
  BY <1>1, <1>2, KeepSound
<1> QED BY <1>1, <1>3

LEMMA RunStep ==
    ASSUME IInv, UNCHANGED <<proc, rx_proc, procidcnt>>, rx_proc >= 0,
           Safe(pool, pool', Id, Scope, {Scope})
    PROVE  /\ Framed(proc', rx_proc', procidcnt')
           /\ Sound(pool', proc', rx_proc', procidcnt')
<1>1. rx_proc \in 0..rx_proc /\ Id = proc[rx_proc].id /\ Scope = proc[rx_proc].scope
  BY RunningFacts
<1>2. UsedBy({Scope}, proc, rx_proc)
  BY <1>1 DEF UsedBy
<1> QED BY <1>1, <1>2, PoolStep

\* Nothing is pending while the program runs.
LEMMA QuietPending ==
    ASSUME IInv, Running, UNCHANGED pending, closing' \in BOOLEAN
    PROVE  PendingOK'
BY DEF IInv, Running, PendingOK

LEMMA GoodStep ==
    ASSUME IInv, Running, UNCHANGED <<proc, rx_proc, procidcnt, pending, closing>>,
           Good(pool, pool', Id, Scope, {Scope})
    PROVE  IInv'
<1>1. Safe(pool, pool', Id, Scope, {Scope})
  BY GoodSafe DEF IInv, Sound
<1>2. rx_proc >= 0 /\ closing' \in BOOLEAN
  BY DEF Running, IInv, PendingOK
<1>3. Framed(proc', rx_proc', procidcnt') /\ Sound(pool', proc', rx_proc', procidcnt')
  BY <1>1, <1>2, RunStep
<1>4. PendingOK'
  BY <1>2, QuietPending
<1> QED BY <1>3, <1>4 DEF IInv

LEMMA LoadInv ==
    ASSUME IInv, NEW r \in Lits, Load(r)
    PROVE  IInv'
<1>1. Running /\ UNCHANGED <<proc, rx_proc, procidcnt, pending, closing>>
      /\ pool' = Find(pool, Id, Scope, Scope, r).pool
  BY DEF Load
<1>2. r \in Refs
  BY PoolConstants
<1>3. Good(pool, pool', Id, Scope, {Scope})
  BY <1>1, <1>2, RunningFacts, FindGood DEF Running
<1> QED BY <1>1, <1>3, GoodStep

LEMMA AssignInv ==
    ASSUME IInv, NEW r \in Lits, NEW val \in Data, Assign(r, val)
    PROVE  IInv'
<1> DEFINE c == Create(pool, Id, Scope, r, Fresh[1], Fresh[2])
           q == Store(c.pool, c.var, val)
           z == IF r \in Stems THEN ScopeAssign(q, c.var) ELSE q
<1>1. Running /\ UNCHANGED <<proc, rx_proc, procidcnt, pending, closing>>
      /\ pool' = z /\ Room
  BY DEF Assign
<1>2. r \in Refs /\ val \in Text /\ Fresh[1] \in VarIds /\ Fresh[2] \in VarIds
  BY <1>1, PoolConstants, FreshTypes
<1>3. /\ pool \in PoolType /\ Id \in IdRange /\ Id # NoCache /\ Scope \in Frames
      /\ CoherentIn(pool, Id, Scope)
  BY <1>1, RunningFacts DEF Running
<1>4. Good(pool, c.pool, Id, Scope, {Scope}) /\ c.var \in VarIds
  BY <1>2, <1>3, CreateGood
<1> HIDE DEF c
<1>5. c.pool \in PoolType
  BY <1>4 DEF Good
<1>6. Quiet(c.pool, q)
  BY <1>2, <1>5, StoreQuiet
<1> HIDE DEF q
<1>7. q \in PoolType
  BY <1>6 DEF Quiet
<1>8. Quiet(q, z)
  BY <1>4, <1>7, ScopeAssignQuiet DEF Quiet
<1> HIDE DEF z
<1>9. Quiet(c.pool, z) /\ z \in PoolType
  BY <1>6, <1>8 DEF Quiet
<1>10. Good(c.pool, z, Id, Scope, {Scope})
  BY <1>5, <1>9, QuietGood
<1>11. Good(pool, z, Id, Scope, {Scope})
  BY <1>3, <1>4, <1>5, <1>9, <1>10, GoodTrans
<1> QED BY <1>1, <1>11, GoodStep

LEMMA DropVarInv ==
    ASSUME IInv, NEW r \in Lits, DropVar(r)
    PROVE  IInv'
<1>1. Running /\ UNCHANGED <<proc, rx_proc, procidcnt, pending, closing>>
      /\ pool' = Drop(pool, Id, Scope, r, rx_proc)
  BY DEF DropVar
<1>2. r \in Refs
  BY PoolConstants
<1>3. Safe(pool, pool', Id, Scope, {Scope})
  BY <1>1, <1>2, RunningFacts, DropSafe DEF Running
<1>4. rx_proc >= 0 /\ closing' \in BOOLEAN
  BY <1>1 DEF Running, IInv, PendingOK
<1>5. Framed(proc', rx_proc', procidcnt') /\ Sound(pool', proc', rx_proc', procidcnt')
  BY <1>1, <1>3, <1>4, RunStep
<1>6. PendingOK'
  BY <1>1, <1>4, QuietPending
<1> QED BY <1>5, <1>6 DEF IInv

LEMMA SignalInv ==
    ASSUME IInv, NEW line \in Data, Signal(line)
    PROVE  IInv'
<1>1. Running /\ UNCHANGED <<proc, rx_proc, procidcnt, pending, closing>> /\ Room
      /\ pool' = VarSet(pool, Id, Scope, Sigl, line, Fresh[1])
  BY DEF Signal
<1>2. Sigl \in Names /\ line \in Text /\ Fresh[1] \in VarIds
  BY <1>1, PoolConstants, FreshTypes DEF Names
<1>3. Good(pool, pool', Id, Scope, {Scope})
  BY <1>1, <1>2, RunningFacts, VarSetGood DEF Running
<1> QED BY <1>1, <1>3, GoodStep

LEMMA PoolSetInv ==
    ASSUME IInv, NEW k \in 0..rx_proc, NEW r \in PoolNames, NEW val \in Data,
           PoolSet(k, r, val)
    PROVE  IInv'
<1> DEFINE sc == proc[k].scope
           f == FindName(pool, sc, r)
           v == IF f.var = Nil THEN Fresh[1] ELSE f.var
           q == IF f.var = Nil
                THEN Add(pool, sc, r, f.stem, f.tail, Fresh[1], Fresh[2])
                ELSE pool
           z == Store(q, v, val)
<1>1. Running /\ UNCHANGED <<proc, rx_proc, procidcnt, pending, closing>> /\ Room
      /\ pool' = z
  BY DEF PoolSet
<1>2. r \in Refs /\ val \in Text /\ Fresh[1] \in VarIds /\ Fresh[2] \in VarIds
  BY <1>1, PoolConstants, FreshTypes
<1>3. sc \in Frames /\ pool \in PoolType
  BY FramedId DEF IInv, Sound
<1>4. f.stem \in VarRefs /\ f.tail \in Text
  BY <1>2, <1>3, FindTypes DEF FindName
<1>5. r \in Names => f.var = pool.head[sc][r]
  BY DEF FindName, Find
<1>6. r \notin Names => f.stem = pool.head[sc][r[1]]
  BY <1>2, <1>3, FindStem DEF FindName
<1> HIDE DEF f
<1>7. ASSUME f.var = Nil PROVE Good(pool, z, proc[k].id, sc, {sc})
  <2>1. q = Add(pool, sc, r, f.stem, f.tail, Fresh[1], Fresh[2])
    BY <1>7
  <2>2. Adds(pool, q, sc)
    BY <1>2, <1>3, <1>4, <1>5, <1>6, <1>7, <2>1, AddAdds
  <2> HIDE DEF q
  <2>3. q \in PoolType /\ Good(pool, q, proc[k].id, sc, {sc})
    BY <1>3, <2>2, AddsGood DEF Adds
  <2>4. Quiet(q, z)
    BY <1>2, <2>3, StoreQuiet
  <2> HIDE DEF z
  <2>5. z \in PoolType /\ Good(q, z, proc[k].id, sc, {sc})
    BY <2>3, <2>4, QuietGood DEF Quiet
  <2> QED BY <1>3, <2>3, <2>5, GoodTrans
<1>8. ASSUME f.var # Nil PROVE Good(pool, z, proc[k].id, sc, {sc})
  <2>1. q = pool
    BY <1>8
  <2>2. Quiet(pool, z)
    BY <1>2, <1>3, <2>1, StoreQuiet
  <2> HIDE DEF z
  <2> QED BY <1>3, <2>2, QuietGood
<1>9. Safe(pool, pool', proc[k].id, proc[k].scope, {sc})
  <2>1. Good(pool, z, proc[k].id, sc, {sc})
    BY <1>7, <1>8
  <2> QED BY <1>1, <1>3, <2>1, GoodSafe
<1>10. UsedBy({sc}, proc, rx_proc)
  BY DEF UsedBy
<1>11. Framed(proc', rx_proc', procidcnt') /\ Sound(pool', proc', rx_proc', procidcnt')
  <2> HIDE DEF sc
  <2> QED BY <1>1, <1>9, <1>10, PoolStep
<1>12. closing' \in BOOLEAN
  BY <1>1 DEF IInv, PendingOK
<1>13. PendingOK'
  BY <1>1, <1>12, QuietPending
<1> QED BY <1>11, <1>13 DEF IInv

\* A frame pushed as a copy of the running one, after a step of the latter.
LEMMA PushInv ==
    ASSUME IInv, Running, UNCHANGED <<procidcnt, pending, closing>>,
           NEW kind \in CallTypes \ {"PROGRAM"}, NEW slot \in VarRefs,
           Push(kind, slot), Good(pool, pool', Id, Scope, {Scope})
    PROVE  IInv'
<1>1. /\ rx_proc' = rx_proc + 1 /\ rx_proc < MaxProc /\ rx_proc >= 0
      /\ proc' = [proc EXCEPT ![rx_proc + 1] =
                     [proc[rx_proc] EXCEPT !.calltype = kind, !.r = slot]]
  BY DEF Push, Running
<1>2. Framed(proc, rx_proc, procidcnt) /\ Sound(pool, proc, rx_proc, procidcnt)
  BY DEF IInv
<1>3. Framed(proc', rx_proc', procidcnt')
  BY <1>1, <1>2, PushFramed
<1>4. Safe(pool, pool', Id, Scope, {Scope})
  BY <1>1, RunningFacts, GoodSafe
<1>5. /\ rx_proc \in 0..rx_proc /\ rx_proc \in Int /\ rx_proc \in Frames
      /\ Id = proc[rx_proc].id /\ Scope = proc[rx_proc].scope
  BY <1>1, RunningFacts
<1>6. 0..rx_proc' = (0..rx_proc) \cup {rx_proc + 1} /\ 0..rx_proc' \subseteq Frames
  BY <1>1, <1>3, <1>5, FramedFacts
<1>7. proc'[rx_proc + 1].id = proc[rx_proc].id
      /\ proc'[rx_proc + 1].scope = proc[rx_proc].scope
      /\ \A f \in 0..rx_proc : proc'[f] = proc[f]
  <2>1. rx_proc + 1 \in Frames /\ \A f \in 0..rx_proc : f # rx_proc + 1 /\ f \in Frames
    BY <1>1, <1>2, <1>5, <1>6, FramedFacts
  <2>2. proc \in [Frames -> FrameType] /\ proc[rx_proc] \in FrameType
    BY <1>2, <1>5 DEF Framed
  <2> QED BY <1>1, <2>1, <2>2 DEF FrameType
<1>8. \A f \in 0..rx_proc' : \E g \in 0..rx_proc :
         proc'[f].id = proc[g].id /\ proc'[f].scope = proc[g].scope
  BY <1>5, <1>6, <1>7
<1>9. \A f \in 0..rx_proc : \E g \in 0..rx_proc' : proc'[g].scope = proc[f].scope
  BY <1>6, <1>7
<1>10. \A s \in {Scope} : \E f \in 0..rx_proc : proc[f].scope = s
  BY <1>5
<1>a. Safe(pool, pool', proc[rx_proc].id, proc[rx_proc].scope, {Scope})
  BY <1>4, <1>5
<1>b. Alike(proc, rx_proc, proc', rx_proc') /\ UsedBy({Scope}, proc, rx_proc)
  BY <1>6, <1>8, <1>9, <1>10 DEF Alike, UsedBy
<1>11. Sound(pool', proc', rx_proc', procidcnt)
  BY <1>2, <1>5, <1>a, <1>b, KeepSound
<1>12. PendingOK'
  BY QuietPending DEF IInv, PendingOK
<1> QED BY <1>3, <1>11, <1>12 DEF IInv

\* What the caller does before the routine starts.
LEMMA CallerGood ==
    ASSUME IInv, Running, Room, NEW target \in Targets \cup {Nil},
           NEW line \in Data,
           NEW c, c = Created(target)
    PROVE  /\ c.var \in VarRefs
           /\ Good(pool, VarSet(c.pool, Id, Scope, Sigl, line, Fresh[3]),
                   Id, Scope, {Scope})
<1>1. /\ pool \in PoolType /\ Id \in IdRange /\ Id # NoCache /\ Scope \in Frames
      /\ CoherentIn(pool, Id, Scope)
  BY RunningFacts DEF Running
<1>2. /\ line \in Text /\ Sigl \in Names /\ (target # Nil => target \in Refs)
      /\ Fresh[1] \in VarIds /\ Fresh[2] \in VarIds /\ Fresh[3] \in VarIds
  BY PoolConstants, FreshTypes DEF Names
<1>3. Good(pool, c.pool, Id, Scope, {Scope}) /\ c.var \in VarRefs
  <2>1. CASE target # Nil
    <3>1. c = Create(pool, Id, Scope, target, Fresh[1], Fresh[2])
      BY <2>1 DEF Created
    <3> QED BY <1>1, <1>2, <2>1, <3>1, CreateGood DEF VarRefs
  <2>2. CASE target = Nil
    <3>1. c.pool = pool /\ c.var = Nil
      BY <2>2 DEF Created
    <3> QED BY <1>1, <3>1, QuietGood DEF Quiet, VarRefs
  <2> QED BY <2>1, <2>2
<1>4. c.pool \in PoolType
  BY <1>3 DEF Good
<1>5. CoherentIn(c.pool, Id, Scope)
  BY <1>1, <1>3, GoodCoherent
<1> DEFINE z == VarSet(c.pool, Id, Scope, Sigl, line, Fresh[3])
<1>6. Good(c.pool, z, Id, Scope, {Scope})
  BY <1>1, <1>2, <1>4, <1>5, VarSetGood
<1> HIDE DEF z
<1>7. z \in PoolType
  BY <1>6 DEF Good
<1>8. Good(pool, z, Id, Scope, {Scope})
  BY <1>1, <1>3, <1>4, <1>6, <1>7, GoodTrans
<1> QED BY <1>3, <1>8 DEF z

LEMMA CallSharedInv ==
    ASSUME IInv, NEW kind \in {"FUNCTION", "PROCEDURE"},
           NEW target \in Targets \cup {Nil}, NEW line \in Data,
           CallShared(kind, target, line)
    PROVE  IInv'
<1> DEFINE c == Created(target)
<1>1. /\ Running /\ Room /\ UNCHANGED <<procidcnt, pending, closing>>
      /\ Push(kind, c.var)
      /\ pool' = VarSet(c.pool, Id, Scope, Sigl, line, Fresh[3])
  BY DEF CallShared
<1>2. c.var \in VarRefs
      /\ Good(pool, VarSet(c.pool, Id, Scope, Sigl, line, Fresh[3]), Id, Scope, {Scope})
  BY <1>1, CallerGood
<1>3. kind \in CallTypes \ {"PROGRAM"}
  BY DEF CallTypes
<1> HIDE DEF c
<1> QED BY <1>1, <1>2, <1>3, PushInv

LEMMA InterpretInv ==
    ASSUME IInv, Interpret
    PROVE  IInv'
<1>1. Running /\ Push("INTERPRET", Nil) /\ UNCHANGED <<pool, procidcnt, pending, closing>>
  BY DEF Interpret
<1>2. Good(pool, pool', Id, Scope, {Scope})
  BY <1>1, RunningFacts, QuietGood DEF Running, Quiet
<1>3. "INTERPRET" \in CallTypes \ {"PROGRAM"} /\ Nil \in VarRefs
  BY DEF CallTypes, VarRefs
<1> QED BY <1>1, <1>2, <1>3, PushInv

LEMMA DropListInv ==
    ASSUME IInv, NEW ws \in DropLists, DropList(ws)
    PROVE  IInv'
<1>1. /\ Running /\ UNCHANGED <<pool, proc, rx_proc, procidcnt, closing>>
      /\ pending' = [i \in 1..Len(ws) |-> [op |-> "drop", ref |-> ws[i]]]
  BY DEF DropList
<1>2. ws \in Seq(Refs)
  BY PoolConstants
<1>3. pending' \in Seq([op : Ops, ref : Refs]) /\ Len(pending') = Len(ws)
  BY <1>1, <1>2 DEF Ops
<1>4. \A i \in 1..Len(pending') : pending'[i].op = "drop"
  BY <1>1, <1>2, <1>3
<1>5. rx_proc >= 0 /\ ~closing /\ closing \in BOOLEAN
  BY <1>1 DEF Running, IInv, PendingOK
<1>6. PendingOK'
  BY <1>1, <1>3, <1>4, <1>5 DEF PendingOK
<1> QED BY <1>1, <1>6 DEF IInv

\* The rest of a list.
LEMMA TailFacts ==
    ASSUME PendingOK, pending # << >>
    PROVE  /\ Tail(pending) \in Seq([op : Ops, ref : Refs])
           /\ Head(pending) = pending[1] /\ 1 \in 1..Len(pending)
           /\ Head(pending).op \in Ops /\ Head(pending).ref \in Refs
           /\ \A i \in 1..Len(Tail(pending)) :
                 i + 1 \in 1..Len(pending) /\ Tail(pending)[i] = pending[i + 1]
<1> DEFINE T == [op : Ops, ref : Refs]
<1>1. pending \in Seq(T)
  BY DEF PendingOK
<1>2. \A e \in T : e.op \in Ops /\ e.ref \in Refs
  OBVIOUS
<1> HIDE DEF T
<1>3. /\ Tail(pending) \in Seq(T) /\ Head(pending) = pending[1]
      /\ 1 \in 1..Len(pending) /\ Head(pending) \in T
  BY <1>1
<1>4. \A i \in 1..Len(Tail(pending)) :
         i + 1 \in 1..Len(pending) /\ Tail(pending)[i] = pending[i + 1]
  BY <1>1
<1> QED BY <1>2, <1>3, <1>4 DEF T

LEMMA DropNextInv ==
    ASSUME IInv, DropNext
    PROVE  IInv'
<1>1. /\ pending # << >> /\ Head(pending).op = "drop" /\ pending' = Tail(pending)
      /\ UNCHANGED <<proc, rx_proc, procidcnt, closing>>
      /\ pool' = DropName(pool, Scope, Head(pending).ref, rx_proc)
  BY DEF DropNext
<1>2. rx_proc >= 0 /\ ~closing /\ closing \in BOOLEAN /\ PendingOK
  BY <1>1 DEF IInv, PendingOK
<1>3. Head(pending).ref \in Refs
  BY <1>1, <1>2, TailFacts
<1>4. Safe(pool, pool', Id, Scope, {Scope})
  BY <1>1, <1>2, <1>3, RunningFacts, DropNameSafe
<1>5. Framed(proc', rx_proc', procidcnt') /\ Sound(pool', proc', rx_proc', procidcnt')
  BY <1>1, <1>2, <1>4, RunStep
<1>6. \A i \in 1..Len(pending) : pending[i].op = "drop"
  BY <1>1, <1>2, TailFacts DEF PendingOK, Exposing
<1>7. pending' \in Seq([op : Ops, ref : Refs])
      /\ \A i \in 1..Len(pending') : pending'[i].op = "drop"
  BY <1>1, <1>2, <1>6, TailFacts
<1>8. PendingOK'
  BY <1>1, <1>2, <1>7 DEF PendingOK
<1> QED BY <1>5, <1>8 DEF IInv

\* A parenthesised name of PROCEDURE EXPOSE (name) is a simple symbol.
ListsSimple ==
    \A list \in ExposeLists : \A i \in 1..Len(list) :
        list[i].op = "list" => list[i].ref \in Simple

LEMMA CallProcedureInv ==
    ASSUME ListsSimple, IInv, NEW kind \in {"FUNCTION", "PROCEDURE"},
           NEW target \in Targets \cup {Nil}, NEW line \in Data,
           NEW list \in ExposeLists,
           CallProcedure(kind, target, line, list)
    PROVE  IInv'
<1> DEFINE c == Created(target)
<1>1. /\ Running /\ Room /\ rx_proc < MaxProc /\ procidcnt < MaxId + 2
      /\ pool' = VarSet(c.pool, Id, Scope, Sigl, line, Fresh[3])
      /\ proc' = [proc EXCEPT ![rx_proc + 1] = NewFrame(kind, c.var)]
      /\ rx_proc' = rx_proc + 1 /\ procidcnt' = procidcnt + 1
      /\ pending' = list /\ closing' = closing
  BY DEF CallProcedure
<1>2. c.var \in VarRefs /\ Good(pool, pool', Id, Scope, {Scope})
  BY <1>1, CallerGood
<1> HIDE DEF c
<1>3. /\ rx_proc \in 0..rx_proc /\ rx_proc \in Int /\ rx_proc >= 0
      /\ Id = proc[rx_proc].id /\ Scope = proc[rx_proc].scope /\ pool \in PoolType
  BY <1>1, RunningFacts DEF Running
<1>4. Framed(proc, rx_proc, procidcnt) /\ Sound(pool, proc, rx_proc, procidcnt)
      /\ closing \in BOOLEAN /\ ~closing
  BY <1>1 DEF IInv, PendingOK, Running
<1>5. kind \in CallTypes \ {"PROGRAM", "INTERPRET"}
  BY DEF CallTypes
<1>6. NewFrame(kind, c.var) = [calltype |-> kind, id |-> procidcnt + 1,
                               scope |-> rx_proc + 1, r |-> c.var]
  BY DEF NewFrame
<1>7. Framed(proc', rx_proc + 1, procidcnt + 1)
  BY <1>1, <1>2, <1>3, <1>4, <1>5, <1>6, CallFramed
<1>8. /\ rx_proc + 1 \in Frames /\ proc \in [Frames -> FrameType]
      /\ \A f \in 0..rx_proc : f \in Frames /\ f # rx_proc + 1
  <2>1. rx_proc + 1 \in Frames
    BY <1>1, <1>3, PoolConstants DEF Frames
  <2>2. proc \in [Frames -> FrameType]
    BY <1>4 DEF Framed
  <2>3. \A f \in 0..rx_proc : f \in Frames /\ f \in Int /\ f <= rx_proc
    BY <1>4, FramedFacts
  <2> QED BY <1>3, <2>1, <2>2, <2>3
<1>9. /\ proc'[rx_proc + 1].id = procidcnt + 1
      /\ proc'[rx_proc + 1].scope = rx_proc + 1
      /\ \A f \in 0..rx_proc : proc'[f] = proc[f]
  BY <1>1, <1>6, <1>8
<1>10. Safe(pool, pool', proc[rx_proc].id, proc[rx_proc].scope, {proc[rx_proc].scope})
  BY <1>2, <1>3, GoodSafe
<1>11. Sound(pool', proc', rx_proc + 1, procidcnt + 1) /\ pool'.head[rx_proc + 1] = NoHeads
  <2>1. rx_proc >= 0 /\ rx_proc + 1 \in Frames
    BY <1>3, <1>8
  <2> QED BY <1>4, <1>9, <1>10, <2>1, CallSound
<1>12. /\ list \in Seq([op : {"expose", "list"}, ref : Refs])
       /\ \A i \in 1..Len(list) : list[i].op = "list" => list[i].ref \in Simple
  BY PoolConstants DEF ListsSimple
<1>13. /\ list \in Seq([op : Ops, ref : Refs])
       /\ \A i \in 1..Len(list) : list[i].op # "drop"
  <2> DEFINE A == [op : {"expose", "list"}, ref : Refs]
             B == [op : Ops, ref : Refs]
  <2>1. \A e \in A : e \in B /\ e.op # "drop"
    BY DEF Ops
  <2> HIDE DEF A, B
  <2>2. list \in Seq(A)
    BY <1>12 DEF A
  <2>3. \A i \in 1..Len(list) : list[i] \in A
    BY <2>2
  <2>4. list \in Seq(B)
    BY <2>1, <2>2, <2>3
  <2> QED BY <2>1, <2>3, <2>4 DEF B
<1>14. Agree(pool', rx_proc + 1, proc'[(rx_proc + 1) - 1].scope)
  BY <1>11 DEF Agree, NoHeads, Names
<1>15. PendingOK'
  BY <1>1, <1>3, <1>4, <1>9, <1>12, <1>13, <1>14 DEF PendingOK, Exposing
<1> QED BY <1>1, <1>7, <1>11, <1>15 DEF IInv

\* The routine that is exposing names, and its caller.
LEMMA ExposingFacts ==
    ASSUME IInv, pending # << >>, Head(pending).op # "drop"
    PROVE  /\ Exposing(pool, proc, rx_proc) /\ rx_proc > 0
           /\ Scope = rx_proc /\ Scope # proc[rx_proc - 1].scope
           /\ proc[rx_proc - 1].scope \in Frames
           /\ UsedBy({Scope, proc[rx_proc - 1].scope}, proc, rx_proc)
           /\ Agree(pool, Scope, proc[rx_proc - 1].scope)
           /\ ~closing /\ closing \in BOOLEAN
<1>1. PendingOK /\ Framed(proc, rx_proc, procidcnt)
  BY DEF IInv
<1>2. Head(pending) = pending[1] /\ 1 \in 1..Len(pending)
  BY <1>1, TailFacts
<1>3. Exposing(pool, proc, rx_proc) /\ ~closing /\ closing \in BOOLEAN
  BY <1>1, <1>2 DEF PendingOK
<1>4. rx_proc \in Int /\ rx_proc > 0
  BY <1>1, <1>3, FramedFacts DEF Exposing
<1>5. rx_proc \in 0..rx_proc /\ rx_proc - 1 \in 0..rx_proc
  BY <1>4
<1>6. proc[rx_proc - 1].scope \in Frames /\ proc[rx_proc - 1].scope <= rx_proc - 1
      /\ proc[rx_proc - 1].scope \in Int
  BY <1>1, <1>5, FramedFacts
<1>7. Scope = rx_proc
  BY <1>3 DEF Exposing, Scope
<1>8. UsedBy({Scope, proc[rx_proc - 1].scope}, proc, rx_proc)
  BY <1>5 DEF UsedBy, Scope
<1> QED BY <1>3, <1>4, <1>6, <1>7, <1>8 DEF Exposing

\* The pool after one name has been exposed.
LEMMA ExposedStep ==
    ASSUME IInv, pending # << >>, Head(pending).op # "drop", Room,
           NEW r \in Refs,
           NEW q, q = Expose(pool, Id, Scope, proc[rx_proc - 1].scope, r, rx_proc, Fresh)
    PROVE  /\ q \in PoolType
           /\ Good(pool, q, Id, Scope, {Scope, proc[rx_proc - 1].scope})
           /\ Agree(q, Scope, proc[rx_proc - 1].scope)
           /\ r \in Simple => q.head[Scope][r] = q.head[proc[rx_proc - 1].scope][r]
<1> DEFINE old == proc[rx_proc - 1].scope
           new == Fresh
<1>1. /\ rx_proc > 0 /\ Scope # old /\ old \in Frames /\ Agree(pool, Scope, old)
  BY ExposingFacts
<1>2. rx_proc >= 0
  BY <1>1, FramedFacts DEF IInv
<1>3. pool \in PoolType /\ Id \in IdRange /\ Scope \in Frames /\ rx_proc \in Frames
  BY <1>2, RunningFacts
<1>4. new \in VarIds \X VarIds \X VarIds
  BY FreshTypes
<1>5. q = Expose(pool, Id, Scope, old, r, rx_proc, new)
  OBVIOUS
<1> HIDE DEF old, new
<1>6. /\ Good(pool, q, Id, Scope, {Scope, old}) /\ Agree(q, Scope, old)
      /\ r \in Simple => q.head[Scope][r] = q.head[old][r]
  BY <1>1, <1>3, <1>4, <1>5, ExposeFacts
<1>7. q \in PoolType
  BY <1>6 DEF Good
<1> QED BY <1>6, <1>7 DEF old

LEMMA ExposeNextInv ==
    ASSUME IInv, ExposeNext
    PROVE  IInv'
<1> DEFINE r == Head(pending).ref
           old == proc[rx_proc - 1].scope
           q == Expose(pool, Id, Scope, old, r, rx_proc, Fresh)
<1>1. /\ pending # << >> /\ Head(pending).op # "drop" /\ Room
      /\ pool' = pool \/ pool' = q
      /\ pending' = Tail(pending) /\ UNCHANGED <<proc, rx_proc, procidcnt, closing>>
  BY DEF ExposeNext
<1>2. PendingOK /\ pool \in PoolType
  BY DEF IInv, Sound
<1>3. r \in Refs
  BY <1>1, <1>2, TailFacts
<1>4. /\ Exposing(pool, proc, rx_proc) /\ rx_proc > 0 /\ Scope = rx_proc
      /\ UsedBy({Scope, old}, proc, rx_proc) /\ Agree(pool, Scope, old)
      /\ ~closing /\ closing \in BOOLEAN
  BY <1>1, ExposingFacts
<1>5. Good(pool, q, Id, Scope, {Scope, old}) /\ Agree(q, Scope, old)
  BY <1>1, <1>3, ExposedStep
<1> HIDE DEF q, old
<1>6. Good(pool, pool', Id, Scope, {Scope, old}) /\ Agree(pool', Scope, old)
  BY <1>1, <1>2, <1>4, <1>5, QuietGood DEF Quiet
<1>7. /\ rx_proc \in 0..rx_proc /\ rx_proc >= 0
      /\ Id = proc[rx_proc].id /\ Scope = proc[rx_proc].scope
  BY <1>4, RunningFacts, FramedFacts DEF IInv
<1>8. Safe(pool, pool', proc[rx_proc].id, proc[rx_proc].scope, {Scope, old})
  BY <1>2, <1>6, <1>7, GoodSafe
<1>9. Framed(proc', rx_proc', procidcnt') /\ Sound(pool', proc', rx_proc', procidcnt')
  BY <1>1, <1>4, <1>7, <1>8, PoolStep
<1>10. \A i \in 1..Len(pending') : /\ i + 1 \in 1..Len(pending)
                                   /\ pending'[i] = pending[i + 1]
  BY <1>1, <1>2, TailFacts
<1>11. pending' \in Seq([op : Ops, ref : Refs])
  BY <1>1, <1>2, TailFacts
<1>12. Exposing(pool, proc, rx_proc)'
  BY <1>1, <1>4, <1>6, <1>10 DEF Exposing, old
<1>13. PendingOK'
  BY <1>1, <1>4, <1>7, <1>11, <1>12 DEF PendingOK
<1> QED BY <1>9, <1>13 DEF IInv

LEMMA ExposeIndirectInv ==
    ASSUME IInv, ExposeIndirect
    PROVE  IInv'
<1> DEFINE r == Head(pending).ref
           old == proc[rx_proc - 1].scope
           q == Expose(pool, Id, Scope, old, r, rx_proc, Fresh)
           f == Find(q, Id, old, Scope, r)
           ws == IF f.var = Nil THEN << >> ELSE WordsOf[q.value[f.var]]
           more == [i \in 1..Len(ws) |-> [op |-> "name", ref |-> ws[i]]]
<1>1. /\ pending # << >> /\ Head(pending).op = "list" /\ Room
      /\ pool' = f.pool /\ pending' = more \o Tail(pending)
      /\ UNCHANGED <<proc, rx_proc, procidcnt, closing>>
  BY DEF ExposeIndirect
<1>2. PendingOK /\ pool \in PoolType
  BY DEF IInv, Sound
<1>3. r \in Refs /\ Head(pending) = pending[1] /\ 1 \in 1..Len(pending)
  BY <1>1, <1>2, TailFacts
<1>4. /\ Exposing(pool, proc, rx_proc) /\ rx_proc > 0 /\ Scope = rx_proc
      /\ UsedBy({Scope, old}, proc, rx_proc) /\ Agree(pool, Scope, old)
      /\ ~closing /\ closing \in BOOLEAN /\ old \in Frames
  BY <1>1, ExposingFacts
<1>5. r \in Simple
  BY <1>1, <1>3, <1>4 DEF Exposing
<1>6. /\ q \in PoolType /\ Good(pool, q, Id, Scope, {Scope, old})
      /\ Agree(q, Scope, old) /\ q.head[Scope][r] = q.head[old][r]
  BY <1>1, <1>3, <1>5, ExposedStep
<1>7. /\ rx_proc \in 0..rx_proc /\ rx_proc >= 0 /\ Id \in IdRange
      /\ Id = proc[rx_proc].id /\ Scope = proc[rx_proc].scope /\ Scope \in Frames
  BY <1>4, RunningFacts, FramedFacts DEF IInv
<1>8. f.var \in VarRefs
  BY <1>3, <1>4, <1>6, <1>7, FindTypes
<1>9. ws \in Seq(Refs)
  <2> HIDE DEF f, q
  <2>1. f.var # Nil => q.value[f.var] \in Text
    BY <1>6, <1>8 DEF PoolType, VarRefs
  <2> QED BY <2>1, PoolConstants
<1> HIDE DEF q, old
<1>10. Good(q, f.pool, Id, Scope, {Scope, old}) /\ f.pool.head = q.head
  <2>1. q \in PoolType /\ q.head[old][r] = q.head[Scope][r]
    BY <1>6
  <2>2. Id \in IdRange /\ Scope \in Frames /\ old \in Frames
    BY <1>4, <1>7
  <2> HIDE DEF f
  <2>3. LET z == Find(q, Id, old, Scope, r).pool
        IN  Good(q, z, Id, Scope, {Scope, old}) /\ z.head = q.head
    BY <1>5, <2>1, <2>2, FindListGood
  <2> QED BY <2>3 DEF f
<1> HIDE DEF f, ws
<1>11. f.pool \in PoolType
  BY <1>10 DEF Good
<1>12. Good(pool, pool', Id, Scope, {Scope, old})
  BY <1>1, <1>2, <1>6, <1>7, <1>10, <1>11, GoodTrans
<1>13. Agree(pool', Scope, old)
  BY <1>1, <1>6, <1>10 DEF Agree
<1>14. Safe(pool, pool', proc[rx_proc].id, proc[rx_proc].scope, {Scope, old})
  BY <1>2, <1>7, <1>12, GoodSafe
<1>15. Framed(proc', rx_proc', procidcnt') /\ Sound(pool', proc', rx_proc', procidcnt')
  BY <1>1, <1>4, <1>7, <1>14, PoolStep
<1>16. more \in Seq([op : Ops, ref : Refs]) /\ Len(more) = Len(ws)
       /\ \A i \in 1..Len(more) : more[i].op = "name"
  BY <1>9 DEF Ops
<1> HIDE DEF more
<1>17. /\ Tail(pending) \in Seq([op : Ops, ref : Refs])
       /\ \A i \in 1..Len(Tail(pending)) :
             /\ Tail(pending)[i].op # "drop"
             /\ Tail(pending)[i].op = "list" => Tail(pending)[i].ref \in Simple
  BY <1>1, <1>2, <1>4, TailFacts DEF Exposing
<1>18. /\ pending' \in Seq([op : Ops, ref : Refs])
       /\ \A i \in 1..Len(pending') :
             /\ pending'[i].op # "drop"
             /\ pending'[i].op = "list" => pending'[i].ref \in Simple
  <2> DEFINE T == [op : Ops, ref : Refs]
             t == Tail(pending)
  <2> HIDE DEF T, t
  <2>1. more \in Seq(T) /\ t \in Seq(T) /\ pending' = more \o t
    BY <1>1, <1>16, <1>17 DEF T, t
  <2>2. /\ pending' \in Seq(T) /\ Len(pending') = Len(more) + Len(t)
        /\ Len(more) \in Nat /\ Len(t) \in Nat
        /\ \A i \in 1..Len(pending') :
              pending'[i] = IF i <= Len(more) THEN more[i] ELSE t[i - Len(more)]
    BY <2>1
  <2>3. ASSUME NEW i \in 1..Len(pending')
        PROVE  /\ pending'[i].op # "drop"
               /\ pending'[i].op = "list" => pending'[i].ref \in Simple
    <3>1. CASE i <= Len(more)
      <4>1. i \in 1..Len(more) /\ pending'[i] = more[i]
        BY <2>2, <3>1
      <4> QED BY <1>16, <4>1
    <3>2. CASE ~(i <= Len(more))
      <4>1. i - Len(more) \in 1..Len(t) /\ pending'[i] = t[i - Len(more)]
        BY <2>2, <3>2
      <4> QED BY <1>17, <4>1 DEF t
    <3> QED BY <3>1, <3>2
  <2> QED BY <2>2, <2>3 DEF T
<1>19. Exposing(pool, proc, rx_proc)'
  BY <1>1, <1>4, <1>13, <1>18 DEF Exposing, old
<1>20. PendingOK'
  BY <1>1, <1>4, <1>7, <1>18, <1>19 DEF PendingOK
<1> QED BY <1>15, <1>20 DEF IInv

\* The running frame is popped and nothing else happens to the frames.
LEMMA PopOne ==
    ASSUME Framed(proc, rx_proc, procidcnt), rx_proc >= 0,
           rx_proc' = rx_proc - 1, procidcnt' = procidcnt,
           proc' = [proc EXCEPT ![rx_proc] = NoFrame]
    PROVE  /\ Framed(proc', rx_proc', procidcnt')
           /\ \A f \in 0..(rx_proc - 1) : proc'[f] = proc[f]
<1>1. rx_proc \in Int /\ \A f \in 0..rx_proc : f \in Frames /\ f \in Int
  BY FramedFacts
<1>2. NoFrame \in FrameType
  BY FrameArith, ConstantTypes DEF NoFrame, FrameType, CallTypes, Frames
<1>3. proc' \in [Frames -> FrameType]
  BY <1>2 DEF Framed
<1>4. \A f \in 0..(rx_proc - 1) : f \in 0..rx_proc /\ f # rx_proc
  BY <1>1
<1>5. \A f \in 0..(rx_proc - 1) : proc'[f] = proc[f]
  BY <1>1, <1>4 DEF Framed
<1>6. \A f \in Frames \ 0..(rx_proc - 1) : proc'[f] = NoFrame
  <2>1. \A f \in Frames \ 0..(rx_proc - 1) : f = rx_proc \/ f \in Frames \ 0..rx_proc
    BY <1>1, PoolConstants DEF Frames
  <2> QED BY <2>1 DEF Framed
<1>7. rx_proc - 1 \in -1..rx_proc
  BY <1>1
<1>8. Framed(proc', rx_proc - 1, procidcnt)
  BY <1>3, <1>5, <1>6, <1>7, CutFramedBy
<1> QED BY <1>5, <1>8

LEMMA InterEndInv ==
    ASSUME IInv, InterEnd
    PROVE  IInv'
<1>1. /\ Running /\ rx_proc > 0 /\ proc[rx_proc].calltype = "INTERPRET"
      /\ rx_proc' = rx_proc - 1 /\ proc' = [proc EXCEPT ![rx_proc] = NoFrame]
      /\ UNCHANGED <<pool, procidcnt, pending, closing>>
  BY DEF InterEnd
<1>2. Framed(proc, rx_proc, procidcnt) /\ Sound(pool, proc, rx_proc, procidcnt)
  BY DEF IInv
<1>3. rx_proc \in Int
  BY <1>2, FramedFacts
<1>4. Framed(proc', rx_proc', procidcnt')
      /\ \A f \in 0..(rx_proc - 1) : proc'[f] = proc[f]
  BY <1>1, <1>2, <1>3, PopOne
<1> DEFINE k == rx_proc - 1
<1>5. /\ k \in -1..(rx_proc - 1) /\ k >= 0 /\ k + 1 = rx_proc
      /\ k \in 0..rx_proc /\ rx_proc \in 0..rx_proc /\ k <= rx_proc
      /\ (k + 2)..rx_proc = {} /\ (k + 1)..rx_proc = {rx_proc}
  BY <1>1, <1>3
<1> HIDE DEF k
<1>6. proc[k + 1].scope = proc[k].scope
  BY <1>1, <1>2, <1>5 DEF Framed
<1>7. \A h \in (k + 2)..rx_proc : proc[h].calltype = "INTERPRET"
  BY <1>5
<1>8. \A f \in 0..k : proc'[f] = proc[f]
  BY <1>4 DEF k
<1>9. Sound(pool, proc', k, procidcnt)
  BY <1>2, <1>5, <1>6, <1>7, <1>8, CutSound
<1>10. PendingOK'
  BY <1>1, QuietPending DEF IInv, PendingOK
<1> QED BY <1>1, <1>4, <1>9, <1>10 DEF IInv, k

LEMMA UnwindInv ==
    ASSUME IInv, Unwind
    PROVE  IInv'
<1>1. /\ closing /\ rx_proc >= 0
      /\ pool' = IF rx_proc = 0 \/ proc[rx_proc].scope # proc[rx_proc - 1].scope
                 THEN ScopeFree(pool, proc[rx_proc].scope, rx_proc) ELSE pool
      /\ rx_proc' = rx_proc - 1 /\ proc' = [proc EXCEPT ![rx_proc] = NoFrame]
      /\ UNCHANGED <<procidcnt, pending, closing>>
  BY DEF Unwind, Scope
<1>2. Framed(proc, rx_proc, procidcnt) /\ Sound(pool, proc, rx_proc, procidcnt)
      /\ PendingOK
  BY DEF IInv
<1>3. rx_proc \in Int
  BY <1>2, FramedFacts
<1>4. Framed(proc', rx_proc', procidcnt')
      /\ \A f \in 0..(rx_proc - 1) : proc'[f] = proc[f]
  BY <1>1, <1>2, <1>3, PopOne
<1> DEFINE k == rx_proc - 1
<1>5. /\ k \in -1..(rx_proc - 1) /\ k + 1 = rx_proc /\ (k + 2)..rx_proc = {}
      /\ k >= 0 <=> rx_proc # 0
  BY <1>1, <1>3
<1>6. pool' = IF rx_proc = 0 \/ proc[k + 1].scope # proc[k].scope
              THEN ScopeFree(pool, proc[k + 1].scope, k + 1) ELSE pool
  BY <1>1, <1>5
<1>7. \A f \in 0..k : proc'[f] = proc[f]
  BY <1>4
<1> HIDE DEF k
<1>8. \A h \in (k + 2)..rx_proc : proc[h].calltype = "INTERPRET"
  BY <1>5
<1>9. \/ k >= 0 /\ proc[k + 1].scope = proc[k].scope /\ pool' = pool
      \/ /\ k >= 0 => proc[k + 1].scope # proc[k].scope
         /\ pool' = ScopeFree(pool, proc[k + 1].scope, k + 1)
  BY <1>5, <1>6
<1>10. Sound(pool', proc', k, procidcnt)
  BY <1>2, <1>5, <1>7, <1>8, <1>9, CutSound
<1>11. PendingOK'
  BY <1>1, <1>2 DEF PendingOK
<1> QED BY <1>1, <1>4, <1>10, <1>11 DEF IInv, k

LEMMA ExitInv ==
    ASSUME IInv, Exit
    PROVE  IInv'
<1>1. Running /\ closing' = TRUE /\ UNCHANGED <<pool, proc, rx_proc, procidcnt, pending>>
  BY DEF Exit
<1>2. PendingOK'
  BY <1>1, QuietPending
<1> QED BY <1>1, <1>2 DEF IInv

LEMMA TrapInv ==
    ASSUME IInv, NEW target \in Targets \cup {Nil}, NEW line \in Data, Trap(target, line)
    PROVE  IInv'
<1>1. /\ Running /\ Room /\ UNCHANGED <<procidcnt, pending, closing>>
      /\ pool' = VarSet(Created(target).pool, Id, Scope, Sigl, line, Fresh[3])
  BY DEF Trap
<1>2. PICK f \in 0..rx_proc :
         /\ \A g \in (f + 1)..rx_proc : proc[g].calltype = "INTERPRET"
         /\ rx_proc' = f
         /\ proc' = [g \in Frames |-> IF g <= f THEN proc[g] ELSE NoFrame]
  BY DEF Trap
<1>3. PICK c : c = Created(target)
  OBVIOUS
<1>4. Good(pool, pool', Id, Scope, {Scope})
  BY <1>1, <1>3, CallerGood
<1>5. /\ rx_proc \in 0..rx_proc /\ rx_proc \in Int /\ pool \in PoolType
      /\ Id = proc[rx_proc].id /\ Scope = proc[rx_proc].scope
  BY <1>1, RunningFacts DEF Running
<1>6. Safe(pool, pool', proc[rx_proc].id, proc[rx_proc].scope, {Scope})
  BY <1>4, <1>5, GoodSafe
<1>7. Framed(proc, rx_proc, procidcnt) /\ Sound(pool, proc, rx_proc, procidcnt)
  BY DEF IInv
<1>8. f \in -1..rx_proc /\ f \in 0..f
  BY <1>5
<1>9. /\ Framed(proc', f, procidcnt)
      /\ \A g \in 0..f : proc'[g] = proc[g] /\ g \in 0..rx_proc
  BY <1>2, <1>7, <1>8, CutFramed
<1>10. \A g \in 0..rx_proc : g \in 0..f \/ proc[g].scope = proc[f].scope
  <2> SUFFICES ASSUME NEW g \in 0..rx_proc, g \notin 0..f
               PROVE  proc[g].scope = proc[f].scope
    OBVIOUS
  <2>1. f <= g /\ (f + 1)..g \subseteq (f + 1)..rx_proc
    BY <1>5
  <2> QED BY <1>2, <1>7, <2>1 DEF Framed
<1>11. Alike(proc, rx_proc, proc', f) /\ UsedBy({Scope}, proc, rx_proc)
  <2>1. 0..f \subseteq Frames
    BY <1>7, <1>9, FramedFacts
  <2>2. \A g \in 0..rx_proc : \E h \in 0..f : proc'[h].scope = proc[g].scope
    BY <1>8, <1>9, <1>10
  <2> QED BY <1>5, <1>9, <2>1, <2>2 DEF Alike, UsedBy
<1>12. Sound(pool', proc', f, procidcnt)
  BY <1>5, <1>6, <1>7, <1>11, KeepSound
<1>13. PendingOK'
  BY <1>1, QuietPending DEF IInv, PendingOK
<1> QED BY <1>1, <1>2, <1>9, <1>12, <1>13 DEF IInv

\* A return pops the routine at f; p is the pool before its scope is freed.
LEMMA PopFacts ==
    ASSUME Framed(proc, rx_proc, procidcnt), NEW f \in 1..rx_proc, PopTo(f),
           NEW p, Sound(p, proc, rx_proc, procidcnt),
           NEW q, q = IF proc[f].scope # proc[f - 1].scope
                      THEN ScopeFree(p, proc[f].scope, f) ELSE p
    PROVE  /\ rx_proc' = f - 1 /\ f - 1 \in 0..(f - 1)
           /\ Framed(proc', f - 1, procidcnt) /\ Sound(q, proc', f - 1, procidcnt)
           /\ proc'[f - 1] = proc[f - 1]
<1> DEFINE k == f - 1
<1>1. rx_proc \in Int /\ MaxProc \in Int
  BY FramedFacts, PoolConstants
<1>2. /\ k \in -1..(rx_proc - 1) /\ k \in -1..rx_proc /\ k \in 0..k /\ k >= 0
      /\ k + 1 = f /\ k + 2 = f + 1 /\ k \in Int
  BY <1>1
<1>3. rx_proc' = k
  BY DEF PopTo
<1>4. \A h \in (k + 2)..rx_proc : proc[h].calltype = "INTERPRET"
  BY <1>2 DEF PopTo
<1>5. proc' = [g \in Frames |-> IF g <= k THEN proc[g] ELSE NoFrame]
  <2>1. \A g \in Frames : g < f <=> g <= k
    BY <1>2 DEF Frames
  <2> QED BY <2>1 DEF PopTo
<1>6. q = IF proc[k + 1].scope # proc[k].scope
          THEN ScopeFree(p, proc[k + 1].scope, k + 1) ELSE p
  BY <1>2
<1>7. k \in 0..k /\ rx_proc' = k
  BY <1>2, <1>3
<1> HIDE DEF k
<1>8. /\ Framed(proc', k, procidcnt)
      /\ \A g \in 0..k : proc'[g] = proc[g] /\ g \in 0..rx_proc
  BY <1>2, <1>5, CutFramed
<1>9. \/ k >= 0 /\ proc[k + 1].scope = proc[k].scope /\ q = p
      \/ /\ k >= 0 => proc[k + 1].scope # proc[k].scope
         /\ q = ScopeFree(p, proc[k + 1].scope, k + 1)
  BY <1>2, <1>6
<1>10. Sound(q, proc', k, procidcnt)
  BY <1>2, <1>4, <1>8, <1>9, CutSound
<1> QED BY <1>7, <1>8, <1>10 DEF k

LEMMA ReturnInv ==
    ASSUME IInv, Return
    PROVE  IInv'
<1>1. Running /\ UNCHANGED <<procidcnt, pending, closing>>
  BY DEF Return
<1>2. PICK f \in 1..rx_proc : PopTo(f) /\ pool' = AfterPop(f)
  BY DEF Return
<1>3. Framed(proc, rx_proc, procidcnt) /\ Sound(pool, proc, rx_proc, procidcnt)
  BY DEF IInv
<1>4. pool' = IF proc[f].scope # proc[f - 1].scope
              THEN ScopeFree(pool, proc[f].scope, f) ELSE pool
  BY <1>2 DEF AfterPop
<1>5. /\ rx_proc' = f - 1 /\ Framed(proc', f - 1, procidcnt)
      /\ Sound(pool', proc', f - 1, procidcnt)
  BY <1>2, <1>3, <1>4, PopFacts
<1>6. PendingOK'
  BY <1>1, QuietPending DEF IInv, PendingOK
<1> QED BY <1>1, <1>5, <1>6 DEF IInv

LEMMA QuietSound ==
    ASSUME NEW p, NEW q, NEW pr, NEW rx, NEW cnt,
           Sound(p, pr, rx, cnt), Quiet(p, q)
    PROVE  Sound(q, pr, rx, cnt)
BY DEF Sound, Quiet, CoherentIn

LEMMA ReturnFInv ==
    ASSUME IInv, NEW val \in Data, ReturnF(val)
    PROVE  IInv'
<1>1. Running /\ Room /\ UNCHANGED <<procidcnt, pending, closing>>
  BY DEF ReturnF
<1> DEFINE Set(f) == VarSet(AfterPop(f), proc[f - 1].id, proc[f - 1].scope,
                            Result, val, Fresh[1])
           Put(f) == Store(pool, proc[f].r, val)
           Popped(p, f) == IF proc[f].scope # proc[f - 1].scope
                           THEN ScopeFree(p, proc[f].scope, f) ELSE p
<1>2. PICK f \in 1..rx_proc :
         /\ PopTo(f)
         /\ \/ pool' = Set(f)
            \/ pool' = Popped(Put(f), f)
            \/ pool' = Popped(pool, f)
  BY DEF ReturnF, AfterPop
<1>3. Framed(proc, rx_proc, procidcnt) /\ Sound(pool, proc, rx_proc, procidcnt)
      /\ pool \in PoolType
  BY DEF IInv, Sound
<1>4. val \in Text /\ Result \in Names /\ Fresh[1] \in VarIds
  BY <1>1, PoolConstants, FreshTypes DEF Names
<1>5. ASSUME NEW p, Sound(p, proc, rx_proc, procidcnt), NEW q, q = Popped(p, f)
      PROVE  /\ rx_proc' = f - 1 /\ f - 1 \in 0..(f - 1)
             /\ Framed(proc', f - 1, procidcnt) /\ Sound(q, proc', f - 1, procidcnt)
             /\ proc'[f - 1] = proc[f - 1]
  BY <1>2, <1>3, <1>5, PopFacts
<1>6. rx_proc' = f - 1 /\ Framed(proc', f - 1, procidcnt)
  BY <1>3, <1>5
<1>7. CASE pool' = Popped(pool, f)
  BY <1>3, <1>5, <1>7, <1>6, QuietPending, <1>1 DEF IInv, PendingOK
<1>8. CASE pool' = Popped(Put(f), f)
  <2>1. Sound(Put(f), proc, rx_proc, procidcnt)
    BY <1>3, <1>4, StoreQuiet, QuietSound
  <2>2. Sound(pool', proc', f - 1, procidcnt)
    BY <1>5, <1>8, <2>1
  <2> QED BY <1>1, <1>6, <2>2, QuietPending DEF IInv, PendingOK
<1>9. CASE pool' = Set(f)
  <2> DEFINE a == AfterPop(f)
             k == f - 1
  <2>1. a = Popped(pool, f)
    BY DEF AfterPop
  <2>2. /\ k \in 0..k /\ Framed(proc', k, procidcnt)
        /\ Sound(a, proc', k, procidcnt) /\ proc'[k] = proc[k]
    BY <1>3, <1>5, <2>1
  <2>3. pool' = VarSet(a, proc[k].id, proc[k].scope, Result, val, Fresh[1])
    BY <1>9
  <2> HIDE DEF a, k
  <2>4. /\ proc[k].id \in IdRange /\ proc[k].id # NoCache /\ proc[k].scope \in Frames
    BY <2>2, FramedId
  <2>5. a \in PoolType /\ CoherentIn(a, proc[k].id, proc[k].scope)
    BY <2>2 DEF Sound
  <2>6. Good(a, pool', proc[k].id, proc[k].scope, {proc[k].scope})
    BY <1>4, <2>3, <2>4, <2>5, VarSetGood
  <2>7. Safe(a, pool', proc'[k].id, proc'[k].scope, {proc[k].scope})
    BY <2>2, <2>5, <2>6, GoodSafe
  <2>8. Alike(proc', k, proc', k) /\ UsedBy({proc[k].scope}, proc', k)
    BY <2>2, FramedFacts DEF Alike, UsedBy
  <2>9. Sound(pool', proc', k, procidcnt)
    BY <2>2, <2>7, <2>8, KeepSound
  <2> QED BY <1>1, <1>6, <2>9, QuietPending DEF IInv, PendingOK, k
<1> QED BY <1>2, <1>7, <1>8, <1>9

-----------------------------------------------------------------------------
(* The theorems.                                                           *)

LEMMA InitInv == Init => IInv
<1> SUFFICES ASSUME Init PROVE IInv
  OBVIOUS
<1> DEFINE start == [NoFrame EXCEPT !.id = 1]
<1>1. /\ proc = [f \in Frames |-> IF f = 0 THEN start ELSE NoFrame]
      /\ rx_proc = 0 /\ procidcnt = 2 /\ pending = << >> /\ closing = FALSE
  BY DEF Init
<1>2. MaxProc \in Nat /\ MaxId \in Nat /\ 0 \in Frames /\ 0..0 = {0}
  BY PoolConstants DEF Frames
<1>3. /\ NoFrame \in FrameType /\ start \in FrameType
      /\ start.id = 1 /\ start.scope = 0 /\ start.calltype = "PROGRAM"
  BY <1>2 DEF NoFrame, FrameType, CallTypes
<1> HIDE DEF start
<1>4. /\ proc \in [Frames -> FrameType] /\ proc[0] = start
      /\ \A f \in Frames \ 0..0 : proc[f] = NoFrame
  BY <1>1, <1>2, <1>3
<1>5. Framed(proc, rx_proc, procidcnt)
  BY <1>1, <1>2, <1>3, <1>4 DEF Framed
<1>6. pool \in PoolType
  BY <1>2, ConstantTypes DEF Init, PoolType, VarRefs
<1>7. /\ \A n \in Names : pool.cache[n] = NoLeaf
      /\ \A f \in Frames : pool.head[f] = NoHeads
  BY DEF Init
<1>8. Sound(pool, proc, rx_proc, procidcnt)
  BY <1>1, <1>2, <1>3, <1>4, <1>6, <1>7 DEF Sound, CoherentIn, NoLeaf, NoCache
<1>9. PendingOK
  <2> DEFINE T == [op : Ops, ref : Refs]
  <2> HIDE DEF T
  <2>1. << >> \in Seq(T)
    OBVIOUS
  <2>2. pending \in Seq(T) /\ closing \in BOOLEAN /\ pending = << >>
    BY <1>1, <2>1
  <2> QED BY <2>2 DEF PendingOK, T
<1> QED BY <1>5, <1>8, <1>9 DEF IInv

LEMMA NextInv == ListsSimple /\ IInv /\ [Next]_vars => IInv'
<1> SUFFICES ASSUME ListsSimple, IInv, [Next]_vars PROVE IInv'
  OBVIOUS
<1>1. ASSUME NEW r \in Lits, Load(r) PROVE IInv'
  BY <1>1, LoadInv
<1>2. ASSUME NEW r \in Lits, DropVar(r) PROVE IInv'
  BY <1>2, DropVarInv
<1>3. ASSUME NEW r \in Lits, NEW val \in Data, Assign(r, val) PROVE IInv'
  BY <1>3, AssignInv
<1>4. ASSUME NEW ws \in DropLists, DropList(ws) PROVE IInv'
  BY <1>4, DropListInv
<1>5. CASE DropNext
  BY <1>5, DropNextInv
<1>6. ASSUME NEW k \in 0..rx_proc, NEW r \in PoolNames, NEW val \in Data,
             PoolSet(k, r, val)
      PROVE  IInv'
  BY <1>6, PoolSetInv
<1>7. ASSUME NEW line \in Data, Signal(line) PROVE IInv'
  BY <1>7, SignalInv
<1>8. ASSUME NEW kind \in {"FUNCTION", "PROCEDURE"}, NEW target \in Targets \cup {Nil},
             NEW line \in Data, CallShared(kind, target, line)
      PROVE  IInv'
  BY <1>8, CallSharedInv
<1>9. ASSUME NEW kind \in {"FUNCTION", "PROCEDURE"}, NEW target \in Targets \cup {Nil},
             NEW line \in Data, NEW list \in ExposeLists,
             CallProcedure(kind, target, line, list)
      PROVE  IInv'
  BY <1>9, CallProcedureInv
<1>10. CASE ExposeNext
  BY <1>10, ExposeNextInv
<1>11. CASE ExposeIndirect
  BY <1>11, ExposeIndirectInv
<1>12. CASE Interpret \/ InterEnd
  BY <1>12, InterpretInv, InterEndInv
<1>13. CASE Return
  BY <1>13, ReturnInv
<1>14. ASSUME NEW val \in Data, ReturnF(val) PROVE IInv'
  BY <1>14, ReturnFInv
<1>15. CASE Exit \/ Unwind
  BY <1>15, ExitInv, UnwindInv
<1>16. CASE UNCHANGED vars
  BY <1>16 DEF vars, IInv, PendingOK, Exposing
<1>17. ASSUME NEW line \in Data, NEW target \in Targets \cup {Nil},
              \/ Trap(target, line)
              \/ CallShared("FUNCTION", target, line)
              \/ \E list \in ExposeLists : CallProcedure("FUNCTION", target, line, list)
       PROVE  IInv'
  BY <1>8, <1>9, <1>17, TrapInv
<1>18. ASSUME NEW line \in Data,
              \/ CallShared("PROCEDURE", Nil, line)
              \/ \E list \in ExposeLists : CallProcedure("PROCEDURE", Nil, line, list)
       PROVE  IInv'
  <2>1. Nil \in Targets \cup {Nil}
    OBVIOUS
  <2> QED BY <1>8, <1>9, <1>18, <2>1
<1>19. ASSUME Next PROVE IInv'
  BY <1>1, <1>2, <1>3, <1>4, <1>5, <1>6, <1>7, <1>10, <1>11, <1>12, <1>13,
     <1>14, <1>15, <1>17, <1>18, <1>19, Zenon DEF Next
<1> QED BY <1>16, <1>19

\* IInv holds in every state the interpreter reaches: frames, caches and the
\* names of a PROCEDURE still to be exposed fit together (RxVarExpose,
\* I_CallFunction, I_ReturnProc).
THEOREM Invariance == ListsSimple => (Spec => []IInv)
<1> SUFFICES ASSUME ListsSimple PROVE Spec => []IInv
  OBVIOUS
<1>1. Init => IInv
  BY InitInv
<1>2. IInv /\ [Next]_vars => IInv'
  BY NextInv
<1> QED BY <1>1, <1>2, PTL DEF Spec

\* Every variable keeps its type, whatever the program does.
THEOREM TypeCorrect == ListsSimple => (Spec => []TypeOK)
<1> SUFFICES ASSUME ListsSimple PROVE Spec => []TypeOK
  OBVIOUS
<1>1. Spec => []IInv
  BY Invariance
<1>2. IInv => TypeOK
  BY InvImplies
<1> QED BY <1>1, <1>2, PTL

\* Each activation with a scope of its own has an id of its own, at any depth
\* of calls, INTERPRETs and traps (I_CallFunction, I_ReturnProc).
THEOREM FramesCorrect == ListsSimple => (Spec => []FramesOK)
<1> SUFFICES ASSUME ListsSimple PROVE Spec => []FramesOK
  OBVIOUS
<1>1. Spec => []IInv
  BY Invariance
<1>2. IInv => FramesOK
  BY InvImplies
<1> QED BY <1>1, <1>2, PTL

\* No access through a literal's cached leaf reaches storage other than what a
\* search of the running scope would find (RxVarFind, OP_LOAD, OP_CREATE,
\* OP_DROP), unless a compound symbol is exposed as a parenthesised name.
THEOREM CacheCorrect == ListsSimple => (Spec => []CacheCoherent)
<1> SUFFICES ASSUME ListsSimple PROVE Spec => []CacheCoherent
  OBVIOUS
<1>1. Spec => []IInv
  BY Invariance
<1>2. IInv => CacheCoherent
  BY InvImplies
<1> QED BY <1>1, <1>2, PTL
=============================================================================
