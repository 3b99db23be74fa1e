--------------------------- MODULE VarReach_proofs ---------------------------
(* What a routine can reach: the variables of its own scope and the tails  *)
(* of its stems.  No operation of VarPool changes or frees storage beyond  *)
(* them, and, in a program without stems, none loses any.                  *)
EXTENDS VarMarks_proofs

-----------------------------------------------------------------------------
(* Storage that is no variable of any scope.                               *)

\* Such storage has no tails; in a program without stems it is not in use.
Idle(p) ==
    \A v \in VarIds \ Objects(p) :
        p.tail[v] = NoTails /\ (Stems = {} => v \notin p.live)

LEMMA IdleBy ==
    ASSUME NEW p, NEW q, Idle(p),
           \A v \in VarIds : v \notin Objects(q) =>
              \/ v \notin Objects(p) /\ q.tail[v] = p.tail[v] /\ (v \in q.live => v \in p.live)
              \/ q.tail[v] = NoTails /\ (Stems = {} => v \notin q.live)
    PROVE  Idle(q)
BY DEF Idle

LEMMA IdleShape ==
    ASSUME NEW p, NEW q, SameShape(p, q), Idle(p)
    PROVE  Idle(q)
BY DEF SameShape, Idle, Objects

LEMMA HeadThere ==
    ASSUME NEW a \in PoolType, NEW sc \in Frames, NEW n \in Names, NEW v \in VarIds
    PROVE  v \in Objects(SetHead(a, sc, n, v))
<1>1. v \in VarRefs /\ v # Nil
  BY PoolConstants DEF VarRefs
<1>2. SetHead(a, sc, n, v).head[sc][n] = v
  BY <1>1, HeadFields
<1> QED BY <1>1, <1>2 DEF Objects

LEMMA AllocOnly ==
    ASSUME NEW p \in PoolType, NEW v \in VarIds, NEW val \in Text
    PROVE  LET q == Alloc(p, v, val)
           IN  /\ q \in PoolType /\ q.head = p.head /\ q.tail = p.tail
               /\ q.live \subseteq p.live \cup {v}
<1> DEFINE q == Alloc(p, v, val)
<1>1. q \in PoolType /\ q.head = p.head /\ q.tail = p.tail /\ q.live = p.live \cup {v}
  BY AllocFields
<1> HIDE DEF q
<1>2. /\ q \in PoolType /\ q.head = p.head /\ q.tail = p.tail
      /\ q.live \subseteq p.live \cup {v}
  BY <1>1
<1> QED BY <1>2 DEF q

\* A new head, or one that a scope did not have.
LEMMA IdleHead ==
    ASSUME NEW p \in PoolType, Idle(p), NEW sc \in Frames, NEW n \in Names,
           p.head[sc][n] = Nil, NEW v \in VarIds,
           NEW a \in PoolType, a.head = p.head, a.tail = p.tail, a.live \subseteq p.live \cup {v}
    PROVE  Idle(SetHead(a, sc, n, v))
<1> DEFINE q == SetHead(a, sc, n, v)
<1>1. v \in VarRefs
  BY DEF VarRefs
<1>2. /\ q \in PoolType /\ q.tail = a.tail /\ q.live = a.live
      /\ \A s \in Frames, m \in Names : s # sc \/ m # n => q.head[s][m] = a.head[s][m]
  BY <1>1, HeadFields
<1>3. v \in Objects(q)
  BY HeadThere
<1> HIDE DEF q
<1>4. \A s \in Frames, m \in Names : p.head[s][m] # Nil => q.head[s][m] = p.head[s][m]
  BY <1>2
<1>5. Objects(p) \subseteq Objects(q)
  BY <1>4 DEF Objects
<1>6. Idle(q)
  BY <1>2, <1>3, <1>5, IdleBy
<1> QED BY <1>6 DEF q

LEMMA IdleTail ==
    ASSUME NEW p \in PoolType, Idle(p), NEW h \in Objects(p), NEW s \in Slots, NEW v \in VarIds
    PROVE  Idle([p EXCEPT !.tail[h][s] = v])
<1> DEFINE t == [p.tail EXCEPT ![h][s] = v]
           q == [p EXCEPT !.tail = t]
<1>1. [p EXCEPT !.tail[h][s] = v] = q
  OBVIOUS
<1>2. \A u \in VarIds : u # h => t[u] = p.tail[u]
  BY DEF PoolType
<1> HIDE DEF t
<1>3. q.head = p.head /\ q.live = p.live /\ q.tail = t
  BY DEF PoolType
<1> HIDE DEF q
<1>4. Objects(q) = Objects(p)
  BY <1>3 DEF Objects
<1>5. Idle(q)
  BY <1>2, <1>3, <1>4, IdleBy
<1> QED BY <1>1, <1>5

LEMMA IdleRelease ==
    ASSUME NEW p \in PoolType, Idle(p), NEW V \in SUBSET VarIds, NEW rx
    PROVE  Idle(Release(p, V, rx))
<1> DEFINE q == Release(p, V, rx)
           stems == {v \in V : p.mark[v] = NoProc}
           all   == V \cup TailsOf(p, stems)
           freed == {v \in all : p.mark[v] = NoProc}
<1>1. q.head = p.head
  BY ReleaseQuiet DEF Quiet
<1>2. /\ q.live = p.live \ freed
      /\ q.tail = [v \in VarIds |-> IF v \in freed THEN NoTails ELSE p.tail[v]]
  BY DEF Release, PoolType
<1> HIDE DEF q, freed
<1>3. Objects(q) = Objects(p)
  BY <1>1 DEF Objects
<1>4. Idle(q)
  BY <1>2, <1>3, IdleBy
<1> QED BY <1>4 DEF q

LEMMA IdleEmpty ==
    ASSUME NEW p \in PoolType, Idle(p), NEW v \in VarIds, NEW rx
    PROVE  Idle(EmptyStem(p, v, rx))
<1> DEFINE V == TailsOf(p, {v})
           q == Release(p, V, rx)
           t == [q.tail EXCEPT ![v] = NoTails]
           z == [q EXCEPT !.tail = t]
<1>1. V \in SUBSET VarIds
  BY ObjectFacts
<1>2. EmptyStem(p, v, rx) = z
  BY DEF EmptyStem
<1> HIDE DEF V
<1>3. q \in PoolType /\ Idle(q)
  BY <1>1, IdleRelease, ReleaseQuiet DEF Quiet
<1> HIDE DEF q
<1>4. \A u \in VarIds : t[u] = q.tail[u] \/ t[u] = NoTails
  BY <1>3 DEF PoolType
<1> HIDE DEF t
<1>5. z.head = q.head /\ z.live = q.live /\ z.tail = t
  BY <1>3 DEF PoolType
<1> HIDE DEF z
<1>6. Objects(z) = Objects(q)
  BY <1>5 DEF Objects
<1>7. Idle(z)
  BY <1>3, <1>4, <1>5, <1>6 DEF Idle
<1> QED BY <1>2, <1>7

\* What a scope loses by DROP is freed: it has no mark.
LEMMA IdleRemove ==
    ASSUME NEW p \in PoolType, Idle(p), NEW sc \in Frames, NEW n \in Names,
           p.head[sc][n] # Nil, p.mark[p.head[sc][n]] = NoProc, NEW rx
    PROVE  Idle(Remove(p, sc, n, rx))
<1> DEFINE v == p.head[sc][n]
           a == SetHead(p, sc, n, Nil)
           q == Release(a, {v}, rx)
<1>1. v \in VarIds /\ p.mark[v] = NoProc
  BY ObjectFacts
<1>2. /\ a \in PoolType /\ a.tail = p.tail /\ a.live = p.live /\ a.mark = p.mark
      /\ a.head[sc][n] = Nil
      /\ \A s \in Frames, m \in Names : s # sc \/ m # n => a.head[s][m] = p.head[s][m]
  BY HeadFields DEF VarRefs
<1>3. Remove(p, sc, n, rx) = q
  BY DEF Remove
<1>4. \A u \in VarIds : u \notin Objects(a) => u \notin Objects(p) \/ u = v
  BY <1>2 DEF Objects
<1> HIDE DEF v, a
<1>5. q.head = a.head
  BY <1>2, ReleaseQuiet DEF Quiet
<1> DEFINE freed == {u \in {v} \cup TailsOf(a, {u \in {v} : a.mark[u] = NoProc}) : a.mark[u] = NoProc}
<1>6. /\ q.live = a.live \ freed
      /\ q.tail = [u \in VarIds |-> IF u \in freed THEN NoTails ELSE a.tail[u]]
  BY <1>2 DEF Release, PoolType
<1>7. v \in freed
  BY <1>1, <1>2
<1> HIDE DEF freed, q
<1>8. Objects(q) = Objects(a)
  BY <1>5 DEF Objects
<1>9. ASSUME NEW u \in VarIds, u \notin Objects(q)
      PROVE  \/ u \notin Objects(p) /\ q.tail[u] = p.tail[u] /\ (u \in q.live => u \in p.live)
             \/ q.tail[u] = NoTails /\ (Stems = {} => u \notin q.live)
  BY <1>2, <1>4, <1>6, <1>7, <1>8, <1>9
<1>10. Idle(q)
  BY <1>9, IdleBy
<1> QED BY <1>3, <1>10

-----------------------------------------------------------------------------
(* The operations leave other storage idle.                                *)

LEMMA IdleAdd ==
    ASSUME NEW p \in PoolType, Idle(p), NEW sc \in Frames, NEW r \in Refs,
           NEW stem \in VarRefs, NEW t \in Text, NEW v \in VarIds, NEW w \in VarIds,
           r \in Names => p.head[sc][r] = Nil,
           r \notin Names => stem = p.head[sc][r[1]]
    PROVE  Idle(Add(p, sc, r, stem, t, v, w))
<1>1. CASE r \in Names
  <2> DEFINE a == Alloc(p, v, Empty)
  <2>1. Add(p, sc, r, stem, t, v, w) = SetHead(a, sc, r, v)
    BY <1>1 DEF Add
  <2>2. a \in PoolType /\ a.head = p.head /\ a.tail = p.tail /\ a.live \subseteq p.live \cup {v}
    BY AllocOnly, ConstantTypes
  <2> HIDE DEF a
  <2> QED BY <1>1, <2>1, <2>2, IdleHead
<1>2. CASE r \notin Names
  <2> DEFINE h == IF stem = Nil THEN w ELSE stem
             b == Alloc(p, w, Null)
             q == IF stem = Nil THEN SetHead(b, sc, r[1], w) ELSE p
             d == IF q.value[h] = Null THEN Empty ELSE q.value[h]
             a == Alloc(q, v, d)
             z == [a EXCEPT !.tail[h][<<t, "hash">>] = v]
  <2>1. r[1] \in Names /\ Stems # {} /\ <<t, "hash">> \in Slots
    BY <1>2, ConstantTypes DEF Names, Slots
  <2>2. Add(p, sc, r, stem, t, v, w) = z
    BY <1>2 DEF Add
  <2>3. b \in PoolType /\ b.head = p.head /\ b.tail = p.tail /\ b.live \subseteq p.live \cup {w}
    BY AllocOnly, ConstantTypes
  <2> HIDE DEF b
  <2>4. q \in PoolType /\ Idle(q) /\ h \in Objects(q) /\ h \in VarIds
    <3>1. CASE stem = Nil
      <4>1. p.head[sc][r[1]] = Nil /\ w \in VarRefs
        BY <1>2, <3>1 DEF VarRefs
      <4>2. Idle(SetHead(b, sc, r[1], w))
        BY <2>1, <2>3, <4>1, IdleHead
      <4>4. w \in Objects(SetHead(b, sc, r[1], w))
        BY <2>1, <2>3, HeadThere
      <4>3. SetHead(b, sc, r[1], w) \in PoolType
        BY <2>1, <2>3, <4>1, HeadFields
      <4> QED BY <3>1, <4>2, <4>3, <4>4
    <3>2. CASE stem # Nil
      <4>1. stem \in Objects(p) /\ stem \in VarIds
        BY <1>2, <2>1, <3>2, ObjectFacts
      <4> QED BY <3>2, <4>1
    <3> QED BY <3>1, <3>2
  <2> HIDE DEF h, q
  <2>5. d \in Text
    BY <2>4, ConstantTypes DEF PoolType
  <2> HIDE DEF d
  <2>6. a \in PoolType /\ a.head = q.head /\ a.tail = q.tail
    BY <2>4, <2>5, AllocFields
  <2> HIDE DEF a
  <2>7. Objects(a) = Objects(q)
    BY <2>6 DEF Objects
  <2>8. Idle(a)
    BY <2>1, <2>4, <2>6, <2>7 DEF Idle
  <2>9. Idle(z)
    BY <2>1, <2>4, <2>6, <2>7, <2>8, IdleTail
  <2> QED BY <2>2, <2>9
<1> QED BY <1>1, <1>2

LEMMA IdleCreate ==
    ASSUME NEW p \in PoolType, Idle(p), NEW id \in IdRange, NEW sc \in Frames, NEW r \in Refs,
           CoherentIn(p, id, sc), id # NoCache, NEW v \in VarIds, NEW w \in VarIds
    PROVE  Idle(Create(p, id, sc, r, v, w).pool)
<1> DEFINE f == Find(p, id, sc, sc, r)
           q == Add(f.pool, sc, r, f.stem, f.tail, v, w)
           z == IF r \in Names THEN Memo(q, id, sc, r) ELSE q
           c == Create(p, id, sc, r, v, w)
<1>1. SameShape(p, f.pool)
  BY FindShape
<1>2. Idle(f.pool)
  BY <1>1, IdleShape
<1>3. f.var \in VarRefs /\ f.stem \in VarRefs /\ f.tail \in Text
  BY FindTypes
<1>4. r \in Names => f.var = p.head[sc][r]
  BY DEF Find
<1>5. r \notin Names => f.stem = p.head[sc][r[1]]
  BY FindStem
<1>6. \/ c.pool = p
      \/ c.pool = f.pool
      \/ c.pool = z /\ f.var = Nil
  BY DEF Create
<1>7. CASE c.pool = z /\ f.var = Nil
  <2> HIDE DEF f, c
  <2>1. f.pool \in PoolType /\ f.pool.head = p.head
    BY <1>1 DEF SameShape
  <2>2. Idle(q)
    BY <1>2, <1>3, <1>4, <1>5, <1>7, <2>1, IdleAdd
  <2>3. Adds(f.pool, q, sc)
    BY <1>3, <1>4, <1>5, <1>7, <2>1, AddAdds
  <2> HIDE DEF q
  <2>4. q \in PoolType
    BY <2>3 DEF Adds
  <2>5. r \in Names => SameShape(q, Memo(q, id, sc, r))
    BY <2>4, MemoShape
  <2>6. Idle(z)
    BY <2>2, <2>5, IdleShape
  <2> HIDE DEF z
  <2>7. Idle(c.pool)
    BY <1>7, <2>6
  <2> QED BY <2>7 DEF c
<1> HIDE DEF f, z
<1>8. Idle(c.pool)
  BY <1>2, <1>6, <1>7
<1> QED BY <1>8 DEF c

LEMMA IdleVarSet ==
    ASSUME NEW p \in PoolType, Idle(p), NEW id \in IdRange, NEW sc \in Frames, NEW n \in Names,
           CoherentIn(p, id, sc), id # NoCache, NEW val \in Text, NEW v \in VarIds
    PROVE  Idle(VarSet(p, id, sc, n, val, v))
<1> DEFINE c == Create(p, id, sc, n, v, v)
<1>1. n \in Refs
  BY DEF Refs
<1>2. Idle(c.pool) /\ c.pool \in PoolType
  BY <1>1, IdleCreate, CreateGood DEF Good
<1>3. VarSet(p, id, sc, n, val, v) = Store(c.pool, c.var, val)
  BY DEF VarSet
<1> HIDE DEF c
<1> QED BY <1>2, <1>3, StoreShape, IdleShape

LEMMA IdleClear ==
    ASSUME NEW p \in PoolType, Idle(p), NEW v \in VarIds, NEW val \in Text, NEW rx
    PROVE  /\ Idle(EmptyStem(Store(p, v, val), v, rx))
           /\ EmptyStem(Store(p, v, val), v, rx) \in PoolType
<1>1. SameShape(p, Store(p, v, val))
  BY StoreShape
<1>2. Store(p, v, val) \in PoolType /\ Idle(Store(p, v, val))
  BY <1>1, IdleShape DEF SameShape
<1> QED BY <1>2, IdleEmpty, EmptyStemQuiet DEF Quiet

LEMMA IdleForget ==
    ASSUME NEW p \in PoolType, Idle(p), NEW n \in Names
    PROVE  Idle(Forget(p, n))
BY ForgetShape, IdleShape

LEMMA DropCases ==
    ASSUME NEW p \in PoolType, NEW id \in IdRange, NEW sc \in Frames, NEW r \in Refs,
           CoherentIn(p, id, sc), NEW rx,
           NEW f, f = Find(p, id, sc, sc, r),
           NEW d, d = Drop(p, id, sc, r, rx)
    PROVE  \E q \in {p, f.pool}, v \in VarRefs, val \in Text :
              /\ r \in Names => v = p.head[sc][r]
              /\ r \notin Names => v = f.var
              /\ \/ d = q
                 \/ r \notin Names /\ v # Nil /\ d = Store(q, v, val)
                 \/ r \in Names /\ d = Forget(q, r)
                 \/ r \in Names /\ v # Nil /\ d = Forget(EmptyStem(Store(q, v, val), v, rx), r)
                 \/ /\ r \in Names /\ v # Nil /\ q.mark[v] = NoProc
                    /\ d = Forget(Remove(q, sc, r, rx), r)
<1> DEFINE hit == r \in Names /\ Cached(p, id, r)
           q == IF hit THEN p ELSE f.pool
           v == IF hit THEN p.cache[r].var ELSE f.var
           val == IF q.value[v] = Null THEN Null ELSE r
           own == OwnName(r, f.tail)
<1>1. f.tail \in Text /\ f.var \in VarRefs
  BY FindTypes
<1>2. r \in Names => v = p.head[sc][r]
  BY DEF Cached, CoherentIn, Find
<1>3. r \notin Names => v = f.var
  OBVIOUS
<1>4. \/ d = q
      \/ r \notin Names /\ v # Nil /\ d = Store(q, v, own)
      \/ r \in Names /\ d = Forget(q, r)
      \/ r \in Names /\ v # Nil /\ d = Forget(EmptyStem(Store(q, v, val), v, rx), r)
      \/ r \in Names /\ v # Nil /\ q.mark[v] = NoProc /\ d = Forget(Remove(q, sc, r, rx), r)
  <2>1. CASE r \notin Names
    BY <2>1 DEF Drop
  <2>2. CASE r \in Names /\ v = Nil
    BY <2>2 DEF Drop
  <2>3. CASE r \in Names /\ v # Nil /\ q.mark[v] # NoProc
    BY <2>3 DEF Drop
  <2>4. CASE r \in Names /\ v # Nil /\ q.mark[v] = NoProc
    BY <2>4 DEF Drop
  <2> HIDE DEF q, v, val, own
  <2> QED BY <2>1, <2>2, <2>3, <2>4
<1>5. v \in VarRefs
  BY <1>1, <1>2, <1>3, ObjectFacts DEF VarRefs
<1>6. own \in Text
  BY <1>1, NameTypes
<1>7. q \in {p, f.pool}
  OBVIOUS
<1>8. r \in Names => val \in Text
  BY ConstantTypes
<1> HIDE DEF q, v, val, own
<1>9. CASE r \in Names
  BY <1>2, <1>4, <1>5, <1>7, <1>8, <1>9
<1>10. CASE r \notin Names
  BY <1>3, <1>4, <1>5, <1>6, <1>7, <1>10
<1> QED BY <1>9, <1>10

LEMMA IdleDrop ==
    ASSUME NEW p \in PoolType, Idle(p), NEW id \in IdRange, NEW sc \in Frames, NEW r \in Refs,
           CoherentIn(p, id, sc), NEW rx
    PROVE  Idle(Drop(p, id, sc, r, rx))
<1> DEFINE f == Find(p, id, sc, sc, r)
           d == Drop(p, id, sc, r, rx)
<1>1. PICK q \in {p, f.pool}, v \in VarRefs, val \in Text :
         /\ r \in Names => v = p.head[sc][r]
         /\ r \notin Names => v = f.var
         /\ \/ d = q
            \/ r \notin Names /\ v # Nil /\ d = Store(q, v, val)
            \/ r \in Names /\ d = Forget(q, r)
            \/ r \in Names /\ v # Nil /\ d = Forget(EmptyStem(Store(q, v, val), v, rx), r)
            \/ /\ r \in Names /\ v # Nil /\ q.mark[v] = NoProc
               /\ d = Forget(Remove(q, sc, r, rx), r)
  BY DropCases
<1>2. SameShape(p, f.pool) /\ SameShape(p, p)
  BY FindShape DEF SameShape
<1> HIDE DEF f, d
<1>3. SameShape(p, q)
  BY <1>2
<1>4. q \in PoolType /\ Idle(q) /\ q.head = p.head
  BY <1>3, IdleShape DEF SameShape
<1>5. v # Nil => v \in VarIds
  BY DEF VarRefs
<1>6. CASE d = q
  BY <1>4, <1>6 DEF d
<1>7. CASE d = Store(q, v, val)
  <2>1. Idle(d)
    BY <1>4, <1>7, StoreShape, IdleShape
  <2> QED BY <2>1 DEF d
<1>8. CASE r \in Names /\ d = Forget(q, r)
  <2>1. Idle(d)
    BY <1>4, <1>8, IdleForget
  <2> QED BY <2>1 DEF d
<1>9. CASE r \in Names /\ v # Nil /\ d = Forget(EmptyStem(Store(q, v, val), v, rx), r)
  <2>1. /\ Idle(EmptyStem(Store(q, v, val), v, rx))
        /\ EmptyStem(Store(q, v, val), v, rx) \in PoolType
    BY <1>4, <1>5, <1>9, IdleClear
  <2>2. Idle(d)
    BY <1>9, <2>1, IdleForget
  <2> QED BY <2>2 DEF d
<1>10. CASE /\ r \in Names /\ v # Nil /\ q.mark[v] = NoProc
            /\ d = Forget(Remove(q, sc, r, rx), r)
  <2>1. q.head[sc][r] = v
    BY <1>1, <1>4, <1>10
  <2>2. Idle(Remove(q, sc, r, rx))
    BY <1>4, <1>10, <2>1, IdleRemove
  <2>3. Remove(q, sc, r, rx) \in PoolType
    BY <1>4, <1>10, RemoveFacts
  <2>4. Idle(d)
    BY <1>10, <2>2, <2>3, IdleForget
  <2> QED BY <2>4 DEF d
<1> QED BY <1>1, <1>6, <1>7, <1>8, <1>9, <1>10

LEMMA DropNameCases ==
    ASSUME NEW p \in PoolType, NEW sc \in Frames, NEW r \in Refs, NEW rx,
           NEW f, f = FindName(p, sc, r),
           NEW d, d = DropName(p, sc, r, rx)
    PROVE  \E v \in VarRefs, val \in Text :
              /\ v = f.var /\ (r \in Names => v = p.head[sc][r])
              /\ \/ d = p
                 \/ /\ v # Nil /\ p.mark[v] # NoProc
                    /\ d = EmptyStem(Store(p, v, val), v, rx)
                 \/ v # Nil /\ d = Store(p, v, val)
                 \/ /\ r \in Names /\ v # Nil /\ p.mark[v] = NoProc
                    /\ d = Forget(Remove(p, sc, r, rx), r)
<1>1. f.tail \in Text /\ f.var \in VarRefs
  BY FindTypes DEF FindName
<1>2. r \in Names => f.var = p.head[sc][r]
  BY DEF FindName, Find
<1>3. Written(r) \in Text /\ OwnName(r, f.tail) \in Text
  BY <1>1, NameTypes
<1>4. CASE f.var = Nil
  BY <1>1, <1>2, <1>3, <1>4 DEF DropName
<1>5. CASE f.var # Nil /\ p.mark[f.var] # NoProc
  <2>1. d = EmptyStem(Store(p, f.var, Written(r)), f.var, rx)
    BY <1>5 DEF DropName
  <2> QED BY <1>1, <1>2, <1>3, <1>5, <2>1
<1>6. CASE f.var # Nil /\ p.mark[f.var] = NoProc /\ r \notin Names
  <2>1. d = Store(p, f.var, OwnName(r, f.tail))
    BY <1>6 DEF DropName
  <2> QED BY <1>1, <1>2, <1>3, <1>6, <2>1
<1>7. CASE f.var # Nil /\ p.mark[f.var] = NoProc /\ r \in Names
  <2>1. d = Forget(Remove(p, sc, r, rx), r)
    BY <1>7 DEF DropName
  <2> QED BY <1>1, <1>2, <1>3, <1>7, <2>1
<1> QED BY <1>4, <1>5, <1>6, <1>7

LEMMA IdleDropName ==
    ASSUME NEW p \in PoolType, Idle(p), NEW sc \in Frames, NEW r \in Refs, NEW rx
    PROVE  Idle(DropName(p, sc, r, rx))
<1> DEFINE f == FindName(p, sc, r)
           d == DropName(p, sc, r, rx)
<1>1. PICK v \in VarRefs, val \in Text :
         /\ v = f.var /\ (r \in Names => v = p.head[sc][r])
         /\ \/ d = p
            \/ /\ v # Nil /\ p.mark[v] # NoProc
               /\ d = EmptyStem(Store(p, v, val), v, rx)
            \/ v # Nil /\ d = Store(p, v, val)
            \/ /\ r \in Names /\ v # Nil /\ p.mark[v] = NoProc
               /\ d = Forget(Remove(p, sc, r, rx), r)
  BY DropNameCases
<1> HIDE DEF f, d
<1>2. v # Nil => v \in VarIds
  BY DEF VarRefs
<1>3. CASE d = p
  BY <1>3 DEF d
<1>4. CASE v # Nil /\ d = EmptyStem(Store(p, v, val), v, rx)
  <2>1. Idle(d)
    BY <1>2, <1>4, IdleClear
  <2> QED BY <2>1 DEF d
<1>5. CASE d = Store(p, v, val)
  <2>1. Idle(d)
    BY <1>5, StoreShape, IdleShape
  <2> QED BY <2>1 DEF d
<1>6. CASE /\ r \in Names /\ v # Nil /\ p.mark[v] = NoProc
           /\ d = Forget(Remove(p, sc, r, rx), r)
  <2>1. Idle(Remove(p, sc, r, rx))
    BY <1>1, <1>6, IdleRemove
  <2>2. Remove(p, sc, r, rx) \in PoolType
    BY <1>6, RemoveFacts
  <2>3. Idle(d)
    BY <1>6, <2>1, <2>2, IdleForget
  <2> QED BY <2>3 DEF d
<1> QED BY <1>1, <1>3, <1>4, <1>5, <1>6

LEMMA IdleEnter ==
    ASSUME NEW p \in PoolType, Idle(p), NEW sc \in Frames, NEW r \in Refs, NEW t \in Text,
           NEW v \in VarIds, NEW w \in VarIds, r \in Names => p.head[sc][r] = Nil
    PROVE  Idle(Enter(p, sc, r, t, v, w))
<1>1. CASE r \in Names
  <2>1. Enter(p, sc, r, t, v, w) = SetHead(p, sc, r, v)
    BY <1>1 DEF Enter
  <2>2. p.live \subseteq p.live \cup {v}
    OBVIOUS
  <2> QED BY <1>1, <2>1, <2>2, IdleHead
<1>2. CASE r \notin Names
  <2> DEFINE none == p.head[sc][r[1]] = Nil
             h == IF none THEN w ELSE p.head[sc][r[1]]
             b == Alloc(p, w, Null)
             q == IF none THEN SetHead(b, sc, r[1], w) ELSE p
             s == <<t, IF t \in Split THEN "first" ELSE "hash">>
             z == [q EXCEPT !.tail[h][s] = v]
             e == Enter(p, sc, r, t, v, w)
  <2>1. r[1] \in Names /\ s \in Slots
    BY <1>2, ConstantTypes DEF Names, Slots
  <2>2. e = q \/ e = z
    BY <1>2 DEF Enter
  <2>3. b \in PoolType /\ b.head = p.head /\ b.tail = p.tail /\ b.live \subseteq p.live \cup {w}
    BY AllocOnly, ConstantTypes
  <2> HIDE DEF b
  <2>4. q \in PoolType /\ Idle(q) /\ h \in Objects(q)
    <3>1. CASE none
      <4>1. Idle(SetHead(b, sc, r[1], w))
        BY <2>1, <2>3, <3>1, IdleHead
      <4>2. w \in Objects(SetHead(b, sc, r[1], w))
        BY <2>1, <2>3, HeadThere
      <4>3. w \in VarRefs
        BY DEF VarRefs
      <4>4. SetHead(b, sc, r[1], w) \in PoolType
        BY <2>1, <2>3, <4>3, HeadFields
      <4> QED BY <3>1, <4>1, <4>2, <4>4
    <3>2. CASE ~none
      BY <2>1, <3>2, ObjectFacts
    <3> QED BY <3>1, <3>2
  <2> HIDE DEF h, q, s, e
  <2>5. Idle(z)
    BY <2>1, <2>4, IdleTail
  <2> HIDE DEF z
  <2>6. Idle(e)
    BY <2>2, <2>4, <2>5
  <2> QED BY <2>6 DEF e
<1> QED BY <1>1, <1>2

LEMMA IdleOldVar ==
    ASSUME NEW p \in PoolType, Idle(p), NEW id, NEW sc \in Frames, NEW old \in Frames,
           NEW r \in Refs, NEW v \in VarIds, NEW w \in VarIds
    PROVE  Idle(OldVar(p, id, old, sc, r, v, w).pool)
<1> DEFINE g == FindOld(p, id, old, sc, r)
           o == OldVar(p, id, old, sc, r, v, w)
<1>0. NoCache \in IdRange
  BY PoolConstants DEF IdRange, NoCache
<1>1. SameShape(p, g.pool)
  BY <1>0, FindShape DEF FindOld
<1>2. g.var \in VarRefs /\ g.stem \in VarRefs /\ g.tail \in Text
  BY FindTypes DEF FindOld
<1>3. r \in Names => g.var = p.head[old][r]
  BY DEF FindOld, Find
<1>4. r \notin Names => g.stem = p.head[old][r[1]]
  BY FindStem DEF FindOld
<1>5. g.pool \in PoolType /\ Idle(g.pool) /\ g.pool.head = p.head
  BY <1>1, IdleShape DEF SameShape
<1>6. CASE g.var # Nil
  <2>1. o.pool = g.pool
    BY <1>6 DEF OldVar
  <2> QED BY <1>5, <2>1
<1>7. CASE g.var = Nil
  <2> DEFINE a == Add(g.pool, old, r, g.stem, g.tail, v, w)
             name == OwnName(r, g.tail)
  <2>1. o.pool = Store(a, v, name)
    BY <1>7 DEF OldVar
  <2>2. name \in Text
    BY <1>2, NameTypes
  <2> HIDE DEF g, o, name
  <2>3. Idle(a)
    BY <1>2, <1>3, <1>4, <1>5, <1>7, IdleAdd
  <2>4. Adds(g.pool, a, old)
    BY <1>2, <1>3, <1>4, <1>5, <1>7, AddAdds
  <2> HIDE DEF a
  <2>5. Idle(Store(a, v, name))
    BY <2>2, <2>3, <2>4, StoreShape, IdleShape DEF Adds
  <2>6. Idle(o.pool)
    BY <2>1, <2>5
  <2> QED BY <2>6 DEF o
<1> QED BY <1>6, <1>7

LEMMA IdleMarked ==
    ASSUME NEW p \in PoolType, Idle(p), NEW v \in VarIds, NEW rx \in Frames
    PROVE  Idle(Marked(p, v, rx))
<1> DEFINE q == Marked(p, v, rx)
<1>1. q.head = p.head /\ q.tail = p.tail /\ q.live = p.live
  BY MarkedFields
<1> HIDE DEF q
<1>2. Idle(q)
  BY <1>1 DEF Idle, Objects
<1> QED BY <1>2 DEF q

LEMMA IdleExpose ==
    ASSUME NEW p \in PoolType, Idle(p), NEW id \in IdRange, NEW sc \in Frames,
           NEW old \in Frames, sc # old, NEW r \in Refs, NEW rx \in Frames,
           NEW new \in VarIds \X VarIds \X VarIds
    PROVE  Idle(Expose(p, id, sc, old, r, rx, new))
<1> DEFINE f == Find(p, id, sc, sc, r)
           o == OldVar(f.pool, id, old, sc, r, new[1], new[2])
           a == Marked(o.pool, o.var, rx)
           e == Enter(a, sc, r, o.tail, o.var, new[3])
           x == Expose(p, id, sc, old, r, rx, new)
<1>1. SameShape(p, f.pool)
  BY FindShape
<1>2. r \in Names => f.var = p.head[sc][r]
  BY DEF Find
<1>3. x = f.pool \/ (x = e /\ f.var = Nil)
  BY DEF Expose
<1> HIDE DEF f
<1>4. f.pool \in PoolType /\ Idle(f.pool) /\ f.pool.head = p.head
  BY <1>1, IdleShape DEF SameShape
<1>5. CASE x = f.pool
  BY <1>4, <1>5
<1>6. CASE x = e /\ f.var = Nil
  <2>1. new[1] \in VarIds /\ new[2] \in VarIds /\ new[3] \in VarIds
    OBVIOUS
  <2>2. /\ o.pool \in PoolType /\ Grows(f.pool, o.pool, {old})
        /\ o.var \in VarIds /\ o.tail \in Text
    BY <1>4, <2>1, OldVarFacts
  <2>3. Idle(o.pool)
    BY <1>4, <2>1, IdleOldVar
  <2> HIDE DEF o, x
  <2>4. a \in PoolType /\ a.head = o.pool.head
    <3> DEFINE q == o.pool
               v == o.var
    <3>1. q \in PoolType /\ v \in VarIds
      BY <2>2
    <3> HIDE DEF q, v
    <3>2. Marked(q, v, rx) \in PoolType /\ Marked(q, v, rx).head = q.head
      BY <3>1, MarkedFields
    <3> QED BY <3>2 DEF q, v
  <2>5. Idle(a)
    BY <2>2, <2>3, IdleMarked
  <2>6. r \in Names => o.pool.head[sc][r] = Nil
    BY <1>2, <1>4, <1>6, <2>2 DEF Grows
  <2> HIDE DEF a
  <2>7. Idle(e)
    BY <2>1, <2>2, <2>4, <2>5, <2>6, IdleEnter
  <2> HIDE DEF e
  <2>8. Idle(x)
    BY <1>6, <2>7
  <2> QED BY <2>8 DEF x
<1> QED BY <1>3, <1>5, <1>6

\* When a scope is freed, a marked object in it stays in another one.
LEMMA IdleFree ==
    ASSUME NEW p, Idle(p), NEW pr, NEW rx, NEW cnt, Framed(pr, rx, cnt),
           Owned(p, pr, rx), NEW f \in 0..rx, pr[f].scope = f
    PROVE  Idle(ScopeFree(p, f, f))
<1> DEFINE V == HeadsOf(p, f)
           h == [p.head EXCEPT ![f] = NoHeads]
           a == [p EXCEPT !.head = h]
           q == ScopeFree(p, f, f)
           freed == {v \in V \cup TailsOf(a, {v \in V : a.mark[v] = NoProc}) : a.mark[v] = NoProc}
<1>1. p \in PoolType /\ Accounted(p, pr, rx)
  BY DEF Owned, Tidy
<1>2. f \in Frames /\ f \in Int /\ f \in Used(pr, rx)
  BY FramedFacts DEF Used
<1>3. h \in [Frames -> [Names -> VarRefs]]
  BY <1>1, ConstantTypes DEF PoolType, VarRefs
<1>4. q = Release(a, V, f)
  BY DEF ScopeFree
<1>5. /\ q \in PoolType /\ q.head[f] = NoHeads
      /\ \A s \in Frames \ {f} : q.head[s] = p.head[s]
  BY <1>1, <1>2, ScopeFreeFacts
<1> HIDE DEF h
<1>6. a \in PoolType /\ a.tail = p.tail /\ a.mark = p.mark /\ a.live = p.live
  BY <1>1, <1>3 DEF PoolType, VarRefs
<1> HIDE DEF V, a
<1>7. /\ q.live = a.live \ freed
      /\ q.tail = [v \in VarIds |-> IF v \in freed THEN NoTails ELSE a.tail[v]]
  BY <1>4, <1>6 DEF Release, PoolType
<1>8. \A v \in V : p.mark[v] = NoProc => v \in freed
  BY <1>6
<1> HIDE DEF q, freed
<1>9. ASSUME NEW n \in Names, p.head[f][n] # Nil, p.mark[p.head[f][n]] # NoProc
      PROVE  p.head[f][n] \in Objects(q)
  <2> DEFINE v == p.head[f][n]
             m == p.mark[v]
             H == Sharers(p, pr, rx, n, v)
  <2>1. v \in VarIds /\ Marks(p, pr, rx, f, n)
    BY <1>1, <1>2, <1>9, ObjectFacts DEF Accounted
  <2>2. /\ m + 1 \in 0..rx /\ pr[m + 1].scope = m + 1
        /\ pr[m].scope \in H /\ m + 1 \in H
    BY <1>9, <2>1 DEF Marks
  <2>3. m \in Int /\ m >= 0
    <3>1. m \in -1..MaxProc
      BY <1>1, <2>1 DEF PoolType
    <3> QED BY <1>9, <3>1, PoolConstants DEF NoProc
  <2>4. \A s \in H : s \in Used(pr, rx) /\ p.head[s][n] = v
    BY DEF Sharers
  <2>5. Used(pr, rx) \subseteq Frames
    BY UsedFrames
  <2> HIDE DEF m, H, v
  <2>6. \E s \in H : s # f
    <3>1. CASE m + 1 # f
      BY <2>2, <3>1
    <3>2. CASE m + 1 = f
      <4>1. m \in 0..rx
        BY <2>2, <2>3, FramedFacts
      <4>2. pr[m].scope \in Int /\ pr[m].scope <= m
        BY <4>1, FramedFacts
      <4> QED BY <1>2, <2>2, <2>3, <3>2, <4>2
    <3> QED BY <3>1, <3>2
  <2>7. PICK s \in Frames \ {f} : p.head[s][n] = v
    BY <2>4, <2>5, <2>6
  <2>8. q.head[s][n] = v /\ v # Nil
    BY <1>5, <1>9, <2>7 DEF v
  <2>9. v \in Objects(q)
    BY <2>7, <2>8 DEF Objects
  <2> QED BY <2>9 DEF v
<1>10. ASSUME NEW v \in Objects(p), v \notin Objects(q) PROVE v \in freed
  <2>1. PICK s \in Frames, n \in Names : v = p.head[s][n] /\ v # Nil
    BY <1>10 DEF Objects
  <2>2. s = f
    <3> SUFFICES ASSUME s # f PROVE FALSE
      OBVIOUS
    <3>1. q.head[s][n] = v
      BY <1>5, <2>1
    <3> QED BY <1>10, <2>1, <3>1 DEF Objects
  <2>3. v \in V
    BY <2>1, <2>2 DEF V, HeadsOf
  <2> QED BY <1>8, <1>9, <1>10, <2>1, <2>2, <2>3
<1>11. ASSUME NEW v \in VarIds, v \notin Objects(q)
       PROVE  \/ v \notin Objects(p) /\ q.tail[v] = p.tail[v] /\ (v \in q.live => v \in p.live)
              \/ q.tail[v] = NoTails /\ (Stems = {} => v \notin q.live)
  <2>1. CASE v \in freed
    BY <1>7, <2>1
  <2>2. CASE v \notin freed
    BY <1>6, <1>7, <1>10, <1>11, <2>2
  <2> QED BY <2>1, <2>2
<1>12. Idle(q)
  BY <1>11, IdleBy
<1> QED BY <1>12 DEF q

-----------------------------------------------------------------------------
(* The actions.                                                            *)

LEMMA LoadIdle ==
    ASSUME MarksInv, Idle(pool), NEW r \in Lits, Load(r)
    PROVE  Idle(pool')
<1>1. Running /\ pool' = Find(pool, Id, Scope, Scope, r).pool /\ r \in Refs
  BY PoolConstants DEF Load
<1>2. SameShape(pool, pool')
  BY <1>1, MarksFacts, RunningFacts, FindShape DEF Running
<1> QED BY <1>2, IdleShape

LEMMA AssignIdle ==
    ASSUME MarksInv, Idle(pool), NEW r \in Lits, NEW val \in Data, Assign(r, val)
    PROVE  Idle(pool')
<1> DEFINE c == Create(pool, Id, Scope, r, Fresh[1], Fresh[2])
           q == Store(c.pool, c.var, val)
           z == IF r \in Stems THEN ScopeAssign(q, c.var) ELSE q
<1>1. Running /\ Room /\ pool' = z
  BY DEF Assign
<1>2. /\ pool \in PoolType /\ Id \in IdRange /\ Id # NoCache /\ Scope \in Frames
      /\ CoherentIn(pool, Id, Scope)
  BY <1>1, MarksFacts, RunningFacts DEF Running
<1>3. r \in Refs /\ val \in Text
  BY PoolConstants
<1>4. Fresh[1] \in VarIds /\ Fresh[2] \in VarIds
  BY <1>1, FreshTypes
<1>5. Idle(c.pool)
  BY <1>2, <1>3, <1>4, IdleCreate
<1>6. c.pool \in PoolType /\ c.var \in VarIds
  BY <1>2, <1>3, <1>4, CreateGood DEF Good
<1> HIDE DEF c
<1>7. SameShape(c.pool, q)
  BY <1>3, <1>6, StoreShape
<1> HIDE DEF q
<1>8. SameShape(q, z)
  BY <1>6, <1>7, AssignShape DEF SameShape
<1> HIDE DEF z
<1>9. Idle(z)
  BY <1>5, <1>7, <1>8, IdleShape
<1> QED BY <1>1, <1>9

LEMMA DropVarIdle ==
    ASSUME MarksInv, Idle(pool), NEW r \in Lits, DropVar(r)
    PROVE  Idle(pool')
<1>1. pool' = Drop(pool, Id, Scope, r, rx_proc) /\ r \in Refs /\ rx_proc >= 0
  BY PoolConstants DEF DropVar, Running
<1>2. /\ pool \in PoolType /\ Id \in IdRange /\ Scope \in Frames
      /\ CoherentIn(pool, Id, Scope)
  BY <1>1, MarksFacts, RunningFacts
<1> QED BY <1>1, <1>2, IdleDrop

LEMMA DropNextIdle ==
    ASSUME MarksInv, Idle(pool), DropNext
    PROVE  Idle(pool')
<1> DEFINE r == Head(pending).ref
<1>1. pending # << >> /\ pool' = DropName(pool, Scope, r, rx_proc)
  BY DEF DropNext
<1>2. PendingOK /\ r \in Refs /\ rx_proc >= 0
  BY <1>1, MarksFacts, TailFacts DEF IInv, PendingOK
<1>3. pool \in PoolType /\ Scope \in Frames
  BY <1>2, MarksFacts, RunningFacts
<1> HIDE DEF r
<1> QED BY <1>1, <1>2, <1>3, IdleDropName

LEMMA PoolSetIdle ==
    ASSUME MarksInv, Idle(pool), NEW k \in 0..rx_proc, NEW r \in PoolNames, NEW val \in Data,
           PoolSet(k, r, val)
    PROVE  Idle(pool')
<1> DEFINE sc == proc[k].scope
           f == FindName(pool, sc, r)
           v == IF f.var = Nil THEN Fresh[1] ELSE f.var
           q == IF f.var = Nil
                THEN Add(pool, sc, r, f.stem, f.tail, Fresh[1], Fresh[2])
                ELSE pool
           z == Store(q, v, val)
<1>1. Room /\ pool' = z
  BY DEF PoolSet
<1>2. r \in Refs /\ val \in Text
  BY PoolConstants
<1>3. pool \in PoolType /\ sc \in Frames
  BY MarksFacts, FramedId
<1>4. Fresh[1] \in VarIds /\ Fresh[2] \in VarIds
  BY <1>1, FreshTypes
<1>5. f.stem \in VarRefs /\ f.tail \in Text
  BY <1>2, <1>3, FindTypes DEF FindName
<1>6. r \in Names => f.var = pool.head[sc][r]
  BY DEF FindName, Find
<1>7. r \notin Names => f.stem = pool.head[sc][r[1]]
  BY <1>2, <1>3, FindStem DEF FindName
<1> HIDE DEF f, sc
<1>8. Idle(q) /\ q \in PoolType
  <2>1. CASE f.var = Nil
    <3>1. q = Add(pool, sc, r, f.stem, f.tail, Fresh[1], Fresh[2])
      BY <2>1
    <3>2. Adds(pool, q, sc)
      BY <1>2, <1>3, <1>4, <1>5, <1>6, <1>7, <2>1, <3>1, AddAdds
    <3> HIDE DEF q
    <3>3. Idle(q)
      BY <1>2, <1>3, <1>4, <1>5, <1>6, <1>7, <2>1, <3>1, IdleAdd
    <3> QED BY <3>2, <3>3 DEF Adds
  <2>2. CASE f.var # Nil
    <3>1. q = pool
      BY <2>2
    <3> HIDE DEF q
    <3> QED BY <1>3, <3>1
  <2> QED BY <2>1, <2>2
<1> HIDE DEF q, v
<1>9. SameShape(q, z)
  BY <1>2, <1>8, StoreShape
<1> HIDE DEF z
<1> QED BY <1>1, <1>8, <1>9, IdleShape

LEMMA SetsIdle ==
    ASSUME MarksInv, Idle(pool), NEW line \in Data, Running, Room,
           NEW q, q = VarSet(pool, Id, Scope, Sigl, line, Fresh[1])
    PROVE  Idle(q)
<1>1. /\ pool \in PoolType /\ Id \in IdRange /\ Id # NoCache /\ Scope \in Frames
      /\ CoherentIn(pool, Id, Scope)
  BY MarksFacts, RunningFacts DEF Running
<1>2. Sigl \in Names /\ line \in Text /\ Fresh[1] \in VarIds
  BY PoolConstants, FreshTypes DEF Names
<1> QED BY <1>1, <1>2, IdleVarSet

LEMMA CallerIdle ==
    ASSUME MarksInv, Idle(pool), Running, Room, NEW target \in Targets \cup {Nil},
           NEW line \in Data,
           NEW c, c = Created(target)
    PROVE  Idle(VarSet(c.pool, Id, Scope, Sigl, line, Fresh[3]))
<1>1. /\ pool \in PoolType /\ Id \in IdRange /\ Id # NoCache /\ Scope \in Frames
      /\ CoherentIn(pool, Id, Scope)
  BY MarksFacts, RunningFacts DEF Running
<1>2. line \in Text /\ Sigl \in Names /\ (target # Nil => target \in Refs)
  BY PoolConstants DEF Names
<1>3. Fresh[1] \in VarIds /\ Fresh[2] \in VarIds /\ Fresh[3] \in VarIds
  BY FreshTypes
<1>4. Good(pool, c.pool, Id, Scope, {Scope}) /\ Idle(c.pool)
  <2>1. CASE target # Nil
    <3>1. c = Create(pool, Id, Scope, target, Fresh[1], Fresh[2])
      BY <2>1 DEF Created
    <3>2. target \in Refs
      BY <1>2, <2>1
    <3>3. Good(pool, Create(pool, Id, Scope, target, Fresh[1], Fresh[2]).pool, Id, Scope, {Scope})
      BY <1>1, <1>3, <3>2, CreateGood
    <3>4. Idle(Create(pool, Id, Scope, target, Fresh[1], Fresh[2]).pool)
      BY <1>1, <1>3, <3>2, IdleCreate
    <3> QED BY <3>1, <3>3, <3>4
  <2>2. CASE target = Nil
    <3>1. c.pool = pool
      BY <2>2 DEF Created
    <3> QED BY <1>1, <3>1, QuietGood DEF Quiet
  <2> QED BY <2>1, <2>2
<1>5. c.pool \in PoolType
  BY <1>4 DEF Good
<1>6. CoherentIn(c.pool, Id, Scope)
  BY <1>1, <1>4, GoodCoherent
<1> QED BY <1>1, <1>2, <1>3, <1>4, <1>5, <1>6, IdleVarSet

LEMMA ExposedIdle ==
    ASSUME MarksInv, Idle(pool), pending # << >>, Head(pending).op # "drop", Room, NEW r \in Refs,
           NEW q, q = Expose(pool, Id, Scope, proc[rx_proc - 1].scope, r, rx_proc, Fresh)
    PROVE  Idle(q)
<1> DEFINE old == proc[rx_proc - 1].scope
           new == Fresh
<1>1. rx_proc > 0 /\ Scope # old /\ old \in Frames
  BY MarksFacts, ExposingFacts
<1>2. rx_proc >= 0
  BY <1>1, MarksFacts, FramedFacts
<1>3. pool \in PoolType /\ Id \in IdRange /\ Scope \in Frames /\ rx_proc \in Frames
  BY <1>2, MarksFacts, RunningFacts
<1>4. new \in VarIds \X VarIds \X VarIds
  BY FreshTypes
<1> HIDE DEF old, new
<1> QED BY <1>1, <1>3, <1>4, IdleExpose DEF old, new

LEMMA ExposingIdle ==
    ASSUME MarksInv, Idle(pool), ExposeNext \/ ExposeIndirect
    PROVE  Idle(pool')
<1> DEFINE r == Head(pending).ref
           old == proc[rx_proc - 1].scope
           q == Expose(pool, Id, Scope, proc[rx_proc - 1].scope, r, rx_proc, Fresh)
<1>1. pending # << >> /\ Head(pending).op # "drop" /\ Room
  BY DEF ExposeNext, ExposeIndirect
<1>2. \/ pool' = pool
      \/ pool' = q
      \/ pool' = Find(q, Id, old, Scope, r).pool
  BY DEF ExposeNext, ExposeIndirect
<1>3. r \in Refs
  BY <1>1, MarksFacts, TailFacts DEF IInv
<1>4. q \in PoolType /\ Idle(q)
  BY <1>1, <1>3, MarksFacts, ExposedStep, ExposedIdle
<1>5. rx_proc > 0 /\ Scope = rx_proc /\ old \in Frames
  BY <1>1, MarksFacts, ExposingFacts
<1>6. rx_proc >= 0
  BY <1>5, MarksFacts, FramedFacts
<1>7. Id \in IdRange /\ Scope \in Frames
  BY <1>6, MarksFacts, RunningFacts
<1> HIDE DEF q, old, r
<1>8. SameShape(q, Find(q, Id, old, Scope, r).pool)
  BY <1>3, <1>4, <1>5, <1>7, FindShape
<1> QED BY <1>2, <1>4, <1>8, IdleShape

LEMMA PopIdle ==
    ASSUME MarksInv, NEW f \in 0..rx_proc, NEW p, Idle(p), Owned(p, proc, rx_proc),
           NEW q, q = IF f = 0 \/ proc[f].scope # proc[f - 1].scope
                      THEN ScopeFree(p, proc[f].scope, f) ELSE p
    PROVE  Idle(q)
<1>1. Framed(proc, rx_proc, procidcnt)
  BY MarksFacts
<1>2. CASE q = p
  BY <1>2
<1>3. CASE f = 0 \/ proc[f].scope # proc[f - 1].scope
  <2>1. f \in Int /\ 0 <= f /\ proc[f].scope \in Frames /\ proc[f].scope <= f
        /\ proc[f].scope \in Int
    BY <1>1, FramedFacts
  <2>2. proc[f].scope >= 0
    BY <2>1 DEF Frames
  <2>3. proc[f].scope = f
    <3>1. CASE f = 0
      BY <2>1, <2>2, <3>1
    <3>2. CASE f # 0
      BY <1>1, <1>3, <3>2 DEF Framed
    <3> QED BY <3>1, <3>2
  <2>4. q = ScopeFree(p, f, f)
    BY <1>3, <2>3
  <2> QED BY <1>1, <2>3, <2>4, IdleFree
<1> QED BY <1>2, <1>3

LEMMA ReturnFIdle ==
    ASSUME MarksInv, Idle(pool), NEW val \in Data, ReturnF(val)
    PROVE  Idle(pool')
<1> DEFINE Set(f) == VarSet(AfterPop(f), proc[f - 1].id, proc[f - 1].scope,
                            Result, val, Fresh[1])
           Put(f) == Store(pool, proc[f].r, val)
           Popped(p, f) == IF proc[f].scope # proc[f - 1].scope
                           THEN ScopeFree(p, proc[f].scope, f) ELSE p
<1>1. PICK f \in 1..rx_proc :
         /\ PopTo(f)
         /\ \/ pool' = Set(f)
            \/ pool' = Popped(Put(f), f)
            \/ pool' = Popped(pool, f)
  BY DEF ReturnF, AfterPop
<1>2. Room
  BY DEF ReturnF
<1>3. /\ Framed(proc, rx_proc, procidcnt) /\ Sound(pool, proc, rx_proc, procidcnt)
      /\ Owned(pool, proc, rx_proc) /\ pool \in PoolType
      /\ Used(proc, rx_proc) \subseteq Frames
  BY MarksFacts
<1>4. val \in Text /\ Result \in Names
  BY PoolConstants DEF Names
<1>5. f \in 0..rx_proc /\ f # 0
  BY <1>3, FramedFacts
<1>6. ASSUME NEW p, Idle(p), Owned(p, proc, rx_proc), NEW q, q = Popped(p, f)
      PROVE  Idle(q)
  <2>1. q = IF f = 0 \/ proc[f].scope # proc[f - 1].scope
            THEN ScopeFree(p, proc[f].scope, f) ELSE p
    BY <1>5, <1>6
  <2> QED BY <1>5, <1>6, <2>1, PopIdle
<1>7. CASE pool' = Popped(pool, f)
  BY <1>3, <1>6, <1>7
<1>8. CASE pool' = Popped(Put(f), f)
  <2>1. SameShape(pool, Put(f))
    BY <1>3, <1>4, StoreShape
  <2> HIDE DEF Put
  <2>2. Keeps(pool, Put(f), proc, rx_proc, {})
    BY <1>3, <2>1, ShapeKeeps
  <2>3. Owned(Put(f), proc, rx_proc)
    BY <1>3, <2>2 DEF Keeps
  <2>4. Idle(Put(f))
    BY <2>1, IdleShape
  <2> QED BY <1>6, <1>8, <2>3, <2>4
<1>9. CASE pool' = Set(f)
  <2> DEFINE a == AfterPop(f)
             k == f - 1
  <2>1. a = Popped(pool, f)
    BY DEF AfterPop
  <2>2. Idle(a)
    BY <1>3, <1>6, <2>1
  <2>3. /\ k \in 0..k /\ Framed(proc', k, procidcnt)
        /\ Sound(a, proc', k, procidcnt) /\ proc'[k] = proc[k]
    BY <1>1, <1>3, <2>1, PopFacts
  <2>4. pool' = VarSet(a, proc[k].id, proc[k].scope, Result, val, Fresh[1])
    BY <1>9
  <2> HIDE DEF a, k
  <2>5. proc[k].id \in IdRange /\ proc[k].id # NoCache /\ proc[k].scope \in Frames
    BY <2>3, FramedId
  <2>6. a \in PoolType /\ CoherentIn(a, proc[k].id, proc[k].scope)
    BY <2>3 DEF Sound
  <2>7. Fresh[1] \in VarIds
    BY <1>2, FreshTypes
  <2> QED BY <1>4, <2>2, <2>4, <2>5, <2>6, <2>7, IdleVarSet
<1> QED BY <1>1, <1>7, <1>8, <1>9

LEMMA ReturnIdle ==
    ASSUME MarksInv, Idle(pool), Return
    PROVE  Idle(pool')
<1>1. PICK f \in 1..rx_proc : PopTo(f) /\ pool' = AfterPop(f)
  BY DEF Return
<1>2. Framed(proc, rx_proc, procidcnt) /\ Owned(pool, proc, rx_proc)
  BY MarksFacts
<1>3. f \in 0..rx_proc /\ f # 0
  BY <1>2, FramedFacts
<1>4. pool' = IF f = 0 \/ proc[f].scope # proc[f - 1].scope
              THEN ScopeFree(pool, proc[f].scope, f) ELSE pool
  BY <1>1, <1>3 DEF AfterPop
<1> QED BY <1>2, <1>3, <1>4, PopIdle

LEMMA UnwindIdle ==
    ASSUME MarksInv, Idle(pool), Unwind
    PROVE  Idle(pool')
<1>1. /\ rx_proc >= 0
      /\ pool' = IF rx_proc = 0 \/ proc[rx_proc].scope # proc[rx_proc - 1].scope
                 THEN ScopeFree(pool, proc[rx_proc].scope, rx_proc) ELSE pool
  BY DEF Unwind, Scope
<1>2. rx_proc \in 0..rx_proc /\ Owned(pool, proc, rx_proc)
  BY <1>1, MarksFacts, RunningFacts
<1> QED BY <1>1, <1>2, PopIdle

ReachInv == MarksInv /\ Idle(pool)

LEMMA InitReach == Init => ReachInv
<1> SUFFICES ASSUME Init PROVE ReachInv
  OBVIOUS
<1>1. MarksInv
  BY InitMarks
<1>2. pool.live = {} /\ \A v \in VarIds : pool.tail[v] = NoTails
  BY DEF Init
<1> QED BY <1>1, <1>2 DEF ReachInv, Idle

LEMMA NextReach == ListsSimple /\ ReachInv /\ [Next]_vars => ReachInv'
<1> SUFFICES ASSUME ListsSimple, ReachInv, [Next]_vars PROVE ReachInv'
  OBVIOUS
<1> DEFINE Goal == Idle(pool')
<1>0. MarksInv /\ MarksInv' /\ Idle(pool)
  BY NextMarks DEF ReachInv
<1>1. ASSUME NEW r \in Lits, Load(r) PROVE Goal
  BY <1>0, <1>1, LoadIdle
<1>2. ASSUME NEW r \in Lits, DropVar(r) PROVE Goal
  BY <1>0, <1>2, DropVarIdle
<1>3. ASSUME NEW r \in Lits, NEW val \in Data, Assign(r, val) PROVE Goal
  BY <1>0, <1>3, AssignIdle
<1>4. ASSUME NEW ws \in DropLists, DropList(ws) PROVE Goal
  BY <1>0, <1>4 DEF DropList
<1>5. ASSUME DropNext PROVE Goal
  BY <1>0, <1>5, DropNextIdle
<1>6. ASSUME NEW k \in 0..rx_proc, NEW r \in PoolNames, NEW val \in Data,
             PoolSet(k, r, val)
      PROVE  Goal
  BY <1>0, <1>6, PoolSetIdle
<1>7. ASSUME NEW line \in Data, Signal(line) PROVE Goal
  <2>1. Running /\ Room /\ pool' = VarSet(pool, Id, Scope, Sigl, line, Fresh[1])
    BY <1>7 DEF Signal
  <2> QED BY <1>0, <2>1, SetsIdle
<1>8. ASSUME NEW kind, NEW target \in Targets \cup {Nil}, NEW line \in Data,
             \/ Trap(target, line)
             \/ CallShared(kind, target, line)
             \/ \E list \in ExposeLists : CallProcedure(kind, target, line, list)
      PROVE  Goal
  <2> DEFINE c == Created(target)
  <2>1. /\ Running /\ Room
        /\ pool' = VarSet(c.pool, Id, Scope, Sigl, line, Fresh[3])
    BY <1>8 DEF Trap, CallShared, CallProcedure
  <2>2. Idle(VarSet(c.pool, Id, Scope, Sigl, line, Fresh[3]))
    BY <1>0, <2>1, CallerIdle
  <2> QED BY <2>1, <2>2
<1>9. ASSUME ExposeNext \/ ExposeIndirect PROVE Goal
  BY <1>0, <1>9, ExposingIdle
<1>10. ASSUME Interpret \/ InterEnd \/ Exit \/ UNCHANGED vars PROVE Goal
  BY <1>0, <1>10 DEF Interpret, InterEnd, Exit, vars
<1>11. ASSUME Return PROVE Goal
  BY <1>0, <1>11, ReturnIdle
<1>12. ASSUME NEW val \in Data, ReturnF(val) PROVE Goal
  BY <1>0, <1>12, ReturnFIdle
<1>13. ASSUME Unwind PROVE Goal
  BY <1>0, <1>13, UnwindIdle
<1>14. ASSUME NEW line \in Data, NEW target \in Targets \cup {Nil},
              \/ Trap(target, line)
              \/ CallShared("FUNCTION", target, line)
              \/ \E list \in ExposeLists : CallProcedure("FUNCTION", target, line, list)
       PROVE  Goal
  BY <1>8, <1>14
<1>15. ASSUME NEW line \in Data,
              \/ CallShared("PROCEDURE", Nil, line)
              \/ \E list \in ExposeLists : CallProcedure("PROCEDURE", Nil, line, list)
       PROVE  Goal
  <2>1. Nil \in Targets \cup {Nil}
    OBVIOUS
  <2> QED BY <1>8, <1>15, <2>1
<1> HIDE DEF Goal
<1>16. ASSUME Next PROVE Goal
  BY <1>1, <1>2, <1>3, <1>4, <1>5, <1>6, <1>7, <1>9, <1>10, <1>11, <1>12, <1>13,
     <1>14, <1>15, <1>16, Zenon DEF Next
<1>17. Goal
  BY <1>10, <1>16
<1> QED BY <1>0, <1>17 DEF ReachInv, Goal

LEMMA ReachAlways == ListsSimple => (Spec => []ReachInv)
<1> SUFFICES ASSUME ListsSimple PROVE Spec => []ReachInv
  OBVIOUS
<1>1. Init => ReachInv
  BY InitReach
<1>2. ReachInv /\ [Next]_vars => ReachInv'
  BY NextReach
<1> QED BY <1>1, <1>2, PTL DEF Spec

\* A program without stems loses no storage: whatever it calls, exposes, drops,
\* traps or leaves by EXIT, an object in use is a variable of a running scope, so
\* RxScopeFree and RxVarDel free every object that RxVarAdd made.  (With stems
\* this is false: a routine with an exposed tail that drops the stem inside an
\* INTERPRET leaves the mark on the tail, and then nobody frees it.)
THEOREM NothingLost == ListsSimple /\ Stems = {} => (Spec => []NoLeak)
<1> SUFFICES ASSUME ListsSimple, Stems = {} PROVE Spec => []NoLeak
  OBVIOUS
<1>1. Spec => []ReachInv
  BY ReachAlways
<1>2. ReachInv => NoLeak
  <2> SUFFICES ASSUME ReachInv, NEW v \in pool.live
               PROVE  v \in UNION {HeadsOf(pool, sc) : sc \in Scopes}
    BY DEF NoLeak
  <2>1. /\ MarksInv /\ Idle(pool) /\ pool \in PoolType /\ v \in VarIds
        /\ Scopes = Used(proc, rx_proc) /\ Closed(pool, proc, rx_proc)
    BY MarksFacts DEF ReachInv, Scopes, Used, Active, PoolType
  <2>2. v \in Objects(pool)
    BY <2>1 DEF Idle
  <2>3. PICK s \in Frames, n \in Names : v = pool.head[s][n] /\ v # Nil
    BY <2>2 DEF Objects
  <2>4. s \in Scopes
    BY <2>1, <2>3 DEF Closed, NoHeads
  <2>5. v \in HeadsOf(pool, s)
    BY <2>3 DEF HeadsOf
  <2> QED BY <2>4, <2>5
<1> QED BY <1>1, <1>2, PTL

-----------------------------------------------------------------------------
(* Isolation: what the operations of the pool may touch.                   *)

\* From p to q, no object in use but those in N is changed or freed.
Spares(p, q, N) == \A v \in p.live \ N : v \in q.live /\ q.value[v] = p.value[v]

\* Reach, of any pool.
Near(p, sc) == HeadsOf(p, sc) \cup TailsOf(p, HeadsOf(p, sc))

LEMMA SparesTrans ==
    ASSUME NEW p, NEW q, NEW s, NEW N, NEW M, Spares(p, q, N), Spares(q, s, M)
    PROVE  Spares(p, s, N \cup M)
BY DEF Spares

LEMMA SparesMore ==
    ASSUME NEW p, NEW q, NEW N, NEW M, Spares(p, q, N), N \subseteq M
    PROVE  Spares(p, q, M)
BY DEF Spares

LEMMA SparesSame ==
    ASSUME NEW p, NEW q, q.value = p.value, q.live = p.live, NEW N
    PROVE  Spares(p, q, N)
BY DEF Spares

LEMMA NearFacts ==
    ASSUME NEW p \in PoolType, NEW sc \in Frames, NEW n \in Names, p.head[sc][n] # Nil
    PROVE  /\ p.head[sc][n] \in Near(p, sc)
           /\ TailsOf(p, {p.head[sc][n]}) \subseteq Near(p, sc)
BY DEF Near, HeadsOf, TailsOf

LEMMA StoreSpares ==
    ASSUME NEW p \in PoolType, NEW v, NEW val
    PROVE  Spares(p, Store(p, v, val), {v})
<1> DEFINE w == [p.value EXCEPT ![v] = val]
           q == [p EXCEPT !.value = w]
<1>1. Store(p, v, val) = q
  BY DEF Store
<1>2. \A u \in VarIds : u # v => w[u] = p.value[u]
  BY DEF PoolType
<1> HIDE DEF w
<1>3. q.live = p.live /\ q.value = w /\ p.live \subseteq VarIds
  BY DEF PoolType
<1> HIDE DEF q
<1> QED BY <1>1, <1>2, <1>3 DEF Spares

LEMMA AllocSpares ==
    ASSUME NEW p \in PoolType, NEW v, NEW val
    PROVE  Spares(p, Alloc(p, v, val), {v})
<1> DEFINE w == [p.value EXCEPT ![v] = val]
           q == Alloc(p, v, val)
<1>1. q.live = p.live \cup {v} /\ q.value = w
  BY DEF Alloc, PoolType
<1>2. \A u \in VarIds : u # v => w[u] = p.value[u]
  BY DEF PoolType
<1>3. p.live \subseteq VarIds
  BY DEF PoolType
<1> HIDE DEF w, q
<1>4. Spares(p, q, {v})
  BY <1>1, <1>2, <1>3 DEF Spares
<1> QED BY <1>4 DEF q

LEMMA HeadSpares ==
    ASSUME NEW p, NEW sc, NEW n, NEW v, NEW N
    PROVE  Spares(p, SetHead(p, sc, n, v), N)
BY DEF SetHead, Spares

LEMMA MemoSpares ==
    ASSUME NEW p, NEW id, NEW sc, NEW n, NEW N
    PROVE  Spares(p, Memo(p, id, sc, n), N)
BY DEF Memo, Spares

LEMMA MemoFields ==
    ASSUME NEW p, NEW id, NEW sc, NEW n
    PROVE  Memo(p, id, sc, n).head = p.head /\ Memo(p, id, sc, n).tail = p.tail
BY DEF Memo

LEMMA ForgetSpares ==
    ASSUME NEW p, NEW n, NEW N
    PROVE  Spares(p, Forget(p, n), N)
BY DEF Forget, Spares

LEMMA MarkedSpares ==
    ASSUME NEW p, NEW v, NEW rx, NEW N
    PROVE  Spares(p, Marked(p, v, rx), N)
BY DEF Marked, Spares

LEMMA TailSpares ==
    ASSUME NEW p, NEW h, NEW s, NEW v, NEW N
    PROVE  Spares(p, [p EXCEPT !.tail[h][s] = v], N)
<1> DEFINE t == [p.tail EXCEPT ![h][s] = v]
           q == [p EXCEPT !.tail = t]
<1>1. [p EXCEPT !.tail[h][s] = v] = q
  OBVIOUS
<1> HIDE DEF t
<1>2. Spares(p, q, N)
  BY DEF Spares
<1> QED BY <1>1, <1>2

LEMMA FindValue ==
    ASSUME NEW p, NEW id, NEW sc, NEW cur, NEW r
    PROVE  Find(p, id, sc, cur, r).pool.value = p.value
<1>1. \A u, s, n : Memo(u, id, s, n).value = u.value
  BY DEF Memo
<1>2. \A u, s, n : /\ SearchName(u, id, s, n).value = u.value
                   /\ SearchStem(u, id, s, n).value = u.value
  BY <1>1 DEF SearchName, SearchStem
<1>3. \A u, s, n : SearchIndex(u, id, s, n).value = u.value
  BY <1>2 DEF SearchIndex
<1> QED BY <1>2, <1>3 DEF Find

LEMMA FindSpares ==
    ASSUME NEW p \in PoolType, NEW id \in IdRange, NEW sc \in Frames, NEW cur \in Frames,
           NEW r \in Refs, NEW N
    PROVE  Spares(p, Find(p, id, sc, cur, r).pool, N)
<1> DEFINE q == Find(p, id, sc, cur, r).pool
<1>1. SameShape(p, q) /\ q.value = p.value
  BY FindShape, FindValue
<1> HIDE DEF q
<1>2. Spares(p, q, N)
  BY <1>1, SparesSame DEF SameShape
<1> QED BY <1>2 DEF q

\* RxVarAdd writes new storage only.
LEMMA AddSpares ==
    ASSUME NEW p \in PoolType, NEW sc \in Frames, NEW r \in Refs,
           NEW stem \in VarRefs, NEW t \in Text, NEW v \in VarIds, NEW w \in VarIds
    PROVE  Spares(p, Add(p, sc, r, stem, t, v, w), {v, w})
<1>1. CASE r \in Names
  <2> DEFINE a == Alloc(p, v, Empty)
  <2>1. Add(p, sc, r, stem, t, v, w) = SetHead(a, sc, r, v)
    BY <1>1 DEF Add
  <2>2. Spares(p, a, {v}) /\ Spares(a, SetHead(a, sc, r, v), {w})
    BY AllocSpares, HeadSpares
  <2> HIDE DEF a
  <2>3. Spares(p, SetHead(a, sc, r, v), {v} \cup {w})
    BY <2>2, SparesTrans
  <2>4. {v} \cup {w} = {v, w}
    OBVIOUS
  <2> QED BY <2>1, <2>3, <2>4
<1>2. CASE r \notin Names
  <2> DEFINE h == IF stem = Nil THEN w ELSE stem
             b == Alloc(p, w, Null)
             g == SetHead(b, sc, r[1], w)
             q == IF stem = Nil THEN g ELSE p
             d == IF q.value[h] = Null THEN Empty ELSE q.value[h]
             a == Alloc(q, v, d)
             z == [a EXCEPT !.tail[h][<<t, "hash">>] = v]
  <2>1. Add(p, sc, r, stem, t, v, w) = z
    BY <1>2 DEF Add
  <2>2. r[1] \in Names /\ w \in VarRefs
    BY <1>2, ConstantTypes DEF Names, VarRefs
  <2>3. Spares(p, b, {w}) /\ b \in PoolType
    BY AllocSpares, AllocFields, ConstantTypes
  <2> HIDE DEF b
  <2>4. Spares(b, g, {}) /\ g \in PoolType
    BY <2>2, <2>3, HeadSpares, HeadFields
  <2> HIDE DEF g
  <2>5. Spares(p, g, {w} \cup {})
    BY <2>3, <2>4, SparesTrans
  <2>6. Spares(p, p, {w})
    BY SparesSame
  <2>7. Spares(p, q, {w}) /\ q \in PoolType
    BY <2>4, <2>5, <2>6
  <2> HIDE DEF q, d
  <2>8. Spares(q, a, {v})
    BY <2>7, AllocSpares
  <2> HIDE DEF a
  <2>9. Spares(a, z, {})
    BY TailSpares
  <2> HIDE DEF z
  <2>10. Spares(p, a, {w} \cup {v})
    BY <2>7, <2>8, SparesTrans
  <2>11. Spares(p, z, ({w} \cup {v}) \cup {})
    BY <2>9, <2>10, SparesTrans
  <2>12. ({w} \cup {v}) \cup {} = {v, w}
    OBVIOUS
  <2> QED BY <2>1, <2>11, <2>12
<1> QED BY <1>1, <1>2

\* Storage freed by RxVarFree: the objects given and the tails of those among
\* them that are stems of their own.
LEMMA ReleaseSpares ==
    ASSUME NEW p \in PoolType, NEW V \in SUBSET VarIds, NEW rx
    PROVE  Spares(p, Release(p, V, rx), V \cup TailsOf(p, V))
<1> DEFINE q == Release(p, V, rx)
           stems == {v \in V : p.mark[v] = NoProc}
           all   == V \cup TailsOf(p, stems)
           freed == {v \in all : p.mark[v] = NoProc}
<1>1. /\ q.live = p.live \ freed
      /\ q.value = [v \in VarIds |-> IF v \in freed THEN Null ELSE p.value[v]]
  BY DEF Release, PoolType
<1>2. stems \subseteq V
  OBVIOUS
<1> HIDE DEF stems
<1>3. TailsOf(p, stems) \subseteq TailsOf(p, V)
  BY <1>2 DEF TailsOf
<1>4. freed \subseteq V \cup TailsOf(p, V)
  BY <1>3
<1>5. p.live \subseteq VarIds
  BY DEF PoolType
<1> HIDE DEF freed, q
<1>6. Spares(p, q, V \cup TailsOf(p, V))
  BY <1>1, <1>4, <1>5 DEF Spares
<1> QED BY <1>6 DEF q

\* The tails of a stem are no stems.
LEMMA TailsFlat ==
    ASSUME NEW p, Tidy(p), Idle(p), NEW V, V \subseteq TailsOf(p, VarIds)
    PROVE  TailsOf(p, V) = {}
<1>1. \A v \in V : v \in VarIds /\ v \notin Objects(p)
  BY ObjectFacts DEF Tidy
<1>2. \A v \in V, s \in Slots : p.tail[v][s] = Nil
  BY <1>1 DEF Idle, NoTails
<1> QED BY <1>2 DEF TailsOf

LEMMA EmptySpares ==
    ASSUME NEW p, Tidy(p), Idle(p), NEW v \in VarIds, NEW rx
    PROVE  Spares(p, EmptyStem(p, v, rx), TailsOf(p, {v}))
<1> DEFINE V == TailsOf(p, {v})
           q == Release(p, V, rx)
           t == [q.tail EXCEPT ![v] = NoTails]
           z == [q EXCEPT !.tail = t]
<1>1. p \in PoolType
  BY DEF Tidy
<1>2. V \in SUBSET VarIds /\ V \subseteq TailsOf(p, VarIds)
  BY <1>1, ObjectFacts
<1>3. EmptyStem(p, v, rx) = z
  BY DEF EmptyStem
<1> HIDE DEF V
<1>4. TailsOf(p, V) = {}
  BY <1>2, TailsFlat
<1>5. Spares(p, q, V \cup TailsOf(p, V))
  BY <1>1, <1>2, ReleaseSpares
<1>6. Spares(p, q, V)
  BY <1>4, <1>5, SparesMore
<1> HIDE DEF q, t
<1>7. Spares(p, z, V)
  BY <1>6 DEF Spares
<1> QED BY <1>3, <1>7 DEF V

LEMMA ShapeTidy ==
    ASSUME NEW p, NEW q, SameShape(p, q), Tidy(p)
    PROVE  /\ Tidy(q) /\ \A V : TailsOf(q, V) = TailsOf(p, V)
           /\ \A sc : Near(q, sc) = Near(p, sc)
BY DEF SameShape, Tidy, Objects, TailsOf, Near, HeadsOf

LEMMA ClearSpares ==
    ASSUME NEW p, Tidy(p), Idle(p), NEW v \in VarIds, NEW val \in Text, NEW rx
    PROVE  Spares(p, EmptyStem(Store(p, v, val), v, rx), {v} \cup TailsOf(p, {v}))
<1> DEFINE q == Store(p, v, val)
<1>1. p \in PoolType
  BY DEF Tidy
<1>2. SameShape(p, q) /\ Spares(p, q, {v})
  BY <1>1, StoreShape, StoreSpares
<1> HIDE DEF q
<1>3. Tidy(q) /\ Idle(q) /\ TailsOf(q, {v}) = TailsOf(p, {v})
  BY <1>2, ShapeTidy, IdleShape
<1>4. Spares(q, EmptyStem(q, v, rx), TailsOf(q, {v}))
  BY <1>3, EmptySpares
<1>5. Spares(p, EmptyStem(q, v, rx), {v} \cup TailsOf(q, {v}))
  BY <1>2, <1>4, SparesTrans
<1> QED BY <1>3, <1>5 DEF q

LEMMA RemoveSpares ==
    ASSUME NEW p \in PoolType, NEW sc \in Frames, NEW n \in Names, p.head[sc][n] # Nil, NEW rx
    PROVE  Spares(p, Remove(p, sc, n, rx), Near(p, sc))
<1> DEFINE v == p.head[sc][n]
           a == SetHead(p, sc, n, Nil)
           q == Release(a, {v}, rx)
<1>1. {v} \in SUBSET VarIds /\ v \in Near(p, sc) /\ TailsOf(p, {v}) \subseteq Near(p, sc)
  BY ObjectFacts, NearFacts
<1>2. a \in PoolType /\ a.tail = p.tail
  BY HeadFields DEF VarRefs
<1>3. Spares(p, a, {})
  BY HeadSpares
<1>4. Remove(p, sc, n, rx) = q
  BY DEF Remove
<1> HIDE DEF v, a
<1>5. Spares(a, q, {v} \cup TailsOf(a, {v}))
  BY <1>1, <1>2, ReleaseSpares
<1>6. TailsOf(a, {v}) = TailsOf(p, {v})
  BY <1>2 DEF TailsOf
<1> HIDE DEF q
<1>7. Spares(p, q, {} \cup ({v} \cup TailsOf(a, {v})))
  BY <1>3, <1>5, SparesTrans
<1>8. {} \cup ({v} \cup TailsOf(a, {v})) \subseteq Near(p, sc)
  BY <1>1, <1>6
<1> QED BY <1>4, <1>7, <1>8, SparesMore

\* What a search finds is within reach of the scope searched.
LEMMA FindNear ==
    ASSUME NEW p \in PoolType, NEW id \in IdRange, NEW sc \in Frames, NEW cur \in Frames,
           NEW r \in Refs, id = NoCache \/ CoherentIn(p, id, sc),
           NEW f, f = Find(p, id, sc, cur, r), f.var # Nil
    PROVE  f.var \in Near(p, sc)
<1>1. CASE r \in Names
  <2>1. f.var = p.head[sc][r]
    BY <1>1 DEF Find
  <2> QED BY <1>1, <2>1, NearFacts
<1>2. CASE r \notin Names
  <2> DEFINE h == p.head[sc][r[1]]
  <2>1. r[1] \in Names
    BY <1>2, ConstantTypes DEF Names
  <2>2. f.stem = h
    BY <1>2, FindStem
  <2>3. f.tail \in Text
    BY FindTypes
  <2>4. f.var = IF f.stem = Nil THEN Nil ELSE p.tail[f.stem][<<f.tail, "hash">>]
    BY <1>2 DEF Find
  <2>5. <<f.tail, "hash">> \in Slots
    BY <2>3 DEF Slots
  <2>6. h # Nil /\ f.var = p.tail[h][<<f.tail, "hash">>]
    BY <2>2, <2>4
  <2> HIDE DEF h
  <2>7. \E u \in {h}, s \in Slots : f.var = p.tail[u][s]
    BY <2>5, <2>6
  <2>8. f.var \in TailsOf(p, {h})
    BY <2>7 DEF TailsOf
  <2>9. h \in HeadsOf(p, sc)
    BY <2>1, <2>6 DEF HeadsOf, h
  <2>10. TailsOf(p, {h}) \subseteq Near(p, sc)
    BY <2>9 DEF Near, TailsOf
  <2> QED BY <2>8, <2>10
<1> QED BY <1>1, <1>2

LEMMA DropSpares ==
    ASSUME NEW p, Tidy(p), Idle(p), NEW id \in IdRange, NEW sc \in Frames, NEW r \in Refs,
           CoherentIn(p, id, sc), NEW rx
    PROVE  Spares(p, Drop(p, id, sc, r, rx), Near(p, sc))
<1> DEFINE f == Find(p, id, sc, sc, r)
           d == Drop(p, id, sc, r, rx)
<1>0. p \in PoolType
  BY DEF Tidy
<1>1. PICK q \in {p, f.pool}, v \in VarRefs, val \in Text :
         /\ r \in Names => v = p.head[sc][r]
         /\ r \notin Names => v = f.var
         /\ \/ d = q
            \/ r \notin Names /\ v # Nil /\ d = Store(q, v, val)
            \/ r \in Names /\ d = Forget(q, r)
            \/ r \in Names /\ v # Nil /\ d = Forget(EmptyStem(Store(q, v, val), v, rx), r)
            \/ /\ r \in Names /\ v # Nil /\ q.mark[v] = NoProc
               /\ d = Forget(Remove(q, sc, r, rx), r)
  BY <1>0, DropCases
<1>2. /\ SameShape(p, f.pool) /\ SameShape(p, p)
      /\ Spares(p, f.pool, {}) /\ Spares(p, p, {})
  BY <1>0, FindShape, FindSpares, SparesSame DEF SameShape
<1>3. r \notin Names /\ v # Nil => v \in Near(p, sc)
  BY <1>0, <1>1, FindNear
<1> HIDE DEF f, d
<1>4. SameShape(p, q) /\ Spares(p, q, {})
  BY <1>2
<1>5. /\ q \in PoolType /\ Idle(q) /\ q.head = p.head /\ Tidy(q) /\ Near(q, sc) = Near(p, sc)
      /\ TailsOf(q, {v}) = TailsOf(p, {v})
  BY <1>4, IdleShape, ShapeTidy DEF SameShape
<1>6. v # Nil => v \in VarIds /\ v \in Near(p, sc)
  BY <1>0, <1>1, <1>3, NearFacts DEF VarRefs
<1>7. r \in Names /\ v # Nil => TailsOf(p, {v}) \subseteq Near(p, sc)
  BY <1>0, <1>1, NearFacts
<1>8. ASSUME NEW s, Spares(q, s, Near(p, sc)) PROVE Spares(p, s, Near(p, sc))
  <2>1. Spares(p, s, {} \cup Near(p, sc))
    BY <1>4, <1>8, SparesTrans
  <2> QED BY <2>1, SparesMore
<1>9. Spares(q, d, Near(p, sc))
  <2>1. CASE d = q
    BY <2>1, SparesSame
  <2>2. CASE v # Nil /\ d = Store(q, v, val)
    <3>1. Spares(q, d, {v}) /\ {v} \subseteq Near(p, sc)
      BY <1>5, <1>6, <2>2, StoreSpares
    <3> QED BY <3>1, SparesMore
  <2>3. CASE d = Forget(q, r)
    BY <2>3, ForgetSpares
  <2>4. CASE r \in Names /\ v # Nil /\ d = Forget(EmptyStem(Store(q, v, val), v, rx), r)
    <3> DEFINE e == EmptyStem(Store(q, v, val), v, rx)
               N == {v} \cup TailsOf(q, {v})
    <3>1. Spares(q, e, N)
      BY <1>5, <1>6, <2>4, ClearSpares
    <3>2. d = Forget(e, r)
      BY <2>4
    <3>3. N \subseteq Near(p, sc)
      BY <1>5, <1>6, <1>7, <2>4
    <3> HIDE DEF e, N
    <3>4. Spares(e, d, {})
      BY <3>2, ForgetSpares
    <3>5. Spares(q, d, N \cup {})
      BY <3>1, <3>4, SparesTrans
    <3> QED BY <3>3, <3>5, SparesMore
  <2>5. CASE r \in Names /\ v # Nil /\ d = Forget(Remove(q, sc, r, rx), r)
    <3> DEFINE e == Remove(q, sc, r, rx)
    <3>1. q.head[sc][r] # Nil
      BY <1>1, <1>5, <2>5
    <3>2. Spares(q, e, Near(q, sc))
      BY <1>5, <2>5, <3>1, RemoveSpares
    <3>3. d = Forget(e, r)
      BY <2>5
    <3> HIDE DEF e
    <3>4. Spares(e, d, {})
      BY <3>3, ForgetSpares
    <3>5. Spares(q, d, Near(q, sc) \cup {})
      BY <3>2, <3>4, SparesTrans
    <3> QED BY <1>5, <3>5, SparesMore
  <2> QED BY <1>1, <2>1, <2>2, <2>3, <2>4, <2>5
<1>10. Spares(p, d, Near(p, sc))
  BY <1>8, <1>9
<1> QED BY <1>10 DEF d

LEMMA DropNameSpares ==
    ASSUME NEW p, Tidy(p), Idle(p), NEW sc \in Frames, NEW r \in Refs, NEW rx
    PROVE  Spares(p, DropName(p, sc, r, rx), Near(p, sc))
<1> DEFINE f == FindName(p, sc, r)
           d == DropName(p, sc, r, rx)
<1>0. p \in PoolType /\ NoCache \in IdRange
  BY PoolConstants DEF Tidy, IdRange, NoCache
<1>1. PICK v \in VarRefs, val \in Text :
         /\ v = f.var /\ (r \in Names => v = p.head[sc][r])
         /\ \/ d = p
            \/ /\ v # Nil /\ p.mark[v] # NoProc
               /\ d = EmptyStem(Store(p, v, val), v, rx)
            \/ v # Nil /\ d = Store(p, v, val)
            \/ /\ r \in Names /\ v # Nil /\ p.mark[v] = NoProc
               /\ d = Forget(Remove(p, sc, r, rx), r)
  BY <1>0, DropNameCases
<1>2. f.var = Find(p, NoCache, sc, sc, r).var
  BY DEF FindName
<1>3. v # Nil => v \in VarIds /\ v \in Near(p, sc)
  BY <1>0, <1>1, <1>2, FindNear DEF VarRefs
<1> HIDE DEF f, d
<1>4. v # Nil => TailsOf(p, {v}) \subseteq Near(p, sc)
  <2>1. CASE v = Nil
    BY <2>1
  <2>2. CASE v # Nil /\ v \in HeadsOf(p, sc)
    BY <2>2 DEF Near, TailsOf
  <2>3. CASE v # Nil /\ v \in TailsOf(p, HeadsOf(p, sc))
    <3>1. HeadsOf(p, sc) \in SUBSET VarIds
      BY <1>0, ObjectFacts DEF HeadsOf
    <3>2. {v} \subseteq TailsOf(p, VarIds)
      BY <1>0, <2>3, <3>1, ObjectFacts
    <3>3. TailsOf(p, {v}) = {}
      BY <3>2, TailsFlat
    <3> QED BY <3>3
  <2> QED BY <1>3, <2>1, <2>2, <2>3 DEF Near
<1>5. CASE d = p
  <2>1. Spares(p, d, Near(p, sc))
    BY <1>5, SparesSame
  <2> QED BY <2>1 DEF d
<1>6. CASE v # Nil /\ d = EmptyStem(Store(p, v, val), v, rx)
  <2>1. Spares(p, d, {v} \cup TailsOf(p, {v}))
    BY <1>3, <1>6, ClearSpares
  <2>2. Spares(p, d, Near(p, sc))
    BY <1>3, <1>4, <1>6, <2>1, SparesMore
  <2> QED BY <2>2 DEF d
<1>7. CASE v # Nil /\ d = Store(p, v, val)
  <2>1. Spares(p, d, {v})
    BY <1>0, <1>7, StoreSpares
  <2>2. Spares(p, d, Near(p, sc))
    BY <1>3, <1>7, <2>1, SparesMore
  <2> QED BY <2>2 DEF d
<1>8. CASE r \in Names /\ v # Nil /\ d = Forget(Remove(p, sc, r, rx), r)
  <2> DEFINE e == Remove(p, sc, r, rx)
  <2>1. Spares(p, e, Near(p, sc))
    BY <1>0, <1>1, <1>8, RemoveSpares
  <2>2. d = Forget(e, r)
    BY <1>8
  <2> HIDE DEF e
  <2>3. Spares(e, d, {})
    BY <2>2, ForgetSpares
  <2>4. Spares(p, d, Near(p, sc) \cup {})
    BY <2>1, <2>3, SparesTrans
  <2>5. Spares(p, d, Near(p, sc))
    BY <2>4, SparesMore
  <2> QED BY <2>5 DEF d
<1> QED BY <1>1, <1>5, <1>6, <1>7, <1>8

LEMMA AddFields ==
    ASSUME NEW p \in PoolType, NEW sc \in Frames, NEW r \in Refs,
           NEW stem \in VarRefs, NEW t \in Text, NEW v \in VarIds, NEW w \in VarIds,
           NEW q, q = Add(p, sc, r, stem, t, v, w)
    PROVE  /\ \A s \in Frames, n \in Names : q.head[s][n] \in {p.head[s][n], v, w}
           /\ r \in Names => q.tail = p.tail
<1>0. v \in VarRefs /\ w \in VarRefs
  BY DEF VarRefs
<1>1. CASE r \in Names
  <2> DEFINE a == Alloc(p, v, Empty)
  <2>1. q = SetHead(a, sc, r, v)
    BY <1>1 DEF Add
  <2>2. a \in PoolType /\ a.head = p.head /\ a.tail = p.tail
    BY AllocFields, ConstantTypes
  <2> HIDE DEF a
  <2>3. /\ q.tail = a.tail /\ q.head[sc][r] = v
        /\ \A s \in Frames, m \in Names : s # sc \/ m # r => q.head[s][m] = a.head[s][m]
    <3> DEFINE g == SetHead(a, sc, r, v)
    <3>1. /\ g.tail = a.tail /\ g.head[sc][r] = v
          /\ \A s \in Frames, m \in Names : s # sc \/ m # r => g.head[s][m] = a.head[s][m]
      BY <1>0, <1>1, <2>2, HeadFields
    <3>2. q = g
      BY <2>1
    <3> HIDE DEF g
    <3> QED BY <3>1, <3>2
  <2> QED BY <2>2, <2>3
<1>2. CASE r \notin Names
  <2> DEFINE b == Alloc(p, w, Null)
             g == SetHead(b, sc, r[1], w)
  <2>1. q.head = g.head \/ q.head = p.head
    BY <1>2 DEF Add, Alloc
  <2>2. r[1] \in Names
    BY <1>2, ConstantTypes DEF Names
  <2>3. b \in PoolType /\ b.head = p.head
    BY AllocFields, ConstantTypes
  <2> HIDE DEF b
  <2>4. /\ g.head[sc][r[1]] = w
        /\ \A s \in Frames, m \in Names : s # sc \/ m # r[1] => g.head[s][m] = b.head[s][m]
    <3> DEFINE n == r[1]
    <3>1. n \in Names
      BY <2>2
    <3> HIDE DEF n
    <3>2. /\ SetHead(b, sc, n, w).head[sc][n] = w
          /\ \A s \in Frames, m \in Names :
                s # sc \/ m # n => SetHead(b, sc, n, w).head[s][m] = b.head[s][m]
      BY <1>0, <2>3, <3>1, HeadFields
    <3> QED BY <3>2 DEF n
  <2> HIDE DEF g
  <2> QED BY <1>2, <2>1, <2>3, <2>4
<1> QED BY <1>1, <1>2

\* The object that is assigned to is within reach of the scope, or new.
LEMMA CreateCases ==
    ASSUME NEW p \in PoolType, NEW id \in IdRange, NEW sc \in Frames, NEW r \in Refs,
           CoherentIn(p, id, sc), id # NoCache, NEW v \in VarIds, NEW w \in VarIds,
           NEW c, c = Create(p, id, sc, r, v, w)
    PROVE  \E g \in PoolType, stem \in VarRefs, t \in Text :
              /\ SameShape(p, g) /\ g.value = p.value
              /\ \/ /\ c.pool = g /\ c.var \in Near(p, sc)
                    /\ r \in Names => c.var = p.head[sc][r] /\ c.var # Nil
                 \/ /\ c.var = v
                    /\ c.pool = IF r \in Names THEN Memo(Add(g, sc, r, stem, t, v, w), id, sc, r)
                                ELSE Add(g, sc, r, stem, t, v, w)
<1> DEFINE f == Find(p, id, sc, sc, r)
           q == Add(f.pool, sc, r, f.stem, f.tail, v, w)
<1>1. SameShape(p, f.pool) /\ f.pool.value = p.value
  BY FindShape, FindValue
<1>2. f.var \in VarRefs /\ f.stem \in VarRefs /\ f.tail \in Text
  BY FindTypes
<1>3. r \in Names => f.var = p.head[sc][r]
  BY DEF Find
<1>4. f.var # Nil => f.var \in Near(p, sc)
  BY FindNear
<1>5. r \in Names /\ Cached(p, id, r) => p.cache[r].var = p.head[sc][r] /\ p.cache[r].var # Nil
  BY DEF Cached, CoherentIn
<1>6. SameShape(p, p) /\ p \in PoolType /\ f.pool \in PoolType
  BY <1>1 DEF SameShape
<1>7. CASE r \in Names /\ Cached(p, id, r)
  <2>1. c.pool = p /\ c.var = p.head[sc][r] /\ c.var # Nil
    BY <1>5, <1>7 DEF Create
  <2>2. c.var \in Near(p, sc)
    BY <1>7, <2>1, NearFacts
  <2> QED BY <1>2, <1>6, <2>1, <2>2
<1>8. CASE ~(r \in Names /\ Cached(p, id, r)) /\ f.var # Nil
  <2>1. c.pool = f.pool /\ c.var = f.var
    BY <1>8 DEF Create
  <2> HIDE DEF f
  <2> QED BY <1>1, <1>2, <1>3, <1>4, <1>6, <1>8, <2>1
<1>9. CASE ~(r \in Names /\ Cached(p, id, r)) /\ f.var = Nil
  <2>1. c.pool = (IF r \in Names THEN Memo(q, id, sc, r) ELSE q) /\ c.var = v
    BY <1>9 DEF Create
  <2> HIDE DEF f
  <2> QED BY <1>1, <1>2, <1>6, <2>1
<1> QED BY <1>7, <1>8, <1>9

LEMMA CreateReach ==
    ASSUME NEW p \in PoolType, NEW id \in IdRange, NEW sc \in Frames, NEW r \in Refs,
           CoherentIn(p, id, sc), id # NoCache, NEW v \in VarIds, NEW w \in VarIds,
           NEW c, c = Create(p, id, sc, r, v, w)
    PROVE  /\ Spares(p, c.pool, {v, w}) /\ c.var \in Near(p, sc) \cup {v}
           /\ \A s \in Frames, n \in Names : c.pool.head[s][n] \in {p.head[s][n], v, w}
           /\ r \in Names => /\ c.pool.tail = p.tail
                             /\ c.var = v \/ (c.var = p.head[sc][r] /\ c.var # Nil)
<1>1. PICK g \in PoolType, stem \in VarRefs, t \in Text :
         /\ SameShape(p, g) /\ g.value = p.value
         /\ \/ /\ c.pool = g /\ c.var \in Near(p, sc)
               /\ r \in Names => c.var = p.head[sc][r] /\ c.var # Nil
            \/ /\ c.var = v
               /\ c.pool = IF r \in Names THEN Memo(Add(g, sc, r, stem, t, v, w), id, sc, r)
                           ELSE Add(g, sc, r, stem, t, v, w)
  BY CreateCases
<1>2. g \in PoolType /\ g.head = p.head /\ g.tail = p.tail /\ Spares(p, g, {v, w})
  BY <1>1, SparesSame DEF SameShape
<1>3. CASE c.pool = g /\ c.var \in Near(p, sc) /\ (r \in Names => c.var = p.head[sc][r] /\ c.var # Nil)
  BY <1>2, <1>3
<1>4. CASE /\ c.var = v
           /\ c.pool = IF r \in Names THEN Memo(Add(g, sc, r, stem, t, v, w), id, sc, r)
                       ELSE Add(g, sc, r, stem, t, v, w)
  <2> DEFINE a == Add(g, sc, r, stem, t, v, w)
  <2>1. /\ Spares(g, a, {v, w})
        /\ \A s \in Frames, n \in Names : a.head[s][n] \in {g.head[s][n], v, w}
        /\ r \in Names => a.tail = g.tail
    BY <1>2, AddSpares, AddFields
  <2>2. c.pool = Memo(a, id, sc, r) \/ c.pool = a
    BY <1>4
  <2> HIDE DEF a
  <2>3. Spares(a, c.pool, {v, w})
    BY <2>2, MemoSpares, SparesSame
  <2>4. c.pool.head = a.head /\ c.pool.tail = a.tail
    BY <2>2, MemoFields
  <2>5. Spares(p, a, {v, w} \cup {v, w})
    BY <1>2, <2>1, SparesTrans
  <2>6. Spares(p, c.pool, ({v, w} \cup {v, w}) \cup {v, w})
    BY <2>3, <2>5, SparesTrans
  <2>7. ({v, w} \cup {v, w}) \cup {v, w} = {v, w}
    OBVIOUS
  <2>8. Spares(p, c.pool, {v, w})
    BY <2>6, <2>7
  <2> QED BY <1>2, <1>4, <2>1, <2>4, <2>8
<1> QED BY <1>1, <1>3, <1>4

LEMMA CreateName ==
    ASSUME NEW p \in PoolType, NEW id \in IdRange, NEW sc \in Frames, NEW r \in Names,
           CoherentIn(p, id, sc), id # NoCache, NEW v \in VarIds, NEW w \in VarIds
    PROVE  LET c == Create(p, id, sc, r, v, w)
           IN  /\ Spares(p, c.pool, {v, w}) /\ c.pool.tail = p.tail
               /\ c.var = v \/ (c.var = p.head[sc][r] /\ c.var # Nil)
<1>1. r \in Refs
  BY DEF Refs
<1>2. PICK c : c = Create(p, id, sc, r, v, w)
  OBVIOUS
<1>3. Spares(p, c.pool, {v, w})
  BY <1>1, <1>2, CreateReach
<1>4. PICK g \in PoolType, stem \in VarRefs, t \in Text :
         /\ SameShape(p, g) /\ g.value = p.value
         /\ \/ c.pool = g /\ c.var = p.head[sc][r] /\ c.var # Nil
            \/ c.var = v /\ c.pool = Memo(Add(g, sc, r, stem, t, v, w), id, sc, r)
  BY <1>1, <1>2, CreateCases
<1>5. c.pool.tail = p.tail
  BY <1>1, <1>4, MemoFields, AddFields DEF SameShape
<1> QED BY <1>2, <1>3, <1>4, <1>5

LEMMA VarSetSpares ==
    ASSUME NEW p \in PoolType, NEW id \in IdRange, NEW sc \in Frames, NEW n \in Names,
           CoherentIn(p, id, sc), id # NoCache, NEW val \in Text, NEW v \in VarIds
    PROVE  Spares(p, VarSet(p, id, sc, n, val, v), {v, p.head[sc][n]})
<1> DEFINE c == Create(p, id, sc, n, v, v)
           q == Store(c.pool, c.var, val)
<1>1. n \in Refs
  BY DEF Refs
<1>2. VarSet(p, id, sc, n, val, v) = q
  BY DEF VarSet
<1>3. c.pool \in PoolType
  BY <1>1, CreateGood DEF Good
<1>4. Spares(p, c.pool, {v, v}) /\ c.var \in {v, p.head[sc][n]}
  BY <1>1, CreateReach
<1> HIDE DEF c
<1>5. Spares(c.pool, q, {c.var})
  BY <1>3, StoreSpares
<1> HIDE DEF q
<1>6. Spares(p, q, {v, v} \cup {c.var})
  BY <1>4, <1>5, SparesTrans
<1>7. {v, v} \cup {c.var} \subseteq {v, p.head[sc][n]}
  BY <1>4
<1> QED BY <1>2, <1>6, <1>7, SparesMore

LEMMA EnterSpares ==
    ASSUME NEW p \in PoolType, NEW sc, NEW r, NEW t, NEW v, NEW w
    PROVE  Spares(p, Enter(p, sc, r, t, v, w), {w})
<1> DEFINE none == p.head[sc][r[1]] = Nil
           h == IF none THEN w ELSE p.head[sc][r[1]]
           b == Alloc(p, w, Null)
           g == SetHead(b, sc, r[1], w)
           q == IF none THEN g ELSE p
           s == <<t, IF t \in Split THEN "first" ELSE "hash">>
           z == [q EXCEPT !.tail[h][s] = v]
           e == Enter(p, sc, r, t, v, w)
<1>1. CASE r \in Names
  <2>1. e = SetHead(p, sc, r, v)
    BY <1>1 DEF Enter
  <2> QED BY <2>1, HeadSpares
<1>2. CASE r \notin Names
  <2>1. e = q \/ e = z
    BY <1>2 DEF Enter
  <2>2. Spares(p, b, {w}) /\ Spares(p, p, {w})
    BY AllocSpares, SparesSame
  <2> HIDE DEF b
  <2>3. Spares(b, g, {})
    BY HeadSpares
  <2>4. Spares(p, g, {w} \cup {})
    BY <2>2, <2>3, SparesTrans
  <2>5. Spares(p, q, {w})
    BY <2>2, <2>4
  <2> HIDE DEF q, h, s, e
  <2>6. Spares(q, z, {})
    BY TailSpares
  <2> HIDE DEF z
  <2>7. Spares(p, z, {w} \cup {})
    BY <2>5, <2>6, SparesTrans
  <2>8. Spares(p, e, {w})
    BY <2>1, <2>5, <2>7
  <2> QED BY <2>8 DEF e
<1> QED BY <1>1, <1>2

LEMMA OldVarSpares ==
    ASSUME NEW p \in PoolType, NEW id, NEW sc \in Frames, NEW old \in Frames,
           NEW r \in Refs, NEW v \in VarIds, NEW w \in VarIds
    PROVE  Spares(p, OldVar(p, id, old, sc, r, v, w).pool, {v, w})
<1> DEFINE g == FindOld(p, id, old, sc, r)
           o == OldVar(p, id, old, sc, r, v, w)
           a == Add(g.pool, old, r, g.stem, g.tail, v, w)
           name == OwnName(r, g.tail)
           z == Store(a, v, name)
<1>0. NoCache \in IdRange
  BY PoolConstants DEF IdRange, NoCache
<1>1. SameShape(p, g.pool) /\ Spares(p, g.pool, {v, w})
  BY <1>0, FindShape, FindSpares DEF FindOld
<1>2. g.var \in VarRefs /\ g.stem \in VarRefs /\ g.tail \in Text
  BY FindTypes DEF FindOld
<1>3. r \in Names => g.var = p.head[old][r]
  BY DEF FindOld, Find
<1>4. r \notin Names => g.stem = p.head[old][r[1]]
  BY FindStem DEF FindOld
<1>5. o.pool = IF g.var # Nil THEN g.pool ELSE z
  BY DEF OldVar
<1>6. g.pool \in PoolType /\ g.pool.head = p.head
  BY <1>1 DEF SameShape
<1> HIDE DEF g, o, name
<1>7. CASE g.var = Nil
  <2>1. Adds(g.pool, a, old) /\ Spares(g.pool, a, {v, w})
    BY <1>2, <1>3, <1>4, <1>6, <1>7, AddAdds, AddSpares
  <2> HIDE DEF a
  <2>2. Spares(a, z, {v})
    BY <2>1, StoreSpares DEF Adds
  <2> HIDE DEF z
  <2>3. Spares(p, a, {v, w} \cup {v, w})
    BY <1>1, <2>1, SparesTrans
  <2>4. Spares(p, z, ({v, w} \cup {v, w}) \cup {v})
    BY <2>2, <2>3, SparesTrans
  <2>5. ({v, w} \cup {v, w}) \cup {v} = {v, w}
    OBVIOUS
  <2>6. Spares(p, o.pool, {v, w})
    BY <1>5, <1>7, <2>4, <2>5
  <2> QED BY <2>6 DEF o
<1>8. CASE g.var # Nil
  <2>1. Spares(p, o.pool, {v, w})
    BY <1>1, <1>5, <1>8
  <2> QED BY <2>1 DEF o
<1> QED BY <1>7, <1>8

\* EXPOSE writes new storage only: a variable is shared, never copied.
LEMMA ExposeSpares ==
    ASSUME NEW p \in PoolType, NEW id \in IdRange, NEW sc \in Frames,
           NEW old \in Frames, NEW r \in Refs, NEW rx \in Frames,
           NEW new \in VarIds \X VarIds \X VarIds
    PROVE  Spares(p, Expose(p, id, sc, old, r, rx, new), {new[1], new[2], new[3]})
<1> DEFINE f == Find(p, id, sc, sc, r)
           o == OldVar(f.pool, id, old, sc, r, new[1], new[2])
           N == {new[1], new[2]}
<1>1. SameShape(p, f.pool) /\ Spares(p, f.pool, N)
  BY FindShape, FindSpares
<1>2. new[1] \in VarIds /\ new[2] \in VarIds /\ new[3] \in VarIds
  OBVIOUS
<1>3. \/ Expose(p, id, sc, old, r, rx, new) = f.pool
      \/ Expose(p, id, sc, old, r, rx, new)
           = Enter(Marked(o.pool, o.var, rx), sc, r, o.tail, o.var, new[3])
  BY DEF Expose
<1> HIDE DEF f
<1>4. f.pool \in PoolType
  BY <1>1 DEF SameShape
<1>5. o.pool \in PoolType /\ o.var \in VarIds /\ Spares(f.pool, o.pool, N)
  BY <1>2, <1>4, OldVarFacts, OldVarSpares
<1> DEFINE u == o.pool
           x == o.var
           t == o.tail
<1>6. u \in PoolType /\ x \in VarIds /\ Spares(f.pool, u, N)
  BY <1>5
<1> HIDE DEF o, u, x, t
<1> DEFINE a == Marked(u, x, rx)
           e == Enter(a, sc, r, t, x, new[3])
<1>7. a \in PoolType /\ Spares(u, a, {})
  BY <1>6, MarkedFields, MarkedSpares
<1> HIDE DEF a
<1>8. Spares(a, e, {new[3]})
  BY <1>7, EnterSpares
<1> HIDE DEF e, N
<1>9. Spares(p, u, N \cup N)
  BY <1>1, <1>6, SparesTrans
<1>10. Spares(p, a, (N \cup N) \cup {})
  BY <1>7, <1>9, SparesTrans
<1>11. Spares(p, e, ((N \cup N) \cup {}) \cup {new[3]})
  BY <1>8, <1>10, SparesTrans
<1>12. ((N \cup N) \cup {}) \cup {new[3]} = {new[1], new[2], new[3]}
       /\ N \subseteq {new[1], new[2], new[3]}
  BY DEF N
<1>13. Spares(p, f.pool, {new[1], new[2], new[3]}) /\ Spares(p, e, {new[1], new[2], new[3]})
  BY <1>1, <1>11, <1>12, SparesMore
<1>14. \/ Expose(p, id, sc, old, r, rx, new) = f.pool
       \/ Expose(p, id, sc, old, r, rx, new) = e
  BY <1>3 DEF e, a, u, x, t
<1> QED BY <1>13, <1>14

-----------------------------------------------------------------------------
(* Isolation: the actions.                                                 *)

LEMMA FreshDead ==
    ASSUME Room
    PROVE  Fresh[1] \notin pool.live /\ Fresh[2] \notin pool.live /\ Fresh[3] \notin pool.live
<1> DEFINE P(u) == u[1] # u[2] /\ u[1] # u[3] /\ u[2] # u[3]
<1>1. PICK u \in Free, v \in Free, w \in Free : u # v /\ u # w /\ v # w
  BY DEF Room
<1>2. <<u, v, w>> \in Free \X Free \X Free /\ P(<<u, v, w>>)
  BY <1>1
<1>3. Fresh = CHOOSE y \in Free \X Free \X Free : P(y)
  BY DEF Fresh
<1> HIDE DEF P
<1>4. Fresh \in Free \X Free \X Free
  BY <1>2, <1>3
<1>5. \A x \in Free : x \notin pool.live
  BY DEF Free, InUse
<1> HIDE DEF Free
<1>6. Fresh[1] \in Free /\ Fresh[2] \in Free /\ Fresh[3] \in Free
  BY <1>4
<1> QED BY <1>5, <1>6

\* The running routine touched only what it can reach.
Apart == \E N : Spares(pool, pool', N) /\ N \cap pool.live \subseteq Near(pool, Scope)

LEMMA SelfApart ==
    ASSUME pool' = pool
    PROVE  Apart
<1>1. Spares(pool, pool', {}) /\ {} \cap pool.live \subseteq Near(pool, Scope)
  BY SparesSame
<1> QED BY <1>1 DEF Apart

LEMMA LoadApart ==
    ASSUME MarksInv, NEW r \in Lits, Load(r)
    PROVE  Apart
<1>1. Running /\ pool' = Find(pool, Id, Scope, Scope, r).pool /\ r \in Refs
  BY PoolConstants DEF Load
<1>2. Spares(pool, pool', {}) /\ {} \cap pool.live \subseteq Near(pool, Scope)
  BY <1>1, MarksFacts, RunningFacts, FindSpares DEF Running
<1> QED BY <1>2 DEF Apart

\* A stem's tails take its value: they are tails it had, a new stem has none.
LEMMA AssignApart ==
    ASSUME MarksInv, Idle(pool), NEW r \in Lits, NEW val \in Data, Assign(r, val)
    PROVE  Apart
<1> DEFINE c == Create(pool, Id, Scope, r, Fresh[1], Fresh[2])
           q == Store(c.pool, c.var, val)
           z == IF r \in Stems THEN ScopeAssign(q, c.var) ELSE q
           T == IF r \in Stems THEN TailsOf(c.pool, {c.var}) ELSE {}
           F == {Fresh[1], Fresh[2]}
           N == (F \cup {c.var}) \cup T
<1>1. Running /\ Room /\ pool' = z
  BY DEF Assign
<1>2. /\ pool \in PoolType /\ Id \in IdRange /\ Id # NoCache /\ Scope \in Frames
      /\ CoherentIn(pool, Id, Scope)
  BY <1>1, MarksFacts, RunningFacts DEF Running
<1>3. r \in Refs /\ val \in Text
  BY PoolConstants
<1>4. /\ Fresh[1] \in VarIds /\ Fresh[2] \in VarIds /\ Unused(pool, Fresh[1])
      /\ F \cap pool.live = {}
  BY <1>1, <1>2, FreshTypes, FreshDead, FreshUnused DEF Fresh3
<1>5. c.pool \in PoolType /\ c.var \in VarIds
  BY <1>2, <1>3, <1>4, CreateGood DEF Good
<1>6. /\ Spares(pool, c.pool, F) /\ c.var \in Near(pool, Scope) \cup {Fresh[1]}
      /\ r \in Names => /\ c.pool.tail = pool.tail
                        /\ c.var = Fresh[1] \/ (c.var = pool.head[Scope][r] /\ c.var # Nil)
  <2> DEFINE d == Create(pool, Id, Scope, r, Fresh[1], Fresh[2])
  <2>1. c = d
    OBVIOUS
  <2>2. /\ pool \in PoolType /\ Id \in IdRange /\ Scope \in Frames /\ r \in Refs
        /\ CoherentIn(pool, Id, Scope) /\ Id # NoCache
        /\ Fresh[1] \in VarIds /\ Fresh[2] \in VarIds
    BY <1>2, <1>3, <1>4
  <2>3. Spares(pool, d.pool, F)
    BY <2>2, CreateReach
  <2>4. ASSUME NEW e, e = Create(pool, Id, Scope, r, Fresh[1], Fresh[2])
        PROVE  e.var \in Near(pool, Scope) \cup {Fresh[1]}
    <3> HIDE DEF c, d, F, q, z, T
    <3> QED BY <2>2, <2>4, CreateReach, Zenon
  <2>5. ASSUME r \in Names
        PROVE  /\ Spares(pool, d.pool, {Fresh[1], Fresh[2]}) /\ d.pool.tail = pool.tail
               /\ d.var = Fresh[1] \/ (d.var = pool.head[Scope][r] /\ d.var # Nil)
    <3>1. PICK i, sc, u, w : i = Id /\ sc = Scope /\ u = Fresh[1] /\ w = Fresh[2]
      OBVIOUS
    <3>2. /\ i \in IdRange /\ sc \in Frames /\ CoherentIn(pool, i, sc) /\ i # NoCache
          /\ u \in VarIds /\ w \in VarIds
      BY <2>2, <3>1
    <3> DEFINE e == Create(pool, i, sc, r, u, w)
    <3>3. /\ Spares(pool, e.pool, {u, w}) /\ e.pool.tail = pool.tail
          /\ e.var = u \/ (e.var = pool.head[sc][r] /\ e.var # Nil)
      BY <2>2, <2>5, <3>2, CreateName
    <3>4. e = d
      BY <3>1
    <3> HIDE DEF d, e
    <3> QED BY <3>1, <3>3, <3>4
  <2>6. d.var \in Near(pool, Scope) \cup {Fresh[1]}
    BY <2>4
  <2> HIDE DEF d
  <2> QED BY <2>1, <2>3, <2>5, <2>6
<1> HIDE DEF c
<1>7. T \subseteq Near(pool, Scope)
  <2>1. CASE r \notin Stems
    BY <2>1
  <2>2. CASE r \in Stems /\ c.var = Fresh[1]
    <3>1. pool.tail[Fresh[1]] = NoTails
      BY <1>4 DEF Idle, Unused
    <3>2. \A s \in Slots : c.pool.tail[c.var][s] = Nil
      BY <1>6, <2>2, <3>1 DEF NoTails, Names
    <3>3. TailsOf(c.pool, {c.var}) = {}
      BY <3>2 DEF TailsOf
    <3> QED BY <2>2, <3>3
  <2>3. CASE r \in Stems /\ c.var = pool.head[Scope][r] /\ c.var # Nil
    <3>1. TailsOf(pool, {c.var}) \subseteq Near(pool, Scope)
      BY <1>2, <2>3, NearFacts DEF Names
    <3>2. TailsOf(c.pool, {c.var}) = TailsOf(pool, {c.var})
      BY <1>6, <2>3 DEF TailsOf, Names
    <3> QED BY <2>3, <3>1, <3>2
  <2> QED BY <1>6, <2>1, <2>2, <2>3 DEF Names
<1>8. Spares(c.pool, q, {c.var}) /\ SameShape(c.pool, q)
  BY <1>3, <1>5, StoreSpares, StoreShape
<1> HIDE DEF q
<1>9. Spares(q, z, T)
  <2>1. CASE r \notin Stems
    BY <2>1, SparesSame
  <2>2. CASE r \in Stems
    <3>1. z = ScopeAssign(q, c.var) /\ T = TailsOf(c.pool, {c.var})
      BY <2>2
    <3>2. TailsOf(q, {c.var}) = TailsOf(c.pool, {c.var})
      BY <1>8 DEF SameShape, TailsOf
    <3>3. /\ z.live = q.live /\ q.live \subseteq VarIds
          /\ \A u \in VarIds : u \notin TailsOf(q, {c.var}) => z.value[u] = q.value[u]
      BY <1>8, <3>1 DEF SameShape, ScopeAssign, PoolType
    <3> HIDE DEF z, T
    <3> QED BY <3>1, <3>2, <3>3 DEF Spares
  <2> QED BY <2>1, <2>2
<1> HIDE DEF z, T, F
<1>10. Spares(pool, q, F \cup {c.var})
  BY <1>6, <1>8, SparesTrans
<1>11. Spares(pool, z, N)
  BY <1>9, <1>10, SparesTrans
<1>12. N \cap pool.live \subseteq Near(pool, Scope)
  <2>1. Fresh[1] \in F
    BY DEF F
  <2> QED BY <1>4, <1>6, <1>7, <2>1
<1> QED BY <1>1, <1>11, <1>12 DEF Apart

LEMMA DropVarApart ==
    ASSUME MarksInv, Idle(pool), NEW r \in Lits, DropVar(r)
    PROVE  Apart
<1>1. pool' = Drop(pool, Id, Scope, r, rx_proc) /\ r \in Refs /\ rx_proc >= 0
  BY PoolConstants DEF DropVar, Running
<1>2. Tidy(pool) /\ Id \in IdRange /\ Scope \in Frames /\ CoherentIn(pool, Id, Scope)
  BY <1>1, MarksFacts, RunningFacts DEF Owned
<1>3. Spares(pool, pool', Near(pool, Scope))
  BY <1>1, <1>2, DropSpares
<1> QED BY <1>3 DEF Apart

LEMMA DropNextApart ==
    ASSUME MarksInv, Idle(pool), DropNext
    PROVE  Apart
<1> DEFINE r == Head(pending).ref
<1>1. pending # << >> /\ pool' = DropName(pool, Scope, r, rx_proc)
  BY DEF DropNext
<1>2. PendingOK /\ r \in Refs /\ rx_proc >= 0
  BY <1>1, MarksFacts, TailFacts DEF IInv, PendingOK
<1>3. Tidy(pool) /\ Scope \in Frames
  BY <1>2, MarksFacts, RunningFacts DEF Owned
<1> HIDE DEF r
<1>4. Spares(pool, pool', Near(pool, Scope))
  BY <1>1, <1>2, <1>3, DropNameSpares
<1> QED BY <1>4 DEF Apart

LEMMA SiglNear ==
    ASSUME NEW p \in PoolType, NEW sc \in Frames
    PROVE  {p.head[sc][Sigl]} \cap p.live \subseteq Near(p, sc)
<1>1. Sigl \in Names /\ Nil \notin p.live
  BY PoolConstants DEF Names, PoolType
<1> QED BY <1>1, NearFacts

LEMMA SetsApart ==
    ASSUME MarksInv, NEW line \in Data, Running, Room,
           pool' = VarSet(pool, Id, Scope, Sigl, line, Fresh[1])
    PROVE  Apart
<1>1. /\ pool \in PoolType /\ Id \in IdRange /\ Id # NoCache /\ Scope \in Frames
      /\ CoherentIn(pool, Id, Scope)
  BY MarksFacts, RunningFacts DEF Running
<1>2. Sigl \in Names /\ line \in Text /\ Fresh[1] \in VarIds /\ Fresh[1] \notin pool.live
  BY PoolConstants, FreshTypes, FreshDead DEF Names
<1>3. Spares(pool, pool', {Fresh[1], pool.head[Scope][Sigl]})
  BY <1>1, <1>2, VarSetSpares
<1>4. {Fresh[1], pool.head[Scope][Sigl]} \cap pool.live \subseteq Near(pool, Scope)
  BY <1>1, <1>2, SiglNear
<1> QED BY <1>3, <1>4 DEF Apart

\* The variable a result will go to, then SIGL.
LEMMA CallerApart ==
    ASSUME MarksInv, Running, Room, NEW target \in Targets \cup {Nil},
           NEW line \in Data,
           NEW c, c = Created(target),
           pool' = VarSet(c.pool, Id, Scope, Sigl, line, Fresh[3])
    PROVE  Apart
<1> DEFINE F == {Fresh[1], Fresh[2]}
           g == c.pool
           N == F \cup {Fresh[3], g.head[Scope][Sigl]}
<1>1. /\ pool \in PoolType /\ Id \in IdRange /\ Id # NoCache /\ Scope \in Frames
      /\ CoherentIn(pool, Id, Scope)
  BY MarksFacts, RunningFacts DEF Running
<1>2. line \in Text /\ Sigl \in Names /\ (target # Nil => target \in Refs)
  BY PoolConstants DEF Names
<1>3. /\ Fresh[1] \in VarIds /\ Fresh[2] \in VarIds /\ Fresh[3] \in VarIds
      /\ F \cap pool.live = {} /\ Fresh[3] \notin pool.live
  BY FreshTypes, FreshDead
<1>4. /\ Good(pool, g, Id, Scope, {Scope}) /\ Spares(pool, g, F)
      /\ g.head[Scope][Sigl] \in {pool.head[Scope][Sigl]} \cup F
  <2>1. CASE target # Nil
    <3> DEFINE d == Create(pool, Id, Scope, target, Fresh[1], Fresh[2])
    <3>1. c = d
      BY <2>1 DEF Created
    <3>2. target \in Refs
      BY <1>2, <2>1
    <3>3. Good(pool, d.pool, Id, Scope, {Scope})
      BY <1>1, <1>3, <3>2, CreateGood
    <3>4. /\ Spares(pool, d.pool, F)
          /\ \A s \in Frames, n \in Names :
                d.pool.head[s][n] \in {pool.head[s][n], Fresh[1], Fresh[2]}
      BY <1>1, <1>3, <3>2, CreateReach
    <3> HIDE DEF d
    <3>5. d.pool.head[Scope][Sigl] \in {pool.head[Scope][Sigl]} \cup F
      BY <1>1, <1>2, <3>4
    <3> QED BY <3>1, <3>3, <3>4, <3>5
  <2>2. CASE target = Nil
    <3>1. g = pool
      BY <2>2 DEF Created
    <3> QED BY <1>1, <3>1, QuietGood, SparesSame DEF Quiet
  <2> QED BY <2>1, <2>2
<1>5. g \in PoolType
  BY <1>4 DEF Good
<1>6. CoherentIn(g, Id, Scope)
  BY <1>1, <1>4, GoodCoherent
<1>7. pool' = VarSet(g, Id, Scope, Sigl, line, Fresh[3])
  OBVIOUS
<1> HIDE DEF g, F
<1>8. Spares(g, pool', {Fresh[3], g.head[Scope][Sigl]})
  BY <1>1, <1>2, <1>3, <1>5, <1>6, <1>7, VarSetSpares
<1>9. Spares(pool, pool', N)
  BY <1>4, <1>8, SparesTrans
<1>10. N \cap pool.live \subseteq Near(pool, Scope)
  BY <1>1, <1>3, <1>4, SiglNear
<1> QED BY <1>9, <1>10 DEF Apart

LEMMA ExposingApart ==
    ASSUME MarksInv, ExposeNext \/ ExposeIndirect
    PROVE  Apart
<1> DEFINE r == Head(pending).ref
           old == proc[rx_proc - 1].scope
           new == Fresh
           q == Expose(pool, Id, Scope, old, r, rx_proc, new)
           N == {new[1], new[2], new[3]}
<1>1. pending # << >> /\ Head(pending).op # "drop" /\ Room
  BY DEF ExposeNext, ExposeIndirect
<1>2. \/ pool' = pool
      \/ pool' = q
      \/ pool' = Find(q, Id, old, Scope, r).pool
  BY DEF ExposeNext, ExposeIndirect
<1>3. r \in Refs
  BY <1>1, MarksFacts, TailFacts DEF IInv
<1>4. q \in PoolType
  BY <1>1, <1>3, MarksFacts, ExposedStep
<1>5. rx_proc > 0 /\ old \in Frames
  BY <1>1, MarksFacts, ExposingFacts
<1>6. rx_proc >= 0
  BY <1>5, MarksFacts, FramedFacts
<1>7. pool \in PoolType /\ Id \in IdRange /\ Scope \in Frames /\ rx_proc \in Frames
  BY <1>6, MarksFacts, RunningFacts
<1>8. new \in VarIds \X VarIds \X VarIds /\ N \cap pool.live = {}
  BY <1>1, FreshTypes, FreshDead
<1> HIDE DEF old, r, new
<1>9. Spares(pool, q, N)
  BY <1>3, <1>5, <1>7, <1>8, ExposeSpares
<1> HIDE DEF q, N
<1>10. Spares(q, Find(q, Id, old, Scope, r).pool, {})
  BY <1>3, <1>4, <1>5, <1>7, FindSpares
<1>11. Spares(pool, Find(q, Id, old, Scope, r).pool, N \cup {})
  BY <1>9, <1>10, SparesTrans
<1>12. Spares(pool, pool, N)
  BY SparesSame
<1>13. Spares(pool, pool', N)
  BY <1>2, <1>9, <1>11, <1>12
<1> QED BY <1>8, <1>13 DEF Apart

\* A return leaves the routine, and an error or EXIT the program.
LEMMA PopsBelow ==
    ASSUME MarksInv, Return \/ \E val \in Data : ReturnF(val)
    PROVE  ~(rx_proc' >= rx_proc)
<1>1. PICK f \in 1..rx_proc : PopTo(f)
  BY DEF Return, ReturnF
<1>2. rx_proc \in Int /\ rx_proc' = f - 1
  BY <1>1, MarksFacts, FramedFacts DEF PopTo
<1> QED BY <1>1, <1>2

LEMMA NextApart ==
    ASSUME ReachInv, Next, rx_proc' >= rx_proc, ~closing,
           ~ \E k \in Active, r \in PoolNames, val \in Data : PoolSet(k, r, val)
    PROVE  Apart
<1> DEFINE Goal == Apart
<1>0. MarksInv /\ Idle(pool)
  BY DEF ReachInv
<1>1. ASSUME NEW r \in Lits, Load(r) PROVE Goal
  BY <1>0, <1>1, LoadApart
<1>2. ASSUME NEW r \in Lits, DropVar(r) PROVE Goal
  BY <1>0, <1>2, DropVarApart
<1>3. ASSUME NEW r \in Lits, NEW val \in Data, Assign(r, val) PROVE Goal
  BY <1>0, <1>3, AssignApart
<1>4. ASSUME NEW ws \in DropLists, DropList(ws) PROVE Goal
  BY <1>4, SelfApart DEF DropList
<1>5. ASSUME DropNext PROVE Goal
  BY <1>0, <1>5, DropNextApart
<1>6. ASSUME NEW k \in 0..rx_proc, NEW r \in PoolNames, NEW val \in Data,
             PoolSet(k, r, val)
      PROVE  Goal
  BY <1>6 DEF Active
<1>7. ASSUME NEW line \in Data, Signal(line) PROVE Goal
  <2>1. Running /\ Room /\ pool' = VarSet(pool, Id, Scope, Sigl, line, Fresh[1])
    BY <1>7 DEF Signal
  <2> QED BY <1>0, <2>1, SetsApart
<1>8. ASSUME NEW kind, NEW target \in Targets \cup {Nil}, NEW line \in Data,
             \/ Trap(target, line)
             \/ CallShared(kind, target, line)
             \/ \E list \in ExposeLists : CallProcedure(kind, target, line, list)
      PROVE  Goal
  <2> DEFINE c == Created(target)
  <2>1. /\ Running /\ Room
        /\ pool' = VarSet(c.pool, Id, Scope, Sigl, line, Fresh[3])
    BY <1>8 DEF Trap, CallShared, CallProcedure
  <2> QED BY <1>0, <2>1, CallerApart
<1>9. ASSUME ExposeNext \/ ExposeIndirect PROVE Goal
  BY <1>0, <1>9, ExposingApart
<1>10. ASSUME Interpret \/ InterEnd \/ Exit PROVE Goal
  BY <1>10, SelfApart DEF Interpret, InterEnd, Exit
<1>11. ASSUME Return \/ \E val \in Data : ReturnF(val) PROVE Goal
  BY <1>0, <1>11, PopsBelow
<1>12. ASSUME Unwind PROVE Goal
  BY <1>12 DEF Unwind
<1>13. ASSUME NEW line \in Data, NEW target \in Targets \cup {Nil},
              \/ Trap(target, line)
              \/ CallShared("FUNCTION", target, line)
              \/ \E list \in ExposeLists : CallProcedure("FUNCTION", target, line, list)
       PROVE  Goal
  BY <1>8, <1>13
<1>14. ASSUME NEW line \in Data,
              \/ CallShared("PROCEDURE", Nil, line)
              \/ \E list \in ExposeLists : CallProcedure("PROCEDURE", Nil, line, list)
       PROVE  Goal
  <2>1. Nil \in Targets \cup {Nil}
    OBVIOUS
  <2> QED BY <1>8, <1>14, <2>1
<1> HIDE DEF Goal
<1>15. Goal
  BY <1>1, <1>2, <1>3, <1>4, <1>5, <1>6, <1>7, <1>9, <1>10, <1>11, <1>12,
     <1>13, <1>14, Zenon DEF Next
<1> QED BY <1>15 DEF Goal

\* A routine without access to a variable can neither change nor free it: up
\* to its return, whatever it assigns, drops, exposes, calls or traps, every
\* object that its scope does not reach keeps its value and its storage
\* (RxVarFind, RxVarSet, RxVarDel, RxVarExpose, I_CallFunction).
THEOREM IsolationKept == ListsSimple => (Spec => Isolation)
<1> SUFFICES ASSUME ListsSimple PROVE Spec => Isolation
  OBVIOUS
<1>1. Spec => []ReachInv
  BY ReachAlways
<1>2. ASSUME ReachInv, Next PROVE Isolated
  <2> SUFFICES ASSUME rx_proc' >= rx_proc, ~closing,
                      ~ \E k \in Active, r \in PoolNames, val \in Data : PoolSet(k, r, val),
                      NEW v \in pool.live \ Reach(Scope)
               PROVE  v \in pool'.live /\ pool'.value[v] = pool.value[v]
    BY Zenon DEF Isolated
  <2>1. PICK N : Spares(pool, pool', N) /\ N \cap pool.live \subseteq Near(pool, Scope)
    BY <1>2, NextApart DEF Apart
  <2>2. Near(pool, Scope) = Reach(Scope)
    BY DEF Near, Reach
  <2>3. v \in pool.live \ N
    BY <2>1, <2>2
  <2> QED BY <2>1, <2>3 DEF Spares
<1>3. ReachInv /\ [Next]_vars => [Isolated]_vars
  BY <1>2
<1> QED BY <1>1, <1>3, PTL DEF Spec, Isolation
==============================================================================
