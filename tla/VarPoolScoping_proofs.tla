------------------------ MODULE VarPoolScoping_proofs -------------------------
(* The pool of scopes, shared objects and marks implements the scoping of  *)
(* simple variables, for every program, name set and depth.               *)
EXTENDS VarPoolScoping, VarMarks_proofs

-----------------------------------------------------------------------------
(* What a scope sees under a simple name, and which scopes see the same.   *)

View(p, s, n) == IF p.head[s][n] = Nil THEN n ELSE p.value[p.head[s][n]]

Group(p, U, s, n) ==
    {k \in U : k = s \/ (p.head[s][n] # Nil /\ p.head[k][n] = p.head[s][n])}

\* The objects of simple names, in all scopes.
Variables(p) == {p.head[s][n] : s \in Frames, n \in Simple} \ {Nil}

\* What operations do to the scopes in U: nothing; one variable gets a value;
\* or a name of sc becomes the variable that it is in old.
Still(p, q, U) ==
    \A s \in U, m \in Simple :
        Group(q, U, s, m) = Group(p, U, s, m) /\ View(q, s, m) = View(p, s, m)

Sets(p, q, U, sc, n, val) ==
    \A s \in U, m \in Simple :
        /\ Group(q, U, s, m) = Group(p, U, s, m)
        /\ View(q, s, m) = IF m = n /\ s \in Group(p, U, sc, n) THEN val ELSE View(p, s, m)

Shares(p, q, U, sc, old, n) ==
    \A s \in U, m \in Simple :
        IF m = n /\ (s = sc \/ s \in Group(p, U, old, n))
        THEN /\ Group(q, U, s, m) = Group(p, U, old, n) \cup {sc}
             /\ View(q, s, m) = View(p, old, n)
        ELSE Group(q, U, s, m) = Group(p, U, s, m) /\ View(q, s, m) = View(p, s, m)

\* Simple variables are left alone altogether.
Apart(p, q) ==
    /\ \A s \in Frames, n \in Simple : q.head[s][n] = p.head[s][n]
    /\ \A v \in Variables(p) : q.value[v] = p.value[v]

\* One object gets a value.
Puts(p, q, v, val) ==
    /\ \A s \in Frames, n \in Simple : q.head[s][n] = p.head[s][n]
    /\ q.value[v] = val
    /\ \A u \in Variables(p) \ {v} : q.value[u] = p.value[u]

\* The leaf of one name changes to v, the objects of the others stay.
Turns(p, q, sc, n, v) ==
    /\ q.head[sc][n] = v
    /\ \A s \in Frames, m \in Simple : s # sc \/ m # n => q.head[s][m] = p.head[s][m]

LEMMA ApartVars ==
    ASSUME NEW p, NEW q, Apart(p, q)
    PROVE  Variables(q) = Variables(p)
BY DEF Apart, Variables

LEMMA ApartSelf ==
    ASSUME NEW p
    PROVE  Apart(p, p)
BY DEF Apart

LEMMA ApartTrans ==
    ASSUME NEW p, NEW q, NEW r, Apart(p, q), Apart(q, r)
    PROVE  Apart(p, r)
BY ApartVars DEF Apart

LEMMA ApartStill ==
    ASSUME NEW p, NEW q, Apart(p, q), NEW U, U \subseteq Frames
    PROVE  Still(p, q, U)
<1> SUFFICES ASSUME NEW s \in U, NEW m \in Simple
             PROVE  Group(q, U, s, m) = Group(p, U, s, m) /\ View(q, s, m) = View(p, s, m)
  BY DEF Still
<1>1. s \in Frames /\ \A k \in U : q.head[k][m] = p.head[k][m]
  BY DEF Apart
<1>2. p.head[s][m] # Nil => p.head[s][m] \in Variables(p)
  BY <1>1 DEF Variables
<1>3. Group(q, U, s, m) = Group(p, U, s, m)
  BY <1>1 DEF Group
<1>4. View(q, s, m) = View(p, s, m)
  BY <1>1, <1>2 DEF View, Apart
<1> QED BY <1>3, <1>4

LEMMA GroupFacts ==
    ASSUME NEW p, NEW U, NEW s \in U, NEW n
    PROVE  /\ s \in Group(p, U, s, n) /\ Group(p, U, s, n) \subseteq U
           /\ \A k \in Group(p, U, s, n) :
                 Group(p, U, k, n) = Group(p, U, s, n) /\ View(p, k, n) = View(p, s, n)
<1>1. s \in Group(p, U, s, n) /\ Group(p, U, s, n) \subseteq U
  BY DEF Group
<1>2. ASSUME NEW k \in Group(p, U, s, n)
      PROVE  Group(p, U, k, n) = Group(p, U, s, n) /\ View(p, k, n) = View(p, s, n)
  <2>1. k = s \/ (p.head[s][n] # Nil /\ p.head[k][n] = p.head[s][n])
    BY DEF Group
  <2> QED BY <2>1 DEF Group, View
<1> QED BY <1>1, <1>2

LEMMA StillTrans ==
    ASSUME NEW p, NEW q, NEW r, NEW U, Still(p, q, U), Still(q, r, U)
    PROVE  Still(p, r, U)
BY DEF Still

LEMMA StillSets ==
    ASSUME NEW p, NEW q, NEW r, NEW U, NEW sc \in U, NEW n \in Simple, NEW val,
           Still(p, q, U), Sets(q, r, U, sc, n, val)
    PROVE  Sets(p, r, U, sc, n, val)
BY DEF Still, Sets

LEMMA SetsStill ==
    ASSUME NEW p, NEW q, NEW r, NEW U, NEW sc, NEW n, NEW val,
           Sets(p, q, U, sc, n, val), Still(q, r, U)
    PROVE  Sets(p, r, U, sc, n, val)
BY DEF Still, Sets

\* A value that is there already.
LEMMA SetsSame ==
    ASSUME NEW p, NEW q, NEW U, NEW sc \in U, NEW n, Sets(p, q, U, sc, n, View(p, sc, n))
    PROVE  Still(p, q, U)
BY GroupFacts DEF Sets, Still

LEMMA StillShares ==
    ASSUME NEW p, NEW q, NEW r, NEW U, NEW sc \in U, NEW old \in U, NEW n \in Simple,
           Still(p, q, U), Shares(q, r, U, sc, old, n)
    PROVE  Shares(p, r, U, sc, old, n)
<1> SUFFICES ASSUME NEW s \in U, NEW m \in Simple
             PROVE  IF m = n /\ (s = sc \/ s \in Group(p, U, old, n))
                    THEN /\ Group(r, U, s, m) = Group(p, U, old, n) \cup {sc}
                         /\ View(r, s, m) = View(p, old, n)
                    ELSE Group(r, U, s, m) = Group(p, U, s, m) /\ View(r, s, m) = View(p, s, m)
  BY DEF Shares
<1>1. Group(q, U, old, n) = Group(p, U, old, n) /\ View(q, old, n) = View(p, old, n)
      /\ Group(q, U, s, m) = Group(p, U, s, m) /\ View(q, s, m) = View(p, s, m)
  BY DEF Still
<1> QED BY <1>1 DEF Shares

-----------------------------------------------------------------------------
(* The ways the operations change a variable.                              *)

\* Objects are heads of one name.
LEMMA OneName ==
    ASSUME NEW p, Tidy(p), NEW s \in Frames, NEW n \in Names, p.head[s][n] # Nil
    PROVE  /\ n \notin Simple => p.head[s][n] \notin Variables(p)
           /\ \A k \in Frames, m \in Simple : p.head[k][m] = p.head[s][n] => m = n
BY DEF Tidy, Variables, Names

LEMMA PutsSets ==
    ASSUME NEW p, Tidy(p), NEW q, NEW U, U \subseteq Frames, NEW sc \in U, NEW n \in Simple,
           p.head[sc][n] # Nil, NEW val, Puts(p, q, p.head[sc][n], val)
    PROVE  Sets(p, q, U, sc, n, val) /\ Variables(q) = Variables(p)
<1> DEFINE v == p.head[sc][n]
<1>1. ASSUME NEW s \in U, NEW m \in Simple
      PROVE  /\ Group(q, U, s, m) = Group(p, U, s, m)
             /\ View(q, s, m) = IF m = n /\ s \in Group(p, U, sc, n) THEN val ELSE View(p, s, m)
  <2>1. s \in Frames /\ sc \in Frames /\ n \in Names
    BY DEF Names
  <2>2. \A k \in U : q.head[k][m] = p.head[k][m]
    BY DEF Puts
  <2>3. p.head[s][m] = v <=> m = n /\ s \in Group(p, U, sc, n)
    BY <2>1, OneName DEF Group
  <2>4. p.head[s][m] # Nil /\ p.head[s][m] # v => p.head[s][m] \in Variables(p) \ {v}
    BY <2>1 DEF Variables
  <2>5. Group(q, U, s, m) = Group(p, U, s, m)
    BY <2>2 DEF Group
  <2>6. q.head[s][m] = p.head[s][m] /\ v # Nil /\ q.value[v] = val
        /\ \A u \in Variables(p) \ {v} : q.value[u] = p.value[u]
    BY <2>2 DEF Puts
  <2>7. View(q, s, m) = IF p.head[s][m] = v THEN val ELSE View(p, s, m)
    <3> HIDE DEF v
    <3> QED BY <2>4, <2>6 DEF View
  <2> QED BY <2>3, <2>5, <2>7
<1>2. Variables(q) = Variables(p)
  BY DEF Puts, Variables
<1> QED BY <1>1, <1>2 DEF Sets

\* A name that had no variable gets one.
LEMMA NewSets ==
    ASSUME NEW p, NEW q, NEW U, U \subseteq Frames, NEW sc \in U, NEW n \in Simple,
           p.head[sc][n] = Nil, NEW v, v # Nil, v \notin Variables(p), Turns(p, q, sc, n, v),
           NEW val, q.value[v] = val, \A u \in Variables(p) : q.value[u] = p.value[u]
    PROVE  Sets(p, q, U, sc, n, val) /\ Variables(q) = Variables(p) \cup {v}
<1>1. ASSUME NEW s \in U, NEW m \in Simple
      PROVE  /\ Group(q, U, s, m) = Group(p, U, s, m)
             /\ View(q, s, m) = IF m = n /\ s \in Group(p, U, sc, n) THEN val ELSE View(p, s, m)
  <2>1. s \in Frames /\ sc \in Frames
    OBVIOUS
  <2>2. Group(p, U, sc, n) = {sc}
    BY DEF Group
  <2>3. \A k \in U : p.head[k][m] # v /\ (k # sc \/ m # n => q.head[k][m] = p.head[k][m])
    BY <2>1 DEF Variables, Turns
  <2>4. CASE m = n /\ s = sc
    <3>1. q.head[s][m] = v
      BY <2>4 DEF Turns
    <3>2. Group(q, U, s, m) = {sc}
      BY <2>3, <2>4, <3>1 DEF Group
    <3> QED BY <2>2, <2>4, <3>1, <3>2 DEF View
  <2>5. CASE ~ (m = n /\ s = sc)
    <3>1. q.head[s][m] = p.head[s][m]
      BY <2>3, <2>5
    <3>2. p.head[s][m] # Nil => p.head[s][m] \in Variables(p)
      BY <2>1 DEF Variables
    <3>3. View(q, s, m) = View(p, s, m)
      BY <3>1, <3>2 DEF View
    <3>4. ASSUME NEW k \in U, p.head[s][m] # Nil
          PROVE  q.head[k][m] = q.head[s][m] <=> p.head[k][m] = p.head[s][m]
      <4>1. CASE k = sc /\ m = n
        <5>1. q.head[k][m] = v /\ p.head[k][m] = Nil
          BY <4>1 DEF Turns
        <5> QED BY <2>3, <3>1, <3>4, <5>1
      <4>2. CASE ~ (k = sc /\ m = n)
        BY <2>3, <3>1, <4>2
      <4> QED BY <4>1, <4>2
    <3>5. Group(q, U, s, m) = Group(p, U, s, m)
      BY <3>1, <3>4 DEF Group
    <3> QED BY <2>2, <2>5, <3>3, <3>5
  <2> QED BY <2>4, <2>5
<1>2. Variables(q) = Variables(p) \cup {v}
  <2>0. sc \in Frames
    OBVIOUS
  <2>1. \A s \in Frames, m \in Simple : q.head[s][m] = p.head[s][m] \/ q.head[s][m] = v
    BY DEF Turns
  <2>2. \A s \in Frames, m \in Simple : p.head[s][m] # Nil => q.head[s][m] = p.head[s][m]
    BY DEF Turns
  <2>3. q.head[sc][n] = v
    BY DEF Turns
  <2> QED BY <2>0, <2>1, <2>2, <2>3 DEF Variables
<1> QED BY <1>1, <1>2 DEF Sets

\* A name loses a variable that only its scope had.
LEMMA GoneSets ==
    ASSUME NEW p, NEW q, NEW U, U \subseteq Frames, NEW sc \in U, NEW n \in Simple,
           p.head[sc][n] # Nil, Turns(p, q, sc, n, Nil),
           \A s \in U : p.head[s][n] = p.head[sc][n] => s = sc,
           \A s \in U, m \in Simple : s # sc \/ m # n =>
              p.head[s][m] = Nil \/ q.value[p.head[s][m]] = p.value[p.head[s][m]]
    PROVE  Sets(p, q, U, sc, n, n) /\ Variables(q) \subseteq Variables(p)
<1>1. ASSUME NEW s \in U, NEW m \in Simple
      PROVE  /\ Group(q, U, s, m) = Group(p, U, s, m)
             /\ View(q, s, m) = IF m = n /\ s \in Group(p, U, sc, n) THEN n ELSE View(p, s, m)
  <2>1. s \in Frames /\ sc \in Frames
    OBVIOUS
  <2>2. Group(p, U, sc, n) = {sc}
    BY DEF Group
  <2>3. \A k \in U : k # sc \/ m # n => q.head[k][m] = p.head[k][m]
    BY DEF Turns
  <2>4. CASE m = n /\ s = sc
    <3>1. q.head[s][m] = Nil
      BY <2>4 DEF Turns
    <3>2. Group(q, U, s, m) = {sc}
      BY <2>4, <3>1 DEF Group
    <3> QED BY <2>2, <2>4, <3>1, <3>2 DEF View
  <2>5. CASE ~ (m = n /\ s = sc)
    <3>1. q.head[s][m] = p.head[s][m]
      BY <2>3, <2>5
    <3>2. View(q, s, m) = View(p, s, m)
      BY <2>5, <3>1 DEF View
    <3>3. ASSUME NEW k \in U, p.head[s][m] # Nil
          PROVE  q.head[k][m] = q.head[s][m] <=> p.head[k][m] = p.head[s][m]
      <4>1. CASE k = sc /\ m = n
        <5>1. q.head[k][m] = Nil
          BY <4>1 DEF Turns
        <5>2. p.head[s][m] # p.head[k][m]
          BY <2>5, <4>1
        <5> QED BY <3>1, <3>3, <5>1, <5>2
      <4>2. CASE ~ (k = sc /\ m = n)
        BY <2>3, <3>1, <4>2
      <4> QED BY <4>1, <4>2
    <3>4. Group(q, U, s, m) = Group(p, U, s, m)
      BY <3>1, <3>3 DEF Group
    <3> QED BY <2>2, <2>5, <3>2, <3>4
  <2> QED BY <2>4, <2>5
<1>2. Variables(q) \subseteq Variables(p)
  <2>1. \A s \in Frames, m \in Simple : q.head[s][m] = Nil \/ q.head[s][m] = p.head[s][m]
    BY DEF Turns
  <2> QED BY <2>1 DEF Variables
<1> QED BY <1>1, <1>2 DEF Sets

\* A name of sc that was free becomes the variable of old.
LEMMA JoinShares ==
    ASSUME NEW p, Tidy(p), NEW q, NEW U, U \subseteq Frames, NEW sc \in U, NEW old \in U, sc # old,
           NEW n \in Simple, p.head[sc][n] = Nil, p.head[old][n] # Nil,
           Turns(p, q, sc, n, p.head[old][n]), q.value = p.value
    PROVE  Shares(p, q, U, sc, old, n) /\ Variables(q) = Variables(p)
<1> DEFINE v == p.head[old][n]
<1>0. old \in Frames /\ sc \in Frames /\ n \in Names
  BY DEF Names
<1>1. ASSUME NEW s \in U, NEW m \in Simple
      PROVE  IF m = n /\ (s = sc \/ s \in Group(p, U, old, n))
             THEN /\ Group(q, U, s, m) = Group(p, U, old, n) \cup {sc}
                  /\ View(q, s, m) = View(p, old, n)
             ELSE Group(q, U, s, m) = Group(p, U, s, m) /\ View(q, s, m) = View(p, s, m)
  <2>2. \A k \in U : k # sc \/ m # n => q.head[k][m] = p.head[k][m]
    BY DEF Turns
  <2>3. CASE m = n /\ (s = sc \/ s \in Group(p, U, old, n))
    <3>1. q.head[s][n] = v /\ \A k \in U : q.head[k][n] = v <=> k = sc \/ p.head[k][n] = v
      BY <2>2, <2>3 DEF Group, Turns
    <3>2. Group(q, U, s, m) = Group(p, U, old, n) \cup {sc}
      BY <2>3, <3>1 DEF Group
    <3> QED BY <2>3, <3>1, <3>2 DEF View
  <2>4. CASE ~ (m = n /\ (s = sc \/ s \in Group(p, U, old, n)))
    <3>1. q.head[s][m] = p.head[s][m] /\ p.head[s][m] # v
      BY <1>0, <2>2, <2>4, OneName DEF Group
    <3>2. \A k \in U : p.head[s][m] # Nil =>
             (q.head[k][m] = q.head[s][m] <=> p.head[k][m] = p.head[s][m])
      <4> SUFFICES ASSUME NEW k \in U, p.head[s][m] # Nil
                   PROVE  q.head[k][m] = q.head[s][m] <=> p.head[k][m] = p.head[s][m]
        OBVIOUS
      <4>1. CASE k = sc /\ m = n
        <5>1. q.head[k][m] = v /\ p.head[k][m] = Nil
          BY <4>1 DEF Turns
        <5> QED BY <3>1, <5>1
      <4>2. CASE ~ (k = sc /\ m = n)
        BY <2>2, <3>1, <4>2
      <4> QED BY <4>1, <4>2
    <3>3. Group(q, U, s, m) = Group(p, U, s, m)
      BY <3>1, <3>2 DEF Group
    <3> QED BY <2>4, <3>1, <3>3 DEF View
  <2> QED BY <2>3, <2>4
<1>2. Variables(q) = Variables(p)
  <2>1. \A s \in Frames, m \in Simple :
           q.head[s][m] = p.head[s][m] \/ (q.head[s][m] = v /\ p.head[s][m] = Nil)
    BY DEF Turns
  <2> QED BY <1>0, <2>1 DEF Variables
<1> QED BY <1>1, <1>2 DEF Shares

\* A name that is shared already.
LEMMA SharedAlready ==
    ASSUME NEW p, NEW U, NEW sc \in U, NEW old \in U, NEW n \in Simple,
           p.head[sc][n] # Nil, p.head[old][n] = p.head[sc][n]
    PROVE  Shares(p, p, U, sc, old, n)
<1>1. sc \in Group(p, U, old, n)
  BY DEF Group
<1>2. Group(p, U, old, n) \cup {sc} = Group(p, U, old, n)
  BY <1>1
<1> QED BY <1>1, <1>2, GroupFacts DEF Shares

-----------------------------------------------------------------------------
(* The owners and the values, of a pool p and the frames 0..rx of a table  *)
(* pr.                                                                     *)

Lead(G) == CHOOSE k \in G : \A h \in G : k <= h

OMap(p, pr, rx) ==
    [f \in Frames |->
        [n \in Simple |->
            IF f \in 0..rx THEN Lead(Group(p, Used(pr, rx), pr[f].scope, n)) ELSE f]]

VMap(p, pr, rx) ==
    [f \in Frames |->
        [n \in Simple |->
            IF f \in Used(pr, rx) /\ Lead(Group(p, Used(pr, rx), f, n)) = f
            THEN View(p, f, n) ELSE n]]

\* OwnerOf, in a pool p with the scopes in U.
Of(p, U, sc, n) ==
    IF p.head[sc][n] = Nil THEN sc
    ELSE CHOOSE k \in {s \in U : p.head[s][n] = p.head[sc][n]} :
            \A h \in {s \in U : p.head[s][n] = p.head[sc][n]} : k <= h

LEMMA OfLead ==
    ASSUME NEW p, NEW U, NEW sc \in U, sc \in Int, NEW n
    PROVE  Of(p, U, sc, n) = Lead(Group(p, U, sc, n))
<1>1. CASE p.head[sc][n] = Nil
  <2>1. Group(p, U, sc, n) = {sc}
    BY <1>1 DEF Group
  <2>2. Lead({sc}) = sc
    BY DEF Lead
  <2> QED BY <1>1, <2>1, <2>2 DEF Of
<1>2. CASE p.head[sc][n] # Nil
  <2>1. Group(p, U, sc, n) = {s \in U : p.head[s][n] = p.head[sc][n]}
    BY <1>2 DEF Group
  <2> QED BY <1>2, <2>1 DEF Of, Lead
<1> QED BY <1>1, <1>2

LEMMA OwnersAre ==
    ASSUME NEW p, NEW pr, NEW rx, NEW cnt, Framed(pr, rx, cnt)
    PROVE  OMap(p, pr, rx) =
             [f \in Frames |->
                 [n \in Simple |->
                     IF f \in 0..rx THEN Of(p, Used(pr, rx), pr[f].scope, n) ELSE f]]
<1>1. \A f \in 0..rx : pr[f].scope \in Used(pr, rx) /\ pr[f].scope \in Int
  BY FramedFacts DEF Used
<1>2. \A f \in 0..rx, n \in Simple :
         Of(p, Used(pr, rx), pr[f].scope, n) = Lead(Group(p, Used(pr, rx), pr[f].scope, n))
  BY <1>1, OfLead
<1> QED BY <1>2 DEF OMap

LEMMA ValuesAre ==
    ASSUME NEW p, NEW pr, NEW rx, NEW cnt, Framed(pr, rx, cnt)
    PROVE  VMap(p, pr, rx) =
             [f \in Frames |->
                 [n \in Simple |->
                     IF f \in Used(pr, rx) /\ p.head[f][n] # Nil /\ Of(p, Used(pr, rx), f, n) = f
                     THEN p.value[p.head[f][n]] ELSE n]]
<1>1. \A f \in Used(pr, rx) : f \in Int
  BY FramedFacts DEF Used
<1>2. ASSUME NEW f \in Frames, NEW n \in Simple
      PROVE  (IF f \in Used(pr, rx) /\ Lead(Group(p, Used(pr, rx), f, n)) = f
              THEN View(p, f, n) ELSE n)
             = IF f \in Used(pr, rx) /\ p.head[f][n] # Nil /\ Of(p, Used(pr, rx), f, n) = f
               THEN p.value[p.head[f][n]] ELSE n
  <2>1. f \in Used(pr, rx) => Of(p, Used(pr, rx), f, n) = Lead(Group(p, Used(pr, rx), f, n))
    BY <1>1, OfLead
  <2> QED BY <2>1 DEF View
<1> QED BY <1>2 DEF VMap

\* The refinement mapping, in this state and in the next.
LEMMA MapsNow ==
    ASSUME IInv
    PROVE  OwnerMap = OMap(pool, proc, rx_proc) /\ ValueMap = VMap(pool, proc, rx_proc)
<1>1. Framed(proc, rx_proc, procidcnt)
  BY DEF IInv
<1>2. OwnerMap = [f \in Frames |->
                     [n \in Simple |->
                         IF f \in 0..rx_proc
                         THEN Of(pool, Used(proc, rx_proc), proc[f].scope, n) ELSE f]]
  BY DEF OwnerMap, OwnerOf, Holders, Scopes, Active, Of, Used
<1>3. ValueMap = [f \in Frames |->
                     [n \in Simple |->
                         IF f \in Used(proc, rx_proc) /\ pool.head[f][n] # Nil
                            /\ Of(pool, Used(proc, rx_proc), f, n) = f
                         THEN pool.value[pool.head[f][n]] ELSE n]]
  BY DEF ValueMap, OwnerOf, Holders, Scopes, Active, Of, Used
<1> QED BY <1>1, <1>2, <1>3, OwnersAre, ValuesAre

LEMMA MapsThen ==
    ASSUME IInv'
    PROVE  OwnerMap' = OMap(pool', proc', rx_proc') /\ ValueMap' = VMap(pool', proc', rx_proc')
<1>1. Framed(proc', rx_proc', procidcnt')
  BY DEF IInv
<1>2. OwnerMap' = [f \in Frames |->
                      [n \in Simple |->
                          IF f \in 0..rx_proc'
                          THEN Of(pool', Used(proc', rx_proc'), proc'[f].scope, n) ELSE f]]
  BY DEF OwnerMap, OwnerOf, Holders, Scopes, Active, Of, Used
<1>3. ValueMap' = [f \in Frames |->
                      [n \in Simple |->
                          IF f \in Used(proc', rx_proc') /\ pool'.head[f][n] # Nil
                             /\ Of(pool', Used(proc', rx_proc'), f, n) = f
                          THEN pool'.value[pool'.head[f][n]] ELSE n]]
  BY DEF ValueMap, OwnerOf, Holders, Scopes, Active, Of, Used
<1> QED BY <1>1, <1>2, <1>3, OwnersAre, ValuesAre

\* The marks name the outermost of the scopes that share a variable.
LEMMA LeadFacts ==
    ASSUME NEW p, NEW pr, NEW rx, NEW cnt, Framed(pr, rx, cnt), Owned(p, pr, rx),
           NEW s \in Used(pr, rx), NEW n \in Simple
    PROVE  LET G == Group(p, Used(pr, rx), s, n)
           IN  Lead(G) \in G /\ \A h \in G : Lead(G) <= h
<1> DEFINE G == Group(p, Used(pr, rx), s, n)
<1>1. \A h \in Used(pr, rx) : h \in Int
  BY FramedFacts DEF Used
<1>2. \E k \in G : \A h \in G : k <= h
  <2>1. s \in G /\ G \subseteq Used(pr, rx)
    BY GroupFacts
  <2>2. CASE p.head[s][n] = Nil
    <3>1. G = {s}
      BY <2>2 DEF Group
    <3> QED BY <1>1, <3>1
  <2>3. CASE p.head[s][n] # Nil
    <3> DEFINE m == p.mark[p.head[s][n]]
    <3>1. G = Sharers(p, pr, rx, n, p.head[s][n])
      BY <2>3 DEF Group, Sharers
    <3>2. Marks(p, pr, rx, s, n)
      BY <2>3 DEF Owned, Accounted, Names
    <3>3. CASE m = NoProc
      <4>1. G = {s}
        BY <3>1, <3>2, <3>3 DEF Marks
      <4> QED BY <1>1, <4>1
    <3>4. CASE m # NoProc
      <4>1. /\ m + 1 \in 0..rx /\ pr[m].scope \in G
            /\ \A h \in G : h = pr[m].scope \/ h > m
        BY <3>1, <3>2, <3>4 DEF Marks
      <4>2. m \in -1..MaxProc
        <5>1. s \in Frames /\ n \in Names /\ p \in PoolType
          BY FramedFacts DEF Used, Names, Owned, Tidy
        <5> QED BY <2>3, <5>1, ObjectFacts DEF PoolType
      <4> HIDE DEF m, G
      <4>3. m \in 0..rx /\ m \in Int
        BY <3>4, <4>1, <4>2, PoolConstants, FramedFacts DEF NoProc
      <4>4. pr[m].scope <= m /\ pr[m].scope \in Int
        BY <4>3, FramedFacts
      <4>5. \A h \in G : pr[m].scope <= h
        BY <1>1, <2>1, <4>1, <4>3, <4>4
      <4> QED BY <4>1, <4>5
    <3> QED BY <3>3, <3>4
  <2> QED BY <2>2, <2>3
<1> HIDE DEF G
<1>3. Lead(G) \in G /\ \A h \in G : Lead(G) <= h
  BY <1>2 DEF Lead
<1> QED BY <1>3 DEF G

\* A set of scopes has one least member.
LEMMA LeadIs ==
    ASSUME NEW G, G \subseteq Int, NEW k \in G, \A h \in G : k <= h
    PROVE  Lead(G) = k
<1>1. Lead(G) \in G /\ \A h \in G : Lead(G) <= h
  BY DEF Lead
<1>2. Lead(G) <= k /\ k <= Lead(G) /\ Lead(G) \in Int /\ k \in Int
  BY <1>1
<1> QED BY <1>2

-----------------------------------------------------------------------------
(* What the changes of a pool and of the frames are in terms of owners and *)
(* values.                                                                 *)

LEMMA StillMaps ==
    ASSUME NEW p, NEW q, NEW pr, NEW rx, NEW cnt, Framed(pr, rx, cnt),
           Still(p, q, Used(pr, rx))
    PROVE  OMap(q, pr, rx) = OMap(p, pr, rx) /\ VMap(q, pr, rx) = VMap(p, pr, rx)
<1>1. \A f \in 0..rx : pr[f].scope \in Used(pr, rx)
  BY DEF Used
<1>2. \A f \in 0..rx, n \in Simple : Group(q, Used(pr, rx), pr[f].scope, n)
                                       = Group(p, Used(pr, rx), pr[f].scope, n)
  BY <1>1 DEF Still
<1>3. \A f \in Used(pr, rx), n \in Simple :
         /\ Group(q, Used(pr, rx), f, n) = Group(p, Used(pr, rx), f, n)
         /\ View(q, f, n) = View(p, f, n)
  BY DEF Still
<1> QED BY <1>2, <1>3 DEF OMap, VMap

\* A function of two arguments, changed at one pair of them.
LEMMA ExceptAt ==
    ASSUME NEW A, NEW B, NEW F, F = [a \in A |-> [b \in B |-> F[a][b]]],
           NEW i \in A, NEW j \in B, NEW e
    PROVE  [F EXCEPT ![i][j] = e]
             = [a \in A |-> [b \in B |-> IF a = i /\ b = j THEN e ELSE F[a][b]]]
<1> DEFINE R == [F[i] EXCEPT ![j] = e]
           X == [a \in A |-> [b \in B |-> F[a][b]]]
<1>1. F[i] = [b \in B |-> F[i][b]] /\ \A a \in A : F[a] = [b \in B |-> F[a][b]]
  <2>1. \A a \in A : X[a] = [b \in B |-> F[a][b]]
    OBVIOUS
  <2> HIDE DEF X
  <2>2. \A a \in A : F[a] = [b \in B |-> F[a][b]]
    BY <2>1 DEF X
  <2> QED BY <2>2
<1>2. R = [b \in B |-> IF b = j THEN e ELSE F[i][b]]
  BY <1>1
<1>3. [F EXCEPT ![i][j] = e] = [F EXCEPT ![i] = R]
  OBVIOUS
<1> HIDE DEF R
<1>4. [F EXCEPT ![i] = R] = [a \in A |-> IF a = i THEN R ELSE F[a]]
  OBVIOUS
<1>5. \A a \in A : (IF a = i THEN R ELSE F[a])
                     = [b \in B |-> IF a = i /\ b = j THEN e ELSE F[a][b]]
  BY <1>1, <1>2
<1> QED BY <1>3, <1>4, <1>5

\* The variable that n is to f gets a value.
PutAt(o, v, f, n, val) == [v EXCEPT ![o[f][n]][n] = val]

LEMMA SetsMaps ==
    ASSUME NEW p, NEW q, NEW pr, NEW rx, NEW cnt, Framed(pr, rx, cnt), Owned(p, pr, rx),
           NEW f \in 0..rx, NEW n \in Simple, NEW val,
           Sets(p, q, Used(pr, rx), pr[f].scope, n, val)
    PROVE  /\ OMap(q, pr, rx) = OMap(p, pr, rx)
           /\ VMap(q, pr, rx) = PutAt(OMap(p, pr, rx), VMap(p, pr, rx), f, n, val)
<1> DEFINE U == Used(pr, rx)
           sc == pr[f].scope
           G(s, m) == Group(p, U, s, m)
           L == Lead(G(sc, n))
           V == VMap(p, pr, rx)
<1>1. \A g \in 0..rx : pr[g].scope \in U
  BY DEF Used
<1>2. \A s \in U : s \in Frames /\ s \in Int
  BY FramedFacts DEF Used
<1>3. sc \in U
  BY <1>1
<1>4. \A s \in U, m \in Simple :
         /\ Group(q, U, s, m) = G(s, m)
         /\ View(q, s, m) = IF m = n /\ s \in G(sc, n) THEN val ELSE View(p, s, m)
  BY DEF Sets
<1>5. \A g \in 0..rx, m \in Simple : Group(q, U, pr[g].scope, m) = G(pr[g].scope, m)
  BY <1>1, <1>4
<1>6. OMap(q, pr, rx) = OMap(p, pr, rx)
  BY <1>5 DEF OMap
<1>7. L \in G(sc, n) /\ L \in U /\ L \in Frames
  BY <1>2, <1>3, LeadFacts, GroupFacts
<1>8. \A s \in G(sc, n) : G(s, n) = G(sc, n)
  BY <1>3, GroupFacts
<1>9. OMap(p, pr, rx)[f][n] = L
  BY FramedFacts DEF OMap
<1>10. ASSUME NEW g \in Frames, NEW m \in Simple
       PROVE  (IF g \in U /\ Lead(Group(q, U, g, m)) = g THEN View(q, g, m) ELSE m)
               = IF g = L /\ m = n THEN val ELSE V[g][m]
  <2>1. V[g][m] = IF g \in U /\ Lead(G(g, m)) = g THEN View(p, g, m) ELSE m
    BY DEF VMap
  <2> HIDE DEF U, sc, V
  <2>2. CASE g = L /\ m = n
    <3>1. G(g, m) = G(sc, n)
      BY <1>7, <1>8, <2>2
    <3> HIDE DEF G
    <3> QED BY <1>4, <1>7, <2>2, <3>1
  <2>3. CASE m = n /\ g # L /\ g \in G(sc, n)
    <3>1. G(g, m) = G(sc, n)
      BY <1>8, <2>3
    <3>2. Lead(G(g, m)) # g
      BY <2>3, <3>1
    <3> HIDE DEF G, L
    <3> QED BY <1>4, <2>1, <2>3, <3>2
  <2>4. CASE ~ (m = n /\ g \in G(sc, n))
    <3>1. ~ (g = L /\ m = n)
      BY <1>7, <2>4
    <3> HIDE DEF G, L
    <3> QED BY <1>4, <2>1, <2>4, <3>1
  <2> QED BY <2>2, <2>3, <2>4
<1>11. VMap(q, pr, rx) = [g \in Frames |-> [m \in Simple |->
                             IF g = L /\ m = n THEN val ELSE V[g][m]]]
  BY <1>10 DEF VMap
<1>12. V = [g \in Frames |-> [m \in Simple |-> V[g][m]]]
  BY DEF VMap
<1> HIDE DEF V, L, G
<1>13. [g \in Frames |-> [m \in Simple |-> IF g = L /\ m = n THEN val ELSE V[g][m]]]
         = [V EXCEPT ![L][n] = val]
  BY <1>7, <1>12, ExceptAt
<1> QED BY <1>6, <1>9, <1>11, <1>13 DEF V, PutAt

\* The name n is to f the variable that it is to the activation below.
JoinAt(o, f, n) == [o EXCEPT ![f][n] = o[f - 1][n]]

\* EXPOSE of a name that the routine does not have, or has already.
LEMMA SharesMaps ==
    ASSUME NEW p, NEW q, NEW pr, NEW rx, NEW cnt, Framed(pr, rx, cnt), Owned(p, pr, rx),
           NEW old, Callee(pr, rx, old), NEW n \in Simple, Agree(p, rx, old),
           Shares(p, q, Used(pr, rx), rx, old, n)
    PROVE  /\ OMap(q, pr, rx) = JoinAt(OMap(p, pr, rx), rx, n)
           /\ VMap(q, pr, rx) = VMap(p, pr, rx)
<1> DEFINE U == Used(pr, rx)
           G(s, m) == Group(p, U, s, m)
           L == Lead(G(old, n))
           o == OMap(p, pr, rx)
<1>1. /\ rx \in Frames /\ rx \in 0..rx /\ rx - 1 \in 0..rx /\ rx - 1 \in Frames
      /\ rx \in Int /\ pr[rx].scope = rx /\ pr[rx - 1].scope = old /\ old < rx
  <2>1. rx \in Frames /\ rx \in Int /\ rx >= 0 /\ rx > 0
    BY FramedFacts DEF Callee
  <2>2. rx \in 0..rx /\ rx - 1 \in 0..rx
    BY <2>1
  <2>3. rx - 1 \in Frames /\ pr[rx - 1].scope <= rx - 1 /\ pr[rx - 1].scope \in Int
    BY <2>2, FramedFacts
  <2> QED BY <2>1, <2>2, <2>3 DEF Callee
<1>2. \A s \in U : s \in Frames /\ s \in Int
  BY FramedFacts DEF Used
<1>3. rx \in U /\ old \in U
  BY <1>1 DEF Used
<1>4. \A g \in 0..rx : pr[g].scope \in U /\ (g # rx => pr[g].scope # rx)
  <2> SUFFICES ASSUME NEW g \in 0..rx PROVE pr[g].scope \in U /\ (g # rx => pr[g].scope # rx)
    OBVIOUS
  <2>1. pr[g].scope <= g /\ g <= rx /\ g \in Int /\ pr[g].scope \in Int
    BY FramedFacts
  <2> QED BY <1>1, <2>1 DEF Used
<1>5. \A s \in U, m \in Simple :
         IF m = n /\ (s = rx \/ s \in G(old, n))
         THEN Group(q, U, s, m) = G(old, n) \cup {rx} /\ View(q, s, m) = View(p, old, n)
         ELSE Group(q, U, s, m) = G(s, m) /\ View(q, s, m) = View(p, s, m)
  BY DEF Shares
<1>6. /\ L \in G(old, n) /\ \A h \in G(old, n) : L <= h
      /\ old \in G(old, n) /\ G(old, n) \subseteq U
  BY <1>3, LeadFacts, GroupFacts
<1>7. \A s \in G(old, n) : G(s, n) = G(old, n) /\ View(p, s, n) = View(p, old, n)
  BY <1>3, GroupFacts
<1>8. rx \in G(old, n) \/ (G(rx, n) = {rx} /\ View(p, rx, n) = n)
  <2>1. CASE p.head[rx][n] = Nil
    BY <1>3, <2>1 DEF Group, View
  <2>2. CASE p.head[rx][n] # Nil
    <3>1. p.head[old][n] = p.head[rx][n]
      BY <2>2 DEF Agree
    <3> QED BY <1>3, <2>2, <3>1 DEF Group
  <2> QED BY <2>1, <2>2
<1> HIDE DEF U, G, L
<1>9. L < rx /\ L \in Int /\ L \in U
  BY <1>1, <1>2, <1>6
<1>10. Lead(G(old, n) \cup {rx}) = L
  <2>1. G(old, n) \cup {rx} \subseteq Int
    BY <1>1, <1>2, <1>6
  <2>2. L \in G(old, n) \cup {rx} /\ \A h \in G(old, n) \cup {rx} : L <= h
    BY <1>1, <1>6, <1>9
  <2> QED BY <2>1, <2>2, LeadIs
<1>11. \A s \in U, m \in Simple :
          Lead(Group(q, U, s, m)) = IF m = n /\ s = rx THEN L ELSE Lead(G(s, m))
  <2> SUFFICES ASSUME NEW s \in U, NEW m \in Simple
               PROVE  Lead(Group(q, U, s, m)) = IF m = n /\ s = rx THEN L ELSE Lead(G(s, m))
    OBVIOUS
  <2>1. CASE m = n /\ s = rx
    BY <1>5, <1>10, <2>1
  <2>2. CASE m = n /\ s # rx /\ s \in G(old, n)
    <3>1. Lead(Group(q, U, s, m)) = L
      BY <1>5, <1>10, <2>2
    <3>2. Lead(G(s, m)) = L
      BY <1>7, <2>2 DEF L
    <3> QED BY <2>2, <3>1, <3>2
  <2>3. CASE ~ (m = n /\ (s = rx \/ s \in G(old, n)))
    BY <1>5, <2>3
  <2> QED BY <2>1, <2>2, <2>3
<1>12. o[rx - 1][n] = L
  BY <1>1 DEF OMap, L, G, U
<1>13. OMap(q, pr, rx) = [f \in Frames |-> [m \in Simple |->
                             IF f = rx /\ m = n THEN L ELSE o[f][m]]]
  <2>1. ASSUME NEW f \in Frames, NEW m \in Simple
        PROVE  (IF f \in 0..rx THEN Lead(Group(q, U, pr[f].scope, m)) ELSE f)
                = IF f = rx /\ m = n THEN L ELSE o[f][m]
    <3>1. o[f][m] = IF f \in 0..rx THEN Lead(G(pr[f].scope, m)) ELSE f
      BY DEF OMap, G, U
    <3> HIDE DEF o
    <3> QED BY <1>1, <1>4, <1>11, <3>1
  <2> HIDE DEF o
  <2> QED BY <2>1 DEF OMap, U
<1>14. o = [g \in Frames |-> [m \in Simple |-> o[g][m]]]
  BY DEF OMap
<1>15. ASSUME NEW f \in Frames, NEW m \in Simple
       PROVE  (IF f \in U /\ Lead(Group(q, U, f, m)) = f THEN View(q, f, m) ELSE m)
               = IF f \in U /\ Lead(G(f, m)) = f THEN View(p, f, m) ELSE m
  <2>1. CASE f \in U /\ m = n /\ f = rx
    <3>1. Lead(Group(q, U, f, m)) # f
      BY <1>1, <1>9, <1>11, <2>1
    <3>2. CASE rx \in G(old, n)
      <4>1. Lead(G(f, m)) = L
        BY <1>7, <2>1, <3>2 DEF L
      <4> QED BY <1>1, <1>9, <2>1, <3>1, <4>1
    <3>3. CASE View(p, rx, n) = n
      BY <2>1, <3>1, <3>3
    <3> QED BY <1>8, <3>2, <3>3
  <2>2. CASE f \in U /\ m = n /\ f # rx /\ f \in G(old, n)
    <3>1. View(q, f, m) = View(p, f, m)
      BY <1>5, <1>7, <2>2
    <3> QED BY <1>11, <2>2, <3>1
  <2>3. CASE f \in U /\ ~ (m = n /\ (f = rx \/ f \in G(old, n)))
    BY <1>5, <2>3
  <2> QED BY <2>1, <2>2, <2>3
<1>16. VMap(q, pr, rx) = VMap(p, pr, rx)
  BY <1>15 DEF VMap, U, G
<1> HIDE DEF o
<1>17. [f \in Frames |-> [m \in Simple |-> IF f = rx /\ m = n THEN L ELSE o[f][m]]]
         = [o EXCEPT ![rx][n] = L]
  BY <1>1, <1>14, ExceptAt
<1> QED BY <1>12, <1>13, <1>16, <1>17 DEF o, JoinAt

\* An activation sees what the one below sees.
PushAt(o, f) == [o EXCEPT ![f + 1] = o[f]]

\* A frame that runs in the scope of the one below it.
LEMMA PushMaps ==
    ASSUME NEW p, NEW pr, NEW rx, NEW cnt, Framed(pr, rx, cnt), rx >= 0,
           NEW pr2, NEW cnt2, Framed(pr2, rx + 1, cnt2),
           \A g \in 0..rx : pr2[g] = pr[g], pr2[rx + 1].scope = pr[rx].scope
    PROVE  /\ Used(pr2, rx + 1) = Used(pr, rx)
           /\ OMap(p, pr2, rx + 1) = PushAt(OMap(p, pr, rx), rx)
           /\ VMap(p, pr2, rx + 1) = VMap(p, pr, rx)
<1> DEFINE o == OMap(p, pr, rx)
<1>1. /\ rx \in Int /\ rx \in 0..rx /\ rx \in Frames /\ rx + 1 \in Frames
      /\ 0..(rx + 1) = (0..rx) \cup {rx + 1} /\ rx + 1 \notin 0..rx
  <2>1. rx \in Int
    BY FramedFacts
  <2>2. rx \in 0..rx /\ rx + 1 \in 0..(rx + 1) /\ rx + 1 \notin 0..rx
        /\ 0..(rx + 1) = (0..rx) \cup {rx + 1}
    BY <2>1
  <2> QED BY <2>1, <2>2, FramedFacts
<1>2. Used(pr2, rx + 1) = Used(pr, rx)
  BY <1>1 DEF Used
<1>3. \A f \in Frames, n \in Simple :
         (IF f \in 0..(rx + 1) THEN Lead(Group(p, Used(pr, rx), pr2[f].scope, n)) ELSE f)
           = IF f = rx + 1 THEN o[rx][n] ELSE o[f][n]
  BY <1>1 DEF OMap
<1>4. \A f \in Frames : o[f] = [n \in Simple |-> o[f][n]]
  BY DEF OMap
<1>5. o = [f \in Frames |-> o[f]]
  BY DEF OMap
<1>6. OMap(p, pr2, rx + 1)
        = [f \in Frames |-> [n \in Simple |-> IF f = rx + 1 THEN o[rx][n] ELSE o[f][n]]]
  <2> HIDE DEF o
  <2>1. \A f \in Frames, n \in Simple :
           (IF f \in 0..(rx + 1) THEN Lead(Group(p, Used(pr2, rx + 1), pr2[f].scope, n)) ELSE f)
             = IF f = rx + 1 THEN o[rx][n] ELSE o[f][n]
    BY <1>2, <1>3
  <2> QED BY <2>1 DEF OMap
<1> HIDE DEF o
<1>7. OMap(p, pr2, rx + 1) = [f \in Frames |-> IF f = rx + 1 THEN o[rx] ELSE o[f]]
  <2>1. \A f \in Frames : [n \in Simple |-> IF f = rx + 1 THEN o[rx][n] ELSE o[f][n]]
                            = IF f = rx + 1 THEN o[rx] ELSE o[f]
    BY <1>1, <1>4
  <2> QED BY <1>6, <2>1
<1>8. OMap(p, pr2, rx + 1) = [o EXCEPT ![rx + 1] = o[rx]]
  BY <1>5, <1>7
<1>9. VMap(p, pr2, rx + 1) = VMap(p, pr, rx)
  BY <1>2 DEF VMap
<1> QED BY <1>2, <1>8, <1>9 DEF o, PushAt

\* A PROCEDURE's scope is empty at first: all its names are its own, and unset.
LEMMA ScopeMaps ==
    ASSUME NEW p, NEW pr, NEW rx, NEW cnt, Framed(pr, rx, cnt),
           NEW pr2, NEW cnt2, Framed(pr2, rx + 1, cnt2),
           \A g \in 0..rx : pr2[g] = pr[g], pr2[rx + 1].scope = rx + 1,
           p.head[rx + 1] = NoHeads
    PROVE  OMap(p, pr2, rx + 1) = OMap(p, pr, rx) /\ VMap(p, pr2, rx + 1) = VMap(p, pr, rx)
<1> DEFINE U == Used(pr, rx)
           x == rx + 1
<1>1. /\ rx \in Int /\ x \in Frames /\ x \in Int
      /\ 0..x = (0..rx) \cup {x} /\ x \notin 0..rx
  <2>1. rx \in Int /\ rx >= -1
    BY FramedFacts
  <2>2. rx + 1 \in 0..(rx + 1) /\ 0..(rx + 1) = (0..rx) \cup {rx + 1} /\ rx + 1 \notin 0..rx
    BY <2>1
  <2> QED BY <2>1, <2>2, FramedFacts
<1>2. \A g \in 0..rx : pr[g].scope \in U /\ pr[g].scope # x
  <2> SUFFICES ASSUME NEW g \in 0..rx PROVE pr[g].scope \in U /\ pr[g].scope # x
    OBVIOUS
  <2>1. pr[g].scope \in Int /\ pr[g].scope <= g /\ g <= rx /\ g \in Int
    BY FramedFacts
  <2> QED BY <1>1, <2>1 DEF Used
<1>3. x \notin U
  BY <1>2 DEF Used
<1>4. Used(pr2, rx + 1) = U \cup {x}
  BY <1>1 DEF Used
<1>5. \A m \in Simple : p.head[x][m] = Nil
  BY DEF NoHeads, Names
<1> HIDE DEF U
<1>6. \A s \in U, m \in Simple : Group(p, U \cup {x}, s, m) = Group(p, U, s, m)
  BY <1>3, <1>5 DEF Group
<1>7. \A m \in Simple : Lead(Group(p, U \cup {x}, x, m)) = x /\ View(p, x, m) = m
  <2> SUFFICES ASSUME NEW m \in Simple
               PROVE  Lead(Group(p, U \cup {x}, x, m)) = x /\ View(p, x, m) = m
    OBVIOUS
  <2>1. Group(p, U \cup {x}, x, m) = {x}
    BY <1>5 DEF Group
  <2>2. Lead({x}) = x
    BY <1>1, LeadIs
  <2> QED BY <1>5, <2>1, <2>2 DEF View
<1>8. \A f \in Frames, m \in Simple :
         (IF f \in 0..(rx + 1) THEN Lead(Group(p, U \cup {x}, pr2[f].scope, m)) ELSE f)
           = IF f \in 0..rx THEN Lead(Group(p, U, pr[f].scope, m)) ELSE f
  BY <1>1, <1>2, <1>6, <1>7
<1>9. \A f \in Frames, m \in Simple :
         (IF f \in U \cup {x} /\ Lead(Group(p, U \cup {x}, f, m)) = f THEN View(p, f, m) ELSE m)
           = IF f \in U /\ Lead(Group(p, U, f, m)) = f THEN View(p, f, m) ELSE m
  BY <1>3, <1>6, <1>7
<1> HIDE DEF x
<1>10. OMap(p, pr2, rx + 1) = OMap(p, pr, rx)
  BY <1>4, <1>8 DEF OMap, U
<1>11. VMap(p, pr2, rx + 1) = VMap(p, pr, rx)
  BY <1>4, <1>9 DEF VMap, U
<1> QED BY <1>10, <1>11

\* The scopes of U2 remain of those of U.
Cuts(p, U, q, U2) ==
    \A s \in U2, m \in Simple :
        Group(q, U2, s, m) = Group(p, U, s, m) \cap U2 /\ View(q, s, m) = View(p, s, m)

\* The frames above k end.
CutOwners(o, k) == [f \in Frames |-> IF f <= k THEN o[f] ELSE [n \in Simple |-> f]]
CutValues(v, k) == [f \in Frames |-> IF f <= k THEN v[f] ELSE [n \in Simple |-> n]]

LEMMA CutMaps ==
    ASSUME NEW p, NEW q, NEW pr, NEW rx, NEW cnt, Framed(pr, rx, cnt), Owned(p, pr, rx),
           NEW k \in -1..rx, NEW pr2, NEW cnt2, Framed(pr2, k, cnt2),
           \A g \in 0..k : pr2[g] = pr[g],
           Used(pr, rx) \subseteq Used(pr2, k) \cup {k + 1},
           Cuts(p, Used(pr, rx), q, Used(pr2, k))
    PROVE  /\ OMap(q, pr2, k) = CutOwners(OMap(p, pr, rx), k)
           /\ VMap(q, pr2, k) = CutValues(VMap(p, pr, rx), k)
<1> DEFINE U == Used(pr, rx)
           T == Used(pr2, k)
           G(s, m) == Group(p, U, s, m)
<1>1. /\ k \in Int /\ rx \in Int /\ k <= rx
      /\ \A g \in 0..k : g \in 0..rx /\ pr2[g].scope \in T /\ pr[g].scope = pr2[g].scope
      /\ \A f \in Frames : (f \in 0..k <=> f <= k) /\ f \in Int
  BY FramedFacts DEF Used, Frames
<1>2. \A s \in T : s \in U /\ s \in Int /\ s <= k
  <2> SUFFICES ASSUME NEW g \in 0..k
               PROVE  pr2[g].scope \in U /\ pr2[g].scope \in Int /\ pr2[g].scope <= k
    BY DEF Used
  <2>1. pr2[g].scope <= g /\ g <= k /\ g \in Int /\ pr2[g].scope \in Int
    BY FramedFacts
  <2>2. pr2[g].scope \in U
    BY <1>1 DEF Used
  <2> QED BY <1>1, <2>1, <2>2
<1>3. \A s \in U : s \in Int /\ (s \in T \/ s > k)
  <2>1. \A s \in U : s \in Int
    BY FramedFacts DEF Used
  <2>2. \A s \in U : s \in T \/ s = k + 1
    OBVIOUS
  <2> HIDE DEF U, T
  <2> QED BY <1>1, <2>1, <2>2
<1>4. \A s \in U, m \in Simple :
         Lead(G(s, m)) \in G(s, m) /\ (\A h \in G(s, m) : Lead(G(s, m)) <= h)
         /\ s \in G(s, m) /\ G(s, m) \subseteq U
  BY LeadFacts, GroupFacts
<1>5. \A s \in T, m \in Simple :
         Group(q, T, s, m) = G(s, m) \cap T /\ View(q, s, m) = View(p, s, m)
  BY DEF Cuts
<1> HIDE DEF U, T, G
<1>6. ASSUME NEW s \in T, NEW m \in Simple
      PROVE  Lead(Group(q, T, s, m)) = Lead(G(s, m))
  <2> DEFINE L == Lead(G(s, m))
  <2>1. L \in G(s, m) /\ (\A h \in G(s, m) : L <= h) /\ s \in G(s, m) /\ L \in U
    BY <1>2, <1>4
  <2> HIDE DEF L
  <2>2. L <= s /\ s <= k
    BY <1>2, <2>1
  <2>3. L \in T
    <3>1. L \in Int /\ s \in Int /\ k \in Int
      BY <1>1, <1>2, <1>3, <2>1
    <3>2. ~ L > k
      BY <2>2, <3>1
    <3> QED BY <1>3, <2>1, <3>2
  <2>4. G(s, m) \cap T \subseteq Int
    BY <1>2
  <2>5. Lead(G(s, m) \cap T) = L
    BY <2>1, <2>3, <2>4, LeadIs
  <2> QED BY <1>5, <2>5 DEF L
<1>7. \A f \in Frames, m \in Simple :
         (IF f \in 0..k THEN Lead(Group(q, T, pr2[f].scope, m)) ELSE f)
           = IF f <= k THEN OMap(p, pr, rx)[f][m] ELSE f
  BY <1>1, <1>6 DEF OMap, G, U
<1>8. \A f \in Frames, m \in Simple :
         (IF f \in T /\ Lead(Group(q, T, f, m)) = f THEN View(q, f, m) ELSE m)
           = IF f <= k THEN VMap(p, pr, rx)[f][m] ELSE m
  <2> SUFFICES ASSUME NEW f \in Frames, NEW m \in Simple
               PROVE  (IF f \in T /\ Lead(Group(q, T, f, m)) = f THEN View(q, f, m) ELSE m)
                        = IF f <= k THEN VMap(p, pr, rx)[f][m] ELSE m
    OBVIOUS
  <2>1. VMap(p, pr, rx)[f][m] = IF f \in U /\ Lead(G(f, m)) = f THEN View(p, f, m) ELSE m
    BY DEF VMap, G, U
  <2>2. f \in T => f \in U /\ f <= k
    BY <1>2
  <2>3. f \in U /\ f <= k => f \in T
    BY <1>1, <1>3
  <2> QED BY <1>5, <1>6, <2>1, <2>2, <2>3
<1>9. /\ \A f \in Frames : OMap(p, pr, rx)[f] = [m \in Simple |-> OMap(p, pr, rx)[f][m]]
      /\ \A f \in Frames : VMap(p, pr, rx)[f] = [m \in Simple |-> VMap(p, pr, rx)[f][m]]
  BY DEF OMap, VMap
<1>10. OMap(q, pr2, k) = [f \in Frames |-> [m \in Simple |->
                            IF f <= k THEN OMap(p, pr, rx)[f][m] ELSE f]]
  BY <1>7 DEF OMap, T
<1>11. VMap(q, pr2, k) = [f \in Frames |-> [m \in Simple |->
                            IF f <= k THEN VMap(p, pr, rx)[f][m] ELSE m]]
  BY <1>8 DEF VMap, T
<1>12. \A f \in Frames :
          /\ [m \in Simple |-> IF f <= k THEN OMap(p, pr, rx)[f][m] ELSE f]
               = IF f <= k THEN OMap(p, pr, rx)[f] ELSE [n \in Simple |-> f]
          /\ [m \in Simple |-> IF f <= k THEN VMap(p, pr, rx)[f][m] ELSE m]
               = IF f <= k THEN VMap(p, pr, rx)[f] ELSE [n \in Simple |-> n]
  BY <1>9
<1> QED BY <1>10, <1>11, <1>12 DEF CutOwners, CutValues

-----------------------------------------------------------------------------
(* What the operations write: values outside N stay.                       *)

Writes(p, q, N) == \A u \in VarIds \ N : q.value[u] = p.value[u]

LEMMA VariableFacts ==
    ASSUME NEW p, Tidy(p)
    PROVE  /\ p \in PoolType /\ Variables(p) \subseteq Objects(p) /\ Variables(p) \subseteq VarIds
           /\ Variables(p) \cap TailsOf(p, VarIds) = {} /\ Nil \notin Variables(p)
           /\ \A v : Unused(p, v) => v \notin Variables(p)
           /\ \A s \in Frames, n \in Simple :
                 p.head[s][n] = Nil \/ (p.head[s][n] \in Variables(p) /\ p.head[s][n] \in VarIds)
<1>1. p \in PoolType /\ Objects(p) \cap TailsOf(p, VarIds) = {}
  BY DEF Tidy
<1>2. Variables(p) \subseteq Objects(p)
  BY DEF Variables, Objects, Names
<1>3. Objects(p) \subseteq VarIds
  BY <1>1, ObjectFacts
<1> QED BY <1>1, <1>2, <1>3 DEF Unused, Variables

LEMMA ApartBy ==
    ASSUME NEW p, Tidy(p), NEW q, NEW n, n \notin Simple, But(p, q, n),
           NEW N, Writes(p, q, N), N \cap Variables(p) = {}
    PROVE  Apart(p, q)
BY VariableFacts DEF But, Writes, Apart, Names

LEMMA ApartHeads ==
    ASSUME NEW p, Tidy(p), NEW q, q.head = p.head,
           NEW N, Writes(p, q, N), N \cap Variables(p) = {}
    PROVE  Apart(p, q)
BY VariableFacts DEF Writes, Apart

LEMMA WritesTrans ==
    ASSUME NEW p, NEW q, NEW r, NEW N, NEW M, Writes(p, q, N), Writes(q, r, M)
    PROVE  Writes(p, r, N \cup M)
BY DEF Writes

LEMMA WritesMore ==
    ASSUME NEW p, NEW q, NEW N, NEW M, Writes(p, q, N), N \subseteq M
    PROVE  Writes(p, q, M)
BY DEF Writes

LEMMA AllocWrites ==
    ASSUME NEW p \in PoolType, NEW v \in VarIds, NEW val \in Text
    PROVE  Writes(p, Alloc(p, v, val), {v}) /\ Alloc(p, v, val).value[v] = val
BY DEF PoolType, Alloc, Writes

LEMMA StoreWrites ==
    ASSUME NEW p \in PoolType, NEW v \in VarIds, NEW val \in Text
    PROVE  /\ Writes(p, Store(p, v, val), {v}) /\ Store(p, v, val).value[v] = val
           /\ Store(p, v, val).head = p.head
BY DEF PoolType, Store, Writes

LEMMA HeadWrites ==
    ASSUME NEW p \in PoolType, NEW sc, NEW n, NEW v
    PROVE  SetHead(p, sc, n, v).value = p.value
BY DEF PoolType, SetHead

LEMMA MemoWrites ==
    ASSUME NEW p \in PoolType, NEW id, NEW sc, NEW n
    PROVE  /\ Memo(p, id, sc, n).value = p.value /\ Memo(p, id, sc, n).head = p.head
           /\ Forget(p, n).value = p.value /\ Forget(p, n).head = p.head
BY DEF PoolType, Memo, Forget

LEMMA MarkedWrites ==
    ASSUME NEW p \in PoolType, NEW v, NEW rx
    PROVE  Marked(p, v, rx).value = p.value /\ Marked(p, v, rx).head = p.head
BY DEF PoolType, Marked

LEMMA FindWrites ==
    ASSUME NEW p \in PoolType, NEW id \in IdRange, NEW sc \in Frames, NEW cur \in Frames,
           NEW r \in Refs
    PROVE  LET q == Find(p, id, sc, cur, r).pool
           IN  q \in PoolType /\ q.value = p.value /\ q.head = p.head /\ q.tail = p.tail
<1>1. Find(p, id, sc, cur, r).pool \in PoolType /\ Find(p, id, sc, cur, r).pool.head = p.head
      /\ Find(p, id, sc, cur, r).pool.tail = p.tail
  BY FindShape DEF SameShape
<1>2. CASE r \in Names
  BY <1>1, <1>2, MemoWrites DEF Find, SearchName
<1>3. CASE r \notin Names
  <2>1. r[1] \in Names /\ r[2] \in Indexes
    BY <1>3, ConstantTypes DEF Names
  <2> DEFINE a == SearchStem(p, id, sc, r[1])
             b == SearchIndex(a, id, cur, r[2])
  <2>2. a.value = p.value /\ a \in PoolType
    BY <2>1, MemoWrites, MemoShape DEF SearchStem, SameShape
  <2> HIDE DEF a
  <2>3. b.value = a.value
    BY <2>2, MemoWrites DEF SearchIndex, SearchName
  <2>4. Find(p, id, sc, cur, r).pool = b
    BY <1>3 DEF Find, a
  <2> QED BY <1>1, <2>2, <2>3, <2>4
<1> QED BY <1>2, <1>3

LEMMA ReleaseWrites ==
    ASSUME NEW p \in PoolType, NEW V \in SUBSET VarIds, NEW rx
    PROVE  Writes(p, Release(p, V, rx), V \cup TailsOf(p, VarIds))
<1> DEFINE stems == {v \in V : p.mark[v] = NoProc}
           all   == V \cup TailsOf(p, stems)
           freed == {v \in all : p.mark[v] = NoProc}
<1>1. all \subseteq V \cup TailsOf(p, VarIds)
  BY ObjectFacts
<1>2. Release(p, V, rx).value = [v \in VarIds |-> IF v \in freed THEN Null ELSE p.value[v]]
  <2> HIDE DEF freed
  <2> QED BY DEF PoolType, Release, freed, all, stems
<1> HIDE DEF all
<1> QED BY <1>1, <1>2 DEF Writes

LEMMA EmptyStemWrites ==
    ASSUME NEW p \in PoolType, NEW v \in VarIds, NEW rx
    PROVE  Writes(p, EmptyStem(p, v, rx), TailsOf(p, VarIds)) /\ EmptyStem(p, v, rx).head = p.head
<1> DEFINE q == Release(p, TailsOf(p, {v}), rx)
<1>1. TailsOf(p, {v}) \subseteq TailsOf(p, VarIds) /\ TailsOf(p, VarIds) \subseteq VarIds
  BY ObjectFacts
<1>2. TailsOf(p, {v}) \cup TailsOf(p, VarIds) = TailsOf(p, VarIds)
  BY <1>1
<1>3. Writes(p, q, TailsOf(p, VarIds)) /\ q \in PoolType
  BY <1>1, <1>2, ReleaseWrites, ReleaseQuiet DEF Quiet
<1> HIDE DEF q
<1>4. [q EXCEPT !.tail[v] = NoTails].value = q.value
  BY <1>3 DEF PoolType
<1>5. EmptyStem(p, v, rx) = [q EXCEPT !.tail[v] = NoTails]
  BY DEF EmptyStem, q
<1>6. Writes(p, EmptyStem(p, v, rx), TailsOf(p, VarIds))
  BY <1>3, <1>4, <1>5 DEF Writes
<1>7. EmptyStem(p, v, rx).head = p.head
  BY EmptyStemQuiet DEF Quiet
<1> QED BY <1>6, <1>7

LEMMA ScopeAssignWrites ==
    ASSUME NEW p \in PoolType, NEW v \in VarIds
    PROVE  Writes(p, ScopeAssign(p, v), TailsOf(p, VarIds)) /\ ScopeAssign(p, v).head = p.head
<1>1. TailsOf(p, {v}) \subseteq TailsOf(p, VarIds)
  BY ObjectFacts
<1>2. ScopeAssign(p, v).head = p.head
  BY AssignShape DEF SameShape
<1>3. ScopeAssign(p, v).value = [u \in VarIds |-> IF u \in TailsOf(p, {v}) THEN p.value[v]
                                                  ELSE p.value[u]]
  BY DEF PoolType, ScopeAssign
<1> QED BY <1>1, <1>2, <1>3 DEF Writes

-----------------------------------------------------------------------------
(* Operations on stems and compound variables leave the simple ones alone. *)

LEMMA AddWrites ==
    ASSUME NEW p \in PoolType, NEW sc \in Frames, NEW r \in Refs,
           NEW stem \in VarRefs, NEW t \in Text, NEW v \in VarIds, NEW w \in VarIds
    PROVE  Writes(p, Add(p, sc, r, stem, t, v, w), {v, w})
<1>1. CASE r \in Names
  <2>1. Alloc(p, v, Empty) \in PoolType /\ Writes(p, Alloc(p, v, Empty), {v})
    BY AllocFields, AllocWrites, ConstantTypes
  <2>2. Add(p, sc, r, stem, t, v, w) = SetHead(Alloc(p, v, Empty), sc, r, v)
    BY <1>1 DEF Add
  <2> QED BY <2>1, <2>2, HeadWrites DEF Writes
<1>2. CASE r \notin Names
  <2> DEFINE a == SetHead(Alloc(p, w, Null), sc, r[1], w)
             q == IF stem = Nil THEN a ELSE p
             h == IF stem = Nil THEN w ELSE stem
             d == IF q.value[h] = Null THEN Empty ELSE q.value[h]
             b == Alloc(q, v, d)
             z == [b EXCEPT !.tail[h][<<t, "hash">>] = v]
  <2>1. r[1] \in Names /\ h \in VarIds /\ w \in VarRefs /\ Null \in Text /\ Empty \in Text
    BY <1>2, ConstantTypes DEF Names, VarRefs
  <2>2. a \in PoolType /\ Writes(p, a, {w})
    <3>1. Alloc(p, w, Null) \in PoolType /\ Writes(p, Alloc(p, w, Null), {w})
      BY <2>1, AllocFields, AllocWrites
    <3> QED BY <2>1, <3>1, HeadFields, HeadWrites DEF Writes
  <2> HIDE DEF a
  <2>3. q \in PoolType /\ Writes(p, q, {w})
    BY <2>2 DEF Writes
  <2> HIDE DEF q, h
  <2>4. q.value[h] \in Text
    BY <2>1, <2>3 DEF PoolType
  <2>5. d \in Text
    BY <2>1, <2>4
  <2> HIDE DEF d
  <2>6. b \in PoolType /\ Writes(q, b, {v})
    BY <2>3, <2>5, AllocFields, AllocWrites
  <2> HIDE DEF b
  <2>7. z.value = b.value
    BY <2>6 DEF PoolType
  <2>8. Add(p, sc, r, stem, t, v, w) = z
    BY <1>2 DEF Add, a, q, h, d, b
  <2> HIDE DEF z
  <2> QED BY <2>3, <2>6, <2>7, <2>8 DEF Writes
<1> QED BY <1>1, <1>2

LEMMA AddApart ==
    ASSUME NEW p, Tidy(p), NEW sc \in Frames, NEW r \in Refs \ Simple,
           NEW stem \in VarRefs, NEW t \in Text, NEW v, Unused(p, v), NEW w, Unused(p, w)
    PROVE  Apart(p, Add(p, sc, r, stem, t, v, w))
<1>1. p \in PoolType /\ v \in VarIds /\ w \in VarIds /\ {v, w} \cap Variables(p) = {}
  BY VariableFacts DEF Unused
<1>2. Key(r) \notin Simple
  BY ConstantTypes, PoolConstants DEF Key, Names
<1> DEFINE q == Add(p, sc, r, stem, t, v, w)
<1>3. But(p, q, Key(r)) /\ Writes(p, q, {v, w})
  BY <1>1, AddBut, AddWrites
<1> HIDE DEF q
<1>4. Apart(p, q)
  BY <1>1, <1>2, <1>3, ApartBy
<1> QED BY <1>4 DEF q

\* The object that Find finds for a stem or a compound is no variable.
LEMMA FoundApart ==
    ASSUME NEW p, Tidy(p), NEW id, NEW sc \in Frames, NEW cur \in Frames, NEW r \in Refs \ Simple
    PROVE  Find(p, id, sc, cur, r).var \notin Variables(p)
<1>1. p \in PoolType /\ Variables(p) \cap TailsOf(p, VarIds) = {} /\ Nil \notin Variables(p)
  BY VariableFacts
<1>2. CASE r \in Names
  <2>1. Find(p, id, sc, cur, r).var = p.head[sc][r]
    BY <1>2 DEF Find
  <2>2. p.head[sc][r] # Nil => p.head[sc][r] \notin Variables(p)
    BY <1>2, OneName
  <2> QED BY <1>1, <2>1, <2>2
<1>3. CASE r \notin Names
  <2> DEFINE f == Find(p, id, sc, cur, r)
  <2>1. f.stem \in VarRefs /\ f.tail \in Text
    BY <1>1, FindTypes
  <2>2. f.var = IF f.stem = Nil THEN Nil ELSE p.tail[f.stem][<<f.tail, "hash">>]
    BY <1>3 DEF Find
  <2> HIDE DEF f
  <2>3. <<f.tail, "hash">> \in Slots
    BY <2>1 DEF Slots
  <2>4. f.var = Nil \/ f.var \in TailsOf(p, VarIds)
    BY <1>1, <2>1, <2>2, <2>3, ObjectFacts DEF VarRefs
  <2> QED BY <1>1, <2>4 DEF f
<1> QED BY <1>2, <1>3

LEMMA CreateApart ==
    ASSUME NEW p, Tidy(p), NEW id \in IdRange, NEW sc \in Frames, NEW r \in Refs \ Simple,
           CoherentIn(p, id, sc), id # NoCache, NEW v, Unused(p, v), NEW w, Unused(p, w)
    PROVE  LET c == Create(p, id, sc, r, v, w)
           IN  Apart(p, c.pool) /\ c.var \notin Variables(p)
<1> DEFINE f == Find(p, id, sc, sc, r)
           q == Add(f.pool, sc, r, f.stem, f.tail, v, w)
           z == IF r \in Names THEN Memo(q, id, sc, r) ELSE q
           c == Create(p, id, sc, r, v, w)
<1>0. p \in PoolType /\ v \in VarIds /\ w \in VarIds /\ v \notin Variables(p)
  BY VariableFacts DEF Unused
<1>1. f.pool \in PoolType /\ f.pool.head = p.head /\ f.pool.tail = p.tail
      /\ f.pool.value = p.value /\ f.stem \in VarRefs /\ f.tail \in Text
      /\ f.pool.live = p.live
  BY <1>0, FindWrites, FindTypes, FindShape DEF SameShape
<1>2. f.var \notin Variables(p)
  BY FoundApart
<1>3. Apart(p, f.pool)
  BY <1>1 DEF Apart
<1>4. r \in Names /\ Cached(p, id, r) => p.cache[r].var \notin Variables(p)
  <2> HAVE r \in Names /\ Cached(p, id, r)
  <2>1. p.cache[r].var # Nil /\ p.cache[r].var = p.head[sc][r]
    BY DEF CoherentIn, Cached
  <2> QED BY <2>1, OneName
<1>5. \/ r \in Names /\ Cached(p, id, r) /\ c = [pool |-> p, var |-> p.cache[r].var]
      \/ c = [pool |-> f.pool, var |-> f.var]
      \/ f.var = Nil /\ c = [pool |-> z, var |-> v]
  BY DEF Create
<1>50. r \in Names => f.var = p.head[sc][r]
  BY DEF Find
<1>51. r \notin Names => f.stem = p.head[sc][r[1]]
  BY <1>0, FindStem
<1> HIDE DEF f, c
<1>6. Tidy(f.pool) /\ Unused(f.pool, v) /\ Unused(f.pool, w)
  BY <1>1 DEF Tidy, Unused, Objects, TailsOf
<1>7. f.var = Nil => Apart(f.pool, q) /\ q \in PoolType
  <2> HAVE f.var = Nil
  <2>0. f.pool.head = p.head /\ r \in Refs
    BY <1>1
  <2> DEFINE g == f.pool
  <2>1. Adds(g, Add(g, sc, r, f.stem, f.tail, v, w), sc)
    <3>1. g \in PoolType /\ f.stem \in VarRefs /\ f.tail \in Text /\ g.head = p.head
      BY <1>1
    <3> HIDE DEF g
    <3>2. r \in Names => g.head[sc][r] = Nil
      BY <1>50, <3>1
    <3>3. r \notin Names /\ f.stem = Nil => g.head[sc][r[1]] = Nil
      BY <1>51, <3>1
    <3> QED BY <1>0, <2>0, <3>1, <3>2, <3>3, AddAdds
  <2> QED BY <1>1, <1>6, <2>1, AddApart DEF Adds
<1> HIDE DEF q
<1>8. f.var = Nil => Apart(q, z)
  BY <1>7, MemoWrites, ApartSelf DEF Apart
<1>9. f.var = Nil => Apart(p, z)
  BY <1>3, <1>7, <1>8, ApartTrans
<1> HIDE DEF z
<1>10. Apart(p, c.pool) /\ c.var \notin Variables(p)
  BY <1>0, <1>2, <1>3, <1>4, <1>5, <1>9, ApartSelf
<1> QED BY <1>10 DEF c

-----------------------------------------------------------------------------
(* Assigning a simple variable.                                            *)

LEMMA AddTurns ==
    ASSUME NEW p \in PoolType, NEW sc \in Frames, NEW n \in Simple, NEW stem, NEW t,
           NEW v \in VarIds, NEW w
    PROVE  LET q == Add(p, sc, n, stem, t, v, w)
           IN  q \in PoolType /\ Turns(p, q, sc, n, v) /\ Writes(p, q, {v})
<1> DEFINE a == Alloc(p, v, Empty)
           q == SetHead(a, sc, n, v)
<1>1. n \in Names /\ v \in VarRefs /\ Empty \in Text
  BY ConstantTypes DEF Names, VarRefs
<1>2. a \in PoolType /\ a.head = p.head /\ Writes(p, a, {v})
  BY <1>1, AllocFields, AllocWrites
<1> HIDE DEF a
<1>3. /\ q \in PoolType /\ q.head[sc][n] = v /\ q.value = a.value
      /\ \A s \in Frames, m \in Names : s # sc \/ m # n => q.head[s][m] = a.head[s][m]
  BY <1>1, <1>2, HeadFields, HeadWrites
<1>4. Add(p, sc, n, stem, t, v, w) = q
  BY <1>1 DEF Add, a
<1> HIDE DEF q
<1>5. Turns(p, q, sc, n, v)
  BY <1>2, <1>3 DEF Turns, Names
<1>6. Writes(p, q, {v})
  BY <1>2, <1>3 DEF Writes
<1> QED BY <1>3, <1>4, <1>5, <1>6

\* A new variable that is given a value.
LEMMA NewStored ==
    ASSUME NEW p, Tidy(p), NEW U, U \subseteq Frames, NEW sc \in U, NEW n \in Simple,
           p.head[sc][n] = Nil, NEW v, Unused(p, v),
           NEW q, q \in PoolType, Turns(p, q, sc, n, v), Writes(p, q, {v}), NEW val \in Text
    PROVE  /\ Sets(p, Store(q, v, val), U, sc, n, val)
           /\ Variables(Store(q, v, val)) \subseteq Variables(p) \cup {v}
<1> DEFINE z == Store(q, v, val)
<1>1. v \in VarIds /\ v # Nil /\ v \notin Variables(p) /\ Variables(p) \subseteq VarIds
  BY VariableFacts, PoolConstants DEF Unused
<1>2. z.head = q.head /\ z.value[v] = val /\ Writes(q, z, {v})
  BY <1>1, StoreWrites
<1> HIDE DEF z
<1>3. Turns(p, z, sc, n, v)
  BY <1>2 DEF Turns
<1>4. \A u \in Variables(p) : z.value[u] = p.value[u]
  BY <1>1, <1>2 DEF Writes
<1>5. Sets(p, z, U, sc, n, val) /\ Variables(z) = Variables(p) \cup {v}
  BY <1>1, <1>2, <1>3, <1>4, NewSets
<1> QED BY <1>5 DEF z

\* A variable that is there gets a value.
LEMMA OldStored ==
    ASSUME NEW p, Tidy(p), NEW U, U \subseteq Frames, NEW sc \in U, NEW n \in Simple,
           p.head[sc][n] # Nil, NEW g, g \in PoolType, g.head = p.head, g.value = p.value,
           NEW val \in Text
    PROVE  /\ Sets(p, Store(g, p.head[sc][n], val), U, sc, n, val)
           /\ Variables(Store(g, p.head[sc][n], val)) = Variables(p)
<1> DEFINE v == p.head[sc][n]
           q == Store(g, v, val)
<1>1. v \in VarIds /\ Variables(p) \subseteq VarIds
  BY VariableFacts
<1>2. q.head = g.head /\ q.value[v] = val /\ Writes(g, q, {v})
  BY <1>1, StoreWrites
<1> HIDE DEF q
<1>3. Puts(p, q, v, val)
  BY <1>1, <1>2 DEF Puts, Writes
<1> QED BY <1>3, PutsSets DEF q

LEMMA CreateSets ==
    ASSUME NEW p, Tidy(p), NEW id \in IdRange, NEW sc \in Frames, NEW n \in Simple,
           CoherentIn(p, id, sc), id # NoCache, NEW v, Unused(p, v), NEW w, NEW val \in Text,
           NEW U, U \subseteq Frames, sc \in U
    PROVE  LET c == Create(p, id, sc, n, v, w)
               q == Store(c.pool, c.var, val)
           IN  Sets(p, q, U, sc, n, val) /\ Variables(q) \subseteq Variables(p) \cup {v}
<1> DEFINE f == Find(p, id, sc, sc, n)
           a == Add(f.pool, sc, n, f.stem, f.tail, v, w)
           c == Create(p, id, sc, n, v, w)
           q == Store(c.pool, c.var, val)
<1>1. p \in PoolType /\ n \in Refs /\ n \in Names /\ v \in VarIds
  BY VariableFacts DEF Refs, Names, Unused
<1>2. f.pool \in PoolType /\ f.pool.head = p.head /\ f.pool.value = p.value
  BY <1>1, FindWrites
<1>3. f.var = p.head[sc][n]
  BY <1>1 DEF Find
<1>4. Cached(p, id, n) => p.cache[n].var = p.head[sc][n] /\ p.head[sc][n] # Nil
  BY <1>1 DEF CoherentIn, Cached
<1>5. CASE p.head[sc][n] # Nil
  <2>1. c.var = p.head[sc][n] /\ (c.pool = p \/ c.pool = f.pool)
    BY <1>1, <1>3, <1>4, <1>5 DEF Create
  <2> HIDE DEF c, f
  <2>2. c.pool \in PoolType /\ c.pool.head = p.head /\ c.pool.value = p.value
    BY <1>1, <1>2, <2>1
  <2>3. Sets(p, q, U, sc, n, val) /\ Variables(q) \subseteq Variables(p) \cup {v}
    <3> DEFINE g == c.pool
    <3> HIDE DEF g
    <3>1. g \in PoolType /\ g.head = p.head /\ g.value = p.value
      BY <2>2 DEF g
    <3>2. /\ Sets(p, Store(g, p.head[sc][n], val), U, sc, n, val)
          /\ Variables(Store(g, p.head[sc][n], val)) = Variables(p)
      BY <1>5, <3>1, OldStored
    <3> QED BY <2>1, <3>2 DEF g
  <2> QED BY <2>3 DEF c
<1>6. CASE p.head[sc][n] = Nil
  <2>1. c.var = v /\ c.pool = Memo(a, id, sc, n)
    BY <1>1, <1>3, <1>4, <1>6 DEF Create
  <2> HIDE DEF c, f
  <2>2. a \in PoolType /\ Turns(f.pool, a, sc, n, v) /\ Writes(f.pool, a, {v})
    BY <1>1, <1>2, AddTurns
  <2> HIDE DEF a
  <2>3. c.pool \in PoolType /\ c.pool.head = a.head /\ c.pool.value = a.value
    BY <1>1, <2>1, <2>2, MemoShape, MemoWrites DEF SameShape
  <2>4. Turns(p, c.pool, sc, n, v) /\ Writes(p, c.pool, {v})
    BY <1>2, <2>2, <2>3 DEF Turns, Writes
  <2>5. Sets(p, q, U, sc, n, val) /\ Variables(q) \subseteq Variables(p) \cup {v}
    BY <1>6, <2>1, <2>3, <2>4, NewStored
  <2> QED BY <2>5 DEF c
<1> QED BY <1>5, <1>6

\* SIGL and RESULT.
LEMMA VarSetSets ==
    ASSUME NEW p, Tidy(p), NEW id \in IdRange, NEW sc \in Frames, NEW n \in Simple,
           CoherentIn(p, id, sc), id # NoCache, NEW v, Unused(p, v), NEW val \in Text,
           NEW U, U \subseteq Frames, sc \in U
    PROVE  LET q == VarSet(p, id, sc, n, val, v)
           IN  Sets(p, q, U, sc, n, val) /\ Variables(q) \subseteq Variables(p) \cup {v}
BY CreateSets DEF VarSet

\* VALUE and EXECCOMM on the pool of some frame.
PoolPut(p, sc, r, val, v, w) ==
    LET f == FindName(p, sc, r)
        u == IF f.var = Nil THEN v ELSE f.var
        q == IF f.var = Nil THEN Add(p, sc, r, f.stem, f.tail, v, w) ELSE p
    IN  Store(q, u, val)

LEMMA PoolPutSets ==
    ASSUME NEW p, Tidy(p), NEW sc \in Frames, NEW n \in Simple, NEW v, Unused(p, v), NEW w,
           NEW val \in Text, NEW U, U \subseteq Frames, sc \in U
    PROVE  LET q == PoolPut(p, sc, n, val, v, w)
           IN  Sets(p, q, U, sc, n, val) /\ Variables(q) \subseteq Variables(p) \cup {v}
<1> DEFINE f == FindName(p, sc, n)
           a == Add(p, sc, n, f.stem, f.tail, v, w)
<1>1. p \in PoolType /\ n \in Names /\ v \in VarIds
  BY VariableFacts DEF Names, Unused
<1>2. f.var = p.head[sc][n]
  BY <1>1 DEF Find, FindName
<1>3. CASE p.head[sc][n] # Nil
  <2>1. PoolPut(p, sc, n, val, v, w) = Store(p, p.head[sc][n], val)
    BY <1>2, <1>3 DEF PoolPut
  <2> QED BY <1>1, <1>3, <2>1, OldStored
<1>4. CASE p.head[sc][n] = Nil
  <2>1. PoolPut(p, sc, n, val, v, w) = Store(a, v, val)
    BY <1>2, <1>4 DEF PoolPut
  <2>2. a \in PoolType /\ Turns(p, a, sc, n, v) /\ Writes(p, a, {v})
    BY <1>1, AddTurns
  <2> HIDE DEF a
  <2> QED BY <1>4, <2>1, <2>2, NewStored
<1> QED BY <1>3, <1>4

LEMMA PoolPutApart ==
    ASSUME NEW p, Tidy(p), NEW sc \in Frames, NEW r \in Refs \ Simple,
           NEW v, Unused(p, v), NEW w, Unused(p, w), NEW val \in Text
    PROVE  Apart(p, PoolPut(p, sc, r, val, v, w))
<1> DEFINE f == FindName(p, sc, r)
           u == IF f.var = Nil THEN v ELSE f.var
           q == IF f.var = Nil THEN Add(p, sc, r, f.stem, f.tail, v, w) ELSE p
<1>1. p \in PoolType /\ v \in VarIds /\ w \in VarIds /\ v \notin Variables(p)
  BY VariableFacts DEF Unused
<1>2. f.var = Find(p, NoCache, sc, sc, r).var /\ f.stem = Find(p, NoCache, sc, sc, r).stem
      /\ f.tail = Find(p, NoCache, sc, sc, r).tail
  BY DEF FindName, Find
<1>3. f.var \in VarRefs /\ f.stem \in VarRefs /\ f.tail \in Text
      /\ f.var \notin Variables(p)
  BY <1>1, <1>2, FindTypes, FoundApart
<1>4. /\ r \in Names => f.var = p.head[sc][r]
      /\ r \notin Names => f.stem = p.head[sc][r[1]]
  BY <1>1, <1>2, FindStem DEF Find
<1> HIDE DEF f
<1>5. u \in VarIds /\ u \notin Variables(p)
  BY <1>1, <1>3 DEF VarRefs
<1>6. q \in PoolType /\ Apart(p, q)
  <2>1. CASE f.var # Nil
    BY <1>1, <2>1, ApartSelf
  <2>2. CASE f.var = Nil
    <3>1. Adds(p, Add(p, sc, r, f.stem, f.tail, v, w), sc)
      BY <1>1, <1>3, <1>4, <2>2, AddAdds
    <3> QED BY <1>3, <2>2, <3>1, AddApart DEF Adds
  <2> QED BY <2>1, <2>2
<1> HIDE DEF u, q
<1>7. Apart(q, Store(q, u, val))
  <2>1. u \notin Variables(q)
    BY <1>5, <1>6, ApartVars
  <2>2. Writes(q, Store(q, u, val), {u}) /\ Store(q, u, val).head = q.head
    BY <1>5, <1>6, StoreWrites
  <2>3. Variables(q) \subseteq VarIds
    BY <1>6 DEF Variables, PoolType, Names
  <2> QED BY <2>1, <2>2, <2>3 DEF Apart, Writes
<1>8. PoolPut(p, sc, r, val, v, w) = Store(q, u, val)
  BY DEF PoolPut, q, u, f
<1> QED BY <1>6, <1>7, <1>8, ApartTrans

-----------------------------------------------------------------------------
(* Dropping.                                                               *)

\* A pool that differs in its caches only.
Same(p, g) == SameShape(p, g) /\ g.value = p.value

LEMMA SameFacts ==
    ASSUME NEW p, Tidy(p), NEW g, Same(p, g)
    PROVE  /\ Tidy(g) /\ g \in PoolType /\ g.head = p.head /\ g.value = p.value
           /\ g.tail = p.tail /\ g.mark = p.mark /\ Apart(p, g)
           /\ Variables(g) = Variables(p) /\ TailsOf(g, VarIds) = TailsOf(p, VarIds)
BY DEF Same, SameShape, Tidy, Objects, TailsOf, Apart, Variables

LEMMA SameSelf ==
    ASSUME NEW p \in PoolType
    PROVE  Same(p, p)
BY DEF Same, SameShape

LEMMA FindSame ==
    ASSUME NEW p \in PoolType, NEW id \in IdRange, NEW sc \in Frames, NEW cur \in Frames,
           NEW r \in Refs
    PROVE  Same(p, Find(p, id, sc, cur, r).pool)
BY FindShape, FindWrites DEF Same

LEMMA ForgetWrites ==
    ASSUME NEW p, NEW q \in PoolType, NEW n \in Names
    PROVE  /\ Forget(q, n).head = q.head /\ Forget(q, n).value = q.value
           /\ Apart(p, q) => Apart(p, Forget(q, n))
BY MemoWrites DEF Apart

\* RxVarFree of a shared variable resets it; its tails, if it has any, are freed.
LEMMA ClearWrites ==
    ASSUME NEW p, Tidy(p), NEW g, Same(p, g), NEW v \in VarIds, NEW val \in Text, NEW rx
    PROVE  LET q == EmptyStem(Store(g, v, val), v, rx)
           IN  /\ q \in PoolType /\ q.head = p.head
               /\ Writes(p, q, {v} \cup TailsOf(p, VarIds))
               /\ v \notin TailsOf(p, VarIds) => q.value[v] = val
<1> DEFINE a == Store(g, v, val)
           q == EmptyStem(a, v, rx)
<1>1. g \in PoolType /\ g.head = p.head /\ g.value = p.value
      /\ TailsOf(g, VarIds) = TailsOf(p, VarIds)
  BY SameFacts
<1>2. a \in PoolType /\ a.head = p.head /\ a.tail = g.tail /\ Writes(g, a, {v}) /\ a.value[v] = val
  BY <1>1, StoreWrites, StoreShape DEF SameShape
<1>3. TailsOf(a, VarIds) = TailsOf(p, VarIds)
  BY <1>1, <1>2 DEF TailsOf
<1> HIDE DEF a
<1>4. q \in PoolType /\ q.head = a.head /\ Writes(a, q, TailsOf(p, VarIds))
  BY <1>2, <1>3, EmptyStemWrites, EmptyStemQuiet DEF Quiet
<1> HIDE DEF q
<1>5. /\ q \in PoolType /\ q.head = p.head
      /\ Writes(p, q, {v} \cup TailsOf(p, VarIds))
      /\ v \notin TailsOf(p, VarIds) => q.value[v] = val
  BY <1>1, <1>2, <1>4 DEF Writes
<1> QED BY <1>5 DEF q, a

LEMMA RemovedWrites ==
    ASSUME NEW p, Tidy(p), NEW g, Same(p, g), NEW sc \in Frames, NEW n \in Names,
           p.head[sc][n] # Nil, NEW rx
    PROVE  LET q == Remove(g, sc, n, rx)
           IN  /\ q \in PoolType /\ Writes(p, q, {p.head[sc][n]} \cup TailsOf(p, VarIds))
               /\ q.head[sc][n] = Nil
               /\ \A s \in Frames, m \in Names : s # sc \/ m # n => q.head[s][m] = p.head[s][m]
<1> DEFINE a == SetHead(g, sc, n, Nil)
           v == p.head[sc][n]
           z == Release(a, {v}, rx)
<1>1. g \in PoolType /\ g.head = p.head /\ g.value = p.value /\ g.tail = p.tail
  BY SameFacts
<1>2. Nil \in VarRefs
  BY DEF VarRefs
<1>3. a \in PoolType /\ a.tail = p.tail /\ a.value = p.value /\ a.head[sc][n] = Nil
      /\ \A s \in Frames, m \in Names : s # sc \/ m # n => a.head[s][m] = p.head[s][m]
  BY <1>1, <1>2, HeadFields, HeadWrites
<1>4. {v} \in SUBSET VarIds
  BY ObjectFacts DEF Tidy
<1>5. Remove(g, sc, n, rx) = z
  BY <1>1 DEF Remove
<1> HIDE DEF a, v
<1>6. TailsOf(a, VarIds) = TailsOf(p, VarIds)
  BY <1>3 DEF TailsOf
<1>7. Writes(a, z, {v} \cup TailsOf(a, VarIds)) /\ z \in PoolType /\ z.head = a.head
  BY <1>3, <1>4, ReleaseWrites, ReleaseQuiet DEF Quiet
<1> HIDE DEF z
<1>8. Writes(p, z, {v} \cup TailsOf(p, VarIds))
  BY <1>3, <1>6, <1>7 DEF Writes
<1> QED BY <1>3, <1>5, <1>7, <1>8 DEF v

\* A stem that is dropped is no simple variable, nor are its tails.
LEMMA ClearApart ==
    ASSUME NEW p, Tidy(p), NEW g, Same(p, g), NEW v \in VarIds, v \notin Variables(p),
           NEW val \in Text, NEW rx
    PROVE  /\ Apart(p, EmptyStem(Store(g, v, val), v, rx))
           /\ EmptyStem(Store(g, v, val), v, rx) \in PoolType
<1> DEFINE q == EmptyStem(Store(g, v, val), v, rx)
<1>1. q \in PoolType /\ q.head = p.head /\ Writes(p, q, {v} \cup TailsOf(p, VarIds))
  BY ClearWrites
<1>2. ({v} \cup TailsOf(p, VarIds)) \cap Variables(p) = {}
  BY VariableFacts
<1> HIDE DEF q
<1>3. Apart(p, q)
  BY <1>1, <1>2, ApartHeads
<1> QED BY <1>1, <1>3 DEF q

LEMMA RemoveApart ==
    ASSUME NEW p, Tidy(p), NEW g, Same(p, g), NEW sc \in Frames, NEW n \in Stems,
           p.head[sc][n] # Nil, NEW rx
    PROVE  Apart(p, Remove(g, sc, n, rx)) /\ Remove(g, sc, n, rx) \in PoolType
<1> DEFINE q == Remove(g, sc, n, rx)
           v == p.head[sc][n]
<1>1. n \in Names /\ n \notin Simple
  BY PoolConstants DEF Names
<1>2. /\ q \in PoolType /\ Writes(p, q, {v} \cup TailsOf(p, VarIds))
      /\ \A s \in Frames, m \in Names : s # sc \/ m # n => q.head[s][m] = p.head[s][m]
  BY <1>1, RemovedWrites
<1>3. v \notin Variables(p)
  BY <1>1, OneName
<1>4. ({v} \cup TailsOf(p, VarIds)) \cap Variables(p) = {}
  BY <1>3, VariableFacts
<1> HIDE DEF q, v
<1>5. Apart(p, q)
  BY <1>1, <1>2, <1>4, ApartBy DEF But
<1> QED BY <1>2, <1>5 DEF q

\* A simple variable that is shared is reset.
LEMMA ClearSets ==
    ASSUME NEW p, Tidy(p), NEW g, Same(p, g), NEW U, U \subseteq Frames, NEW sc \in U,
           NEW n \in Simple, p.head[sc][n] # Nil, NEW val \in Text, NEW rx
    PROVE  LET q == EmptyStem(Store(g, p.head[sc][n], val), p.head[sc][n], rx)
           IN  /\ q \in PoolType /\ Sets(p, q, U, sc, n, val)
               /\ Variables(q) = Variables(p)
<1> DEFINE v == p.head[sc][n]
           q == EmptyStem(Store(g, v, val), v, rx)
<1>1. v \in VarIds /\ v \in Variables(p) /\ v \notin TailsOf(p, VarIds)
      /\ Variables(p) \subseteq VarIds /\ Variables(p) \cap TailsOf(p, VarIds) = {}
  BY VariableFacts
<1>2. q \in PoolType /\ q.head = p.head /\ Writes(p, q, {v} \cup TailsOf(p, VarIds))
      /\ q.value[v] = val
  <2> HIDE DEF v
  <2> QED BY <1>1, ClearWrites
<1> HIDE DEF q
<1>3. Puts(p, q, v, val)
  BY <1>1, <1>2 DEF Puts, Writes
<1>4. Sets(p, q, U, sc, n, val) /\ Variables(q) = Variables(p)
  BY <1>3, PutsSets
<1> QED BY <1>2, <1>4 DEF q

\* One that is not shared is freed.
LEMMA RemoveSets ==
    ASSUME NEW p, NEW pr, NEW rx, Owned(p, pr, rx), NEW g, Same(p, g),
           Used(pr, rx) \subseteq Frames, NEW sc \in Used(pr, rx),
           NEW n \in Simple, p.head[sc][n] # Nil, p.mark[p.head[sc][n]] = NoProc, NEW rx0
    PROVE  LET q == Remove(g, sc, n, rx0)
           IN  /\ q \in PoolType /\ Sets(p, q, Used(pr, rx), sc, n, n)
               /\ Variables(q) \subseteq Variables(p)
<1> DEFINE q == Remove(g, sc, n, rx0)
           v == p.head[sc][n]
           U == Used(pr, rx)
<1>1. Tidy(p) /\ n \in Names /\ Marks(p, pr, rx, sc, n)
  BY DEF Owned, Accounted, Names
<1>2. \A s \in U : p.head[s][n] = v => s = sc
  BY <1>1 DEF Marks, Sharers
<1>3. /\ q \in PoolType /\ Writes(p, q, {v} \cup TailsOf(p, VarIds))
      /\ q.head[sc][n] = Nil
      /\ \A s \in Frames, m \in Names : s # sc \/ m # n => q.head[s][m] = p.head[s][m]
  <2>1. sc \in Frames
    OBVIOUS
  <2> HIDE DEF U
  <2>2. q \in PoolType /\ Writes(p, q, {v} \cup TailsOf(p, VarIds))
    BY <1>1, <2>1, RemovedWrites
  <2>3. Writes(p, q, {v} \cup TailsOf(p, VarIds)) /\ q.head[sc][n] = Nil
    BY <1>1, <2>1, RemovedWrites
  <2>4. /\ Writes(p, q, {v} \cup TailsOf(p, VarIds))
        /\ \A s \in Frames, m \in Names : s # sc \/ m # n => q.head[s][m] = p.head[s][m]
    BY <1>1, <2>1, RemovedWrites
  <2> QED BY <2>2, <2>3, <2>4
<1>4. \A s \in Frames, m \in Simple :
         p.head[s][m] # Nil => p.head[s][m] \in Variables(p) /\ p.head[s][m] \in VarIds
                               /\ p.head[s][m] \notin TailsOf(p, VarIds)
  BY <1>1, VariableFacts
<1>5. \A s \in U, m \in Simple : p.head[s][m] = v => m = n /\ s = sc
  BY <1>1, <1>2, OneName
<1> HIDE DEF q
<1>6. \A s \in U, m \in Simple : s # sc \/ m # n =>
         p.head[s][m] = Nil \/ q.value[p.head[s][m]] = p.value[p.head[s][m]]
  <2> HIDE DEF v, U
  <2> QED BY <1>3, <1>4, <1>5 DEF Writes, U
<1>7. Turns(p, q, sc, n, Nil)
  BY <1>3 DEF Turns, Names
<1> HIDE DEF U
<1>8. Sets(p, q, U, sc, n, n) /\ Variables(q) \subseteq Variables(p)
  BY <1>2, <1>6, <1>7, GoneSets DEF U
<1> QED BY <1>3, <1>8 DEF q, U

\* A name without a variable.
LEMMA UnsetSets ==
    ASSUME NEW p, NEW q, Apart(p, q), NEW U, U \subseteq Frames, NEW sc \in U, NEW n \in Simple,
           p.head[sc][n] = Nil
    PROVE  Sets(p, q, U, sc, n, n) /\ Variables(q) = Variables(p)
<1>1. Still(p, q, U)
  BY ApartStill
<1>2. Group(p, U, sc, n) = {sc} /\ View(p, sc, n) = n
  BY DEF Group, View
<1> QED BY <1>1, <1>2, ApartVars DEF Sets, Still

LEMMA DropApart ==
    ASSUME NEW p, Tidy(p), NEW id \in IdRange, NEW sc \in Frames, NEW r \in Refs \ Simple,
           CoherentIn(p, id, sc), NEW rx
    PROVE  Apart(p, Drop(p, id, sc, r, rx))
<1> DEFINE hit == r \in Names /\ Cached(p, id, r)
           f == Find(p, id, sc, sc, r)
           q == IF hit THEN p ELSE f.pool
           v == IF hit THEN p.cache[r].var ELSE f.var
           z == Drop(p, id, sc, r, rx)
           val == IF q.value[v] = Null THEN Null ELSE r
<1>1. p \in PoolType /\ r \in Refs
  BY VariableFacts
<1>2. f.var \in VarRefs /\ f.tail \in Text /\ f.var \notin Variables(p) /\ Same(p, f.pool)
  BY <1>1, FindTypes, FoundApart, FindSame
<1>3. Same(p, q) /\ q \in PoolType /\ Apart(p, q)
  BY <1>1, <1>2, SameSelf, SameFacts
<1>4. CASE r \notin Names
  <2>1. z = IF f.var = Nil THEN f.pool ELSE Store(f.pool, f.var, OwnName(r, f.tail))
    BY <1>4 DEF Drop
  <2>2. f.pool \in PoolType /\ Apart(p, f.pool)
    BY <1>2, SameFacts
  <2> HIDE DEF f, z
  <2>3. ASSUME f.var # Nil PROVE Apart(p, Store(f.pool, f.var, OwnName(r, f.tail)))
    <3> DEFINE g == f.pool
               b == Store(g, f.var, OwnName(r, f.tail))
    <3> HIDE DEF g
    <3>1. g \in PoolType /\ f.var \in VarIds /\ OwnName(r, f.tail) \in Text
      BY <1>1, <1>2, <2>2, <2>3, NameTypes DEF VarRefs, g
    <3>2. Writes(g, b, {f.var}) /\ b.head = g.head
      BY <3>1, StoreWrites
    <3> HIDE DEF b
    <3>3. Variables(p) \subseteq VarIds
      BY VariableFacts
    <3>4. Apart(p, g)
      BY <2>2 DEF g
    <3>5. Apart(p, b)
      BY <1>2, <3>2, <3>3, <3>4 DEF Apart, Writes
    <3> QED BY <3>5 DEF b, g
  <2> QED BY <2>1, <2>2, <2>3 DEF z
<1>5. CASE r \in Names
  <2>0. r \in Stems
    BY <1>5 DEF Names
  <2>1. v = p.head[sc][r]
    <3>1. hit => p.cache[r].var = p.head[sc][r]
      BY <1>5 DEF CoherentIn, Cached
    <3>2. f.var = p.head[sc][r]
      BY <1>5 DEF Find
    <3> QED BY <3>1, <3>2
  <2>2. v \notin Variables(p) /\ (v # Nil => v \in VarIds)
    <3>1. p.head[sc][r] # Nil => p.head[sc][r] \notin Variables(p)
      BY <1>5, OneName
    <3>2. p.head[sc][r] # Nil => p.head[sc][r] \in VarIds
      BY <1>1, <1>5, ObjectFacts
    <3> HIDE DEF v
    <3> QED BY <2>1, <3>1, <3>2, VariableFacts
  <2>3. \/ v = Nil /\ z = Forget(q, r)
        \/ v # Nil /\ z = Forget(EmptyStem(Store(q, v, val), v, rx), r)
        \/ v # Nil /\ z = Forget(Remove(q, sc, r, rx), r)
    BY <1>5 DEF Drop
  <2> HIDE DEF q, v, z
  <2>4. CASE v = Nil /\ z = Forget(q, r)
    <3>1. Apart(p, z)
      BY <1>3, <1>5, <2>4, ForgetWrites
    <3> QED BY <3>1 DEF z
  <2>5. CASE v # Nil /\ z = Forget(EmptyStem(Store(q, v, val), v, rx), r)
    <3>1. val \in Text
      BY <1>5, ConstantTypes
    <3> HIDE DEF val
    <3> DEFINE b == EmptyStem(Store(q, v, val), v, rx)
    <3>2. Apart(p, b) /\ b \in PoolType
      BY <1>3, <2>2, <2>5, <3>1, ClearApart
    <3> HIDE DEF b
    <3>3. Apart(p, Forget(b, r))
      BY <1>5, <3>2, ForgetWrites
    <3> QED BY <2>5, <3>3 DEF z, b
  <2>6. CASE v # Nil /\ z = Forget(Remove(q, sc, r, rx), r)
    <3> DEFINE b == Remove(q, sc, r, rx)
    <3>1. p.head[sc][r] # Nil
      BY <2>1, <2>6
    <3>2. Apart(p, b) /\ b \in PoolType
      BY <1>3, <2>0, <3>1, RemoveApart
    <3> HIDE DEF b
    <3>3. Apart(p, Forget(b, r))
      BY <1>5, <3>2, ForgetWrites
    <3> QED BY <2>6, <3>3 DEF z, b
  <2> QED BY <2>3, <2>4, <2>5, <2>6
<1> QED BY <1>4, <1>5

LEMMA DropSets ==
    ASSUME NEW p, NEW pr, NEW rx, Owned(p, pr, rx), NEW id \in IdRange,
           Used(pr, rx) \subseteq Frames, NEW sc \in Used(pr, rx), NEW n \in Simple,
           CoherentIn(p, id, sc), NEW rx0, View(p, sc, n) # Null
    PROVE  LET z == Drop(p, id, sc, n, rx0)
           IN  Sets(p, z, Used(pr, rx), sc, n, n) /\ Variables(z) \subseteq Variables(p)
<1> DEFINE hit == n \in Names /\ Cached(p, id, n)
           f == Find(p, id, sc, sc, n)
           q == IF hit THEN p ELSE f.pool
           v == IF hit THEN p.cache[n].var ELSE f.var
           z == Drop(p, id, sc, n, rx0)
           val == IF q.value[v] = Null THEN Null ELSE n
           U == Used(pr, rx)
<1>1. p \in PoolType /\ n \in Refs /\ n \in Names /\ Tidy(p) /\ sc \in Frames /\ n \in Text
  BY ConstantTypes DEF Refs, Names, Owned, Tidy
<1>2. Same(p, f.pool)
  BY <1>1, FindSame
<1>3. Same(p, q) /\ q \in PoolType /\ Apart(p, q) /\ q.mark = p.mark /\ q.value = p.value
  <2>1. Same(p, q)
    BY <1>1, <1>2, SameSelf
  <2> HIDE DEF q
  <2> QED BY <1>1, <2>1, SameFacts
<1>4. v = p.head[sc][n]
  <2>1. hit => p.cache[n].var = p.head[sc][n]
    BY <1>1 DEF CoherentIn, Cached
  <2>2. f.var = p.head[sc][n]
    BY <1>1 DEF Find
  <2> QED BY <2>1, <2>2
<1>5. \/ v = Nil /\ z = Forget(q, n)
      \/ v # Nil /\ z = Forget(EmptyStem(Store(q, v, val), v, rx0), n)
      \/ v # Nil /\ q.mark[v] = NoProc /\ z = Forget(Remove(q, sc, n, rx0), n)
  BY <1>1 DEF Drop
<1> HIDE DEF q, v, z
<1>6. v # Nil => val = n
  BY <1>3, <1>4 DEF View
<1> HIDE DEF val, U
<1>7. CASE v = Nil /\ z = Forget(q, n)
  <2>1. Apart(p, z)
    BY <1>1, <1>3, <1>7, ForgetWrites
  <2>2. Sets(p, z, U, sc, n, n) /\ Variables(z) = Variables(p)
    BY <1>4, <1>7, <2>1, UnsetSets DEF U
  <2> QED BY <2>2 DEF z, U
<1>8. CASE v # Nil /\ z = Forget(EmptyStem(Store(q, v, val), v, rx0), n)
  <2> DEFINE b == EmptyStem(Store(q, v, n), v, rx0)
  <2>1. b \in PoolType /\ Sets(p, b, U, sc, n, n) /\ Variables(b) = Variables(p)
    BY <1>1, <1>3, <1>4, <1>8, ClearSets DEF U
  <2>2. z = Forget(b, n)
    BY <1>6, <1>8
  <2> HIDE DEF b
  <2>3. Apart(b, z)
    BY <1>1, <2>1, <2>2, ForgetWrites, ApartSelf
  <2>4. Sets(p, z, U, sc, n, n) /\ Variables(z) = Variables(p)
    BY <2>1, <2>3, ApartStill, ApartVars, SetsStill DEF U
  <2> QED BY <2>4 DEF z, U
<1>9. CASE v # Nil /\ q.mark[v] = NoProc /\ z = Forget(Remove(q, sc, n, rx0), n)
  <2> DEFINE b == Remove(q, sc, n, rx0)
  <2>0. p.head[sc][n] # Nil /\ p.mark[p.head[sc][n]] = NoProc
    BY <1>3, <1>4, <1>9
  <2>1. b \in PoolType /\ Sets(p, b, U, sc, n, n) /\ Variables(b) \subseteq Variables(p)
    BY <1>3, <2>0, RemoveSets DEF U
  <2>2. z = Forget(b, n)
    BY <1>9
  <2> HIDE DEF b
  <2>3. Apart(b, z)
    BY <1>1, <2>1, <2>2, ForgetWrites, ApartSelf
  <2>4. Sets(p, z, U, sc, n, n) /\ Variables(z) \subseteq Variables(p)
    BY <2>1, <2>3, ApartStill, ApartVars, SetsStill DEF U
  <2> QED BY <2>4 DEF z, U
<1> QED BY <1>5, <1>7, <1>8, <1>9

LEMMA DropNameApart ==
    ASSUME NEW p, Tidy(p), NEW sc \in Frames, NEW r \in Refs \ Simple, NEW rx
    PROVE  Apart(p, DropName(p, sc, r, rx))
<1> DEFINE f == FindName(p, sc, r)
           z == DropName(p, sc, r, rx)
<1>1. p \in PoolType /\ r \in Refs /\ Same(p, p)
  BY VariableFacts, SameSelf
<1>2. f.var = Find(p, NoCache, sc, sc, r).var /\ f.tail = Find(p, NoCache, sc, sc, r).tail
  BY DEF FindName, Find
<1>3. f.var \in VarRefs /\ f.tail \in Text /\ f.var \notin Variables(p)
  BY <1>1, <1>2, FindTypes, FoundApart
<1>4. \/ f.var = Nil /\ z = p
      \/ f.var # Nil /\ z = EmptyStem(Store(p, f.var, Written(r)), f.var, rx)
      \/ f.var # Nil /\ z = Store(p, f.var, OwnName(r, f.tail))
      \/ f.var # Nil /\ r \in Names /\ z = Forget(Remove(p, sc, r, rx), r)
  BY DEF DropName
<1>5. r \in Names => f.var = p.head[sc][r] /\ r \in Stems
  BY <1>2 DEF Find, Names
<1> HIDE DEF f, z
<1>6. OwnName(r, f.tail) \in Text /\ Written(r) \in Text /\ (f.var # Nil => f.var \in VarIds)
  BY <1>1, <1>3, NameTypes DEF VarRefs
<1>7. CASE f.var = Nil /\ z = p
  <2>1. Apart(p, z)
    BY <1>7, ApartSelf
  <2> QED BY <2>1 DEF z
<1>8. CASE f.var # Nil /\ z = EmptyStem(Store(p, f.var, Written(r)), f.var, rx)
  <2>1. Apart(p, z)
    BY <1>1, <1>3, <1>6, <1>8, ClearApart
  <2> QED BY <2>1 DEF z
<1>9. CASE f.var # Nil /\ z = Store(p, f.var, OwnName(r, f.tail))
  <2>1. Writes(p, z, {f.var}) /\ z.head = p.head
    BY <1>1, <1>6, <1>9, StoreWrites
  <2>2. Apart(p, z)
    BY <1>3, <2>1, ApartHeads
  <2> QED BY <2>2 DEF z
<1>10. CASE f.var # Nil /\ r \in Names /\ z = Forget(Remove(p, sc, r, rx), r)
  <2> DEFINE b == Remove(p, sc, r, rx)
  <2>1. p.head[sc][r] # Nil
    BY <1>5, <1>10
  <2>2. Apart(p, b) /\ b \in PoolType
    BY <1>1, <1>5, <1>10, <2>1, RemoveApart
  <2> HIDE DEF b
  <2>3. Apart(p, Forget(b, r))
    BY <1>10, <2>2, ForgetWrites
  <2> QED BY <1>10, <2>3 DEF z, b
<1> QED BY <1>4, <1>7, <1>8, <1>9, <1>10

LEMMA DropNameSets ==
    ASSUME NEW p, NEW pr, NEW rx, Owned(p, pr, rx),
           Used(pr, rx) \subseteq Frames, NEW sc \in Used(pr, rx), NEW n \in Simple, NEW rx0
    PROVE  LET z == DropName(p, sc, n, rx0)
           IN  Sets(p, z, Used(pr, rx), sc, n, n) /\ Variables(z) \subseteq Variables(p)
<1> DEFINE v == p.head[sc][n]
           z == DropName(p, sc, n, rx0)
           U == Used(pr, rx)
<1>1. p \in PoolType /\ n \in Names /\ Tidy(p) /\ sc \in Frames /\ n \in Text /\ Same(p, p)
  BY ConstantTypes, SameSelf DEF Names, Owned, Tidy
<1>2. FindName(p, sc, n).var = v /\ Written(n) = n
  BY <1>1 DEF FindName, Find, Written
<1>3. \/ v = Nil /\ z = p
      \/ v # Nil /\ z = EmptyStem(Store(p, v, n), v, rx0)
      \/ v # Nil /\ p.mark[v] = NoProc /\ z = Forget(Remove(p, sc, n, rx0), n)
  BY <1>1, <1>2 DEF DropName
<1> HIDE DEF z, U
<1>4. CASE v = Nil /\ z = p
  <2>1. Apart(p, z)
    BY <1>4, ApartSelf
  <2>2. Sets(p, z, U, sc, n, n) /\ Variables(z) = Variables(p)
    BY <1>4, <2>1, UnsetSets DEF U
  <2> QED BY <2>2 DEF z, U
<1>5. CASE v # Nil /\ z = EmptyStem(Store(p, v, n), v, rx0)
  <2>1. Sets(p, z, U, sc, n, n) /\ Variables(z) = Variables(p)
    BY <1>1, <1>5, ClearSets DEF U
  <2> QED BY <2>1 DEF z, U
<1>6. CASE v # Nil /\ p.mark[v] = NoProc /\ z = Forget(Remove(p, sc, n, rx0), n)
  <2> DEFINE b == Remove(p, sc, n, rx0)
  <2>1. b \in PoolType /\ Sets(p, b, U, sc, n, n) /\ Variables(b) \subseteq Variables(p)
    BY <1>1, <1>6, RemoveSets DEF U
  <2>2. z = Forget(b, n)
    BY <1>6
  <2> HIDE DEF b
  <2>3. Apart(b, z)
    BY <1>1, <2>1, <2>2, ForgetWrites, ApartSelf
  <2>4. Sets(p, z, U, sc, n, n) /\ Variables(z) \subseteq Variables(p)
    BY <2>1, <2>3, ApartStill, ApartVars, SetsStill DEF U
  <2> QED BY <2>4 DEF z, U
<1> QED BY <1>3, <1>4, <1>5, <1>6

-----------------------------------------------------------------------------
(* Exposing.                                                               *)

LEMMA EnterApart ==
    ASSUME NEW p, Tidy(p), NEW sc \in Frames, NEW r \in Refs \ Simple, NEW t \in Text,
           NEW v \in VarIds, NEW w, Unused(p, w), r \in Names => p.head[sc][r] = Nil
    PROVE  Apart(p, Enter(p, sc, r, t, v, w))
<1> DEFINE z == Enter(p, sc, r, t, v, w)
<1>1. p \in PoolType /\ w \in VarIds /\ w \notin Variables(p) /\ r \in Refs
  BY VariableFacts DEF Unused
<1>2. But(p, z, Key(r))
  BY <1>1, EnterFacts
<1>3. Key(r) \notin Simple
  BY ConstantTypes, PoolConstants DEF Key, Names
<1>4. Writes(p, z, {w})
  <2>1. CASE r \in Names
    <3>1. z = SetHead(p, sc, r, v)
      BY <2>1 DEF Enter
    <3> QED BY <1>1, <3>1, HeadWrites DEF Writes
  <2>2. CASE r \notin Names
    <3> DEFINE none == p.head[sc][r[1]] = Nil
               h == IF none THEN w ELSE p.head[sc][r[1]]
               a == SetHead(Alloc(p, w, Null), sc, r[1], w)
               q == IF none THEN a ELSE p
               s == <<t, IF t \in Split THEN "first" ELSE "hash">>
    <3>1. r[1] \in Names /\ w \in VarRefs /\ Null \in Text
      BY <1>1, <2>2, ConstantTypes DEF Names, VarRefs
    <3>2. a \in PoolType /\ Writes(p, a, {w})
      <4>1. Alloc(p, w, Null) \in PoolType /\ Writes(p, Alloc(p, w, Null), {w})
        BY <1>1, <3>1, AllocFields, AllocWrites
      <4> QED BY <3>1, <4>1, HeadFields, HeadWrites DEF Writes
    <3> HIDE DEF a
    <3>3. q \in PoolType /\ Writes(p, q, {w})
      BY <1>1, <3>2 DEF Writes
    <3> HIDE DEF q, h, s
    <3>4. [q EXCEPT !.tail[h][s] = v].value = q.value
      BY <3>3 DEF PoolType
    <3>5. z = q \/ z = [q EXCEPT !.tail[h][s] = v]
      BY <2>2 DEF Enter, q, h, s, a
    <3> HIDE DEF z
    <3> QED BY <3>3, <3>4, <3>5 DEF Writes
  <2> QED BY <2>1, <2>2
<1>5. {w} \cap Variables(p) = {}
  BY <1>1
<1> HIDE DEF z
<1>6. Apart(p, z)
  BY <1>2, <1>3, <1>4, <1>5, ApartBy
<1> QED BY <1>6 DEF z

LEMMA OldVarApart ==
    ASSUME NEW p, Tidy(p), NEW id, NEW sc \in Frames, NEW old \in Frames,
           NEW r \in Refs \ Simple, NEW v, Unused(p, v), NEW w, Unused(p, w)
    PROVE  LET o == OldVar(p, id, old, sc, r, v, w)
           IN  Apart(p, o.pool) /\ o.var \notin Variables(p)
<1> DEFINE g == FindOld(p, id, old, sc, r)
           b == g.pool
           a == Add(b, old, r, g.stem, g.tail, v, w)
           val == OwnName(r, g.tail)
           o == OldVar(p, id, old, sc, r, v, w)
<1>0. p \in PoolType /\ r \in Refs /\ v \in VarIds /\ w \in VarIds /\ v \notin Variables(p)
      /\ NoCache \in IdRange
  BY VariableFacts, PoolConstants DEF Unused, IdRange, NoCache
<1>1. g.var \in VarRefs /\ g.stem \in VarRefs /\ g.tail \in Text /\ g.var \notin Variables(p)
  BY <1>0, FindTypes, FoundApart DEF FindOld
<1>2. Same(p, b)
  BY <1>0, FindSame DEF FindOld
<1>3. /\ r \in Names => g.var = p.head[old][r]
      /\ r \notin Names => g.stem = p.head[old][r[1]]
  BY <1>0, FindStem DEF Find, FindOld
<1>4. o = IF g.var # Nil THEN [pool |-> b, var |-> g.var, tail |-> g.tail]
          ELSE [pool |-> Store(a, v, val), var |-> v, tail |-> g.tail]
  BY DEF OldVar
<1> HIDE DEF g, o
<1>5. val \in Text
  BY <1>0, <1>1, NameTypes
<1> HIDE DEF val, b
<1>6. Tidy(b) /\ b \in PoolType /\ b.head = p.head /\ Apart(p, b)
      /\ Unused(b, v) /\ Unused(b, w)
  BY <1>2, SameFacts, UnusedHead
<1>7. CASE g.var # Nil
  <2>1. o.pool = b /\ o.var = g.var
    BY <1>4, <1>7
  <2> QED BY <1>1, <1>6, <2>1 DEF o
<1>8. CASE g.var = Nil
  <2>1. o.pool = Store(a, v, val) /\ o.var = v
    BY <1>4, <1>8
  <2>2. /\ r \in Names => b.head[old][r] = Nil
        /\ r \notin Names /\ g.stem = Nil => b.head[old][r[1]] = Nil
    BY <1>3, <1>6, <1>8
  <2>3. Adds(b, a, old)
    BY <1>0, <1>1, <1>6, <2>2, AddAdds
  <2>4. Apart(b, a)
    BY <1>0, <1>1, <1>6, AddApart
  <2> HIDE DEF a
  <2>5. a \in PoolType /\ Apart(p, a)
    BY <1>6, <2>3, <2>4, ApartTrans DEF Adds
  <2>6. Writes(a, Store(a, v, val), {v}) /\ Store(a, v, val).head = a.head
    BY <1>0, <1>5, <2>5, StoreWrites
  <2>7. Variables(p) \subseteq VarIds
    BY VariableFacts
  <2>8. Apart(p, Store(a, v, val))
    BY <1>0, <2>5, <2>6, <2>7 DEF Apart, Writes
  <2> QED BY <1>0, <2>1, <2>8 DEF o
<1> QED BY <1>7, <1>8

\* A simple variable that the caller does not have is created with the value
\* that it had: its name.
LEMMA OldVarStill ==
    ASSUME NEW p, Tidy(p), NEW id, NEW sc \in Frames, NEW old \in Frames, NEW n \in Simple,
           NEW v, Unused(p, v), NEW w, NEW U, U \subseteq Frames, old \in U
    PROVE  LET q == OldVar(p, id, old, sc, n, v, w).pool
           IN  Still(p, q, U) /\ Variables(q) \subseteq Variables(p) \cup {v}
<1> DEFINE g == FindOld(p, id, old, sc, n)
           b == g.pool
           a == Add(b, old, n, g.stem, g.tail, v, w)
           q == OldVar(p, id, old, sc, n, v, w).pool
<1>0. p \in PoolType /\ n \in Refs /\ n \in Names /\ v \in VarIds /\ NoCache \in IdRange /\ n \in Text
  BY VariableFacts, ConstantTypes, PoolConstants DEF Unused, IdRange, NoCache, Refs, Names
<1>1. g.var = p.head[old][n]
  BY <1>0 DEF FindOld, Find
<1>2. Same(p, b)
  BY <1>0, FindSame DEF FindOld
<1>3. q = IF g.var # Nil THEN b ELSE Store(a, v, n)
  BY <1>0 DEF OldVar, OwnName
<1> HIDE DEF q, g, b
<1>4. Tidy(b) /\ b \in PoolType /\ b.head = p.head /\ b.value = p.value /\ Apart(p, b)
  BY <1>2, SameFacts
<1>5. CASE g.var # Nil
  <2>1. Still(p, b, U) /\ Variables(b) = Variables(p)
    BY <1>4, ApartStill, ApartVars
  <2> QED BY <1>3, <1>4, <1>5, <2>1 DEF q
<1>6. CASE g.var = Nil
  <2>1. a \in PoolType /\ Turns(b, a, old, n, v) /\ Writes(b, a, {v})
    BY <1>0, <1>4, AddTurns
  <2> HIDE DEF a
  <2>3. Turns(p, a, old, n, v) /\ Writes(p, a, {v})
    BY <1>4, <2>1 DEF Turns, Writes
  <2>4. Sets(p, Store(a, v, n), U, old, n, n)
        /\ Variables(Store(a, v, n)) \subseteq Variables(p) \cup {v}
    BY <1>0, <1>1, <1>6, <2>1, <2>3, NewStored
  <2>5. View(p, old, n) = n
    BY <1>1, <1>6 DEF View
  <2>6. Still(p, Store(a, v, n), U)
    BY <2>4, <2>5, SetsSame
  <2> QED BY <1>3, <1>6, <2>4, <2>6 DEF q
<1> QED BY <1>5, <1>6

LEMMA MarkedApart ==
    ASSUME NEW p, Tidy(p), NEW v \in VarIds, NEW rx \in Frames
    PROVE  Tidy(Marked(p, v, rx)) /\ Apart(p, Marked(p, v, rx))
           /\ Marked(p, v, rx) \in PoolType /\ Marked(p, v, rx).head = p.head
           /\ Marked(p, v, rx).value = p.value
           /\ \A x : Unused(p, x) => Unused(Marked(p, v, rx), x)
<1> DEFINE q == Marked(p, v, rx)
<1>1. p \in PoolType
  BY VariableFacts
<1>2. q \in PoolType /\ q.head = p.head /\ q.tail = p.tail /\ q.live = p.live /\ q.value = p.value
  BY <1>1, MarkedFields, MarkedWrites
<1> HIDE DEF q
<1>3. Tidy(q) /\ Apart(p, q)
  BY <1>2 DEF Tidy, Objects, TailsOf, Apart
<1> QED BY <1>2, <1>3, UnusedHead DEF q

LEMMA ExposeApart ==
    ASSUME NEW p, NEW id \in IdRange, NEW old, NEW r \in Refs \ Simple, NEW new, Fresh3(p, new),
           NEW pr, NEW rx, Used(pr, rx) \subseteq Frames, Callee(pr, rx, old), Owned(p, pr, rx)
    PROVE  Apart(p, Expose(p, id, rx, old, r, rx, new))
<1> DEFINE f == Find(p, id, rx, rx, r)
           g == f.pool
           c == new[1]
           d == new[2]
           o == OldVar(g, id, old, rx, r, c, d)
           q == o.pool
           a == Marked(q, o.var, rx)
           e == Enter(a, rx, r, o.tail, o.var, new[3])
           x == Expose(p, id, rx, old, r, rx, new)
<1>0. rx \in Frames /\ old \in Frames /\ rx # old /\ r \in Refs /\ p \in PoolType /\ Tidy(p)
      /\ c \in VarIds /\ d \in VarIds /\ c # d /\ new[3] # c /\ new[3] # d
      /\ Unused(p, c) /\ Unused(p, d) /\ Unused(p, new[3])
  BY DEF Callee, Owned, Tidy, Fresh3, Unused
<1>1. x = g \/ (x = e /\ f.var = Nil)
  BY DEF Expose
<1>2. Same(p, g)
  BY <1>0, FindSame
<1>3. r \in Names => f.var = p.head[rx][r]
  BY DEF Find
<1> HIDE DEF f, g, x, c, d
<1>4. Tidy(g) /\ g \in PoolType /\ g.head = p.head /\ Apart(p, g)
      /\ Unused(g, c) /\ Unused(g, d) /\ Unused(g, new[3])
  BY <1>0, <1>2, SameFacts, UnusedHead
<1>5. CASE x = g
  BY <1>4, <1>5 DEF x
<1>6. CASE x = e /\ f.var = Nil
  <2>1. Apart(g, q)
    BY <1>0, <1>4, OldVarApart
  <2>2. q \in PoolType /\ Grows(g, q, {old}) /\ o.var \in VarIds /\ o.tail \in Text
    BY <1>0, <1>4, OldVarFacts
  <2>3. Owned(g, pr, rx)
    BY <1>0, <1>2, ShapeKeeps DEF Keeps, Same
  <2>4. Keeps(g, q, pr, rx, {c, d})
    BY <1>0, <1>4, OldVarKeeps
  <2> HIDE DEF o, q
  <2>5. Tidy(q) /\ Unused(q, new[3])
    BY <1>0, <1>4, <2>3, <2>4 DEF Keeps, Owned
  <2>6. Tidy(a) /\ Apart(q, a) /\ a \in PoolType /\ a.head = q.head /\ Unused(a, new[3])
    BY <1>0, <2>2, <2>5, MarkedApart
  <2> HIDE DEF a
  <2>7. r \in Names => a.head[rx][r] = Nil
    BY <1>0, <1>3, <1>4, <1>6, <2>2, <2>6 DEF Grows
  <2>8. Apart(a, e)
    BY <1>0, <2>2, <2>6, <2>7, EnterApart
  <2> HIDE DEF e
  <2>9. Apart(g, a)
    BY <2>1, <2>6, ApartTrans DEF q
  <2>10. Apart(g, e)
    BY <2>8, <2>9, ApartTrans
  <2>11. Apart(p, e)
    BY <1>4, <2>10, ApartTrans
  <2> QED BY <1>6, <2>11 DEF x
<1> QED BY <1>1, <1>5, <1>6

LEMMA ExposeShared ==
    ASSUME NEW p, NEW id \in IdRange, NEW old, NEW n \in Simple, NEW new, Fresh3(p, new),
           NEW pr, NEW rx, Used(pr, rx) \subseteq Frames, Callee(pr, rx, old), Owned(p, pr, rx),
           rx \in Used(pr, rx), old \in Used(pr, rx), Agree(p, rx, old)
    PROVE  LET x == Expose(p, id, rx, old, n, rx, new)
           IN  /\ Shares(p, x, Used(pr, rx), rx, old, n)
               /\ Variables(x) \subseteq Variables(p) \cup {new[1]}
<1> DEFINE f == Find(p, id, rx, rx, n)
           g == f.pool
           c == new[1]
           d == new[2]
           o == OldVar(g, id, old, rx, n, c, d)
           q == o.pool
           a == Marked(q, o.var, rx)
           e == SetHead(a, rx, n, o.var)
           x == Expose(p, id, rx, old, n, rx, new)
           U == Used(pr, rx)
<1>0. rx \in Frames /\ old \in Frames /\ rx # old /\ n \in Refs /\ n \in Names
      /\ p \in PoolType /\ Tidy(p)
      /\ c \in VarIds /\ d \in VarIds /\ c # d /\ Unused(p, c) /\ Unused(p, d)
  BY DEF Callee, Owned, Tidy, Fresh3, Unused, Refs, Names
<1>1. f.var = p.head[rx][n] /\ f.stem = Nil
  BY <1>0 DEF Find
<1>2. x = IF p.head[rx][n] # Nil THEN g ELSE e
  BY <1>0, <1>1 DEF Expose, Enter
<1>3. Same(p, g)
  BY <1>0, FindSame
<1> HIDE DEF f, g, x, c, d, U
<1>4. Tidy(g) /\ g \in PoolType /\ g.head = p.head /\ Apart(p, g) /\ Variables(g) = Variables(p)
      /\ Unused(g, c) /\ Unused(g, d) /\ Still(p, g, U)
  BY <1>0, <1>3, SameFacts, UnusedHead, ApartStill DEF U
<1>5. CASE p.head[rx][n] # Nil
  <2>1. p.head[old][n] = p.head[rx][n]
    BY <1>5 DEF Agree
  <2>2. Shares(g, g, U, rx, old, n)
    BY <1>4, <1>5, <2>1, SharedAlready DEF U
  <2>3. Shares(p, g, U, rx, old, n)
    BY <1>4, <2>2, StillShares DEF U
  <2> QED BY <1>2, <1>4, <1>5, <2>3 DEF x, U
<1>6. CASE p.head[rx][n] = Nil
  <2>1. Still(g, q, U) /\ Variables(q) \subseteq Variables(g) \cup {c}
    <3>1. U \subseteq Frames /\ old \in U
      BY DEF U
    <3>2. Tidy(g) /\ Unused(g, c) /\ rx \in Frames /\ old \in Frames
      BY <1>0, <1>4
    <3> QED BY <3>1, <3>2, OldVarStill
  <2>2. q \in PoolType /\ o.var \in VarIds /\ Grows(g, q, {old})
    BY <1>0, <1>4, OldVarFacts
  <2>3. q.head[old][n] = o.var
    BY <1>0, <1>4, OldVarHead
  <2>4. Owned(g, pr, rx)
    BY <1>0, <1>3, ShapeKeeps DEF Keeps, Same
  <2>5. Keeps(g, q, pr, rx, {c, d})
    BY <1>0, <1>4, OldVarKeeps
  <2> HIDE DEF o, q
  <2>6. Tidy(q)
    BY <2>4, <2>5 DEF Keeps, Owned
  <2>7. Tidy(a) /\ Apart(q, a) /\ a \in PoolType /\ a.head = q.head /\ a.value = q.value
    BY <1>0, <2>2, <2>6, MarkedApart
  <2> HIDE DEF a
  <2>8. a.head[rx][n] = Nil /\ a.head[old][n] = o.var /\ o.var # Nil
    BY <1>0, <1>4, <1>6, <2>2, <2>3, <2>7, PoolConstants DEF Grows
  <2>9. /\ e.head[rx][n] = o.var /\ e.value = a.value
        /\ \A s \in Frames, m \in Names : s # rx \/ m # n => e.head[s][m] = a.head[s][m]
    <3>1. o.var \in VarRefs
      BY <2>2 DEF VarRefs
    <3> QED BY <1>0, <2>7, <3>1, HeadFields, HeadWrites
  <2> HIDE DEF e
  <2>10. Turns(a, e, rx, n, a.head[old][n])
    BY <2>8, <2>9 DEF Turns, Names
  <2>11. Shares(a, e, U, rx, old, n) /\ Variables(e) = Variables(a)
    <3>1. U \subseteq Frames /\ rx \in U /\ old \in U
      BY DEF U
    <3>2. a.head[old][n] # Nil
      BY <2>8
    <3> QED BY <1>0, <2>7, <2>8, <2>9, <2>10, <3>1, <3>2, JoinShares
  <2>12. Still(q, a, U) /\ Variables(a) = Variables(q)
    BY <2>7, ApartStill, ApartVars DEF U
  <2>13. Still(p, q, U)
    BY <1>4, <2>1, StillTrans DEF q
  <2>14. Still(p, a, U)
    BY <2>12, <2>13, StillTrans
  <2>15. Shares(p, e, U, rx, old, n)
    BY <2>11, <2>14, StillShares DEF U
  <2>16. Variables(e) \subseteq Variables(p) \cup {c}
    BY <1>4, <2>1, <2>11, <2>12 DEF q
  <2> QED BY <1>2, <1>6, <2>15, <2>16 DEF x, U, c
<1> QED BY <1>5, <1>6
(* Ending activations.                                                     *)

\* Only what nobody has a mark on is freed.
LEMMA ReleaseFrees ==
    ASSUME NEW p \in PoolType, NEW V \in SUBSET VarIds, NEW rx
    PROVE  Writes(p, Release(p, V, rx), {v \in V \cup TailsOf(p, VarIds) : p.mark[v] = NoProc})
<1> DEFINE stems == {v \in V : p.mark[v] = NoProc}
           all   == V \cup TailsOf(p, stems)
           freed == {v \in all : p.mark[v] = NoProc}
<1>1. all \subseteq V \cup TailsOf(p, VarIds)
  BY ObjectFacts
<1>2. Release(p, V, rx).value = [v \in VarIds |-> IF v \in freed THEN Null ELSE p.value[v]]
  <2> HIDE DEF freed
  <2> QED BY DEF PoolType, Release, freed, all, stems
<1> HIDE DEF all
<1> QED BY <1>1, <1>2 DEF Writes

LEMMA ScopeFreeWrites ==
    ASSUME NEW p \in PoolType, NEW f \in Frames
    PROVE  Writes(p, ScopeFree(p, f, f),
                  {v \in HeadsOf(p, f) \cup TailsOf(p, VarIds) : p.mark[v] = NoProc})
<1> DEFINE V == HeadsOf(p, f)
           h == [p.head EXCEPT ![f] = NoHeads]
           a == [p EXCEPT !.head = h]
<1>1. a \in PoolType /\ a.tail = p.tail /\ a.mark = p.mark /\ a.value = p.value
  <2>1. h \in [Frames -> [Names -> VarRefs]]
    BY ConstantTypes DEF PoolType, VarRefs
  <2> HIDE DEF h
  <2> QED BY <2>1 DEF PoolType, VarRefs
<1>2. V \in SUBSET VarIds
  BY ObjectFacts DEF HeadsOf
<1>3. ScopeFree(p, f, f) = Release(a, V, f)
  BY DEF ScopeFree
<1> HIDE DEF a, V
<1>4. Writes(a, Release(a, V, f), {v \in V \cup TailsOf(a, VarIds) : a.mark[v] = NoProc})
  BY <1>1, <1>2, ReleaseFrees
<1>5. TailsOf(a, VarIds) = TailsOf(p, VarIds)
  BY <1>1 DEF TailsOf
<1> QED BY <1>1, <1>3, <1>4, <1>5 DEF Writes, V

\* A routine's own scope ends: what it shared stays as it is.
LEMMA FreeCuts ==
    ASSUME NEW p \in PoolType, NEW pr, NEW rx, NEW cnt, Framed(pr, rx, cnt),
           Closed(p, pr, rx), Owned(p, pr, rx), NEW f \in 0..rx,
           \A g \in f..rx : pr[g].scope = f,
           NEW pr2, NEW k, k = f - 1, \A g \in 0..k : pr2[g] = pr[g],
           NEW q, q = ScopeFree(p, f, f)
    PROVE  /\ Cuts(p, Used(pr, rx), q, Used(pr2, k)) /\ Variables(q) \subseteq Variables(p)
           /\ Used(pr, rx) \subseteq Used(pr2, k) \cup {k + 1}
<1>1. Tidy(p) /\ Accounted(p, pr, rx)
  BY DEF Owned
<1>2. /\ f \in Int /\ k \in Int /\ rx \in Int /\ 0 <= f /\ f <= rx /\ f = k + 1 /\ k < f
      /\ f \in Frames
  BY FramedFacts
<1>3. /\ \A g \in 0..k : g \in 0..rx /\ pr2[g] = pr[g] /\ pr[g].scope \in Int
                          /\ pr[g].scope <= g /\ pr[g].scope < f /\ pr[g].scope \in Frames
      /\ \A g \in 0..rx : g \in 0..k \/ pr[g].scope = f
  <2>1. ASSUME NEW g \in 0..k
        PROVE  /\ g \in 0..rx /\ pr2[g] = pr[g] /\ pr[g].scope \in Int
               /\ pr[g].scope <= g /\ pr[g].scope < f /\ pr[g].scope \in Frames
    <3>1. g \in 0..rx /\ g <= k /\ g \in Int
      BY <1>2
    <3>2. pr[g].scope \in Int /\ pr[g].scope <= g /\ pr[g].scope \in Frames
      BY <3>1, FramedFacts
    <3> QED BY <1>2, <3>1, <3>2
  <2>2. \A g \in 0..rx : g \in 0..k \/ g \in f..rx
    BY <1>2
  <2> QED BY <2>1, <2>2
<1>4. /\ f \notin Used(pr2, k)
      /\ \A s \in Used(pr2, k) : s \in Frames /\ s # f /\ s \in Used(pr, rx)
      /\ \A s : s \in Used(pr, rx) <=> s \in Used(pr2, k) \/ s = f
  <2>1. f \in f..rx /\ f \in 0..rx
    BY <1>2
  <2> QED BY <1>2, <1>3, <2>1 DEF Used
<1>5. /\ q.head[f] = NoHeads /\ \A s \in Frames \ {f} : q.head[s] = p.head[s]
      /\ Writes(p, q, {v \in HeadsOf(p, f) \cup TailsOf(p, VarIds) : p.mark[v] = NoProc})
  BY <1>2, ScopeFreeFacts, ScopeFreeWrites
<1>6. ASSUME NEW s \in Used(pr2, k), NEW n \in Simple, p.head[s][n] # Nil
      PROVE  q.value[p.head[s][n]] = p.value[p.head[s][n]]
  <2> DEFINE v == p.head[s][n]
  <2>1. s \in Frames /\ s \in Used(pr, rx) /\ s # f /\ f \in Used(pr, rx) /\ n \in Names
    BY <1>4 DEF Names
  <2>2. v \in VarIds /\ v \in Objects(p) /\ v # Nil
    BY <1>6, <2>1, ObjectFacts
  <2>3. v \notin TailsOf(p, VarIds)
    BY <1>1, <2>2 DEF Tidy
  <2>4. Marks(p, pr, rx, s, n)
    BY <1>1, <1>6, <2>1 DEF Accounted
  <2>5. v \in HeadsOf(p, f) <=> p.head[f][n] = v
    BY <1>1, <1>2, <2>1, <2>2 DEF HeadsOf, Tidy
  <2>6. p.mark[v] = NoProc => p.head[f][n] # v
    BY <2>1, <2>4 DEF Marks, Sharers
  <2> QED BY <1>5, <2>2, <2>3, <2>5, <2>6 DEF Writes
<1>7. ASSUME NEW s \in Used(pr2, k), NEW m \in Simple
      PROVE  /\ Group(q, Used(pr2, k), s, m) = Group(p, Used(pr, rx), s, m) \cap Used(pr2, k)
             /\ View(q, s, m) = View(p, s, m)
  <2>1. \A l \in Used(pr2, k) : q.head[l][m] = p.head[l][m]
    BY <1>4, <1>5
  <2>2. View(q, s, m) = View(p, s, m)
    BY <1>6, <2>1 DEF View
  <2>3. Group(q, Used(pr2, k), s, m) = Group(p, Used(pr, rx), s, m) \cap Used(pr2, k)
    BY <1>4, <2>1 DEF Group
  <2> QED BY <2>2, <2>3
<1>8. Cuts(p, Used(pr, rx), q, Used(pr2, k))
  BY <1>7 DEF Cuts
<1>9. Variables(q) \subseteq Variables(p)
  BY <1>5 DEF Variables, NoHeads, Names
<1> QED BY <1>2, <1>4, <1>8, <1>9

LEMMA SelfCuts ==
    ASSUME NEW p, NEW U
    PROVE  Cuts(p, U, p, U)
BY DEF Cuts, Group

LEMMA CutCuts ==
    ASSUME NEW p \in PoolType, NEW pr, NEW rx, NEW cnt, Framed(pr, rx, cnt),
           Closed(p, pr, rx), Owned(p, pr, rx), NEW f \in 0..rx,
           \A h \in (f + 1)..rx : pr[h].calltype = "INTERPRET",
           NEW pr2, NEW k, k = f - 1, NEW cnt2, Framed(pr2, k, cnt2),
           \A g \in 0..k : pr2[g] = pr[g],
           NEW q, q = IF f = 0 \/ pr[f].scope # pr[k].scope
                      THEN ScopeFree(p, pr[f].scope, f) ELSE p
    PROVE  /\ OMap(q, pr2, k) = CutOwners(OMap(p, pr, rx), k)
           /\ VMap(q, pr2, k) = CutValues(VMap(p, pr, rx), k)
           /\ Cuts(p, Used(pr, rx), q, Used(pr2, k))
           /\ Used(pr2, k) \subseteq Used(pr, rx) /\ Variables(q) \subseteq Variables(p)
<1>1. f \in Int /\ 0 <= f /\ f <= rx /\ rx \in Int /\ k \in Int /\ k < f /\ k \in -1..rx
  BY FramedFacts
<1>2. \A g \in f..rx : g \in 0..rx /\ pr[g].scope = pr[f].scope
  <2> SUFFICES ASSUME NEW g \in f..rx PROVE g \in 0..rx /\ pr[g].scope = pr[f].scope
    OBVIOUS
  <2>1. g \in 0..rx /\ f <= g
    BY <1>1
  <2>2. \A h \in (f + 1)..g : pr[h].calltype = "INTERPRET"
    BY <1>1, <2>1
  <2> QED BY <2>1, <2>2 DEF Framed
<1>3. Used(pr2, k) \subseteq Used(pr, rx)
  <2>1. \A h \in 0..k : h \in 0..rx
    BY <1>1
  <2> QED BY <2>1 DEF Used
<1>4. /\ Cuts(p, Used(pr, rx), q, Used(pr2, k)) /\ Variables(q) \subseteq Variables(p)
      /\ Used(pr, rx) \subseteq Used(pr2, k) \cup {k + 1}
  <2>1. CASE f = 0 \/ pr[f].scope # pr[k].scope
    <3>1. pr[f].scope = f
      <4>1. CASE f = 0
        <5>1. pr[f].scope \in Frames /\ pr[f].scope <= f
          BY FramedFacts
        <5> QED BY <4>1, <5>1, PoolConstants DEF Frames
      <4>2. CASE f # 0
        <5>1. f \in (0..rx) \ {0} /\ pr[f].scope # pr[f - 1].scope
          BY <1>1, <2>1, <4>2
        <5> QED BY <5>1 DEF Framed
      <4> QED BY <4>1, <4>2
    <3>2. q = ScopeFree(p, f, f) /\ \A g \in f..rx : pr[g].scope = f
      BY <1>2, <2>1, <3>1
    <3> QED BY <3>2, FreeCuts
  <2>2. CASE f # 0 /\ pr[f].scope = pr[k].scope
    <3>1. q = p
      BY <2>2
    <3>2. k \in 0..k /\ pr2[k].scope = pr[f].scope
      BY <1>1, <2>2
    <3>3. \A g \in 0..rx : g \in 0..k \/ g \in f..rx
      BY <1>1
    <3>4. \A g \in 0..rx : \E h \in 0..k : pr2[h].scope = pr[g].scope
      BY <1>2, <3>2, <3>3
    <3>a. Used(pr, rx) \subseteq Used(pr2, k)
      BY <3>4 DEF Used
    <3>5. Used(pr, rx) = Used(pr2, k)
      BY <1>3, <3>a
    <3>6. Cuts(p, Used(pr, rx), p, Used(pr, rx))
      BY SelfCuts
    <3>7. Cuts(p, Used(pr, rx), q, Used(pr2, k))
      BY <3>1, <3>5, <3>6 DEF Cuts
    <3> QED BY <3>1, <3>5, <3>7
  <2> QED BY <2>1, <2>2
<1>5. OMap(q, pr2, k) = CutOwners(OMap(p, pr, rx), k)
      /\ VMap(q, pr2, k) = CutValues(VMap(p, pr, rx), k)
  BY <1>1, <1>4, CutMaps
<1> QED BY <1>3, <1>4, <1>5

-----------------------------------------------------------------------------
(* The invariant, and what the steps are in terms of the abstract scoping. *)

\* Every simple variable has a value that was given to it, or its own name.
Given(p, U) == \A s \in U, n \in Simple : View(p, s, n) \in Data \cup {n}

\* No function's result goes to a simple variable.
Slotted(p, pr) == \A f \in Frames : pr[f].r \notin Variables(p)

ScopeInv ==
    MarksInv /\ Given(pool, Used(proc, rx_proc)) /\ Slotted(pool, proc)

\* No pending name is one of a PROCEDURE's.
Opening == pending # << >> /\ Head(pending).op # "drop"

\* What every step has to keep and to be.
Kept  == Given(pool', Used(proc', rx_proc')) /\ Slotted(pool', proc')
Fits  == Kept /\ [S!Next]_(S!vars)

LEMMA ScopeFacts ==
    ASSUME ScopeInv
    PROVE  /\ MarksInv /\ IInv /\ Owned(pool, proc, rx_proc) /\ Tidy(pool) /\ pool \in PoolType
           /\ Framed(proc, rx_proc, procidcnt) /\ Sound(pool, proc, rx_proc, procidcnt)
           /\ Used(proc, rx_proc) \subseteq Frames /\ Closed(pool, proc, rx_proc) /\ PendingOK
           /\ OwnerMap = OMap(pool, proc, rx_proc) /\ ValueMap = VMap(pool, proc, rx_proc)
           /\ Given(pool, Used(proc, rx_proc)) /\ Slotted(pool, proc)
           /\ rx_proc >= 0 => Scope \in Used(proc, rx_proc)
<1>1. MarksInv /\ IInv
  BY MarksFacts DEF ScopeInv
<1>2. OwnerMap = OMap(pool, proc, rx_proc) /\ ValueMap = VMap(pool, proc, rx_proc)
  BY <1>1, MapsNow
<1> QED BY <1>1, <1>2, MarksFacts DEF ScopeInv, Owned, IInv

LEMMA FreshSlots ==
    ASSUME Room
    PROVE  /\ \A f \in Frames : proc[f].r \notin {Fresh[1], Fresh[2], Fresh[3]}
<1> DEFINE P(u) == u[1] # u[2] /\ u[1] # u[3] /\ u[2] # u[3]
<1>1. PICK u \in Free, v \in Free, w \in Free : u # v /\ u # w /\ v # w
  BY DEF Room
<1>2. <<u, v, w>> \in Free \X Free \X Free /\ P(<<u, v, w>>)
  BY <1>1
<1>3. Fresh = CHOOSE y \in Free \X Free \X Free : P(y)
  BY DEF Fresh
<1> HIDE DEF P
<1>4. Fresh \in Free \X Free \X Free
  BY <1>2, <1>3
<1>5. Fresh[1] \in Free /\ Fresh[2] \in Free /\ Fresh[3] \in Free
  BY <1>4
<1>6. \A f \in Frames : proc[f].r \notin Free
  BY DEF Free, InUse
<1> QED BY <1>5, <1>6

\* What is kept, by the kinds of change.
LEMMA StillGiven ==
    ASSUME NEW p, NEW q, NEW U, Given(p, U), Still(p, q, U)
    PROVE  Given(q, U)
BY DEF Given, Still

LEMMA SetsGiven ==
    ASSUME NEW p, NEW q, NEW U, Given(p, U), NEW sc \in U, NEW n \in Simple,
           NEW val \in Data \cup {n}, Sets(p, q, U, sc, n, val)
    PROVE  Given(q, U)
BY DEF Given, Sets

LEMMA SharesGiven ==
    ASSUME NEW p, NEW q, NEW U, Given(p, U), NEW sc \in U, NEW old \in U, NEW n \in Simple,
           Shares(p, q, U, sc, old, n)
    PROVE  Given(q, U)
<1> SUFFICES ASSUME NEW s \in U, NEW m \in Simple PROVE View(q, s, m) \in Data \cup {m}
  BY DEF Given
<1>1. View(p, s, m) \in Data \cup {m} /\ View(p, old, n) \in Data \cup {n}
  BY DEF Given
<1>2. View(q, s, m) = View(p, s, m) \/ (m = n /\ View(q, s, m) = View(p, old, n))
  BY DEF Shares
<1> QED BY <1>1, <1>2

LEMMA CutsGiven ==
    ASSUME NEW p, NEW q, NEW U, NEW U2, U2 \subseteq U, Given(p, U), Cuts(p, U, q, U2)
    PROVE  Given(q, U2)
BY DEF Given, Cuts

LEMMA StepSlots ==
    ASSUME ScopeInv, NEW q, NEW N, Variables(q) \subseteq Variables(pool) \cup N,
           \A f \in Frames : proc[f].r \notin N
    PROVE  Slotted(q, proc)
BY ScopeFacts DEF Slotted

\* The frames stay and simple variables do, too.
LEMMA StutterStep ==
    ASSUME ScopeInv, MarksInv', UNCHANGED <<proc, rx_proc, procidcnt, closing>>,
           Apart(pool, pool')
    PROVE  /\ Kept /\ UNCHANGED <<OwnerMap, ValueMap, KindMap>>
           /\ (Opening' <=> Opening) => Fits
<1>1. IInv'
  BY DEF MarksInv
<1>2. Still(pool, pool', Used(proc, rx_proc)) /\ Variables(pool') = Variables(pool)
  BY ScopeFacts, ApartStill, ApartVars
<1>3. Given(pool', Used(proc, rx_proc)) /\ Slotted(pool', proc)
  BY <1>2, ScopeFacts, StillGiven DEF Slotted
<1>4. OMap(pool', proc, rx_proc) = OwnerMap /\ VMap(pool', proc, rx_proc) = ValueMap
  BY <1>2, ScopeFacts, StillMaps
<1>5. OwnerMap' = OwnerMap /\ ValueMap' = ValueMap
  BY <1>1, <1>4, MapsThen
<1>6. KindMap' = KindMap
  BY DEF KindMap
<1>7. Kept
  BY <1>3 DEF Kept
<1>8. (Opening' <=> Opening) => UNCHANGED S!vars
  BY <1>5, <1>6 DEF S!vars, Opening
<1> QED BY <1>5, <1>6, <1>7, <1>8 DEF Fits

\* The frames stay and one simple variable gets a value.
LEMMA SetStep ==
    ASSUME ScopeInv, MarksInv', UNCHANGED <<proc, rx_proc, procidcnt, closing>>,
           NEW f \in 0..rx_proc, NEW n \in Simple, NEW val \in Data \cup {n},
           Sets(pool, pool', Used(proc, rx_proc), proc[f].scope, n, val),
           NEW N, Variables(pool') \subseteq Variables(pool) \cup N,
           \A g \in Frames : proc[g].r \notin N
    PROVE  /\ Kept /\ UNCHANGED <<OwnerMap, KindMap>>
           /\ ValueMap' = S!Put(f, n, val)
<1>1. IInv'
  BY DEF MarksInv
<1>2. proc[f].scope \in Used(proc, rx_proc)
  BY DEF Used
<1>3. Given(pool', Used(proc, rx_proc)) /\ Slotted(pool', proc)
  BY <1>2, ScopeFacts, SetsGiven, StepSlots
<1>4. /\ OMap(pool', proc, rx_proc) = OMap(pool, proc, rx_proc)
      /\ VMap(pool', proc, rx_proc)
           = PutAt(OMap(pool, proc, rx_proc), VMap(pool, proc, rx_proc), f, n, val)
  <2>1. Framed(proc, rx_proc, procidcnt) /\ Owned(pool, proc, rx_proc)
    BY ScopeFacts
  <2> QED BY <2>1, SetsMaps
<1>5. OwnerMap' = OwnerMap /\ ValueMap' = PutAt(OwnerMap, ValueMap, f, n, val)
  BY <1>1, <1>4, ScopeFacts, MapsThen
<1>6. KindMap' = KindMap
  BY DEF KindMap
<1> QED BY <1>3, <1>5, <1>6 DEF S!Put, Kept, PutAt

LEMMA SetFits ==
    ASSUME ScopeInv, MarksInv', Running, UNCHANGED <<proc, rx_proc, procidcnt, pending, closing>>,
           NEW f \in 0..rx_proc, NEW n \in Simple, NEW val \in Data,
           Sets(pool, pool', Used(proc, rx_proc), proc[f].scope, n, val),
           NEW N, Variables(pool') \subseteq Variables(pool) \cup N,
           \A g \in Frames : proc[g].r \notin N
    PROVE  Fits
<1>1. Kept /\ UNCHANGED <<OwnerMap, KindMap>> /\ ValueMap' = S!Put(f, n, val)
  BY SetStep
<1>2. S!Set(f, n, val)
  BY <1>1 DEF S!Set, S!Running, Running
<1>3. f \in S!Depths /\ f <= rx_proc
  BY ScopeFacts, FramedFacts DEF S!Depths, Frames
<1>4. S!Next
  BY <1>2, <1>3 DEF S!Next
<1> QED BY <1>1, <1>4 DEF Fits

LEMMA UnsetFits ==
    ASSUME ScopeInv, MarksInv', UNCHANGED <<proc, rx_proc, procidcnt, closing>>,
           rx_proc >= 0, ~closing, ~Opening, ~Opening', NEW n \in Simple,
           Sets(pool, pool', Used(proc, rx_proc), Scope, n, n),
           Variables(pool') \subseteq Variables(pool)
    PROVE  Fits
<1>1. rx_proc \in 0..rx_proc /\ Scope = proc[rx_proc].scope
  BY ScopeFacts, RunningFacts
<1>2. Kept /\ UNCHANGED <<OwnerMap, KindMap>> /\ ValueMap' = S!Put(rx_proc, n, n)
  <2>1. PICK f \in 0..rx_proc : f = rx_proc
    BY <1>1
  <2>2. PICK N : N = {}
    OBVIOUS
  <2>3. /\ n \in Data \cup {n} /\ Variables(pool') \subseteq Variables(pool) \cup N
        /\ \A g \in Frames : proc[g].r \notin N
        /\ Sets(pool, pool', Used(proc, rx_proc), proc[f].scope, n, n)
    BY <1>1, <2>1, <2>2
  <2>4. Kept /\ UNCHANGED <<OwnerMap, KindMap>> /\ ValueMap' = S!Put(f, n, n)
    BY <2>3, SetStep
  <2> QED BY <2>1, <2>4
<1>3. S!Drop(n)
  BY <1>2 DEF S!Drop, S!Running, Opening
<1>4. S!Next
  BY <1>3 DEF S!Next
<1> QED BY <1>2, <1>4 DEF Fits

\* What an action of a running frame starts from.
LEMMA RunFacts ==
    ASSUME ScopeInv, rx_proc >= 0
    PROVE  /\ pool \in PoolType /\ Tidy(pool) /\ Owned(pool, proc, rx_proc)
           /\ Id \in IdRange /\ Id # NoCache /\ Scope \in Frames /\ Scope = proc[rx_proc].scope
           /\ rx_proc \in 0..rx_proc /\ CoherentIn(pool, Id, Scope)
           /\ Used(proc, rx_proc) \subseteq Frames /\ Scope \in Used(proc, rx_proc)
BY ScopeFacts, RunningFacts

LEMMA FreshFacts ==
    ASSUME ScopeInv, Room
    PROVE  /\ Unused(pool, Fresh[1]) /\ Unused(pool, Fresh[2]) /\ Unused(pool, Fresh[3])
           /\ Fresh[1] # Fresh[2] /\ Fresh[1] # Fresh[3] /\ Fresh[2] # Fresh[3]
           /\ Fresh3(pool, Fresh)
           /\ \A f \in Frames : proc[f].r \notin {Fresh[1], Fresh[2], Fresh[3]}
<1>1. Fresh3(pool, Fresh)
  BY ScopeFacts, FreshUnused
<1> QED BY <1>1, FreshSlots DEF Fresh3

LEMMA LoadFits ==
    ASSUME ScopeInv, MarksInv', NEW r \in Lits, Load(r)
    PROVE  Fits
<1>1. /\ Running /\ UNCHANGED <<proc, rx_proc, procidcnt, pending, closing>>
      /\ pool' = Find(pool, Id, Scope, Scope, r).pool /\ r \in Refs
  BY PoolConstants DEF Load
<1>2. Same(pool, pool')
  BY <1>1, RunFacts, FindSame DEF Running
<1>3. Apart(pool, pool')
  BY <1>2, ScopeFacts, SameFacts
<1> QED BY <1>1, <1>3, StutterStep DEF Opening

LEMMA AssignFits ==
    ASSUME ScopeInv, MarksInv', NEW r \in Lits, NEW val \in Data, Assign(r, val)
    PROVE  Fits
<1> DEFINE c == Create(pool, Id, Scope, r, Fresh[1], Fresh[2])
           q == Store(c.pool, c.var, val)
           z == IF r \in Stems THEN ScopeAssign(q, c.var) ELSE q
<1>1. /\ Running /\ UNCHANGED <<proc, rx_proc, procidcnt, pending, closing>> /\ Room /\ pool' = z
  BY DEF Assign
<1>2. r \in Refs /\ val \in Text
  BY PoolConstants
<1>3. rx_proc >= 0
  BY <1>1 DEF Running
<1>4. Unused(pool, Fresh[1]) /\ Unused(pool, Fresh[2])
      /\ \A g \in Frames : proc[g].r \notin {Fresh[1]}
  BY <1>1, FreshFacts
<1>5. CASE r \in Simple
  <2>1. z = q
    BY <1>5, PoolConstants
  <2>2. Sets(pool, q, Used(proc, rx_proc), Scope, r, val)
        /\ Variables(q) \subseteq Variables(pool) \cup {Fresh[1]}
    BY <1>2, <1>3, <1>4, <1>5, RunFacts, CreateSets
  <2> HIDE DEF q, z
  <2>3. /\ Sets(pool, pool', Used(proc, rx_proc), proc[rx_proc].scope, r, val)
        /\ Variables(pool') \subseteq Variables(pool) \cup {Fresh[1]}
        /\ rx_proc \in 0..rx_proc
    BY <1>1, <1>3, <2>1, <2>2, RunFacts
  <2> QED BY <1>1, <1>4, <1>5, <2>3, SetFits
<1>6. CASE r \notin Simple
  <2>1. Apart(pool, c.pool) /\ c.var \notin Variables(pool)
    BY <1>2, <1>3, <1>4, <1>6, RunFacts, CreateApart
  <2>2. c.pool \in PoolType /\ c.var \in VarIds
    <3>1. Fresh[1] \in VarIds /\ Fresh[2] \in VarIds /\ (Fresh[1] # Fresh[2] \/ r \in Names)
      BY <1>1, FreshFacts DEF Unused
    <3> QED BY <1>2, <1>3, <1>4, <3>1, RunFacts, CreateGood DEF Good
  <2>3. Tidy(c.pool)
    <3>1. Keeps(pool, c.pool, proc, rx_proc, {Fresh[1], Fresh[2]})
      BY <1>1, <1>2, <1>3, <1>4, FreshFacts, RunFacts, CreateKeeps
    <3> QED BY <1>3, <3>1, RunFacts DEF Keeps, Owned
  <2> HIDE DEF c
  <2>4. Variables(c.pool) = Variables(pool)
    BY <2>1, ApartVars
  <2>5. Apart(c.pool, q)
    <3>1. Writes(c.pool, q, {c.var}) /\ q.head = c.pool.head
      BY <1>2, <2>2, StoreWrites
    <3> HIDE DEF q
    <3>2. {c.var} \cap Variables(c.pool) = {}
      BY <2>1, <2>4
    <3> QED BY <2>3, <3>1, <3>2, ApartHeads
  <2>6. Tidy(q) /\ q \in PoolType
    <3>1. SameShape(c.pool, q)
      BY <1>2, <2>2, StoreShape
    <3> HIDE DEF q
    <3>2. Keeps(c.pool, q, proc, rx_proc, {})
      BY <1>3, <3>1, RunFacts, ShapeKeeps
    <3>3. Owned(c.pool, proc, rx_proc)
      <4>1. Keeps(pool, c.pool, proc, rx_proc, {Fresh[1], Fresh[2]})
        BY <1>1, <1>2, <1>3, <1>4, FreshFacts, RunFacts, CreateKeeps DEF c
      <4> QED BY <1>3, <4>1, RunFacts DEF Keeps
    <3> QED BY <3>2, <3>3 DEF Keeps, Owned, Tidy
  <2> HIDE DEF q
  <2>7. Apart(q, z)
    <3>1. CASE r \in Stems
      <4>1. z = ScopeAssign(q, c.var)
        BY <3>1
      <4> HIDE DEF z
      <4>2. Writes(q, z, TailsOf(q, VarIds)) /\ z.head = q.head
        BY <2>2, <2>6, <4>1, ScopeAssignWrites
      <4>3. TailsOf(q, VarIds) \cap Variables(q) = {}
        BY <2>6, VariableFacts
      <4> QED BY <2>6, <4>2, <4>3, ApartHeads
    <3>2. CASE r \notin Stems
      BY <3>2, ApartSelf
    <3> QED BY <3>1, <3>2
  <2> HIDE DEF z
  <2>8. Apart(pool, pool')
    BY <1>1, <2>1, <2>5, <2>7, ApartTrans
  <2> QED BY <1>1, <2>8, StutterStep DEF Opening
<1> QED BY <1>5, <1>6

\* The null string pointer of a variable that has no value yet is not a value.
NullUngiven == Null \notin Data \cup Simple

LEMMA DropVarFits ==
    ASSUME NullUngiven, ScopeInv, MarksInv', NEW r \in Lits, DropVar(r)
    PROVE  Fits
<1>1. /\ Running /\ UNCHANGED <<proc, rx_proc, procidcnt, pending, closing>>
      /\ pool' = Drop(pool, Id, Scope, r, rx_proc)
      /\ r \in Refs /\ rx_proc >= 0
  BY PoolConstants DEF DropVar, Running
<1>2. CASE r \in Simple
  <2>1. View(pool, Scope, r) # Null
    BY <1>1, <1>2, ScopeFacts DEF Given, NullUngiven
  <2>2. /\ Sets(pool, pool', Used(proc, rx_proc), Scope, r, r)
        /\ Variables(pool') \subseteq Variables(pool)
    BY <1>1, <1>2, <2>1, RunFacts, DropSets
  <2> QED BY <1>1, <1>2, <2>2, UnsetFits DEF Opening, Running
<1>3. CASE r \notin Simple
  <2>1. Apart(pool, pool')
    BY <1>1, <1>3, RunFacts, DropApart
  <2> QED BY <1>1, <2>1, StutterStep DEF Opening
<1> QED BY <1>2, <1>3

LEMMA DropListFits ==
    ASSUME ScopeInv, MarksInv', NEW ws \in DropLists, DropList(ws)
    PROVE  Fits
<1>1. /\ Running /\ UNCHANGED <<proc, rx_proc, procidcnt, closing>> /\ pool' = pool /\ ws # << >>
      /\ pending' = [i \in 1..Len(ws) |-> [op |-> "drop", ref |-> ws[i]]]
  BY DEF DropList
<1>2. Apart(pool, pool')
  BY <1>1, ApartSelf
<1>3. ~Opening
  BY <1>1 DEF Opening, Running
<1>4. ~Opening'
  <2>1. ws \in Seq(Refs)
    BY PoolConstants
  <2>2. Len(ws) \in Nat /\ Len(ws) >= 1
    BY <1>1, <2>1
  <2>3. Head(pending') = [op |-> "drop", ref |-> ws[1]]
    BY <1>1, <2>2
  <2> QED BY <2>3 DEF Opening
<1> QED BY <1>1, <1>2, <1>3, <1>4, StutterStep

\* The names that are still to be dropped are all of a DROP.
LEMMA DropsLeft ==
    ASSUME PendingOK, pending # << >>, Head(pending).op = "drop", pending' = Tail(pending)
    PROVE  ~Opening /\ ~Opening' /\ Head(pending).ref \in Refs
<1>1. pending \in Seq([op : Ops, ref : Refs])
  BY DEF PendingOK
<1>2. Len(pending) \in Nat /\ 1 \in 1..Len(pending) /\ pending[1] = Head(pending)
  BY <1>1
<1>3. \A i \in 1..Len(pending) : pending[i].op = "drop"
  BY <1>2 DEF PendingOK, Exposing
<1>4. ~Opening'
  <2> SUFFICES ASSUME pending' # << >> PROVE Head(pending').op = "drop"
    BY DEF Opening
  <2>1. Head(pending') = pending[2] /\ 2 \in 1..Len(pending)
    BY <1>1, <1>2
  <2> QED BY <1>3, <2>1
<1>5. Head(pending).ref \in Refs
  BY <1>1, TailFacts
<1> QED BY <1>4, <1>5 DEF Opening

LEMMA DropNextFits ==
    ASSUME ScopeInv, MarksInv', DropNext
    PROVE  Fits
<1> DEFINE r == Head(pending).ref
<1>1. /\ UNCHANGED <<proc, rx_proc, procidcnt, closing>> /\ pending # << >>
      /\ Head(pending).op = "drop" /\ pending' = Tail(pending)
      /\ pool' = DropName(pool, Scope, r, rx_proc)
  BY DEF DropNext
<1>2. rx_proc >= 0 /\ ~closing
  BY <1>1, ScopeFacts DEF PendingOK
<1>3. ~Opening /\ ~Opening' /\ r \in Refs
  BY <1>1, ScopeFacts, DropsLeft
<1> HIDE DEF r
<1>4. PICK n : n = r
  OBVIOUS
<1>5. CASE r \in Simple
  <2>1. /\ Sets(pool, pool', Used(proc, rx_proc), Scope, n, n)
        /\ Variables(pool') \subseteq Variables(pool)
    BY <1>1, <1>2, <1>4, <1>5, RunFacts, DropNameSets
  <2>2. n \in Simple
    BY <1>4, <1>5
  <2> QED BY <1>1, <1>2, <1>3, <2>1, <2>2, UnsetFits
<1>6. CASE r \notin Simple
  <2>1. Apart(pool, pool')
    BY <1>1, <1>2, <1>3, <1>6, RunFacts, DropNameApart
  <2> QED BY <1>1, <1>3, <2>1, StutterStep
<1> QED BY <1>5, <1>6

LEMMA PoolSetFits ==
    ASSUME ScopeInv, MarksInv', NEW k \in 0..rx_proc, NEW r \in PoolNames, NEW val \in Data,
           PoolSet(k, r, val)
    PROVE  Fits
<1> DEFINE z == PoolPut(pool, proc[k].scope, r, val, Fresh[1], Fresh[2])
<1>1. /\ Running /\ UNCHANGED <<proc, rx_proc, procidcnt, pending, closing>> /\ Room /\ pool' = z
  BY DEF PoolSet, PoolPut
<1>2. r \in Refs /\ val \in Text
  BY PoolConstants
<1>3. /\ Tidy(pool) /\ proc[k].scope \in Used(proc, rx_proc) /\ proc[k].scope \in Frames
      /\ Used(proc, rx_proc) \subseteq Frames
  BY ScopeFacts DEF Used
<1>4. Unused(pool, Fresh[1]) /\ Unused(pool, Fresh[2])
      /\ \A g \in Frames : proc[g].r \notin {Fresh[1]}
  BY <1>1, FreshFacts
<1> HIDE DEF z
<1>5. CASE r \in Simple
  <2>1. /\ Sets(pool, pool', Used(proc, rx_proc), proc[k].scope, r, val)
        /\ Variables(pool') \subseteq Variables(pool) \cup {Fresh[1]}
    BY <1>1, <1>2, <1>3, <1>4, <1>5, PoolPutSets DEF z
  <2> QED BY <1>1, <1>4, <1>5, <2>1, SetFits
<1>6. CASE r \notin Simple
  <2>1. Apart(pool, pool')
    BY <1>1, <1>2, <1>3, <1>4, <1>6, PoolPutApart DEF z
  <2> QED BY <1>1, <2>1, StutterStep DEF Opening
<1> QED BY <1>5, <1>6

\* SIGL of the running frame.
LEMMA SiglSets ==
    ASSUME ScopeInv, rx_proc >= 0, Room, NEW line \in Data
    PROVE  LET q == VarSet(pool, Id, Scope, Sigl, line, Fresh[1])
           IN  /\ Sets(pool, q, Used(proc, rx_proc), Scope, Sigl, line)
               /\ Variables(q) \subseteq Variables(pool) \cup {Fresh[1]}
<1>1. Sigl \in Simple /\ line \in Text
  BY PoolConstants
<1> QED BY <1>1, RunFacts, FreshFacts, VarSetSets

LEMMA SignalFits ==
    ASSUME ScopeInv, MarksInv', NEW line \in Data, Signal(line)
    PROVE  Fits
<1>1. /\ Running /\ UNCHANGED <<proc, rx_proc, procidcnt, pending, closing>> /\ Room
      /\ pool' = VarSet(pool, Id, Scope, Sigl, line, Fresh[1]) /\ rx_proc >= 0
  BY DEF Signal, Running
<1>2. PICK f \in 0..rx_proc : f = rx_proc
  BY <1>1, RunFacts
<1>3. /\ Sets(pool, pool', Used(proc, rx_proc), proc[f].scope, Sigl, line)
      /\ Variables(pool') \subseteq Variables(pool) \cup {Fresh[1]}
  BY <1>1, <1>2, RunFacts, SiglSets
<1>4. Sigl \in Simple /\ \A g \in Frames : proc[g].r \notin {Fresh[1]}
  BY <1>1, FreshFacts, PoolConstants
<1> QED BY <1>1, <1>3, <1>4, SetFits

LEMMA ExitFits ==
    ASSUME ScopeInv, MarksInv', Exit
    PROVE  Fits
<1>1. /\ Running /\ closing' = TRUE /\ UNCHANGED <<pool, proc, rx_proc, procidcnt, pending>>
  BY DEF Exit
<1>2. OwnerMap' = OwnerMap /\ ValueMap' = ValueMap
  BY <1>1, ScopeFacts, MapsThen DEF MarksInv
<1>3. KindMap' = KindMap /\ Kept
  BY <1>1, ScopeFacts DEF KindMap, Kept
<1>4. S!Exit
  BY <1>1, <1>2, <1>3 DEF S!Exit, S!Running, Running
<1> QED BY <1>3, <1>4 DEF Fits, S!Next

-----------------------------------------------------------------------------
(* The names of a PROCEDURE EXPOSE.                                        *)

\* A name that changes nothing, perhaps the last one.
LEMMA OpenFits ==
    ASSUME Kept, UNCHANGED <<OwnerMap, ValueMap, KindMap, rx_proc, closing>>, Opening
    PROVE  Fits
<1>1. CASE Opening'
  <2>1. UNCHANGED S!vars
    BY <1>1 DEF S!vars, Opening
  <2> QED BY <2>1 DEF Fits
<1>2. CASE ~Opening'
  <2>1. S!Opened
    BY <1>2 DEF S!Opened, Opening
  <2> QED BY <2>1 DEF Fits, S!Next
<1> QED BY <1>1, <1>2

\* The exposed name becomes the caller's variable.
LEMMA JoinFits ==
    ASSUME ScopeInv, MarksInv', UNCHANGED <<proc, rx_proc, procidcnt, closing>>,
           Opening, rx_proc > 0, NEW n \in Simple, NEW old, Callee(proc, rx_proc, old),
           old \in Used(proc, rx_proc), rx_proc \in Used(proc, rx_proc),
           Agree(pool, rx_proc, old),
           Shares(pool, pool', Used(proc, rx_proc), rx_proc, old, n), Slotted(pool', proc)
    PROVE  Fits
<1>1. Framed(proc, rx_proc, procidcnt) /\ Owned(pool, proc, rx_proc)
  BY ScopeFacts
<1>2. PICK q : q = pool'
  OBVIOUS
<1>3. PICK pr : pr = proc
  OBVIOUS
<1>4. PICK rx : rx = rx_proc
  OBVIOUS
<1>5. PICK p : p = pool
  OBVIOUS
<1>6. /\ OMap(q, pr, rx) = JoinAt(OMap(p, pr, rx), rx, n)
      /\ VMap(q, pr, rx) = VMap(p, pr, rx)
  <2>1. /\ Framed(pr, rx, procidcnt) /\ Owned(p, pr, rx) /\ Callee(pr, rx, old)
        /\ Agree(p, rx, old) /\ Shares(p, q, Used(pr, rx), rx, old, n)
    BY <1>1, <1>2, <1>3, <1>4, <1>5
  <2> QED BY <2>1, SharesMaps
<1>7. OwnerMap' = JoinAt(OwnerMap, rx_proc, n) /\ ValueMap' = ValueMap
  BY <1>2, <1>3, <1>4, <1>5, <1>6, ScopeFacts, MapsThen DEF MarksInv
<1>8. KindMap' = KindMap
  BY DEF KindMap
<1>9. Given(pool', Used(proc, rx_proc))
  BY ScopeFacts, SharesGiven
<1>10. Kept
  BY <1>9 DEF Kept
<1>11. S!Expose(n)
  BY <1>7, <1>8 DEF S!Expose, Opening, JoinAt
<1> QED BY <1>10, <1>11 DEF Fits, S!Next

\* The state in which a name of a PROCEDURE is exposed.
LEMMA OpeningFacts ==
    ASSUME ScopeInv, pending # << >>, Head(pending).op # "drop", Room
    PROVE  LET old == proc[rx_proc - 1].scope
           IN  /\ Opening /\ rx_proc > 0 /\ rx_proc >= 0 /\ Scope = rx_proc
               /\ Callee(proc, rx_proc, old) /\ Agree(pool, rx_proc, old)
               /\ old \in Used(proc, rx_proc) /\ rx_proc \in Used(proc, rx_proc)
               /\ old \in Frames /\ Head(pending).ref \in Refs
               /\ Head(pending).op = "list" => Head(pending).ref \in Simple
<1> DEFINE old == proc[rx_proc - 1].scope
<1>1. /\ Exposing(pool, proc, rx_proc) /\ rx_proc > 0 /\ Scope = rx_proc /\ Scope # old
      /\ old \in Frames /\ Agree(pool, Scope, old)
  BY ScopeFacts, ExposingFacts
<1>2. rx_proc \in Int /\ rx_proc >= 0 /\ rx_proc - 1 \in 0..rx_proc /\ rx_proc \in 0..rx_proc
  BY <1>1, ScopeFacts, FramedFacts
<1>3. old \in Used(proc, rx_proc) /\ rx_proc \in Used(proc, rx_proc)
  BY <1>1, <1>2 DEF Used, Scope
<1>4. rx_proc \in Frames
  BY <1>2, ScopeFacts, RunningFacts
<1>5. Callee(proc, rx_proc, old)
  BY <1>1, <1>4 DEF Callee, Scope
<1>6. Head(pending) = pending[1] /\ 1 \in 1..Len(pending) /\ Head(pending).ref \in Refs
  BY ScopeFacts, TailFacts
<1>7. Head(pending).op = "list" => Head(pending).ref \in Simple
  BY <1>1, <1>6 DEF Exposing
<1>8. Opening
  BY DEF Opening
<1> HIDE DEF old
<1> QED BY <1>1, <1>2, <1>3, <1>5, <1>6, <1>7, <1>8 DEF old

LEMMA ExposeNextFits ==
    ASSUME ScopeInv, MarksInv', ExposeNext
    PROVE  Fits
<1> DEFINE r == Head(pending).ref
           old == proc[rx_proc - 1].scope
           q == Expose(pool, Id, Scope, old, r, rx_proc, Fresh)
<1>1. /\ UNCHANGED <<proc, rx_proc, procidcnt, closing>> /\ pending # << >>
      /\ Head(pending).op # "drop" /\ Room /\ (pool' = pool \/ pool' = q)
  BY DEF ExposeNext
<1>2. /\ Opening /\ rx_proc > 0 /\ rx_proc >= 0 /\ Scope = rx_proc
      /\ Callee(proc, rx_proc, old) /\ Agree(pool, rx_proc, old)
      /\ old \in Used(proc, rx_proc) /\ rx_proc \in Used(proc, rx_proc)
      /\ old \in Frames /\ r \in Refs
  BY <1>1, OpeningFacts
<1>3. q = Expose(pool, Id, rx_proc, old, r, rx_proc, Fresh)
  BY <1>2
<1> HIDE DEF r, old, q
<1>4. CASE pool' = pool \/ r \notin Simple
  <2>1. Apart(pool, pool')
    <3>1. CASE pool' = pool
      BY <3>1, ApartSelf
    <3>2. CASE pool' = q /\ r \notin Simple
      BY <1>1, <1>2, <1>3, <3>2, RunFacts, FreshFacts, ExposeApart
    <3> QED BY <1>1, <1>4, <3>1, <3>2
  <2>2. Kept /\ UNCHANGED <<OwnerMap, ValueMap, KindMap>>
    BY <1>1, <2>1, StutterStep
  <2> QED BY <1>1, <1>2, <2>2, OpenFits
<1>5. CASE pool' = q /\ r \in Simple
  <2>1. PICK n \in Simple : n = r
    BY <1>5
  <2>2. PICK o : o = old
    OBVIOUS
  <2>3. /\ Shares(pool, pool', Used(proc, rx_proc), rx_proc, o, n)
        /\ Variables(pool') \subseteq Variables(pool) \cup {Fresh[1]}
    BY <1>1, <1>2, <1>3, <1>5, <2>1, <2>2, RunFacts, FreshFacts, ExposeShared
  <2>4. Slotted(pool', proc)
    <3>1. \A g \in Frames : proc[g].r \notin {Fresh[1]}
      BY <1>1, FreshFacts
    <3> QED BY <2>3, <3>1, StepSlots
  <2> QED BY <1>1, <1>2, <2>2, <2>3, <2>4, JoinFits
<1> QED BY <1>1, <1>4, <1>5

LEMMA ExposeIndirectFits ==
    ASSUME ScopeInv, MarksInv', ExposeIndirect
    PROVE  Fits
<1> DEFINE r == Head(pending).ref
           old == proc[rx_proc - 1].scope
           q == Expose(pool, Id, Scope, old, r, rx_proc, Fresh)
<1>1. /\ UNCHANGED <<proc, rx_proc, procidcnt, closing>> /\ pending # << >>
      /\ Head(pending).op = "list" /\ Head(pending).op # "drop" /\ Room
      /\ pool' = Find(q, Id, old, Scope, r).pool
  BY DEF ExposeIndirect
<1>2. /\ Opening /\ rx_proc > 0 /\ rx_proc >= 0 /\ Scope = rx_proc
      /\ Callee(proc, rx_proc, old) /\ Agree(pool, rx_proc, old)
      /\ old \in Used(proc, rx_proc) /\ rx_proc \in Used(proc, rx_proc)
      /\ old \in Frames /\ r \in Refs /\ r \in Simple
  BY <1>1, OpeningFacts
<1>3. q = Expose(pool, Id, rx_proc, old, r, rx_proc, Fresh)
  BY <1>2
<1>4. q \in PoolType /\ \E N : Keeps(pool, q, proc, rx_proc, N)
  BY <1>1, <1>2, ScopeFacts, ExposedStep, ExposedMarks
<1> HIDE DEF r, old, q
<1>5. Tidy(q)
  BY <1>2, <1>4, RunFacts DEF Keeps, Owned
<1>6. PICK n \in Simple : n = r
  BY <1>2
<1>7. PICK o : o = old
  OBVIOUS
<1>8. /\ Shares(pool, q, Used(proc, rx_proc), rx_proc, o, n)
      /\ Variables(q) \subseteq Variables(pool) \cup {Fresh[1]}
  BY <1>1, <1>2, <1>3, <1>6, <1>7, RunFacts, FreshFacts, ExposeShared
<1>9. Same(q, pool')
  BY <1>1, <1>2, <1>4, RunFacts, FindSame
<1>10. Apart(q, pool') /\ Variables(pool') = Variables(q)
  BY <1>5, <1>9, SameFacts
<1>11. Still(q, pool', Used(proc, rx_proc))
  BY <1>2, <1>10, RunFacts, ApartStill
<1>12. Shares(pool, pool', Used(proc, rx_proc), rx_proc, o, n)
  BY <1>8, <1>11 DEF Shares, Still
<1>13. Slotted(pool', proc)
  <2>1. \A g \in Frames : proc[g].r \notin {Fresh[1]}
    BY <1>1, FreshFacts
  <2> QED BY <1>8, <1>10, <2>1, StepSlots
<1> QED BY <1>1, <1>2, <1>7, <1>12, <1>13, JoinFits

-----------------------------------------------------------------------------
(* Entering activations.                                                   *)

\* No function's result is assigned to a simple variable.
ResultsCompound == Targets \cap Simple = {}

\* The slot of a compound variable: found before the call, or created for it.
LEMMA SlotVar ==
    ASSUME NEW p, Tidy(p), NEW id \in IdRange, NEW sc \in Frames, NEW r \in Refs \ Names,
           NEW v, NEW w
    PROVE  LET c == Create(p, id, sc, r, v, w)
           IN  c.var = v \/ c.var \in TailsOf(p, VarIds)
<1> DEFINE f == Find(p, id, sc, sc, r)
           h == HeadVar(p, id, sc, r[1])
           t == TailOf(p, id, sc, r[2])
           c == Create(p, id, sc, r, v, w)
<1>1. p \in PoolType
  BY DEF Tidy
<1>2. f.var = IF h = Nil THEN Nil ELSE p.tail[h][<<t, "hash">>]
  BY DEF Find
<1>3. c.var = IF f.var # Nil THEN f.var ELSE v
  <2> HIDE DEF f
  <2> QED BY DEF Create, f
<1>4. h \in VarRefs /\ t \in Text
  <2>1. f.stem = h /\ f.tail = t
    BY DEF Find
  <2>2. f.stem \in VarRefs /\ f.tail \in Text
    BY <1>1, FindTypes
  <2> QED BY <2>1, <2>2
<1> HIDE DEF h, t, f, c
<1>5. f.var = Nil \/ f.var \in TailsOf(p, VarIds)
  <2>1. <<t, "hash">> \in Slots
    BY <1>4 DEF Slots
  <2>2. h # Nil => h \in VarIds
    BY <1>4 DEF VarRefs
  <2> QED BY <1>1, <1>2, <2>1, <2>2, ObjectFacts
<1> QED BY <1>3, <1>5 DEF c

\* What the caller does before the routine starts.
LEMMA CallerSets ==
    ASSUME ResultsCompound, ScopeInv, Running, Room,
           NEW target \in Targets \cup {Nil}, NEW line \in Data,
           NEW c, c = Created(target),
           NEW z, z = VarSet(c.pool, Id, Scope, Sigl, line, Fresh[3])
    PROVE  /\ Sets(pool, z, Used(proc, rx_proc), Scope, Sigl, line)
           /\ Slotted(z, proc) /\ c.var \notin Variables(z)
<1>1. rx_proc >= 0 /\ Sigl \in Simple /\ line \in Text
  BY PoolConstants DEF Running
<1>2. /\ pool \in PoolType /\ Tidy(pool) /\ Owned(pool, proc, rx_proc)
      /\ Id \in IdRange /\ Id # NoCache /\ Scope \in Frames /\ CoherentIn(pool, Id, Scope)
      /\ Used(proc, rx_proc) \subseteq Frames /\ Scope \in Used(proc, rx_proc)
  BY <1>1, RunFacts
<1>3. /\ Unused(pool, Fresh[1]) /\ Unused(pool, Fresh[2]) /\ Unused(pool, Fresh[3])
      /\ Fresh[1] # Fresh[2] /\ Fresh[1] # Fresh[3] /\ Fresh[2] # Fresh[3]
      /\ Fresh[1] \in VarIds /\ Fresh[2] \in VarIds
      /\ \A g \in Frames : proc[g].r \notin {Fresh[3]}
  BY FreshFacts DEF Unused
<1>4. /\ Good(pool, c.pool, Id, Scope, {Scope})
      /\ Keeps(pool, c.pool, proc, rx_proc, {Fresh[1], Fresh[2]})
      /\ Apart(pool, c.pool) /\ c.var \notin Variables(pool) /\ c.var # Fresh[3]
  <2>1. CASE target # Nil
    <3> DEFINE y == Create(pool, Id, Scope, target, Fresh[1], Fresh[2])
    <3>1. c = y
      BY <2>1 DEF Created
    <3>2. target \in Refs /\ target \notin Simple /\ target \notin Names
      BY <2>1, PoolConstants DEF ResultsCompound, Names
    <3>3. Good(pool, y.pool, Id, Scope, {Scope})
      BY <1>2, <1>3, <3>2, CreateGood
    <3>4. Keeps(pool, y.pool, proc, rx_proc, {Fresh[1], Fresh[2]})
      BY <1>2, <1>3, <3>2, CreateKeeps
    <3>5. Apart(pool, y.pool) /\ y.var \notin Variables(pool)
      BY <1>2, <1>3, <3>2, CreateApart
    <3>6. y.var = Fresh[1] \/ y.var \in TailsOf(pool, VarIds)
      BY <1>2, <3>2, SlotVar
    <3>7. y.var # Fresh[3]
      BY <1>3, <3>6 DEF Unused
    <3> HIDE DEF y
    <3> QED BY <3>1, <3>3, <3>4, <3>5, <3>7
  <2>2. CASE target = Nil
    <3>1. c.pool = pool /\ c.var = Nil
      BY <2>2 DEF Created
    <3>2. Nil \notin Variables(pool) /\ Nil # Fresh[3]
      BY <1>2, <1>3, VariableFacts, PoolConstants DEF Unused
    <3>3. Good(pool, pool, Id, Scope, {Scope})
      BY <1>2, QuietGood DEF Quiet
    <3> QED BY <3>1, <3>2, <3>3, KeepsSelf, ApartSelf
  <2> QED BY <2>1, <2>2
<1>5. c.pool \in PoolType /\ CoherentIn(c.pool, Id, Scope)
  BY <1>2, <1>4, GoodCoherent DEF Good
<1>6. Unused(c.pool, Fresh[3]) /\ Tidy(c.pool)
  BY <1>2, <1>3, <1>4 DEF Keeps, Owned
<1>7. /\ Sets(c.pool, z, Used(proc, rx_proc), Scope, Sigl, line)
      /\ Variables(z) \subseteq Variables(c.pool) \cup {Fresh[3]}
  BY <1>1, <1>2, <1>5, <1>6, VarSetSets
<1>8. Still(pool, c.pool, Used(proc, rx_proc)) /\ Variables(c.pool) = Variables(pool)
  BY <1>2, <1>4, ApartStill, ApartVars
<1>9. Sets(pool, z, Used(proc, rx_proc), Scope, Sigl, line)
  BY <1>1, <1>2, <1>7, <1>8, StillSets
<1>10. Variables(z) \subseteq Variables(pool) \cup {Fresh[3]}
  BY <1>7, <1>8
<1>11. Slotted(z, proc)
  BY <1>3, <1>10, StepSlots
<1> QED BY <1>4, <1>9, <1>10, <1>11

\* SIGL in the caller, in terms of owners and values.
LEMMA CallerMaps ==
    ASSUME ScopeInv, rx_proc >= 0, NEW line \in Data, NEW z,
           Sets(pool, z, Used(proc, rx_proc), Scope, Sigl, line)
    PROVE  /\ OMap(z, proc, rx_proc) = OwnerMap
           /\ VMap(z, proc, rx_proc) = S!Put(rx_proc, Sigl, line)
           /\ Given(z, Used(proc, rx_proc))
<1>1. Framed(proc, rx_proc, procidcnt) /\ Owned(pool, proc, rx_proc)
      /\ Scope \in Used(proc, rx_proc) /\ Sigl \in Simple /\ line \in Data \cup {Sigl}
  BY ScopeFacts, RunFacts, PoolConstants
<1>2. PICK f \in 0..rx_proc : f = rx_proc
  BY RunFacts
<1>3. Sets(pool, z, Used(proc, rx_proc), proc[f].scope, Sigl, line)
  BY <1>2, RunFacts
<1>4. /\ OMap(z, proc, rx_proc) = OMap(pool, proc, rx_proc)
      /\ VMap(z, proc, rx_proc)
           = PutAt(OMap(pool, proc, rx_proc), VMap(pool, proc, rx_proc), f, Sigl, line)
  BY <1>1, <1>3, SetsMaps
<1>5. Given(z, Used(proc, rx_proc))
  BY <1>1, ScopeFacts, SetsGiven
<1> QED BY <1>2, <1>4, <1>5, ScopeFacts DEF S!Put, PutAt

\* What a new frame is: the ones below stay.
LEMMA NewKinds ==
    ASSUME ScopeInv, rx_proc >= 0, rx_proc < MaxProc, NEW fr,
           proc' = [proc EXCEPT ![rx_proc + 1] = fr], NEW z, Slotted(z, proc),
           fr.r \notin Variables(z)
    PROVE  /\ rx_proc \in Int /\ rx_proc + 1 \in Frames
           /\ \A g \in 0..rx_proc : proc'[g] = proc[g]
           /\ proc'[rx_proc + 1] = fr /\ Slotted(z, proc')
           /\ KindMap' = [KindMap EXCEPT ![rx_proc + 1] = fr.calltype]
<1>1. Framed(proc, rx_proc, procidcnt) /\ rx_proc \in Int
  BY ScopeFacts, FramedFacts
<1>2. proc \in [Frames -> FrameType]
  BY <1>1 DEF Framed
<1>3. rx_proc + 1 \in Frames
  BY <1>1, PoolConstants DEF Frames
<1>4. \A g \in 0..rx_proc : g \in Frames /\ g # rx_proc + 1
  BY <1>1, FramedFacts
<1>5. /\ \A g \in 0..rx_proc : proc'[g] = proc[g]
      /\ proc'[rx_proc + 1] = fr
      /\ \A g \in Frames : g # rx_proc + 1 => proc'[g] = proc[g]
  BY <1>2, <1>3, <1>4
<1>6. Slotted(z, proc')
  BY <1>3, <1>5 DEF Slotted
<1>7. KindMap' = [KindMap EXCEPT ![rx_proc + 1] = fr.calltype]
  <2>1. \A g \in Frames :
           proc'[g].calltype = IF g = rx_proc + 1 THEN fr.calltype ELSE proc[g].calltype
    BY <1>3, <1>5
  <2> QED BY <2>1 DEF KindMap
<1> QED BY <1>1, <1>3, <1>5, <1>6, <1>7

LEMMA PushStep ==
    ASSUME ScopeInv, MarksInv', rx_proc >= 0, NEW kind, NEW slot, Push(kind, slot),
           NEW z, z = pool', Given(z, Used(proc, rx_proc)), Slotted(z, proc),
           slot \notin Variables(z)
    PROVE  /\ Kept /\ rx_proc < MaxProc /\ rx_proc' = rx_proc + 1
           /\ OwnerMap' = PushAt(OMap(z, proc, rx_proc), rx_proc)
           /\ ValueMap' = VMap(z, proc, rx_proc)
           /\ KindMap' = [KindMap EXCEPT ![rx_proc + 1] = kind]
<1> DEFINE fr == [proc[rx_proc] EXCEPT !.calltype = kind, !.r = slot]
<1>1. /\ rx_proc < MaxProc /\ rx_proc' = rx_proc + 1
      /\ proc' = [proc EXCEPT ![rx_proc + 1] = fr]
  BY DEF Push
<1>2. Framed(proc, rx_proc, procidcnt) /\ Framed(proc', rx_proc + 1, procidcnt')
  BY <1>1, ScopeFacts DEF MarksInv, IInv
<1>3. fr.r = slot /\ fr.calltype = kind /\ fr.scope = proc[rx_proc].scope
  <2>1. proc[rx_proc] \in FrameType
    BY RunFacts, ScopeFacts, FramedFacts
  <2> QED BY <2>1 DEF FrameType
<1> HIDE DEF fr
<1>4. /\ \A g \in 0..rx_proc : proc'[g] = proc[g]
      /\ proc'[rx_proc + 1] = fr /\ Slotted(z, proc')
      /\ KindMap' = [KindMap EXCEPT ![rx_proc + 1] = fr.calltype]
  BY <1>1, <1>3, NewKinds
<1>5. PICK pr2 : pr2 = proc'
  OBVIOUS
<1>6. PICK pr : pr = proc
  OBVIOUS
<1>7. PICK rx : rx = rx_proc
  OBVIOUS
<1>8. /\ Used(pr2, rx + 1) = Used(pr, rx)
      /\ OMap(z, pr2, rx + 1) = PushAt(OMap(z, pr, rx), rx)
      /\ VMap(z, pr2, rx + 1) = VMap(z, pr, rx)
  <2>1. /\ Framed(pr, rx, procidcnt) /\ Framed(pr2, rx + 1, procidcnt') /\ rx >= 0
        /\ \A g \in 0..rx : pr2[g] = pr[g]
        /\ pr2[rx + 1].scope = pr[rx].scope
    BY <1>2, <1>3, <1>4, <1>5, <1>6, <1>7
  <2> QED BY <2>1, PushMaps
<1>9. /\ Used(proc', rx_proc') = Used(proc, rx_proc)
      /\ OMap(pool', proc', rx_proc') = PushAt(OMap(z, proc, rx_proc), rx_proc)
      /\ VMap(pool', proc', rx_proc') = VMap(z, proc, rx_proc)
  BY <1>1, <1>5, <1>6, <1>7, <1>8
<1>10. IInv'
  BY DEF MarksInv
<1>11. /\ OwnerMap' = PushAt(OMap(z, proc, rx_proc), rx_proc)
       /\ ValueMap' = VMap(z, proc, rx_proc)
  BY <1>9, <1>10, MapsThen
<1>12. Kept
  BY <1>4, <1>9 DEF Kept
<1> QED BY <1>1, <1>3, <1>4, <1>11, <1>12

LEMMA CallSharedFits ==
    ASSUME ResultsCompound, ScopeInv, MarksInv', NEW kind \in {"FUNCTION", "PROCEDURE"},
           NEW target \in Targets \cup {Nil}, NEW line \in Data,
           CallShared(kind, target, line)
    PROVE  Fits
<1> DEFINE c == Created(target)
           slot == c.var
           z == VarSet(c.pool, Id, Scope, Sigl, line, Fresh[3])
<1>1. /\ Running /\ Room /\ Push(kind, slot) /\ rx_proc >= 0 /\ z = pool'
      /\ UNCHANGED <<procidcnt, pending, closing>>
  BY DEF CallShared, Running
<1>2. /\ Sets(pool, z, Used(proc, rx_proc), Scope, Sigl, line)
      /\ Slotted(z, proc) /\ slot \notin Variables(z)
  BY <1>1, CallerSets
<1> HIDE DEF c, slot, z
<1>3. /\ OMap(z, proc, rx_proc) = OwnerMap
      /\ VMap(z, proc, rx_proc) = S!Put(rx_proc, Sigl, line)
      /\ Given(z, Used(proc, rx_proc))
  BY <1>1, <1>2, CallerMaps
<1>4. /\ Kept /\ rx_proc < MaxProc /\ rx_proc' = rx_proc + 1
      /\ OwnerMap' = PushAt(OMap(z, proc, rx_proc), rx_proc)
      /\ ValueMap' = VMap(z, proc, rx_proc)
      /\ KindMap' = [KindMap EXCEPT ![rx_proc + 1] = kind]
  BY <1>1, <1>2, <1>3, PushStep
<1>5. S!Enter(kind)
  BY <1>1, <1>3, <1>4 DEF S!Enter, S!Running, Running, PushAt
<1>6. S!EnterRoutine(kind, line)
  BY <1>3, <1>4, <1>5 DEF S!EnterRoutine
<1>7. S!Next
  BY <1>6 DEF S!Next
<1> QED BY <1>4, <1>7 DEF Fits

LEMMA InterpretFits ==
    ASSUME ScopeInv, MarksInv', Interpret
    PROVE  Fits
<1>1. /\ Running /\ Push("INTERPRET", Nil) /\ rx_proc >= 0 /\ pool = pool'
      /\ UNCHANGED <<pool, procidcnt, pending, closing>>
  BY DEF Interpret, Running
<1>2. PICK z : z = pool
  OBVIOUS
<1>3. /\ Given(z, Used(proc, rx_proc)) /\ Slotted(z, proc) /\ Nil \notin Variables(z)
      /\ OMap(z, proc, rx_proc) = OwnerMap /\ VMap(z, proc, rx_proc) = ValueMap
  BY <1>2, ScopeFacts, VariableFacts
<1>4. /\ Kept /\ rx_proc < MaxProc /\ rx_proc' = rx_proc + 1
      /\ OwnerMap' = PushAt(OMap(z, proc, rx_proc), rx_proc)
      /\ ValueMap' = VMap(z, proc, rx_proc)
      /\ KindMap' = [KindMap EXCEPT ![rx_proc + 1] = "INTERPRET"]
  BY <1>1, <1>2, <1>3, PushStep
<1>5. S!Enter("INTERPRET")
  BY <1>1, <1>3, <1>4 DEF S!Enter, S!Running, Running, PushAt
<1>6. S!EnterText("INTERPRET")
  BY <1>3, <1>4, <1>5 DEF S!EnterText
<1> QED BY <1>4, <1>6 DEF Fits, S!Next

LEMMA CallProcedureFits ==
    ASSUME ResultsCompound, ScopeInv, MarksInv', NEW kind \in {"FUNCTION", "PROCEDURE"},
           NEW target \in Targets \cup {Nil}, NEW line \in Data,
           NEW list \in ExposeLists, CallProcedure(kind, target, line, list)
    PROVE  Fits
<1> DEFINE c == Created(target)
           slot == c.var
           fr == NewFrame(kind, slot)
           z == VarSet(c.pool, Id, Scope, Sigl, line, Fresh[3])
           n == rx_proc + 1
<1>1. /\ Running /\ Room /\ rx_proc >= 0 /\ rx_proc < MaxProc /\ z = pool'
      /\ proc' = [proc EXCEPT ![rx_proc + 1] = fr] /\ rx_proc' = rx_proc + 1
      /\ UNCHANGED closing
  BY DEF CallProcedure, Running
<1>2. /\ Sets(pool, z, Used(proc, rx_proc), Scope, Sigl, line)
      /\ Slotted(z, proc) /\ slot \notin Variables(z)
  BY <1>1, CallerSets
<1>3. Good(pool, z, Id, Scope, {Scope})
  BY <1>1, ScopeFacts, CallerGood
<1>4. fr.r = slot /\ fr.calltype = kind /\ fr.scope = rx_proc + 1
  BY DEF NewFrame
<1> HIDE DEF c, slot, z, fr
<1>5. /\ OMap(z, proc, rx_proc) = OwnerMap
      /\ VMap(z, proc, rx_proc) = S!Put(rx_proc, Sigl, line)
      /\ Given(z, Used(proc, rx_proc))
  BY <1>1, <1>2, CallerMaps
<1>6. /\ rx_proc \in Int /\ rx_proc + 1 \in Frames
      /\ \A g \in 0..rx_proc : proc'[g] = proc[g]
      /\ proc'[rx_proc + 1] = fr /\ Slotted(z, proc')
      /\ KindMap' = [KindMap EXCEPT ![rx_proc + 1] = kind]
  BY <1>1, <1>2, <1>4, NewKinds
<1>7. /\ Framed(proc, rx_proc, procidcnt) /\ Framed(proc', rx_proc + 1, procidcnt')
      /\ Closed(pool, proc, rx_proc) /\ pool \in PoolType
  BY <1>1, ScopeFacts DEF MarksInv, IInv
<1>8. n \in Frames /\ n \notin Used(proc, rx_proc) /\ n # Scope
  <2>1. \A g \in 0..rx_proc : proc[g].scope # n
    BY <1>6, <1>7, FramedFacts
  <2> QED BY <1>1, <1>6, <2>1, RunFacts DEF Used
<1>9. z.head[n] = NoHeads
  <2>1. pool.head[n] = NoHeads
    BY <1>7, <1>8 DEF Closed
  <2>2. \A m \in Names : z.head[n][m] = pool.head[n][m]
    BY <1>3, <1>8 DEF Good, Grows
  <2>3. z.head[n] \in [Names -> VarRefs]
    BY <1>3, <1>8 DEF Good, PoolType, VarRefs
  <2> QED BY <2>1, <2>2, <2>3 DEF NoHeads
<1>10. PICK pr2 : pr2 = proc'
  OBVIOUS
<1>11. PICK pr : pr = proc
  OBVIOUS
<1>12. PICK rx : rx = rx_proc
  OBVIOUS
<1>13. OMap(z, pr2, rx + 1) = OMap(z, pr, rx) /\ VMap(z, pr2, rx + 1) = VMap(z, pr, rx)
  <2>1. /\ Framed(pr, rx, procidcnt) /\ Framed(pr2, rx + 1, procidcnt')
        /\ \A g \in 0..rx : pr2[g] = pr[g]
        /\ pr2[rx + 1].scope = rx + 1 /\ z.head[rx + 1] = NoHeads
    BY <1>4, <1>6, <1>7, <1>9, <1>10, <1>11, <1>12
  <2> QED BY <2>1, ScopeMaps
<1>14. /\ OMap(pool', proc', rx_proc') = OwnerMap
       /\ VMap(pool', proc', rx_proc') = S!Put(rx_proc, Sigl, line)
  BY <1>1, <1>5, <1>10, <1>11, <1>12, <1>13
<1>15. IInv'
  BY DEF MarksInv
<1>16. OwnerMap' = OwnerMap /\ ValueMap' = S!Put(rx_proc, Sigl, line)
  BY <1>14, <1>15, MapsThen
<1>17. Given(z, Used(proc', rx_proc'))
  <2>1. \A s \in Used(proc', rx_proc') : s \in Used(proc, rx_proc) \/ s = n
    <3>1. \A g \in 0..rx_proc' : g \in 0..rx_proc \/ g = n
      BY <1>1, <1>6
    <3> HIDE DEF n
    <3>2. proc'[n].scope = n
      BY <1>4, <1>6 DEF n
    <3> QED BY <1>6, <3>1, <3>2 DEF Used
  <2>2. \A m \in Simple : View(z, n, m) = m
    BY <1>9 DEF View, NoHeads, Names
  <2> QED BY <1>5, <2>1, <2>2 DEF Given
<1>18. Kept
  BY <1>1, <1>6, <1>17 DEF Kept
<1>19. S!EnterProcedure(kind, line)
  BY <1>1, <1>6, <1>16 DEF S!EnterProcedure, S!Running, Running
<1>20. S!Next
  BY <1>19 DEF S!Next
<1> QED BY <1>18, <1>20 DEF Fits

-----------------------------------------------------------------------------
(* The frames above k end.                                                 *)

LEMMA LeaveStep ==
    ASSUME ScopeInv, MarksInv', UNCHANGED <<pending, closing>>, NEW k \in -1..rx_proc,
           rx_proc' = k, \A g \in 0..k : proc'[g] = proc[g], NEW v,
           OMap(pool', proc', rx_proc') = CutOwners(OwnerMap, k),
           VMap(pool', proc', rx_proc') = CutValues(v, k)
    PROVE  S!LeaveTo(k, v)
<1>1. IInv' /\ Framed(proc', rx_proc', procidcnt')
  BY DEF MarksInv, IInv
<1>2. OwnerMap' = CutOwners(OwnerMap, k) /\ ValueMap' = CutValues(v, k)
  BY <1>1, MapsThen
<1>3. k \in Int /\ \A f \in Frames : f \in Int /\ (f <= k <=> f \in 0..k)
  BY ScopeFacts, FramedFacts DEF Frames
<1>4. \A f \in Frames : proc'[f].calltype = IF f <= k THEN proc[f].calltype ELSE "PROGRAM"
  <2>1. \A f \in Frames : ~ f <= k => proc'[f] = NoFrame
    BY <1>1, <1>3 DEF Framed
  <2>2. NoFrame.calltype = "PROGRAM"
    BY DEF NoFrame
  <2> QED BY <1>3, <2>1, <2>2
<1>5. KindMap' = [f \in Frames |-> IF f <= k THEN KindMap[f] ELSE "PROGRAM"]
  BY <1>4 DEF KindMap
<1>6. S!Depths = Frames
  BY DEF S!Depths, Frames
<1>7. /\ CutOwners(OwnerMap, k) = [f \in S!Depths |-> IF f <= k THEN OwnerMap[f] ELSE S!Own(f)]
      /\ CutValues(v, k) = [f \in S!Depths |-> IF f <= k THEN v[f] ELSE S!Unset]
  BY <1>6 DEF CutOwners, CutValues, S!Own, S!Unset
<1>8. KindMap' = [f \in S!Depths |-> IF f <= k THEN KindMap[f] ELSE S!Idle]
  BY <1>5, <1>6 DEF S!Idle
<1> QED BY <1>2, <1>7, <1>8 DEF S!LeaveTo

\* The scopes of INTERPRETs belong to the frame below them.
LEMMA TextsUsed ==
    ASSUME NEW pr, NEW rx, NEW cnt, Framed(pr, rx, cnt), NEW f \in 0..rx,
           \A g \in (f + 1)..rx : pr[g].calltype = "INTERPRET",
           NEW pr2, \A g \in 0..f : pr2[g] = pr[g]
    PROVE  Used(pr2, f) = Used(pr, rx)
<1>1. rx \in Int /\ f \in Int /\ f >= 0 /\ f <= rx
  BY FramedFacts
<1>2. \A g \in 0..f : g \in 0..rx
  BY <1>1
<1>3. \A g \in 0..rx : \E h \in 0..f : pr2[h].scope = pr[g].scope
  <2> SUFFICES ASSUME NEW g \in 0..rx
               PROVE  \E h \in 0..f : pr2[h].scope = pr[g].scope
    OBVIOUS
  <2>1. CASE g \in 0..f
    BY <2>1
  <2>2. CASE g \notin 0..f
    <3>1. f \in 0..f /\ f <= g /\ (f + 1)..g \subseteq (f + 1)..rx
      BY <1>1, <2>2
    <3>2. pr[f].scope = pr[g].scope
      BY <1>1, <3>1 DEF Framed
    <3> QED BY <3>1, <3>2
  <2> QED BY <2>1, <2>2
<1>4. Used(pr, rx) \subseteq Used(pr2, f) /\ Used(pr2, f) \subseteq Used(pr, rx)
  BY <1>2, <1>3 DEF Used
<1> QED BY <1>4

\* What leaving INTERPRETs does to a pool p.
LEMMA LeaveMaps ==
    ASSUME NEW p, NEW pr, NEW rx, NEW cnt, Framed(pr, rx, cnt), Owned(p, pr, rx),
           NEW f \in 0..rx, \A g \in (f + 1)..rx : pr[g].calltype = "INTERPRET",
           NEW pr2, NEW cnt2, Framed(pr2, f, cnt2), \A g \in 0..f : pr2[g] = pr[g]
    PROVE  /\ OMap(p, pr2, f) = CutOwners(OMap(p, pr, rx), f)
           /\ VMap(p, pr2, f) = CutValues(VMap(p, pr, rx), f)
           /\ Used(pr2, f) = Used(pr, rx)
<1>1. Used(pr2, f) = Used(pr, rx)
  BY TextsUsed
<1>2. Used(pr, rx) \subseteq Used(pr2, f) \cup {f + 1} /\ f \in -1..rx
  BY <1>1, FramedFacts
<1>3. Cuts(p, Used(pr, rx), p, Used(pr2, f))
  BY <1>1, SelfCuts
<1> QED BY <1>1, <1>2, <1>3, CutMaps

\* What remains of the table has the same result slots, or none.
LEMMA CutSlots ==
    ASSUME NEW p, NEW q, q \in PoolType, Variables(q) \subseteq Variables(p),
           NEW pr, Slotted(p, pr), NEW pr2, NEW k, NEW cnt2, Framed(pr2, k, cnt2),
           \A g \in 0..k : pr2[g] = pr[g]
    PROVE  Slotted(q, pr2)
<1>1. Nil \notin Variables(q)
  BY DEF Variables
<1>2. NoFrame.r = Nil
  BY DEF NoFrame
<1>3. \A g \in Frames : g \in 0..k \/ pr2[g] = NoFrame
  BY DEF Framed
<1> QED BY <1>1, <1>2, <1>3 DEF Slotted

\* Leaving INTERPRETs, after the pool was changed to z.
LEMMA TextsStep ==
    ASSUME ScopeInv, MarksInv', UNCHANGED <<pending, closing>>, NEW f \in 0..rx_proc,
           \A g \in (f + 1)..rx_proc : proc[g].calltype = "INTERPRET",
           rx_proc' = f, \A g \in 0..f : proc'[g] = proc[g], NEW z, z = pool',
           Owned(z, proc, rx_proc), Given(z, Used(proc, rx_proc)), Slotted(z, proc),
           OMap(z, proc, rx_proc) = OwnerMap, NEW v, VMap(z, proc, rx_proc) = v
    PROVE  Kept /\ S!LeaveTo(f, v)
<1>1. PICK pr : pr = proc
  OBVIOUS
<1>2. PICK rx : rx = rx_proc
  OBVIOUS
<1>3. PICK pr2 : pr2 = proc'
  OBVIOUS
<1>4. PICK cnt2 : cnt2 = procidcnt'
  OBVIOUS
<1>5. Framed(pr, rx, procidcnt) /\ Framed(pr2, f, cnt2) /\ z \in PoolType
  <2>1. Framed(proc', rx_proc', procidcnt') /\ z \in PoolType
    BY DEF MarksInv, IInv, Owned, Tidy
  <2> QED BY <1>1, <1>2, <1>3, <1>4, <2>1, ScopeFacts
<1>6. /\ Owned(z, pr, rx) /\ f \in 0..rx /\ Slotted(z, pr)
      /\ \A g \in (f + 1)..rx : pr[g].calltype = "INTERPRET"
      /\ \A g \in 0..f : pr2[g] = pr[g]
  BY <1>1, <1>2, <1>3
<1>7. /\ OMap(z, pr2, f) = CutOwners(OMap(z, pr, rx), f)
      /\ VMap(z, pr2, f) = CutValues(VMap(z, pr, rx), f)
      /\ Used(pr2, f) = Used(pr, rx)
  BY <1>5, <1>6, LeaveMaps
<1>8. Slotted(z, pr2)
  BY <1>5, <1>6, CutSlots
<1>9. Kept
  BY <1>1, <1>2, <1>3, <1>7, <1>8 DEF Kept
<1>10. /\ OMap(pool', proc', rx_proc') = CutOwners(OwnerMap, f)
       /\ VMap(pool', proc', rx_proc') = CutValues(v, f)
  BY <1>1, <1>2, <1>3, <1>7
<1>11. f \in -1..rx_proc
  BY ScopeFacts, FramedFacts
<1>12. S!LeaveTo(f, v)
  BY <1>10, <1>11, LeaveStep
<1> QED BY <1>9, <1>12

LEMMA InterEndFits ==
    ASSUME ScopeInv, MarksInv', InterEnd
    PROVE  Fits
<1> DEFINE f == rx_proc - 1
<1>1. /\ rx_proc > 0 /\ proc[rx_proc].calltype = "INTERPRET" /\ Running
      /\ rx_proc' = f /\ UNCHANGED <<pool, procidcnt, pending, closing>>
      /\ proc' = [proc EXCEPT ![rx_proc] = NoFrame]
  BY DEF InterEnd
<1>2. rx_proc \in Int /\ Framed(proc, rx_proc, procidcnt) /\ Owned(pool, proc, rx_proc)
      /\ rx_proc \in Frames
  BY <1>1, ScopeFacts, FramedFacts, RunningFacts DEF Running
<1>3. \A g \in 0..f : proc'[g] = proc[g]
  BY <1>1, <1>2, PopOne
<1>4. f \in 0..rx_proc /\ (f + 1)..rx_proc = {rx_proc}
  BY <1>1, <1>2
<1> HIDE DEF f
<1>5. PICK k \in 0..rx_proc : k = f
  BY <1>4
<1>6. PICK z : z = pool'
  OBVIOUS
<1>7. PICK v : v = ValueMap
  OBVIOUS
<1>8. Kept /\ S!LeaveTo(k, v)
  <2>1. /\ \A g \in (k + 1)..rx_proc : proc[g].calltype = "INTERPRET"
        /\ rx_proc' = k /\ \A g \in 0..k : proc'[g] = proc[g]
    BY <1>1, <1>3, <1>4, <1>5
  <2>2. /\ Owned(z, proc, rx_proc) /\ Given(z, Used(proc, rx_proc)) /\ Slotted(z, proc)
        /\ OMap(z, proc, rx_proc) = OwnerMap /\ VMap(z, proc, rx_proc) = v
    BY <1>1, <1>6, <1>7, ScopeFacts
  <2> QED BY <1>1, <1>6, <2>1, <2>2, TextsStep
<1>9. KindMap[rx_proc] = "INTERPRET"
  BY <1>1, <1>2 DEF KindMap
<1>10. S!LeaveText
  <2>1. k = rx_proc - 1
    BY <1>5 DEF f
  <2> QED BY <1>1, <1>7, <1>8, <1>9, <2>1 DEF S!LeaveText, S!LeaveTo, S!Running, Running
<1> QED BY <1>8, <1>10 DEF Fits, S!Next

LEMMA RoutineFacts ==
    ASSUME ScopeInv, NEW f \in 0..rx_proc, proc[f].calltype # "INTERPRET",
           \A g \in (f + 1)..rx_proc : proc[g].calltype = "INTERPRET"
    PROVE  S!Routine(f) /\ f \in S!Depths /\ KindMap[f] = proc[f].calltype
<1>1. Framed(proc, rx_proc, procidcnt) /\ f \in Frames /\ f \in Int /\ f >= 0
  BY ScopeFacts, FramedFacts
<1>2. \A g \in (f + 1)..rx_proc : g \in Frames
  <2>1. rx_proc \in Int
    BY <1>1, FramedFacts
  <2>2. \A g \in (f + 1)..rx_proc : g \in 0..rx_proc
    BY <1>1, <2>1
  <2> QED BY <1>1, <2>2, FramedFacts
<1>3. KindMap[f] = proc[f].calltype
  BY <1>1 DEF KindMap
<1>4. \A g \in (f + 1)..rx_proc : KindMap[g] = "INTERPRET"
  BY <1>2 DEF KindMap
<1>5. f \in S!Depths
  BY <1>1 DEF S!Depths, Frames
<1> QED BY <1>3, <1>4, <1>5 DEF S!Routine

LEMMA TrapFits ==
    ASSUME ResultsCompound, ScopeInv, MarksInv', NEW target \in Targets \cup {Nil},
           NEW line \in Data, Trap(target, line)
    PROVE  Fits
<1>1. /\ Running /\ Room
      /\ pool' = VarSet(Created(target).pool, Id, Scope, Sigl, line, Fresh[3])
      /\ UNCHANGED <<procidcnt, pending, closing>> /\ rx_proc >= 0
  BY DEF Trap, Running
<1>2. PICK f \in 0..rx_proc :
         /\ proc[f].calltype # "INTERPRET"
         /\ \A g \in (f + 1)..rx_proc : proc[g].calltype = "INTERPRET"
         /\ rx_proc' = f
         /\ proc' = [g \in Frames |-> IF g <= f THEN proc[g] ELSE NoFrame]
  BY DEF Trap
<1>3. PICK z : z = pool'
  OBVIOUS
<1>4. PICK c : c = Created(target)
  OBVIOUS
<1>5. Sets(pool, z, Used(proc, rx_proc), Scope, Sigl, line) /\ Slotted(z, proc)
  BY <1>1, <1>3, <1>4, CallerSets
<1>6. /\ OMap(z, proc, rx_proc) = OwnerMap
      /\ VMap(z, proc, rx_proc) = S!Put(rx_proc, Sigl, line)
      /\ Given(z, Used(proc, rx_proc))
  BY <1>1, <1>5, CallerMaps
<1>7. Owned(z, proc, rx_proc)
  BY <1>1, <1>3, <1>4, ScopeFacts, CallerMarks
<1>8. \A g \in 0..f : proc'[g] = proc[g]
  <2>1. Framed(proc, rx_proc, procidcnt) /\ rx_proc \in Int /\ f \in -1..rx_proc
    BY ScopeFacts, FramedFacts
  <2> QED BY <1>2, <2>1, CutFramed
<1>9. PICK v : v = S!Put(rx_proc, Sigl, line)
  OBVIOUS
<1>10. Kept /\ S!LeaveTo(f, v)
  BY <1>1, <1>2, <1>3, <1>5, <1>6, <1>7, <1>8, <1>9, TextsStep
<1>11. S!Routine(f) /\ f \in S!Depths
  BY <1>2, RoutineFacts
<1>12. S!LeaveTo(f, S!Put(rx_proc, Sigl, line))
  BY <1>9, <1>10 DEF S!LeaveTo
<1>13. S!Trap(line)
  BY <1>1, <1>11, <1>12 DEF S!Trap, S!Running, Running
<1> QED BY <1>10, <1>13 DEF Fits, S!Next

\* A routine or the program ends, after the pool was changed to p.
LEMMA PopStep ==
    ASSUME ScopeInv, MarksInv', NEW f \in 0..rx_proc,
           \A h \in (f + 1)..rx_proc : proc[h].calltype = "INTERPRET",
           NEW p \in PoolType, Closed(p, proc, rx_proc), Owned(p, proc, rx_proc), Apart(pool, p),
           NEW k, k = f - 1, rx_proc' = k, \A g \in 0..k : proc'[g] = proc[g],
           NEW q \in PoolType,
           q = IF f = 0 \/ proc[f].scope # proc[k].scope
               THEN ScopeFree(p, proc[f].scope, f) ELSE p
    PROVE  /\ OMap(q, proc', rx_proc') = CutOwners(OwnerMap, k)
           /\ VMap(q, proc', rx_proc') = CutValues(ValueMap, k)
           /\ Given(q, Used(proc', rx_proc')) /\ Slotted(q, proc')
           /\ Variables(q) \subseteq Variables(pool)
<1>1. PICK pr : pr = proc
  OBVIOUS
<1>2. PICK rx : rx = rx_proc
  OBVIOUS
<1>3. PICK pr2 : pr2 = proc'
  OBVIOUS
<1>4. PICK cnt2 : cnt2 = procidcnt'
  OBVIOUS
<1>5. /\ Framed(pr, rx, procidcnt) /\ Framed(pr2, k, cnt2)
      /\ Closed(p, pr, rx) /\ Owned(p, pr, rx) /\ f \in 0..rx
      /\ \A h \in (f + 1)..rx : pr[h].calltype = "INTERPRET"
      /\ \A g \in 0..k : pr2[g] = pr[g]
      /\ q = IF f = 0 \/ pr[f].scope # pr[k].scope THEN ScopeFree(p, pr[f].scope, f) ELSE p
  <2>1. Framed(proc', rx_proc', procidcnt')
    BY DEF MarksInv, IInv
  <2> QED BY <1>1, <1>2, <1>3, <1>4, <2>1, ScopeFacts
<1>6. /\ OMap(q, pr2, k) = CutOwners(OMap(p, pr, rx), k)
      /\ VMap(q, pr2, k) = CutValues(VMap(p, pr, rx), k)
      /\ Cuts(p, Used(pr, rx), q, Used(pr2, k))
      /\ Used(pr2, k) \subseteq Used(pr, rx) /\ Variables(q) \subseteq Variables(p)
  BY <1>5, CutCuts
<1>7. /\ Still(pool, p, Used(proc, rx_proc)) /\ Variables(p) = Variables(pool)
      /\ OMap(p, proc, rx_proc) = OwnerMap /\ VMap(p, proc, rx_proc) = ValueMap
      /\ Given(p, Used(proc, rx_proc)) /\ Slotted(p, proc)
  <2>1. Still(pool, p, Used(proc, rx_proc)) /\ Variables(p) = Variables(pool)
    BY ScopeFacts, ApartStill, ApartVars
  <2>2. OMap(p, proc, rx_proc) = OwnerMap /\ VMap(p, proc, rx_proc) = ValueMap
    BY <2>1, ScopeFacts, StillMaps
  <2>3. Given(p, Used(proc, rx_proc)) /\ Slotted(p, proc)
    BY <2>1, ScopeFacts, StillGiven DEF Slotted
  <2> QED BY <2>1, <2>2, <2>3
<1>8. Given(q, Used(pr2, k))
  <2>1. Given(p, Used(pr, rx))
    BY <1>1, <1>2, <1>7
  <2> QED BY <1>6, <2>1, CutsGiven
<1>9. Slotted(q, pr2)
  <2>1. Slotted(p, pr)
    BY <1>1, <1>7
  <2> QED BY <1>5, <1>6, <2>1, CutSlots
<1> QED BY <1>1, <1>2, <1>3, <1>6, <1>7, <1>8, <1>9

LEMMA PopFits ==
    ASSUME ScopeInv, MarksInv', UNCHANGED <<pending, closing>>, NEW f \in 0..rx_proc,
           \A h \in (f + 1)..rx_proc : proc[h].calltype = "INTERPRET",
           NEW p \in PoolType, Closed(p, proc, rx_proc), Owned(p, proc, rx_proc), Apart(pool, p),
           NEW k, k = f - 1, rx_proc' = k, \A g \in 0..k : proc'[g] = proc[g],
           pool' = IF f = 0 \/ proc[f].scope # proc[k].scope
                   THEN ScopeFree(p, proc[f].scope, f) ELSE p
    PROVE  Kept /\ S!LeaveTo(k, ValueMap)
<1>1. PICK q : q = pool'
  OBVIOUS
<1>2. PICK v : v = ValueMap
  OBVIOUS
<1>3. q \in PoolType
  BY <1>1 DEF MarksInv, Owned, Tidy
<1>4. /\ OMap(q, proc', rx_proc') = CutOwners(OwnerMap, k)
      /\ VMap(q, proc', rx_proc') = CutValues(ValueMap, k)
      /\ Given(q, Used(proc', rx_proc')) /\ Slotted(q, proc')
  BY <1>1, <1>3, PopStep
<1>5. k \in -1..rx_proc
  BY ScopeFacts, FramedFacts
<1>6. S!LeaveTo(k, v)
  <2>1. /\ OMap(pool', proc', rx_proc') = CutOwners(OwnerMap, k)
        /\ VMap(pool', proc', rx_proc') = CutValues(v, k)
    BY <1>1, <1>2, <1>4
  <2> QED BY <1>5, <2>1, LeaveStep
<1>7. Kept
  BY <1>1, <1>4 DEF Kept
<1> QED BY <1>2, <1>6, <1>7 DEF S!LeaveTo

\* The routine at f, which is not the program.
LEMMA PopToFacts ==
    ASSUME ScopeInv, NEW f \in 1..rx_proc, PopTo(f)
    PROVE  /\ f \in 0..rx_proc /\ f \in Int /\ f # 0 /\ f - 1 \in 0..rx_proc /\ rx_proc' = f - 1
           /\ proc[f].calltype # "INTERPRET" /\ proc[f].calltype \in {"PROCEDURE", "FUNCTION"}
           /\ \A h \in (f + 1)..rx_proc : proc[h].calltype = "INTERPRET"
           /\ \A g \in 0..(f - 1) : proc'[g] = proc[g]
           /\ S!Routine(f) /\ f \in S!Depths /\ KindMap[f] = proc[f].calltype
<1> DEFINE k == f - 1
<1>1. Framed(proc, rx_proc, procidcnt) /\ rx_proc \in Int
  BY ScopeFacts, FramedFacts
<1>2. f \in Int /\ f # 0 /\ f \in 0..rx_proc /\ k \in -1..rx_proc /\ k \in 0..rx_proc /\ k \in Int
  BY <1>1
<1>3. /\ \A h \in (f + 1)..rx_proc : proc[h].calltype = "INTERPRET"
      /\ proc[f].calltype # "INTERPRET" /\ rx_proc' = k
      /\ proc' = [g \in Frames |-> IF g <= k THEN proc[g] ELSE NoFrame]
  <2>1. \A g \in Frames : g < f <=> g <= k
    BY <1>2 DEF Frames
  <2> QED BY <2>1 DEF PopTo
<1> HIDE DEF k
<1>4. \A g \in 0..k : proc'[g] = proc[g]
  BY <1>1, <1>2, <1>3, CutFramed
<1>5. proc[f].calltype \in {"PROCEDURE", "FUNCTION"}
  <2>1. proc[f] \in FrameType
    BY <1>1, <1>2, FramedFacts
  <2>2. proc[f].calltype \in CallTypes /\ proc[f].calltype # "PROGRAM"
    BY <1>1, <1>2, <2>1 DEF FrameType, Framed
  <2> QED BY <1>3, <2>2 DEF CallTypes
<1>6. S!Routine(f) /\ f \in S!Depths /\ KindMap[f] = proc[f].calltype
  BY <1>2, <1>3, RoutineFacts
<1> QED BY <1>2, <1>3, <1>4, <1>5, <1>6 DEF k

LEMMA ReturnFits ==
    ASSUME ScopeInv, MarksInv', Return
    PROVE  Fits
<1>1. Running /\ UNCHANGED <<pending, closing>>
  BY DEF Return
<1>2. PICK f \in 1..rx_proc :
         PopTo(f) /\ proc[f].calltype = "PROCEDURE" /\ pool' = AfterPop(f)
  BY DEF Return
<1>3. PICK k : k = f - 1
  OBVIOUS
<1>4. PICK p : p = pool
  OBVIOUS
<1>5. /\ p \in PoolType /\ Closed(p, proc, rx_proc) /\ Owned(p, proc, rx_proc) /\ Apart(pool, p)
  BY <1>4, ScopeFacts, ApartSelf
<1>6. f \in 0..rx_proc /\ f # 0 /\ f \in S!Depths \ {0} /\ S!Routine(f) /\ KindMap[f] = "PROCEDURE"
  BY <1>2, PopToFacts
<1>7. Kept /\ S!LeaveTo(k, ValueMap)
  <2>1. /\ \A h \in (f + 1)..rx_proc : proc[h].calltype = "INTERPRET"
        /\ rx_proc' = k /\ \A g \in 0..k : proc'[g] = proc[g]
    BY <1>2, <1>3, PopToFacts
  <2>2. pool' = IF f = 0 \/ proc[f].scope # proc[k].scope
                THEN ScopeFree(p, proc[f].scope, f) ELSE p
    BY <1>2, <1>3, <1>4, <1>6 DEF AfterPop
  <2> QED BY <1>1, <1>3, <1>5, <1>6, <2>1, <2>2, PopFits
<1>8. S!LeaveTo(f - 1, ValueMap)
  BY <1>3, <1>7 DEF S!LeaveTo
<1>9. S!Return
  BY <1>1, <1>2, <1>6, <1>8 DEF S!Return, S!Running, Running
<1> QED BY <1>7, <1>9 DEF Fits, S!Next

\* The variable of a remaining activation remains.
LEMMA PutCut ==
    ASSUME NEW o, NEW v, v = [f \in Frames |-> v[f]], NEW k \in Frames, NEW n \in Simple,
           o[k][n] \in Frames, o[k][n] <= k, k <= k, NEW val
    PROVE  PutAt(CutOwners(o, k), CutValues(v, k), k, n, val) = CutValues(PutAt(o, v, k, n, val), k)
<1> DEFINE l == o[k][n]
           d == [m \in Simple |-> m]
           row == [v[l] EXCEPT ![n] = val]
<1>1. CutOwners(o, k)[k][n] = l
  BY DEF CutOwners
<1>2. CutValues(v, k) = [f \in Frames |-> IF f <= k THEN v[f] ELSE d]
  BY DEF CutValues
<1>3. PutAt(CutOwners(o, k), CutValues(v, k), k, n, val)
        = [f \in Frames |-> IF f = l THEN row ELSE IF f <= k THEN v[f] ELSE d]
  <2>1. CutValues(v, k)[l] = v[l] /\ l \in Frames
    BY <1>2
  <2> HIDE DEF l, d, row
  <2>2. [CutValues(v, k) EXCEPT ![l] = row]
          = [f \in Frames |-> IF f = l THEN row ELSE IF f <= k THEN v[f] ELSE d]
    BY <1>2, <2>1
  <2>3. PutAt(CutOwners(o, k), CutValues(v, k), k, n, val) = [CutValues(v, k) EXCEPT ![l] = row]
    BY <1>1, <2>1 DEF PutAt, row
  <2> QED BY <2>2, <2>3
<1>4. PutAt(o, v, k, n, val) = [f \in Frames |-> IF f = l THEN row ELSE v[f]]
  <2>1. PutAt(o, v, k, n, val) = [v EXCEPT ![l] = row]
    BY DEF PutAt
  <2> HIDE DEF l, d, row
  <2> QED BY <2>1
<1>5. CutValues(PutAt(o, v, k, n, val), k)
        = [f \in Frames |-> IF f <= k THEN (IF f = l THEN row ELSE v[f]) ELSE d]
  <2> HIDE DEF l, row
  <2> QED BY <1>4 DEF CutValues
<1>6. l <= k
  OBVIOUS
<1> HIDE DEF l, d, row
<1> QED BY <1>3, <1>5, <1>6

LEMMA ReturnFunctionFits ==
    ASSUME ScopeInv, MarksInv', NEW val \in Data, Running, UNCHANGED <<pending, closing>>,
           NEW f \in 1..rx_proc, PopTo(f), proc[f].calltype # "PROCEDURE",
           pool' = IF proc[f].r \in pool.live
                   THEN LET q == Store(pool, proc[f].r, val)
                        IN  IF proc[f].scope # proc[f - 1].scope
                            THEN ScopeFree(q, proc[f].scope, f) ELSE q
                   ELSE AfterPop(f)
    PROVE  Fits
<1>1. PICK k : k = f - 1
  OBVIOUS
<1>2. /\ f \in 0..rx_proc /\ f # 0 /\ f \in Frames /\ f \in S!Depths \ {0} /\ S!Routine(f)
      /\ KindMap[f] = "FUNCTION"
  BY PopToFacts, ScopeFacts, FramedFacts
<1>3. PICK p : p = IF proc[f].r \in pool.live THEN Store(pool, proc[f].r, val) ELSE pool
  OBVIOUS
<1>4. /\ p \in PoolType /\ Closed(p, proc, rx_proc) /\ Owned(p, proc, rx_proc) /\ Apart(pool, p)
  <2>1. CASE p = pool
    BY <2>1, ScopeFacts, ApartSelf
  <2>2. CASE proc[f].r \in pool.live /\ p = Store(pool, proc[f].r, val)
    <3>1. val \in Text /\ pool \in PoolType /\ Used(proc, rx_proc) \subseteq Frames
          /\ Owned(pool, proc, rx_proc) /\ Sound(pool, proc, rx_proc, procidcnt)
      BY PoolConstants, ScopeFacts
    <3>2. SameShape(pool, p) /\ Quiet(pool, p)
      BY <2>2, <3>1, StoreShape, StoreQuiet
    <3>3. Keeps(pool, p, proc, rx_proc, {})
      BY <3>1, <3>2, ShapeKeeps
    <3>4. Owned(p, proc, rx_proc) /\ Sound(p, proc, rx_proc, procidcnt)
      BY <3>1, <3>2, <3>3, QuietSound DEF Keeps
    <3>5. proc[f].r \notin Variables(pool)
      BY <1>2, ScopeFacts DEF Slotted
    <3>6. Apart(pool, p)
      <4>1. p.head = pool.head
        BY <3>2 DEF SameShape
      <4>2. Writes(pool, p, {proc[f].r})
        <5>1. proc[f].r \in VarIds
          BY <2>2, <3>1 DEF PoolType
        <5> QED BY <2>2, <3>1, <5>1, StoreWrites
      <4>3. {proc[f].r} \cap Variables(pool) = {} /\ Tidy(pool)
        BY <3>5, ScopeFacts
      <4> QED BY <4>1, <4>2, <4>3, ApartHeads
    <3> QED BY <3>4, <3>6, SoundClosed DEF Sound
  <2> QED BY <1>3, <2>1, <2>2
<1>5. Kept /\ S!LeaveTo(k, ValueMap)
  <2>1. /\ \A h \in (f + 1)..rx_proc : proc[h].calltype = "INTERPRET"
        /\ rx_proc' = k /\ \A g \in 0..k : proc'[g] = proc[g]
    BY <1>1, PopToFacts
  <2>2. pool' = IF f = 0 \/ proc[f].scope # proc[k].scope
                THEN ScopeFree(p, proc[f].scope, f) ELSE p
    BY <1>1, <1>2, <1>3 DEF AfterPop
  <2> QED BY <1>1, <1>2, <1>4, <2>1, <2>2, PopFits
<1>6. S!LeaveTo(f - 1, ValueMap)
  BY <1>1, <1>5 DEF S!LeaveTo
<1>7. S!ReturnFunction
  BY <1>2, <1>6 DEF S!ReturnFunction, S!Running, Running
<1> QED BY <1>5, <1>7 DEF Fits, S!Next

\* One variable of the running frame k gets a value.
LEMMA StayOwners ==
    ASSUME NEW p, NEW q, NEW pr, NEW k, NEW cnt, Framed(pr, k, cnt), Owned(p, pr, k),
           k \in 0..k, NEW n \in Simple, NEW val,
           Sets(p, q, Used(pr, k), pr[k].scope, n, val)
    PROVE  OMap(q, pr, k) = OMap(p, pr, k)
<1>1. PICK f \in 0..k : f = k
  OBVIOUS
<1>2. PICK rx : rx = k
  OBVIOUS
<1>3. /\ OMap(q, pr, rx) = OMap(p, pr, rx)
      /\ VMap(q, pr, rx) = PutAt(OMap(p, pr, rx), VMap(p, pr, rx), f, n, val)
  <2>1. /\ Sets(p, q, Used(pr, rx), pr[f].scope, n, val) /\ Framed(pr, rx, cnt)
        /\ Owned(p, pr, rx) /\ f \in 0..rx
    BY <1>1, <1>2
  <2> QED BY <2>1, SetsMaps
<1> QED BY <1>2, <1>3

LEMMA StayValues ==
    ASSUME NEW p, NEW q, NEW pr, NEW k, NEW cnt, Framed(pr, k, cnt), Owned(p, pr, k),
           k \in 0..k, NEW n \in Simple, NEW val,
           Sets(p, q, Used(pr, k), pr[k].scope, n, val)
    PROVE  VMap(q, pr, k) = PutAt(OMap(p, pr, k), VMap(p, pr, k), k, n, val)
<1>1. PICK f \in 0..k : f = k
  OBVIOUS
<1>2. PICK rx : rx = k
  OBVIOUS
<1>3. /\ OMap(q, pr, rx) = OMap(p, pr, rx)
      /\ VMap(q, pr, rx) = PutAt(OMap(p, pr, rx), VMap(p, pr, rx), f, n, val)
  <2>1. /\ Sets(p, q, Used(pr, rx), pr[f].scope, n, val) /\ Framed(pr, rx, cnt)
        /\ Owned(p, pr, rx) /\ f \in 0..rx
    BY <1>1, <1>2
  <2> QED BY <2>1, SetsMaps
<1>4. VMap(q, pr, k) = PutAt(OMap(p, pr, k), VMap(p, pr, k), f, n, val)
  BY <1>2, <1>3
<1> QED BY <1>1, <1>4

\* RESULT is the caller's, as the caller sees it.
LEMMA ReturnValueFits ==
    ASSUME ScopeInv, MarksInv', NEW val \in Data, Running, Room, UNCHANGED <<pending, closing>>,
           NEW f \in 1..rx_proc, PopTo(f), proc[f].calltype = "PROCEDURE",
           pool' = VarSet(AfterPop(f), proc[f - 1].id, proc[f - 1].scope, Result, val, Fresh[1])
    PROVE  Fits
<1>1. PICK k : k = f - 1
  OBVIOUS
<1>2. PICK a : a = AfterPop(f)
  OBVIOUS
<1>3. PICK p : p = pool
  OBVIOUS
<1>4. PICK pr2 : pr2 = proc'
  OBVIOUS
<1>5. PICK q : q = pool'
  OBVIOUS
<1>6. PICK cnt2 : cnt2 = procidcnt'
  OBVIOUS
<1>7. /\ f \in 0..rx_proc /\ f # 0 /\ f \in S!Depths \ {0} /\ S!Routine(f)
      /\ KindMap[f] = "PROCEDURE" /\ k \in 0..rx_proc
      /\ \A h \in (f + 1)..rx_proc : proc[h].calltype = "INTERPRET"
      /\ rx_proc' = k /\ \A g \in 0..k : pr2[g] = proc[g]
  BY <1>1, <1>4, PopToFacts
<1>8. /\ Framed(proc, rx_proc, procidcnt) /\ Sound(pool, proc, rx_proc, procidcnt)
      /\ Owned(pool, proc, rx_proc) /\ pool \in PoolType /\ Closed(pool, proc, rx_proc)
  BY ScopeFacts
<1>9. a = IF proc[f].scope # proc[f - 1].scope THEN ScopeFree(pool, proc[f].scope, f) ELSE pool
  BY <1>2 DEF AfterPop
<1>10. /\ k \in 0..k /\ Framed(pr2, k, procidcnt) /\ Sound(a, pr2, k, procidcnt)
       /\ pr2[k] = proc[k]
  BY <1>1, <1>4, <1>8, <1>9, PopFacts
<1>11. Owned(a, pr2, k) /\ Unused(a, Fresh[1])
  <2>1. Owned(a, proc', f - 1) /\ \A x : Unused(pool, x) => Unused(a, x)
    BY <1>8, <1>9, PopMarks DEF ScopeInv
  <2> QED BY <1>1, <1>4, <2>1, FreshFacts
<1>12. a \in PoolType /\ Tidy(a)
  BY <1>11 DEF Owned, Tidy
<1>13. /\ OMap(a, pr2, k) = CutOwners(OwnerMap, k) /\ VMap(a, pr2, k) = CutValues(ValueMap, k)
       /\ Given(a, Used(pr2, k)) /\ Slotted(a, pr2) /\ Variables(a) \subseteq Variables(pool)
  <2>1. /\ p \in PoolType /\ Closed(p, proc, rx_proc) /\ Owned(p, proc, rx_proc) /\ Apart(pool, p)
        /\ \A g \in 0..k : proc'[g] = proc[g]
    BY <1>3, <1>4, <1>7, <1>8, ApartSelf
  <2>2. a = IF f = 0 \/ proc[f].scope # proc[k].scope THEN ScopeFree(p, proc[f].scope, f) ELSE p
    BY <1>1, <1>3, <1>7, <1>9
  <2>3. /\ OMap(a, proc', rx_proc') = CutOwners(OwnerMap, k)
        /\ VMap(a, proc', rx_proc') = CutValues(ValueMap, k)
        /\ Given(a, Used(proc', rx_proc')) /\ Slotted(a, proc')
        /\ Variables(a) \subseteq Variables(pool)
    BY <1>1, <1>7, <1>12, <2>1, <2>2, PopStep
  <2> QED BY <1>4, <1>7, <2>3
<1>14. /\ pr2[k].id \in IdRange /\ pr2[k].id # NoCache /\ pr2[k].scope \in Frames
       /\ CoherentIn(a, pr2[k].id, pr2[k].scope) /\ Used(pr2, k) \subseteq Frames
       /\ pr2[k].scope \in Used(pr2, k) /\ k \in Frames
  BY <1>10, FramedId, UsedFrames DEF Sound, Used
<1>15. Result \in Simple /\ val \in Text /\ val \in Data \cup {Result}
  BY PoolConstants
<1>16. q = VarSet(a, pr2[k].id, pr2[k].scope, Result, val, Fresh[1])
  BY <1>1, <1>2, <1>5, <1>10
<1>17. /\ Sets(a, q, Used(pr2, k), pr2[k].scope, Result, val)
       /\ Variables(q) \subseteq Variables(a) \cup {Fresh[1]}
  BY <1>11, <1>12, <1>14, <1>15, <1>16, VarSetSets
<1>18. /\ OMap(q, pr2, k) = OMap(a, pr2, k)
       /\ VMap(q, pr2, k) = PutAt(OMap(a, pr2, k), VMap(a, pr2, k), k, Result, val)
  <2>1. OMap(q, pr2, k) = OMap(a, pr2, k)
    BY <1>10, <1>11, <1>15, <1>17, StayOwners
  <2>2. VMap(q, pr2, k) = PutAt(OMap(a, pr2, k), VMap(a, pr2, k), k, Result, val)
    BY <1>10, <1>11, <1>15, <1>17, StayValues
  <2> QED BY <2>1, <2>2
<1>19. Given(q, Used(pr2, k))
  BY <1>13, <1>14, <1>15, <1>17, SetsGiven
<1>20. Slotted(q, pr2)
  <2>1. \A g \in Frames : pr2[g].r \notin {Fresh[1]}
    <3>1. \A g \in Frames : pr2[g] = NoFrame \/ (g \in 0..k /\ pr2[g] = proc[g])
      BY <1>7, <1>10 DEF Framed
    <3>2. NoFrame.r = Nil /\ Fresh[1] # Nil
      BY <1>11, PoolConstants DEF NoFrame, Unused
    <3>3. \A g \in Frames : proc[g].r # Fresh[1]
      BY FreshFacts
    <3> QED BY <3>1, <3>2, <3>3
  <2> QED BY <1>13, <1>17, <2>1 DEF Slotted
<1>21. Kept
  BY <1>4, <1>5, <1>7, <1>19, <1>20 DEF Kept
<1>22. OwnerMap[k][Result] \in Frames /\ OwnerMap[k][Result] <= k
  <2>1. OwnerMap = OMap(pool, proc, rx_proc) /\ k \in 0..rx_proc /\ proc[k].scope \in Used(proc, rx_proc)
    BY <1>7, ScopeFacts DEF Used
  <2> DEFINE G == Group(pool, Used(proc, rx_proc), proc[k].scope, Result)
  <2>2. OwnerMap[k][Result] = Lead(G)
    BY <1>14, <1>15, <2>1 DEF OMap
  <2>3. Lead(G) \in G /\ \A h \in G : Lead(G) <= h
    BY <1>8, <1>15, <2>1, LeadFacts
  <2>4. proc[k].scope \in G /\ G \subseteq Frames
    BY <2>1, ScopeFacts DEF Group
  <2> HIDE DEF G
  <2>5. Lead(G) \in Frames /\ Lead(G) <= proc[k].scope
    BY <2>3, <2>4
  <2>6. proc[k].scope <= k /\ proc[k].scope \in Int /\ k \in Int /\ \A g \in Frames : g \in Int
    BY <1>8, <2>1, FramedFacts DEF Frames
  <2> QED BY <2>2, <2>5, <2>6
<1>23. PICK o : o = OwnerMap
  OBVIOUS
<1>24. PICK v : v = ValueMap
  OBVIOUS
<1>25. PICK w : w = PutAt(o, v, k, Result, val)
  OBVIOUS
<1>26. /\ OMap(q, pr2, k) = CutOwners(o, k)
       /\ VMap(q, pr2, k) = CutValues(w, k)
  <2>1. v = [g \in Frames |-> v[g]]
    BY <1>24 DEF ValueMap
  <2>2. o[k][Result] \in Frames /\ o[k][Result] <= k /\ k <= k
    BY <1>14, <1>22, <1>23 DEF Frames
  <2>3. PutAt(CutOwners(o, k), CutValues(v, k), k, Result, val) = CutValues(w, k)
    BY <1>14, <1>15, <1>25, <2>1, <2>2, PutCut
  <2> QED BY <1>13, <1>18, <1>23, <1>24, <2>3
<1>27. S!LeaveTo(k, w)
  <2>1. /\ OMap(pool', proc', rx_proc') = CutOwners(OwnerMap, k)
        /\ VMap(pool', proc', rx_proc') = CutValues(w, k)
        /\ k \in -1..rx_proc /\ \A g \in 0..k : proc'[g] = proc[g]
    BY <1>4, <1>5, <1>7, <1>8, <1>23, <1>26, FramedFacts
  <2> QED BY <1>7, <2>1, LeaveStep
<1>28. S!LeaveTo(f - 1, S!Put(f - 1, Result, val))
  BY <1>1, <1>23, <1>24, <1>25, <1>27 DEF S!LeaveTo, S!Put, PutAt
<1>29. S!ReturnValue(val)
  BY <1>7, <1>28 DEF S!ReturnValue, S!Running, Running
<1> QED BY <1>21, <1>29 DEF Fits, S!Next

LEMMA ReturnFFits ==
    ASSUME ScopeInv, MarksInv', NEW val \in Data, ReturnF(val)
    PROVE  Fits
<1>1. Running /\ Room /\ UNCHANGED <<pending, closing>>
  BY DEF ReturnF
<1>2. PICK f \in 1..rx_proc :
         /\ PopTo(f)
         /\ pool' =
              IF proc[f].calltype = "PROCEDURE"
              THEN VarSet(AfterPop(f), proc[f - 1].id, proc[f - 1].scope,
                          Result, val, Fresh[1])
              ELSE IF proc[f].r \in pool.live
                   THEN LET q == Store(pool, proc[f].r, val)
                        IN  IF proc[f].scope # proc[f - 1].scope
                            THEN ScopeFree(q, proc[f].scope, f) ELSE q
                   ELSE AfterPop(f)
  BY DEF ReturnF
<1>3. CASE proc[f].calltype = "PROCEDURE"
  BY <1>1, <1>2, <1>3, ReturnValueFits
<1>4. CASE proc[f].calltype # "PROCEDURE"
  BY <1>1, <1>2, <1>4, ReturnFunctionFits
<1> QED BY <1>3, <1>4

\* The end of the activations, after EXIT.
LEMMA UnwindFits ==
    ASSUME ScopeInv, MarksInv', Unwind
    PROVE  Fits
<1>1. /\ closing /\ rx_proc >= 0 /\ rx_proc' = rx_proc - 1
      /\ UNCHANGED <<procidcnt, pending, closing>>
      /\ proc' = [proc EXCEPT ![rx_proc] = NoFrame]
      /\ pool' = IF rx_proc = 0 \/ proc[rx_proc].scope # proc[rx_proc - 1].scope
                 THEN ScopeFree(pool, Scope, rx_proc) ELSE pool
  BY DEF Unwind
<1>2. PICK f \in 0..rx_proc : f = rx_proc
  BY <1>1, RunFacts
<1>3. PICK k : k = rx_proc - 1
  OBVIOUS
<1>4. PICK p : p = pool
  OBVIOUS
<1>5. /\ p \in PoolType /\ Closed(p, proc, rx_proc) /\ Owned(p, proc, rx_proc) /\ Apart(pool, p)
      /\ Framed(proc, rx_proc, procidcnt) /\ rx_proc \in Int
  BY <1>4, ScopeFacts, FramedFacts, ApartSelf
<1>6. \A g \in 0..(rx_proc - 1) : proc'[g] = proc[g]
  BY <1>1, <1>5, PopOne
<1>7. Kept /\ S!LeaveTo(k, ValueMap)
  <2>1. /\ \A h \in (f + 1)..rx_proc : proc[h].calltype = "INTERPRET"
        /\ k = f - 1 /\ rx_proc' = k /\ \A g \in 0..k : proc'[g] = proc[g]
    BY <1>1, <1>2, <1>3, <1>5, <1>6
  <2>2. pool' = IF f = 0 \/ proc[f].scope # proc[k].scope
                THEN ScopeFree(p, proc[f].scope, f) ELSE p
    BY <1>1, <1>2, <1>3, <1>4 DEF Scope
  <2> QED BY <1>1, <1>5, <2>1, <2>2, PopFits
<1>8. S!End
  BY <1>1, <1>3, <1>7 DEF S!End, S!LeaveTo
<1> QED BY <1>7, <1>8 DEF Fits, S!Next

-----------------------------------------------------------------------------
(* The theorem.                                                            *)

LEMMA InitScope == Init => ScopeInv /\ S!Init
<1> SUFFICES ASSUME Init PROVE ScopeInv /\ S!Init
  OBVIOUS
<1>1. MarksInv /\ IInv
  BY InitMarks, MarksFacts
<1>2. /\ \A s \in Frames, n \in Names : pool.head[s][n] = Nil
      /\ rx_proc = 0 /\ pending = << >> /\ closing = FALSE
      /\ \A f \in Frames : proc[f].scope = 0 /\ proc[f].calltype = "PROGRAM"
  <2>1. \A s \in Frames : pool.head[s] = NoHeads
    BY DEF Init
  <2>2. \A f \in Frames : proc[f] = NoFrame \/ proc[f] = [NoFrame EXCEPT !.id = 1]
    BY DEF Init
  <2>3. /\ NoFrame.scope = 0 /\ NoFrame.calltype = "PROGRAM"
        /\ [NoFrame EXCEPT !.id = 1].scope = 0 /\ [NoFrame EXCEPT !.id = 1].calltype = "PROGRAM"
    BY DEF NoFrame
  <2>4. \A f \in Frames : proc[f].scope = 0 /\ proc[f].calltype = "PROGRAM"
    BY <2>2, <2>3
  <2> QED BY <2>1, <2>4 DEF Init, NoHeads
<1>3. 0..rx_proc = {0} /\ 0 \in Frames
  BY <1>2, PoolConstants DEF Frames
<1>4. \A n \in Simple, s \in Frames : pool.head[s][n] = Nil
  BY <1>2 DEF Names
<1>5. Given(pool, Used(proc, rx_proc))
  <2>1. Used(proc, rx_proc) \subseteq Frames
    BY <1>1, MarksFacts
  <2> QED BY <1>4, <2>1 DEF Given, View
<1>6. Slotted(pool, proc)
  <2>1. Variables(pool) = {}
    BY <1>4 DEF Variables
  <2> QED BY <2>1 DEF Slotted
<1>7. OwnerMap = [f \in Frames |-> [n \in Simple |-> f]]
  <2>1. ASSUME NEW f \in Frames, NEW n \in Simple
        PROVE  (IF f \in Active THEN OwnerOf(proc[f].scope, n) ELSE f) = f
    <3>1. OwnerOf(0, n) = 0
      BY <1>3, <1>4 DEF OwnerOf
    <3>2. f \in Active => f = 0 /\ proc[f].scope = 0
      BY <1>2, <1>3 DEF Active
    <3> QED BY <3>1, <3>2
  <2> QED BY <2>1 DEF OwnerMap
<1>8. ValueMap = [f \in Frames |-> [n \in Simple |-> n]]
  BY <1>4 DEF ValueMap
<1>9. KindMap = [f \in Frames |-> "PROGRAM"]
  BY <1>2 DEF KindMap
<1>10. S!Init
  <2>1. S!Depths = Frames
    BY DEF S!Depths, Frames
  <2> QED BY <1>2, <1>7, <1>8, <1>9, <2>1 DEF S!Init, S!Own, S!Unset, S!Idle
<1> QED BY <1>1, <1>5, <1>6, <1>10 DEF ScopeInv

LEMMA NextScope ==
    ListsSimple /\ ResultsCompound /\ NullUngiven /\ ScopeInv /\ [Next]_vars
      => ScopeInv' /\ [S!Next]_(S!vars)
<1> SUFFICES ASSUME ListsSimple, ResultsCompound, NullUngiven, ScopeInv, [Next]_vars
             PROVE  ScopeInv' /\ [S!Next]_(S!vars)
  OBVIOUS
<1>0. MarksInv'
  BY NextMarks DEF ScopeInv
<1>1. ASSUME NEW r \in Lits, Load(r) PROVE Fits
  BY <1>0, <1>1, LoadFits
<1>2. ASSUME NEW r \in Lits, DropVar(r) PROVE Fits
  BY <1>0, <1>2, DropVarFits
<1>3. ASSUME NEW r \in Lits, NEW val \in Data, Assign(r, val) PROVE Fits
  BY <1>0, <1>3, AssignFits
<1>4. ASSUME NEW ws \in DropLists, DropList(ws) PROVE Fits
  BY <1>0, <1>4, DropListFits
<1>5. ASSUME DropNext PROVE Fits
  BY <1>0, <1>5, DropNextFits
<1>6. ASSUME NEW k \in 0..rx_proc, NEW r \in PoolNames, NEW val \in Data,
             PoolSet(k, r, val)
      PROVE  Fits
  BY <1>0, <1>6, PoolSetFits
<1>7. ASSUME NEW line \in Data, Signal(line) PROVE Fits
  BY <1>0, <1>7, SignalFits
<1>8. ASSUME NEW kind \in {"FUNCTION", "PROCEDURE"}, NEW target \in Targets \cup {Nil},
             NEW line \in Data, CallShared(kind, target, line)
      PROVE  Fits
  BY <1>0, <1>8, CallSharedFits
<1>9. ASSUME NEW kind \in {"FUNCTION", "PROCEDURE"}, NEW target \in Targets \cup {Nil},
             NEW line \in Data, NEW list \in ExposeLists,
             CallProcedure(kind, target, line, list)
      PROVE  Fits
  BY <1>0, <1>9, CallProcedureFits
<1>10. ASSUME ExposeNext \/ ExposeIndirect PROVE Fits
  BY <1>0, <1>10, ExposeNextFits, ExposeIndirectFits
<1>11. ASSUME Interpret \/ InterEnd PROVE Fits
  BY <1>0, <1>11, InterpretFits, InterEndFits
<1>12. ASSUME Return PROVE Fits
  BY <1>0, <1>12, ReturnFits
<1>13. ASSUME NEW val \in Data, ReturnF(val) PROVE Fits
  BY <1>0, <1>13, ReturnFFits
<1>14. ASSUME Exit \/ Unwind PROVE Fits
  BY <1>0, <1>14, ExitFits, UnwindFits
<1>15. ASSUME UNCHANGED vars PROVE Fits
  <2>1. UNCHANGED <<proc, rx_proc, procidcnt, closing>> /\ Apart(pool, pool')
    BY <1>15, ApartSelf DEF vars
  <2>2. Opening' <=> Opening
    BY <1>15 DEF vars, Opening
  <2> QED BY <1>0, <2>1, <2>2, StutterStep
<1>16. ASSUME NEW line \in Data, NEW target \in Targets \cup {Nil},
              \/ Trap(target, line)
              \/ CallShared("FUNCTION", target, line)
              \/ \E list \in ExposeLists : CallProcedure("FUNCTION", target, line, list)
       PROVE  Fits
  BY <1>0, <1>8, <1>9, <1>16, TrapFits
<1>17. ASSUME NEW line \in Data,
              \/ CallShared("PROCEDURE", Nil, line)
              \/ \E list \in ExposeLists : CallProcedure("PROCEDURE", Nil, line, list)
       PROVE  Fits
  <2>1. Nil \in Targets \cup {Nil}
    OBVIOUS
  <2> QED BY <1>8, <1>9, <1>17, <2>1
<1>18. ASSUME Next PROVE Fits
  BY <1>1, <1>2, <1>3, <1>4, <1>5, <1>6, <1>7, <1>10, <1>11, <1>12, <1>13,
     <1>14, <1>16, <1>17, <1>18, Zenon DEF Next
<1>19. Fits
  BY <1>15, <1>18
<1> QED BY <1>0, <1>19 DEF ScopeInv, Fits, Kept

\* Every run of the interpreter is one of the abstract scoping on simple
\* variables: a name is the variable of its own activation after PROCEDURE,
\* the caller's after EXPOSE and in a routine without PROCEDURE, and the
\* objects, their marks and the caches of RxVarFind, RxVarExpose, RxVarFree,
\* I_CallFunction and I_ReturnProc never make it another one, or give it a
\* value that was not assigned, at any depth and for any program whose
\* parenthesised lists name simple variables (ListsSimple), whose function
\* results go to compound variables or to temporaries (ResultsCompound), and
\* that has no way to assign the mark of a value never given (NullUngiven).
THEOREM ScopingKept ==
    ListsSimple /\ ResultsCompound /\ NullUngiven => (Spec => Scoped)
<1> SUFFICES ASSUME ListsSimple, ResultsCompound, NullUngiven PROVE Spec => Scoped
  OBVIOUS
<1>1. Init => ScopeInv /\ S!Init
  BY InitScope
<1>2. ScopeInv /\ [Next]_vars => ScopeInv' /\ [S!Next]_(S!vars)
  BY NextScope
<1> QED BY <1>1, <1>2, PTL DEF Spec, Scoped, S!Spec
==============================================================================
