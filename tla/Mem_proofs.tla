----------------------------- MODULE Mem_proofs -----------------------------
(***************************************************************************)
(* The list of blocks can be walked and cut, for any addresses and sizes.  *)
(*                                                                         *)
(* Linked is not inductive: two blocks that point at each other, apart     *)
(* from the rest, satisfy it, and freeing one of them breaks it.  What     *)
(* excludes them is that the blocks in use can be put in one row, in the   *)
(* order in which they were made, with the head last: Listed.  A freed     *)
(* block leaves the row and one that moves keeps its place in it.          *)
(***************************************************************************)
EXTENDS Mem, TLAPS

MemType ==
    mem \in [used  : SUBSET Block,
             next  : [Block -> Block \cup {Null}],
             prev  : [Block -> Block \cup {Null}],
             head  : Block \cup {Null},
             size  : [Block -> Nat],
             total : Int]

\* The row f of n blocks is the list of m.
Row(n, f, m) ==
    /\ \A i \in 1..n : f[i] \in m.used
    /\ \A x \in m.used : \E i \in 1..n : f[i] = x
    /\ \A i, j \in 1..n : f[i] = f[j] => i = j
    /\ m.head = IF n = 0 THEN Null ELSE f[n]
    /\ \A i \in 1..n : /\ m.next[f[i]] = IF i = n THEN Null ELSE f[i + 1]
                       /\ m.prev[f[i]] = IF i = 1 THEN Null ELSE f[i - 1]

Listed == \E n \in Nat : \E f \in [1..n -> Block] : Row(n, f, mem)

MemInv == MemType /\ Listed

LEMMA InitInv == MemInit => MemInv
<1> SUFFICES ASSUME MemInit PROVE MemInv
  OBVIOUS
<1>1. MemType
  BY DEF MemInit, MemType
<1>2. Listed
  <2>1. PICK f : f \in [1..0 -> Block]
    <3>1. [i \in 1..0 |-> Null] \in [1..0 -> Block]
      OBVIOUS
    <3> QED
      BY <3>1
  <2>2. Row(0, f, mem)
    BY DEF MemInit, Row
  <2> QED
    BY <2>1, <2>2 DEF Listed
<1> QED
  BY <1>1, <1>2 DEF MemInv

\* A new block is put after the head.
LEMMA MallocInv ==
    ASSUME MemInv, NEW b \in Block \ mem.used, NEW s \in Nat, mem' = mem_malloc(mem, b, s)
    PROVE  MemInv'
<1> USE NullAssumption
<1>1. MemType'
  BY DEF MemInv, MemType, mem_malloc
<1>2. Listed'
  <2>a. PICK n \in Nat : \E f \in [1..n -> Block] : Row(n, f, mem)
    BY DEF MemInv, Listed
  <2>1. PICK f \in [1..n -> Block] : Row(n, f, mem)
    BY <2>a
  <2> DEFINE g == [i \in 1..(n + 1) |-> IF i = n + 1 THEN b ELSE f[i]]
  <2>2. g \in [1..(n + 1) -> Block]
    BY DEF MemInv, MemType
  <2>3. \A i \in 1..n : g[i] = f[i] /\ f[i] # b /\ f[i] \in mem.used /\ f[i] \in Block
    BY <2>1 DEF Row
  <2>4. g[n + 1] = b
    OBVIOUS
  <2> HIDE DEF g
  <2>5. /\ \A i \in 1..(n + 1) : g[i] \in mem'.used
        /\ \A x \in mem'.used : \E i \in 1..(n + 1) : g[i] = x
    <3>1. mem'.used = mem.used \cup {b}
      BY DEF mem_malloc
    <3>2. \A i \in 1..(n + 1) : g[i] \in mem'.used
      BY <2>3, <2>4, <3>1
    <3>3. \A x \in mem.used : \E i \in 1..n : f[i] = x
      BY <2>1 DEF Row
    <3>4. \A x \in mem'.used : \E i \in 1..(n + 1) : g[i] = x
      BY <2>3, <2>4, <3>1, <3>3
    <3> QED
      BY <3>2, <3>4
  <2>6. \A i, j \in 1..(n + 1) : g[i] = g[j] => i = j
    BY <2>1, <2>3, <2>4 DEF Row
  <2>7. mem'.head = g[n + 1]
    BY <2>4 DEF mem_malloc
  <2>8. ASSUME NEW i \in 1..(n + 1)
        PROVE  /\ mem'.next[g[i]] = IF i = n + 1 THEN Null ELSE g[i + 1]
               /\ mem'.prev[g[i]] = IF i = 1 THEN Null ELSE g[i - 1]
    <3>1. mem.head = IF n = 0 THEN Null ELSE f[n]
      BY <2>1 DEF Row
    <3>2. CASE i = n + 1
      BY <2>2, <2>3, <2>4, <3>1, <3>2 DEF mem_malloc, MemInv, MemType
    <3>3. CASE i \in 1..n
      <4>1. /\ mem.next[f[i]] = IF i = n THEN Null ELSE f[i + 1]
            /\ mem.prev[f[i]] = IF i = 1 THEN Null ELSE f[i - 1]
            /\ mem.head = f[i] <=> i = n
        BY <2>1, <3>1, <3>3 DEF Row
      <4> QED
        BY <2>2, <2>3, <2>4, <3>3, <4>1 DEF mem_malloc, MemInv, MemType
    <3> QED
      BY <3>2, <3>3
  <2>9. Row(n + 1, g, mem')
    BY <2>5, <2>6, <2>7, <2>8 DEF Row
  <2> QED
    BY <2>2, <2>9 DEF Listed
<1> QED
  BY <1>1, <1>2 DEF MemInv

\* The neighbours of a freed block become each other's.
LEMMA FreeInv ==
    ASSUME MemInv, NEW b \in mem.used, mem' = mem_free(mem, b)
    PROVE  MemInv'
<1> USE NullAssumption
<1>1. MemType'
  BY DEF MemInv, MemType, mem_free
<1>2. Listed'
  <2>a. PICK n \in Nat : \E f \in [1..n -> Block] : Row(n, f, mem)
    BY DEF MemInv, Listed
  <2>1. PICK f \in [1..n -> Block] : Row(n, f, mem)
    BY <2>a
  <2>2. PICK k \in 1..n : f[k] = b
    BY <2>1 DEF Row
  <2> DEFINE g == [i \in 1..(n - 1) |-> IF i < k THEN f[i] ELSE f[i + 1]]
  <2>3. n - 1 \in Nat /\ g \in [1..(n - 1) -> Block]
    BY <2>2
  <2>4. \A i \in 1..(n - 1) : g[i] = IF i < k THEN f[i] ELSE f[i + 1]
    OBVIOUS
  <2> HIDE DEF g
  <2>5. \A i, j \in 1..n : f[i] = f[j] => i = j
    BY <2>1 DEF Row
  <2>6. /\ \A i \in 1..(n - 1) : g[i] \in mem'.used
        /\ \A x \in mem'.used : \E i \in 1..(n - 1) : g[i] = x
    <3>1. mem'.used = mem.used \ {f[k]}
      BY <2>2 DEF mem_free
    <3>2. ASSUME NEW i \in 1..(n - 1) PROVE g[i] \in mem'.used
      BY <2>1, <2>2, <2>4, <2>5, <3>1 DEF Row
    <3>3. ASSUME NEW x \in mem'.used PROVE \E i \in 1..(n - 1) : g[i] = x
      <4>1. PICK j \in 1..n : f[j] = x /\ j # k
        BY <2>1, <3>1 DEF Row
      <4>2. CASE j < k
        BY <2>4, <4>1, <4>2
      <4>3. CASE j > k
        <5>1. j - 1 \in 1..(n - 1) /\ ~(j - 1 < k) /\ (j - 1) + 1 = j
          BY <4>3
        <5> QED
          BY <2>4, <4>1, <5>1
      <4> QED
        BY <4>1, <4>2, <4>3
    <3> QED
      BY <3>2, <3>3
  <2>7. \A i, j \in 1..(n - 1) : g[i] = g[j] => i = j
    BY <2>4, <2>5
  <2>8. /\ mem.head = f[n]
        /\ \A i \in 1..n : /\ mem.next[f[i]] = IF i = n THEN Null ELSE f[i + 1]
                           /\ mem.prev[f[i]] = IF i = 1 THEN Null ELSE f[i - 1]
                           /\ f[i] \in Block /\ f[i] # Null
    BY <2>1, <2>2 DEF Row
  <2>9. mem'.head = IF n - 1 = 0 THEN Null ELSE g[n - 1]
    <3>1. mem'.head = IF f[n] = f[k] THEN mem.prev[f[k]] ELSE f[n]
      BY <2>2, <2>8 DEF mem_free
    <3> QED
      BY <2>4, <2>5, <2>8, <3>1
  <2>10. ASSUME NEW i \in 1..(n - 1)
         PROVE  /\ mem'.next[g[i]] = IF i = n - 1 THEN Null ELSE g[i + 1]
                /\ mem'.prev[g[i]] = IF i = 1 THEN Null ELSE g[i - 1]
    <3>1. \A x \in Block :
            /\ mem'.next[x] = IF x = f[k] THEN Null ELSE IF x = mem.prev[f[k]] THEN mem.next[f[k]]
                              ELSE mem.next[x]
            /\ mem'.prev[x] = IF x = f[k] THEN Null ELSE IF x = mem.next[f[k]] THEN mem.prev[f[k]]
                              ELSE mem.prev[x]
      BY <2>2 DEF mem_free
    <3>2. CASE i < k
      <4>1. g[i] = f[i] /\ i # k /\ i \in 1..n /\ i # n
        BY <2>4, <3>2
      <4>2. mem'.next[f[i]] = IF i = k - 1 THEN mem.next[f[k]] ELSE f[i + 1]
        BY <2>5, <2>8, <3>1, <3>2, <4>1
      <4>3. mem'.prev[f[i]] = mem.prev[f[i]]
        <5>1. f[i] # f[k] /\ f[i] # mem.next[f[k]]
          BY <2>5, <2>8, <3>2, <4>1
        <5> QED
          BY <2>8, <3>1, <4>1, <5>1
      <4>4. mem.next[f[k]] = IF k = n THEN Null ELSE f[k + 1]
        BY <2>8
      <4>5. mem.prev[f[i]] = IF i = 1 THEN Null ELSE f[i - 1]
        BY <2>8, <4>1
      <4>6. /\ i # n - 1 => g[i + 1] = IF i + 1 < k THEN f[i + 1] ELSE f[i + 2]
            /\ i # 1 => g[i - 1] = f[i - 1]
        BY <2>4, <3>2
      <4>7. mem'.next[f[i]] = IF i = n - 1 THEN Null ELSE g[i + 1]
        BY <3>2, <4>2, <4>4, <4>6
      <4> QED
        BY <4>1, <4>3, <4>5, <4>6, <4>7
    <3>3. CASE ~(i < k)
      <4>1. g[i] = f[i + 1] /\ i + 1 # k /\ i + 1 \in 1..n /\ (i + 1) - 1 = i
        BY <2>4, <3>3
      <4>2. mem'.next[f[i + 1]] = mem.next[f[i + 1]]
        BY <2>5, <2>8, <3>1, <3>3, <4>1
      <4>3. mem'.prev[f[i + 1]] = IF i = k THEN mem.prev[f[k]] ELSE f[i]
        <5>1. f[i + 1] # f[k] /\ (f[i + 1] = mem.next[f[k]] <=> i = k)
          BY <2>5, <2>8, <3>3, <4>1
        <5>2. mem.prev[f[i + 1]] = f[i] /\ f[i + 1] \in Block
          BY <2>8, <4>1
        <5> QED
          BY <3>1, <5>1, <5>2
      <4>4. mem.prev[f[k]] = IF k = 1 THEN Null ELSE f[k - 1]
        BY <2>8
      <4>5. mem.next[f[i + 1]] = IF i + 1 = n THEN Null ELSE f[(i + 1) + 1]
        BY <2>8, <4>1
      <4>6. /\ i # n - 1 => g[i + 1] = f[(i + 1) + 1]
            /\ i # 1 => g[i - 1] = IF i - 1 < k THEN f[i - 1] ELSE f[(i - 1) + 1]
            /\ (i - 1) + 1 = i
        BY <2>4, <3>3
      <4>7. mem'.prev[f[i + 1]] = IF i = 1 THEN Null ELSE g[i - 1]
        BY <3>3, <4>3, <4>4, <4>6
      <4> QED
        BY <4>1, <4>2, <4>5, <4>6, <4>7
    <3> QED
      BY <3>2, <3>3
  <2>11. Row(n - 1, g, mem')
    BY <2>6, <2>7, <2>9, <2>10 DEF Row
  <2> QED
    BY <2>3, <2>11 DEF Listed
<1> QED
  BY <1>1, <1>2 DEF MemInv

\* A block that moves takes its place in the list along.
LEMMA ReallocInv ==
    ASSUME MemInv, NEW b \in mem.used, NEW s \in Nat, NEW c \in (Block \ mem.used) \cup {b},
           mem' = mem_realloc(mem, b, c, s)
    PROVE  MemInv'
<1> USE NullAssumption
<1>1. MemType'
  BY DEF MemInv, MemType, mem_realloc, Moved
<1>2. Listed'
  <2>a. PICK n \in Nat : \E f \in [1..n -> Block] : Row(n, f, mem)
    BY DEF MemInv, Listed
  <2>1. PICK f \in [1..n -> Block] : Row(n, f, mem)
    BY <2>a
  <2>2. PICK k \in 1..n : f[k] = b
    BY <2>1 DEF Row
  <2> DEFINE g == [f EXCEPT ![k] = c]
  <2>3. g \in [1..n -> Block]
    BY DEF MemInv, MemType
  <2>4. \A i \in 1..n : g[i] = IF i = k THEN c ELSE f[i]
    OBVIOUS
  <2> HIDE DEF g
  <2>5. /\ \A i, j \in 1..n : f[i] = f[j] => i = j
        /\ \A i \in 1..n : f[i] = c => i = k
    BY <2>1, <2>2 DEF Row
  <2>6. /\ \A i \in 1..n : g[i] \in mem'.used
        /\ \A x \in mem'.used : \E i \in 1..n : g[i] = x
    <3>1. mem'.used = (mem.used \ {f[k]}) \cup {c}
      BY <2>2 DEF mem_realloc, Moved
    <3> QED
      BY <2>1, <2>4, <2>5, <3>1 DEF Row
  <2>7. \A i, j \in 1..n : g[i] = g[j] => i = j
    BY <2>4, <2>5
  <2>8. /\ mem.head = f[n]
        /\ \A i \in 1..n : /\ mem.next[f[i]] = IF i = n THEN Null ELSE f[i + 1]
                           /\ mem.prev[f[i]] = IF i = 1 THEN Null ELSE f[i - 1]
                           /\ f[i] \in Block /\ f[i] # Null
    BY <2>1, <2>2 DEF Row
  <2>9. mem'.head = IF n = 0 THEN Null ELSE g[n]
    <3>1. mem'.head = IF f[n] = f[k] THEN c ELSE f[n]
      BY <2>2, <2>8 DEF mem_realloc, Moved
    <3> QED
      BY <2>4, <2>5, <3>1
  <2>10. ASSUME NEW i \in 1..n
         PROVE  /\ mem'.next[g[i]] = IF i = n THEN Null ELSE g[i + 1]
                /\ mem'.prev[g[i]] = IF i = 1 THEN Null ELSE g[i - 1]
    <3>1. \A x \in Block :
            /\ mem'.next[x] = IF x = c THEN mem.next[f[k]] ELSE IF x = f[k] THEN Null
                              ELSE IF x = mem.prev[f[k]] THEN c ELSE mem.next[x]
            /\ mem'.prev[x] = IF x = c THEN mem.prev[f[k]] ELSE IF x = f[k] THEN Null
                              ELSE IF x = mem.next[f[k]] THEN c ELSE mem.prev[x]
      BY <2>2 DEF mem_realloc, Moved
    <3>2. c \in Block
      BY DEF MemInv, MemType
    <3>3. CASE i = k
      BY <2>4, <2>8, <3>1, <3>2, <3>3
    <3>4. CASE i # k
      <4>1. g[i] = f[i] /\ f[i] # c /\ f[i] # f[k]
        BY <2>4, <2>5, <3>4
      <4>2. mem'.next[f[i]] = IF i = k - 1 THEN c ELSE mem.next[f[i]]
        BY <2>5, <2>8, <3>1, <3>4, <4>1
      <4>3. mem'.prev[f[i]] = IF i = k + 1 THEN c ELSE mem.prev[f[i]]
        BY <2>5, <2>8, <3>1, <3>4, <4>1
      <4> QED
        BY <2>4, <2>8, <3>4, <4>1, <4>2, <4>3
    <3> QED
      BY <3>3, <3>4
  <2>11. Row(n, g, mem')
    BY <2>6, <2>7, <2>9, <2>10 DEF Row
  <2> QED
    BY <2>3, <2>11 DEF Listed
<1> QED
  BY <1>1, <1>2 DEF MemInv

LEMMA InvLinked == MemInv => Linked
<1> USE NullAssumption
<1> SUFFICES ASSUME MemInv PROVE Linked
  OBVIOUS
<1>a. PICK n \in Nat : \E f \in [1..n -> Block] : Row(n, f, mem)
  BY DEF MemInv, Listed
<1>1. PICK f \in [1..n -> Block] : Row(n, f, mem)
  BY <1>a
<1>2. mem.head \in mem.used \cup {Null} /\ (mem.head = Null => mem.used = {})
  BY <1>1 DEF Row
<1>3. ASSUME NEW b \in mem.used
      PROVE  /\ mem.prev[b] \in mem.used \cup {Null} /\ mem.prev[b] # b
             /\ mem.next[b] \in mem.used \cup {Null}
             /\ mem.prev[b] # Null => mem.next[mem.prev[b]] = b
             /\ mem.next[b] # Null => mem.prev[mem.next[b]] = b
             /\ mem.next[b] = Null <=> b = mem.head
  <2>1. PICK i \in 1..n : f[i] = b
    BY <1>1 DEF Row
  <2>2. /\ mem.next[b] = IF i = n THEN Null ELSE f[i + 1]
        /\ mem.prev[b] = IF i = 1 THEN Null ELSE f[i - 1]
        /\ mem.head = f[n]
    <3>1. n # 0
      BY <2>1
    <3> QED
      BY <1>1, <2>1, <3>1 DEF Row
  <2>3. \A j \in 1..n : f[j] \in mem.used /\ f[j] # Null /\ (f[j] = b => j = i)
    <3>1. \A j \in 1..n : f[j] # Null
      OBVIOUS
    <3>2. \A j \in 1..n : f[j] \in mem.used /\ (f[j] = f[i] => j = i)
      BY <1>1 DEF Row
    <3> QED
      BY <2>1, <3>1, <3>2
  <2>4. i # n => mem.prev[f[i + 1]] = f[i]
    BY <1>1, <2>1 DEF Row
  <2>5. i # 1 => mem.next[f[i - 1]] = f[i]
    BY <1>1, <2>1 DEF Row
  <2> QED
    BY <2>1, <2>2, <2>3, <2>4, <2>5
<1> QED
  BY <1>2, <1>3 DEF Linked

\* mem_list and mem_chk never come to a block that was freed or moved: the
\* neighbours of a block in use are in use and point back at it, whatever
\* blocks a program allocates, resizes and frees.
THEOREM BlocksLinked == MemSpec => []Linked
<1>1. MemInit => MemInv
  BY InitInv
<1>2. MemInv /\ [MemNext(Nat)]_mem => MemInv'
  <2> SUFFICES ASSUME MemInv, [MemNext(Nat)]_mem PROVE MemInv'
    OBVIOUS
  <2>1. CASE MemMalloc(Nat)
    BY <2>1, MallocInv DEF MemMalloc
  <2>2. CASE MemFree
    BY <2>2, FreeInv DEF MemFree
  <2>3. CASE MemRealloc(Nat)
    BY <2>3, ReallocInv DEF MemRealloc
  <2>4. CASE UNCHANGED mem
    <3>1. mem' = mem
      BY <2>4
    <3> QED
      BY <3>1 DEF MemInv, MemType, Listed
  <2> QED
    BY <2>1, <2>2, <2>3, <2>4 DEF MemNext
<1>3. MemInv => Linked
  BY InvLinked
<1> QED
  BY <1>1, <1>2, <1>3, PTL DEF MemSpec
=============================================================================
