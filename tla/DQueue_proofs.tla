--------------------------- MODULE DQueue_proofs ---------------------------
(***************************************************************************)
(* The queue with two ends holds what was added and not taken, in order,   *)
(* for any elements and any number of operations.  Queued says so already; *)
(* what it leaves out is that no element is in the queue twice, which is   *)
(* what taking one out without losing another rests on.                    *)
(***************************************************************************)
EXTENDS DQueue, TLAPS

QueueType ==
    queue \in [head  : Elem \cup {Nil},
               tail  : Elem \cup {Nil},
               next  : [Elem -> Elem \cup {Nil}],
               prev  : [Elem -> Elem \cup {Nil}],
               items : Int]

Once ==
    /\ content \in Seq(Elem)
    /\ \A i, j \in 1..Len(content) : content[i] = content[j] => i = j

DQInv == QueueType /\ Once /\ Queued

\* The links of an element of the queue.
LEMMA Links ==
    ASSUME DQInv, NEW i \in 1..Len(content)
    PROVE  /\ content[i] \in Elem /\ content[i] # Nil
           /\ queue.next[content[i]] = IF i = Len(content) THEN Nil ELSE content[i + 1]
           /\ queue.prev[content[i]] = IF i = 1 THEN Nil ELSE content[i - 1]
  BY NilAssumption DEF DQInv, Once, Queued

\* What comes before the element at k.
LEMMA Prefix ==
    ASSUME NEW s \in Seq(Elem), NEW k \in 1..Len(s)
    PROVE  /\ SubSeq(s, 1, k - 1) \in Seq(Elem) /\ Len(SubSeq(s, 1, k - 1)) = k - 1
           /\ \A i \in 1..(k - 1) : SubSeq(s, 1, k - 1)[i] = s[i]
  OBVIOUS

LEMMA EmptyInv ==
    ASSUME queue' = [head |-> Nil, tail |-> Nil, next |-> [e \in Elem |-> Nil],
                     prev |-> [e \in Elem |-> Nil], items |-> 0],
           content' = << >>
    PROVE  DQInv'
<1>1. QueueType'
  BY DEF QueueType
<1>2. Once'
  BY DEF Once
<1>3. Queued'
  BY DEF Queued
<1> QED
  BY <1>1, <1>2, <1>3 DEF DQInv

LEMMA HeadInv ==
    ASSUME DQInv, NEW e \in Elem, DQAdd2Head(e)
    PROVE  DQInv'
<1> USE NilAssumption
<1> DEFINE n == Len(content)
<1>1. n \in Nat /\ content \in Seq(Elem)
  BY DEF DQInv, Once
<1>2. /\ content' \in Seq(Elem) /\ Len(content') = n + 1
      /\ content'[1] = e
      /\ \A i \in 2..(n + 1) : content'[i] = content[i - 1]
  BY <1>1 DEF DQAdd2Head
<1>3. \A i \in 1..n : content[i] # e
  BY DEF DQAdd2Head, InQueue
<1>4. \A i, j \in 1..n : content[i] = content[j] => i = j
  BY DEF DQInv, Once
<1>5. /\ queue.head = IF n = 0 THEN Nil ELSE content[1]
      /\ queue.tail = IF n = 0 THEN Nil ELSE content[n]
      /\ queue.items = n
  BY <1>1 DEF DQInv, Queued
<1>6. \A i \in 1..n :
        /\ content[i] \in Elem /\ content[i] # Nil
        /\ queue.next[content[i]] = IF i = n THEN Nil ELSE content[i + 1]
        /\ queue.prev[content[i]] = IF i = 1 THEN Nil ELSE content[i - 1]
  BY Links
<1>7. /\ queue'.head = e /\ queue'.items = n + 1
      /\ queue'.tail = IF queue.tail = Nil THEN e ELSE queue.tail
      /\ queue'.next = [queue.next EXCEPT ![e] = queue.head]
      /\ \A x \in Elem : queue'.prev[x] = IF x = e THEN Nil
                                          ELSE IF x = queue.head THEN e ELSE queue.prev[x]
  BY <1>5 DEF DQAdd2Head
<1>8. QueueType'
  BY <1>5 DEF DQInv, QueueType, DQAdd2Head
<1> HIDE DEF n
<1>9. Once'
  <2>1. ASSUME NEW i \in 1..(n + 1), NEW j \in 1..(n + 1), content'[i] = content'[j]
        PROVE  i = j
    <3>1. CASE i = 1 \/ j = 1
      <4>1. \A m \in 2..(n + 1) : content'[m] # e
        <5>1. \A m \in 2..(n + 1) : m - 1 \in 1..n
          BY <1>1
        <5> QED
          BY <1>2, <1>3, <5>1
      <4> QED
        BY <1>1, <1>2, <2>1, <3>1, <4>1
    <3>2. CASE i # 1 /\ j # 1
      <4>1. i - 1 \in 1..n /\ j - 1 \in 1..n /\ i \in 2..(n + 1) /\ j \in 2..(n + 1)
        BY <1>1, <3>2
      <4>2. i - 1 = j - 1
        BY <1>2, <1>4, <2>1, <4>1
      <4> QED
        BY <4>2
    <3> QED
      BY <3>1, <3>2
  <2> QED
    BY <1>2, <2>1 DEF Once
<1>10. ASSUME NEW i \in 1..(n + 1)
       PROVE  /\ queue'.next[content'[i]] = IF i = n + 1 THEN Nil ELSE content'[i + 1]
              /\ queue'.prev[content'[i]] = IF i = 1 THEN Nil ELSE content'[i - 1]
  <2>1. queue.next \in [Elem -> Elem \cup {Nil}]
    BY DEF DQInv, QueueType
  <2>2. CASE i = 1
    <3>1. queue'.next[e] = queue.head /\ queue'.prev[e] = Nil
      BY <1>7, <2>1
    <3> QED
      BY <1>1, <1>2, <1>5, <2>2, <3>1
  <2>3. CASE i # 1
    <3>1. i - 1 \in 1..n /\ i \in 2..(n + 1) /\ (i - 1) + 1 = i
      BY <1>1, <2>3
    <3>2. content'[i] = content[i - 1]
      BY <1>2, <3>1
    <3>3. queue'.next[content[i - 1]] = IF i - 1 = n THEN Nil ELSE content[i]
      BY <1>3, <1>6, <1>7, <2>1, <3>1
    <3>4. queue'.prev[content[i - 1]] = IF i - 1 = 1 THEN e ELSE content[(i - 1) - 1]
      <4>1. content[i - 1] # e /\ (content[i - 1] = queue.head <=> i - 1 = 1)
        BY <1>1, <1>3, <1>4, <1>5, <3>1
      <4>2. /\ content[i - 1] \in Elem
            /\ queue.prev[content[i - 1]] = IF i - 1 = 1 THEN Nil ELSE content[(i - 1) - 1]
        BY <1>6, <3>1
      <4> QED
        BY <1>7, <4>1, <4>2
    <3>5. /\ i # n + 1 => content'[i + 1] = content[i]
          /\ i - 1 # 1 => content'[i - 1] = content[(i - 1) - 1]
      BY <1>1, <1>2, <3>1
    <3>6. (i - 1 = n <=> i = n + 1) /\ (i - 1 = 1 => content'[i - 1] = e)
      BY <1>1, <1>2
    <3> QED
      BY <2>3, <3>2, <3>3, <3>4, <3>5, <3>6
  <2> QED
    BY <2>2, <2>3
<1>11. Queued'
  <2>1. queue'.tail = content'[n + 1]
    BY <1>1, <1>2, <1>5, <1>6, <1>7
  <2>2. content' # << >> /\ Len(content') = n + 1
    BY <1>1, <1>2
  <2> QED
    BY <1>2, <1>7, <1>10, <2>1, <2>2 DEF Queued
<1> QED
  BY <1>8, <1>9, <1>11 DEF DQInv

LEMMA TailInv ==
    ASSUME DQInv, NEW e \in Elem, DQAdd2Tail(e)
    PROVE  DQInv'
<1> USE NilAssumption
<1> DEFINE n == Len(content)
<1>1. n \in Nat /\ content \in Seq(Elem)
  BY DEF DQInv, Once
<1>2. /\ content' \in Seq(Elem) /\ Len(content') = n + 1
      /\ content'[n + 1] = e
      /\ \A i \in 1..n : content'[i] = content[i]
  BY <1>1 DEF DQAdd2Tail
<1>3. \A i \in 1..n : content[i] # e
  BY DEF DQAdd2Tail, InQueue
<1>4. \A i, j \in 1..n : content[i] = content[j] => i = j
  BY DEF DQInv, Once
<1>5. /\ queue.head = IF n = 0 THEN Nil ELSE content[1]
      /\ queue.tail = IF n = 0 THEN Nil ELSE content[n]
      /\ queue.items = n
  BY <1>1 DEF DQInv, Queued
<1>6. \A i \in 1..n :
        /\ content[i] \in Elem /\ content[i] # Nil
        /\ queue.next[content[i]] = IF i = n THEN Nil ELSE content[i + 1]
        /\ queue.prev[content[i]] = IF i = 1 THEN Nil ELSE content[i - 1]
  BY Links
<1>7. /\ queue'.tail = e /\ queue'.items = n + 1
      /\ queue'.head = IF queue.head = Nil THEN e ELSE queue.head
      /\ queue'.prev = [queue.prev EXCEPT ![e] = queue.tail]
      /\ \A x \in Elem : queue'.next[x] = IF x = e THEN Nil
                                          ELSE IF x = queue.tail THEN e ELSE queue.next[x]
  BY <1>5 DEF DQAdd2Tail
<1>8. QueueType'
  BY <1>5 DEF DQInv, QueueType, DQAdd2Tail
<1> HIDE DEF n
<1>9. Once'
  <2>1. \A i, j \in 1..(n + 1) : content'[i] = content'[j] => i = j
    BY <1>1, <1>2, <1>3, <1>4
  <2> QED
    BY <1>2, <2>1 DEF Once
<1>10. ASSUME NEW i \in 1..(n + 1)
       PROVE  /\ queue'.next[content'[i]] = IF i = n + 1 THEN Nil ELSE content'[i + 1]
              /\ queue'.prev[content'[i]] = IF i = 1 THEN Nil ELSE content'[i - 1]
  <2>1. queue.prev \in [Elem -> Elem \cup {Nil}]
    BY DEF DQInv, QueueType
  <2>2. CASE i = n + 1
    <3>1. queue'.prev[e] = queue.tail /\ queue'.next[e] = Nil
      BY <1>7, <2>1
    <3>2. n # 0 => content'[(n + 1) - 1] = content[n]
      BY <1>1, <1>2
    <3> QED
      BY <1>1, <1>2, <1>5, <2>2, <3>1, <3>2
  <2>3. CASE i # n + 1
    <3>1. i \in 1..n
      BY <1>1, <2>3
    <3>2. content'[i] = content[i]
      BY <1>2, <3>1
    <3>3. queue'.prev[content[i]] = IF i = 1 THEN Nil ELSE content[i - 1]
      BY <1>3, <1>6, <1>7, <2>1, <3>1
    <3>4. queue'.next[content[i]] = IF i = n THEN e ELSE content[i + 1]
      <4>1. content[i] # e /\ (content[i] = queue.tail <=> i = n)
        BY <1>1, <1>3, <1>4, <1>5, <3>1
      <4>2. /\ content[i] \in Elem
            /\ queue.next[content[i]] = IF i = n THEN Nil ELSE content[i + 1]
        BY <1>6, <3>1
      <4> QED
        BY <1>7, <4>1, <4>2
    <3>5. /\ i # n => content'[i + 1] = content[i + 1]
          /\ i # 1 => content'[i - 1] = content[i - 1]
      BY <1>1, <1>2, <3>1
    <3> QED
      BY <1>1, <1>2, <3>1, <3>2, <3>3, <3>4, <3>5
  <2> QED
    BY <2>2, <2>3
<1>11. Queued'
  <2>1. queue'.head = content'[1]
    BY <1>1, <1>2, <1>5, <1>6, <1>7
  <2>2. content' # << >> /\ Len(content') = n + 1
    BY <1>1, <1>2
  <2> QED
    BY <1>2, <1>7, <1>10, <2>1, <2>2 DEF Queued
<1> QED
  BY <1>8, <1>9, <1>11 DEF DQInv

\* Taking the element at k out joins its neighbours, which are two.
LEMMA WithoutInv ==
    ASSUME DQInv, NEW k \in 1..Len(content), queue' = Without(content[k]),
           content' \in Seq(Elem), Len(content') = Len(content) - 1,
           \A i \in 1..(Len(content) - 1) :
               content'[i] = IF i < k THEN content[i] ELSE content[i + 1]
    PROVE  DQInv'
<1> USE NilAssumption
<1> DEFINE n == Len(content)
<1>1. n \in Nat /\ n # 0 /\ k \in 1..n
  BY DEF DQInv, Once
<1>2. /\ content' \in Seq(Elem) /\ Len(content') = n - 1
      /\ \A i \in 1..(n - 1) : content'[i] = IF i < k THEN content[i] ELSE content[i + 1]
  OBVIOUS
<1>3. \A i, j \in 1..n : content[i] = content[j] => i = j
  BY DEF DQInv, Once
<1>4. /\ queue.head = content[1]
      /\ queue.tail = content[n]
      /\ queue.items = n
  BY <1>1 DEF DQInv, Queued, Once
<1>5. \A i \in 1..n :
        /\ content[i] \in Elem /\ content[i] # Nil
        /\ queue.next[content[i]] = IF i = n THEN Nil ELSE content[i + 1]
        /\ queue.prev[content[i]] = IF i = 1 THEN Nil ELSE content[i - 1]
  BY Links
<1> DEFINE e      == content[k]
           before == queue.prev[e]
           after  == queue.next[e]
<1>6. /\ queue'.head = IF before = Nil THEN after ELSE queue.head
      /\ queue'.tail = IF after = Nil THEN before ELSE queue.tail
      /\ queue'.items = n - 1
      /\ \A x \in Elem :
            /\ queue'.next[x] = IF x = e THEN Nil ELSE IF x = before THEN after ELSE queue.next[x]
            /\ queue'.prev[x] = IF x = e THEN Nil ELSE IF x = after THEN before ELSE queue.prev[x]
  BY <1>4 DEF Without
<1>7. QueueType'
  <2>1. e \in Elem
    BY <1>5
  <2> QED
    BY <1>4, <2>1 DEF DQInv, QueueType, Without
<1>8. /\ before = IF k = 1 THEN Nil ELSE content[k - 1]
      /\ after = IF k = n THEN Nil ELSE content[k + 1]
  BY <1>1, <1>5
<1> HIDE DEF n, e, before, after
<1>e. e = content[k]
  BY DEF e
<1>9. Once'
  <2>1. \A i, j \in 1..(n - 1) : content'[i] = content'[j] => i = j
    BY <1>1, <1>2, <1>3
  <2> QED
    BY <1>2, <2>1 DEF Once
<1>10. ASSUME NEW i \in 1..(n - 1)
       PROVE  /\ queue'.next[content'[i]] = IF i = n - 1 THEN Nil ELSE content'[i + 1]
              /\ queue'.prev[content'[i]] = IF i = 1 THEN Nil ELSE content'[i - 1]
  <2>1. CASE i < k
    <3>1. content'[i] = content[i] /\ i # k /\ i \in 1..n /\ i # n /\ content[i] \in Elem
      BY <1>1, <1>2, <1>5, <2>1
    <3>2. /\ content[i] # e /\ content[i] # after
          /\ content[i] = before <=> i = k - 1
      BY <1>1, <1>3, <1>5, <1>8, <1>e, <2>1, <3>1
    <3>3. queue'.next[content[i]] = IF i = k - 1 THEN after ELSE content[i + 1]
      BY <1>5, <1>6, <3>1, <3>2
    <3>4. queue'.prev[content[i]] = IF i = 1 THEN Nil ELSE content[i - 1]
      BY <1>5, <1>6, <3>1, <3>2
    <3>5. /\ i # n - 1 => content'[i + 1] = IF i + 1 < k THEN content[i + 1] ELSE content[i + 2]
          /\ i # 1 => content'[i - 1] = content[i - 1]
      BY <1>1, <1>2, <2>1
    <3>6. queue'.next[content[i]] = IF i = n - 1 THEN Nil ELSE content'[i + 1]
      BY <1>1, <1>8, <2>1, <3>3, <3>5
    <3> QED
      BY <3>1, <3>4, <3>5, <3>6
  <2>2. CASE ~(i < k)
    <3>1. /\ content'[i] = content[i + 1] /\ i + 1 # k /\ i + 1 \in 1..n /\ (i + 1) - 1 = i
          /\ content[i + 1] \in Elem
      BY <1>1, <1>2, <1>5, <2>2
    <3>2. /\ content[i + 1] # e /\ content[i + 1] # before
          /\ content[i + 1] = after <=> i = k
      BY <1>1, <1>3, <1>5, <1>8, <1>e, <2>2, <3>1
    <3>3. queue'.prev[content[i + 1]] = IF i = k THEN before ELSE content[i]
      BY <1>5, <1>6, <3>1, <3>2
    <3>4. queue'.next[content[i + 1]] = IF i + 1 = n THEN Nil ELSE content[(i + 1) + 1]
      BY <1>5, <1>6, <3>1, <3>2
    <3>5. /\ i # n - 1 => content'[i + 1] = content[(i + 1) + 1]
          /\ i # 1 => content'[i - 1] = IF i - 1 < k THEN content[i - 1] ELSE content[(i - 1) + 1]
          /\ (i - 1) + 1 = i
      <4>1. i # n - 1 => content'[i + 1] = content[(i + 1) + 1]
        BY <1>1, <1>2, <2>2
      <4>2. i # 1 => i - 1 \in 1..(n - 1)
        BY <1>1
      <4> QED
        BY <1>2, <4>1, <4>2
    <3>6. queue'.prev[content[i + 1]] = IF i = 1 THEN Nil ELSE content'[i - 1]
      BY <1>1, <1>8, <2>2, <3>3, <3>5
    <3> QED
      BY <1>1, <3>1, <3>4, <3>5, <3>6
  <2> QED
    BY <2>1, <2>2
<1>11. Queued'
  <2>1. n = 1 <=> content' = << >>
    BY <1>1, <1>2
  <2>2. queue'.head = IF content' = << >> THEN Nil ELSE content'[1]
    <3>1. before = Nil <=> k = 1
      BY <1>1, <1>5, <1>8
    <3>2. n # 1 => content'[1] = IF k = 1 THEN content[2] ELSE content[1]
      BY <1>1, <1>2
    <3>3. k = 1 => after = IF n = 1 THEN Nil ELSE content[2]
      BY <1>8
    <3>4. k # 1 => n # 1
      BY <1>1
    <3> QED
      BY <1>4, <1>6, <2>1, <3>1, <3>2, <3>3, <3>4
  <2>3. queue'.tail = IF content' = << >> THEN Nil ELSE content'[n - 1]
    <3>1. after = Nil <=> k = n
      BY <1>1, <1>5, <1>8
    <3>2. n # 1 => content'[n - 1] = IF k = n THEN content[n - 1] ELSE content[n]
      BY <1>1, <1>2
    <3>3. k = n => before = IF n = 1 THEN Nil ELSE content[n - 1]
      BY <1>8
    <3>4. k # n => n # 1
      BY <1>1
    <3> QED
      BY <1>4, <1>6, <2>1, <3>1, <3>2, <3>3, <3>4
  <2> QED
    BY <1>2, <1>6, <1>10, <2>2, <2>3 DEF Queued
<1> QED
  BY <1>7, <1>9, <1>11 DEF DQInv

LEMMA DelInv ==
    ASSUME DQInv, NEW k \in 1..Len(content), DQDel(k)
    PROVE  DQInv'
<1>1. content \in Seq(Elem)
  BY DEF DQInv, Once
<1>2. content' = SubSeq(content, 1, k - 1) \o SubSeq(content, k + 1, Len(content))
  BY DEF DQDel, RemoveAt
<1>3. /\ content' \in Seq(Elem) /\ Len(content') = Len(content) - 1
      /\ \A i \in 1..(Len(content) - 1) :
            content'[i] = IF i < k THEN content[i] ELSE content[i + 1]
  <2> DEFINE s == SubSeq(content, 1, k - 1)
             t == SubSeq(content, k + 1, Len(content))
  <2>1. /\ s \in Seq(Elem) /\ Len(s) = k - 1
        /\ \A i \in 1..(k - 1) : s[i] = content[i]
    BY <1>1, Prefix
  <2>2. /\ t \in Seq(Elem) /\ Len(t) = Len(content) - k
        /\ \A i \in 1..(Len(content) - k) : t[i] = content[i + k]
    BY <1>1
  <2>3. content' = s \o t
    BY <1>2
  <2> HIDE DEF s, t
  <2>4. content' \in Seq(Elem) /\ Len(content') = Len(content) - 1
    BY <1>1, <2>1, <2>2, <2>3
  <2>5. ASSUME NEW i \in 1..(Len(content) - 1)
        PROVE  content'[i] = IF i < k THEN content[i] ELSE content[i + 1]
    <3>1. CASE i < k
      BY <1>1, <2>1, <2>2, <2>3, <3>1
    <3>2. CASE ~(i < k)
      <4>1. content'[i] = t[i - (k - 1)]
        BY <1>1, <2>1, <2>2, <2>3, <3>2
      <4>2. i - (k - 1) \in 1..(Len(content) - k) /\ (i - (k - 1)) + k = i + 1
        BY <1>1, <3>2
      <4> QED
        BY <2>2, <3>2, <4>1, <4>2
    <3> QED
      BY <3>1, <3>2
  <2> QED
    BY <2>4, <2>5
<1> QED
  BY <1>3, WithoutInv DEF DQDel

LEMMA PopInv ==
    ASSUME DQInv, DQPop
    PROVE  DQInv'
<1>1. content \in Seq(Elem) /\ content # << >> /\ queue.tail = content[Len(content)]
  BY DEF DQInv, Once, Queued, DQPop
<1>2. content' = SubSeq(content, 1, Len(content) - 1)
  BY DEF DQPop, Front
<1>3. /\ Len(content) \in 1..Len(content)
      /\ content' \in Seq(Elem) /\ Len(content') = Len(content) - 1
      /\ \A i \in 1..(Len(content) - 1) : content'[i] = content[i]
  <2>1. Len(content) \in 1..Len(content)
    BY <1>1
  <2> QED
    BY <1>1, <1>2, <2>1, Prefix
<1>4. queue' = Without(content[Len(content)])
  BY <1>1 DEF DQPop
<1> QED
  BY <1>3, <1>4, WithoutInv

\* The stack of the loops being compiled and the list of the data stacks hold
\* what was put there and not taken, in order, however they are used.
THEOREM QueueKept == DQSpec => []Queued
<1>1. DQINIT => DQInv
  <2> SUFFICES ASSUME DQINIT PROVE DQInv
    OBVIOUS
  <2>1. QueueType
    BY DEF DQINIT, QueueType
  <2>2. Once
    BY DEF DQINIT, Once
  <2>3. Queued
    BY DEF DQINIT, Queued
  <2> QED
    BY <2>1, <2>2, <2>3 DEF DQInv
<1>2. DQInv /\ [DQNext]_<<queue, content>> => DQInv'
  <2> SUFFICES ASSUME DQInv, [DQNext]_<<queue, content>> PROVE DQInv'
    OBVIOUS
  <2>1. ASSUME NEW e \in Elem, DQAdd2Head(e) PROVE DQInv'
    BY <2>1, HeadInv
  <2>2. ASSUME NEW e \in Elem, DQAdd2Tail(e) PROVE DQInv'
    BY <2>2, TailInv
  <2>3. ASSUME NEW k \in 1..Len(content), DQDel(k) PROVE DQInv'
    BY <2>3, DelInv
  <2>4. CASE DQPop
    BY <2>4, PopInv
  <2>5. CASE DQFlush
    BY <2>5, EmptyInv DEF DQFlush
  <2>6. CASE UNCHANGED <<queue, content>>
    BY <2>6 DEF DQInv, QueueType, Once, Queued
  <2> QED
    BY <2>1, <2>2, <2>3, <2>4, <2>5, <2>6 DEF DQNext
<1>3. DQInv => Queued
  BY DEF DQInv
<1> QED
  BY <1>1, <1>2, <1>3, PTL DEF DQSpec
=============================================================================
