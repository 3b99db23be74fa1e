------------------------------- MODULE DQueue -------------------------------
(* dqueue.c: a queue with two ends, as the stack of the loops being        *)
(* compiled and the list of the data stacks use it.  An element is known   *)
(* by its address, and what is in a freed one is wiped; content is a       *)
(* history of what the queue should hold.                                  *)
EXTENDS Integers, Sequences, SequencesExt

CONSTANTS
    Elem,        \* addresses of elements
    Nil          \* none of them

ASSUME NilAssumption == Nil \notin Elem

VARIABLES
    queue,       \* [head, tail, next, prev, items]
    content      \* history: the elements from head to tail

DQINIT ==
    /\ queue = [head |-> Nil, tail |-> Nil, next |-> [e \in Elem |-> Nil],
                prev |-> [e \in Elem |-> Nil], items |-> 0]
    /\ content = << >>

InQueue == {content[i] : i \in 1..Len(content)}

DQAdd2Head(e) ==
    /\ e \notin InQueue
    /\ queue' = [head  |-> e,
                 tail  |-> IF queue.tail = Nil THEN e ELSE queue.tail,
                 next  |-> [queue.next EXCEPT ![e] = queue.head],
                 prev  |-> [x \in Elem |-> IF x = e THEN Nil
                                           ELSE IF x = queue.head THEN e ELSE queue.prev[x]],
                 items |-> queue.items + 1]
    /\ content' = <<e>> \o content

DQAdd2TailBug(e) ==        \* the head of an empty queue is not set
    /\ e \notin InQueue
    /\ queue' = [head  |-> queue.head,
                 tail  |-> e,
                 next  |-> [x \in Elem |-> IF x = e THEN Nil
                                           ELSE IF x = queue.tail THEN e ELSE queue.next[x]],
                 prev  |-> [queue.prev EXCEPT ![e] = queue.tail],
                 items |-> queue.items + 1]
    /\ content' = Append(content, e)

DQAdd2Tail(e) ==
    /\ e \notin InQueue
    /\ queue' = [head  |-> IF queue.head = Nil THEN e ELSE queue.head,
                 tail  |-> e,
                 next  |-> [x \in Elem |-> IF x = e THEN Nil
                                           ELSE IF x = queue.tail THEN e ELSE queue.next[x]],
                 prev  |-> [queue.prev EXCEPT ![e] = queue.tail],
                 items |-> queue.items + 1]
    /\ content' = Append(content, e)

\* The queue without e.
Without(e) ==
    LET before == queue.prev[e]
        after  == queue.next[e]
    IN  [head  |-> IF before = Nil THEN after ELSE queue.head,
         tail  |-> IF after = Nil THEN before ELSE queue.tail,
         next  |-> [x \in Elem |-> IF x = e THEN Nil ELSE IF x = before THEN after ELSE queue.next[x]],
         prev  |-> [x \in Elem |-> IF x = e THEN Nil ELSE IF x = after THEN before ELSE queue.prev[x]],
         items |-> queue.items - 1]

\* Any element; n is where it is.
DQDel(n) ==
    /\ n \in 1..Len(content)
    /\ queue' = Without(content[n])
    /\ content' = RemoveAt(content, n)

DQPop ==
    /\ queue.tail # Nil
    /\ queue' = Without(queue.tail)
    /\ content' = Front(content)

DQFlush ==
    /\ queue' = [head |-> Nil, tail |-> Nil, next |-> [e \in Elem |-> Nil],
                 prev |-> [e \in Elem |-> Nil], items |-> 0]
    /\ content' = << >>

DQNext ==
    \/ \E e \in Elem : DQAdd2Head(e) \/ DQAdd2Tail(e)
    \/ \E n \in 1..Len(content) : DQDel(n)
    \/ DQPop \/ DQFlush

DQSpec == DQINIT /\ [][DQNext]_<<queue, content>>

-----------------------------------------------------------------------------
(* From the head along next, and from the tail along prev, are exactly the *)
(* elements added and not taken, in order, and items counts them.          *)
Queued ==
    /\ queue.items = Len(content)
    /\ queue.head = (IF content = << >> THEN Nil ELSE content[1])
    /\ queue.tail = (IF content = << >> THEN Nil ELSE content[Len(content)])
    /\ \A i \in 1..Len(content) :
        /\ queue.next[content[i]] = (IF i = Len(content) THEN Nil ELSE content[i + 1])
        /\ queue.prev[content[i]] = (IF i = 1 THEN Nil ELSE content[i - 1])
=============================================================================
