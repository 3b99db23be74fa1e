-------------------------------- MODULE Mem --------------------------------
(* bmem.c: the list of the blocks in use that MALLOC, REALLOC and FREE     *)
(* keep in a debugging build.  A block is known by its header; the head is *)
(* the one made last and prev leads back from it.                          *)
EXTENDS Integers

CONSTANTS
    Block,       \* addresses
    Null         \* none of them

ASSUME NullAssumption == Null \notin Block

VARIABLE mem     \* [used, next, prev, head, size, total], see MemInit

\* magic says which blocks are in use; what is in a freed one is of no use,
\* and is wiped here.
MemInit ==
    mem = [used  |-> {},
           next  |-> [b \in Block |-> Null],
           prev  |-> [b \in Block |-> Null],
           head  |-> Null,                 \* bmem_mem_head
           size  |-> [b \in Block |-> 0],
           total |-> 0]                    \* bmem_total_mem

mem_malloc(m, b, size) ==
    [used  |-> m.used \cup {b},
     next  |-> [x \in Block |-> IF x = b THEN Null ELSE IF x = m.head THEN b ELSE m.next[x]],
     prev  |-> [m.prev EXCEPT ![b] = m.head],
     head  |-> b,
     size  |-> [m.size EXCEPT ![b] = size],
     total |-> m.total + size]

mem_freeBug(m, b) ==       \* the head stays where it is
    [used  |-> m.used \ {b},
     next  |-> [x \in Block |-> IF x = b THEN Null ELSE IF x = m.prev[b] THEN m.next[b] ELSE m.next[x]],
     prev  |-> [x \in Block |-> IF x = b THEN Null ELSE IF x = m.next[b] THEN m.prev[b] ELSE m.prev[x]],
     head  |-> m.head,
     size  |-> [m.size EXCEPT ![b] = 0],
     total |-> m.total - m.size[b]]

mem_free(m, b) ==
    [used  |-> m.used \ {b},
     next  |-> [x \in Block |-> IF x = b THEN Null ELSE IF x = m.prev[b] THEN m.next[b] ELSE m.next[x]],
     prev  |-> [x \in Block |-> IF x = b THEN Null ELSE IF x = m.next[b] THEN m.prev[b] ELSE m.prev[x]],
     head  |-> IF m.head = b THEN m.prev[b] ELSE m.head,
     size  |-> [m.size EXCEPT ![b] = 0],
     total |-> m.total - m.size[b]]

\* A header moved from b to c with the rest, which may be where it was: its
\* neighbours learn where it is.
Moved(m, b, c) ==
    [used |-> (m.used \ {b}) \cup {c},
     next |-> [x \in Block |-> IF x = c THEN m.next[b] ELSE IF x = b THEN Null
                               ELSE IF x = m.prev[b] THEN c ELSE m.next[x]],
     prev |-> [x \in Block |-> IF x = c THEN m.prev[b] ELSE IF x = b THEN Null
                               ELSE IF x = m.next[b] THEN c ELSE m.prev[x]],
     head |-> IF m.head = b THEN c ELSE m.head]

mem_reallocBug(m, b, c, size) ==   \* the total goes up by all of the new size
    LET h == Moved(m, b, c)
    IN  [used |-> h.used, next |-> h.next, prev |-> h.prev, head |-> h.head,
         size |-> [x \in Block |-> IF x = c THEN size ELSE IF x = b THEN 0 ELSE m.size[x]],
         total |-> m.total + size]

mem_realloc(m, b, c, size) ==
    LET h == Moved(m, b, c)
    IN  [used |-> h.used, next |-> h.next, prev |-> h.prev, head |-> h.head,
         size |-> [x \in Block |-> IF x = c THEN size ELSE IF x = b THEN 0 ELSE m.size[x]],
         total |-> m.total - m.size[b] + size]

\* What a program does with blocks of its own.
MemMalloc(sizes) == \E b \in Block \ mem.used, s \in sizes : mem' = mem_malloc(mem, b, s)
MemFree          == \E b \in mem.used : mem' = mem_free(mem, b)
MemRealloc(sizes) ==
    \E b \in mem.used, s \in sizes : \E c \in (Block \ mem.used) \cup {b} :
        mem' = mem_realloc(mem, b, c, s)

MemNext(sizes) == MemMalloc(sizes) \/ MemFree \/ MemRealloc(sizes)
MemSpec == MemInit /\ [][MemNext(Nat)]_mem

-----------------------------------------------------------------------------
(* The list is one that can be walked and cut: a block's neighbours are in *)
(* use and point back at it, and only the head has nothing after it, so    *)
(* mem_list and mem_chk never come to a block that was freed or moved.     *)
Linked ==
    /\ mem.head \in mem.used \cup {Null}
    /\ mem.head = Null => mem.used = {}
    /\ \A b \in mem.used :
        /\ mem.prev[b] \in mem.used \cup {Null} /\ mem.prev[b] # b
        /\ mem.next[b] \in mem.used \cup {Null}
        /\ mem.prev[b] # Null => mem.next[mem.prev[b]] = b
        /\ mem.next[b] # Null => mem.prev[mem.next[b]] = b
        /\ mem.next[b] = Null <=> b = mem.head
=============================================================================
