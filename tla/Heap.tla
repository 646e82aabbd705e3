-------------------------------- MODULE Heap --------------------------------
(***************************************************************************)
(* The kernel heap (memory/heap/heap.c, memory/heap/hkeap.c): one byte per *)
(* block of memory, first-fit search, allocations delimited by HAS_NEXT.   *)
(*                                                                         *)
(* The byte table is `entries'.  `live' is a history variable, the         *)
(* allocations handed out and not freed since: the code keeps no such set, *)
(* all it knows is the table.  `spilled' is the set of table indexes past  *)
(* the end that the code has written; it never reads them back.            *)
(***************************************************************************)
EXTENDS Integers

CONSTANTS
    Total,      \* heap->table->total
    BlockSize,  \* HEAP_BLOCK_SIZE
    Word,       \* 2^32, the modulus of uint32_t
    Sizes       \* the sizes clients ask for

ASSUME HeapAssumption ==
    /\ Total \in Nat \ {0}
    /\ BlockSize \in Nat \ {0}
    /\ Word \in Nat \ {0}
    /\ Sizes \subseteq 0 .. (Word - 1)

VARIABLES entries, live, spilled

heap_vars == <<entries, live, spilled>>

Block == 0 .. (Total - 1)
Flag == {"TAKEN", "HAS_NEXT"}
FREE == {}
ENOMEM == 3

Allocation == [start : Block, n : Nat \ {0}]

\* The table indexes of an allocation; those from Total on are not blocks.
Blocks(a) == a.start .. (a.start + a.n - 1)

----------------------------------------------------------------------------
\* Sizes: rounding up wraps to 0 in the last block of the address space.

heap_align_size(val) ==
    IF val % BlockSize = 0 THEN val
    ELSE ((val - (val % BlockSize)) + BlockSize) % Word

total_blocks(size) == heap_align_size(size) \div BlockSize

----------------------------------------------------------------------------
\* The scan for n blocks: turn by turn over the table, the free blocks in a row
\* (current), where their run starts (start), and whether the loop was left.

IsFree(b) == "TAKEN" \notin entries[b]

\* Mutated: a block that is taken ends the run but not the count.
CountKept(n, acc, i) ==
    IF acc.done THEN acc
    ELSE IF ~IsFree(i) THEN [current |-> acc.current, start |-> -1, done |-> FALSE]
    ELSE [current |-> acc.current + 1,
          start   |-> IF acc.start = -1 THEN i ELSE acc.start,
          done    |-> acc.current + 1 = n]

\* Mutated: the run goes on over a block that is taken.
StartKept(n, acc, i) ==
    IF acc.done THEN acc
    ELSE IF ~IsFree(i) THEN [current |-> 0, start |-> acc.start, done |-> FALSE]
    ELSE [current |-> acc.current + 1,
          start   |-> IF acc.start = -1 THEN i ELSE acc.start,
          done    |-> acc.current + 1 = n]

Iterate(n, acc, i) ==
    IF acc.done THEN acc
    ELSE IF ~IsFree(i) THEN [current |-> 0, start |-> -1, done |-> FALSE]
    ELSE [current |-> acc.current + 1,
          start   |-> IF acc.start = -1 THEN i ELSE acc.start,
          done    |-> acc.current + 1 = n]

\* What it has after each number of turns.
Turns(n) ==
    LET after[i \in 0 .. Total] ==
            IF i = 0 THEN [current |-> 0, start |-> -1, done |-> FALSE]
            ELSE Iterate(n, after[i - 1], i - 1)
    IN  after

\* The answer: the run it is in, be the loop left at its n-th block or over.
heap_get_start_block(n) ==
    LET start == Turns(n)[Total].start IN IF start = -1 THEN -ENOMEM ELSE start

\* Mutated: the last block is marked as having a next one.
OpenMarks(b, s, n) == IF b < s + n THEN {"TAKEN", "HAS_NEXT"} ELSE {"TAKEN"}

\* What `|=' adds to the table byte b of an allocation of n blocks at s.
Marks(b, s, n) == IF b < s + n - 1 THEN {"TAKEN", "HAS_NEXT"} ELSE {"TAKEN"}

heap_mark_blocks_taken(s, n) ==
    /\ entries' = [b \in Block |->
                     IF b \in s .. (s + n - 1) THEN entries[b] \cup Marks(b, s, n)
                     ELSE entries[b]]
    /\ spilled' = spilled \cup {b \in s .. (s + n - 1) : b >= Total}

\* The blocks a free at block p resets: p and what its HAS_NEXT marks lead to,
\* nothing when p is outside the table (a null pointer is far below block 0).
Chain(p) ==
    {b \in Block : p \in Block /\ b >= p /\ \A c \in p .. (b - 1) : "HAS_NEXT" \in entries[c]}

\* Mutated: only the TAKEN bit is cleared.
ClearTaken(p) ==
    entries' = [b \in Block |-> IF b \in Chain(p) THEN entries[b] \ {"TAKEN"} ELSE entries[b]]

heap_mark_blocks_free(p) ==
    entries' = [b \in Block |-> IF b \in Chain(p) THEN FREE ELSE entries[b]]

----------------------------------------------------------------------------
HeapInit ==
    /\ entries = [b \in Block |-> FREE]
    /\ live = {}
    /\ spilled = {}

\* A request that ends with a pointer.  One of no blocks reserves nothing.
heap_malloc(size) ==
    LET n == total_blocks(size)
        s == heap_get_start_block(n)
    IN  /\ s # -ENOMEM
        /\ heap_mark_blocks_taken(s, n)
        /\ live' = live \cup (IF n > 0 THEN {[start |-> s, n |-> n]} ELSE {})

\* A request that ends with a null pointer changes nothing.
heap_malloc_fails(size) ==
    /\ heap_get_start_block(total_blocks(size)) = -ENOMEM
    /\ UNCHANGED heap_vars

\* The first free of an allocation, by the pointer its malloc returned.
heap_free(a) ==
    /\ a \in live
    /\ heap_mark_blocks_free(a.start)
    /\ live' = live \ {a}
    /\ UNCHANGED spilled

\* What else the kernel passes to kfree: a null pointer, the pointer of a
\* request of no blocks, or (pathparser_free, Path.cpp:79) a pointer freed a
\* moment ago, before another allocation can have its block.
heap_free_stale(p) ==
    /\ p \in Block => IsFree(p)
    /\ heap_mark_blocks_free(p)
    /\ UNCHANGED <<live, spilled>>

HeapNext ==
    \/ \E size \in Sizes : heap_malloc(size)
    \/ \E size \in Sizes : heap_malloc_fails(size)
    \/ \E a \in live : heap_free(a)
    \/ \E p \in Block \cup {-1} : heap_free_stale(p)

HeapSpec == HeapInit /\ [][HeapNext]_heap_vars

----------------------------------------------------------------------------
\* The types of the table, of the history and of the spill.
HeapTypeOK ==
    /\ entries \in [Block -> SUBSET Flag]
    /\ live \subseteq Allocation
    /\ spilled \subseteq Nat

\* No block is handed out twice: two live allocations never share a table
\* index, not even past the end, after any order of mallocs, frees and repeated
\* frees (the scan of heap.c:94-111 against the marks of heap.c:128-133).
Disjoint == \A a, b \in live : a # b => Blocks(a) \cap Blocks(b) = {}

\* The marks a table byte must carry, given what is allocated.
Expected(b) ==
    UNION {Marks(b, a.start, a.n) : a \in {x \in live : b \in Blocks(x)}}

\* The byte table says exactly what is allocated: free blocks carry no stale
\* mark, every block of an allocation but the last leads to the next one, and
\* the last leads nowhere, so that the walk of heap.c:144-152 ends where the
\* allocation ends.
ChainIntegrity == \A b \in Block : entries[b] = Expected(b)

\* The free runs of n blocks, by their first block.
Fits(n) == {s \in Block : s + n <= Total /\ \A b \in s .. (s + n - 1) : IsFree(b)}

First(S) == CHOOSE s \in S : \A t \in S : s <= t

\* As heap.c:83 has it, the scan finds the first free set of blocks: when there
\* are n free blocks in a row, the lowest such run, past every run that is too
\* short, whatever the mallocs and frees before it left of the table.
FirstFit == \A n \in 1 .. Total : Fits(n) # {} => heap_get_start_block(n) = First(Fits(n))

\* As heap.c:83 and heap.c:208 have it, what malloc returns is free blocks of the
\* heap, or 0: no allocation reaches past the table.  It does when the table ends
\* in free blocks that are too few: the scan reports them all the same.
InsideHeap == \A a \in live : Blocks(a) \subseteq Block

\* No malloc and no free touches the bytes of an allocation that stays live: a
\* free's walk never runs into a neighbour, `|=' never lands on taken blocks.
NeighboursUntouched ==
    [][\A a \in live \cap live' : \A b \in Blocks(a) \cap Block : entries'[b] = entries[b]]_heap_vars
=============================================================================
