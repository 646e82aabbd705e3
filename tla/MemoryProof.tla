----------------------------- MODULE MemoryProof -----------------------------
(***************************************************************************)
(* Proofs about the heap by itself and about the memory of processes.      *)
(*                                                                         *)
(* The heap keeps its table exact, for every size of table, block and      *)
(* request.  IInv is inductive: ChainIntegrity alone is not, it needs the  *)
(* allocations to be disjoint, and Disjoint needs the marks to find them.  *)
(*                                                                         *)
(* The memory of processes is owned: a block that is taken has one place   *)
(* that points to it, what a process comes to write is memory that it has, *)
(* and nobody loses a block that he keeps the pointer to.                  *)
(***************************************************************************)
EXTENDS Memory, TLAPS, WellFoundedInduction

----------------------------------------------------------------------------
(* The heap.                                                               *)

\* A set of natural numbers that is not empty has a least element: the
\* first run of free blocks is the least of a set, as is a free slot of a process.
LEMMA LeastExists ==
    ASSUME NEW S, S \subseteq Nat, S # {}
    PROVE  \E s \in S : \A t \in S : s <= t
PROOF
  <1>1. PICK x \in S : \A y \in S : ~ (<<y, x>> \in OpToRel(<, Nat))
    BY NatLessThanWellFounded, WFMin
  <1>2. \A y \in S : ~ (y < x)
    BY <1>1 DEF OpToRel
  <1> QED  BY <1>2

IInv == HeapTypeOK /\ Disjoint /\ ChainIntegrity

\* First chooses the least element of a set of naturals that is not empty.
LEMMA FirstIsLeast ==
    ASSUME NEW S, S \subseteq Nat, S # {}
    PROVE  First(S) \in S /\ \A t \in S : First(S) <= t
PROOF
  BY LeastExists DEF First

\* A request comes to a natural number of blocks.
LEMMA TotalBlocksNat ==
    ASSUME NEW size \in Sizes
    PROVE  total_blocks(size) \in Nat
PROOF
  <1>1. /\ size \in Nat /\ BlockSize \in Nat \ {0} /\ Word \in Nat \ {0}
    BY HeapAssumption
  <1>2. size % BlockSize \in 0 .. (BlockSize - 1)
    BY <1>1
  <1>3. (size - (size % BlockSize)) + BlockSize \in Int
    BY <1>1, <1>2
  <1>4. ((size - (size % BlockSize)) + BlockSize) % Word \in 0 .. (Word - 1)
    BY <1>1, <1>3
  <1>5. heap_align_size(size) \in Nat
    BY <1>1, <1>4 DEF heap_align_size
  <1> QED  BY <1>1, <1>5 DEF total_blocks

----------------------------------------------------------------------------
\* The loop of heap_get_start_block, for every table and length.

\* The free run at the end of the table, however short.
FreeTail == {s \in Block : \A b \in s .. (Total - 1) : IsFree(b)}

\* What the scan answers: the lowest run of n free blocks; when there is none (or
\* n is 0, which the counter never meets) the start of the free tail; ENOMEM when
\* the last block is taken.
StartBlock(n) ==
    IF n > 0 /\ Fits(n) # {} THEN First(Fits(n))
    ELSE IF FreeTail # {} THEN First(FreeTail)
    ELSE -ENOMEM

\* What the loop has found after i blocks.  While it goes on, the run it is in
\* is all free and as long as it can be, and nothing before i fits.
LoopInv(n, acc, i) ==
    /\ acc \in [current : Nat, start : Block \cup {-1}, done : BOOLEAN]
    /\ acc.done => n > 0 /\ acc.start \in Fits(n) /\ \A t \in Fits(n) : acc.start <= t
    /\ ~acc.done =>
           /\ acc.start = -1 => acc.current = 0 /\ (i = 0 \/ ~IsFree(i - 1))
           /\ acc.start # -1 =>
                  /\ acc.start + acc.current = i /\ acc.current >= 1
                  /\ \A b \in acc.start .. (i - 1) : IsFree(b)
                  /\ acc.start = 0 \/ ~IsFree(acc.start - 1)
                  /\ n > 0 => acc.current < n
           /\ n > 0 => \A t \in Fits(n) : t + n > i

IsTurns(f, n, L) ==
    f = [i \in 0 .. L |-> IF i = 0 THEN [current |-> 0, start |-> -1, done |-> FALSE]
                          ELSE Iterate(n, f[i - 1], i - 1)]

\* There is a sequence of the loop's turns.
LEMMA TurnsExist ==
    ASSUME NEW n, NEW L \in Nat
    PROVE  \E f : IsTurns(f, n, L)
PROOF
  <1> DEFINE none == [current |-> 0, start |-> -1, done |-> FALSE]
             Bad == {k \in 0 .. L : ~ \E f : IsTurns(f, n, k)}
  <1>1. SUFFICES ASSUME Bad # {} PROVE FALSE
    <2>1. L \in 0 .. L
      OBVIOUS
    <2> QED  BY <2>1
  <1>2. PICK k \in Bad : \A j \in Bad : k <= j
    <2>1. Bad \subseteq Nat
      OBVIOUS
    <2> QED  BY <1>1, <2>1, LeastExists
  <1>3. CASE k = 0
    <2> DEFINE f == [i \in 0 .. 0 |-> none]
    <2>1. \A i \in 0 .. 0 : i = 0
      OBVIOUS
    <2>2. f = [i \in 0 .. 0 |-> IF i = 0 THEN none ELSE Iterate(n, f[i - 1], i - 1)]
      BY <2>1
    <2> QED  BY <1>2, <1>3, <2>2 DEF IsTurns
  <1>4. CASE k # 0
    <2>1. k - 1 \in 0 .. L /\ k - 1 \notin Bad /\ k \in 1 .. L
      BY <1>2, <1>4
    <2>2. PICK f : IsTurns(f, n, k - 1)
      BY <2>1
    <2> DEFINE g == [i \in 0 .. k |-> IF i = k THEN Iterate(n, f[k - 1], k - 1) ELSE f[i]]
    <2>3. ASSUME NEW i \in 0 .. k
          PROVE  g[i] = IF i = 0 THEN none ELSE Iterate(n, g[i - 1], i - 1)
      <3>1. CASE i = k
        <4>1. i # 0 /\ i - 1 \in 0 .. k /\ i - 1 # k
          BY <2>1, <3>1
        <4> QED  BY <3>1, <4>1
      <3>2. CASE i # k
        <4>1. i \in 0 .. (k - 1) /\ (i # 0 => i - 1 \in 0 .. k /\ i - 1 # k)
          BY <2>1, <3>2
        <4>2. f[i] = IF i = 0 THEN none ELSE Iterate(n, f[i - 1], i - 1)
          BY <2>2, <4>1 DEF IsTurns
        <4> QED  BY <3>2, <4>1, <4>2
      <3> QED  BY <3>1, <3>2
    <2>4. g = [i \in 0 .. k |-> IF i = 0 THEN none ELSE Iterate(n, g[i - 1], i - 1)]
      <3> HIDE DEF g
      <3>1. g = [i \in 0 .. k |-> g[i]]
        BY DEF g
      <3>2. \A i \in 0 .. k : g[i] = IF i = 0 THEN none ELSE Iterate(n, g[i - 1], i - 1)
        BY <2>3, Zenon
      <3> HIDE DEF none
      <3> QED  BY <3>1, <3>2, SMTT(30)
    <2> QED  BY <1>2, <2>4 DEF IsTurns
  <1> QED  BY <1>3, <1>4

\* Hence Turns is that sequence.
LEMMA TurnsIs ==
    ASSUME NEW n
    PROVE  IsTurns(Turns(n), n, Total)
PROOF
  <1> DEFINE F == CHOOSE f : f = [i \in 0 .. Total |->
                      IF i = 0 THEN [current |-> 0, start |-> -1, done |-> FALSE]
                      ELSE Iterate(n, f[i - 1], i - 1)]
  <1>1. \E f : f = [i \in 0 .. Total |->
                      IF i = 0 THEN [current |-> 0, start |-> -1, done |-> FALSE]
                      ELSE Iterate(n, f[i - 1], i - 1)]
    <2>1. PICK f : IsTurns(f, n, Total)
      BY HeapAssumption, TurnsExist
    <2> QED  BY <2>1, Zenon DEF IsTurns
  <1>2. F = [i \in 0 .. Total |->
                      IF i = 0 THEN [current |-> 0, start |-> -1, done |-> FALSE]
                      ELSE Iterate(n, F[i - 1], i - 1)]
    BY <1>1, Zenon
  <1>3. Turns(n) = F
    BY Zenon DEF Turns
  <1> QED  BY <1>2, <1>3, Zenon DEF IsTurns

\* The two ways in which a turn that meets a free block ends.
LEMMA LoopInvDone ==
    ASSUME NEW n \in Nat, NEW j, NEW c \in Nat, NEW s \in Block,
           n > 0, s \in Fits(n), \A t \in Fits(n) : s <= t
    PROVE  LoopInv(n, [current |-> c, start |-> s, done |-> TRUE], j)
PROOF
  BY DEF LoopInv

LEMMA LoopInvOn ==
    ASSUME NEW n \in Nat, NEW j \in Nat, NEW c \in Nat, NEW s \in Block,
           s # -1, s + c = j, c >= 1,
           \A b \in s .. (j - 1) : IsFree(b),
           s = 0 \/ ~IsFree(s - 1),
           n > 0 => c < n,
           n > 0 => \A t \in Fits(n) : t + n > j
    PROVE  LoopInv(n, [current |-> c, start |-> s, done |-> FALSE], j)
PROOF
  BY DEF LoopInv

\* A turn keeps the loop's invariant.
LEMMA TurnKeeps ==
    ASSUME NEW n \in Nat, NEW i \in Block, NEW acc, LoopInv(n, acc, i)
    PROVE  LoopInv(n, Iterate(n, acc, i), i + 1)
PROOF
  <1> DEFINE next == Iterate(n, acc, i)
             s == IF acc.start = -1 THEN i ELSE acc.start
  <1>1. Total \in Nat /\ Block = 0 .. (Total - 1) /\ i \in Nat /\ i + 1 <= Total /\ i + 1 - 1 = i
    BY HeapAssumption DEF Block
  <1>2. \A t : t \in Fits(n) <=> t \in Block /\ t + n <= Total /\ \A b \in t .. (t + n - 1) : IsFree(b)
    BY DEF Fits
  <1>3. CASE acc.done
    BY <1>3 DEF Iterate, LoopInv
  <1>4. CASE ~acc.done /\ ~IsFree(i)
    <2>1. next = [current |-> 0, start |-> -1, done |-> FALSE]
      BY <1>4 DEF Iterate
    <2>2. ASSUME n > 0, NEW t \in Fits(n) PROVE t + n > i + 1
      <3>1. t \in Block /\ t + n > i /\ \A b \in t .. (t + n - 1) : IsFree(b)
        BY <1>2, <1>4, <2>2 DEF LoopInv
      <3>2. t + n # i + 1
        <4>1. SUFFICES ASSUME t + n = i + 1 PROVE FALSE
          OBVIOUS
        <4>2. i \in t .. (t + n - 1)
          BY <1>1, <2>2, <3>1, <4>1
        <4> QED  BY <1>4, <3>1, <4>2
      <3> QED  BY <1>1, <3>1, <3>2
    <2> QED  BY <1>1, <1>4, <2>1, <2>2 DEF LoopInv
  <1>5. CASE ~acc.done /\ IsFree(i)
    <2> DEFINE c == acc.current + 1
    <2>1. next = [current |-> c, start |-> s, done |-> c = n]
      BY <1>5 DEF Iterate
    <2>2. /\ s \in Block /\ c \in Nat /\ c >= 1 /\ s + c = i + 1 /\ s # -1
          /\ \A b \in s .. i : IsFree(b)
          /\ s = 0 \/ ~IsFree(s - 1)
          /\ n > 0 => c <= n
      <3>1. acc.start \in Block \cup {-1} /\ acc.current \in Nat
        BY DEF LoopInv
      <3>2. CASE acc.start = -1
        <4>1. s = i /\ c = 1 /\ (i = 0 \/ ~IsFree(i - 1))
          BY <1>5, <3>2 DEF LoopInv
        <4> QED  BY <1>1, <1>5, <4>1
      <3>3. CASE acc.start # -1
        <4>1. /\ s = acc.start /\ s \in Block /\ s + acc.current = i /\ acc.current >= 1
              /\ \A b \in s .. (i - 1) : IsFree(b)
              /\ s = 0 \/ ~IsFree(s - 1)
              /\ n > 0 => acc.current < n
          BY <1>5, <3>1, <3>3 DEF LoopInv
        <4> HIDE DEF s
        <4>2. \A b \in s .. i : IsFree(b)
          <5>1. \A b \in s .. i : b \in s .. (i - 1) \/ b = i
            BY <1>1, <4>1
          <5> QED  BY <1>5, <4>1, <5>1
        <4> QED  BY <1>1, <3>1, <4>1, <4>2, SMTT(30)
      <3> QED  BY <3>2, <3>3
    <2>3. n > 0 => \A t \in Fits(n) : t + n > i
      BY <1>5 DEF LoopInv
    <2> HIDE DEF s, c, next
    <2>4. CASE c = n
      <3>1. n > 0 /\ s + n = i + 1
        BY <2>2, <2>4
      <3>2. s \in Fits(n)
        <4>1. s + n <= Total /\ s + n - 1 = i
          BY <1>1, <2>2, <3>1
        <4>2. \A b \in s .. (s + n - 1) : IsFree(b)
          BY <2>2, <4>1
        <4> QED  BY <1>2, <2>2, <4>1, <4>2
      <3>3. ASSUME NEW t \in Fits(n) PROVE s <= t
        BY <1>1, <1>2, <2>2, <2>3, <3>1
      <3>4. LoopInv(n, [current |-> c, start |-> s, done |-> TRUE], i + 1)
        BY <2>2, <3>1, <3>2, <3>3, LoopInvDone
      <3>5. (c = n) = TRUE
        BY <2>4
      <3>6. next = [current |-> c, start |-> s, done |-> TRUE]
        BY <2>1, <3>5, Zenon
      <3> QED  BY <3>4, <3>6, Zenon DEF next
    <2>5. CASE c # n
      <3>1. ASSUME n > 0, NEW t \in Fits(n) PROVE t + n > i + 1
        <4>1. t \in Block /\ t + n > i /\ \A b \in t .. (t + n - 1) : IsFree(b)
          BY <1>2, <2>3, <3>1
        <4>2. t + n # i + 1
          <5>1. SUFFICES ASSUME t + n = i + 1 PROVE FALSE
            OBVIOUS
          <5>2. c < n
            BY <2>2, <2>5, <3>1
          <5>3. t < s /\ s # 0 /\ s - 1 \in t .. (t + n - 1)
            BY <1>1, <2>2, <4>1, <5>1, <5>2
          <5> QED  BY <2>2, <4>1, <5>3
        <4> QED  BY <1>1, <4>1, <4>2
      <3>2. n > 0 => c < n
        BY <2>2, <2>5
      <3>3. \A b \in s .. (i + 1 - 1) : IsFree(b)
        BY <1>1, <2>2
      <3>4. LoopInv(n, [current |-> c, start |-> s, done |-> FALSE], i + 1)
        BY <1>1, <2>2, <3>1, <3>2, <3>3, LoopInvOn
      <3>5. (c = n) = FALSE
        BY <2>5
      <3>6. next = [current |-> c, start |-> s, done |-> FALSE]
        BY <2>1, <3>5, Zenon
      <3> QED  BY <3>4, <3>6, Zenon DEF next
    <2> QED  BY <2>4, <2>5
  <1> QED  BY <1>3, <1>4, <1>5

\* The loop arrives at that answer.
LEMMA ScanIsStart ==
    ASSUME NEW n \in Nat
    PROVE  heap_get_start_block(n) = StartBlock(n)
PROOF
  <1> DEFINE f == Turns(n)
             last == f[Total]
  <1>1. Total \in Nat /\ Total > 0 /\ Block = 0 .. (Total - 1)
    BY HeapAssumption DEF Block
  <1>2. \A i \in 0 .. Total : f[i] = IF i = 0 THEN [current |-> 0, start |-> -1, done |-> FALSE]
                                     ELSE Iterate(n, f[i - 1], i - 1)
    <2>1. IsTurns(f, n, Total)
      BY TurnsIs
    <2> HIDE DEF f
    <2> QED  BY <2>1 DEF IsTurns
  <1> HIDE DEF f
  <1>3. LoopInv(n, f[0], 0)
    <2>1. f[0] = [current |-> 0, start |-> -1, done |-> FALSE]
      BY <1>1, <1>2
    <2>2. n > 0 => \A t \in Fits(n) : t + n > 0
      BY <1>1 DEF Fits
    <2> QED  BY <2>1, <2>2 DEF LoopInv
  <1> DEFINE Bad == {i \in 0 .. Total : ~LoopInv(n, f[i], i)}
  <1>4. Bad = {}
    <2>1. SUFFICES ASSUME Bad # {} PROVE FALSE
      OBVIOUS
    <2>2. Bad \subseteq Nat
      BY <1>1
    <2>3. PICK i \in Bad : \A j \in Bad : i <= j
      BY <2>1, <2>2, LeastExists
    <2>4. i \in 0 .. Total /\ ~LoopInv(n, f[i], i) /\ i # 0
      BY <1>3, <2>3
    <2>5. i - 1 \in 0 .. Total /\ i - 1 \notin Bad /\ i - 1 \in Block /\ i - 1 + 1 = i
      BY <1>1, <2>3, <2>4
    <2>6. LoopInv(n, f[i - 1], i - 1)
      BY <2>5
    <2>7. LoopInv(n, Iterate(n, f[i - 1], i - 1), i - 1 + 1)
      BY <2>5, <2>6, TurnKeeps
    <2>8. f[i] = Iterate(n, f[i - 1], i - 1)
      BY <1>2, <2>4
    <2> QED  BY <2>4, <2>5, <2>7, <2>8
  <1>5. LoopInv(n, last, Total)
    <2>1. Total \in 0 .. Total
      BY <1>1
    <2> QED  BY <1>4, <2>1
  <1>6. heap_get_start_block(n) = IF last.start = -1 THEN -ENOMEM ELSE last.start
    BY DEF heap_get_start_block, f
  <1> HIDE DEF last
  <1>7. Fits(n) \subseteq Nat /\ FreeTail \subseteq Nat /\ \A t \in Fits(n) : t + n <= Total
    BY <1>1 DEF Fits, FreeTail
  <1>8. \A S : \A x \in S : S \subseteq Nat /\ (\A t \in S : x <= t) => First(S) = x
    <2>1. ASSUME NEW S, NEW x \in S, S \subseteq Nat, \A t \in S : x <= t PROVE First(S) = x
      <3>1. S # {}
        BY <2>1
      <3>2. First(S) \in S /\ \A t \in S : First(S) <= t
        BY <2>1, <3>1, FirstIsLeast
      <3>3. First(S) \in Nat /\ x \in Nat /\ First(S) <= x /\ x <= First(S)
        BY <2>1, <3>2
      <3> HIDE DEF First
      <3> QED  BY <3>3
    <2> QED  BY <2>1
  <1>9. CASE last.done
    <2>1. n > 0 /\ last.start \in Fits(n) /\ \A t \in Fits(n) : last.start <= t
      BY <1>5, <1>9 DEF LoopInv
    <2>2. First(Fits(n)) = last.start
      BY <1>7, <1>8, <2>1
    <2>3. last.start # -1
      BY <1>7, <2>1
    <2> QED  BY <1>6, <2>1, <2>2, <2>3 DEF StartBlock
  <1>10. CASE ~last.done
    <2>1. n > 0 => Fits(n) = {}
      <3>1. n > 0 => \A t \in Fits(n) : t + n > Total
        BY <1>5, <1>10 DEF LoopInv
      <3> QED  BY <1>1, <1>7, <3>1
    <2>2. CASE last.start = -1
      <3>1. ~IsFree(Total - 1)
        BY <1>1, <1>5, <1>10, <2>2 DEF LoopInv
      <3>2. FreeTail = {}
        <4>1. SUFFICES ASSUME NEW t \in FreeTail PROVE FALSE
          OBVIOUS
        <4>2. Total - 1 \in t .. (Total - 1)
          BY <1>1 DEF FreeTail
        <4> QED  BY <3>1, <4>2 DEF FreeTail
      <3> QED  BY <1>6, <2>1, <2>2, <3>2 DEF StartBlock
    <2>3. CASE last.start # -1
      <3>1. /\ last.start \in Block
            /\ \A b \in last.start .. (Total - 1) : IsFree(b)
            /\ last.start = 0 \/ ~IsFree(last.start - 1)
        BY <1>5, <1>10, <2>3 DEF LoopInv
      <3> DEFINE s == last.start
      <3>2. s \in FreeTail
        BY <3>1 DEF FreeTail
      <3>3. ASSUME NEW t \in FreeTail PROVE s <= t
        <4>1. t \in Block /\ \A b \in t .. (Total - 1) : IsFree(b)
          BY DEF FreeTail
        <4>2. t < s => s # 0 /\ s - 1 \in t .. (Total - 1)
          BY <1>1, <3>1, <4>1
        <4> QED  BY <1>1, <3>1, <4>1, <4>2
      <3>4. First(FreeTail) = s
        BY <1>7, <1>8, <3>2, <3>3
      <3> QED  BY <1>6, <2>1, <2>3, <3>2, <3>4 DEF StartBlock
    <2> QED  BY <2>2, <2>3
  <1> QED  BY <1>9, <1>10

----------------------------------------------------------------------------
\* The scan answers with a block from which every block up to the length asked
\* for, or up to the end of the table, is free.
LEMMA StartBlockFree ==
    ASSUME NEW n \in Nat, heap_get_start_block(n) # -ENOMEM
    PROVE  /\ heap_get_start_block(n) \in Block
           /\ \A b \in Block : b \in heap_get_start_block(n) .. (heap_get_start_block(n) + n - 1)
                                 => IsFree(b)
PROOF
  <1> DEFINE s == heap_get_start_block(n)
  <1>0. s = StartBlock(n)
    BY ScanIsStart
  <1> HIDE DEF s
  <1>1. Fits(n) \subseteq Nat /\ FreeTail \subseteq Nat /\ Total \in Nat \ {0}
    BY HeapAssumption DEF Fits, FreeTail, Block
  <1>2. CASE n > 0 /\ Fits(n) # {}
    <2>1. s \in Fits(n)
      BY <1>0, <1>1, <1>2, FirstIsLeast DEF StartBlock
    <2> QED  BY <2>1 DEF Fits, s
  <1>3. CASE ~(n > 0 /\ Fits(n) # {}) /\ FreeTail # {}
    <2>1. s \in FreeTail
      BY <1>0, <1>1, <1>3, FirstIsLeast DEF StartBlock
    <2> QED  BY <1>1, <2>1 DEF FreeTail, Block, s
  <1>4. CASE ~(n > 0 /\ Fits(n) # {}) /\ FreeTail = {}
    BY <1>0, <1>4 DEF StartBlock, s
  <1> QED  BY <1>2, <1>3, <1>4 DEF s

\* A block that no live allocation covers is free, and the other way round.
LEMMA FreeIsUncovered ==
    ASSUME IInv, NEW b \in Block
    PROVE  IsFree(b) <=> \A a \in live : b \notin Blocks(a)
PROOF
  <1>1. entries[b] = Expected(b)
    BY DEF IInv, ChainIntegrity
  <1>2. \A a \in live : "TAKEN" \in Marks(b, a.start, a.n)
    BY DEF Marks
  <1> QED  BY <1>1, <1>2 DEF Expected, IsFree

\* In a table that is exact, the byte of a block carries the marks of the one
\* allocation that covers it.
LEMMA CoveredMarks ==
    ASSUME IInv, NEW a \in live, NEW b \in Block, b \in Blocks(a)
    PROVE  entries[b] = Marks(b, a.start, a.n)
PROOF
  <1>1. {x \in live : b \in Blocks(x)} = {a}
    BY DEF IInv, Disjoint
  <1>2. entries[b] = UNION {Marks(b, x.start, x.n) : x \in {a}}
    BY <1>1 DEF IInv, ChainIntegrity, Expected
  <1> QED  BY <1>2

\* The walk of a free from the start of an allocation covers its blocks, all of
\* them and no other.
LEMMA ChainIsAllocation ==
    ASSUME IInv, NEW a \in live
    PROVE  Chain(a.start) = Blocks(a) \cap Block
PROOF
  <1>1. a.start \in Block /\ a.start \in Nat /\ a.n \in Nat \ {0} /\ Total \in Nat
    BY HeapAssumption DEF IInv, HeapTypeOK, Allocation, Block
  <1>2. \A b \in Block : b \in Blocks(a) => entries[b] = Marks(b, a.start, a.n)
    BY CoveredMarks
  <1>3. ASSUME NEW b \in Chain(a.start)
        PROVE  b \in Blocks(a)
    <2>1. b \in Block /\ b >= a.start /\ \A c \in a.start .. (b - 1) : "HAS_NEXT" \in entries[c]
      BY <1>3 DEF Chain
    <2>2. SUFFICES ASSUME b > a.start + a.n - 1 PROVE FALSE
      BY <1>1, <2>1 DEF Blocks, Block
    <2> DEFINE last == a.start + a.n - 1
    <2>3. last \in Block /\ last \in a.start .. (b - 1) /\ last \in Blocks(a)
      BY <1>1, <2>1, <2>2 DEF Block, Blocks
    <2>4. entries[last] = {"TAKEN"}
      BY <1>1, <1>2, <2>3 DEF Marks
    <2> QED  BY <2>1, <2>3, <2>4
  <1>4. ASSUME NEW b \in Block, b \in Blocks(a)
        PROVE  b \in Chain(a.start)
    <2>1. \A c \in a.start .. (b - 1) :
            c \in Block /\ c \in Blocks(a) /\ c < a.start + a.n - 1
      BY <1>1, <1>4 DEF Block, Blocks
    <2>2. \A c \in a.start .. (b - 1) : "HAS_NEXT" \in entries[c]
      BY <1>2, <2>1 DEF Marks
    <2> QED  BY <1>1, <1>4, <2>2 DEF Chain, Blocks, Block
  <1>5. Chain(a.start) \subseteq Block
    BY DEF Chain
  <1> QED  BY <1>3, <1>4, <1>5

LEMMA InitInv == HeapInit => IInv
PROOF
  BY DEF HeapInit, IInv, HeapTypeOK, Disjoint, ChainIntegrity, Expected, Flag, FREE, Allocation

\* A malloc marks blocks that were free, so they belonged to nobody, and leaves
\* every other byte alone.
LEMMA MallocInv ==
    ASSUME IInv, NEW size \in Sizes, heap_malloc(size)
    PROVE  IInv'
PROOF
  <1> DEFINE n == total_blocks(size)
             s == heap_get_start_block(n)
             new == [start |-> s, n |-> n]
  <1>1. n \in Nat
    BY TotalBlocksNat
  <1>2. s # -ENOMEM
    BY DEF heap_malloc
  <1>3. s \in Block /\ \A b \in Block : b \in s .. (s + n - 1) => IsFree(b)
    BY <1>1, <1>2, StartBlockFree
  <1>4. s \in Nat /\ Total \in Nat
    BY <1>3, HeapAssumption DEF Block
  <1>5. /\ entries' = [b \in Block |-> IF b \in s .. (s + n - 1)
                                        THEN entries[b] \cup Marks(b, s, n) ELSE entries[b]]
        /\ spilled' = spilled \cup {b \in s .. (s + n - 1) : b >= Total}
        /\ live' = live \cup (IF n > 0 THEN {new} ELSE {})
    BY DEF heap_malloc, heap_mark_blocks_taken
  <1> HIDE DEF n, s
  <1>6. HeapTypeOK'
    <2>1. \A b \in Block : Marks(b, s, n) \in SUBSET Flag
      BY DEF Marks, Flag
    <2>2. n > 0 => new \in Allocation
      BY <1>1, <1>3 DEF Allocation
    <2>3. entries' \in [Block -> SUBSET Flag]
      BY <1>5, <2>1 DEF IInv, HeapTypeOK
    <2>4. live' \subseteq Allocation
      BY <1>5, <2>2 DEF IInv, HeapTypeOK
    <2>5. spilled' \subseteq Nat
      <3>1. spilled \subseteq Nat
        BY DEF IInv, HeapTypeOK
      <3>2. s .. (s + n - 1) \subseteq Nat
        BY <1>1, <1>4
      <3> QED  BY <1>5, <3>1, <3>2
    <2> QED  BY <2>3, <2>4, <2>5 DEF HeapTypeOK
  \* An allocation that shares an index with the new one would cover its first
  \* block or the other way round; both are blocks, and free.
  <1>7. \A a \in live : Blocks(a) \cap s .. (s + n - 1) = {}
    <2> SUFFICES ASSUME NEW a \in live, NEW i \in Blocks(a), i \in s .. (s + n - 1)
                 PROVE  FALSE
      OBVIOUS
    <2>1. a.start \in Block /\ a.start \in Nat /\ a.n \in Nat \ {0}
      BY DEF IInv, HeapTypeOK, Allocation, Block
    <2>2. CASE a.start >= s
      <3>1. a.start \in s .. (s + n - 1) /\ a.start \in Blocks(a)
        BY <1>1, <1>4, <2>1, <2>2 DEF Blocks
      <3> QED  BY <1>3, <2>1, <3>1, FreeIsUncovered
    <2>3. CASE a.start < s
      <3>1. s \in s .. (s + n - 1) /\ s \in Blocks(a)
        BY <1>1, <1>4, <2>1, <2>3 DEF Blocks
      <3> QED  BY <1>3, <3>1, FreeIsUncovered
    <2> QED  BY <1>4, <2>1, <2>2, <2>3
  <1>8. Disjoint'
    <2>1. Blocks(new) = s .. (s + n - 1)
      BY DEF Blocks
    <2> QED  BY <1>5, <1>7, <2>1 DEF IInv, Disjoint, Blocks
  <1>9. ChainIntegrity'
    <2> SUFFICES ASSUME NEW b \in Block
                 PROVE  entries'[b] = Expected(b)'
      BY DEF ChainIntegrity
    <2>1. entries[b] = Expected(b)
      BY DEF IInv, ChainIntegrity
    <2>2. CASE b \in s .. (s + n - 1)
      <3>1. n > 0 /\ new \in live' /\ b \in Blocks(new)
        BY <1>1, <1>4, <1>5, <2>2 DEF Blocks
      <3>2. \A a \in live : b \notin Blocks(a)
        BY <1>7, <2>2
      <3>3. {x \in live' : b \in Blocks(x)} = {new}
        BY <1>5, <3>1, <3>2
      <3>4. Expected(b)' = UNION {Marks(b, x.start, x.n) : x \in {new}}
        BY <3>3 DEF Expected, Blocks, Marks
      <3>5. Expected(b)' = Marks(b, s, n)
        BY <3>4
      <3>6. entries[b] = {}
        BY <2>1, <3>2 DEF Expected
      <3>7. entries'[b] = entries[b] \cup Marks(b, s, n)
        BY <1>5, <2>2
      <3> QED  BY <3>5, <3>6, <3>7
    <2>3. CASE b \notin s .. (s + n - 1)
      <3>1. b \notin Blocks(new)
        BY <2>3 DEF Blocks
      <3>2. {x \in live' : b \in Blocks(x)} = {x \in live : b \in Blocks(x)}
        BY <1>5, <3>1
      <3>3. Expected(b)' = Expected(b)
        BY <3>2 DEF Expected, Blocks, Marks
      <3>4. entries'[b] = entries[b]
        BY <1>5, <2>3
      <3> QED  BY <2>1, <3>3, <3>4
    <2> QED  BY <2>2, <2>3
  <1> QED  BY <1>6, <1>8, <1>9 DEF IInv

\* A free resets the bytes of its own allocation, which nobody else covers.
LEMMA FreeInv ==
    ASSUME IInv, NEW a \in live, heap_free(a)
    PROVE  IInv'
PROOF
  <1>1. Chain(a.start) = Blocks(a) \cap Block
    BY ChainIsAllocation
  <1>2. entries' = [b \in Block |-> IF b \in Blocks(a) THEN {} ELSE entries[b]]
    BY <1>1 DEF heap_free, heap_mark_blocks_free, FREE
  <1>3. live' = live \ {a} /\ spilled' = spilled
    BY DEF heap_free
  <1>4. HeapTypeOK'
    BY <1>2, <1>3 DEF IInv, HeapTypeOK
  <1>5. Disjoint'
    BY <1>3 DEF IInv, Disjoint, Blocks
  <1>6. ASSUME NEW b \in Block
        PROVE  entries'[b] = Expected(b)'
    <2>1. entries[b] = Expected(b)
      BY DEF IInv, ChainIntegrity
    <2>2. CASE b \in Blocks(a)
      <3>1. {x \in live' : b \in Blocks(x)} = {}
        BY <1>3, <2>2 DEF IInv, Disjoint
      <3>2. Expected(b)' = {}
        BY <3>1 DEF Expected, Blocks, Marks
      <3> QED  BY <1>2, <2>2, <3>2
    <2>3. CASE b \notin Blocks(a)
      <3>1. {x \in live' : b \in Blocks(x)} = {x \in live : b \in Blocks(x)}
        BY <1>3, <2>3
      <3>2. Expected(b)' = Expected(b)
        BY <3>1 DEF Expected, Blocks, Marks
      <3> QED  BY <1>2, <2>1, <2>3, <3>2
    <2> QED  BY <2>2, <2>3
  <1> QED  BY <1>4, <1>5, <1>6 DEF IInv, ChainIntegrity

\* A free of a pointer whose block is free, or of a null pointer, is harmless:
\* a free block has no HAS_NEXT mark left for the walk to follow.
LEMMA FreeStaleInv ==
    ASSUME IInv, NEW p \in Block \cup {-1}, heap_free_stale(p)
    PROVE  entries' = entries /\ live' = live /\ spilled' = spilled
PROOF
  <1>1. \A b \in Block : b \in Chain(p) => entries[b] = FREE
    <2> SUFFICES ASSUME NEW b \in Chain(p)
                 PROVE  entries[b] = FREE
      OBVIOUS
    <2>1. p \in Block /\ p \in Int /\ b \in Int /\ b >= p
          /\ \A c \in p .. (b - 1) : "HAS_NEXT" \in entries[c]
      BY HeapAssumption DEF Chain, Block
    <2>2. IsFree(p)
      BY <2>1 DEF heap_free_stale
    <2>3. \A a \in live : p \notin Blocks(a)
      BY <2>1, <2>2, FreeIsUncovered
    <2>4. entries[p] = FREE
      BY <2>1, <2>3 DEF IInv, ChainIntegrity, Expected, FREE
    <2>5. b = p
      BY <2>1, <2>4 DEF FREE
    <2> QED  BY <2>4, <2>5
  <1>2. entries \in [Block -> SUBSET Flag]
    BY DEF IInv, HeapTypeOK
  <1>3. entries' = [b \in Block |-> entries[b]]
    BY <1>1 DEF heap_free_stale, heap_mark_blocks_free
  <1> QED  BY <1>2, <1>3 DEF heap_free_stale

LEMMA StutterInv ==
    ASSUME IInv, entries' = entries, live' = live, spilled' = spilled
    PROVE  IInv'
PROOF
  BY DEF IInv, HeapTypeOK, Disjoint, ChainIntegrity, Expected, Blocks, Marks

LEMMA NextInv == IInv /\ [HeapNext]_heap_vars => IInv'
PROOF
  <1> SUFFICES ASSUME IInv, [HeapNext]_heap_vars
               PROVE  IInv'
    OBVIOUS
  <1>1. ASSUME NEW size \in Sizes, heap_malloc(size) PROVE IInv'
    BY <1>1, MallocInv
  <1>2. ASSUME NEW size \in Sizes, heap_malloc_fails(size) PROVE IInv'
    BY <1>2, StutterInv DEF heap_malloc_fails, heap_vars
  <1>3. ASSUME NEW a \in live, heap_free(a) PROVE IInv'
    BY <1>3, FreeInv
  <1>4. ASSUME NEW p \in Block \cup {-1}, heap_free_stale(p) PROVE IInv'
    BY <1>4, FreeStaleInv, StutterInv
  <1>5. CASE UNCHANGED heap_vars
    BY <1>5, StutterInv DEF heap_vars
  <1> QED  BY <1>1, <1>2, <1>3, <1>4, <1>5 DEF HeapNext

\* The heap's table, history and spill keep their types.
THEOREM HeapTypeCorrect == HeapSpec => []HeapTypeOK
PROOF
  <1>1. IInv => HeapTypeOK
    BY DEF IInv
  <1> QED  BY <1>1, InitInv, NextInv, PTL DEF HeapSpec

\* No two live allocations share a block, whatever was allocated and freed
\* before and in which order.
THEOREM HeapDisjoint == HeapSpec => []Disjoint
PROOF
  <1>1. IInv => Disjoint
    BY DEF IInv
  <1> QED  BY <1>1, InitInv, NextInv, PTL DEF HeapSpec

\* The byte table always says exactly what is allocated.
THEOREM HeapChainIntegrity == HeapSpec => []ChainIntegrity
PROOF
  <1>1. IInv => ChainIntegrity
    BY DEF IInv
  <1> QED  BY <1>1, InitInv, NextInv, PTL DEF HeapSpec

\* No operation on the heap changes the bytes of an allocation that is live
\* before and after it.
THEOREM HeapNeighboursUntouched == HeapSpec => NeighboursUntouched
PROOF
  <1>1. IInv /\ IInv' /\ [HeapNext]_heap_vars =>
          [\A a \in live \cap live' : \A b \in Blocks(a) \cap Block : entries'[b] = entries[b]]_heap_vars
    <2> SUFFICES ASSUME IInv, IInv', NEW a \in live, a \in live', NEW b \in Blocks(a), b \in Block
                 PROVE  entries'[b] = entries[b]
      OBVIOUS
    <2>1. entries[b] = Marks(b, a.start, a.n)
      BY CoveredMarks
    <2>2. {x \in live' : b \in Blocks(x)} = {a}
      BY DEF IInv, Disjoint, Blocks
    <2>3. Expected(b)' = UNION {Marks(b, x.start, x.n) : x \in {a}}
      BY <2>2 DEF Expected, Blocks, Marks
    <2>4. entries'[b] = Expected(b)'
      BY DEF IInv, ChainIntegrity
    <2> QED  BY <2>1, <2>3, <2>4
  <1> QED  BY <1>1, InitInv, NextInv, PTL DEF HeapSpec, NeighboursUntouched

\* The scan finds the first free set of blocks (heap.c:83) when there is one, in
\* every table that the heap comes to, and for every length.
THEOREM HeapFirstFit == HeapSpec => []FirstFit
PROOF
  <1>1. FirstFit
    <2>1. \A n \in 1 .. Total : n \in Nat /\ n > 0
      BY HeapAssumption
    <2> QED  BY <2>1, ScanIsStart DEF FirstFit, StartBlock
  <1> QED  BY <1>1, PTL

----------------------------------------------------------------------------
(* The memory of processes.  The heap's own theorems are about callers that *)
(* free what they were given.  Here pointers that reserve nothing are freed *)
(* too, which tear allocations apart: the table is exact only where         *)
(* something is live.                                                       *)

\* The heap, whatever was freed: a byte is free or taken, and those of what is
\* live carry its marks.
HeapInv ==
    /\ entries \in [Block -> SUBSET Flag]
    /\ live \subseteq Allocation
    /\ \A b \in Block : entries[b] = FREE \/ "TAKEN" \in entries[b]
    /\ \A a \in live : \A b \in Blocks(a) \cap Block : entries[b] = Marks(b, a.start, a.n)

\* No block of the table is part of two allocations.
Apart == \A a, b \in live : a # b => Blocks(a) \cap Blocks(b) \cap Block = {}

Loading == {"stack", "unload", "segment"}
Busy == Loading \cup {"framebuffer", "strings", "free", "free_stack", "panic"}

MemoryType ==
    /\ alive \subseteq Process /\ started \subseteq alive
    /\ allocations \in [Process -> [Index -> Pointer]]
    /\ image \in [Process -> Pointer]
    /\ stack \in [Process -> Pointer]
    /\ writable \in [Process -> SUBSET Int]
    /\ pc \in Busy \cup {"user"}
    /\ pc \in Busy \ {"panic"} => who \in Process
    /\ argc \in [Process -> 0 .. (Word - 1)]
    /\ hollow \subseteq Places

\* A place that is owned by what was asked for.
Owns(place, size) ==
    \E a \in live : a.start = Held(place) /\ a.n = total_blocks(size) /\ place \notin hollow

\* Who is not alive and not under way holds nothing that a load would lose; the
\* load under way has its image and its stack.
PlaceInv(p) ==
    /\ p \notin alive /\ (pc \in Busy => p # who) => image[p] = Null /\ stack[p] = Null
    /\ p = who =>
          /\ pc \in Loading => p \notin alive
          /\ pc = "stack" => stack[p] = Null
          /\ pc \in {"framebuffer", "strings"} => p \in alive
          /\ pc \in {"free", "free_stack"} => p \notin alive
          /\ pc = "free_stack" => image[p] = Null
          /\ pc \in {"stack", "segment"} => Owns(<<p, ImagePlace>>, ImageSize)
          /\ pc = "segment" => Owns(<<p, StackPlace>>, StackSize)

PlacesInv == \A p \in Process : PlaceInv(p)

MInv ==
    /\ HeapInv
    /\ Apart
    /\ MemoryType
    /\ PlacesInv
    /\ OwnedOnce

----------------------------------------------------------------------------
\* Sizes.

\* Rounding up and counting blocks.
LEMMA Rounded ==
    ASSUME NEW size \in Nat
    PROVE  /\ total_blocks(size) \in Nat
           /\ size \in 1 .. (Word - BlockSize) => total_blocks(size) > 0
PROOF
  <1>1. BlockSize \in Nat \ {0} /\ Word \in Nat \ {0}
    BY HeapAssumption
  <1> DEFINE r == size % BlockSize
             up == (size - r) + BlockSize
  <1>2. r \in 0 .. (BlockSize - 1) /\ up \in Nat /\ up % Word \in Nat
    BY <1>1
  <1>3. \A x \in Nat : x \div BlockSize \in Nat
    BY <1>1
  <1>4. total_blocks(size) \in Nat
    BY <1>2, <1>3 DEF total_blocks, heap_align_size
  <1>5. ASSUME size \in 1 .. (Word - BlockSize) PROVE total_blocks(size) > 0
    <2>1. \A x \in Nat : x >= BlockSize => x \div BlockSize > 0
      BY <1>1
    <2>2. heap_align_size(size) \in Nat /\ heap_align_size(size) >= BlockSize
      <3>1. CASE r = 0
        <4>1. size >= BlockSize
          BY <1>1, <1>5, <3>1
        <4> QED  BY <3>1, <4>1 DEF heap_align_size
      <3>2. CASE r # 0
        <4>1. r > 0 /\ up < Word /\ up >= BlockSize
          BY <1>1, <1>2, <1>5, <3>2
        <4>2. up % Word = up
          BY <1>1, <1>2, <4>1
        <4> QED  BY <1>2, <3>2, <4>1, <4>2 DEF heap_align_size
      <3> QED  BY <3>1, <3>2
    <2> QED  BY <2>1, <2>2 DEF total_blocks
  <1> QED  BY <1>4, <1>5

\* What the scan for a size finds is a free block or nothing.
LEMMA PointedType ==
    ASSUME NEW size \in Nat
    PROVE  /\ Pointed(size) \in Pointer
           /\ Pointed(size) = Null <=> heap_get_start_block(total_blocks(size)) = -ENOMEM
           /\ Pointed(size) # Null => /\ Pointed(size) = heap_get_start_block(total_blocks(size))
                                      /\ Pointed(size) \in Block /\ IsFree(Pointed(size))
                                      /\ \A b \in Block : b \in Pointed(size) .. (Pointed(size) + total_blocks(size) - 1)
                                                              => IsFree(b)
PROOF
  <1> DEFINE n == total_blocks(size)
             s == heap_get_start_block(n)
  <1>1. n \in Nat /\ Total \in Nat \ {0}
    BY Rounded, HeapAssumption
  <1>2. s # -ENOMEM => s \in Block /\ \A b \in Block : b \in s .. (s + n - 1) => IsFree(b)
    BY <1>1, StartBlockFree
  <1>3. s # -ENOMEM => IsFree(s)
    <2> SUFFICES ASSUME s # -ENOMEM PROVE IsFree(s)
      OBVIOUS
    <2>1. CASE n = 0
      <3>1. FreeTail # {} /\ s = First(FreeTail)
        BY <1>1, <2>1, ScanIsStart DEF StartBlock, ENOMEM
      <3>2. FreeTail \subseteq Nat
        BY <1>1 DEF FreeTail, Block
      <3>3. s \in FreeTail
        BY <3>1, <3>2, FirstIsLeast
      <3>4. s \in s .. (Total - 1)
        BY <1>1, <1>2 DEF Block
      <3> QED  BY <3>3, <3>4 DEF FreeTail
    <2>2. CASE n > 0
      <3>1. s \in s .. (s + n - 1)
        BY <1>1, <1>2, <2>2 DEF Block
      <3> QED  BY <1>2, <3>1
    <2> QED  BY <1>1, <2>1, <2>2
  <1>4. Null \notin Block
    BY DEF Null, Block
  <1>5. s = -ENOMEM => Pointed(size) = Null
    BY DEF Pointed
  <1>6. s # -ENOMEM => Pointed(size) = s
    BY DEF Pointed
  <1> HIDE DEF n, s
  <1> QED  BY <1>2, <1>3, <1>4, <1>5, <1>6 DEF Pointer, n, s

----------------------------------------------------------------------------
\* The heap, whatever was freed.

\* The start of what is live is a block, and taken.
LEMMA StartTaken ==
    ASSUME HeapInv, NEW a \in live
    PROVE  /\ a.start \in Block /\ a.start \in Nat /\ a.n \in Nat \ {0}
           /\ a.start \in Blocks(a) /\ ~IsFree(a.start)
PROOF
  <1>1. a.start \in Block /\ a.start \in Nat /\ a.n \in Nat \ {0}
    BY HeapAssumption DEF HeapInv, Allocation, Block
  <1>2. a.start \in Blocks(a)
    BY <1>1 DEF Blocks
  <1>3. entries[a.start] = Marks(a.start, a.start, a.n)
    BY <1>1, <1>2 DEF HeapInv
  <1>4. "TAKEN" \in entries[a.start]
    BY <1>3 DEF Marks
  <1> QED  BY <1>1, <1>2, <1>4 DEF IsFree

\* Two allocations do not start at the same block.
LEMMA OneStart ==
    ASSUME HeapInv, Apart, NEW a \in live, NEW b \in live, a.start = b.start
    PROVE  a = b
PROOF
  <1>1. a.start \in Blocks(a) \cap Blocks(b) \cap Block
    BY StartTaken
  <1> QED  BY <1>1 DEF Apart

\* The walk from the start of an allocation is over its blocks.
LEMMA WalkIsAllocation ==
    ASSUME HeapInv, NEW a \in live
    PROVE  Chain(a.start) = Blocks(a) \cap Block
PROOF
  <1>1. a.start \in Block /\ a.start \in Nat /\ a.n \in Nat \ {0} /\ Total \in Nat
    BY StartTaken, HeapAssumption
  <1>2. \A b \in Block : b \in Blocks(a) => entries[b] = Marks(b, a.start, a.n)
    BY DEF HeapInv
  <1>3. ASSUME NEW b \in Chain(a.start)
        PROVE  b \in Blocks(a)
    <2>1. b \in Block /\ b >= a.start /\ \A c \in a.start .. (b - 1) : "HAS_NEXT" \in entries[c]
      BY <1>3 DEF Chain
    <2>2. SUFFICES ASSUME b > a.start + a.n - 1 PROVE FALSE
      BY <1>1, <2>1 DEF Blocks, Block
    <2> DEFINE last == a.start + a.n - 1
    <2>3. last \in Block /\ last \in a.start .. (b - 1) /\ last \in Blocks(a)
      BY <1>1, <2>1, <2>2 DEF Block, Blocks
    <2>4. entries[last] = {"TAKEN"}
      BY <1>1, <1>2, <2>3 DEF Marks
    <2> QED  BY <2>1, <2>3, <2>4
  <1>4. ASSUME NEW b \in Block, b \in Blocks(a)
        PROVE  b \in Chain(a.start)
    <2>1. \A c \in a.start .. (b - 1) :
            c \in Block /\ c \in Blocks(a) /\ c < a.start + a.n - 1
      BY <1>1, <1>4 DEF Block, Blocks
    <2>2. \A c \in a.start .. (b - 1) : "HAS_NEXT" \in entries[c]
      BY <1>2, <2>1 DEF Marks
    <2> QED  BY <1>1, <1>4, <2>2 DEF Chain, Blocks, Block
  <1>5. Chain(a.start) \subseteq Block
    BY DEF Chain
  <1> QED  BY <1>3, <1>4, <1>5

\* A free of the pointer to an allocation hits that one alone; a free of a null
\* pointer hits nothing.
LEMMA HitsOne ==
    ASSUME HeapInv, Apart
    PROVE  /\ \A a \in live : Hit(a.start) = {a}
           /\ Hit(Null) = {}
PROOF
  <1>1. ASSUME NEW a \in live PROVE Hit(a.start) = {a}
    <2>1. Chain(a.start) = Blocks(a) \cap Block
      BY WalkIsAllocation
    <2>2. a.start \in Blocks(a) /\ a.start \in Block
      BY StartTaken
    <2>3. \A b \in live : Blocks(b) \cap Chain(a.start) # {} <=> b = a
      BY <2>1, <2>2 DEF Apart
    <2> QED  BY <2>3 DEF Hit
  <1>2. Chain(Null) = {}
    BY DEF Chain, Null, Block
  <1> QED  BY <1>1, <1>2 DEF Hit

\* A malloc takes free blocks, which are of nobody.
LEMMA MallocHeap ==
    ASSUME HeapInv, Apart, NEW size \in Nat, kmalloc(size)
    PROVE  /\ HeapInv' /\ Apart'
           /\ live' = live \cup (IF Pointed(size) # Null /\ total_blocks(size) > 0
                                 THEN {[start |-> Pointed(size), n |-> total_blocks(size)]} ELSE {})
PROOF
  <1> DEFINE n == total_blocks(size)
             s == heap_get_start_block(n)
             new == [start |-> s, n |-> n]
  <1>1. /\ Pointed(size) = Null <=> s = -ENOMEM
        /\ Pointed(size) # Null => /\ Pointed(size) = s /\ s \in Block
                                   /\ \A b \in Block : b \in s .. (s + n - 1) => IsFree(b)
    BY PointedType
  <1>2. CASE s = -ENOMEM
    <2>1. entries' = entries /\ live' = live
      BY <1>2 DEF kmalloc, heap_malloc, heap_malloc_fails, heap_vars
    <2> QED  BY <1>1, <1>2, <2>1 DEF HeapInv, Apart, Blocks, Marks
  <1>3. CASE s # -ENOMEM
    <2>1. /\ entries' = [b \in Block |-> IF b \in s .. (s + n - 1)
                                          THEN entries[b] \cup Marks(b, s, n) ELSE entries[b]]
          /\ live' = live \cup (IF n > 0 THEN {new} ELSE {})
      BY <1>3 DEF kmalloc, heap_malloc, heap_malloc_fails, heap_mark_blocks_taken
    <2>2. n \in Nat /\ s \in Block /\ s \in Nat /\ Total \in Nat
      BY <1>1, <1>3, Rounded, HeapAssumption DEF Block
    <2>3. \A b \in Block : b \in s .. (s + n - 1) => entries[b] = {}
      BY <1>1, <1>3 DEF HeapInv, IsFree, FREE
    <2> HIDE DEF n, s
    <2>4. \A a \in live : Blocks(a) \cap s .. (s + n - 1) \cap Block = {}
      <3> SUFFICES ASSUME NEW a \in live, NEW b \in Block, b \in Blocks(a), b \in s .. (s + n - 1)
                   PROVE  FALSE
        OBVIOUS
      <3>1. "TAKEN" \in entries[b]
        <4>1. entries[b] = Marks(b, a.start, a.n)
          BY DEF HeapInv
        <4> QED  BY <4>1 DEF Marks
      <3> QED  BY <2>3, <3>1
    <2>5. Blocks(new) = s .. (s + n - 1)
      BY DEF Blocks
    <2>6. Apart'
      BY <2>1, <2>4, <2>5 DEF Apart, Blocks
    <2>7. HeapInv'
      <3>1. entries' \in [Block -> SUBSET Flag]
        <4>1. \A b \in Block : Marks(b, s, n) \in SUBSET Flag
          BY DEF Marks, Flag
        <4> QED  BY <2>1, <4>1 DEF HeapInv
      <3>2. live' \subseteq Allocation
        <4>1. n > 0 => new \in Allocation
          BY <2>2 DEF Allocation
        <4> QED  BY <2>1, <4>1 DEF HeapInv
      <3>3. \A b \in Block : entries'[b] = FREE \/ "TAKEN" \in entries'[b]
        BY <2>1 DEF HeapInv, Marks
      <3>4. ASSUME NEW a \in live', NEW b \in Blocks(a) \cap Block
            PROVE  entries'[b] = Marks(b, a.start, a.n)
        <4>1. CASE a \in live
          <5>1. b \notin s .. (s + n - 1)
            BY <2>4, <3>4, <4>1
          <5>2. entries'[b] = entries[b]
            BY <2>1, <3>4, <5>1
          <5> QED  BY <3>4, <4>1, <5>2 DEF HeapInv
        <4>2. CASE a = new
          <5>1. b \in s .. (s + n - 1) /\ b \in Block
            BY <2>5, <3>4, <4>2
          <5>2. entries'[b] = {} \cup Marks(b, s, n)
            BY <2>1, <2>3, <5>1
          <5> QED  BY <4>2, <5>2
        <4> QED  BY <2>1, <3>4, <4>1, <4>2
      <3>5. \A a \in live' : \A b \in Blocks(a)' \cap Block : entries'[b] = Marks(b, a.start, a.n)'
        BY <3>4 DEF Blocks, Marks
      <3> QED  BY <3>1, <3>2, <3>3, <3>5 DEF HeapInv
    <2> QED  BY <1>1, <1>3, <2>1, <2>6, <2>7 DEF n, s
  <1> QED  BY <1>2, <1>3

\* A free of any pointer leaves the blocks of what it does not hit as they are.
LEMMA FreeHeap ==
    ASSUME HeapInv, Apart, NEW pointer, kfree(pointer)
    PROVE  HeapInv' /\ Apart' /\ live' = live \ Hit(pointer)
PROOF
  <1>1. /\ entries' = [b \in Block |-> IF b \in Chain(pointer) THEN FREE ELSE entries[b]]
        /\ live' = live \ Hit(pointer)
    BY DEF kfree, heap_mark_blocks_free
  <1>2. \A a \in live' : a \in live /\ Blocks(a) \cap Chain(pointer) = {}
    BY <1>1 DEF Hit
  <1>3. \A a \in live' : \A b \in Blocks(a) \cap Block : entries'[b] = entries[b]
    BY <1>1, <1>2
  <1>4. HeapInv'
    <2>1. entries' \in [Block -> SUBSET Flag]
      BY <1>1 DEF HeapInv, FREE
    <2>2. \A b \in Block : entries'[b] = FREE \/ "TAKEN" \in entries'[b]
      BY <1>1 DEF HeapInv
    <2>3. \A a \in live' : \A b \in Blocks(a) \cap Block : entries'[b] = Marks(b, a.start, a.n)
      BY <1>2, <1>3 DEF HeapInv
    <2>4. live' \subseteq Allocation
      BY <1>1 DEF HeapInv
    <2> QED  BY <2>1, <2>2, <2>3, <2>4 DEF HeapInv, Blocks, Marks
  <1>5. Apart'
    BY <1>2 DEF Apart, Blocks
  <1> QED  BY <1>1, <1>4, <1>5

----------------------------------------------------------------------------
\* Places.

\* What the places rest on.
Owned == HeapInv /\ Apart /\ OwnedOnce /\ hollow \subseteq Places

\* An allocation has one owner, and a place owns one allocation at most.
LEMMA OwnerFacts ==
    ASSUME Owned, NEW place \in Places, place \notin hollow
    PROVE  /\ Held(place) # Null => \E a \in live : a.start = Held(place) /\ Owners(a) = {place}
           /\ \A a \in live : a.start = Held(place) => Owners(a) = {place}
PROOF
  <1>1. \A a \in live : a.start = Held(place) => place \in Owners(a)
    BY DEF Owners
  <1>2. \A a \in live : place \in Owners(a) => Owners(a) = {place}
    BY DEF Owned, OwnedOnce
  <1>3. Held(place) # Null => \E a \in live : a.start = Held(place)
    BY DEF Owned, OwnedOnce
  <1> QED  BY <1>1, <1>2, <1>3

\* A malloc into an empty place gives what it takes one owner.
LEMMA MallocPlace ==
    ASSUME Owned, NEW place \in Places, NEW size \in Nat, Held(place) = Null, kmalloc(size),
           \A q \in Places : Held(q)' = IF q = place THEN Pointed(size) ELSE Held(q),
           hollow' = IF total_blocks(size) = 0 /\ Pointed(size) # Null
                     THEN hollow \cup {place} ELSE hollow,
           leaked' = leaked
    PROVE  /\ Owned'
           /\ live \subseteq live'
           /\ Pointed(size) # Null /\ total_blocks(size) > 0 => Owns(place, size)'
           /\ \A q \in Places, m \in Nat : Owns(q, m) => Owns(q, m)'
PROOF
  <1> DEFINE x == Pointed(size)
             n == total_blocks(size)
             new == [start |-> x, n |-> n]
  <1>1. /\ HeapInv' /\ Apart'
        /\ live' = live \cup (IF x # Null /\ n > 0 THEN {new} ELSE {})
    BY MallocHeap DEF Owned
  <1>2. n \in Nat /\ (x # Null => IsFree(x))
    BY Rounded, PointedType
  <1>3. place \notin hollow
    BY DEF Owned, OwnedOnce
  <1>4. \A a \in live : a.start # Null /\ (x # Null => a.start # x)
    <2> TAKE a \in live
    <2>1. a.start \in Nat /\ ~IsFree(a.start)
      BY StartTaken DEF Owned
    <2> QED  BY <1>2, <2>1 DEF Null
  <1>5. \A q \in Places \ hollow : x # Null => Held(q) # x
    BY <1>4 DEF Owned, OwnedOnce
  <1> HIDE DEF x, n
  <1>6. /\ \A q \in Places : Held(q)' = IF q = place THEN x ELSE Held(q)
        /\ hollow' = IF n = 0 /\ x # Null THEN hollow \cup {place} ELSE hollow
    BY DEF x, n
  <1>7. \A a \in live : Owners(a)' = Owners(a)
    <2> SUFFICES ASSUME NEW a \in live, NEW q \in Places
                 PROVE  q \notin hollow' /\ Held(q)' = a.start <=> q \notin hollow /\ Held(q) = a.start
      BY DEF Owners
    <2>1. CASE q = place
      BY <1>4, <1>6, <2>1
    <2>2. CASE q # place
      BY <1>6, <2>2
    <2> QED  BY <2>1, <2>2
  <1>8. ASSUME NEW a, a.start = x, x # Null, n > 0
        PROVE  Owners(a)' = {place}
    <2> SUFFICES ASSUME NEW q \in Places
                 PROVE  q \notin hollow' /\ Held(q)' = a.start <=> q = place
      BY DEF Owners
    <2>1. CASE q = place
      BY <1>3, <1>6, <1>8, <2>1
    <2>2. CASE q # place
      BY <1>5, <1>6, <1>8, <2>2
    <2> QED  BY <2>1, <2>2
  <1>9. OwnedOnce'
    <2>0. \A a \in leaked' : a \in live' /\ Owners(a)' = {}
      BY <1>1, <1>7 DEF Owned, OwnedOnce
    <2>1. ASSUME NEW a \in live' \ leaked'
          PROVE  \E q \in Owners(a)' : Owners(a)' = {q}
      <3>1. CASE a \in live
        BY <1>7, <3>1 DEF Owned, OwnedOnce
      <3>2. CASE a \notin live
        <4>1. x # Null /\ n > 0 /\ a = new
          BY <1>1, <3>2
        <4>2. a.start = x
          BY <4>1
        <4> QED  BY <1>8, <4>1, <4>2
      <3> QED  BY <3>1, <3>2
    <2>2. \A q \in Places \ hollow' : Held(q)' # Null => \E a \in live' : a.start = Held(q)'
      <3> SUFFICES ASSUME NEW q \in Places, q \notin hollow', Held(q)' # Null
                   PROVE  \E a \in live' : a.start = Held(q)'
        OBVIOUS
      <3>1. CASE q = place
        <4>1. x # Null /\ n # 0
          BY <1>6, <3>1
        <4>2. new \in live' /\ new.start = Held(q)'
          BY <1>1, <1>2, <1>6, <3>1, <4>1
        <4> QED  BY <4>2
      <3>2. CASE q # place
        BY <1>1, <1>6, <3>2 DEF Owned, OwnedOnce
      <3> QED  BY <3>1, <3>2
    <2>3. hollow' \subseteq {q \in Places : Held(q)' # Null}
      BY <1>3, <1>6 DEF Owned, OwnedOnce
    <2> QED  BY <2>0, <2>1, <2>2, <2>3 DEF OwnedOnce, Owners
  <1>10. x # Null /\ n > 0 => Owns(place, size)'
    <2> SUFFICES ASSUME x # Null, n > 0 PROVE Owns(place, size)'
      OBVIOUS
    <2>1. new \in live' /\ new.start = Held(place)' /\ new.n = total_blocks(size) /\ place \notin hollow'
      BY <1>1, <1>3, <1>6 DEF n
    <2> QED  BY <2>1 DEF Owns
  <1>11. \A q \in Places, m \in Nat : Owns(q, m) => Owns(q, m)'
    <2> SUFFICES ASSUME NEW q \in Places, NEW m \in Nat, Owns(q, m) PROVE Owns(q, m)'
      OBVIOUS
    <2>1. PICK a \in live : a.start = Held(q) /\ a.n = total_blocks(m) /\ q \notin hollow
      BY DEF Owns
    <2>2. q # place
      BY <1>4, <2>1
    <2>3. a \in live' /\ a.start = Held(q)' /\ q \notin hollow'
      BY <1>1, <1>6, <2>1, <2>2
    <2> QED  BY <2>1, <2>3 DEF Owns
  <1>12. hollow' \subseteq Places
    BY <1>6 DEF Owned
  <1> QED  BY <1>1, <1>9, <1>10, <1>11, <1>12 DEF Owned, x, n

\* A refused mapping leaves a pointer that reserves nothing.
LEMMA RefusedPlace ==
    ASSUME Owned, NEW place \in Places, NEW x, Held(place) = Null, x # Null,
           entries' = entries, live' = live,
           \A q \in Places : Held(q)' = IF q = place THEN x ELSE Held(q),
           hollow' = hollow \cup {place}, leaked' = leaked
    PROVE  /\ Owned'
           /\ \A q \in Places, m \in Nat : Owns(q, m) => Owns(q, m)'
PROOF
  <1>1. HeapInv' /\ Apart'
    BY DEF Owned, HeapInv, Apart, Blocks, Marks
  <1>2. \A a \in live : a.start # Null
    BY StartTaken DEF Owned, Null
  <1>3. \A a \in live : Owners(a)' = Owners(a)
    BY <1>2 DEF Owners
  <1>4. OwnedOnce'
    <2>0. \A a \in leaked' : a \in live' /\ Owners(a)' = {}
      BY <1>3 DEF Owned, OwnedOnce
    <2>1. \A a \in live' \ leaked' : \E q \in Owners(a)' : Owners(a)' = {q}
      BY <1>3 DEF Owned, OwnedOnce
    <2>2. \A q \in Places \ hollow' : Held(q)' # Null => \E a \in live' : a.start = Held(q)'
      BY DEF Owned, OwnedOnce
    <2>3. hollow' \subseteq {q \in Places : Held(q)' # Null}
      BY DEF Owned, OwnedOnce
    <2> QED  BY <2>0, <2>1, <2>2, <2>3 DEF OwnedOnce, Owners
  <1>5. \A q \in Places, m \in Nat : Owns(q, m) => Owns(q, m)'
    <2> SUFFICES ASSUME NEW q \in Places, NEW m \in Nat, Owns(q, m) PROVE Owns(q, m)'
      OBVIOUS
    <2>1. PICK a \in live : a.start = Held(q) /\ a.n = total_blocks(m) /\ q \notin hollow
      BY DEF Owns
    <2>2. q # place
      BY <1>2, <2>1
    <2> QED  BY <2>1, <2>2 DEF Owns
  <1> QED  BY <1>1, <1>4, <1>5 DEF Owned

\* A free of what a place holds takes it from nobody who keeps a pointer that
\* reserves; what the other places of S held, where nobody holds anything any
\* more, is leaked.
LEMMA FreePlaces ==
    ASSUME Owned, NEW S, S \subseteq Places, NEW place \in S, kfree(Held(place)),
           hollow' = Hollowed(place) \ S,
           leaked' = (leaked \cup {a \in live : Owners(a) \cap S # {}}) \ Hit(Held(place)),
           \A q \in Places : Held(q)' = IF q \in S THEN Null ELSE Held(q)
    PROVE  /\ Owned'
           /\ \A q \in Places : q \notin S /\ q \notin hollow' =>
                  \A a \in live : a.start = Held(q) => a \in live'
PROOF
  <1> DEFINE hit == Hit(Held(place))
             torn == IF place \in hollow THEN UNION {Owners(a) : a \in hit} ELSE {}
  <1>1. HeapInv' /\ Apart' /\ live' = live \ hit
    BY FreeHeap DEF Owned
  <1>2. hollow' = ((hollow \ {place}) \cup torn) \ S /\ place \in Places
    BY DEF Hollowed
  <1>3. hit \subseteq live
    BY DEF Hit
  <1>4. place \notin hollow => hit \subseteq {a \in live : a.start = Held(place)}
    <2> SUFFICES ASSUME place \notin hollow PROVE hit \subseteq {a \in live : a.start = Held(place)}
      OBVIOUS
    <2>1. CASE Held(place) = Null
      BY <2>1, HitsOne DEF Owned
    <2>2. CASE Held(place) # Null
      BY <1>2, <2>2, OwnerFacts, HitsOne DEF Owned
    <2> QED  BY <2>1, <2>2
  <1>5. \A a \in live : a.start # Null
    BY StartTaken DEF Owned, Null
  <1>6. ASSUME NEW a \in live', NEW q \in Places
        PROVE  q \in Owners(a)' <=> q \in Owners(a) /\ q \notin S
    <2>1. a \in live /\ a \notin hit
      BY <1>1, <1>6
    <2>2. CASE q \in S
      BY <1>5, <2>1, <2>2 DEF Owners
    <2>3. CASE q \notin S
      <3>1. Held(q)' = Held(q)
        BY <2>3
      <3>2. Held(q) = a.start => (q \in torn => FALSE)
        <4> SUFFICES ASSUME Held(q) = a.start, NEW b \in hit, q \in Owners(b) PROVE FALSE
          OBVIOUS
        <4>1. b \in live /\ b.start = a.start
          BY <1>3 DEF Owners
        <4>2. a = b
          BY <2>1, <4>1, OneStart DEF Owned
        <4> QED  BY <2>1, <4>2
      <3> QED  BY <1>2, <2>3, <3>1, <3>2 DEF Owners
    <2> QED  BY <2>2, <2>3
  <1>7. \A a \in live' : Owners(a)' = Owners(a) \ S
    <2> TAKE a \in live'
    <2>1. Owners(a) \subseteq Places /\ Owners(a)' \subseteq Places
      BY DEF Owners
    <2> QED  BY <1>6, <2>1
  <1>8. OwnedOnce'
    <2>1. \A a \in live' \ leaked' : \E q \in Owners(a)' : Owners(a)' = {q}
      <3> TAKE a \in live' \ leaked'
      <3>1. a \in live \ leaked /\ Owners(a) \cap S = {}
        BY <1>1
      <3>2. \E q \in Owners(a) : Owners(a) = {q}
        BY <3>1 DEF Owned, OwnedOnce
      <3>3. Owners(a)' = Owners(a)
        BY <1>7, <3>1
      <3> QED  BY <3>2, <3>3
    <2>0. \A a \in leaked' : a \in live' /\ Owners(a)' = {}
      <3> TAKE a \in leaked'
      <3>1. a \in live /\ a \in live'
        BY <1>1 DEF Owned, OwnedOnce
      <3>2. CASE a \in leaked
        BY <1>7, <3>1, <3>2 DEF Owned, OwnedOnce
      <3>3. CASE a \notin leaked
        <4>1. PICK q \in Owners(a) : Owners(a) = {q}
          BY <3>1, <3>3 DEF Owned, OwnedOnce
        <4> QED  BY <1>7, <3>1, <3>3, <4>1
      <3> QED  BY <3>2, <3>3
    <2>2. \A q \in Places \ hollow' : Held(q)' # Null => \E a \in live' : a.start = Held(q)'
      <3> SUFFICES ASSUME NEW q \in Places, q \notin hollow', Held(q)' # Null
                   PROVE  \E a \in live' : a.start = Held(q)'
        OBVIOUS
      <3>1. q \notin S /\ q # place /\ Held(q)' = Held(q) /\ q \notin hollow /\ q \notin torn
        BY <1>2
      <3>2. PICK a \in live : a.start = Held(q) /\ Owners(a) = {q}
        BY <3>1, OwnerFacts
      <3>3. a \notin hit
        <4>1. CASE place \in hollow
          BY <3>1, <3>2, <4>1
        <4>2. CASE place \notin hollow
          <5> SUFFICES ASSUME a.start = Held(place) PROVE FALSE
            BY <1>4, <4>2
          <5>1. place \in Owners(a)
            BY <1>2, <4>2 DEF Owners
          <5> QED  BY <3>1, <3>2, <5>1
        <4> QED  BY <4>1, <4>2
      <3> QED  BY <1>1, <3>1, <3>2, <3>3
    <2>3. hollow' \subseteq {q \in Places : Held(q)' # Null}
      <3> SUFFICES ASSUME NEW q \in hollow' PROVE q \in Places /\ Held(q)' # Null
        OBVIOUS
      <3>1. CASE q \in hollow /\ q \notin S
        BY <3>1 DEF Owned, OwnedOnce
      <3>2. CASE q \in torn /\ q \notin S
        <4>1. place \in hollow
          BY <3>2
        <4>2. PICK a \in hit : q \in Owners(a)
          BY <3>2, <4>1
        <4>3. q \in Places /\ q \notin hollow /\ Held(q) = a.start /\ a \in live
          BY <1>3, <4>2 DEF Owners
        <4> QED  BY <1>5, <3>2, <4>3
      <3> QED  BY <1>2, <3>1, <3>2
    <2> QED  BY <2>0, <2>1, <2>2, <2>3 DEF OwnedOnce, Owners
  <1>9. hollow' \subseteq Places
    BY <1>2 DEF Owned, Owners
  <1>10. ASSUME NEW q \in Places, q \notin S, q \notin hollow', NEW a \in live, a.start = Held(q)
         PROVE  a \in live'
    <2>1. q \notin hollow /\ q \notin torn /\ q # place
      BY <1>2, <1>10
    <2>2. Owners(a) = {q}
      BY <1>10, <2>1, OwnerFacts
    <2>3. a \notin hit
      <3>1. CASE place \in hollow
        BY <2>1, <2>2, <3>1
      <3>2. CASE place \notin hollow
        <4> SUFFICES ASSUME a.start = Held(place) PROVE FALSE
          BY <1>4, <3>2
        <4>1. place \in Owners(a)
          BY <1>2, <3>2 DEF Owners
        <4> QED  BY <2>1, <2>2, <4>1
      <3> QED  BY <3>1, <3>2
    <2> QED  BY <1>1, <2>3
  <1> QED  BY <1>1, <1>8, <1>9, <1>10 DEF Owned

\* The place alone: nothing is leaked.
LEMMA FreePlace ==
    ASSUME Owned, NEW place \in Places, kfree(Held(place)), Released(place),
           \A q \in Places : Held(q)' = IF q = place THEN Null ELSE Held(q)
    PROVE  /\ Owned'
           /\ \A q \in Places : q # place /\ q \notin hollow' =>
                  \A a \in live : a.start = Held(q) => a \in live'
PROOF
  <1> DEFINE S == {place}
  <1>1. place \notin Hollowed(place)
    BY DEF Hollowed, Owners
  <1>2. \A a \in live : Owners(a) \cap S # {} => a \in Hit(Held(place))
    <2> SUFFICES ASSUME NEW a \in live, place \in Owners(a) PROVE a \in Hit(Held(place))
      OBVIOUS
    <2>1. Held(place) = a.start
      BY DEF Owners
    <2> QED  BY <2>1, HitsOne DEF Owned
  <1>3. hollow' = Hollowed(place) \ S
    BY <1>1 DEF Released
  <1>4. leaked' = (leaked \cup {a \in live : Owners(a) \cap S # {}}) \ Hit(Held(place))
    BY <1>2 DEF Released
  <1>5. \A q \in Places : Held(q)' = IF q \in S THEN Null ELSE Held(q)
    OBVIOUS
  <1>6. S \subseteq Places /\ place \in S
    OBVIOUS
  <1> HIDE DEF S
  <1>7. /\ Owned'
        /\ \A q \in Places : q \notin S /\ q \notin hollow' =>
               \A a \in live : a.start = Held(q) => a \in live'
    BY <1>3, <1>4, <1>5, <1>6, FreePlaces
  <1> QED  BY <1>7 DEF S

----------------------------------------------------------------------------
\* Steps.

\* Nobody who keeps a pointer that reserves loses what it points to.
Kept ==
    \A q \in Places :
        Held(q) # Null /\ Held(q)' = Held(q) /\ q \notin hollow' =>
            \A a \in live : a.start = Held(q) => a \in live'

\* What is written to the page directories is memory of their processes.
OwnOnly ==
    \A p \in Process \ beyond' : writable'[p] \ writable[p] \subseteq OwnPages(p)'

\* The places of a process, and what they hold.
LEMMA PlacesOf ==
    ASSUME NEW p \in Process
    PROVE  /\ <<p, ImagePlace>> \in Places /\ Held(<<p, ImagePlace>>) = image[p]
           /\ <<p, StackPlace>> \in Places /\ Held(<<p, StackPlace>>) = stack[p]
           /\ \A i \in Index : /\ <<p, i>> \in Places /\ Held(<<p, i>>) = allocations[p][i]
                               /\ i \in Nat /\ i # ImagePlace /\ i # StackPlace
PROOF
  <1>1. ImagePlace # StackPlace /\ \A i \in Index : i \in Nat /\ i # ImagePlace /\ i # StackPlace
    BY MemoryAssumption DEF ImagePlace, StackPlace
  <1>2. <<p, ImagePlace>> \in Places /\ <<p, StackPlace>> \in Places
        /\ \A i \in Index : <<p, i>> \in Places
    BY DEF Places
  <1> QED  BY <1>1, <1>2 DEF Held

\* Every place is one of these.
LEMMA EveryPlace ==
    ASSUME NEW q \in Places
    PROVE  \E p \in Process : q = <<p, ImagePlace>> \/ q = <<p, StackPlace>>
                                \/ \E i \in Index : q = <<p, i>>
PROOF
  <1>1. PICK p \in Process, k \in Index \cup {ImagePlace, StackPlace} : q = <<p, k>>
    BY DEF Places
  <1> QED  BY <1>1

\* One place changes at a time: the image of a process.
LEMMA ImageMoves ==
    ASSUME MemoryType, NEW p \in Process, NEW x, image' = [image EXCEPT ![p] = x],
           stack' = stack, allocations' = allocations
    PROVE  \A q \in Places : Held(q)' = IF q = <<p, ImagePlace>> THEN x ELSE Held(q)
PROOF
  <1> SUFFICES ASSUME NEW r \in Process, NEW k \in Index \cup {ImagePlace, StackPlace}
               PROVE  Held(<<r, k>>)' = IF <<r, k>> = <<p, ImagePlace>> THEN x ELSE Held(<<r, k>>)
    BY DEF Places
  <1>1. image'[r] = IF r = p THEN x ELSE image[r]
    BY DEF MemoryType
  <1>2. k # ImagePlace => Held(<<r, k>>)' = Held(<<r, k>>)
    BY DEF Held
  <1>3. k = ImagePlace => Held(<<r, k>>)' = image'[r] /\ Held(<<r, k>>) = image[r]
    BY DEF Held, ImagePlace, StackPlace
  <1> QED  BY <1>1, <1>2, <1>3

\* The stack of a process.
LEMMA StackMoves ==
    ASSUME MemoryType, NEW p \in Process, NEW x, stack' = [stack EXCEPT ![p] = x],
           image' = image, allocations' = allocations
    PROVE  \A q \in Places : Held(q)' = IF q = <<p, StackPlace>> THEN x ELSE Held(q)
PROOF
  <1> SUFFICES ASSUME NEW r \in Process, NEW k \in Index \cup {ImagePlace, StackPlace}
               PROVE  Held(<<r, k>>)' = IF <<r, k>> = <<p, StackPlace>> THEN x ELSE Held(<<r, k>>)
    BY DEF Places
  <1>1. stack'[r] = IF r = p THEN x ELSE stack[r]
    BY DEF MemoryType
  <1>2. k # StackPlace => Held(<<r, k>>)' = Held(<<r, k>>)
    BY DEF Held
  <1>3. k = StackPlace => Held(<<r, k>>)' = stack'[r] /\ Held(<<r, k>>) = stack[r]
    BY PlacesOf DEF Held, ImagePlace, StackPlace
  <1> QED  BY <1>1, <1>2, <1>3

\* A slot of its allocations.
LEMMA SlotMoves ==
    ASSUME MemoryType, NEW p \in Process, NEW i \in Index, NEW x,
           allocations' = [allocations EXCEPT ![p][i] = x], image' = image, stack' = stack
    PROVE  \A q \in Places : Held(q)' = IF q = <<p, i>> THEN x ELSE Held(q)
PROOF
  <1> SUFFICES ASSUME NEW r \in Process, NEW k \in Index \cup {ImagePlace, StackPlace}
               PROVE  Held(<<r, k>>)' = IF <<r, k>> = <<p, i>> THEN x ELSE Held(<<r, k>>)
    BY DEF Places
  <1>1. i # ImagePlace /\ i # StackPlace
    BY PlacesOf
  <1>2. \A j \in Index : allocations'[r][j] = IF r = p /\ j = i THEN x ELSE allocations[r][j]
    BY DEF MemoryType
  <1>3. CASE k \in {ImagePlace, StackPlace}
    BY <1>1, <1>3 DEF Held
  <1>4. CASE k \in Index
    <2>1. k # ImagePlace /\ k # StackPlace
      BY <1>4, PlacesOf
    <2>2. Held(<<r, k>>)' = allocations'[r][k] /\ Held(<<r, k>>) = allocations[r][k]
      BY <2>1 DEF Held
    <2> QED  BY <1>2, <1>4, <2>2
  <1> QED  BY <1>3, <1>4

\* What a step that moves no memory keeps.
LEMMA NothingMoves ==
    ASSUME Owned, UNCHANGED <<entries, live, hollow, leaked, image, stack, allocations>>
    PROVE  /\ Owned' /\ Kept
           /\ \A q \in Places : Held(q)' = Held(q)
           /\ \A q \in Places, m \in Nat : Owns(q, m) => Owns(q, m)'
PROOF
  <1>1. \A q \in Places : Held(q)' = Held(q)
    BY DEF Held
  <1>2. \A a : Owners(a)' = Owners(a)
    BY <1>1 DEF Owners
  <1>3. HeapInv' /\ Apart'
    BY DEF Owned, HeapInv, Apart, Blocks, Marks
  <1>4. OwnedOnce'
    BY <1>1, <1>2 DEF Owned, OwnedOnce
  <1>5. Kept
    BY DEF Kept
  <1>6. \A q \in Places, m \in Nat : Owns(q, m) => Owns(q, m)'
    BY <1>1 DEF Owns
  <1> QED  BY <1>1, <1>3, <1>4, <1>5, <1>6 DEF Owned

\* A slot that is empty is empty.
LEMMA NextSlot ==
    ASSUME NEW p \in Process, FreeIndexes(p) # {}
    PROVE  /\ process_get_next_allocation_index(p) \in Index
           /\ allocations[p][process_get_next_allocation_index(p)] = Null
PROOF
  <1>1. FreeIndexes(p) \subseteq Nat
    BY MemoryAssumption DEF FreeIndexes
  <1>2. PICK i \in FreeIndexes(p) : \A j \in FreeIndexes(p) : i <= j
    BY <1>1, LeastExists
  <1>3. process_get_next_allocation_index(p) \in FreeIndexes(p)
    BY <1>2 DEF process_get_next_allocation_index, LowestIndex
  <1> QED  BY <1>3 DEF FreeIndexes

\* The address of a pointer.
LEMMA AddressType ==
    ASSUME NEW s \in Pointer
    PROVE  Address(s) \in Nat
PROOF
  <1>1. BlockSize \in Nat \ {0} /\ Base \in Nat \ {0} /\ Total \in Nat \ {0}
    BY HeapAssumption, MemoryAssumption
  <1>2. CASE s = Null
    BY <1>2 DEF Address
  <1>3. CASE s \in Nat
    <2>1. \A k \in Nat : k * BlockSize \in Nat
      BY <1>1
    <2>2. Base + s \in Nat
      BY <1>1, <1>3
    <2> QED  BY <1>3, <2>1, <2>2 DEF Address, Null
  <1> QED  BY <1>1, <1>2, <1>3 DEF Pointer, Block

\* The end of what is mapped, and its pages.
LEMMA MapTypes ==
    ASSUME NEW at \in Nat, NEW size \in Nat
    PROVE  MapEnd(at, size) \in Nat /\ Mapped(at, size) \subseteq Int
PROOF
  <1>1. BlockSize \in Nat \ {0} /\ Word \in Nat \ {0}
    BY HeapAssumption
  <1>2. \A x \in Nat : x % Word \in Nat /\ x % BlockSize \in 0 .. (BlockSize - 1)
    BY <1>1
  <1>3. ASSUME NEW x \in Nat PROVE paging_align_address(x) \in Nat
    <2> DEFINE up == x + (BlockSize - (x % BlockSize))
    <2>1. up \in Nat
      BY <1>1, <1>2
    <2>2. up % Word \in Nat
      BY <1>2, <2>1
    <2> QED  BY <2>2 DEF paging_align_address
  <1>4. MapEnd(at, size) \in Nat
    BY <1>2, <1>3 DEF MapEnd
  <1>5. \A x \in Nat : x \div BlockSize \in Int
    BY <1>1
  <1>6. Mapped(at, size) \subseteq Int
    BY <1>4, <1>5 DEF Mapped
  <1> QED  BY <1>4, <1>6

\* The pages that are mapped for a block are those of the blocks that a malloc
\* of that size takes: rounding agrees, and where the end wraps it is none.
LEMMA MappedInBlocks ==
    ASSUME NEW s \in Block, NEW size \in 0 .. (Word - 1)
    PROVE  Mapped(Address(s), size) \subseteq {Base + b : b \in s .. (s + total_blocks(size) - 1)}
PROOF
  <1>1. /\ BlockSize \in Nat \ {0} /\ Word \in Nat \ {0} /\ Base \in Nat \ {0} /\ Total \in Nat \ {0}
        /\ s \in Nat /\ s < Total /\ size \in Nat /\ size < Word
        /\ (Base + Total) * BlockSize <= Word
    BY HeapAssumption, MemoryAssumption DEF Block
  <1> DEFINE T(k) == k * BlockSize
             at == T(Base + s)
             q == size \div BlockSize
             r == size % BlockSize
             x == (at + size) % Word
  <1>2. Address(s) = at
    BY <1>1 DEF Address, Null
  <1>3. \A k \in Nat : T(k) \in Nat /\ T(k) \div BlockSize = k /\ T(k) % BlockSize = 0
    BY <1>1
  <1>parts. \A k \in Nat, m \in 0 .. (BlockSize - 1) :
               (T(k) + m) % BlockSize = m /\ (T(k) + m) \div BlockSize = k
    BY <1>1
  <1>sum. \A k, m \in Nat : T(k) + T(m) = T(k + m)
    BY <1>1
  <1>next. \A k \in Nat : T(k + 1) = T(k) + BlockSize
    BY <1>1
  <1>less. \A k, m \in Nat : k <= m => T(k) <= T(m)
    BY <1>1
  <1>4. \A k, y \in Nat : y <= T(k) => y \div BlockSize <= k
    BY <1>1
  <1>5. size = T(q) + r /\ q \in Nat /\ r \in 0 .. (BlockSize - 1)
    BY <1>1
  <1>6. at + BlockSize <= Word /\ at \in Nat /\ at > 0 /\ at \div BlockSize = Base + s /\ Base + s \in Nat
    <2>1. Base + s \in Nat /\ (Base + s) + 1 <= Base + Total
      BY <1>1
    <2>2. T((Base + s) + 1) <= T(Base + Total)
      BY <1>1, <2>1
    <2>3. at > 0
      BY <1>1
    <2> HIDE DEF T
    <2>4. T(Base + Total) <= Word
      BY <1>1 DEF T
    <2>5. T((Base + s) + 1) = T(Base + s) + BlockSize /\ T(Base + s) \in Nat
          /\ T(Base + s) \div BlockSize = Base + s
      BY <1>3, <1>next, <2>1
    <2>6. T(Base + Total) \in Nat
      <3>1. Base + Total \in Nat
        BY <1>1
      <3> QED  BY <1>3, <3>1
    <2> QED  BY <1>1, <2>1, <2>2, <2>3, <2>4, <2>5, <2>6
  <1>7. MapEnd(Address(s), size) = paging_align_address(x)
    BY <1>2 DEF MapEnd
  <1>8. Mapped(Address(s), size) = (Base + s) .. ((MapEnd(Address(s), size) \div BlockSize) - 1)
    BY <1>2, <1>6 DEF Mapped
  <1>9. ASSUME NEW y \in Nat
        PROVE  LET d == y \div BlockSize
               IN  /\ d \in Nat /\ y = T(d) + (y % BlockSize) /\ y % BlockSize \in 0 .. (BlockSize - 1)
                   /\ y + (BlockSize - (y % BlockSize)) = T(d + 1)
    <2>1. y \div BlockSize \in Nat /\ y = T(y \div BlockSize) + (y % BlockSize)
          /\ y % BlockSize \in 0 .. (BlockSize - 1)
      BY <1>1
    <2>2. T((y \div BlockSize) + 1) = T(y \div BlockSize) + BlockSize /\ T(y \div BlockSize) \in Nat
      BY <1>3, <1>next, <2>1
    <2> DEFINE d == y \div BlockSize
               m == y % BlockSize
    <2> HIDE DEF T, d, m
    <2>4. d \in Nat /\ y = T(d) + m /\ m \in 0 .. (BlockSize - 1) /\ T(d + 1) = T(d) + BlockSize /\ T(d) \in Nat
      BY <2>1, <2>2 DEF d, m
    <2>5. y + (BlockSize - m) = T(d + 1)
      BY <1>1, <2>4
    <2> QED  BY <2>4, <2>5 DEF d, m
  <1>10. \A y \in Nat : y < Word => y % Word = y
    BY <1>1
  <1>11. \A y \in Nat : y >= Word /\ y < Word + Word => y % Word = y - Word
    BY <1>1
  <1> HIDE DEF T, at, q, r, x
  <1>range. ASSUME NEW j \in Nat, NEW e \in (Base + s) .. (((Base + s) + j) - 1)
            PROVE  e \in {Base + b : b \in s .. (s + j - 1)}
    <2>1. e - Base \in s .. (s + j - 1) /\ e = Base + (e - Base)
      BY <1>1, <1>range
    <2> QED  BY <2>1
  <1>12. at + size \in Nat /\ at + size < Word + Word
    BY <1>1, <1>6
  <1>13. CASE at + size >= Word
    <2>1. x = (at + size) - Word /\ x \in Nat /\ x < at
      BY <1>1, <1>6, <1>11, <1>12, <1>13 DEF x
    <2>2. MapEnd(Address(s), size) \in Nat /\ MapEnd(Address(s), size) <= at
      <3>1. CASE x % BlockSize = 0
        BY <1>6, <1>7, <2>1, <3>1 DEF paging_align_address
      <3>2. CASE x % BlockSize # 0
        <4> DEFINE d == x \div BlockSize
                   m == x % BlockSize
        <4>1. d \in Nat /\ x = T(d) + m /\ x + (BlockSize - m) = T(d + 1) /\ m \in 0 .. (BlockSize - 1)
          BY <1>9, <2>1
        <4>5. paging_align_address(x) = (x + (BlockSize - m)) % Word
          BY <3>2 DEF paging_align_address
        <4> HIDE DEF d, m
        <4>2. ~(Base + s <= d)
          <5>1. T(d) \in Nat /\ T(d) < at
            BY <1>1, <1>3, <1>6, <2>1, <4>1
          <5>2. ~(at <= T(d))
            BY <1>6, <5>1
          <5> QED  BY <1>6, <1>less, <4>1, <5>2 DEF at
        <4>3. T(d + 1) <= at
          <5>1. d + 1 \in Nat /\ d + 1 <= Base + s
            BY <1>6, <4>1, <4>2
          <5> QED  BY <1>6, <1>less, <5>1 DEF at
        <4>4. T(d + 1) \in Nat /\ T(d + 1) < Word
          <5>1. d + 1 \in Nat
            BY <4>1
          <5>2. T(d + 1) \in Nat
            BY <1>3, <5>1
          <5> HIDE DEF T
          <5> QED  BY <1>1, <1>6, <4>3, <5>2
        <4> QED  BY <1>7, <1>10, <4>1, <4>3, <4>4, <4>5
      <3> QED  BY <3>1, <3>2
    <2>3. MapEnd(Address(s), size) \div BlockSize <= Base + s
      BY <1>4, <1>6, <2>2 DEF at
    <2>4. MapEnd(Address(s), size) \div BlockSize \in Int
      BY <1>1, <2>2
    <2> QED  BY <1>1, <1>8, <2>3, <2>4
  <1>14. CASE at + size < Word
    <2>1. x = at + size /\ x \in Nat
      BY <1>10, <1>12, <1>14 DEF x
    <2> DEFINE k == (Base + s) + q
    <2>2. k \in Nat /\ T(k) = at + T(q) /\ T(q) \in Nat /\ T(k + 1) = T(k) + BlockSize
          /\ T(q + 1) = T(q) + BlockSize
      <3>1. k \in Nat
        BY <1>5, <1>6
      <3>2. T(Base + s) + T(q) = T((Base + s) + q)
        BY <1>5, <1>6, <1>sum
      <3>3. T(q) \in Nat /\ T(q + 1) = T(q) + BlockSize
        BY <1>3, <1>5, <1>next
      <3>4. T(k + 1) = T(k) + BlockSize
        BY <3>1, <1>next
      <3> QED  BY <3>1, <3>2, <3>3, <3>4 DEF at
    <2>6. k = (Base + s) + q
      OBVIOUS
    <2> HIDE DEF k
    <2>7. x = T(k) + r
      BY <1>1, <1>5, <1>6, <2>1, <2>2
    <2>3. x = T(k) + r /\ x % BlockSize = r /\ x \div BlockSize = k
      BY <1>5, <1>parts, <2>2, <2>7
    <2>4. CASE r = 0
      <3>1. MapEnd(Address(s), size) = x
        BY <1>7, <2>3, <2>4 DEF paging_align_address
      <3>2. total_blocks(size) = q
        BY <2>4 DEF total_blocks, heap_align_size, q, r
      <3>3. Mapped(Address(s), size) = (Base + s) .. (((Base + s) + q) - 1)
        BY <1>8, <2>3, <2>6, <3>1
      <3> QED  BY <1>5, <1>range, <3>2, <3>3
    <2>5. CASE r # 0
      <3> DEFINE y == T(k + 1)
      <3>1. y \in Nat /\ y = x + (BlockSize - r) /\ y = at + T(q + 1)
        BY <1>1, <1>5, <1>6, <2>2, <2>7
      <3> HIDE DEF y
      <3>5. y \div BlockSize = k + 1
        BY <1>3, <2>2 DEF y
      <3>2. MapEnd(Address(s), size) = y % Word
        <4>1. paging_align_address(x) = (x + (BlockSize - (x % BlockSize))) % Word
          BY <2>3, <2>5 DEF paging_align_address
        <4> QED  BY <1>7, <2>3, <3>1, <4>1
      <3>3. CASE y < Word
        <4>1. MapEnd(Address(s), size) \div BlockSize = k + 1
          BY <1>10, <3>1, <3>2, <3>3, <3>5
        <4>2. T(q + 1) \in Nat /\ T(q + 1) < Word /\ T(q + 1) = (size - r) + BlockSize
          BY <1>1, <1>5, <1>6, <2>2, <3>1, <3>3
        <4>3. heap_align_size(size) = T(q + 1)
          BY <1>10, <2>5, <4>2 DEF heap_align_size, r
        <4>4. total_blocks(size) = q + 1
          BY <1>3, <1>5, <4>3 DEF total_blocks
        <4>5. q + 1 \in Nat /\ k + 1 = (Base + s) + (q + 1)
          BY <1>5, <1>6, <2>6
        <4>6. Mapped(Address(s), size) = (Base + s) .. (((Base + s) + (q + 1)) - 1)
          BY <1>8, <4>1, <4>5
        <4> QED  BY <1>range, <4>4, <4>5, <4>6
      <3>4. CASE y >= Word
        <4>1. y < Word + BlockSize /\ BlockSize <= Word
          BY <1>1, <1>5, <1>6, <1>14, <2>1, <3>1
        <4>2. y % Word = y - Word /\ y - Word \in 0 .. (BlockSize - 1)
          BY <1>1, <1>11, <3>1, <3>4, <4>1
        <4>3. \A m \in 0 .. (BlockSize - 1) : m \div BlockSize = 0
          BY <1>1
        <4>4. MapEnd(Address(s), size) \div BlockSize = 0
          BY <3>2, <4>2, <4>3
        <4> QED  BY <1>1, <1>8, <4>4
      <3> QED  BY <1>1, <3>1, <3>3, <3>4
    <2> QED  BY <2>4, <2>5
  <1> QED  BY <1>1, <1>12, <1>13, <1>14

\* The blocks of a size that does not wrap hold it.
LEMMA RoundedUp ==
    ASSUME NEW size \in 1 .. (Word - BlockSize)
    PROVE  size <= total_blocks(size) * BlockSize
PROOF
  <1>1. BlockSize \in Nat \ {0} /\ Word \in Nat \ {0} /\ size \in Nat /\ size + BlockSize <= Word
    BY HeapAssumption
  <1> DEFINE T(k) == k * BlockSize
             q == size \div BlockSize
             r == size % BlockSize
  <1>2. size = T(q) + r /\ q \in Nat /\ r \in 0 .. (BlockSize - 1)
    BY <1>1
  <1>3. T(q) \in Nat /\ T(q + 1) = T(q) + BlockSize
    BY <1>1, <1>2
  <1>4. T(q) \div BlockSize = q /\ T(q + 1) \div BlockSize = q + 1
    BY <1>1, <1>2
  <1>5. \A y \in Nat : y < Word => y % Word = y
    BY <1>1
  <1> HIDE DEF T, q, r
  <1>6. CASE r = 0
    <2>1. heap_align_size(size) = T(q)
      BY <1>2, <1>6, <1>3 DEF heap_align_size, r
    <2>2. total_blocks(size) = q
      BY <1>4, <2>1 DEF total_blocks
    <2> QED  BY <1>2, <1>3, <1>6, <2>2 DEF T
  <1>7. CASE r # 0
    <2>1. (size - r) + BlockSize = T(q + 1) /\ T(q + 1) \in Nat /\ T(q + 1) < Word /\ size <= T(q + 1)
      BY <1>1, <1>2, <1>3, <1>7
    <2>2. heap_align_size(size) = T(q + 1)
      BY <1>5, <1>7, <2>1 DEF heap_align_size, r
    <2>3. total_blocks(size) = q + 1
      BY <1>4, <2>2 DEF total_blocks
    <2> QED  BY <2>1, <2>3 DEF T
  <1> QED  BY <1>6, <1>7

\* A segment within its file is mapped to pages of the image.
LEMMA SegmentInImage ==
    ASSUME NEW s \in Block, NEW offset \in Nat, NEW memsz \in Nat,
           offset + memsz <= ImageSize, Address(s) + offset + memsz <= Word
    PROVE  Mapped((Address(s) + offset) % Word, memsz)
               \subseteq {Base + b : b \in s .. (s + total_blocks(ImageSize) - 1)}
PROOF
  <1>1. /\ BlockSize \in Nat \ {0} /\ Word \in Nat \ {0} /\ Base \in Nat \ {0} /\ s \in Nat
        /\ ImageSize \in 1 .. (Word - BlockSize) /\ ImageSize \in Nat
    BY HeapAssumption, MemoryAssumption DEF Block
  <1> DEFINE T(k) == k * BlockSize
             n == total_blocks(ImageSize)
             k == Base + s
             from == T(k) + offset
             to == from + memsz
             first == from % Word
  <1>2. Address(s) = T(k)
    BY <1>1 DEF Address, Null
  <1>3. n \in Nat /\ k \in Nat /\ k > 0 /\ k + n \in Nat /\ ImageSize <= T(n)
    BY <1>1, Rounded, RoundedUp
  <1>4. \A i \in Nat : T(i) \in Nat
    BY <1>1
  <1>sum. \A i, j \in Nat : T(i) + T(j) = T(i + j)
    BY <1>1
  <1>less. \A i, j \in Nat : i <= j => T(i) <= T(j)
    BY <1>1
  <1>up. \A i, y \in Nat : y <= T(i) => y \div BlockSize <= i
    BY <1>1
  <1>down. \A i, y \in Nat : T(i) <= y => i <= y \div BlockSize
    BY <1>1
  <1>5. \A y \in Nat : y % Word \in Nat /\ y % Word <= y /\ (y < Word => y % Word = y)
    BY <1>1
  <1>6. ASSUME NEW y \in Nat
        PROVE  LET d == y \div BlockSize
               IN  /\ d \in Nat /\ T(d) <= y /\ y % BlockSize \in 0 .. (BlockSize - 1)
                   /\ y + (BlockSize - (y % BlockSize)) = T(d + 1)
                   /\ y % BlockSize # 0 => T(d) < y
    <2> DEFINE d == y \div BlockSize
               m == y % BlockSize
    <2>1. d \in Nat /\ y = T(d) + m /\ m \in 0 .. (BlockSize - 1)
      BY <1>1
    <2>2. T(d + 1) = T(d) + BlockSize /\ T(d) \in Nat
      BY <1>1, <2>1
    <2> HIDE DEF T, d, m
    <2>3. T(d) <= y /\ y + (BlockSize - m) = T(d + 1) /\ (m # 0 => T(d) < y)
      BY <1>1, <2>1, <2>2
    <2> QED  BY <2>1, <2>3 DEF d, m
  <1>0. 0 % Word = 0 /\ Word % Word = 0 /\ 0 % BlockSize = 0 /\ 0 \div BlockSize = 0
    BY <1>1
  <1> HIDE DEF T, n, k
  <1>7. from \in Nat /\ to \in Nat /\ from <= to /\ to <= Word /\ to <= T(k + n)
    <2>1. T(k) \in Nat /\ T(n) \in Nat /\ T(k + n) = T(k) + T(n)
      BY <1>3, <1>4, <1>sum
    <2> QED  BY <1>1, <1>2, <1>3, <2>1
  <1>8. k <= from \div BlockSize
    <2>1. T(k) <= from
      BY <1>3, <1>4
    <2> QED  BY <1>3, <1>7, <1>down, <2>1
  <1>first. first = from % Word
    OBVIOUS
  <1> HIDE DEF from, to, first
  <1>9. CASE to = Word
    <2>1. (first + memsz) % Word = 0
      <3>1. CASE from = Word
        <4>1. first = 0 /\ memsz = 0
          BY <1>0, <1>7, <1>9, <1>first, <3>1 DEF to
        <4> QED  BY <1>0, <4>1
      <3>2. CASE from # Word
        <4>1. first = from
          BY <1>1, <1>5, <1>7, <1>first, <3>2
        <4>2. first + memsz = Word
          BY <1>9, <4>1 DEF to
        <4>3. \A x : x = Word => x % Word = 0
          BY <1>0
        <4>4. (first + memsz) % Word = 0
          BY <4>2, <4>3
        <4> QED  BY <4>4
      <3> QED  BY <3>1, <3>2
    <2>2. MapEnd(first, memsz) = 0
      BY <1>0, <2>1 DEF MapEnd, paging_align_address
    <2>3. first \div BlockSize \in Nat
      BY <1>1, <1>5, <1>7, <1>first
    <2>4. Mapped(first, memsz) = (first \div BlockSize) .. (0 - 1)
      BY <1>0, <2>2 DEF Mapped
    <2>5. Mapped(first, memsz) = {}
      BY <2>3, <2>4
    <2> QED  BY <1>2, <1>first, <2>5 DEF from
  <1>10. CASE to # Word
    <2>1. first = from /\ (first + memsz) % Word = to
      BY <1>1, <1>5, <1>7, <1>10, <1>first DEF to
    <2> DEFINE end == MapEnd(first, memsz)
               d == to \div BlockSize
    <2>2. end = paging_align_address(to)
      BY <2>1 DEF MapEnd
    <2>3. end \in Nat /\ end <= T(k + n)
      <3>1. CASE to % BlockSize = 0
        BY <1>7, <2>2, <3>1 DEF paging_align_address
      <3>2. CASE to % BlockSize # 0
        <4>1. d \in Nat /\ to + (BlockSize - (to % BlockSize)) = T(d + 1) /\ T(d) < to
          BY <1>6, <1>7, <3>2
        <4>2. end = T(d + 1) % Word
          BY <2>2, <3>2, <4>1 DEF paging_align_address
        <4> HIDE DEF d, end
        <4>3. ~(k + n <= d)
          <5>1. T(d) \in Nat /\ T(k + n) \in Nat
            BY <1>3, <1>4, <4>1
          <5> QED  BY <1>3, <1>7, <1>less, <4>1, <5>1
        <4>4. d + 1 \in Nat /\ d + 1 <= k + n
          BY <1>3, <4>1, <4>3
        <4>5. T(d + 1) \in Nat /\ T(d + 1) <= T(k + n) /\ T(k + n) \in Nat
          BY <1>3, <1>4, <1>less, <4>4
        <4>6. T(d + 1) % Word \in Nat /\ T(d + 1) % Word <= T(d + 1)
          BY <1>5, <4>5
        <4> QED  BY <4>2, <4>5, <4>6
      <3> QED  BY <3>1, <3>2
    <2>4. end \div BlockSize <= k + n /\ end \div BlockSize \in Int /\ from \div BlockSize \in Int
      BY <1>1, <1>3, <1>7, <1>up, <2>3
    <2>5. Mapped(first, memsz) = (from \div BlockSize) .. ((end \div BlockSize) - 1)
      BY <2>1 DEF Mapped
    <2> HIDE DEF end
    <2>6. ASSUME NEW j \in Mapped(first, memsz)
          PROVE  j \in {Base + b : b \in s .. (s + n - 1)}
      <3>1. j \in Int /\ k <= j /\ j <= k + n - 1
        BY <1>3, <1>8, <2>4, <2>5, <2>6
      <3>2. j - Base \in s .. (s + n - 1) /\ j = Base + (j - Base)
        BY <1>1, <1>3, <3>1 DEF k
      <3> QED  BY <3>2
    <2> QED  BY <1>2, <1>first, <2>6 DEF from, n
  <1> QED  BY <1>9, <1>10

\* What is owned for a size is memory of the process, all its pages.
LEMMA OwnsPages ==
    ASSUME NEW p \in Process, NEW k, <<p, k>> \in Places, NEW size \in 0 .. (Word - 1), HeapInv',
           Owns(<<p, k>>, size)'
    PROVE  LET at == Held(<<p, k>>)'
           IN  /\ at \in Block
               /\ {Base + b : b \in at .. (at + total_blocks(size) - 1)} \subseteq OwnPages(p)'
               /\ Mapped(Address(at), size) \subseteq OwnPages(p)'
PROOF
  <1>1. PICK a \in live' : a.start = Held(<<p, k>>)' /\ a.n = total_blocks(size) /\ <<p, k>> \notin hollow'
    BY DEF Owns
  <1>2. a \in Allocation
    BY <1>1 DEF HeapInv
  <1>3. a.start \in Block
    BY <1>2 DEF Allocation
  <1>4. Has(p, a)'
    <2>1. <<p, k>> \in Owners(a)'
      BY <1>1 DEF Owners
    <2> QED  BY <2>1 DEF Has
  <1>5. PagesOf(a)' \subseteq OwnPages(p)'
    BY <1>1, <1>4 DEF OwnPages
  <1>6. Mapped(Address(a.start), size) \subseteq {Base + b : b \in a.start .. (a.start + total_blocks(size) - 1)}
    BY <1>3, MappedInBlocks
  <1>7. PagesOf(a)' = {Base + b : b \in a.start .. (a.start + total_blocks(size) - 1)}
    BY <1>1 DEF PagesOf, Blocks
  <1> QED  BY <1>1, <1>3, <1>5, <1>6, <1>7

\* A process is given to write what it has, or is listed.
LEMMA WritesOwn ==
    ASSUME MemoryType, NEW p \in Process, NEW pages, NEW own, Writes(p, pages, own),
           pages \subseteq Int, own => pages \subseteq OwnPages(p)'
    PROVE  OwnOnly /\ writable' \in [Process -> SUBSET Int]
PROOF
  <1>1. /\ writable' = [writable EXCEPT ![p] = @ \cup pages]
        /\ beyond' = IF own \/ pages = {} THEN beyond ELSE beyond \cup {p}
    BY DEF Writes
  <1>2. writable' \in [Process -> SUBSET Int]
    BY <1>1 DEF MemoryType
  <1>3. \A r \in Process : writable'[r] \ writable[r] \subseteq (IF r = p THEN pages ELSE {})
    BY <1>1 DEF MemoryType
  <1>4. p \notin beyond' => pages \subseteq OwnPages(p)'
    BY <1>1
  <1> QED  BY <1>2, <1>3, <1>4 DEF OwnOnly

\* process_malloc_flags: a slot gets what the heap gives; a pointer that is
\* returned is one to memory of the process, for all the pages of the size.
LEMMA ProcessMallocFlags ==
    ASSUME Owned, MemoryType, NEW p \in Process, NEW size \in 0 .. (Word - 1),
           process_malloc_flags(p, size), image' = image, stack' = stack
    PROVE  /\ Owned' /\ Kept
           /\ allocations' \in [Process -> [Index -> Pointer]]
           /\ \A q \in Places, m \in Nat : Owns(q, m) => Owns(q, m)'
           /\ Given(p, size) \in Pointer
           /\ Given(p, size) # Null =>
                  Mapped(Address(Given(p, size)), size) \subseteq OwnPages(p)'
PROOF
  <1> DEFINE x == Pointed(size)
  <1>1. size \in Nat /\ x \in Pointer /\ Null \in Pointer
    BY HeapAssumption, PointedType DEF Pointer
  <1>2. Given(p, size) \in Pointer
    BY <1>1 DEF Given
  <1>3. CASE FreeIndexes(p) = {}
    <2>1. UNCHANGED <<entries, live, hollow, leaked, image, stack, allocations>>
      BY <1>3 DEF process_malloc_flags, heap
    <2>2. Given(p, size) = Null
      BY <1>3 DEF Given, Refused
    <2> QED  BY <1>2, <2>1, <2>2, NothingMoves DEF MemoryType
  <1>4. CASE FreeIndexes(p) # {}
    <2>1. PICK i \in Index : i = process_get_next_allocation_index(p) /\ allocations[p][i] = Null
      BY <1>4, NextSlot
    <2>2. <<p, i>> \in Places /\ Held(<<p, i>>) = Null
      BY <2>1, PlacesOf
    <2>3. CASE MappingRefused(p, size)
      <3>1. /\ MapFails(Address(x), size)
            /\ allocations' = [allocations EXCEPT ![p][i] = x]
            /\ hollow' = hollow \cup {<<p, i>>} /\ leaked' = leaked
            /\ entries' = entries /\ live' = live
        BY <2>1, <2>3 DEF MappingRefused
      <3>2. x # Null
        <4>1. Address(Null) = 0 /\ MapEnd(0, size) \in Nat
          BY <1>1, MapTypes DEF Address
        <4>2. 0 - (0 % BlockSize) = 0
          BY HeapAssumption
        <4> QED  BY <3>1, <4>1, <4>2 DEF MapFails
      <3>3. Given(p, size) = Null
        BY <3>1 DEF Given, Refused
      <3> HIDE DEF x
      <3>4. \A q \in Places : Held(q)' = IF q = <<p, i>> THEN x ELSE Held(q)
        BY <2>1, <3>1, SlotMoves
      <3>5. Owned' /\ \A q \in Places, m \in Nat : Owns(q, m) => Owns(q, m)'
        BY <2>2, <3>1, <3>2, <3>4, RefusedPlace
      <3>6. allocations' \in [Process -> [Index -> Pointer]]
        BY <1>1, <2>1, <3>1 DEF MemoryType
      <3>7. Kept
        BY <3>1 DEF Kept
      <3> QED  BY <1>2, <3>3, <3>5, <3>6, <3>7
    <2>4. CASE MappedAt(p, size)
      <3>1. /\ kmalloc(size)
            /\ allocations' = [allocations EXCEPT ![p][i] = x]
            /\ hollow' = IF total_blocks(size) = 0 /\ x # Null THEN hollow \cup {<<p, i>>} ELSE hollow
            /\ leaked' = leaked
        BY <2>1, <2>4 DEF MappedAt
      <3>2. Given(p, size) = x
        BY <1>4, <2>4 DEF Given, Refused, MappedAt
      <3>3. \A q \in Places : Held(q)' = IF q = <<p, i>> THEN x ELSE Held(q)
        BY <2>1, <3>1, SlotMoves
      <3>4. /\ Owned' /\ live \subseteq live'
            /\ x # Null /\ total_blocks(size) > 0 => Owns(<<p, i>>, size)'
            /\ \A q \in Places, m \in Nat : Owns(q, m) => Owns(q, m)'
        BY <1>1, <2>2, <3>1, <3>3, MallocPlace
      <3> HIDE DEF x
      <3>5. allocations' \in [Process -> [Index -> Pointer]]
        BY <1>1, <2>1, <3>1 DEF MemoryType
      <3>6. Kept
        BY <3>4 DEF Kept
      <3>7. x # Null => Mapped(Address(x), size) \subseteq OwnPages(p)'
        <4> SUFFICES ASSUME x # Null PROVE Mapped(Address(x), size) \subseteq OwnPages(p)'
          OBVIOUS
        <4>1. x \in Block
          BY <1>1 DEF Pointer
        <4>2. CASE total_blocks(size) > 0
          <5>1. Owns(<<p, i>>, size)' /\ HeapInv'
            BY <3>4, <4>2 DEF Owned
          <5>2. Held(<<p, i>>)' = x
            BY <2>2, <3>3
          <5>3. Mapped(Address(Held(<<p, i>>)'), size) \subseteq OwnPages(p)'
            BY <2>2, <5>1, OwnsPages
          <5> QED  BY <5>2, <5>3
        <4>3. CASE ~(total_blocks(size) > 0)
          <5>1. total_blocks(size) = 0
            BY <1>1, <4>3, Rounded
          <5>2. x .. (x + total_blocks(size) - 1) = {}
            BY <4>1, <5>1 DEF Block
          <5> QED  BY <4>1, <5>2, MappedInBlocks
        <4> QED  BY <4>2, <4>3
      <3> QED  BY <1>2, <3>2, <3>4, <3>5, <3>6, <3>7
    <2> QED  BY <1>4, <2>3, <2>4 DEF process_malloc_flags
  <1> QED  BY <1>3, <1>4

\* process_malloc maps what it returns for writing.
LEMMA ProcessMalloc ==
    ASSUME Owned, MemoryType, NEW p \in Process, NEW size \in 0 .. (Word - 1),
           process_malloc(p, size), image' = image, stack' = stack
    PROVE  /\ Owned' /\ Kept /\ OwnOnly
           /\ allocations' \in [Process -> [Index -> Pointer]]
           /\ writable' \in [Process -> SUBSET Int]
           /\ \A q \in Places, m \in Nat : Owns(q, m) => Owns(q, m)'
PROOF
  <1> DEFINE x == Pointed(size)
             pages == IF Refused(p, size) THEN {} ELSE Mapped(Address(x), size)
             own == x # Null
  <1>1. process_malloc_flags(p, size) /\ Writes(p, pages, own)
    BY DEF process_malloc
  <1>2. /\ Owned' /\ Kept
        /\ allocations' \in [Process -> [Index -> Pointer]]
        /\ \A q \in Places, m \in Nat : Owns(q, m) => Owns(q, m)'
        /\ Given(p, size) # Null => Mapped(Address(Given(p, size)), size) \subseteq OwnPages(p)'
    BY <1>1, ProcessMallocFlags
  <1>3. pages \subseteq Int
    <2>1. size \in Nat /\ x \in Pointer
      BY HeapAssumption, PointedType
    <2>2. Address(x) \in Nat
      BY <2>1, AddressType
    <2>3. Mapped(Address(x), size) \subseteq Int
      BY <2>1, <2>2, MapTypes
    <2> QED  BY <2>3
  <1>4. own => pages \subseteq OwnPages(p)'
    <2>1. CASE Refused(p, size)
      BY <2>1
    <2>2. CASE ~Refused(p, size)
      <3>1. Given(p, size) = x
        BY <2>2 DEF Given
      <3> QED  BY <1>2, <2>2, <3>1
    <2> QED  BY <2>1, <2>2
  <1> HIDE DEF pages, own
  <1>5. OwnOnly /\ writable' \in [Process -> SUBSET Int]
    BY <1>1, <1>3, <1>4, WritesOwn
  <1> QED  BY <1>2, <1>5

\* The sizes are sizes.
LEMMA SizesFit ==
    /\ ImageSize \in 0 .. (Word - 1) /\ total_blocks(ImageSize) > 0
    /\ StackSize \in 0 .. (Word - 1) /\ total_blocks(StackSize) > 0
    /\ \A size \in {FramebufferSize, ArgumentSize} \cup Sizes : size \in 0 .. (Word - 1)
    /\ \A segment \in Segments : /\ segment.memsz \in 0 .. (Word - 1) /\ segment.memsz \in Nat
                                 /\ segment.offset \in Nat /\ segment.filesz \in Nat
PROOF
  <1>1. BlockSize \in Nat \ {0} /\ Word \in Nat \ {0}
    BY HeapAssumption
  <1>2. \A size \in {ImageSize, StackSize} : size \in 0 .. (Word - 1) /\ size \in Nat
                                              /\ size \in 1 .. (Word - BlockSize)
    BY <1>1, MemoryAssumption
  <1>3. \A size \in {ImageSize, StackSize} : total_blocks(size) > 0
    BY <1>2, Rounded
  <1>4. \A size \in {FramebufferSize, ArgumentSize} : size \in 0 .. (Word - 1)
    BY <1>1, MemoryAssumption
  <1>5. \A size \in Sizes : size \in 0 .. (Word - 1)
    BY HeapAssumption
  <1>6. \A segment \in Segments : /\ segment.memsz \in 0 .. (Word - 1) /\ segment.memsz \in Nat
                                  /\ segment.offset \in Nat /\ segment.filesz \in Nat
    <2> TAKE segment \in Segments
    <2>1. segment \in [offset : 0 .. (Word - 1), filesz : 0 .. (Word - 1),
                       memsz : 0 .. (Word - 1), write : BOOLEAN]
      BY MemoryAssumption
    <2> QED  BY <1>1, <2>1
  <1> QED  BY <1>2, <1>3, <1>4, <1>5, <1>6

\* What MInv is made of.
LEMMA Parts == MInv <=> Owned /\ MemoryType /\ PlacesInv
PROOF
  BY DEF MInv, Owned, MemoryType

\* The file of a program comes into memory, or does not fit.
LEMMA ExecStep ==
    ASSUME MInv, NEW p \in Process, exec(p)
    PROVE  MInv' /\ Kept /\ OwnOnly
PROOF
  <1> DEFINE x == Pointed(ImageSize)
  <1>1. Owned /\ MemoryType /\ PlacesInv
    BY Parts
  <1>2. /\ pc = "user" /\ p \notin alive
        /\ kmalloc(ImageSize)
        /\ argc' = [argc EXCEPT ![p] = IF loads = 0 THEN Argc ELSE 0]
        /\ image' = [image EXCEPT ![p] = x]
        /\ pc' \in {"stack", "unload"} /\ (x = Null => pc' = "unload")
        /\ who' = p
        /\ UNCHANGED <<alive, allocations, stack, writable, started, hollow, leaked, beyond>>
    BY DEF exec, histories
  <1>3. ImageSize \in Nat /\ total_blocks(ImageSize) > 0 /\ x \in Pointer /\ Word \in Nat \ {0}
    BY SizesFit, PointedType, HeapAssumption
  <1>4. image[p] = Null /\ stack[p] = Null
    BY <1>1, <1>2 DEF PlacesInv, PlaceInv, Busy, Loading
  <1>5. <<p, ImagePlace>> \in Places /\ Held(<<p, ImagePlace>>) = Null
    BY <1>4, PlacesOf
  <1>6. \A q \in Places : Held(q)' = IF q = <<p, ImagePlace>> THEN x ELSE Held(q)
    BY <1>1, <1>2, ImageMoves
  <1>7. /\ Owned' /\ live \subseteq live'
        /\ x # Null => Owns(<<p, ImagePlace>>, ImageSize)'
    BY <1>1, <1>2, <1>3, <1>5, <1>6, MallocPlace
  <1> HIDE DEF x
  <1>8. MemoryType'
    <2>1. argc' \in [Process -> 0 .. (Word - 1)]
      BY <1>1, <1>2, <1>3, MemoryAssumption DEF MemoryType
    <2>2. image' \in [Process -> Pointer]
      BY <1>1, <1>2, <1>3 DEF MemoryType
    <2>3. pc' \in Busy /\ who' \in Process
      BY <1>2 DEF Busy, Loading
    <2> QED  BY <1>1, <1>2, <2>1, <2>2, <2>3 DEF MemoryType
  <1>9. ASSUME NEW r \in Process PROVE PlaceInv(r)'
    <2>1. image'[r] = IF r = p THEN x ELSE image[r]
      BY <1>1, <1>2 DEF MemoryType
    <2>2. r \notin alive => image[r] = Null /\ stack[r] = Null
      BY <1>1, <1>2 DEF PlacesInv, PlaceInv, Busy, Loading
    <2>3. CASE x = Null
      BY <1>2, <2>1, <2>2, <2>3 DEF PlaceInv, Busy, Loading
    <2>4. CASE x # Null
      BY <1>2, <1>4, <1>7, <2>1, <2>2, <2>4 DEF PlaceInv, Busy, Loading
    <2> QED  BY <2>3, <2>4
  <1>10. Kept /\ OwnOnly
    BY <1>2, <1>7 DEF Kept, OwnOnly
  <1> QED  BY <1>7, <1>8, <1>9, <1>10 DEF MInv, Owned, PlacesInv

\* Its stack, without which the load fails.
LEMMA LoadStackStep ==
    ASSUME MInv, load_stack
    PROVE  MInv' /\ Kept /\ OwnOnly
PROOF
  <1> DEFINE x == Pointed(StackSize)
  <1>1. Owned /\ MemoryType /\ PlacesInv
    BY Parts
  <1>2. PICK p \in Process : p = who
    BY <1>1 DEF load_stack, MemoryType, Busy, Loading
  <1>3. /\ pc = "stack" /\ who = p
        /\ kmalloc(StackSize)
        /\ stack' = [stack EXCEPT ![p] = x]
        /\ pc' = (IF x = Null THEN "unload" ELSE "segment")
        /\ UNCHANGED <<alive, allocations, image, writable, who, hollow, leaked, beyond, argc, started>>
    BY <1>2 DEF load_stack, histories
  <1>4. StackSize \in Nat /\ total_blocks(StackSize) > 0 /\ x \in Pointer
    BY SizesFit, PointedType, HeapAssumption
  <1>5. stack[p] = Null /\ p \notin alive /\ Owns(<<p, ImagePlace>>, ImageSize)
    BY <1>1, <1>3 DEF PlacesInv, PlaceInv, Loading
  <1>6. /\ <<p, StackPlace>> \in Places /\ Held(<<p, StackPlace>>) = Null
        /\ <<p, ImagePlace>> \in Places
    BY <1>5, PlacesOf
  <1>7. \A q \in Places : Held(q)' = IF q = <<p, StackPlace>> THEN x ELSE Held(q)
    BY <1>1, <1>3, StackMoves
  <1>8. /\ Owned' /\ live \subseteq live'
        /\ x # Null => Owns(<<p, StackPlace>>, StackSize)'
        /\ \A q \in Places, m \in Nat : Owns(q, m) => Owns(q, m)'
    BY <1>1, <1>3, <1>4, <1>6, <1>7, MallocPlace
  <1>9. Owns(<<p, ImagePlace>>, ImageSize)'
    BY <1>5, <1>6, <1>8, SizesFit
  <1> HIDE DEF x
  <1>10. MemoryType'
    <2>1. stack' \in [Process -> Pointer]
      BY <1>1, <1>3, <1>4 DEF MemoryType
    <2>2. pc' \in Busy
      BY <1>3 DEF Busy, Loading
    <2> QED  BY <1>1, <1>3, <2>1, <2>2 DEF MemoryType
  <1>11. ASSUME NEW r \in Process PROVE PlaceInv(r)'
    <2>1. stack'[r] = IF r = p THEN x ELSE stack[r]
      BY <1>1, <1>3 DEF MemoryType
    <2>2. r \notin alive /\ r # p => image[r] = Null /\ stack[r] = Null
      BY <1>1, <1>3 DEF PlacesInv, PlaceInv
    <2>3. CASE x = Null
      BY <1>3, <1>5, <2>1, <2>2, <2>3 DEF PlaceInv, Busy, Loading
    <2>4. CASE x # Null
      BY <1>3, <1>5, <1>8, <1>9, <2>1, <2>2, <2>4 DEF PlaceInv, Busy, Loading
    <2> QED  BY <2>3, <2>4
  <1>12. Kept /\ OwnOnly
    BY <1>3, <1>8 DEF Kept, OwnOnly
  <1> QED  BY <1>8, <1>10, <1>11, <1>12 DEF MInv, Owned, PlacesInv

\* A step of a load that moves no memory: whoever it is about owns what he did.
LEMMA LoadKeeps ==
    ASSUME MInv, NEW p \in Process, p = who, pc = "segment",
           UNCHANGED <<entries, live, hollow, leaked, allocations, image, stack, who, argc, started>>
    PROVE  /\ Owned' /\ Kept
           /\ p \notin alive
           /\ Owns(<<p, ImagePlace>>, ImageSize)' /\ Owns(<<p, StackPlace>>, StackSize)'
           /\ <<p, ImagePlace>> \in Places /\ Held(<<p, ImagePlace>>)' = image[p]
           /\ <<p, StackPlace>> \in Places /\ Held(<<p, StackPlace>>)' = stack[p]
PROOF
  <1>1. Owned /\ MemoryType /\ PlacesInv
    BY Parts
  <1>2. /\ Owned' /\ Kept
        /\ \A q \in Places : Held(q)' = Held(q)
        /\ \A q \in Places, m \in Nat : Owns(q, m) => Owns(q, m)'
    BY <1>1, NothingMoves
  <1>3. /\ <<p, ImagePlace>> \in Places /\ Held(<<p, ImagePlace>>)' = image[p]
        /\ <<p, StackPlace>> \in Places /\ Held(<<p, StackPlace>>)' = stack[p]
    BY <1>2, PlacesOf
  <1>4. /\ Owns(<<p, ImagePlace>>, ImageSize) /\ Owns(<<p, StackPlace>>, StackSize)
        /\ p \notin alive
    BY <1>1 DEF PlacesInv, PlaceInv, Loading
  <1>5. ImageSize \in Nat /\ StackSize \in Nat
    BY SizesFit
  <1> QED  BY <1>2, <1>3, <1>4, <1>5

\* The stack is mapped while it is owned for its size.
LEMMA LoadMapStep ==
    ASSUME MInv, load_map
    PROVE  MInv' /\ Kept /\ OwnOnly
PROOF
  <1>1. Owned /\ MemoryType /\ PlacesInv
    BY Parts
  <1>2. PICK p \in Process : p = who
    BY <1>1 DEF load_map, MemoryType, Busy, Loading
  <1> DEFINE pages == Mapped(Address(stack[p]), StackSize)
  <1>3. /\ pc = "segment" /\ who = p
        /\ UNCHANGED <<entries, live, hollow, leaked, allocations, image, stack, who, argc, started>>
        /\ \/ pc' = "unload" /\ UNCHANGED <<alive, writable, beyond>>
           \/ pc' = "framebuffer" /\ alive' = alive \cup {p} /\ Writes(p, pages, TRUE)
    BY <1>2 DEF load_map, heap
  <1>4. /\ Owned' /\ Kept /\ p \notin alive
        /\ Owns(<<p, ImagePlace>>, ImageSize)' /\ Owns(<<p, StackPlace>>, StackSize)'
        /\ <<p, StackPlace>> \in Places /\ Held(<<p, StackPlace>>)' = stack[p]
    BY <1>3, LoadKeeps
  <1>5. StackSize \in 0 .. (Word - 1) /\ StackSize \in Nat /\ HeapInv'
    BY <1>4, SizesFit DEF Owned
  <1>6. pages \subseteq OwnPages(p)'
    BY <1>4, <1>5, OwnsPages
  <1>7. pages \subseteq Int
    <2>1. stack[p] \in Pointer
      BY <1>1 DEF MemoryType
    <2> QED  BY <1>5, <2>1, AddressType, MapTypes
  <1> HIDE DEF pages
  <1>8. OwnOnly /\ writable' \in [Process -> SUBSET Int]
    <2>1. CASE UNCHANGED <<alive, writable, beyond>>
      BY <1>1, <2>1 DEF OwnOnly, MemoryType
    <2>2. CASE Writes(p, pages, TRUE)
      BY <1>1, <1>6, <1>7, <2>2, WritesOwn
    <2> QED  BY <1>3, <2>1, <2>2
  <1>9. MemoryType'
    <2>1. pc' \in Busy /\ started' \subseteq alive' /\ alive' \subseteq Process
      BY <1>1, <1>3 DEF Busy, Loading, MemoryType
    <2> QED  BY <1>1, <1>3, <1>8, <2>1 DEF MemoryType
  <1>10. ASSUME NEW r \in Process PROVE PlaceInv(r)'
    <2>1. PlaceInv(r)
      BY <1>1 DEF PlacesInv
    <2> QED  BY <1>3, <1>4, <2>1 DEF PlaceInv, Busy, Loading
  <1> QED  BY <1>4, <1>8, <1>9, <1>10 DEF MInv, Owned, PlacesInv

\* A segment that is in the file, and one that is said to be.
LEMMA FileSegmentStep ==
    ASSUME MInv, NEW segment \in Segments, load_segment(segment), FileSegment(segment)
    PROVE  MInv' /\ Kept /\ OwnOnly
PROOF
  <1>1. Owned /\ MemoryType /\ PlacesInv
    BY Parts
  <1>2. PICK p \in Process : p = who
    BY <1>1 DEF load_segment, MemoryType, Busy, Loading
  <1> DEFINE at == (Address(image[p]) + segment.offset) % Word
             pages == IF segment.write THEN Mapped(at, segment.memsz) ELSE {}
             own == /\ segment.offset + segment.memsz <= ImageSize
                    /\ Address(image[p]) + segment.offset + segment.memsz <= Word
  <1>3. /\ pc = "segment" /\ who = p
        /\ UNCHANGED <<alive, entries, live, hollow, leaked, allocations, image, stack, who, argc, started>>
        /\ \/ pc' = "unload" /\ UNCHANGED <<writable, beyond>>
           \/ pc' = "segment" /\ Writes(p, pages, own)
    BY <1>2 DEF load_segment, FileSegment, heap
  <1>4. /\ Owned' /\ Kept /\ p \notin alive
        /\ Owns(<<p, ImagePlace>>, ImageSize)' /\ Owns(<<p, StackPlace>>, StackSize)'
        /\ <<p, ImagePlace>> \in Places /\ Held(<<p, ImagePlace>>)' = image[p]
    BY <1>3, LoadKeeps
  <1>5. /\ ImageSize \in 0 .. (Word - 1) /\ HeapInv'
        /\ segment.offset \in Nat /\ segment.memsz \in Nat
    BY <1>4, SizesFit DEF Owned
  <1>6. /\ image[p] \in Block
        /\ {Base + b : b \in image[p] .. (image[p] + total_blocks(ImageSize) - 1)} \subseteq OwnPages(p)'
    BY <1>4, <1>5, OwnsPages
  <1>7. own => pages \subseteq OwnPages(p)'
    BY <1>5, <1>6, SegmentInImage
  <1>8. pages \subseteq Int
    <2>1. Address(image[p]) \in Nat /\ Word \in Nat \ {0}
      BY <1>6, AddressType, HeapAssumption DEF Pointer
    <2>2. at \in Nat
      BY <1>5, <2>1
    <2> QED  BY <1>5, <2>2, MapTypes
  <1> HIDE DEF pages, own
  <1>9. OwnOnly /\ writable' \in [Process -> SUBSET Int]
    <2>1. CASE UNCHANGED <<writable, beyond>>
      BY <1>1, <2>1 DEF OwnOnly, MemoryType
    <2>2. CASE Writes(p, pages, own)
      BY <1>1, <1>7, <1>8, <2>2, WritesOwn
    <2> QED  BY <1>3, <2>1, <2>2
  <1>10. MemoryType'
    <2>1. pc' \in Busy
      BY <1>3 DEF Busy, Loading
    <2> QED  BY <1>1, <1>3, <1>9, <2>1 DEF MemoryType
  <1>11. ASSUME NEW r \in Process PROVE PlaceInv(r)'
    <2>1. PlaceInv(r)
      BY <1>1 DEF PlacesInv
    <2> QED  BY <1>3, <1>4, <2>1 DEF PlaceInv, Busy, Loading
  <1> QED  BY <1>4, <1>9, <1>10, <1>11 DEF MInv, Owned, PlacesInv

\* A segment with zeroes behind it; without memory for it, page 0 is written.
LEMMA ZeroedSegmentStep ==
    ASSUME MInv, NEW segment \in Segments, load_segment(segment), ZeroedSegment(segment)
    PROVE  MInv' /\ Kept /\ OwnOnly
PROOF
  <1>1. Owned /\ MemoryType /\ PlacesInv
    BY Parts
  <1>2. PICK p \in Process : p = who
    BY <1>1 DEF load_segment, MemoryType, Busy, Loading
  <1> DEFINE size == segment.memsz
             given == Given(p, size)
             pages == IF segment.write THEN Mapped(Address(given), size) ELSE {}
             own == given # Null
  <1>3. /\ pc = "segment" /\ pc' = "segment" /\ who = p /\ who' = p
        /\ process_malloc_flags(p, size) /\ Writes(p, pages, own)
        /\ UNCHANGED <<alive, image, stack, argc, started>>
    BY <1>2 DEF load_segment, ZeroedSegment
  <1>4. size \in 0 .. (Word - 1) /\ size \in Nat
    BY SizesFit
  <1>5. /\ Owned' /\ Kept
        /\ allocations' \in [Process -> [Index -> Pointer]]
        /\ \A q \in Places, m \in Nat : Owns(q, m) => Owns(q, m)'
        /\ given \in Pointer
        /\ given # Null => Mapped(Address(given), size) \subseteq OwnPages(p)'
    BY <1>1, <1>3, <1>4, ProcessMallocFlags
  <1>6. own => pages \subseteq OwnPages(p)'
    BY <1>5
  <1>7. pages \subseteq Int
    <2>1. Address(given) \in Nat
      BY <1>5, AddressType
    <2>2. Mapped(Address(given), size) \subseteq Int
      BY <1>4, <2>1, MapTypes
    <2> QED  BY <2>2
  <1> HIDE DEF pages, own
  <1>8. OwnOnly /\ writable' \in [Process -> SUBSET Int]
    BY <1>1, <1>3, <1>6, <1>7, WritesOwn
  <1>9. MemoryType'
    BY <1>1, <1>3, <1>5, <1>8 DEF MemoryType, Owned
  <1>10. ASSUME NEW r \in Process PROVE PlaceInv(r)'
    <2>1. PlaceInv(r)
      BY <1>1 DEF PlacesInv
    <2>2. /\ Owns(<<r, ImagePlace>>, ImageSize) => Owns(<<r, ImagePlace>>, ImageSize)'
          /\ Owns(<<r, StackPlace>>, StackSize) => Owns(<<r, StackPlace>>, StackSize)'
      BY <1>5, PlacesOf, SizesFit
    <2> QED  BY <1>3, <2>1, <2>2 DEF PlaceInv
  <1> QED  BY <1>5, <1>8, <1>9, <1>10 DEF MInv, Owned, PlacesInv

\* Either.
LEMMA LoadSegmentStep ==
    ASSUME MInv, NEW segment \in Segments, load_segment(segment)
    PROVE  MInv' /\ Kept /\ OwnOnly
PROOF
  <1>1. ZeroedSegment(segment) \/ FileSegment(segment)
    BY DEF load_segment
  <1> QED  BY <1>1, ZeroedSegmentStep, FileSegmentStep

\* Steps that call process_malloc, and change none of what is loaded.
LEMMA MallocStep ==
    ASSUME MInv, NEW p \in Process, NEW size \in 0 .. (Word - 1), process_malloc(p, size),
           UNCHANGED <<alive, image, stack, argc>>,
           started' \subseteq alive,
           pc' \in Busy \cup {"user"}, pc' \in Busy => who' \in Process,
           \A r \in Process :
               /\ r \notin alive /\ (pc' \in Busy => r # who') => r \notin alive /\ (pc \in Busy => r # who)
               /\ r = who' => /\ pc' \in {"user", "strings"}
                              /\ pc' = "strings" => r \in alive
    PROVE  MInv' /\ Kept /\ OwnOnly
PROOF
  <1>1. Owned /\ MemoryType /\ PlacesInv
    BY Parts
  <1>2. /\ Owned' /\ Kept /\ OwnOnly
        /\ allocations' \in [Process -> [Index -> Pointer]]
        /\ writable' \in [Process -> SUBSET Int]
        /\ \A q \in Places, m \in Nat : Owns(q, m) => Owns(q, m)'
    BY <1>1, ProcessMalloc
  <1>3. MemoryType'
    BY <1>1, <1>2 DEF MemoryType, Owned
  <1>4. ASSUME NEW r \in Process PROVE PlaceInv(r)'
    <2>1. PlaceInv(r)
      BY <1>1 DEF PlacesInv
    <2>2. /\ Owns(<<r, ImagePlace>>, ImageSize) => Owns(<<r, ImagePlace>>, ImageSize)'
          /\ Owns(<<r, StackPlace>>, StackSize) => Owns(<<r, StackPlace>>, StackSize)'
      BY <1>2, PlacesOf, SizesFit
    <2> QED  BY <2>1, <2>2 DEF PlaceInv, Busy, Loading
  <1> QED  BY <1>2, <1>3, <1>4 DEF MInv, Owned, PlacesInv

\* The framebuffer ends a load.
LEMMA LoadFramebufferStep ==
    ASSUME MInv, load_framebuffer
    PROVE  MInv' /\ Kept /\ OwnOnly
PROOF
  <1>1. MemoryType /\ PlacesInv
    BY Parts
  <1>2. PICK p \in Process : p = who
    BY <1>1 DEF load_framebuffer, MemoryType, Busy
  <1>3. /\ pc = "framebuffer" /\ pc' = "user" /\ who' = Null /\ process_malloc(p, FramebufferSize)
        /\ UNCHANGED <<alive, image, stack, argc, started>>
    BY <1>2 DEF load_framebuffer
  <1>4. FramebufferSize \in 0 .. (Word - 1) /\ p \in alive
    BY <1>1, <1>2, <1>3, SizesFit DEF PlacesInv, PlaceInv
  <1> QED  BY <1>1, <1>2, <1>3, <1>4, MallocStep DEF MemoryType, Busy, Loading

\* The array of arguments, which may be of no bytes.
LEMMA ArgumentsStep ==
    ASSUME MInv, NEW p \in Process, sys_get_process_arguments(p)
    PROVE  MInv' /\ Kept /\ OwnOnly
PROOF
  <1>1. MemoryType
    BY Parts
  <1>2. /\ pc = "user" /\ p \in alive /\ started' = started \cup {p} /\ process_malloc(p, argc[p])
        /\ pc' = "user" \/ (pc' = "strings" /\ who' = p)
        /\ UNCHANGED <<alive, image, stack, argc>>
    BY DEF sys_get_process_arguments
  <1>3. argc[p] \in 0 .. (Word - 1)
    BY <1>1 DEF MemoryType
  <1>4. started' \subseteq alive
    BY <1>1, <1>2 DEF MemoryType
  <1>5. pc \notin Busy /\ pc' \in Busy \cup {"user"} /\ (pc' \in Busy => who' \in Process)
    BY <1>2 DEF Busy, Loading
  <1> QED  BY <1>2, <1>3, <1>4, <1>5, MallocStep

\* A string of the arguments.
LEMMA NextArgumentStep ==
    ASSUME MInv, next_argument
    PROVE  MInv' /\ Kept /\ OwnOnly
PROOF
  <1>1. MemoryType /\ PlacesInv
    BY Parts
  <1>2. PICK p \in Process : p = who
    BY <1>1 DEF next_argument, MemoryType, Busy
  <1>3. /\ pc = "strings" /\ process_malloc(p, ArgumentSize)
        /\ pc' = "user" \/ (pc' = "strings" /\ who' = p)
        /\ UNCHANGED <<alive, image, stack, argc, started>>
    BY <1>2 DEF next_argument
  <1>4. ArgumentSize \in 0 .. (Word - 1) /\ p \in alive
    BY <1>1, <1>2, <1>3, SizesFit DEF PlacesInv, PlaceInv
  <1> QED  BY <1>1, <1>2, <1>3, <1>4, MallocStep DEF MemoryType, Busy, Loading

\* The malloc of a program.
LEMMA SysMallocStep ==
    ASSUME MInv, NEW p \in Process, NEW size \in Sizes, sys_malloc(p, size)
    PROVE  MInv' /\ Kept /\ OwnOnly
PROOF
  <1>1. MemoryType
    BY Parts
  <1>2. /\ pc = "user" /\ process_malloc(p, size)
        /\ UNCHANGED <<alive, image, stack, pc, who, argc, started>>
    BY DEF sys_malloc
  <1>3. size \in 0 .. (Word - 1)
    BY SizesFit
  <1> QED  BY <1>1, <1>2, <1>3, MallocStep DEF MemoryType, Busy, Loading

\* The end of a process, up to its first free.
LEMMA TerminateStep ==
    ASSUME MInv, NEW p \in Process, process_terminate(p)
    PROVE  MInv' /\ Kept /\ OwnOnly
PROOF
  <1>1. Owned /\ MemoryType /\ PlacesInv
    BY Parts
  <1>2. /\ pc = "user" /\ p \in alive /\ alive' = alive \ {p} /\ started' = started \ {p}
        /\ pc' \in {"panic", "free"} /\ who' = p
        /\ UNCHANGED <<entries, live, allocations, image, stack, writable, hollow, leaked, beyond, argc>>
    BY DEF process_terminate, heap, histories
  <1>3. Owned' /\ Kept
    BY <1>1, <1>2, NothingMoves
  <1>4. OwnOnly
    BY <1>1, <1>2 DEF OwnOnly, MemoryType
  <1>5. MemoryType'
    <2>1. pc' \in Busy
      BY <1>2 DEF Busy
    <2> QED  BY <1>1, <1>2, <2>1 DEF MemoryType
  <1>6. ASSUME NEW r \in Process PROVE PlaceInv(r)'
    BY <1>1, <1>2 DEF PlacesInv, PlaceInv, Busy, Loading
  <1> QED  BY <1>3, <1>4, <1>5, <1>6 DEF MInv, Owned, PlacesInv

\* Nothing moves on after a panic.
LEMMA NoStep ==
    ASSUME MInv, UNCHANGED memory_vars
    PROVE  MInv' /\ Kept /\ OwnOnly
PROOF
  <1>1. Owned /\ MemoryType /\ PlacesInv
    BY Parts
  <1>2. UNCHANGED <<entries, live, alive, allocations, image, stack, writable, pc, who, hollow,
                    leaked, beyond, argc, started>>
    BY DEF memory_vars, heap, process, histories
  <1>3. /\ Owned' /\ Kept
        /\ \A q \in Places, m \in Nat : Owns(q, m) => Owns(q, m)'
    BY <1>1, <1>2, NothingMoves
  <1>4. OwnOnly
    BY <1>2 DEF OwnOnly
  <1>5. MemoryType'
    BY <1>1, <1>2 DEF MemoryType
  <1>6. ASSUME NEW r \in Process PROVE PlaceInv(r)'
    <2>1. PlaceInv(r)
      BY <1>1 DEF PlacesInv
    <2>2. /\ Owns(<<r, ImagePlace>>, ImageSize) => Owns(<<r, ImagePlace>>, ImageSize)'
          /\ Owns(<<r, StackPlace>>, StackSize) => Owns(<<r, StackPlace>>, StackSize)'
      BY <1>3, PlacesOf, SizesFit
    <2> QED  BY <1>2, <2>1, <2>2 DEF PlaceInv
  <1> QED  BY <1>3, <1>4, <1>5, <1>6 DEF MInv, Owned, PlacesInv

\* Steps that free what an allocation slot holds.
LEMMA FreeSlotStep ==
    ASSUME MInv, NEW p \in Process, NEW i \in Index,
           kfree(allocations[p][i]), Released(<<p, i>>),
           allocations' = [allocations EXCEPT ![p][i] = Null],
           UNCHANGED <<alive, image, stack, writable, pc, who, argc, started>>,
           pc \in {"user", "free"}
    PROVE  MInv' /\ Kept /\ OwnOnly
PROOF
  <1>1. Owned /\ MemoryType /\ PlacesInv
    BY Parts
  <1>2. <<p, i>> \in Places /\ Held(<<p, i>>) = allocations[p][i]
    BY PlacesOf
  <1>3. \A q \in Places : Held(q)' = IF q = <<p, i>> THEN Null ELSE Held(q)
    BY <1>1, SlotMoves
  <1>4. kfree(Held(<<p, i>>))
    BY <1>2
  <1>5. /\ Owned'
        /\ \A q \in Places : q # <<p, i>> /\ q \notin hollow' =>
               \A a \in live : a.start = Held(q) => a \in live'
    BY <1>1, <1>2, <1>3, <1>4, FreePlace
  <1>6. Kept
    BY <1>3, <1>5 DEF Kept
  <1>7. MemoryType'
    BY <1>1, <1>5 DEF MemoryType, Owned, Pointer
  <1>8. \A r \in Process : PlaceInv(r)'
    BY <1>1 DEF PlacesInv, PlaceInv, Busy, Loading
  <1>9. OwnOnly
    BY DEF OwnOnly
  <1> QED  BY <1>5, <1>6, <1>7, <1>8, <1>9 DEF MInv, Owned, PlacesInv

\* The slots of a process that ends, one by one.
LEMMA FreeAllocationStep ==
    ASSUME MInv, free_allocation
    PROVE  MInv' /\ Kept /\ OwnOnly
PROOF
  <1>1. MemoryType
    BY Parts
  <1>2. PICK p \in Process, i \in Index : p = who /\ i = index
    BY <1>1 DEF free_allocation, MemoryType, Busy
  <1>3. /\ pc = "free" /\ kfree(allocations[p][i]) /\ Released(<<p, i>>)
        /\ allocations' = [allocations EXCEPT ![p][i] = Null]
        /\ UNCHANGED <<alive, image, stack, writable, pc, who, argc, started>>
    BY <1>2 DEF free_allocation
  <1> QED  BY <1>3, FreeSlotStep

\* The free of a program: of a pointer in its table, or nothing happens.
LEMMA SysFreeStep ==
    ASSUME MInv, NEW p \in Process, NEW pointer \in Pointer, sys_free(p, pointer)
    PROVE  MInv' /\ Kept /\ OwnOnly
PROOF
  <1> DEFINE slots == {i \in Index : allocations[p][i] = pointer}
  <1>1. /\ pc = "user" /\ process_free(p, pointer)
        /\ UNCHANGED <<alive, image, stack, writable, pc, who, index, argc, beyond, started, loads>>
    BY DEF sys_free
  <1>2. CASE slots = {}
    <2>1. UNCHANGED <<heap, allocations, hollow, leaked>>
      BY <1>1, <1>2 DEF process_free
    <2> QED  BY <1>1, <2>1, NoStep DEF memory_vars, process, histories
  <1>3. CASE slots # {}
    <2>1. slots \subseteq Nat
      BY MemoryAssumption
    <2>2. LowestIndex(slots) \in slots
      BY <1>3, <2>1, LeastExists DEF LowestIndex
    <2>3. PICK i \in Index : i = LowestIndex(slots) /\ allocations[p][i] = pointer
      BY <2>2
    <2>4. /\ kfree(allocations[p][i]) /\ Released(<<p, i>>)
          /\ allocations' = [allocations EXCEPT ![p][i] = Null]
      BY <1>1, <1>3, <2>3 DEF process_free
    <2> QED  BY <1>1, <2>4, FreeSlotStep
  <1> QED  BY <1>2, <1>3

\* The image of a process that ends, with its page directory.
LEMMA FreeImageStep ==
    ASSUME MInv, free_image
    PROVE  MInv' /\ Kept /\ OwnOnly
PROOF
  <1>1. Owned /\ MemoryType /\ PlacesInv
    BY Parts
  <1>2. PICK p \in Process : p = who
    BY <1>1 DEF free_image, MemoryType, Busy
  <1>3. /\ pc = "free" /\ kfree(image[p]) /\ Released(<<p, ImagePlace>>)
        /\ image' = [image EXCEPT ![p] = Null]
        /\ pc' = "free_stack" /\ who' = p /\ who = p
        /\ writable' = [writable EXCEPT ![p] = {}]
        /\ UNCHANGED <<alive, allocations, stack, argc, started>>
    BY <1>2 DEF free_image
  <1>4. <<p, ImagePlace>> \in Places /\ Held(<<p, ImagePlace>>) = image[p]
    BY PlacesOf
  <1>5. \A q \in Places : Held(q)' = IF q = <<p, ImagePlace>> THEN Null ELSE Held(q)
    BY <1>1, <1>3, ImageMoves
  <1>6. kfree(Held(<<p, ImagePlace>>))
    BY <1>3, <1>4
  <1>7. /\ Owned'
        /\ \A q \in Places : q # <<p, ImagePlace>> /\ q \notin hollow' =>
               \A a \in live : a.start = Held(q) => a \in live'
    BY <1>1, <1>3, <1>4, <1>5, <1>6, FreePlace
  <1>8. Kept
    BY <1>5, <1>7 DEF Kept
  <1>9. MemoryType'
    <2>1. image' \in [Process -> Pointer] /\ writable' \in [Process -> SUBSET Int]
      BY <1>1, <1>3 DEF MemoryType, Pointer
    <2>2. pc' \in Busy
      BY <1>3 DEF Busy
    <2> QED  BY <1>1, <1>3, <1>7, <2>1, <2>2 DEF MemoryType, Owned
  <1>10. ASSUME NEW r \in Process PROVE PlaceInv(r)'
    <2>1. image'[r] = IF r = p THEN Null ELSE image[r]
      BY <1>1, <1>3 DEF MemoryType
    <2>2. PlaceInv(r)
      BY <1>1 DEF PlacesInv
    <2> QED  BY <1>3, <2>1, <2>2 DEF PlaceInv, Busy, Loading
  <1>11. OwnOnly
    BY <1>1, <1>3 DEF OwnOnly, MemoryType
  <1> QED  BY <1>7, <1>8, <1>9, <1>10, <1>11 DEF MInv, Owned, PlacesInv

\* A load that fails gives its image back, and drops what else it has.
LEMMA LoadFailsStep ==
    ASSUME MInv, load_fails
    PROVE  MInv' /\ Kept /\ OwnOnly
PROOF
  <1>1. Owned /\ MemoryType /\ PlacesInv
    BY Parts
  <1>2. PICK p \in Process : p = who
    BY <1>1 DEF load_fails, MemoryType, Busy, Loading
  <1> DEFINE place == <<p, ImagePlace>>
             S == {q \in Places : q[1] = p}
  <1>3. /\ pc = "unload" /\ kfree(image[p]) /\ who = p
        /\ image' = [image EXCEPT ![p] = Null]
        /\ stack' = [stack EXCEPT ![p] = Null]
        /\ allocations' = [allocations EXCEPT ![p] = [i \in Index |-> Null]]
        /\ writable' = [writable EXCEPT ![p] = {}]
        /\ hollow' = {q \in Hollowed(place) : q[1] # p}
        /\ leaked' = (leaked \cup {a \in live : Has(p, a)}) \ Hit(image[p])
        /\ pc' \in {"panic", "user"} /\ who' = Null
        /\ UNCHANGED <<alive, argc, started>>
    BY <1>2 DEF load_fails
  <1>4. place \in Places /\ Held(place) = image[p] /\ place[1] = p
    BY PlacesOf
  <1>5. Null \in Pointer
    BY DEF Pointer
  <1>6. \A q \in Places : Held(q)' = IF q \in S THEN Null ELSE Held(q)
    <2> SUFFICES ASSUME NEW r \in Process, NEW k \in Index \cup {ImagePlace, StackPlace}
                 PROVE  Held(<<r, k>>)' = IF r = p THEN Null ELSE Held(<<r, k>>)
      BY DEF Places
    <2>1. /\ image'[r] = IF r = p THEN Null ELSE image[r]
          /\ stack'[r] = IF r = p THEN Null ELSE stack[r]
      BY <1>1, <1>3 DEF MemoryType
    <2>2. \A i \in Index : allocations'[r][i] = IF r = p THEN Null ELSE allocations[r][i]
      BY <1>1, <1>3 DEF MemoryType
    <2>3. CASE k = ImagePlace
      BY <2>1, <2>3 DEF Held
    <2>4. CASE k = StackPlace
      BY <2>1, <2>4, PlacesOf DEF Held
    <2>5. CASE k \in Index
      <3>1. k # ImagePlace /\ k # StackPlace
        BY <2>5, PlacesOf
      <3>2. Held(<<r, k>>)' = allocations'[r][k] /\ Held(<<r, k>>) = allocations[r][k]
        BY <3>1 DEF Held
      <3> QED  BY <2>2, <2>5, <3>2
    <2> QED  BY <2>3, <2>4, <2>5
  <1>7. \A a \in live : Has(p, a) <=> Owners(a) \cap S # {}
    <2>1. \A a : Owners(a) \subseteq Places
      BY DEF Owners
    <2> QED  BY <2>1 DEF Has
  <1>8. leaked' = (leaked \cup {a \in live : Owners(a) \cap S # {}}) \ Hit(Held(place))
    BY <1>3, <1>4, <1>7
  <1>9. hollow' = Hollowed(place) \ S
    <2>1. Hollowed(place) \subseteq Places
      BY <1>1 DEF Hollowed, Owned, Owners
    <2> QED  BY <1>3, <2>1
  <1>10. S \subseteq Places /\ place \in S /\ kfree(Held(place))
    BY <1>3, <1>4
  <1> HIDE DEF place, S
  <1>11. /\ Owned'
         /\ \A q \in Places : q \notin S /\ q \notin hollow' =>
                \A a \in live : a.start = Held(q) => a \in live'
    BY <1>1, <1>6, <1>8, <1>9, <1>10, FreePlaces
  <1>12. Kept
    BY <1>6, <1>11 DEF Kept
  <1>13. MemoryType'
    <2>1. /\ image' \in [Process -> Pointer] /\ stack' \in [Process -> Pointer]
          /\ writable' \in [Process -> SUBSET Int]
      BY <1>1, <1>3, <1>5 DEF MemoryType
    <2>2. allocations' \in [Process -> [Index -> Pointer]]
      BY <1>1, <1>3, <1>5 DEF MemoryType
    <2>3. pc' \in Busy \cup {"user"} /\ pc' \notin Busy \ {"panic"}
      BY <1>3 DEF Busy, Loading
    <2> QED  BY <1>1, <1>3, <1>11, <2>1, <2>2, <2>3 DEF MemoryType, Owned
  <1>14. ASSUME NEW r \in Process PROVE PlaceInv(r)'
    <2>1. /\ image'[r] = IF r = p THEN Null ELSE image[r]
          /\ stack'[r] = IF r = p THEN Null ELSE stack[r]
      BY <1>1, <1>3 DEF MemoryType
    <2>2. PlaceInv(r)
      BY <1>1 DEF PlacesInv
    <2> QED  BY <1>3, <2>1, <2>2 DEF PlaceInv, Busy, Loading
  <1>15. OwnOnly
    BY <1>1, <1>3 DEF OwnOnly, MemoryType
  <1> QED  BY <1>11, <1>12, <1>13, <1>14, <1>15 DEF MInv, Owned, PlacesInv

\* Its stack, which is the last it has.
LEMMA FreeStackStep ==
    ASSUME MInv, free_stack
    PROVE  MInv' /\ Kept /\ OwnOnly
PROOF
  <1>1. Owned /\ MemoryType /\ PlacesInv
    BY Parts
  <1>2. PICK p \in Process : p = who
    BY <1>1 DEF free_stack, MemoryType, Busy
  <1>3. /\ pc = "free_stack" /\ who = p /\ kfree(stack[p]) /\ Released(<<p, StackPlace>>)
        /\ stack' = [stack EXCEPT ![p] = Null]
        /\ pc' = "user" /\ who' = Null
        /\ UNCHANGED <<alive, allocations, image, writable, argc, started, beyond>>
    BY <1>2 DEF free_stack
  <1>4. <<p, StackPlace>> \in Places /\ Held(<<p, StackPlace>>) = stack[p]
    BY PlacesOf
  <1>5. \A q \in Places : Held(q)' = IF q = <<p, StackPlace>> THEN Null ELSE Held(q)
    BY <1>1, <1>3, StackMoves
  <1>6. kfree(Held(<<p, StackPlace>>))
    BY <1>3, <1>4
  <1>7. /\ Owned'
        /\ \A q \in Places : q # <<p, StackPlace>> /\ q \notin hollow' =>
               \A a \in live : a.start = Held(q) => a \in live'
    BY <1>1, <1>3, <1>4, <1>5, <1>6, FreePlace
  <1>8. Kept
    BY <1>5, <1>7 DEF Kept
  <1>9. MemoryType'
    <2>1. stack' \in [Process -> Pointer]
      BY <1>1, <1>3 DEF MemoryType, Pointer
    <2>2. pc' = "user" /\ pc' \notin Busy
      BY <1>3 DEF Busy, Loading
    <2> QED  BY <1>1, <1>3, <1>7, <2>1, <2>2 DEF MemoryType, Owned
  <1>10. ASSUME NEW r \in Process PROVE PlaceInv(r)'
    <2>1. stack'[r] = IF r = p THEN Null ELSE stack[r]
      BY <1>1, <1>3 DEF MemoryType
    <2>2. PlaceInv(r)
      BY <1>1 DEF PlacesInv
    <2> QED  BY <1>3, <2>1, <2>2 DEF PlaceInv, Busy, Loading
  <1>11. OwnOnly
    BY <1>3 DEF OwnOnly
  <1> QED  BY <1>7, <1>8, <1>9, <1>10, <1>11 DEF MInv, Owned, PlacesInv

----------------------------------------------------------------------------
\* At the start nobody holds anything.
LEMMA MemoryInitInv == MemoryInit => MInv
PROOF
  <1> SUFFICES ASSUME MemoryInit PROVE MInv
    OBVIOUS
  <1>1. \A q \in Places : Held(q) = Null
    BY DEF Places, Held, MemoryInit
  <1>2. HeapInv /\ Apart
    BY DEF MemoryInit, HeapInit, HeapInv, Apart, FREE, Flag
  <1>3. OwnedOnce
    BY <1>1 DEF MemoryInit, HeapInit, OwnedOnce
  <1>4. MemoryType
    <2>1. 0 \in 0 .. (Word - 1)
      BY HeapAssumption
    <2> QED  BY <2>1 DEF MemoryInit, MemoryType, Pointer, Busy, Loading
  <1>5. PlacesInv
    BY DEF MemoryInit, PlacesInv, PlaceInv, Busy, Loading
  <1> QED  BY <1>2, <1>3, <1>4, <1>5 DEF MInv

\* Every step keeps the invariant, and does what the action properties say.
LEMMA MemoryStep == MInv /\ [MemoryNext]_memory_vars => MInv' /\ Kept /\ OwnOnly
PROOF
  <1> SUFFICES ASSUME MInv, [MemoryNext]_memory_vars PROVE MInv' /\ Kept /\ OwnOnly
    OBVIOUS
  <1>1. ASSUME NEW p \in Process, exec(p) PROVE MInv' /\ Kept /\ OwnOnly
    BY <1>1, ExecStep
  <1>2. CASE load_stack
    BY <1>2, LoadStackStep
  <1>3. CASE load_fails
    BY <1>3, LoadFailsStep
  <1>4. ASSUME NEW segment \in Segments, load_segment(segment) PROVE MInv' /\ Kept /\ OwnOnly
    BY <1>4, LoadSegmentStep
  <1>5. CASE load_map
    BY <1>5, LoadMapStep
  <1>6. CASE load_framebuffer
    BY <1>6, LoadFramebufferStep
  <1>7. ASSUME NEW p \in Process, sys_get_process_arguments(p) PROVE MInv' /\ Kept /\ OwnOnly
    BY <1>7, ArgumentsStep
  <1>8. CASE next_argument
    BY <1>8, NextArgumentStep
  <1>9. ASSUME NEW p \in Process, NEW size \in Sizes, sys_malloc(p, size)
        PROVE  MInv' /\ Kept /\ OwnOnly
    BY <1>9, SysMallocStep
  <1>10. ASSUME NEW p \in Process, NEW pointer \in Pointer, sys_free(p, pointer)
         PROVE  MInv' /\ Kept /\ OwnOnly
    BY <1>10, SysFreeStep
  <1>11. ASSUME NEW p \in Process, process_terminate(p) PROVE MInv' /\ Kept /\ OwnOnly
    BY <1>11, TerminateStep
  <1>12. CASE free_allocation
    BY <1>12, FreeAllocationStep
  <1>13. CASE free_image
    BY <1>13, FreeImageStep
  <1>14. CASE free_stack
    BY <1>14, FreeStackStep
  <1>15. CASE UNCHANGED memory_vars
    BY <1>15, NoStep
  <1> QED  BY <1>1, <1>2, <1>3, <1>4, <1>5, <1>6, <1>7, <1>8, <1>9, <1>10, <1>11, <1>12, <1>13,
              <1>14, <1>15 DEF MemoryNext, Panicked

\* The invariant of processes and their memory: exec and its loader
\* (process.cpp:83-236), process_malloc and process_free (process.cpp:268-301)
\* and process_terminate (process.cpp:303-336), over the heap.
THEOREM MemoryInductive == MemorySpec => []MInv
PROOF
  <1>1. MemoryInit => MInv
    BY MemoryInitInv
  <1>2. MInv /\ [MemoryNext]_memory_vars => MInv'
    BY MemoryStep
  <1> QED  BY <1>1, <1>2, PTL DEF MemorySpec

\* Every block that is taken belongs to one place of one process, but for what
\* failed loads leave to nobody: loads and processes that end leak nothing else,
\* free nothing twice and share nothing (process.cpp:153-236, 303-336).
THEOREM MemoryOwnedOnce == MemorySpec => []OwnedOnce
PROOF
  <1>1. MInv => OwnedOnce
    BY DEF MInv
  <1> QED  BY <1>1, MemoryInductive, PTL

\* What a process is let write is its image, its stack or an allocation of its
\* own, rounding and wrapping included (paging.c:164-258, process.cpp:268-291),
\* unless a null pointer or its file's headers named it (process.cpp:99-115).
THEOREM MemoryMapsOnlyOwn == MemorySpec => MapsOnlyOwn
PROOF
  <1>1. MInv /\ [MemoryNext]_memory_vars =>
          [\A p \in Process \ beyond' : writable'[p] \ writable[p] \subseteq OwnPages(p)']_memory_vars
    BY MemoryStep DEF OwnOnly
  <1> QED  BY <1>1, MemoryInductive, PTL DEF MemorySpec, MapsOnlyOwn

\* No free, no end of a process and no failed load takes memory from a process
\* that keeps a pointer that reserves it (process.cpp:202-217, 293-336).
THEOREM MemoryOthersKeepTheirs == MemorySpec => OthersKeepTheirs
PROOF
  <1> DEFINE Others ==
        \A p \in alive : \A i \in Index :
            LET kept == allocations[p][i]
            IN  kept # Null /\ allocations'[p][i] = kept /\ <<p, i>> \notin hollow' =>
                   \A a \in live : a.start = kept => a \in live'
  <1>1. MInv /\ Kept => Others
    <2> SUFFICES ASSUME MInv, Kept, NEW p \in alive, NEW i \in Index,
                        allocations[p][i] # Null, allocations'[p][i] = allocations[p][i],
                        <<p, i>> \notin hollow', NEW a \in live, a.start = allocations[p][i]
                 PROVE  a \in live'
      OBVIOUS
    <2>1. p \in Process
      BY DEF MInv, MemoryType
    <2>2. /\ <<p, i>> \in Places /\ Held(<<p, i>>) = allocations[p][i]
          /\ i # ImagePlace /\ i # StackPlace
      BY <2>1, PlacesOf
    <2>3. Held(<<p, i>>)' = allocations'[p][i]
      BY <2>2 DEF Held
    <2> QED  BY <2>2, <2>3 DEF Kept
  <1>2. MInv /\ [MemoryNext]_memory_vars => [Others]_memory_vars
    BY <1>1, MemoryStep
  <1> QED  BY <1>2, MemoryInductive, PTL DEF MemorySpec, OthersKeepTheirs
=============================================================================
