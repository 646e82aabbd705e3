----------------------------- MODULE LibraryProof -----------------------------
(***************************************************************************)
(* Proofs about seven sequential parts.  The position of the file over the *)
(* frame buffer is where a program takes it to be, for every size of the   *)
(* buffer; what the shell draws is what that file shows, with one cursor,  *)
(* for every size of the screen, of windows and of the cursor and every    *)
(* motion of the mouse; the objects that opens along directories take are  *)
(* those of the open files, and each open ends at the entry that its path  *)
(* denotes, for every partition; the heap is where the longest region is,  *)
(* for every map of the memory; a line is run as it was edited, for every  *)
(* length of its array; an open finds the mount that serves its path, for  *)
(* every path and every table of mounts; and the string routines compare,  *)
(* copy, convert and print as their callers take them to, for every text,  *)
(* number and format.                                                      *)
(***************************************************************************)
EXTENDS Calls, Desktop, Directory, Boot, Zofia, Lookup, TLAPS,
        SequenceTheorems, FiniteSetTheorems, WellFoundedInduction

----------------------------------------------------------------------------
\* The file over the frame buffer.

IsFile(f) == \E data : \E idx \in 0 .. BufferSize : f = [data |-> data, idx |-> idx]

\* The inductive invariant of the file.
MemoryFSInv ==
    /\ IsFile(fb)
    /\ DOMAIN expected = Holder
    /\ PositionKept

LEMMA FileFacts ==
    /\ BufferSize \in Nat /\ BufferSize > 0 /\ Wide \in Nat
    /\ 2 * BufferSize <= Wide \div 2 /\ Wide \div 2 \in Nat
    /\ 2 * (Wide \div 2) <= Wide /\ Wide > 0
    /\ \A f : IsFile(f) => f.idx \in 0 .. BufferSize /\ f.idx \in Nat
PROOF
  <1>1. BufferSize \in Nat /\ BufferSize > 0 /\ Wide \in Nat /\ 2 * BufferSize <= Wide \div 2
    BY MemoryFSAssumption
  <1>2. Wide \div 2 \in Nat /\ 2 * (Wide \div 2) <= Wide
    BY <1>1
  <1>3. ASSUME NEW f, IsFile(f) PROVE f.idx \in 0 .. BufferSize /\ f.idx \in Nat
    BY <1>1, <1>3 DEF IsFile
  <1> QED  BY <1>1, <1>2, <1>3

\* Indexes wrap only in front of the buffer.
LEMMA Wrapped ==
    /\ \A i \in Nat : i < Wide => i % Wide = i
    /\ \A i \in 1 .. Wide : (0 - i) % Wide = Wide - i
PROOF
  <1>1. Wide \in Nat /\ Wide > 0
    BY FileFacts
  <1>2. \A k \in Int : \A m \in Nat : m < Wide => (Wide * k + m) % Wide = m
    BY <1>1
  <1>3. ASSUME NEW i \in 1 .. Wide PROVE (0 - i) % Wide = Wide - i
    <2>1. CASE i = Wide
      <3>1. 0 - i = Wide * (-1) + 0
        BY <1>1, <2>1
      <3> QED  BY <1>1, <1>2, <2>1, <3>1
    <2>2. CASE i < Wide
      <3>1. 0 - i = Wide * (-1) + (Wide - i) /\ Wide - i \in Nat /\ Wide - i < Wide
        BY <1>1, <2>2
      <3> QED  BY <1>2, <3>1
    <2> QED  BY <1>1, <2>1, <2>2
  <1>4. ASSUME NEW i \in Nat, i < Wide PROVE i % Wide = i
    BY <1>1, <1>4
  <1> QED  BY <1>3, <1>4

\* One block, which is refused as a whole when there is no room for it.
LEMMA BlockMoves ==
    ASSUME NEW f, IsFile(f), NEW size \in 0 .. (BufferSize + 1)
    PROVE  /\ Refuses(f, size) <=> f.idx + size > BufferSize
           /\ IsFile(read(f, size))
           /\ f.idx + size <= BufferSize => read(f, size).idx = f.idx + size
           /\ \A block : Len(block) = size =>
                  /\ IsFile(write(f, block))
                  /\ f.idx + size <= BufferSize => write(f, block).idx = f.idx + size
PROOF
  <1>1. PICK data, idx : idx \in 0 .. BufferSize /\ f = [data |-> data, idx |-> idx]
    BY Zenon DEF IsFile
  <1>2. f.idx = idx /\ idx \in Nat /\ size \in Nat /\ idx + size <= 2 * BufferSize + 1
    BY <1>1, FileFacts
  <1>3. (f.idx + size) % Wide = f.idx + size
    <2>1. idx + size < Wide /\ idx + size \in Nat
      BY <1>2, FileFacts
    <2> QED  BY <1>2, <2>1, Wrapped
  <1>4. Refuses(f, size) <=> f.idx + size > BufferSize
    BY <1>3 DEF Refuses
  <1>5. CASE f.idx + size > BufferSize
    BY <1>2, <1>4, <1>5, FileFacts DEF read, write
  <1>6. CASE ~(f.idx + size > BufferSize)
    <2>1. idx + size \in 0 .. BufferSize
      BY <1>2, <1>6, FileFacts
    <2>2. read(f, size) = [data |-> data, idx |-> idx + size]
      BY <1>1, <1>4, <1>6 DEF read
    <2>3. ASSUME NEW block, Len(block) = size
          PROVE  IsFile(write(f, block)) /\ write(f, block).idx = idx + size
      <3>1. \E d : write(f, block) = [data |-> d, idx |-> idx + size]
        BY <1>1, <1>4, <1>6, <2>3 DEF write
      <3>2. PICK d : write(f, block) = [data |-> d, idx |-> idx + size]
        BY <3>1
      <3>3. IsFile(write(f, block))
        BY <2>1, <3>2, Zenon DEF IsFile
      <3> QED  BY <3>2, <3>3
    <2>4. IsFile(read(f, size)) /\ read(f, size).idx = idx + size
      <3>1. IsFile(read(f, size))
        BY <2>1, <2>2, Zenon DEF IsFile
      <3> QED  BY <2>2, <3>1
    <2> QED  BY <1>2, <1>4, <2>3, <2>4
  <1> QED  BY <1>5, <1>6

\* A set of natural numbers that is not empty has a least element: the first
\* block of a call at which a claim would fail.
LEMMA LeastExists ==
    ASSUME NEW S, S \subseteq Nat, S # {}
    PROVE  \E s \in S : \A t \in S : s <= t
PROOF
  <1>1. PICK x \in S : \A y \in S : ~ (<<y, x>> \in OpToRel(<, Nat))
    BY NatLessThanWellFounded, WFMin, Zenon
  <1>2. \A y \in S : ~ (y < x)
    BY <1>1 DEF OpToRel
  <1> QED  BY <1>2

\* The blocks of a call move the position together as they do one by one.
LEMMA BlocksMove ==
    ASSUME NEW size \in Nat, NEW L \in Nat, NEW g, IsFile(g[0]),
           \A n \in 1 .. L : IsFile(g[n - 1]) =>
               /\ IsFile(g[n])
               /\ g[n - 1].idx + size <= BufferSize => g[n].idx = g[n - 1].idx + size
    PROVE  /\ IsFile(g[L])
           /\ g[0].idx + size * L <= BufferSize => g[L].idx = g[0].idx + size * L
PROOF
  <1> DEFINE Claim(n) == /\ IsFile(g[n])
                         /\ g[0].idx + size * n <= BufferSize => g[n].idx = g[0].idx + size * n
             Bad == {n \in 0 .. L : ~Claim(n)}
  <1>1. SUFFICES Bad = {}
    <2>1. L \in 0 .. L
      OBVIOUS
    <2> QED  BY <2>1
  <1>2. SUFFICES ASSUME Bad # {} PROVE FALSE
    OBVIOUS
  <1>3. PICK n \in Bad : \A m \in Bad : n <= m
    <2>1. Bad \subseteq Nat
      OBVIOUS
    <2> QED  BY <1>2, <2>1, LeastExists
  <1>4. g[0].idx \in Nat
    BY FileFacts
  <1>5. n # 0
    <2>1. size * 0 = 0 /\ g[0].idx + 0 = g[0].idx
      BY <1>4
    <2>2. Claim(0)
      BY <2>1
    <2> QED  BY <1>3, <2>2
  <1>6. n \in 1 .. L /\ n - 1 \in 0 .. L /\ n - 1 \notin Bad
    BY <1>3, <1>5
  <1>7. Claim(n - 1)
    BY <1>6
  <1>8. /\ IsFile(g[n])
        /\ g[n - 1].idx + size <= BufferSize => g[n].idx = g[n - 1].idx + size
    BY <1>6, <1>7
  <1>9. ASSUME g[0].idx + size * n <= BufferSize PROVE g[n].idx = g[0].idx + size * n
    <2>1. size * n = size * (n - 1) + size /\ size * (n - 1) \in Nat /\ size * n \in Nat
      BY <1>6
    <2>2. g[0].idx + size * (n - 1) <= BufferSize
      BY <1>4, <1>9, <2>1, FileFacts
    <2>3. g[n - 1].idx = g[0].idx + size * (n - 1)
      BY <1>7, <2>2
    <2> QED  BY <1>4, <1>8, <1>9, <2>1, <2>3, FileFacts
  <1> QED  BY <1>3, <1>8, <1>9

\* The files that a call of writes and one of reads go through exist.
IsWrites(g, f, blocks, L) ==
    g = [n \in 0 .. L |-> IF n = 0 THEN f ELSE write(g[n - 1], blocks[n])]

LEMMA WritesExist ==
    ASSUME NEW f, NEW blocks, NEW L \in Nat
    PROVE  \E g : IsWrites(g, f, blocks, L)
PROOF
  <1> DEFINE Bad == {k \in 0 .. L : ~ \E g : IsWrites(g, f, blocks, k)}
  <1>1. SUFFICES ASSUME Bad # {} PROVE FALSE
    <2>1. L \in 0 .. L
      OBVIOUS
    <2> QED  BY <2>1
  <1>2. PICK k \in Bad : \A j \in Bad : k <= j
    <2>1. Bad \subseteq Nat
      OBVIOUS
    <2> QED  BY <1>1, <2>1, LeastExists
  <1>3. CASE k = 0
    <2> DEFINE g == [n \in 0 .. 0 |-> f]
    <2>1. \A n \in 0 .. 0 : n = 0
      OBVIOUS
    <2>2. g = [n \in 0 .. 0 |-> IF n = 0 THEN f ELSE write(g[n - 1], blocks[n])]
      BY <2>1
    <2> QED  BY <1>2, <1>3, <2>2 DEF IsWrites
  <1>4. CASE k # 0
    <2>1. k - 1 \in 0 .. L /\ k - 1 \notin Bad /\ k \in 1 .. L
      BY <1>2, <1>4
    <2>2. PICK h : IsWrites(h, f, blocks, k - 1)
      BY <2>1
    <2> DEFINE g == [n \in 0 .. k |-> IF n = k THEN write(h[k - 1], blocks[k]) ELSE h[n]]
    <2>3. ASSUME NEW n \in 0 .. k
          PROVE  g[n] = IF n = 0 THEN f ELSE write(g[n - 1], blocks[n])
      <3>1. CASE n = k
        <4>1. n # 0 /\ n - 1 \in 0 .. k /\ n - 1 # k
          BY <2>1, <3>1
        <4> QED  BY <3>1, <4>1
      <3>2. CASE n # k
        <4>1. n \in 0 .. (k - 1) /\ (n # 0 => n - 1 \in 0 .. k /\ n - 1 # k)
          BY <2>1, <3>2
        <4>2. h[n] = IF n = 0 THEN f ELSE write(h[n - 1], blocks[n])
          BY <2>2, <4>1 DEF IsWrites
        <4> QED  BY <3>2, <4>1, <4>2
      <3> QED  BY <3>1, <3>2
    <2>4. g = [n \in 0 .. k |-> IF n = 0 THEN f ELSE write(g[n - 1], blocks[n])]
      <3> HIDE DEF g
      <3>1. g = [n \in 0 .. k |-> g[n]]
        BY DEF g
      <3> QED  BY <2>3, <3>1
    <2> QED  BY <1>2, <2>4 DEF IsWrites
  <1> QED  BY <1>3, <1>4

IsReads(g, f, size, L) ==
    g = [n \in 0 .. L |-> IF n = 0 THEN f ELSE read(g[n - 1], size)]

LEMMA ReadsExist ==
    ASSUME NEW f, NEW size, NEW L \in Nat
    PROVE  \E g : IsReads(g, f, size, L)
PROOF
  <1> DEFINE Bad == {k \in 0 .. L : ~ \E g : IsReads(g, f, size, k)}
  <1>1. SUFFICES ASSUME Bad # {} PROVE FALSE
    <2>1. L \in 0 .. L
      OBVIOUS
    <2> QED  BY <2>1
  <1>2. PICK k \in Bad : \A j \in Bad : k <= j
    <2>1. Bad \subseteq Nat
      OBVIOUS
    <2> QED  BY <1>1, <2>1, LeastExists
  <1>3. CASE k = 0
    <2> DEFINE g == [n \in 0 .. 0 |-> f]
    <2>1. \A n \in 0 .. 0 : n = 0
      OBVIOUS
    <2>2. g = [n \in 0 .. 0 |-> IF n = 0 THEN f ELSE read(g[n - 1], size)]
      BY <2>1
    <2> QED  BY <1>2, <1>3, <2>2 DEF IsReads
  <1>4. CASE k # 0
    <2>1. k - 1 \in 0 .. L /\ k - 1 \notin Bad /\ k \in 1 .. L
      BY <1>2, <1>4
    <2>2. PICK h : IsReads(h, f, size, k - 1)
      BY <2>1
    <2> DEFINE g == [n \in 0 .. k |-> IF n = k THEN read(h[k - 1], size) ELSE h[n]]
    <2>3. ASSUME NEW n \in 0 .. k
          PROVE  g[n] = IF n = 0 THEN f ELSE read(g[n - 1], size)
      <3>1. CASE n = k
        <4>1. n # 0 /\ n - 1 \in 0 .. k /\ n - 1 # k
          BY <2>1, <3>1
        <4> QED  BY <3>1, <4>1
      <3>2. CASE n # k
        <4>1. n \in 0 .. (k - 1) /\ (n # 0 => n - 1 \in 0 .. k /\ n - 1 # k)
          BY <2>1, <3>2
        <4>2. h[n] = IF n = 0 THEN f ELSE read(h[n - 1], size)
          BY <2>2, <4>1 DEF IsReads
        <4> QED  BY <3>2, <4>1, <4>2
      <3> QED  BY <3>1, <3>2
    <2>4. g = [n \in 0 .. k |-> IF n = 0 THEN f ELSE read(g[n - 1], size)]
      <3> HIDE DEF g
      <3>1. g = [n \in 0 .. k |-> g[n]]
        BY DEF g
      <3> QED  BY <2>3, <3>1
    <2> QED  BY <1>2, <2>4 DEF IsReads
  <1> QED  BY <1>3, <1>4

\* What a call leaves is the last of them.
LEMMA WritesEnd ==
    ASSUME NEW f, NEW blocks, Len(blocks) \in Nat
    PROVE  \E g : IsWrites(g, f, blocks, Len(blocks)) /\ memory_write(f, blocks) = g[Len(blocks)]
PROOF
  <1> DEFINE g == CHOOSE h : h = [n \in 0 .. Len(blocks) |-> IF n = 0 THEN f ELSE write(h[n - 1], blocks[n])]
  <1>1. \E h : h = [n \in 0 .. Len(blocks) |-> IF n = 0 THEN f ELSE write(h[n - 1], blocks[n])]
    <2>1. PICK h : IsWrites(h, f, blocks, Len(blocks))
      BY WritesExist
    <2> QED  BY <2>1, Zenon DEF IsWrites
  <1>2. IsWrites(g, f, blocks, Len(blocks))
    BY <1>1, Zenon DEF IsWrites
  <1>3. memory_write(f, blocks) = g[Len(blocks)]
    BY Zenon DEF memory_write
  <1> HIDE DEF g
  <1> QED  BY <1>2, <1>3

LEMMA ReadsEnd ==
    ASSUME NEW f, NEW size, NEW nmemb, nmemb \in Nat
    PROVE  \E g : IsReads(g, f, size, nmemb) /\ memory_read(f, size, nmemb) = g[nmemb]
PROOF
  <1> DEFINE g == CHOOSE h : h = [n \in 0 .. nmemb |-> IF n = 0 THEN f ELSE read(h[n - 1], size)]
  <1>1. \E h : h = [n \in 0 .. nmemb |-> IF n = 0 THEN f ELSE read(h[n - 1], size)]
    <2>1. PICK h : IsReads(h, f, size, nmemb)
      BY ReadsExist
    <2> QED  BY <2>1, Zenon DEF IsReads
  <1>2. IsReads(g, f, size, nmemb)
    BY <1>1, Zenon DEF IsReads
  <1>3. memory_read(f, size, nmemb) = g[nmemb]
    BY Zenon DEF memory_read
  <1> HIDE DEF g
  <1> QED  BY <1>2, <1>3

\* A call keeps the position inside the buffer, and moves it by all its blocks
\* when there is room for them.
LEMMA CallsMove ==
    ASSUME NEW f, IsFile(f), NEW size \in 1 .. (BufferSize + 1), NEW nmemb \in Nat
    PROVE  LET written == memory_write(f, [n \in 1 .. nmemb |-> [i \in 1 .. size |-> Lost]])
               taken == memory_read(f, size, nmemb)
           IN  /\ IsFile(written) /\ IsFile(taken)
               /\ f.idx + size * nmemb <= BufferSize =>
                      written.idx = f.idx + size * nmemb /\ taken.idx = f.idx + size * nmemb
PROOF
  <1> DEFINE block == [i \in 1 .. size |-> Lost]
             blocks == [n \in 1 .. nmemb |-> block]
             written == memory_write(f, blocks)
             taken == memory_read(f, size, nmemb)
  <1>1. size \in Nat /\ size \in 0 .. (BufferSize + 1)
    BY FileFacts
  <1>2. Len(block) = size /\ Len(blocks) = nmemb /\ \A n \in 1 .. nmemb : blocks[n] = block
    BY <1>1
  <1> HIDE DEF block, blocks
  <1>3. IsFile(written) /\ (f.idx + size * nmemb <= BufferSize => written.idx = f.idx + size * nmemb)
    <2>1. PICK g : IsWrites(g, f, blocks, nmemb) /\ written = g[nmemb]
      BY <1>2, WritesEnd
    <2>2. \A n \in 0 .. nmemb : g[n] = IF n = 0 THEN f ELSE write(g[n - 1], blocks[n])
      BY <2>1 DEF IsWrites
    <2>3. g[0] = f
      BY <2>2
    <2>4. ASSUME NEW n \in 1 .. nmemb, IsFile(g[n - 1])
          PROVE  /\ IsFile(g[n])
                 /\ g[n - 1].idx + size <= BufferSize => g[n].idx = g[n - 1].idx + size
      <3>1. n \in 0 .. nmemb /\ n # 0
        OBVIOUS
      <3>2. g[n] = write(g[n - 1], block)
        BY <1>2, <2>2, <3>1
      <3> QED  BY <1>1, <1>2, <2>4, <3>2, BlockMoves
    <2> QED  BY <1>1, <2>1, <2>3, <2>4, BlocksMove
  <1>4. IsFile(taken) /\ (f.idx + size * nmemb <= BufferSize => taken.idx = f.idx + size * nmemb)
    <2>1. PICK g : IsReads(g, f, size, nmemb) /\ taken = g[nmemb]
      BY ReadsEnd
    <2>2. \A n \in 0 .. nmemb : g[n] = IF n = 0 THEN f ELSE read(g[n - 1], size)
      BY <2>1 DEF IsReads
    <2>3. g[0] = f
      BY <2>2
    <2>4. ASSUME NEW n \in 1 .. nmemb, IsFile(g[n - 1])
          PROVE  /\ IsFile(g[n])
                 /\ g[n - 1].idx + size <= BufferSize => g[n].idx = g[n - 1].idx + size
      <3>1. n \in 0 .. nmemb /\ n # 0
        OBVIOUS
      <3>2. g[n] = read(g[n - 1], size)
        BY <2>2, <3>1
      <3> QED  BY <1>1, <2>4, <3>2, BlockMoves
    <2> QED  BY <1>1, <2>1, <2>3, <2>4, BlocksMove
  <1> QED  BY <1>3, <1>4 DEF blocks, block

\* Where a seek arrives, if it is not refused.
LEMMA SeekArrives ==
    ASSUME NEW f, IsFile(f), NEW offset \in 0 .. (Wide - 1), NEW whence \in Whence,
           seek(f, offset, whence) # Refused
    PROVE  /\ seek(f, offset, whence) \in 0 .. BufferSize
           /\ whence = "SEEK_SET" => seek(f, offset, whence) = offset
           /\ whence = "SEEK_CUR" => seek(f, offset, whence) = f.idx + offset
PROOF
  <1> DEFINE forward == (f.idx + offset) % Wide
             backward == (f.idx - offset) % Wide
  <1>1. f.idx \in 0 .. BufferSize /\ f.idx \in Nat /\ offset \in Nat
    BY FileFacts
  <1>2. offset < BufferSize
    <2>1. offset >= BufferSize => seek(f, offset, whence) = Refused
      BY <1>1, FileFacts DEF seek
    <2> QED  BY <1>1, <2>1, FileFacts
  <1>3. CASE whence = "SEEK_SET"
    <2>1. seek(f, offset, whence) = offset
      BY <1>1, <1>2, <1>3, FileFacts DEF seek
    <2> QED  BY <1>1, <1>2, <1>3, <2>1, FileFacts
  <1>4. CASE whence = "SEEK_CUR"
    <2>1. forward = f.idx + offset
      <3>1. f.idx + offset \in Nat /\ f.idx + offset < Wide
        BY <1>1, <1>2, FileFacts
      <3> QED  BY <3>1, Wrapped
    <2> HIDE DEF forward
    <2>2. seek(f, offset, whence) =
              IF forward > f.idx \/ Negative(forward) THEN Refused ELSE forward
      BY <1>1, <1>2, <1>4, FileFacts DEF seek, forward
    <2>3. seek(f, offset, whence) = forward /\ ~(forward > f.idx)
      BY <2>2
    <2> QED  BY <1>1, <1>4, <2>1, <2>3, FileFacts
  <1>5. CASE whence = "SEEK_END"
    <2> HIDE DEF backward
    <2>1. seek(f, offset, whence) = IF Negative(backward) THEN Refused ELSE backward
      BY <1>1, <1>2, <1>5, FileFacts DEF seek, backward
    <2>2. CASE offset <= f.idx
      <3>1. f.idx - offset \in Nat /\ f.idx - offset < Wide /\ f.idx - offset \in 0 .. BufferSize
        BY <1>1, <2>2, FileFacts
      <3>2. backward = f.idx - offset
        BY <3>1, Wrapped DEF backward
      <3>3. seek(f, offset, whence) = backward
        BY <2>1
      <3> QED  BY <1>5, <3>1, <3>2, <3>3
    <2>3. CASE ~(offset <= f.idx)
      <3>1. /\ offset - f.idx \in 1 .. Wide /\ f.idx - offset = 0 - (offset - f.idx)
            /\ offset - f.idx <= BufferSize
        BY <1>1, <1>2, <2>3, FileFacts
      <3>2. backward = Wide - (offset - f.idx)
        BY <3>1, Wrapped DEF backward
      <3>3. backward >= Wide \div 2
        BY <1>1, <3>1, <3>2, FileFacts
      <3> QED  BY <2>1, <3>3 DEF Negative
    <2> QED  BY <2>2, <2>3
  <1> QED  BY <1>3, <1>4, <1>5 DEF Whence

\* A call that leaves its program where it takes itself to be leaves the others
\* where they were, or knowing nothing.
LEMMA ExpectsKeep ==
    ASSUME MemoryFSInv, NEW p \in Holder, NEW position, Expects(p, position),
           IsFile(fb'), position \in {Lost, fb'.idx}
    PROVE  MemoryFSInv'
PROOF
  <1>1. \A q \in Holder : expected[q] \in {Lost, fb.idx}
    BY DEF MemoryFSInv, PositionKept
  <1>2. expected' = [q \in Holder |-> IF q = p THEN position
                                      ELSE IF fb'.idx = fb.idx THEN expected[q] ELSE Lost]
    BY DEF Expects
  <1>3. \A q \in Holder : expected'[q] \in {Lost, fb'.idx}
    BY <1>1, <1>2
  <1>4. DOMAIN expected' = Holder
    BY <1>2
  <1>5. fb'.idx \in 0 .. BufferSize
    BY FileFacts
  <1> QED  BY <1>3, <1>4, <1>5 DEF MemoryFSInv, PositionKept

LEMMA SeekKeeps ==
    ASSUME MemoryFSInv, NEW p \in Holder, NEW offset \in 0 .. (Wide - 1), NEW whence \in Whence,
           memory_seek(p, offset, whence)
    PROVE  MemoryFSInv'
PROOF
  <1> DEFINE to == seek(fb, offset, whence)
             position == IF whence = "SEEK_SET" THEN offset
                         ELSE IF whence = "SEEK_END" \/ expected[p] = Lost THEN Lost
                         ELSE expected[p] + offset
  <1> HIDE DEF to
  <1>1. CASE to = Refused
    BY <1>1 DEF memory_seek, to, memoryfs_vars, MemoryFSInv, PositionKept, IsFile
  <1>2. CASE to # Refused
    <2>1. fb' = [fb EXCEPT !.idx = to] /\ Expects(p, position)
      BY <1>2 DEF memory_seek, to
    <2>2. IsFile(fb) /\ expected[p] \in {Lost, fb.idx}
      BY DEF MemoryFSInv, PositionKept
    <2>3. /\ to \in 0 .. BufferSize
          /\ whence = "SEEK_SET" => to = offset
          /\ whence = "SEEK_CUR" => to = fb.idx + offset
      BY <1>2, <2>2, SeekArrives DEF to
    <2>4. IsFile(fb') /\ fb'.idx = to
      <3>1. PICK data, idx : fb = [data |-> data, idx |-> idx]
        BY <2>2, Zenon DEF IsFile
      <3>2. fb' = [data |-> data, idx |-> to]
        BY <2>1, <3>1
      <3>3. IsFile(fb')
        BY <2>3, <3>2, Zenon DEF IsFile
      <3> QED  BY <3>2, <3>3
    <2>5. position \in {Lost, fb'.idx}
      BY <2>2, <2>3, <2>4 DEF Whence
    <2> HIDE DEF position
    <2> QED  BY <2>1, <2>4, <2>5, ExpectsKeep
  <1> QED  BY <1>1, <1>2

LEMMA CallKeeps ==
    ASSUME MemoryFSInv, NEW p \in Holder, NEW size \in 1 .. (BufferSize + 1), NEW nmemb \in Nat,
           fwrite(p, size, nmemb) \/ fread(p, size, nmemb)
    PROVE  MemoryFSInv'
PROOF
  <1> DEFINE position == IF expected[p] = Lost \/ fb.idx + size * nmemb > BufferSize THEN Lost
                         ELSE expected[p] + size * nmemb
  <1>1. IsFile(fb) /\ expected[p] \in {Lost, fb.idx}
    BY DEF MemoryFSInv, PositionKept
  <1>2. /\ IsFile(fb')
        /\ fb.idx + size * nmemb <= BufferSize => fb'.idx = fb.idx + size * nmemb
    BY <1>1, CallsMove DEF fwrite, fread
  <1>3. Expects(p, position)
    BY DEF fwrite, fread, Moved
  <1>4. position \in {Lost, fb'.idx}
    <2>1. fb.idx \in Nat /\ size * nmemb \in Nat
      BY <1>1, FileFacts
    <2> QED  BY <1>1, <1>2, <2>1, FileFacts
  <1> HIDE DEF position
  <1> QED  BY <1>2, <1>3, <1>4, ExpectsKeep

LEMMA InitMemoryFSInv == MemoryFSInit => MemoryFSInv
PROOF
  <1> SUFFICES ASSUME MemoryFSInit PROVE MemoryFSInv
    OBVIOUS
  <1>1. 0 \in 0 .. BufferSize
    BY FileFacts
  <1>2. IsFile(fb)
    BY <1>1, Zenon DEF MemoryFSInit, IsFile
  <1>3. fb.idx = 0 /\ expected = [p \in Holder |-> Lost]
    BY DEF MemoryFSInit
  <1> QED  BY <1>1, <1>2, <1>3 DEF MemoryFSInv, PositionKept

LEMMA NextMemoryFSInv == MemoryFSInv /\ [MemoryFSNext]_memoryfs_vars => MemoryFSInv'
PROOF
  <1> SUFFICES ASSUME MemoryFSInv, [MemoryFSNext]_memoryfs_vars PROVE MemoryFSInv'
    OBVIOUS
  <1>1. ASSUME NEW p \in Holder, NEW offset \in 0 .. (Wide - 1), NEW whence \in Whence,
               memory_seek(p, offset, whence)
        PROVE  MemoryFSInv'
    BY <1>1, SeekKeeps
  <1>2. ASSUME NEW p \in Holder, NEW size \in 1 .. (BufferSize + 1), NEW nmemb \in 1 .. 2,
               fwrite(p, size, nmemb) \/ fread(p, size, nmemb)
        PROVE  MemoryFSInv'
    BY <1>2, CallKeeps
  <1>3. CASE UNCHANGED memoryfs_vars
    BY <1>3 DEF memoryfs_vars, MemoryFSInv, PositionKept, IsFile
  <1> QED  BY <1>1, <1>2, <1>3 DEF MemoryFSNext

\* The one position of MemoryFS.cpp:86-132 stays inside the buffer, for every size of it,
\* and a program is where it takes itself to be until another uses the file.
THEOREM MemoryFSPositionKept == MemoryFSSpec => []PositionKept
PROOF
  <1>1. MemoryFSInv => PositionKept
    BY DEF MemoryFSInv
  <1> QED  BY <1>1, InitMemoryFSInv, NextMemoryFSInv, PTL DEF MemoryFSSpec

----------------------------------------------------------------------------
\* The desktop.

Offset == 0 .. (BufferSize - 1)
Colour == {"bg", "bar", "name", "cursor", Black} \cup Content

IsDrawing(d) ==
    d \in [fb : [data : [Offset -> Colour \cup {Lost}], idx : Nat],
           buffer : [Offset -> Colour], strayed : BOOLEAN]

LEMMA DesktopFacts ==
    /\ Width \in Nat /\ Height \in Nat /\ Width > 0 /\ Height > 0
    /\ WindowWidth \in Nat /\ WindowHeight \in Nat /\ TitleHeight \in Nat /\ NameWidth \in Nat
    /\ CursorSize \in Nat /\ Rounds \in Nat
    /\ BufferSize \in Nat /\ BufferSize > 0 /\ Wide \in Nat /\ 2 * BufferSize < Wide
    /\ Height <= BufferSize /\ Width * Height = BufferSize
PROOF
  <1>1. /\ Width \in Nat /\ Height \in Nat /\ Width * Height = BufferSize
        /\ WindowWidth \in Nat /\ WindowHeight \in Nat /\ TitleHeight \in Nat /\ NameWidth \in Nat
        /\ CursorSize \in Nat /\ Rounds \in Nat
    BY DesktopAssumption
  <1>2. BufferSize \in Nat /\ BufferSize > 0 /\ Wide \in Nat /\ 2 * BufferSize < Wide
    BY FileFacts
  <1>3. Width # 0 /\ Height # 0
    <2>1. 0 * Height = 0 /\ Width * 0 = 0
      BY <1>1
    <2> QED  BY <1>1, <1>2, <2>1
  <1>4. Height <= BufferSize
    <2>1. Width * Height = Height + (Width - 1) * Height
      BY <1>1
    <2>2. (Width - 1) * Height \in Nat
      BY <1>1, <1>3
    <2> QED  BY <1>1, <2>1, <2>2
  <1> QED  BY <1>1, <1>2, <1>3, <1>4

\* What is counted modulo Wide.
LEMMA Counted ==
    /\ \A n \in Nat : Modulo(n) \in 0 .. (Wide - 1) /\ Modulo(n) \in Nat
    /\ \A n \in Nat : n < Wide => Modulo(n) = n
    /\ \A a \in Nat : \A b \in Nat : Modulo(a + Modulo(b)) = Modulo(a + b)
PROOF
  <1>1. Wide \in Nat /\ Wide > 0
    BY DesktopFacts
  <1>2. \A n \in Nat : Modulo(n) \in 0 .. (Wide - 1) /\ Modulo(n) \in Nat
    BY <1>1 DEF Modulo
  <1>3. \A n \in Nat : n < Wide => Modulo(n) = n
    BY Wrapped DEF Modulo
  <1>4. ASSUME NEW a \in Nat, NEW b \in Nat PROVE Modulo(a + Modulo(b)) = Modulo(a + b)
    <2>1. \A k \in Int : \A m \in 0 .. (Wide - 1) : (Wide * k + m) % Wide = m
      BY <1>1
    <2>2. \A n \in Nat : \E k \in Int : n = Wide * k + (n % Wide) /\ n % Wide \in 0 .. (Wide - 1)
      BY <1>1
    <2>3. PICK j \in Int : b = Wide * j + (b % Wide) /\ b % Wide \in 0 .. (Wide - 1)
      BY <2>2
    <2> DEFINE r == b % Wide
    <2>4. a + r \in Nat
      BY <2>3
    <2> HIDE DEF r
    <2>5. PICK k \in Int : a + r = Wide * k + ((a + r) % Wide) /\ (a + r) % Wide \in 0 .. (Wide - 1)
      BY <2>2, <2>4
    <2> DEFINE s == (a + r) % Wide
    <2>6. b = Wide * j + r /\ a + r = Wide * k + s /\ s \in 0 .. (Wide - 1) /\ r \in 0 .. (Wide - 1)
      BY <2>3, <2>5 DEF r
    <2> HIDE DEF s
    <2>7. a + b = Wide * (k + j) + s
      BY <1>1, <2>6
    <2>8. (a + b) % Wide = s
      BY <2>1, <2>6, <2>7
    <2> QED  BY <2>8 DEF Modulo, r, s
  <1> QED  BY <1>2, <1>3, <1>4

\* Every pixel of the screen has an offset of its own.
LEMMA OffsetOnScreen ==
    ASSUME NEW x \in Nat, NEW y \in Nat, OnScreen(x, y)
    PROVE  get_offset(x, y) \in Offset /\ get_offset(x, y) = Width * y + x
PROOF
  <1>1. x < Width /\ y < Height
    BY DEF OnScreen
  <1>2. Height - 1 - y \in Nat /\ Width * (Height - 1 - y) \in Nat /\ Width * y \in Nat
    BY <1>1, DesktopFacts
  <1>3. Width * Height = Width * (y + 1) + Width * (Height - 1 - y)
    BY DesktopFacts
  <1>4. Width * (y + 1) = Width * y + Width
    BY DesktopFacts
  <1>5. Width * y + x \in Offset
    BY <1>1, <1>2, <1>3, <1>4, DesktopFacts DEF Offset
  <1>6. Width * y + x \in Nat /\ Width * y + x < Wide
    BY <1>5, DesktopFacts DEF Offset
  <1> QED  BY <1>5, <1>6, Counted DEF get_offset

LEMMA OffsetsApart ==
    ASSUME NEW x \in Nat, NEW y \in Nat, OnScreen(x, y),
           NEW u \in Nat, NEW v \in Nat, OnScreen(u, v),
           get_offset(x, y) = get_offset(u, v)
    PROVE  x = u /\ y = v
PROOF
  <1>1. Width * y + x = Width * v + u
    BY OffsetOnScreen
  <1>2. x < Width /\ u < Width
    BY DEF OnScreen
  <1>3. ASSUME NEW a \in Nat, NEW b \in Nat, NEW c \in Nat, NEW e \in Nat,
               b < Width, e < Width, Width * a + b = Width * c + e
        PROVE  ~(a < c)
    <2>1. SUFFICES ASSUME a < c PROVE FALSE
      OBVIOUS
    <2>2. c - a - 1 \in Nat /\ Width * (c - a - 1) \in Nat
      BY <2>1, DesktopFacts
    <2>3. Width * c = Width * a + Width + Width * (c - a - 1)
      BY DesktopFacts
    <2>4. Width * c \in Nat /\ Width * a \in Nat
      BY DesktopFacts
    <2> QED  BY <1>3, <2>2, <2>3, <2>4, DesktopFacts
  <1>4. y = v
    BY <1>1, <1>2, <1>3
  <1>5. Width * y \in Nat
    BY DesktopFacts
  <1> QED  BY <1>1, <1>4, <1>5

----------------------------------------------------------------------------
\* Drawing.

Hits(pixels, p, i) == p \in DOMAIN pixels /\ OnScreen(p[1], p[2]) /\ get_offset(p[1], p[2]) = i

Paints(d, e, pixels) ==
    /\ IsDrawing(e) /\ e.fb = d.fb /\ e.strayed = d.strayed
    /\ \A i \in Offset :
          \/ e.buffer[i] = d.buffer[i] /\ ~ \E p : Hits(pixels, p, i)
          \/ \E p : Hits(pixels, p, i) /\ e.buffer[i] = pixels[p]

LEMMA PixelsDrawn ==
    ASSUME NEW d, IsDrawing(d), NEW pixels, \A p \in DOMAIN pixels : pixels[p] \in Colour
    PROVE  Paints(d, Draw(d, pixels), pixels)
PROOF
  <1> DEFINE at == {p \in DOMAIN pixels : OnScreen(p[1], p[2])}
             of(i) == CHOOSE p \in at : get_offset(p[1], p[2]) = i
             new == [i \in Offset |-> IF \E p \in at : get_offset(p[1], p[2]) = i
                                      THEN pixels[of(i)] ELSE d.buffer[i]]
  <1>1. \A i : (\E p \in at : get_offset(p[1], p[2]) = i) => of(i) \in at /\ Hits(pixels, of(i), i)
    BY DEF Hits
  <1>2. \A i : (\E p \in at : get_offset(p[1], p[2]) = i) <=> \E p : Hits(pixels, p, i)
    BY DEF Hits
  <1>3. DOMAIN d.buffer = Offset /\ d.buffer \in [Offset -> Colour]
    BY DEF IsDrawing
  <1>4. Draw(d, pixels) = [d EXCEPT !.buffer = new]
    BY <1>3, Zenon DEF Draw
  <1>5. ASSUME NEW i \in Offset
        PROVE  /\ new[i] \in Colour
               /\ \/ new[i] = d.buffer[i] /\ ~ \E p : Hits(pixels, p, i)
                  \/ \E p : Hits(pixels, p, i) /\ new[i] = pixels[p]
    <2>1. CASE \E p \in at : get_offset(p[1], p[2]) = i
      <3>1. new[i] = pixels[of(i)]
        BY <2>1
      <3>2. of(i) \in at /\ Hits(pixels, of(i), i)
        BY <1>1, <2>1
      <3> HIDE DEF new, of
      <3> QED  BY <3>1, <3>2
    <2>2. CASE ~ \E p \in at : get_offset(p[1], p[2]) = i
      <3>1. new[i] = d.buffer[i]
        BY <2>2
      <3> HIDE DEF new
      <3> QED  BY <1>2, <1>3, <2>2, <3>1
    <2> QED  BY <2>1, <2>2
  <1>6. new \in [Offset -> Colour]
    <2>1. \A i \in Offset : new[i] \in Colour
      BY <1>5
    <2>2. new = [i \in Offset |-> new[i]]
      OBVIOUS
    <2> HIDE DEF new
    <2> QED  BY <2>1, <2>2
  <1> HIDE DEF new
  <1> DEFINE e == [d EXCEPT !.buffer = new]
  <1>7. IsDrawing(e) /\ e.fb = d.fb /\ e.strayed = d.strayed /\ e.buffer = new
    BY <1>6 DEF IsDrawing
  <1> HIDE DEF e
  <1>8. Draw(d, pixels) = e
    BY <1>4 DEF e
  <1> QED  BY <1>5, <1>7, <1>8 DEF Paints

----------------------------------------------------------------------------
\* Rows to the screen.

IsScreen(f) == f \in [data : [Offset -> Colour \cup {Lost}], idx : Nat]

LEMMA BlockShown ==
    ASSUME NEW f, IsScreen(f), NEW n \in Nat, NEW block, Len(block) = n,
           \A i \in 1 .. n : block[i] \in Colour \cup {Lost}
    PROVE  /\ IsScreen(write(f, block))
           /\ Refuses(f, n) => write(f, block) = f
           /\ ~Refuses(f, n) =>
                  \A i \in Offset : write(f, block).data[i] =
                      IF i \in f.idx .. (f.idx + n - 1) THEN block[i - f.idx + 1] ELSE f.data[i]
PROOF
  <1> DEFINE S == Colour \cup {Lost}
             new == [i \in Offset |-> IF i \in f.idx .. (f.idx + n - 1) THEN block[i - f.idx + 1]
                                      ELSE f.data[i]]
  <1> HIDE DEF S
  <1>1. f.data \in [Offset -> S] /\ f.idx \in Nat /\ DOMAIN f.data = Offset
    BY DEF IsScreen, S
  <1>2. new \in [Offset -> S]
    <2>1. ASSUME NEW i \in Offset PROVE new[i] \in S
      <3>1. CASE i \in f.idx .. (f.idx + n - 1)
        <4>1. i - f.idx + 1 \in 1 .. n
          BY <1>1, <3>1
        <4> QED  BY <3>1, <4>1 DEF S
      <3>2. CASE i \notin f.idx .. (f.idx + n - 1)
        BY <1>1, <3>2
      <3> QED  BY <3>1, <3>2
    <2>2. new = [i \in Offset |-> new[i]]
      OBVIOUS
    <2> HIDE DEF new
    <2> QED  BY <2>1, <2>2
  <1>3. CASE Refuses(f, n)
    BY <1>3 DEF write
  <1>4. CASE ~Refuses(f, n)
    <2>1. write(f, block) = [data |-> new, idx |-> f.idx + n]
      BY <1>1, <1>4 DEF write
    <2>2. \A i \in Offset : new[i] = IF i \in f.idx .. (f.idx + n - 1) THEN block[i - f.idx + 1] ELSE f.data[i]
      OBVIOUS
    <2> HIDE DEF new
    <2>3. IsScreen(write(f, block))
      BY <1>1, <1>2, <2>1 DEF IsScreen, S
    <2> QED  BY <1>4, <2>1, <2>2, <2>3
  <1> QED  BY <1>3, <1>4

RowAt(x, y, w) == get_offset(x, y) .. (get_offset(x, y) + w - 1)

\* Unless it strays, a row of the screen is as it was drawn.
Writes(d, e, x, y, w) ==
    /\ IsDrawing(e) /\ e.buffer = d.buffer
    /\ ~e.strayed =>
           /\ ~d.strayed /\ get_offset(x, y) + w <= BufferSize
           /\ \A i \in Offset : i \in RowAt(x, y, w) => e.fb.data[i] = d.buffer[i]
           /\ \A i \in Offset : i \notin RowAt(x, y, w) => e.fb.data[i] = d.fb.data[i]

LEMMA RowWritten ==
    ASSUME NEW d, IsDrawing(d), NEW x \in Nat, NEW y \in Nat, NEW w \in Nat
    PROVE  Writes(d, WriteRow(d, x, y, w), x, y, w)
PROOF
  <1> DEFINE off == get_offset(x, y)
             to == seek(d.fb, off, "SEEK_SET")
             row == [i \in 1 .. w |-> IF off + i - 1 < BufferSize THEN d.buffer[off + i - 1] ELSE Black]
             f == IF to = Refused THEN d.fb ELSE [d.fb EXCEPT !.idx = to]
             e == WriteRow(d, x, y, w)
  <1>1. Width * y + x \in Nat /\ off \in Nat /\ off < Wide
    <2>1. Width * y \in Nat
      BY DesktopFacts
    <2>2. Width * y + x \in Nat
      BY <2>1
    <2> QED  BY <2>2, Counted, DesktopFacts DEF get_offset
  <1>2. e = [d EXCEPT !.fb = write(f, row), !.strayed = @ \/ off + w > BufferSize]
    BY Zenon DEF WriteRow
  <1> HIDE DEF off, e
  <1>3. to = IF off >= BufferSize THEN Refused ELSE off
    BY <1>1, DesktopFacts DEF seek
  <1> HIDE DEF to
  <1>4. d.buffer \in [Offset -> Colour] /\ IsScreen(d.fb) /\ d.strayed \in BOOLEAN
    BY DEF IsDrawing, IsScreen
  <1>5. f.data = d.fb.data /\ IsScreen(f) /\ f.idx = IF off >= BufferSize THEN d.fb.idx ELSE off
    <2>1. off >= BufferSize => f = d.fb
      BY <1>3
    <2>2. ~(off >= BufferSize) => f = [d.fb EXCEPT !.idx = off]
      BY <1>1, <1>3 DEF Refused
    <2> HIDE DEF f
    <2> QED  BY <1>1, <1>4, <2>1, <2>2 DEF IsScreen
  <1>6. Len(row) = w
    OBVIOUS
  <1>7. \A i \in 1 .. w : row[i] = IF off + i - 1 < BufferSize THEN d.buffer[off + i - 1] ELSE Black
    OBVIOUS
  <1> HIDE DEF f, row
  <1>8. \A i \in 1 .. w : row[i] \in Colour \cup {Lost}
    <2>1. ASSUME NEW i \in 1 .. w PROVE row[i] \in Colour
      <3>1. CASE off + i - 1 < BufferSize
        <4>1. off + i - 1 \in Offset
          BY <1>1, <3>1, DesktopFacts DEF Offset
        <4> QED  BY <1>4, <1>7, <3>1, <4>1
      <3>2. CASE ~(off + i - 1 < BufferSize)
        BY <1>7, <3>2 DEF Colour
      <3> QED  BY <3>1, <3>2
    <2> QED  BY <2>1
  <1>9. /\ IsScreen(write(f, row))
        /\ Refuses(f, w) => write(f, row) = f
        /\ ~Refuses(f, w) =>
               \A i \in Offset : write(f, row).data[i] =
                   IF i \in f.idx .. (f.idx + w - 1) THEN row[i - f.idx + 1] ELSE f.data[i]
    BY <1>5, <1>6, <1>8, BlockShown
  <1> DEFINE g == write(f, row)
  <1> HIDE DEF g
  <1>10. IsDrawing(e) /\ e.buffer = d.buffer /\ e.fb = g /\ e.strayed = (d.strayed \/ off + w > BufferSize)
    BY <1>2, <1>4, <1>9 DEF IsDrawing, IsScreen, g
  <1>11. ASSUME ~e.strayed
         PROVE  /\ ~d.strayed /\ off + w <= BufferSize
                /\ \A i \in Offset : g.data[i] = IF i \in off .. (off + w - 1) THEN d.buffer[i] ELSE d.fb.data[i]
    <2>0. ~(d.strayed \/ off + w > BufferSize)
      BY <1>10, <1>11, Zenon
    <2>1. ~d.strayed /\ off + w <= BufferSize
      BY <1>1, <2>0, DesktopFacts
    <2>2. CASE w = 0
      <3>1. \A a \in Nat : \A i \in Offset : i \notin a .. (a + w - 1)
        BY <2>2 DEF Offset
      <3>2. f.idx \in Nat
        BY <1>5 DEF IsScreen
      <3>3. \A i \in Offset : g.data[i] = d.fb.data[i]
        BY <1>5, <1>9, <3>1, <3>2 DEF g
      <3> QED  BY <1>1, <2>1, <3>1, <3>3
    <2>3. CASE w # 0
      <3>1. f.idx = off /\ off < BufferSize
        BY <1>1, <1>5, <2>1, <2>3, DesktopFacts
      <3>2. ~Refuses(f, w)
        <4>1. (off + w) % Wide = off + w
          BY <1>1, <2>1, DesktopFacts, Wrapped
        <4> QED  BY <1>1, <2>1, <3>1, <4>1, DesktopFacts DEF Refuses
      <3>3. ASSUME NEW i \in Offset
            PROVE  g.data[i] = IF i \in off .. (off + w - 1) THEN d.buffer[i] ELSE d.fb.data[i]
        <4>1. g.data[i] = IF i \in off .. (off + w - 1) THEN row[i - off + 1] ELSE d.fb.data[i]
          BY <1>5, <1>9, <3>1, <3>2 DEF g
        <4>2. i \in off .. (off + w - 1) =>
                  i - off + 1 \in 1 .. w /\ off + (i - off + 1) - 1 = i /\ i < BufferSize
          BY <1>1, DesktopFacts DEF Offset
        <4>3. i \in off .. (off + w - 1) => row[i - off + 1] = d.buffer[i]
          BY <1>7, <4>2
        <4> QED  BY <4>1, <4>3
      <3> QED  BY <2>1, <3>3
    <2> QED  BY <2>2, <2>3
  <1> QED  BY <1>10, <1>11 DEF off, e, RowAt, Writes

\* A row of the client is in the buffer, until it is written, alone.
Copies(d, e, x, y, w) ==
    /\ IsDrawing(e) /\ e.fb = d.fb /\ (~e.strayed => ~d.strayed)
    /\ \A i \in Offset : i \in RowAt(x, y, w) => e.buffer[i] \in Content
    /\ \A i \in Offset : i \notin RowAt(x, y, w) => e.buffer[i] = d.buffer[i]

LEMMA RowCopied ==
    ASSUME NEW d, IsDrawing(d), NEW x \in Nat, NEW y \in Nat, NEW w \in Nat, NEW colour \in Content
    PROVE  Copies(d, CopyRow(d, x, y, w, colour), x, y, w)
PROOF
  <1> DEFINE off == get_offset(x, y)
             new == [i \in Offset |-> IF i \in RowAt(x, y, w) THEN colour ELSE d.buffer[i]]
             e == CopyRow(d, x, y, w, colour)
  <1>1. d.buffer \in [Offset -> Colour] /\ DOMAIN d.buffer = Offset /\ d.strayed \in BOOLEAN
    BY DEF IsDrawing
  <1>2. e = [d EXCEPT !.buffer = new, !.strayed = @ \/ off + w > BufferSize]
    BY <1>1, Zenon DEF CopyRow, RowAt
  <1>3. new \in [Offset -> Colour] /\ \A i \in Offset : new[i] = IF i \in RowAt(x, y, w) THEN colour ELSE d.buffer[i]
    BY <1>1 DEF Colour
  <1> HIDE DEF new, e, off
  <1>4. /\ IsDrawing(e) /\ e.fb = d.fb /\ e.buffer = new
        /\ e.strayed = (d.strayed \/ off + w > BufferSize)
    BY <1>1, <1>2, <1>3 DEF IsDrawing
  <1> QED  BY <1>1, <1>3, <1>4 DEF e, Copies

----------------------------------------------------------------------------
\* Drawings of one row after the other.

IsRows(g, d, x, y, w, h) ==
    g = [n \in 0 .. h |-> IF n = 0 THEN d ELSE WriteRow(g[n - 1], x, Modulo(y + n - 1), w)]

LEMMA RowsExist ==
    ASSUME NEW d, NEW x, NEW y, NEW w, NEW h \in Nat
    PROVE  \E g : IsRows(g, d, x, y, w, h)
PROOF
  <1> DEFINE Bad == {k \in 0 .. h : ~ \E g : IsRows(g, d, x, y, w, k)}
  <1>1. SUFFICES ASSUME Bad # {} PROVE FALSE
    <2>1. h \in 0 .. h
      OBVIOUS
    <2> QED  BY <2>1
  <1>2. PICK k \in Bad : \A j \in Bad : k <= j
    <2>1. Bad \subseteq Nat
      OBVIOUS
    <2> QED  BY <1>1, <2>1, LeastExists
  <1>3. CASE k = 0
    <2> DEFINE g == [n \in 0 .. 0 |-> d]
    <2>1. \A n \in 0 .. 0 : n = 0
      OBVIOUS
    <2>2. g = [n \in 0 .. 0 |-> IF n = 0 THEN d ELSE WriteRow(g[n - 1], x, Modulo(y + n - 1), w)]
      BY <2>1
    <2> QED  BY <1>2, <1>3, <2>2 DEF IsRows
  <1>4. CASE k # 0
    <2>1. k - 1 \in 0 .. h /\ k - 1 \notin Bad /\ k \in 1 .. h
      BY <1>2, <1>4
    <2>2. PICK f : IsRows(f, d, x, y, w, k - 1)
      BY <2>1
    <2> DEFINE g == [n \in 0 .. k |-> IF n = k THEN WriteRow(f[k - 1], x, Modulo(y + k - 1), w) ELSE f[n]]
    <2>3. ASSUME NEW n \in 0 .. k
          PROVE  g[n] = IF n = 0 THEN d ELSE WriteRow(g[n - 1], x, Modulo(y + n - 1), w)
      <3>1. CASE n = k
        <4>1. n # 0 /\ n - 1 \in 0 .. k /\ n - 1 # k
          BY <2>1, <3>1
        <4> QED  BY <3>1, <4>1
      <3>2. CASE n # k
        <4>1. n \in 0 .. (k - 1) /\ (n # 0 => n - 1 \in 0 .. k /\ n - 1 # k)
          BY <2>1, <3>2
        <4>2. f[n] = IF n = 0 THEN d ELSE WriteRow(f[n - 1], x, Modulo(y + n - 1), w)
          BY <2>2, <4>1 DEF IsRows
        <4> QED  BY <3>2, <4>1, <4>2
      <3> QED  BY <3>1, <3>2
    <2>4. g = [n \in 0 .. k |-> IF n = 0 THEN d ELSE WriteRow(g[n - 1], x, Modulo(y + n - 1), w)]
      <3> HIDE DEF g
      <3>1. g = [n \in 0 .. k |-> g[n]]
        BY DEF g
      <3> QED  BY <2>3, <3>1
    <2> QED  BY <1>2, <2>4 DEF IsRows
  <1> QED  BY <1>3, <1>4

IsContent(g, d, w, h) ==
    g = [n \in 0 .. h |-> IF n = 0 THEN d ELSE content_row(g[n - 1], w, Modulo(w.y + TitleHeight + n - 1))]

LEMMA ContentExists ==
    ASSUME NEW d, NEW w, NEW h \in Nat
    PROVE  \E g : IsContent(g, d, w, h)
PROOF
  <1> DEFINE Bad == {k \in 0 .. h : ~ \E g : IsContent(g, d, w, k)}
  <1>1. SUFFICES ASSUME Bad # {} PROVE FALSE
    <2>1. h \in 0 .. h
      OBVIOUS
    <2> QED  BY <2>1
  <1>2. PICK k \in Bad : \A j \in Bad : k <= j
    <2>1. Bad \subseteq Nat
      OBVIOUS
    <2> QED  BY <1>1, <2>1, LeastExists
  <1>3. CASE k = 0
    <2> DEFINE g == [n \in 0 .. 0 |-> d]
    <2>1. \A n \in 0 .. 0 : n = 0
      OBVIOUS
    <2>2. g = [n \in 0 .. 0 |-> IF n = 0 THEN d ELSE content_row(g[n - 1], w, Modulo(w.y + TitleHeight + n - 1))]
      BY <2>1
    <2> QED  BY <1>2, <1>3, <2>2 DEF IsContent
  <1>4. CASE k # 0
    <2>1. k - 1 \in 0 .. h /\ k - 1 \notin Bad /\ k \in 1 .. h
      BY <1>2, <1>4
    <2>2. PICK f : IsContent(f, d, w, k - 1)
      BY <2>1
    <2> DEFINE g == [n \in 0 .. k |-> IF n = k THEN content_row(f[k - 1], w, Modulo(w.y + TitleHeight + k - 1)) ELSE f[n]]
    <2>3. ASSUME NEW n \in 0 .. k
          PROVE  g[n] = IF n = 0 THEN d ELSE content_row(g[n - 1], w, Modulo(w.y + TitleHeight + n - 1))
      <3>1. CASE n = k
        <4>1. n # 0 /\ n - 1 \in 0 .. k /\ n - 1 # k
          BY <2>1, <3>1
        <4> QED  BY <3>1, <4>1
      <3>2. CASE n # k
        <4>1. n \in 0 .. (k - 1) /\ (n # 0 => n - 1 \in 0 .. k /\ n - 1 # k)
          BY <2>1, <3>2
        <4>2. f[n] = IF n = 0 THEN d ELSE content_row(f[n - 1], w, Modulo(w.y + TitleHeight + n - 1))
          BY <2>2, <4>1 DEF IsContent
        <4> QED  BY <3>2, <4>1, <4>2
      <3> QED  BY <3>1, <3>2
    <2>4. g = [n \in 0 .. k |-> IF n = 0 THEN d ELSE content_row(g[n - 1], w, Modulo(w.y + TitleHeight + n - 1))]
      <3> HIDE DEF g
      <3>1. g = [n \in 0 .. k |-> g[n]]
        BY DEF g
      <3> QED  BY <2>3, <3>1
    <2> QED  BY <1>2, <2>4 DEF IsContent
  <1> QED  BY <1>3, <1>4

LEMMA RowsEnd ==
    ASSUME NEW d, NEW x, NEW y, NEW w, NEW h \in Nat
    PROVE  \E g : IsRows(g, d, x, y, w, h) /\ WriteRows(d, x, y, w, h) = g[h]
PROOF
  <1> DEFINE g == CHOOSE f : f = [j \in 0 .. h |-> IF j = 0 THEN d ELSE WriteRow(f[j - 1], x, Modulo(y + j - 1), w)]
  <1>1. \E f : f = [j \in 0 .. h |-> IF j = 0 THEN d ELSE WriteRow(f[j - 1], x, Modulo(y + j - 1), w)]
    <2>1. PICK f : IsRows(f, d, x, y, w, h)
      BY RowsExist
    <2> QED  BY <2>1, Zenon DEF IsRows
  <1>2. IsRows(g, d, x, y, w, h)
    BY <1>1, Zenon DEF IsRows
  <1>3. WriteRows(d, x, y, w, h) = g[h]
    BY Zenon DEF WriteRows
  <1> HIDE DEF g
  <1> QED  BY <1>2, <1>3

LEMMA ContentEnds ==
    ASSUME NEW d, NEW w
    PROVE  \E g : IsContent(g, d, w, WindowHeight) /\ draw_content(d, w) = g[WindowHeight]
PROOF
  <1> DEFINE g == CHOOSE f : f = [j \in 0 .. WindowHeight |->
                      IF j = 0 THEN d ELSE content_row(f[j - 1], w, Modulo(w.y + TitleHeight + j - 1))]
  <1>1. \E f : f = [j \in 0 .. WindowHeight |->
                      IF j = 0 THEN d ELSE content_row(f[j - 1], w, Modulo(w.y + TitleHeight + j - 1))]
    <2>1. PICK f : IsContent(f, d, w, WindowHeight)
      BY ContentExists, DesktopFacts
    <2> QED  BY <2>1, Zenon DEF IsContent
  <1>2. IsContent(g, d, w, WindowHeight)
    BY <1>1, Zenon DEF IsContent
  <1>3. draw_content(d, w) = g[WindowHeight]
    BY Zenon DEF draw_content
  <1> HIDE DEF g
  <1> QED  BY <1>2, <1>3

\* What the screen may not show yet of a drawing, unless a row has strayed: only
\* what is at the offsets of S.
Shown(d, S) == ~d.strayed => \A i \in Offset \ S : d.fb.data[i] = d.buffer[i]

\* The rows from x and y on.
Rows(x, y, w, h) == UNION {RowAt(x, Modulo(y + j - 1), w) : j \in 1 .. h}

Fits(x, y, w, h) == \A j \in 1 .. h : get_offset(x, Modulo(y + j - 1)) + w <= BufferSize

Refreshes(d, e, x, y, w, h) ==
    /\ IsDrawing(e) /\ e.buffer = d.buffer
    /\ ~e.strayed =>
           /\ Fits(x, y, w, h)
           /\ \A S : Shown(d, S) => Shown(e, S \ Rows(x, y, w, h))

LEMMA RowsShown ==
    ASSUME NEW d, IsDrawing(d), NEW x \in Nat, NEW y \in Nat, NEW w \in Nat, NEW h \in Nat
    PROVE  Refreshes(d, WriteRows(d, x, y, w, h), x, y, w, h)
PROOF
  <1>1. PICK g : IsRows(g, d, x, y, w, h) /\ WriteRows(d, x, y, w, h) = g[h]
    BY RowsEnd
  <1> DEFINE Line(n) == Modulo(y + n - 1)
             Claim(n) == /\ IsDrawing(g[n]) /\ g[n].buffer = d.buffer
                         /\ ~g[n].strayed =>
                                /\ ~d.strayed
                                /\ \A j \in 1 .. n : get_offset(x, Line(j)) + w <= BufferSize
                                /\ \A i \in Offset :
                                      \/ g[n].fb.data[i] = d.buffer[i]
                                      \/ /\ g[n].fb.data[i] = d.fb.data[i]
                                         /\ \A j \in 1 .. n : i \notin RowAt(x, Line(j), w)
             Bad == {n \in 0 .. h : ~Claim(n)}
  <1>2. /\ g[0] = d
        /\ \A n \in 1 .. h : g[n] = WriteRow(g[n - 1], x, Line(n), w)
    BY <1>1 DEF IsRows
  <1>3. \A n \in 1 .. h : Line(n) \in Nat
    <2>1. ASSUME NEW n \in 1 .. h PROVE y + n - 1 \in Nat
      OBVIOUS
    <2> QED  BY <2>1, Counted, DesktopFacts
  <1> HIDE DEF Line
  <1>4. Bad = {}
    <2>1. SUFFICES ASSUME Bad # {} PROVE FALSE
      OBVIOUS
    <2>2. PICK n \in Bad : \A m \in Bad : n <= m
      <3>1. Bad \subseteq Nat
        OBVIOUS
      <3> QED  BY <2>1, <3>1, LeastExists
    <2>3. n # 0
      <3>1. Claim(0)
        BY <1>2
      <3> QED  BY <2>2, <3>1
    <2>4. n \in 1 .. h /\ n - 1 \in 0 .. h /\ n - 1 \notin Bad
      BY <2>2, <2>3
    <2>5. Claim(n - 1)
      BY <2>4
    <2> DEFINE c == g[n - 1]
               e == g[n]
    <2>6. /\ IsDrawing(e) /\ e.buffer = c.buffer
          /\ ~e.strayed =>
                 /\ ~c.strayed /\ get_offset(x, Line(n)) + w <= BufferSize
                 /\ \A i \in Offset : i \in RowAt(x, Line(n), w) => e.fb.data[i] = c.buffer[i]
                 /\ \A i \in Offset : i \notin RowAt(x, Line(n), w) => e.fb.data[i] = c.fb.data[i]
      <3>1. e = WriteRow(c, x, Line(n), w) /\ Line(n) \in Nat /\ IsDrawing(c)
        BY <1>2, <1>3, <2>4, <2>5
      <3>2. Writes(c, e, x, Line(n), w)
        BY <3>1, RowWritten, Zenon
      <3> HIDE DEF c, e
      <3> QED  BY <3>2 DEF Writes
    <2>7. \A j \in 1 .. n : j \in 1 .. (n - 1) \/ j = n
      BY <2>4
    <2> HIDE DEF c
    <2>8. /\ IsDrawing(c) /\ c.buffer = d.buffer
          /\ ~c.strayed =>
                 /\ ~d.strayed
                 /\ \A j \in 1 .. (n - 1) : get_offset(x, Line(j)) + w <= BufferSize
                 /\ \A i \in Offset :
                       \/ c.fb.data[i] = d.buffer[i]
                       \/ /\ c.fb.data[i] = d.fb.data[i]
                          /\ \A j \in 1 .. (n - 1) : i \notin RowAt(x, Line(j), w)
      BY <2>5 DEF c
    <2> HIDE DEF e
    <2>9. ASSUME ~e.strayed
          PROVE  /\ ~d.strayed
                 /\ \A j \in 1 .. n : get_offset(x, Line(j)) + w <= BufferSize
                 /\ \A i \in Offset :
                       \/ e.fb.data[i] = d.buffer[i]
                       \/ /\ e.fb.data[i] = d.fb.data[i]
                          /\ \A j \in 1 .. n : i \notin RowAt(x, Line(j), w)
      <3>1. ~c.strayed /\ ~d.strayed
        BY <2>6, <2>8, <2>9
      <3>2. \A j \in 1 .. n : get_offset(x, Line(j)) + w <= BufferSize
        BY <2>6, <2>7, <2>8, <2>9, <3>1
      <3>3. ASSUME NEW i \in Offset
            PROVE  \/ e.fb.data[i] = d.buffer[i]
                   \/ /\ e.fb.data[i] = d.fb.data[i]
                      /\ \A j \in 1 .. n : i \notin RowAt(x, Line(j), w)
        <4>1. CASE i \in RowAt(x, Line(n), w)
          BY <2>6, <2>8, <2>9, <4>1
        <4>2. CASE i \notin RowAt(x, Line(n), w)
          <5>1. e.fb.data[i] = c.fb.data[i]
            BY <2>6, <2>9, <4>2
          <5> QED  BY <2>7, <2>8, <3>1, <4>2, <5>1
        <4> QED  BY <4>1, <4>2
      <3> QED  BY <3>1, <3>2, <3>3
    <2>10. Claim(n)
      BY <2>6, <2>8, <2>9 DEF e
    <2> QED  BY <2>2, <2>10
  <1>5. Claim(h)
    <2>1. h \in 0 .. h
      OBVIOUS
    <2> QED  BY <1>4, <2>1
  <1> HIDE DEF Bad
  <1> DEFINE e == g[h]
  <1>6. ASSUME ~e.strayed, NEW S, Shown(d, S) PROVE Shown(e, S \ Rows(x, y, w, h))
    <2>1. ~d.strayed /\ \A i \in Offset \ S : d.fb.data[i] = d.buffer[i]
      BY <1>5, <1>6 DEF Shown
    <2>2. ASSUME NEW i \in Offset, i \notin S \ Rows(x, y, w, h) PROVE e.fb.data[i] = e.buffer[i]
      <3>1. CASE i \notin S
        BY <1>5, <1>6, <2>1, <3>1
      <3>2. CASE i \in Rows(x, y, w, h)
        <4>1. \E j \in 1 .. h : i \in RowAt(x, Line(j), w)
          BY <3>2 DEF Rows, Line
        <4> QED  BY <1>5, <1>6, <4>1
      <3> QED  BY <2>2, <3>1, <3>2
    <2> HIDE DEF e
    <2> QED  BY <2>2 DEF Shown
  <1> QED  BY <1>1, <1>5, <1>6 DEF Line, Refreshes, Fits

\* What has drawn on d and shown it, but no cursor.
Keeps(d, e) ==
    /\ IsDrawing(e) /\ Shown(e, {})
    /\ \A i \in Offset : e.buffer[i] = "cursor" => d.buffer[i] = "cursor"

\* The rows of a client are copied and written one by one.
LEMMA ContentShown ==
    ASSUME NEW d, IsDrawing(d), Shown(d, {}), NEW w, w.x \in Nat, w.y \in Nat, w.fd \in Content
    PROVE  Keeps(d, draw_content(d, w))
PROOF
  <1>1. PICK g : IsContent(g, d, w, WindowHeight) /\ draw_content(d, w) = g[WindowHeight]
    BY ContentEnds
  <1> DEFINE Line(n) == Modulo(w.y + TitleHeight + n - 1)
             Claim(n) == /\ IsDrawing(g[n]) /\ Shown(g[n], {})
                         /\ \A i \in Offset : g[n].buffer[i] = d.buffer[i] \/ g[n].buffer[i] \in Content
             Bad == {n \in 0 .. WindowHeight : ~Claim(n)}
  <1>2. /\ g[0] = d
        /\ \A n \in 1 .. WindowHeight : g[n] = content_row(g[n - 1], w, Line(n))
    BY <1>1, DesktopFacts DEF IsContent
  <1>3. \A n \in 1 .. WindowHeight : Line(n) \in Nat
    <2>1. ASSUME NEW n \in 1 .. WindowHeight PROVE w.y + TitleHeight + n - 1 \in Nat
      BY DesktopFacts
    <2>2. \A m \in Nat : Modulo(m) \in Nat
      BY Counted
    <2> QED  BY <2>1, <2>2, Zenon
  <1> HIDE DEF Line
  <1>4. Bad = {}
    <2>1. SUFFICES ASSUME Bad # {} PROVE FALSE
      OBVIOUS
    <2>2. PICK n \in Bad : \A m \in Bad : n <= m
      <3>1. Bad \subseteq Nat
        BY DesktopFacts
      <3> QED  BY <2>1, <3>1, LeastExists
    <2>3. n # 0
      <3>1. Claim(0)
        BY <1>2
      <3> QED  BY <2>2, <3>1
    <2>4. n \in 1 .. WindowHeight /\ n - 1 \in 0 .. WindowHeight /\ n - 1 \notin Bad
      BY <2>2, <2>3, DesktopFacts
    <2>5. Claim(n - 1)
      BY <2>4
    <2> DEFINE b == g[n - 1]
               c == CopyRow(b, w.x, Line(n), WindowWidth, w.fd)
               e == g[n]
    <2>6. e = WriteRow(c, w.x, Line(n), WindowWidth) /\ Line(n) \in Nat /\ IsDrawing(b) /\ Shown(b, {})
      BY <1>2, <1>3, <2>4, <2>5 DEF content_row
    <2>7. \A i \in Offset : b.buffer[i] = d.buffer[i] \/ b.buffer[i] \in Content
      BY <2>5
    <2> HIDE DEF b
    <2>8. Copies(b, c, w.x, Line(n), WindowWidth)
      BY <2>6, RowCopied, DesktopFacts, Zenon
    <2> HIDE DEF c, e
    <2>9. Writes(c, e, w.x, Line(n), WindowWidth)
      <3>1. IsDrawing(c)
        BY <2>8 DEF Copies
      <3> QED  BY <2>6, <3>1, RowWritten, DesktopFacts, Zenon
    <2>10. Shown(e, {})
      <3>1. ASSUME ~e.strayed, NEW i \in Offset PROVE e.fb.data[i] = e.buffer[i]
        <4>1. b.fb.data[i] = b.buffer[i]
          BY <2>6, <2>8, <2>9, <3>1 DEF Shown, Copies, Writes
        <4> QED  BY <2>8, <2>9, <3>1, <4>1 DEF Copies, Writes
      <3> QED  BY <3>1 DEF Shown
    <2>11. \A i \in Offset : e.buffer[i] = d.buffer[i] \/ e.buffer[i] \in Content
      BY <2>7, <2>8, <2>9 DEF Copies, Writes
    <2>12. Claim(n)
      BY <2>9, <2>10, <2>11 DEF e, Writes
    <2> QED  BY <2>2, <2>12
  <1>5. Claim(WindowHeight)
    <2>1. WindowHeight \in 0 .. WindowHeight
      BY DesktopFacts
    <2> QED  BY <1>4, <2>1
  <1>6. "cursor" \notin Content
    BY DesktopAssumption
  <1> HIDE DEF Bad
  <1> QED  BY <1>1, <1>5, <1>6 DEF Keeps

----------------------------------------------------------------------------
\* Areas: what is drawn there is what their rows show.

LEMMA InRow ==
    ASSUME NEW x \in Nat, NEW y \in Nat, NEW w \in Nat, NEW i \in 0 .. (w - 1),
           get_offset(x, y) + w <= BufferSize
    PROVE  Modulo(Width * y + (x + i)) \in RowAt(x, y, w)
PROOF
  <1> DEFINE off == get_offset(x, y)
  <1>1. Width * y \in Nat /\ Width * y + x \in Nat /\ i \in Nat
    BY DesktopFacts
  <1>2. off \in Nat /\ off = Modulo(Width * y + x)
    BY <1>1, Counted DEF get_offset
  <1>3. Modulo(i + Modulo(Width * y + x)) = Modulo(i + (Width * y + x))
    BY <1>1, Counted
  <1>4. i + (Width * y + x) = Width * y + (x + i)
    BY <1>1
  <1> HIDE DEF off
  <1>5. i + off \in Nat /\ i + off < Wide
    BY <1>1, <1>2, DesktopFacts DEF off
  <1>6. Modulo(i + off) = i + off
    BY <1>5, Counted
  <1>7. i + off \in off .. (off + w - 1)
    BY <1>2
  <1> QED  BY <1>2, <1>3, <1>4, <1>6, <1>7 DEF RowAt, off

LEMMA RectangleInRows ==
    ASSUME NEW x \in Nat, NEW y \in Nat, NEW w \in Nat, NEW h \in Nat,
           Fits(x, y, w, h),
           NEW p \in Rectangle(x, y, w, h)
    PROVE  get_offset(p[1], p[2]) \in Rows(x, y, w, h)
PROOF
  <1>1. PICK i \in 0 .. (w - 1), k \in 0 .. (h - 1) : p = <<Modulo(x + i), Modulo(y + k)>>
    BY DEF Rectangle
  <1> DEFINE row == Modulo(y + k)
  <1>2. k + 1 \in 1 .. h /\ y + (k + 1) - 1 = y + k /\ y + k \in Nat /\ x + i \in Nat
    OBVIOUS
  <1>3. row \in Nat
    BY <1>2, Counted
  <1>4. p[1] = Modulo(x + i) /\ p[2] = row
    BY <1>1
  <1>5. get_offset(x, row) + w <= BufferSize
    BY <1>2 DEF Fits
  <1>6. RowAt(x, row, w) \subseteq Rows(x, y, w, h)
    BY <1>2 DEF Rows
  <1> HIDE DEF row
  <1>7. Width * row \in Nat
    BY <1>3, DesktopFacts
  <1>8. get_offset(p[1], p[2]) = Modulo(Width * row + (x + i))
    BY <1>2, <1>4, <1>7, Counted DEF get_offset
  <1>9. Modulo(Width * row + (x + i)) \in RowAt(x, row, w)
    BY <1>3, <1>5, InRow
  <1> QED  BY <1>6, <1>8, <1>9

LEMMA SquareInRows ==
    ASSUME NEW x \in Nat, NEW y \in Nat,
           Fits(x, y, CursorSize, CursorSize),
           NEW a \in Nat, NEW b \in Nat, <<a - x, b - y>> \in Square, OnScreen(a, b)
    PROVE  get_offset(a, b) \in Rows(x, y, CursorSize, CursorSize)
PROOF
  <1>1. a - x \in 0 .. (CursorSize - 1) /\ b - y \in 0 .. (CursorSize - 1)
    BY DEF Square
  <1>2. /\ (b - y) + 1 \in 1 .. CursorSize /\ y + ((b - y) + 1) - 1 = b /\ x + (a - x) = a
        /\ b < Wide
    BY <1>1, DesktopFacts DEF OnScreen
  <1>3. Modulo(b) = b
    BY <1>2, Counted
  <1>4. get_offset(x, b) + CursorSize <= BufferSize
    BY <1>2, <1>3 DEF Fits
  <1>5. RowAt(x, b, CursorSize) \subseteq Rows(x, y, CursorSize, CursorSize)
    BY <1>2, <1>3 DEF Rows
  <1>6. Modulo(Width * b + (x + (a - x))) \in RowAt(x, b, CursorSize)
    BY <1>1, <1>4, InRow, DesktopFacts
  <1> QED  BY <1>2, <1>5, <1>6 DEF get_offset

Touched(pixels) == {i \in Offset : \E p : Hits(pixels, p, i)}

LEMMA PaintShown ==
    ASSUME NEW d, NEW e, NEW pixels, Paints(d, e, pixels), NEW S, Shown(d, S)
    PROVE  Shown(e, S \cup Touched(pixels))
PROOF
  <1>1. ASSUME ~e.strayed, NEW i \in Offset, i \notin S \cup Touched(pixels)
        PROVE  e.fb.data[i] = e.buffer[i]
    <2>1. ~ \E p : Hits(pixels, p, i)
      BY <1>1 DEF Touched
    <2>2. e.buffer[i] = d.buffer[i]
      BY <2>1 DEF Paints
    <2>3. e.fb = d.fb /\ ~d.strayed
      BY <1>1 DEF Paints
    <2>4. d.fb.data[i] = d.buffer[i]
      BY <1>1, <2>3 DEF Shown
    <2> QED  BY <2>2, <2>3, <2>4
  <1> QED  BY <1>1 DEF Shown

Settles(d, e) == IsDrawing(e) /\ e.buffer = d.buffer /\ Shown(e, {})

LEMMA AreaShown ==
    ASSUME NEW d, IsDrawing(d), NEW S, Shown(d, S),
           NEW x \in Nat, NEW y \in Nat, NEW w \in Nat, NEW h \in Nat,
           Fits(x, y, w, h) => S \subseteq Rows(x, y, w, h)
    PROVE  Settles(d, WriteRows(d, x, y, w, h))
PROOF
  <1> DEFINE e == WriteRows(d, x, y, w, h)
  <1>1. Refreshes(d, e, x, y, w, h)
    BY RowsShown, Zenon
  <1> HIDE DEF e
  <1>2. IsDrawing(e) /\ e.buffer = d.buffer
    BY <1>1 DEF Refreshes
  <1>3. CASE ~e.strayed
    <2>1. S \subseteq Rows(x, y, w, h)
      BY <1>1, <1>3 DEF Refreshes
    <2>2. Shown(e, S \ Rows(x, y, w, h))
      BY <1>1, <1>3, Zenon DEF Refreshes
    <2>3. S \ Rows(x, y, w, h) = {}
      BY <2>1
    <2> QED  BY <1>2, <2>2, <2>3 DEF Settles, e
  <1>4. CASE ~(~e.strayed)
    BY <1>2, <1>4 DEF Shown, Settles, e
  <1> QED  BY <1>3, <1>4

Area(x, y, w, h) == {get_offset(p[1], p[2]) : p \in Rectangle(x, y, w, h)}

\* A rectangle in a colour, on a drawing that differs from the screen at S.
Fills(d, e, S, area) ==
    /\ IsDrawing(e) /\ Shown(e, S \cup area)
    /\ \A i \in Offset : e.buffer[i] = "cursor" => d.buffer[i] = "cursor"

LEMMA RectangleDrawn ==
    ASSUME NEW d, IsDrawing(d), NEW S, Shown(d, S),
           NEW x, NEW y, NEW w, NEW h, NEW colour \in {"bar", "name"}
    PROVE  Fills(d, Draw(d, Filled(x, y, w, h, colour)), S, Area(x, y, w, h))
PROOF
  <1> DEFINE pixels == Filled(x, y, w, h, colour)
             e == Draw(d, pixels)
  <1>1. DOMAIN pixels = Rectangle(x, y, w, h) /\ \A p \in DOMAIN pixels : pixels[p] = colour
    BY DEF Filled
  <1> HIDE DEF pixels
  <1>2. \A p \in DOMAIN pixels : pixels[p] \in Colour
    BY <1>1 DEF Colour
  <1>3. Paints(d, e, pixels)
    BY <1>2, PixelsDrawn, Zenon
  <1> HIDE DEF e
  <1>4. Shown(e, S \cup Touched(pixels))
    BY <1>3, PaintShown, Zenon
  <1>5. Touched(pixels) \subseteq Area(x, y, w, h)
    BY <1>1 DEF Touched, Hits, Area
  <1>6. Shown(e, S \cup Area(x, y, w, h))
    BY <1>4, <1>5 DEF Shown
  <1>7. \A i \in Offset : e.buffer[i] = d.buffer[i] \/ e.buffer[i] = colour
    BY <1>1, <1>3 DEF Paints, Hits
  <1> QED  BY <1>3, <1>6, <1>7 DEF Paints, Fills, e, pixels

LEMMA TitleShown ==
    ASSUME NEW d, IsDrawing(d), Shown(d, {}), NEW w, w.x \in Nat, w.y \in Nat
    PROVE  Keeps(d, draw_title(d, w))
PROOF
  <1> DEFINE bar == Draw(d, Filled(w.x, w.y, WindowWidth, TitleHeight, "bar"))
             named == Draw(bar, Filled(w.x, w.y, NameWidth, 1, "name"))
             e == WriteRows(named, w.x, w.y, WindowWidth, TitleHeight)
             B == Area(w.x, w.y, WindowWidth, TitleHeight)
             N == Area(w.x, w.y, NameWidth, 1)
  <1>1. draw_title(d, w) = e
    BY DEF draw_title
  <1>2. Fills(d, bar, {}, B)
    BY RectangleDrawn, Zenon
  <1>3. Fills(bar, named, {} \cup B, N)
    <2>1. IsDrawing(bar) /\ Shown(bar, {} \cup B)
      BY <1>2 DEF Fills
    <2> HIDE DEF bar, B
    <2> QED  BY <2>1, RectangleDrawn, Zenon
  <1> HIDE DEF bar
  <1>4. N \subseteq B
    <2>1. NameWidth <= WindowWidth /\ TitleHeight > 0
      BY DesktopAssumption
    <2>2. Rectangle(w.x, w.y, NameWidth, 1) \subseteq Rectangle(w.x, w.y, WindowWidth, TitleHeight)
      BY <2>1, DesktopFacts DEF Rectangle
    <2> QED  BY <2>2 DEF Area
  <1>5. Fits(w.x, w.y, WindowWidth, TitleHeight) =>
            ({} \cup B) \cup N \subseteq Rows(w.x, w.y, WindowWidth, TitleHeight)
    <2>1. ASSUME Fits(w.x, w.y, WindowWidth, TitleHeight)
          PROVE  B \subseteq Rows(w.x, w.y, WindowWidth, TitleHeight)
      <3>1. ASSUME NEW p \in Rectangle(w.x, w.y, WindowWidth, TitleHeight)
            PROVE  get_offset(p[1], p[2]) \in Rows(w.x, w.y, WindowWidth, TitleHeight)
        BY <2>1, RectangleInRows, DesktopFacts
      <3> QED  BY <3>1 DEF Area
    <2> QED  BY <1>4, <2>1
  <1> HIDE DEF named, e, B, N
  <1>6. Settles(named, e)
    <2>1. IsDrawing(named) /\ Shown(named, ({} \cup B) \cup N)
      BY <1>3 DEF Fills
    <2> QED  BY <1>5, <2>1, AreaShown, DesktopFacts, Zenon DEF e
  <1> QED  BY <1>1, <1>2, <1>3, <1>6 DEF Keeps, Fills, Settles

IsWindow(w) ==
    w \in [x : 0 .. (Wide - 1), y : 0 .. (Wide - 1), fd : Content, dirty : BOOLEAN,
           old_x : 0 .. (Wide - 1), old_y : 0 .. (Wide - 1), moving : BOOLEAN]

LEMMA WindowShown ==
    ASSUME NEW d, IsDrawing(d), Shown(d, {}), NEW w, IsWindow(w)
    PROVE  Keeps(d, draw_window(d, w))
PROOF
  <1>1. w.x \in Nat /\ w.y \in Nat /\ w.fd \in Content
    BY DesktopFacts DEF IsWindow
  <1> DEFINE t == draw_title(d, w)
  <1>2. Keeps(d, t)
    BY <1>1, TitleShown, Zenon
  <1> HIDE DEF t
  <1>3. IsDrawing(t) /\ Shown(t, {})
    BY <1>2 DEF Keeps
  <1>4. Keeps(t, draw_content(t, w))
    BY <1>1, <1>3, ContentShown, Zenon
  <1>5. Keeps(d, draw_content(t, w))
    BY <1>2, <1>4 DEF Keeps
  <1>6. Keeps(d, d)
    BY DEF Keeps
  <1> QED  BY <1>5, <1>6 DEF draw_window, t

\* What is drawn in the square of the cursor at x and y, and nothing but that.
Stamps(d, e, pixels, x, y) ==
    /\ IsDrawing(e) /\ e.fb = d.fb /\ e.strayed = d.strayed
    /\ \A i \in Offset : e.buffer[i] = d.buffer[i] \/ i \in Touched(Shifted(pixels, x, y))
    /\ \A a \in Nat, b \in Nat : OnScreen(a, b) =>
          /\ <<a - x, b - y>> \in DOMAIN pixels =>
                 e.buffer[get_offset(a, b)] = pixels[<<a - x, b - y>>]
          /\ <<a - x, b - y>> \notin DOMAIN pixels =>
                 e.buffer[get_offset(a, b)] = d.buffer[get_offset(a, b)]

LEMMA ShiftedFacts ==
    ASSUME NEW pixels, DOMAIN pixels \subseteq Square, NEW x \in Nat, NEW y \in Nat
    PROVE  /\ \A p \in DOMAIN Shifted(pixels, x, y) :
                 /\ p = <<p[1], p[2]>> /\ p[1] \in Nat /\ p[2] \in Nat
                 /\ <<p[1] - x, p[2] - y>> \in DOMAIN pixels
                 /\ Shifted(pixels, x, y)[p] = pixels[<<p[1] - x, p[2] - y>>]
           /\ \A a \in Nat, b \in Nat : <<a - x, b - y>> \in DOMAIN pixels =>
                 <<a, b>> \in DOMAIN Shifted(pixels, x, y)
PROOF
  <1> DEFINE D == {<<x + q[1], y + q[2]>> : q \in DOMAIN pixels}
             s == Shifted(pixels, x, y)
  <1>1. DOMAIN s = D /\ \A p \in D : s[p] = pixels[<<p[1] - x, p[2] - y>>]
    BY DEF Shifted
  <1>2. \A q \in DOMAIN pixels : q = <<q[1], q[2]>> /\ q[1] \in Nat /\ q[2] \in Nat
    BY DesktopFacts DEF Square
  <1>3. ASSUME NEW p \in D
        PROVE  p = <<p[1], p[2]>> /\ p[1] \in Nat /\ p[2] \in Nat /\ <<p[1] - x, p[2] - y>> \in DOMAIN pixels
    <2>1. PICK q \in DOMAIN pixels : p = <<x + q[1], y + q[2]>>
      OBVIOUS
    <2>2. q = <<q[1], q[2]>> /\ q[1] \in Nat /\ q[2] \in Nat
      BY <1>2
    <2>3. p[1] = x + q[1] /\ p[2] = y + q[2]
      BY <2>1
    <2>4. p[1] - x = q[1] /\ p[2] - y = q[2]
      BY <2>2, <2>3
    <2> QED  BY <2>1, <2>2, <2>3, <2>4
  <1>4. ASSUME NEW a \in Nat, NEW b \in Nat, <<a - x, b - y>> \in DOMAIN pixels
        PROVE  <<a, b>> \in D
    <2> DEFINE q == <<a - x, b - y>>
    <2>1. q \in DOMAIN pixels /\ x + q[1] = a /\ y + q[2] = b
      BY <1>4
    <2> QED  BY <2>1
  <1> HIDE DEF s, D
  <1> QED  BY <1>1, <1>3, <1>4 DEF s

LEMMA SquareStamped ==
    ASSUME NEW d, IsDrawing(d), NEW x \in Nat, NEW y \in Nat,
           NEW pixels, DOMAIN pixels \subseteq Square, \A q \in DOMAIN pixels : pixels[q] \in Colour
    PROVE  Stamps(d, Draw(d, Shifted(pixels, x, y)), pixels, x, y)
PROOF
  <1> DEFINE s == Shifted(pixels, x, y)
             e == Draw(d, s)
  <1>1. /\ \A p \in DOMAIN s :
                 /\ p = <<p[1], p[2]>> /\ p[1] \in Nat /\ p[2] \in Nat
                 /\ <<p[1] - x, p[2] - y>> \in DOMAIN pixels
                 /\ s[p] = pixels[<<p[1] - x, p[2] - y>>]
        /\ \A a \in Nat, b \in Nat : <<a - x, b - y>> \in DOMAIN pixels => <<a, b>> \in DOMAIN s
    BY ShiftedFacts, Zenon
  <1> HIDE DEF s
  <1>2. Paints(d, e, s)
    <2>1. \A p \in DOMAIN s : s[p] \in Colour
      BY <1>1
    <2> QED  BY <2>1, PixelsDrawn, Zenon
  <1> HIDE DEF e
  <1>3. ASSUME NEW a \in Nat, NEW b \in Nat, OnScreen(a, b)
        PROVE  /\ <<a - x, b - y>> \in DOMAIN pixels =>
                      e.buffer[get_offset(a, b)] = pixels[<<a - x, b - y>>]
               /\ <<a - x, b - y>> \notin DOMAIN pixels =>
                      e.buffer[get_offset(a, b)] = d.buffer[get_offset(a, b)]
    <2> DEFINE off == get_offset(a, b)
    <2>1. off \in Offset
      BY <1>3, OffsetOnScreen
    <2>2. ASSUME NEW p, Hits(s, p, off) PROVE p = <<a, b>> /\ <<a - x, b - y>> \in DOMAIN pixels /\ s[p] = pixels[<<a - x, b - y>>]
      <3>1. /\ p \in DOMAIN s /\ OnScreen(p[1], p[2]) /\ get_offset(p[1], p[2]) = get_offset(a, b)
            /\ p[1] \in Nat /\ p[2] \in Nat
        BY <1>1, <2>2 DEF Hits
      <3>2. p[1] = a /\ p[2] = b
        BY <1>3, <3>1, OffsetsApart
      <3> QED  BY <1>1, <3>1, <3>2
    <2>3. ASSUME <<a - x, b - y>> \in DOMAIN pixels PROVE Hits(s, <<a, b>>, off)
      BY <1>1, <1>3, <2>3 DEF Hits
    <2> HIDE DEF off
    <2>4. \/ e.buffer[off] = d.buffer[off] /\ ~ \E p : Hits(s, p, off)
          \/ \E p : Hits(s, p, off) /\ e.buffer[off] = s[p]
      BY <1>2, <2>1 DEF Paints
    <2>5. ASSUME <<a - x, b - y>> \in DOMAIN pixels PROVE e.buffer[off] = pixels[<<a - x, b - y>>]
      BY <2>2, <2>3, <2>4, <2>5, Zenon
    <2>6. ASSUME <<a - x, b - y>> \notin DOMAIN pixels PROVE e.buffer[off] = d.buffer[off]
      BY <2>2, <2>4, <2>6, Zenon
    <2> QED  BY <2>5, <2>6 DEF off
  <1>4. \A i \in Offset : e.buffer[i] = d.buffer[i] \/ i \in Touched(s)
    BY <1>2 DEF Paints, Touched
  <1> QED  BY <1>2, <1>3, <1>4 DEF Paints, Stamps, e, s

\* Its rows show it.
LEMMA SquareShown ==
    ASSUME NEW d, IsDrawing(d), Shown(d, {}), NEW x \in Nat, NEW y \in Nat,
           NEW pixels, DOMAIN pixels \subseteq Square,
           NEW c, Stamps(d, c, pixels, x, y)
    PROVE  Settles(c, WriteRows(c, x, y, CursorSize, CursorSize))
PROOF
  <1> DEFINE S == Touched(Shifted(pixels, x, y))
  <1>1. Shown(c, S) /\ IsDrawing(c)
    BY DEF Stamps, Shown
  <1>2. ASSUME Fits(x, y, CursorSize, CursorSize)
        PROVE  S \subseteq Rows(x, y, CursorSize, CursorSize)
    <2>1. SUFFICES ASSUME NEW i \in S PROVE i \in Rows(x, y, CursorSize, CursorSize)
      BY Zenon
    <2>2. PICK p : Hits(Shifted(pixels, x, y), p, i)
      BY DEF Touched
    <2>3. /\ p \in DOMAIN Shifted(pixels, x, y) /\ OnScreen(p[1], p[2]) /\ get_offset(p[1], p[2]) = i
      BY <2>2 DEF Hits
    <2>4. p[1] \in Nat /\ p[2] \in Nat /\ <<p[1] - x, p[2] - y>> \in Square
      BY <2>3, ShiftedFacts
    <2> QED  BY <1>2, <2>3, <2>4, SquareInRows
  <1> HIDE DEF S
  <1>3. Fits(x, y, CursorSize, CursorSize) =>
            S \subseteq Rows(x, y, CursorSize, CursorSize)
    BY <1>2
  <1> QED  BY <1>1, <1>3, AreaShown, DesktopFacts, Zenon

----------------------------------------------------------------------------
\* The cursor and what is under it.

Under == [Square -> Colour \ {"cursor"}]

\* What looks like the cursor is in its square at x and y, or there is nothing.
CursorIn(d, x, y) ==
    \A a \in Nat, b \in Nat :
        OnScreen(a, b) /\ d.buffer[get_offset(a, b)] = "cursor" => <<a - x, b - y>> \in Square
NoCursor(d) ==
    \A a \in Nat, b \in Nat : OnScreen(a, b) => d.buffer[get_offset(a, b)] # "cursor"

LEMMA SavedUnder ==
    ASSUME NEW d, IsDrawing(d), NEW x \in Nat, NEW y \in Nat,
           \A q \in Square : OnScreen(Modulo(x + q[1]), Modulo(y + q[2])) =>
               d.buffer[get_offset(Modulo(x + q[1]), Modulo(y + q[2]))] # "cursor"
    PROVE  Saved(d, x, y) \in Under
PROOF
  <1>1. ASSUME NEW q \in Square
        PROVE  get_pixel(d, Modulo(x + q[1]), Modulo(y + q[2])) \in Colour \ {"cursor"}
    <2> DEFINE a == Modulo(x + q[1])
               b == Modulo(y + q[2])
    <2>1. a \in Nat /\ b \in Nat
      <3>1. q[1] \in Nat /\ q[2] \in Nat
        BY DesktopFacts DEF Square
      <3>2. x + q[1] \in Nat /\ y + q[2] \in Nat
        BY <3>1
      <3> QED  BY <3>2, Counted
    <2>2. OnScreen(a, b) => d.buffer[get_offset(a, b)] # "cursor"
      OBVIOUS
    <2> HIDE DEF a, b
    <2>3. CASE OnScreen(a, b)
      <3>1. get_offset(a, b) \in Offset
        BY <2>1, <2>3, OffsetOnScreen
      <3>2. get_pixel(d, a, b) = d.buffer[get_offset(a, b)]
        BY <2>3 DEF get_pixel
      <3>3. d.buffer[get_offset(a, b)] \in Colour
        BY <3>1 DEF IsDrawing
      <3> QED  BY <2>2, <2>3, <3>2, <3>3 DEF a, b
    <2>4. CASE ~OnScreen(a, b)
      <3>1. get_pixel(d, a, b) = Black
        BY <2>4 DEF get_pixel
      <3>2. Black # "cursor"
        BY DesktopAssumption
      <3> QED  BY <3>1, <3>2 DEF a, b, Colour
    <2> QED  BY <2>3, <2>4
  <1> QED  BY <1>1 DEF Saved, Under

\* Where the window was there is background, on the screen and in what is saved.
Erases(d, e, w) ==
    /\ Keeps(d, e)
    /\ \A a \in Nat, b \in Nat :
          OnScreen(a, b) /\ <<a, b>> \in Rectangle(w.old_x, w.old_y, WindowWidth, WindowHeight + TitleHeight)
              => e.buffer[get_offset(a, b)] = "bg"

LEMMA WindowErased ==
    ASSUME NEW d, IsDrawing(d), Shown(d, {}), NEW w, IsWindow(w)
    PROVE  Erases(d, erase_window(d, w), w)
PROOF
  <1> DEFINE x == w.old_x
             y == w.old_y
             h == WindowHeight + TitleHeight
             R == Rectangle(x, y, WindowWidth, h)
             pixels == [p \in R |-> IF OnScreen(p[1], p[2]) THEN "bg" ELSE Black]
             c == Draw(d, pixels)
             e == WriteRows(c, x, y, WindowWidth, h)
  <1>1. erase_window(d, w) = e
    BY DEF erase_window
  <1>2. x \in Nat /\ y \in Nat /\ h \in Nat /\ WindowWidth \in Nat
    BY DesktopFacts DEF IsWindow
  <1>3. DOMAIN pixels = R /\ \A p \in R : OnScreen(p[1], p[2]) => pixels[p] = "bg"
    OBVIOUS
  <1>4. \A p \in DOMAIN pixels : pixels[p] \in Colour
    BY DEF Colour
  <1>5. Paints(d, c, pixels)
    BY <1>4, PixelsDrawn, Zenon
  <1> HIDE DEF pixels, c
  <1>6. Shown(c, {} \cup Touched(pixels))
    BY <1>5, PaintShown, Zenon
  <1>7. ASSUME Fits(x, y, WindowWidth, h)
        PROVE  {} \cup Touched(pixels) \subseteq Rows(x, y, WindowWidth, h)
    <2>1. ASSUME NEW p \in R PROVE get_offset(p[1], p[2]) \in Rows(x, y, WindowWidth, h)
      BY <1>2, <1>7, <2>1, RectangleInRows
    <2> QED  BY <1>3, <2>1 DEF Touched, Hits
  <1>8. Settles(c, e)
    <2>1. IsDrawing(c)
      BY <1>5 DEF Paints
    <2>2. Fits(x, y, WindowWidth, h) => {} \cup Touched(pixels) \subseteq Rows(x, y, WindowWidth, h)
      BY <1>7
    <2> HIDE DEF x, y, h
    <2> QED  BY <1>2, <1>6, <2>1, <2>2, AreaShown, Zenon
  <1> HIDE DEF e
  <1>9. Keeps(d, e)
    <2>1. \A i \in Offset : c.buffer[i] = d.buffer[i] \/ c.buffer[i] = "bg"
      BY <1>3, <1>5 DEF Paints, Hits
    <2> QED  BY <1>8, <2>1 DEF Settles, Keeps
  <1>10. ASSUME NEW a \in Nat, NEW b \in Nat, OnScreen(a, b), <<a, b>> \in R
         PROVE  e.buffer[get_offset(a, b)] = "bg"
    <2> DEFINE i == get_offset(a, b)
    <2>1. i \in Offset
      BY <1>10, OffsetOnScreen
    <2>2. Hits(pixels, <<a, b>>, i)
      BY <1>3, <1>10 DEF Hits
    <2> HIDE DEF i
    <2>3. \E p : Hits(pixels, p, i) /\ c.buffer[i] = pixels[p]
      BY <1>5, <2>1, <2>2, Zenon DEF Paints
    <2>4. c.buffer[i] = "bg"
      BY <1>3, <2>3 DEF Hits
    <2> QED  BY <1>8, <2>4 DEF Settles, i
  <1> QED  BY <1>1, <1>9, <1>10 DEF Erases

LEMMA InRectangle ==
    ASSUME NEW x, NEW y, NEW w, NEW h
    PROVE  \A i \in 0 .. (w - 1), j \in 0 .. (h - 1) :
               <<Modulo(x + i), Modulo(y + j)>> \in Rectangle(x, y, w, h)
PROOF
  BY DEF Rectangle

LEMMA ErasedUnder ==
    ASSUME NEW d, NEW e, NEW w, IsWindow(w), Erases(d, e, w)
    PROVE  Saved(e, w.old_x, w.old_y) \in Under
PROOF
  <1>1. IsDrawing(e) /\ w.old_x \in Nat /\ w.old_y \in Nat
    BY DesktopFacts DEF Erases, Keeps, IsWindow
  <1>2. ASSUME NEW q \in Square, OnScreen(Modulo(w.old_x + q[1]), Modulo(w.old_y + q[2]))
        PROVE  e.buffer[get_offset(Modulo(w.old_x + q[1]), Modulo(w.old_y + q[2]))] # "cursor"
    <2> DEFINE a == Modulo(w.old_x + q[1])
               b == Modulo(w.old_y + q[2])
    <2>1. CursorSize <= WindowWidth /\ CursorSize <= WindowHeight + TitleHeight
      BY DesktopAssumption
    <2>2. q[1] \in 0 .. (WindowWidth - 1) /\ q[2] \in 0 .. (WindowHeight + TitleHeight - 1)
      BY <2>1, DesktopFacts DEF Square
    <2> DEFINE h == WindowHeight + TitleHeight
    <2>3. q[1] \in 0 .. (WindowWidth - 1) /\ q[2] \in 0 .. (h - 1)
      BY <2>2, DesktopFacts
    <2> HIDE DEF h
    <2>7. <<a, b>> \in Rectangle(w.old_x, w.old_y, WindowWidth, h)
      BY <2>3, InRectangle, Zenon DEF a, b
    <2>4. a \in Nat /\ b \in Nat
      <3>1. w.old_x + q[1] \in Nat /\ w.old_y + q[2] \in Nat
        BY <1>1, <2>2, DesktopFacts
      <3> QED  BY <3>1, Counted
    <2>5. OnScreen(a, b)
      BY <1>2
    <2> HIDE DEF a, b
    <2>6. e.buffer[get_offset(a, b)] = "bg"
      BY <2>4, <2>5, <2>7, Zenon DEF Erases, h
    <2> QED  BY <2>6 DEF a, b
  <1> QED  BY <1>1, <1>2, SavedUnder

\* With what was under it the cursor goes.
LEMMA CursorGone ==
    ASSUME NEW d, IsDrawing(d), Shown(d, {}), NEW pixels \in Under,
           mouse[1] \in Nat, mouse[2] \in Nat, CursorIn(d, mouse[1], mouse[2])
    PROVE  LET e == restore_under(d, pixels) IN IsDrawing(e) /\ Shown(e, {}) /\ NoCursor(e)
PROOF
  <1> DEFINE x == mouse[1]
             y == mouse[2]
             c == Draw(d, Shifted(pixels, x, y))
             e == WriteRows(c, x, y, CursorSize, CursorSize)
  <1>1. DOMAIN pixels = Square /\ \A q \in Square : pixels[q] \in Colour /\ pixels[q] # "cursor"
    BY DEF Under
  <1> HIDE DEF x, y
  <1>2. x \in Nat /\ y \in Nat /\ CursorIn(d, x, y)
    BY DEF x, y
  <1>3. Stamps(d, c, pixels, x, y)
    BY <1>1, <1>2, SquareStamped
  <1> HIDE DEF c
  <1>4. Settles(c, e)
    BY <1>1, <1>2, <1>3, SquareShown
  <1> HIDE DEF e
  <1>5. ASSUME NEW a \in Nat, NEW b \in Nat, OnScreen(a, b) PROVE e.buffer[get_offset(a, b)] # "cursor"
    <2>1. CASE <<a - x, b - y>> \in Square
      BY <1>1, <1>3, <1>4, <1>5, <2>1 DEF Stamps, Settles
    <2>2. CASE <<a - x, b - y>> \notin Square
      <3>1. c.buffer[get_offset(a, b)] = d.buffer[get_offset(a, b)]
        BY <1>1, <1>3, <1>5, <2>2 DEF Stamps
      <3>2. d.buffer[get_offset(a, b)] # "cursor"
        BY <1>2, <1>5, <2>2 DEF CursorIn
      <3> QED  BY <1>4, <3>1, <3>2 DEF Settles
    <2> QED  BY <2>1, <2>2
  <1>6. restore_under(d, pixels) = e
    BY DEF restore_under, e, c, x, y
  <1> QED  BY <1>4, <1>5, <1>6 DEF Settles, NoCursor

\* And it comes where it is drawn.
LEMMA CursorComes ==
    ASSUME NEW d, IsDrawing(d), NoCursor(d), NEW x \in Nat, NEW y \in Nat
    PROVE  LET e == draw_cursor(d, x, y)
           IN  /\ IsDrawing(e) /\ e.fb = d.fb /\ e.strayed = d.strayed /\ CursorIn(e, x, y)
               /\ Shown(d, {}) => Settles(e, WriteRows(e, x, y, CursorSize, CursorSize))
PROOF
  <1> DEFINE pixels == [p \in Square \ Transparent |-> "cursor"]
             e == Draw(d, Shifted(pixels, x, y))
  <1>1. DOMAIN pixels \subseteq Square /\ \A q \in DOMAIN pixels : pixels[q] \in Colour
    BY DEF Colour
  <1> HIDE DEF pixels
  <1>2. Stamps(d, e, pixels, x, y)
    BY <1>1, SquareStamped
  <1>3. draw_cursor(d, x, y) = e
    BY DEF draw_cursor, pixels
  <1> HIDE DEF e
  <1>4. Shown(d, {}) => Settles(e, WriteRows(e, x, y, CursorSize, CursorSize))
    BY <1>1, <1>2, SquareShown
  <1>5. ASSUME NEW a \in Nat, NEW b \in Nat, OnScreen(a, b), e.buffer[get_offset(a, b)] = "cursor"
        PROVE  <<a - x, b - y>> \in Square
    BY <1>1, <1>2, <1>5 DEF Stamps, NoCursor
  <1> QED  BY <1>2, <1>3, <1>4, <1>5 DEF Stamps, CursorIn

LEMMA SavedWithoutCursor ==
    ASSUME NEW d, IsDrawing(d), NoCursor(d), NEW x \in Nat, NEW y \in Nat
    PROVE  Saved(d, x, y) \in Under
PROOF
  <1>1. ASSUME NEW q \in Square, OnScreen(Modulo(x + q[1]), Modulo(y + q[2]))
        PROVE  d.buffer[get_offset(Modulo(x + q[1]), Modulo(y + q[2]))] # "cursor"
    <2>1. x + q[1] \in Nat /\ y + q[2] \in Nat
      BY DesktopFacts DEF Square
    <2>2. Modulo(x + q[1]) \in Nat /\ Modulo(y + q[2]) \in Nat
      BY <2>1, Counted
    <2> QED  BY <1>1, <2>2 DEF NoCursor
  <1> QED  BY <1>1, SavedUnder

\* The two buffers agree once the loop runs, what looks like the cursor is where
\* the mouse is, and what will be put back under it does not look like it.  Before
\* that the position is still where the whole buffer fits.
DesktopInv ==
    /\ IsDrawing(Drawing) /\ IsWindow(window)
    /\ mouse \in Nat \X Nat /\ rounds \in Nat
    /\ under \in Under
    /\ CursorIn(Drawing, mouse[1], mouse[2])
    /\ rounds = 0 => fb.idx = 0
    /\ rounds # 0 => Shown(Drawing, {})

LEMMA DesktopBegins ==
    DesktopInit => DesktopInv
PROOF
  <1> SUFFICES ASSUME DesktopInit PROVE DesktopInv
    OBVIOUS
  <1> USE DesktopFacts DEF DesktopInit, MemoryFSInit
  <1>1. Black \in Colour /\ Black # "cursor"
    BY DesktopAssumption DEF Colour
  <1>2. fb \in [data : [Offset -> Colour \cup {Lost}], idx : Nat]
    BY DEF Offset
  <1>3. buffer \in [Offset -> Colour] /\ strayed \in BOOLEAN
    BY <1>1 DEF Offset
  <1>4. IsDrawing(Drawing)
    BY <1>2, <1>3 DEF IsDrawing, Drawing
  <1>5. mouse \in Nat \X Nat
    OBVIOUS
  <1>6. IsWindow(window)
    <2>1. PICK at \in Place, c \in Content, dirty \in BOOLEAN :
              window = [x |-> at[1], y |-> at[2], fd |-> c, dirty |-> dirty,
                        old_x |-> 0, old_y |-> 0, moving |-> FALSE]
      OBVIOUS
    <2>2. at[1] \in 0 .. (Wide - 1) /\ at[2] \in 0 .. (Wide - 1) /\ 0 \in 0 .. (Wide - 1)
      BY DesktopAssumption
    <2> QED  BY <2>1, <2>2 DEF IsWindow
  <1>7. under \in Under
    BY <1>1 DEF Under
  <1>8. CursorIn(Drawing, mouse[1], mouse[2])
    <2>1. ASSUME NEW a \in Nat, NEW b \in Nat, OnScreen(a, b)
          PROVE  Drawing.buffer[get_offset(a, b)] # "cursor"
      BY <1>1, <2>1, OffsetOnScreen DEF Drawing, Offset
    <2> QED  BY <2>1 DEF CursorIn
  <1> QED  BY <1>4, <1>5, <1>6, <1>7, <1>8 DEF DesktopInv

LEMMA DrawingBecomes ==
    ASSUME NEW d, IsDrawing(d)
    PROVE  Becomes(d) => Drawing' = d
PROOF
  <1>1. d = [fb |-> d.fb, buffer |-> d.buffer, strayed |-> d.strayed]
    BY DEF IsDrawing
  <1>2. ASSUME Becomes(d) PROVE Drawing' = [fb |-> d.fb, buffer |-> d.buffer, strayed |-> d.strayed]
    BY <1>2 DEF Becomes, Drawing
  <1> QED  BY <1>1, <1>2

LEMMA CursorKept ==
    ASSUME NEW d, NEW e, NEW x, NEW y, Keeps(d, e), CursorIn(d, x, y)
    PROVE  CursorIn(e, x, y)
PROOF
  BY OffsetOnScreen DEF Keeps, CursorIn

LEMMA DraggedWindow ==
    ASSUME NEW w, IsWindow(w), NEW dx \in Int, NEW dy \in Int, NEW button \in BOOLEAN
    PROVE  IsWindow(Dragged(w, dx, dy, button))
PROOF
  <1>1. Modulo(w.x + dx) \in 0 .. (Wide - 1) /\ Modulo(w.y + dy) \in 0 .. (Wide - 1)
    BY DesktopFacts DEF Modulo, IsWindow
  <1> QED  BY <1>1 DEF Dragged, IsWindow

\* The first drawing, in one write from where the file begins.
LEMMA SetUpStep ==
    ASSUME DesktopInv, set_up
    PROVE  DesktopInv'
PROOF
  <1> DEFINE x == mouse[1]
             y == mouse[2]
             bg == [Drawing EXCEPT !.buffer = [i \in DOMAIN @ |-> "bg"]]
             drawn == draw_cursor(bg, x, y)
             block == [i \in 1 .. BufferSize |-> drawn.buffer[i - 1]]
             e == [drawn EXCEPT !.fb = write(@, block)]
  <1>1. /\ rounds = 0 /\ rounds' = 1 /\ under' = Saved(bg, x, y)
        /\ Becomes(e) /\ mouse' = mouse /\ window' = window
    BY Zenon DEF set_up
  <1>2. x \in Nat /\ y \in Nat /\ IsDrawing(Drawing) /\ Drawing.fb.idx = 0
    BY <1>1 DEF DesktopInv, Drawing
  <1>3. IsDrawing(bg) /\ NoCursor(bg) /\ bg.fb.idx = 0
    <2>1. IsDrawing(bg) /\ bg.fb = Drawing.fb /\ \A i \in Offset : bg.buffer[i] = "bg"
      BY <1>2 DEF IsDrawing, Colour
    <2> HIDE DEF bg
    <2> QED  BY <1>2, <2>1, OffsetOnScreen DEF NoCursor
  <1> HIDE DEF bg, x, y
  <1>4. IsDrawing(drawn) /\ drawn.fb = bg.fb /\ CursorIn(drawn, x, y)
    BY <1>2, <1>3, CursorComes, Zenon
  <1>5. Saved(bg, x, y) \in Under
    BY <1>2, <1>3, SavedWithoutCursor, Zenon
  <1> HIDE DEF drawn
  <1>6. /\ Len(block) = BufferSize
        /\ \A i \in 1 .. BufferSize : block[i] = drawn.buffer[i - 1] /\ block[i] \in Colour \cup {Lost}
    BY <1>4, DesktopFacts DEF IsDrawing, Offset
  <1> HIDE DEF block
  <1>7. IsScreen(drawn.fb) /\ drawn.fb.idx = 0
    BY <1>3, <1>4 DEF IsDrawing, IsScreen
  <1>8. ~Refuses(drawn.fb, BufferSize)
    <2>1. BufferSize < Wide
      BY DesktopFacts
    <2>2. Modulo(BufferSize) = BufferSize
      BY <2>1, DesktopFacts, Counted
    <2> QED  BY <1>7, <2>2, DesktopFacts DEF Refuses, Modulo
  <1>9. /\ IsScreen(write(drawn.fb, block))
        /\ \A i \in Offset : write(drawn.fb, block).data[i] = drawn.buffer[i]
    <2> DEFINE f == write(drawn.fb, block)
    <2>1. /\ IsScreen(f)
          /\ \A i \in Offset : f.data[i] = IF i \in drawn.fb.idx .. (drawn.fb.idx + BufferSize - 1)
                                           THEN block[i - drawn.fb.idx + 1] ELSE drawn.fb.data[i]
      BY <1>6, <1>7, <1>8, DesktopFacts, BlockShown
    <2> HIDE DEF f
    <2>2. ASSUME NEW i \in Offset PROVE f.data[i] = drawn.buffer[i]
      <3>1. i \in Int /\ i \in 0 .. (0 + BufferSize - 1) /\ i - 0 + 1 \in 1 .. BufferSize /\ (i - 0 + 1) - 1 = i
        BY DesktopFacts DEF Offset
      <3> QED  BY <1>6, <1>7, <2>1, <3>1
    <2> QED  BY <2>1, <2>2 DEF f
  <1>10. IsDrawing(e) /\ Shown(e, {}) /\ CursorIn(e, x, y)
    <2> DEFINE f == write(drawn.fb, block)
    <2>1. IsDrawing(e) /\ e.fb = f /\ e.buffer = drawn.buffer
      <3> HIDE DEF f
      <3>1. IsScreen(f)
        BY <1>9 DEF f
      <3>2. e = [drawn EXCEPT !.fb = f]
        BY DEF f
      <3> QED  BY <1>4, <3>1, <3>2 DEF IsDrawing, IsScreen
    <2> HIDE DEF e
    <2> QED  BY <1>4, <1>9, <2>1, Zenon DEF Shown, CursorIn
  <1> HIDE DEF e
  <1>11. Drawing' = e
    BY <1>1, <1>10, DrawingBecomes
  <1> QED  BY <1>1, <1>5, <1>10, <1>11 DEF DesktopInv, x, y

LEMMA FrameStep ==
    ASSUME DesktopInv, NEW colour \in Content, frame(colour)
    PROVE  DesktopInv'
PROOF
  <1> DEFINE w == [window EXCEPT !.fd = colour, !.dirty = TRUE]
             e == draw_window(Drawing, w)
  <1>1. /\ rounds \in 1 .. (Rounds - 1) /\ rounds' = rounds + 1
        /\ Becomes(e) /\ window' = [w EXCEPT !.dirty = w.moving]
        /\ mouse' = mouse /\ under' = under
    BY Zenon DEF frame
  <1>2. IsDrawing(Drawing) /\ Shown(Drawing, {}) /\ CursorIn(Drawing, mouse[1], mouse[2])
    BY <1>1 DEF DesktopInv
  <1>3. IsWindow(w) /\ IsWindow(window')
    BY <1>1 DEF DesktopInv, IsWindow
  <1> HIDE DEF w
  <1>4. Keeps(Drawing, e)
    BY <1>2, <1>3, WindowShown, Zenon
  <1> HIDE DEF e
  <1>5. CursorIn(e, mouse[1], mouse[2])
    BY <1>2, <1>4, CursorKept, Zenon
  <1>6. Drawing' = e
    BY <1>1, <1>4, DrawingBecomes DEF Keeps
  <1>7. rounds' \in Nat /\ rounds' # 0
    BY <1>1
  <1> QED  BY <1>1, <1>3, <1>4, <1>5, <1>6, <1>7 DEF DesktopInv, Keeps

LEMMA KeepsTwice ==
    ASSUME NEW c, NEW d, NEW e, Keeps(c, d), Keeps(d, e)
    PROVE  Keeps(c, e)
PROOF
  BY DEF Keeps

\* The window is erased if it is dropped, then the cursor goes and comes again.
LEMMA PacketStep ==
    ASSUME DesktopInv, NEW move \in Motion, NEW button \in BOOLEAN, packet(move[1], move[2], button)
    PROVE  DesktopInv'
PROOF
  <1> DEFINE dx == move[1]
             dy == move[2]
             waiting == draw_window(Drawing, window)
             v == [window EXCEPT !.dirty = window.moving /\ window.dirty]
             w == Dragged(v, dx, dy, button)
             drops == Drops(w, button)
             erased == IF drops THEN erase_window(waiting, w) ELSE waiting
             pixels == IF drops THEN Saved(erased, w.old_x, w.old_y) ELSE under
             restored == restore_under(erased, pixels)
             x == Clamped(mouse[1] + dx, Width)
             y == Clamped(mouse[2] + dy, Height)
             drawn == draw_cursor(restored, x, y)
             e == WriteRows(drawn, x, y, CursorSize, CursorSize)
  <1>1. /\ rounds \in 1 .. (Rounds - 1) /\ rounds' = rounds + 1
        /\ Becomes(e) /\ under' = Saved(restored, x, y) /\ mouse' = <<x, y>>
        /\ window' = [w EXCEPT !.moving = @ /\ ~drops]
    BY Zenon DEF packet
  <1>2. /\ IsDrawing(Drawing) /\ Shown(Drawing, {}) /\ CursorIn(Drawing, mouse[1], mouse[2])
        /\ mouse[1] \in Nat /\ mouse[2] \in Nat /\ under \in Under /\ IsWindow(window)
    BY <1>1 DEF DesktopInv
  <1>3. dx \in Int /\ dy \in Int
    BY DesktopAssumption
  <1>4. IsWindow(v)
    BY <1>2 DEF IsWindow
  <1> HIDE DEF v, dx, dy
  <1>5. IsWindow(w)
    BY <1>3, <1>4, DraggedWindow
  <1> HIDE DEF w
  <1>6. IsWindow(window')
    <2>1. (w.moving /\ ~drops) \in BOOLEAN
      OBVIOUS
    <2> QED  BY <1>1, <1>5, <2>1 DEF IsWindow
  <1> HIDE DEF drops
  <1>7. Keeps(Drawing, waiting)
    BY <1>2, WindowShown, Zenon
  <1> HIDE DEF waiting
  <1>8. Keeps(Drawing, erased) /\ pixels \in Under
    <2>1. CASE drops
      <3>1. Erases(waiting, erase_window(waiting, w), w)
        BY <1>5, <1>7, WindowErased, Zenon DEF Keeps
      <3>2. erased = erase_window(waiting, w) /\ pixels = Saved(erased, w.old_x, w.old_y)
        BY <2>1
      <3> HIDE DEF erased, pixels
      <3>3. Keeps(waiting, erased) /\ pixels \in Under
        BY <1>5, <3>1, <3>2, ErasedUnder, Zenon DEF Erases
      <3> QED  BY <1>7, <3>3, KeepsTwice, Zenon
    <2>2. CASE ~drops
      BY <1>2, <1>7, <2>2
    <2> QED  BY <2>1, <2>2
  <1> HIDE DEF erased, pixels
  <1>9. CursorIn(erased, mouse[1], mouse[2])
    BY <1>2, <1>8, CursorKept, Zenon
  <1>10. IsDrawing(restored) /\ Shown(restored, {}) /\ NoCursor(restored)
    BY <1>2, <1>8, <1>9, CursorGone, Zenon DEF Keeps
  <1> HIDE DEF restored
  <1>11. x \in Nat /\ y \in Nat
    BY <1>2, <1>3, DesktopFacts DEF Clamped
  <1> HIDE DEF x, y
  <1>12. CursorIn(drawn, x, y) /\ Settles(drawn, e)
    BY <1>10, <1>11, CursorComes, Zenon
  <1>13. Saved(restored, x, y) \in Under
    BY <1>10, <1>11, SavedWithoutCursor, Zenon
  <1> HIDE DEF drawn, e
  <1>14. IsDrawing(e) /\ Shown(e, {}) /\ CursorIn(e, x, y)
    BY <1>12, Zenon DEF Settles, CursorIn
  <1>15. Drawing' = e
    BY <1>1, <1>14, DrawingBecomes
  <1>16. rounds' \in Nat /\ rounds' # 0
    BY <1>1
  <1> QED  BY <1>1, <1>6, <1>11, <1>13, <1>14, <1>15, <1>16 DEF DesktopInv

LEMMA DesktopStep ==
    DesktopInv /\ [DesktopNext]_desktop_vars => DesktopInv'
PROOF
  <1>1. ASSUME DesktopInv, DesktopNext PROVE DesktopInv'
    <2>1. CASE set_up
      BY <1>1, <2>1, SetUpStep
    <2>2. CASE \E colour \in Content : frame(colour)
      BY <1>1, <2>2, FrameStep
    <2>3. CASE \E move \in Motion, button \in BOOLEAN : packet(move[1], move[2], button)
      BY <1>1, <2>3, PacketStep
    <2> QED  BY <1>1, <2>1, <2>2, <2>3, Zenon DEF DesktopNext
  <1>2. ASSUME DesktopInv, UNCHANGED desktop_vars PROVE DesktopInv'
    BY <1>2 DEF desktop_vars, DesktopInv, IsDrawing, Drawing, CursorIn, Shown
  <1> QED  BY <1>1, <1>2

LEMMA DesktopInvariant == DesktopSpec => []DesktopInv
PROOF
  BY DesktopBegins, DesktopStep, PTL DEF DesktopSpec

\* The file of the frame buffer shows what the shell has drawn, although only rows
\* are copied, through a position that a refused seek leaves where it was
\* (shell.cpp:160-190, 223-275; MemoryFS.cpp:58-130).
THEOREM DesktopScreenShowsBuffer == DesktopSpec => []ScreenShowsBuffer
PROOF
  <1>1. DesktopInv => ScreenShowsBuffer
    <2> SUFFICES ASSUME DesktopInv, rounds > 0, ~strayed PROVE fb.data = buffer
      BY DEF ScreenShowsBuffer
    <2>1. fb.data \in [Offset -> Colour \cup {Lost}] /\ buffer \in [Offset -> Colour]
      BY DEF DesktopInv, IsDrawing, Drawing
    <2>2. \A i \in Offset : fb.data[i] = buffer[i]
      BY DEF DesktopInv, Shown, Drawing
    <2> QED  BY <2>1, <2>2
  <1> QED  BY <1>1, DesktopInvariant, PTL

\* A moving mouse leaves no trail of cursors, whatever it passes over and drags.
THEOREM DesktopOneCursor == DesktopSpec => []OneCursor
PROOF
  <1>1. DesktopInv => OneCursor
    <2> SUFFICES ASSUME DesktopInv,
                        NEW x \in 0 .. (Width - 1), NEW y \in 0 .. (Height - 1),
                        get_pixel(Drawing, x, y) = "cursor"
                 PROVE  <<x - mouse[1], y - mouse[2]>> \in Square
      BY DEF OneCursor
    <2>1. x \in Nat /\ y \in Nat /\ OnScreen(x, y)
      BY DesktopFacts DEF OnScreen
    <2>2. Drawing.buffer[get_offset(x, y)] = "cursor"
      BY <2>1 DEF get_pixel
    <2> QED  BY <2>1, <2>2 DEF DesktopInv, CursorIn
  <1> QED  BY <1>1, DesktopInvariant, PTL

----------------------------------------------------------------------------
\* Directories and the objects they take.

\* The slots of the partition that is mounted.
Entries == Slots(image)

\* What is assumed of a partition.
LEMMA DirectoryFacts ==
    ASSUME image \in Partitions
    PROVE  /\ LastCluster \in Nat /\ LastCluster >= 2
           /\ Object \subseteq Nat /\ IsFiniteSet(Object)
           /\ image.root \in Seq(Entries) /\ Ends(image.root)
           /\ image.slots \in [Cluster -> Seq(Entries)]
           /\ image.next \in [Cluster -> Cluster \cup {EndOfChain}]
PROOF
  BY DirectoryAssumption DEF Entries, Ends, IsZero

\* The functions that the walk is defined by are there for every length.  First the
\* slots of the disk from a cluster on.
IsDisk(g, cluster, h) ==
    g = [n \in 0 .. h |-> IF n = 0 THEN << >> ELSE g[n - 1] \o image.slots[cluster + n - 1]]

LEMMA DiskExists ==
    ASSUME NEW cluster, NEW h \in Nat
    PROVE  \E g : IsDisk(g, cluster, h)
PROOF
  <1> DEFINE Bad == {k \in 0 .. h : ~ \E g : IsDisk(g, cluster, k)}
  <1>1. SUFFICES ASSUME Bad # {} PROVE FALSE
    <2>1. h \in 0 .. h
      OBVIOUS
    <2> QED  BY <2>1
  <1>2. PICK k \in Bad : \A j \in Bad : k <= j
    <2>1. Bad \subseteq Nat
      OBVIOUS
    <2> QED  BY <1>1, <2>1, LeastExists
  <1>3. CASE k = 0
    <2> DEFINE g == [n \in 0 .. 0 |-> << >>]
    <2>1. \A n \in 0 .. 0 : n = 0
      OBVIOUS
    <2>2. g = [n \in 0 .. 0 |-> IF n = 0 THEN << >> ELSE g[n - 1] \o image.slots[cluster + n - 1]]
      BY <2>1
    <2> QED  BY <1>2, <1>3, <2>2 DEF IsDisk
  <1>4. CASE k # 0
    <2>1. k - 1 \in 0 .. h /\ k - 1 \notin Bad /\ k \in 1 .. h
      BY <1>2, <1>4
    <2>2. PICK f : IsDisk(f, cluster, k - 1)
      BY <2>1
    <2> DEFINE g == [n \in 0 .. k |-> IF n = k THEN f[k - 1] \o image.slots[cluster + k - 1] ELSE f[n]]
    <2>3. ASSUME NEW n \in 0 .. k
          PROVE  g[n] = IF n = 0 THEN << >> ELSE g[n - 1] \o image.slots[cluster + n - 1]
      <3>1. CASE n = k
        <4>1. n # 0 /\ n - 1 \in 0 .. k /\ n - 1 # k
          BY <2>1, <3>1
        <4> QED  BY <3>1, <4>1
      <3>2. CASE n # k
        <4>1. n \in 0 .. (k - 1) /\ (n # 0 => n - 1 \in 0 .. k /\ n - 1 # k)
          BY <2>1, <3>2
        <4>2. f[n] = IF n = 0 THEN << >> ELSE f[n - 1] \o image.slots[cluster + n - 1]
          BY <2>2, <4>1 DEF IsDisk
        <4> QED  BY <3>2, <4>1, <4>2
      <3> QED  BY <3>1, <3>2
    <2>4. g = [n \in 0 .. k |-> IF n = 0 THEN << >> ELSE g[n - 1] \o image.slots[cluster + n - 1]]
      <3> HIDE DEF g
      <3>1. g = [n \in 0 .. k |-> g[n]]
        BY DEF g
      <3> QED  BY <2>3, <3>1
    <2> QED  BY <1>2, <2>4 DEF IsDisk
  <1> QED  BY <1>3, <1>4

\* The slots of a chain, one more of its clusters at a time.
IsChain(g, h) ==
    g = [n \in 0 .. h |-> IF n = 0 THEN [c \in Cluster \cup {EndOfChain} |-> << >>] ELSE Followed(g[n - 1])]

LEMMA ChainExists ==
    ASSUME NEW h \in Nat
    PROVE  \E g : IsChain(g, h)
PROOF
  <1> DEFINE Bad == {k \in 0 .. h : ~ \E g : IsChain(g, k)}
  <1>1. SUFFICES ASSUME Bad # {} PROVE FALSE
    <2>1. h \in 0 .. h
      OBVIOUS
    <2> QED  BY <2>1
  <1>2. PICK k \in Bad : \A j \in Bad : k <= j
    <2>1. Bad \subseteq Nat
      OBVIOUS
    <2> QED  BY <1>1, <2>1, LeastExists
  <1>3. CASE k = 0
    <2> DEFINE g == [n \in 0 .. 0 |-> [c \in Cluster \cup {EndOfChain} |-> << >>]]
    <2>1. \A n \in 0 .. 0 : n = 0
      OBVIOUS
    <2>2. g = [n \in 0 .. 0 |-> IF n = 0 THEN [c \in Cluster \cup {EndOfChain} |-> << >>] ELSE Followed(g[n - 1])]
      BY <2>1
    <2> QED  BY <1>2, <1>3, <2>2 DEF IsChain
  <1>4. CASE k # 0
    <2>1. k - 1 \in 0 .. h /\ k - 1 \notin Bad /\ k \in 1 .. h
      BY <1>2, <1>4
    <2>2. PICK f : IsChain(f, k - 1)
      BY <2>1
    <2> DEFINE g == [n \in 0 .. k |-> IF n = k THEN Followed(f[k - 1]) ELSE f[n]]
    <2>3. ASSUME NEW n \in 0 .. k
          PROVE  g[n] = IF n = 0 THEN [c \in Cluster \cup {EndOfChain} |-> << >>] ELSE Followed(g[n - 1])
      <3>1. CASE n = k
        <4>1. n # 0 /\ n - 1 \in 0 .. k /\ n - 1 # k
          BY <2>1, <3>1
        <4> QED  BY <3>1, <4>1
      <3>2. CASE n # k
        <4>1. n \in 0 .. (k - 1) /\ (n # 0 => n - 1 \in 0 .. k /\ n - 1 # k)
          BY <2>1, <3>2
        <4>2. f[n] = IF n = 0 THEN [c \in Cluster \cup {EndOfChain} |-> << >>] ELSE Followed(f[n - 1])
          BY <2>2, <4>1 DEF IsChain
        <4> QED  BY <3>2, <4>1, <4>2
      <3> QED  BY <3>1, <3>2
    <2>4. g = [n \in 0 .. k |-> IF n = 0 THEN [c \in Cluster \cup {EndOfChain} |-> << >>] ELSE Followed(g[n - 1])]
      <3> HIDE DEF g
      <3>1. g = [n \in 0 .. k |-> g[n]]
        BY DEF g
      <3> QED  BY <2>3, <3>1
    <2> QED  BY <1>2, <2>4 DEF IsChain
  <1> QED  BY <1>3, <1>4

\* A walk after each entry of a list.
IsSearch(g, w, list, name, h) ==
    g = [n \in 0 .. h |-> IF n = 0 THEN [w EXCEPT !.item = Null] ELSE Looked(g[n - 1], list[n], name)]

LEMMA SearchExists ==
    ASSUME NEW w, NEW list, NEW name, NEW h \in Nat
    PROVE  \E g : IsSearch(g, w, list, name, h)
PROOF
  <1> DEFINE Bad == {k \in 0 .. h : ~ \E g : IsSearch(g, w, list, name, k)}
  <1>1. SUFFICES ASSUME Bad # {} PROVE FALSE
    <2>1. h \in 0 .. h
      OBVIOUS
    <2> QED  BY <2>1
  <1>2. PICK k \in Bad : \A j \in Bad : k <= j
    <2>1. Bad \subseteq Nat
      OBVIOUS
    <2> QED  BY <1>1, <2>1, LeastExists
  <1>3. CASE k = 0
    <2> DEFINE g == [n \in 0 .. 0 |-> [w EXCEPT !.item = Null]]
    <2>1. \A n \in 0 .. 0 : n = 0
      OBVIOUS
    <2>2. g = [n \in 0 .. 0 |-> IF n = 0 THEN [w EXCEPT !.item = Null] ELSE Looked(g[n - 1], list[n], name)]
      BY <2>1
    <2> QED  BY <1>2, <1>3, <2>2 DEF IsSearch
  <1>4. CASE k # 0
    <2>1. k - 1 \in 0 .. h /\ k - 1 \notin Bad /\ k \in 1 .. h
      BY <1>2, <1>4
    <2>2. PICK f : IsSearch(f, w, list, name, k - 1)
      BY <2>1
    <2> DEFINE g == [n \in 0 .. k |-> IF n = k THEN Looked(f[k - 1], list[k], name) ELSE f[n]]
    <2>3. ASSUME NEW n \in 0 .. k
          PROVE  g[n] = IF n = 0 THEN [w EXCEPT !.item = Null] ELSE Looked(g[n - 1], list[n], name)
      <3>1. CASE n = k
        <4>1. n # 0 /\ n - 1 \in 0 .. k /\ n - 1 # k
          BY <2>1, <3>1
        <4> QED  BY <3>1, <4>1
      <3>2. CASE n # k
        <4>1. n \in 0 .. (k - 1) /\ (n # 0 => n - 1 \in 0 .. k /\ n - 1 # k)
          BY <2>1, <3>2
        <4>2. f[n] = IF n = 0 THEN [w EXCEPT !.item = Null] ELSE Looked(f[n - 1], list[n], name)
          BY <2>2, <4>1 DEF IsSearch
        <4> QED  BY <3>2, <4>1, <4>2
      <3> QED  BY <3>1, <3>2
    <2>4. g = [n \in 0 .. k |-> IF n = 0 THEN [w EXCEPT !.item = Null] ELSE Looked(g[n - 1], list[n], name)]
      <3> HIDE DEF g
      <3>1. g = [n \in 0 .. k |-> g[n]]
        BY DEF g
      <3> QED  BY <2>3, <3>1
    <2> QED  BY <1>2, <2>4 DEF IsSearch
  <1> QED  BY <1>3, <1>4

\* A walk after each part of a path.
IsPath(g, mem, parts, h) ==
    g = [n \in 0 .. h |-> IF n = 0 THEN find_item_in_directory(Walk(mem), fs_private.list, parts[1]) ELSE NextPart(g[n - 1], parts[n + 1])]

LEMMA PathExists ==
    ASSUME NEW mem, NEW parts, NEW h \in Nat
    PROVE  \E g : IsPath(g, mem, parts, h)
PROOF
  <1> DEFINE Bad == {k \in 0 .. h : ~ \E g : IsPath(g, mem, parts, k)}
  <1>1. SUFFICES ASSUME Bad # {} PROVE FALSE
    <2>1. h \in 0 .. h
      OBVIOUS
    <2> QED  BY <2>1
  <1>2. PICK k \in Bad : \A j \in Bad : k <= j
    <2>1. Bad \subseteq Nat
      OBVIOUS
    <2> QED  BY <1>1, <2>1, LeastExists
  <1>3. CASE k = 0
    <2> DEFINE g == [n \in 0 .. 0 |-> find_item_in_directory(Walk(mem), fs_private.list, parts[1])]
    <2>1. \A n \in 0 .. 0 : n = 0
      OBVIOUS
    <2>2. g = [n \in 0 .. 0 |-> IF n = 0 THEN find_item_in_directory(Walk(mem), fs_private.list, parts[1]) ELSE NextPart(g[n - 1], parts[n + 1])]
      BY <2>1
    <2> QED  BY <1>2, <1>3, <2>2 DEF IsPath
  <1>4. CASE k # 0
    <2>1. k - 1 \in 0 .. h /\ k - 1 \notin Bad /\ k \in 1 .. h
      BY <1>2, <1>4
    <2>2. PICK f : IsPath(f, mem, parts, k - 1)
      BY <2>1
    <2> DEFINE g == [n \in 0 .. k |-> IF n = k THEN NextPart(f[k - 1], parts[k + 1]) ELSE f[n]]
    <2>3. ASSUME NEW n \in 0 .. k
          PROVE  g[n] = IF n = 0 THEN find_item_in_directory(Walk(mem), fs_private.list, parts[1]) ELSE NextPart(g[n - 1], parts[n + 1])
      <3>1. CASE n = k
        <4>1. n # 0 /\ n - 1 \in 0 .. k /\ n - 1 # k
          BY <2>1, <3>1
        <4> QED  BY <3>1, <4>1
      <3>2. CASE n # k
        <4>1. n \in 0 .. (k - 1) /\ (n # 0 => n - 1 \in 0 .. k /\ n - 1 # k)
          BY <2>1, <3>2
        <4>2. f[n] = IF n = 0 THEN find_item_in_directory(Walk(mem), fs_private.list, parts[1]) ELSE NextPart(f[n - 1], parts[n + 1])
          BY <2>2, <4>1 DEF IsPath
        <4> QED  BY <3>2, <4>1, <4>2
      <3> QED  BY <3>1, <3>2
    <2>4. g = [n \in 0 .. k |-> IF n = 0 THEN find_item_in_directory(Walk(mem), fs_private.list, parts[1]) ELSE NextPart(g[n - 1], parts[n + 1])]
      <3> HIDE DEF g
      <3>1. g = [n \in 0 .. k |-> g[n]]
        BY DEF g
      <3> QED  BY <2>3, <3>1
    <2> QED  BY <1>2, <2>4 DEF IsPath
  <1> QED  BY <1>3, <1>4

\* What is on the disk behind a cluster, and in a chain, are slots of the partition.
LEMMA DiskSlots ==
    ASSUME image \in Partitions, NEW cluster \in Cluster
    PROVE  OnDisk(cluster) \in Seq(Entries)
PROOF
  <1> DEFINE h == LastCluster - cluster + 1
             g == CHOOSE f : f = [n \in 0 .. h |->
                      IF n = 0 THEN << >> ELSE f[n - 1] \o image.slots[cluster + n - 1]]
             Bad == {n \in 0 .. h : g[n] \notin Seq(Entries)}
  <1>1. h \in Nat /\ h \in 0 .. h
    BY DirectoryFacts DEF Cluster
  <1>2. OnDisk(cluster) = g[h]
    BY Zenon DEF OnDisk
  <1>3. ASSUME NEW n \in 1 .. h PROVE image.slots[cluster + n - 1] \in Seq(Entries)
    <2>1. cluster + n - 1 \in Cluster
      BY DirectoryFacts DEF Cluster
    <2> QED  BY <2>1, DirectoryFacts
  <1> HIDE DEF h
  <1>4. IsDisk(g, cluster, h)
    <2>1. PICK f : IsDisk(f, cluster, h)
      BY <1>1, DiskExists
    <2> QED  BY <2>1, Zenon DEF IsDisk
  <1> HIDE DEF g
  <1>5. g[0] = << >> /\ \A n \in 1 .. h : g[n] = g[n - 1] \o image.slots[cluster + n - 1]
    <2>1. 0 \in 0 .. h /\ \A n \in 1 .. h : n \in 0 .. h /\ n # 0
      BY <1>1
    <2>2. \A n \in 0 .. h : g[n] = IF n = 0 THEN << >> ELSE g[n - 1] \o image.slots[cluster + n - 1]
      BY <1>4, Zenon DEF IsDisk
    <2> QED  BY <2>1, <2>2, Zenon
  <1>6. Bad = {}
    <2>1. SUFFICES ASSUME Bad # {} PROVE FALSE
      OBVIOUS
    <2>2. PICK n \in Bad : \A m \in Bad : n <= m
      <3>1. Bad \subseteq Nat
        BY <1>1
      <3> QED  BY <2>1, <3>1, LeastExists
    <2>3. n # 0
      <3>1. << >> \in Seq(Entries)
        OBVIOUS
      <3> QED  BY <1>5, <2>2, <3>1, Zenon
    <2>4. n \in 1 .. h /\ n - 1 \in 0 .. h /\ n - 1 \notin Bad
      BY <1>1, <2>2, <2>3
    <2>5. g[n - 1] \in Seq(Entries)
      BY <2>4
    <2>6. g[n - 1] \o image.slots[cluster + n - 1] \in Seq(Entries)
      BY <1>3, <2>4, <2>5, ConcatProperties, Zenon
    <2>7. g[n] \in Seq(Entries)
      BY <1>5, <2>4, <2>6
    <2> QED  BY <2>2, <2>7
  <1> QED  BY <1>1, <1>2, <1>6

\* The same of a chain.
LEMMA ChainSlots ==
    ASSUME image \in Partitions, NEW cluster \in Cluster
    PROVE  OnChain(cluster) \in Seq(Entries)
PROOF
  <1> DEFINE h == LastCluster
             C == Cluster \cup {EndOfChain}
             g == CHOOSE f : f = [n \in 0 .. h |->
                      IF n = 0 THEN [c \in C |-> << >>] ELSE Followed(f[n - 1])]
             Claim(n) == \A c \in C : g[n][c] \in Seq(Entries)
             Bad == {n \in 0 .. h : ~Claim(n)}
  <1>1. h \in Nat /\ h \in 0 .. h
    BY DirectoryFacts
  <1>2. OnChain(cluster) = g[h][cluster]
    BY Zenon DEF OnChain
  <1> HIDE DEF h
  <1>3. IsChain(g, h)
    <2>1. PICK f : IsChain(f, h)
      BY <1>1, ChainExists
    <2> QED  BY <2>1, Zenon DEF IsChain
  <1> HIDE DEF g
  <1>4. g[0] = [c \in C |-> << >>] /\ \A n \in 1 .. h : g[n] = Followed(g[n - 1])
    BY <1>1, <1>3 DEF IsChain
  <1>5. Bad = {}
    <2>1. SUFFICES ASSUME Bad # {} PROVE FALSE
      OBVIOUS
    <2>2. PICK n \in Bad : \A m \in Bad : n <= m
      <3>1. Bad \subseteq Nat
        BY <1>1
      <3> QED  BY <2>1, <3>1, LeastExists
    <2>3. n # 0
      <3>1. << >> \in Seq(Entries)
        OBVIOUS
      <3>2. Claim(0)
        BY <1>4, <3>1, Zenon
      <3> QED  BY <2>2, <3>2, Zenon
    <2>4. n \in 1 .. h /\ n - 1 \in 0 .. h /\ n - 1 \notin Bad
      BY <1>1, <2>2, <2>3
    <2>5. \A c \in C : g[n - 1][c] \in Seq(Entries)
      BY <2>4
    <2>6. ASSUME NEW c \in C PROVE g[n][c] \in Seq(Entries)
      <3>1. g[n] = Followed(g[n - 1])
        BY <1>4, <2>4
      <3>2. CASE c = EndOfChain
        BY <3>1, <3>2 DEF Followed
      <3>3. CASE c # EndOfChain
        <4>1. c \in Cluster /\ image.slots[c] \in Seq(Entries) /\ image.next[c] \in C
          BY <3>3, DirectoryFacts
        <4>2. image.slots[c] \o g[n - 1][image.next[c]] \in Seq(Entries)
          BY <2>5, <4>1, ConcatProperties, Zenon
        <4> QED  BY <3>1, <3>3, <4>2 DEF Followed
      <3> QED  BY <3>2, <3>3
    <2> QED  BY <2>2, <2>6
  <1> QED  BY <1>1, <1>2, <1>5

\* A count is that of some of the slots up to the first zero.
LEMMA CountOfItems ==
    ASSUME NEW S, NEW slots \in Seq(S), Ends(slots)
    PROVE  total_items(slots) \in Nat /\ total_items(slots) <= Len(slots)
PROOF
  <1> DEFINE Zeros == {i \in DOMAIN slots : IsZero(slots[i])}
  <1>1. DOMAIN slots = 1 .. Len(slots) /\ Len(slots) \in Nat
    OBVIOUS
  <1>2. PICK z \in Zeros : \A t \in Zeros : z <= t
    <2>1. Zeros \subseteq Nat /\ Zeros # {}
      BY <1>1 DEF Ends
    <2> QED  BY <2>1, LeastExists
  <1>3. FirstZero(slots) \in DOMAIN slots
    <2>1. \E i \in DOMAIN slots : IsZero(slots[i]) /\ \A j \in 1 .. (i - 1) : ~IsZero(slots[j])
      <3>1. ASSUME NEW j \in 1 .. (z - 1), IsZero(slots[j]) PROVE FALSE
        <4>1. j \in Zeros /\ j < z
          BY <1>1, <1>2, <3>1
        <4> QED  BY <1>1, <1>2, <4>1
      <3> QED  BY <1>2, <3>1
    <2> QED  BY <2>1, Zenon DEF FirstZero
  <1> DEFINE n == FirstZero(slots) - 1
             Live == {i \in 1 .. n : slots[i].kind # "deleted"}
  <1>4. n \in Nat /\ n <= Len(slots)
    BY <1>1, <1>3
  <1> HIDE DEF n
  <1>5. IsFiniteSet(1 .. n) /\ Cardinality(1 .. n) = n
    BY <1>4, FS_Interval
  <1>6. /\ IsFiniteSet(Live) /\ Cardinality(Live) \in Nat
        /\ Cardinality(Live) <= Cardinality(1 .. n)
    BY <1>5, FS_Subset, FS_CardinalityType
  <1>7. total_items(slots) = Cardinality(Live)
    BY DEF total_items, n
  <1> HIDE DEF Live
  <1> QED  BY <1>4, <1>5, <1>6, <1>7

----------------------------------------------------------------------------
\* Objects.

\* What a close gives back, what there is at all, and where the former is.
HeldKinds == {"descriptor", "file", "directory", "entries"}
Kinds == HeldKinds \cup {"free", "private", "stream", "root", "item"}
Memory == [Object -> Kinds]
Held(mem) == {o \in Object : mem[o] \in HeldKinds}

\* One address that was free is of a kind now.
Allots(mem, new, at, kind) ==
    /\ new \in Memory /\ at \in Room(mem) /\ new[at] = kind
    /\ \A o \in Object : o # at => new[o] = mem[o]

LEMMA KindsChange ==
    ASSUME NEW mem \in Memory, NEW kind \in Kinds
    PROVE  kzalloc(mem, kind) \in Memory /\ \A o \in Object : kzalloc(mem, kind)[o] \in {mem[o], kind}
PROOF
  BY DEF kzalloc, Memory

LEMMA RoomAllots ==
    ASSUME NEW mem \in Memory, Room(mem) # {}, NEW kind \in Kinds
    PROVE  Allots(mem, kzalloc(mem, kind), Lowest(mem), kind)
PROOF
  <1>1. Room(mem) \subseteq Object /\ Object \subseteq Nat
    BY DirectoryAssumption DEF Room
  <1>2. \E o \in Room(mem) : \A p \in Room(mem) : o <= p
    BY <1>1, LeastExists
  <1>3. Lowest(mem) \in Room(mem)
    BY <1>2, Zenon DEF Lowest
  <1> QED  BY <1>1, <1>3, KindsChange DEF Allots, kzalloc, Memory

LEMMA RoomTaken ==
    ASSUME NEW mem \in Memory, NEW new, NEW at, NEW kind \in Kinds \ {"free"}, Allots(mem, new, at, kind)
    PROVE  /\ Room(new) = Room(mem) \ {at} /\ at \in Object /\ at \notin Held(mem)
           /\ Held(new) = IF kind \in HeldKinds THEN Held(mem) \cup {at} ELSE Held(mem)
PROOF
  <1>1. at \in Object /\ mem[at] = "free" /\ "free" \notin HeldKinds
    BY DEF Allots, Room, HeldKinds
  <1> QED  BY <1>1 DEF Allots, Room, Held

----------------------------------------------------------------------------
\* Walks.

\* What a walk may have come to.
Items ==
    {Null} \cup [kind : {"file"}, entry : Entries, objects : SUBSET Object]
        \cup [kind : {"directory"}, entry : Entries, objects : SUBSET Object, list : Seq(Entries)]

IsWalk(w) ==
    w \in [heap : Memory, item : Items, end : {"running", "hung", "wild", "panic"}, twice : BOOLEAN, full : BOOLEAN]

\* Of what is held, the walk has what its item has, and the rest is base; a walk
\* that lost its item without memory finds none again.
Takes(w, base) ==
    /\ w.item # Null => w.item.objects \cap base = {} /\ Held(w.heap) = base \cup w.item.objects
    /\ w.item = Null => Held(w.heap) = base \/ Room(w.heap) = {}

\* A later walk, and what it may have taken.
Follows(w, v, base) ==
    /\ IsWalk(v)
    /\ w.twice => v.twice
    /\ v.end = "running" => w.end = "running"
    /\ v.end = "running" /\ ~v.twice /\ Takes(w, base) => Takes(v, base)

LEMMA ItemKinds ==
    ASSUME NEW item \in Items
    PROVE  (item.kind # "null") = (item # Null)
PROOF
  BY DEF Items, Null

\* What a directory takes on its own: a walk as before, or one with an item of two
\* objects that were free.
LEMMA DirectoryLoaded ==
    ASSUME image \in Partitions, NEW w, IsWalk(w), NEW e \in Entries, e.first \in Cluster
    PROVE  LET v == load_fat_directory(w, e)
           IN  /\ IsWalk(v) /\ v.twice = w.twice
               /\ v.end = "running" =>
                      /\ v.item # Null /\ v.item.objects \cap Held(w.heap) = {}
                      /\ Held(v.heap) = Held(w.heap) \cup v.item.objects
PROOF
  <1> DEFINE counted == OnDisk(e.first)
             chain == OnChain(e.first)
             at == Lowest(w.heap)
             allocated == kzalloc(w.heap, "directory")
             next == Lowest(allocated)
             filled == kzalloc(allocated, "entries")
             list == SubSeq(chain, 1, total_items(counted))
             item == [kind |-> "directory", entry |-> e, objects |-> {at, next}, list |-> list]
             v == load_fat_directory(w, e)
  <1>1. counted \in Seq(Entries) /\ chain \in Seq(Entries)
    BY DiskSlots, ChainSlots
  <1>2. w.heap \in Memory /\ "directory" \in Kinds \ {"free"} /\ "entries" \in Kinds \ {"free"}
        /\ "directory" \in HeldKinds /\ "entries" \in HeldKinds
    BY DEF IsWalk, Kinds, HeldKinds
  <1>3. CASE ~Ends(counted)
    <2>1. v = [w EXCEPT !.end = "hung"]
      BY <1>3 DEF load_fat_directory
    <2>2. IsWalk(v) /\ v.twice = w.twice /\ v.end # "running"
      BY <2>1 DEF IsWalk
    <2> QED  BY <2>2
  <1>4. CASE Ends(counted) /\ Cardinality(Room(w.heap)) < 2
    <2>1. v = [w EXCEPT !.end = "wild", !.full = TRUE]
      BY <1>4 DEF load_fat_directory
    <2>2. IsWalk(v) /\ v.twice = w.twice /\ v.end # "running"
      BY <2>1 DEF IsWalk
    <2> QED  BY <2>2
  <1>5. CASE Ends(counted) /\ ~(Cardinality(Room(w.heap)) < 2) /\ total_items(counted) > Len(chain)
    <2>1. v = [w EXCEPT !.end = "panic"]
      BY <1>5 DEF load_fat_directory
    <2>2. IsWalk(v) /\ v.twice = w.twice /\ v.end # "running"
      BY <2>1 DEF IsWalk
    <2> QED  BY <2>2
  <1>6. CASE Ends(counted) /\ ~(Cardinality(Room(w.heap)) < 2) /\ ~(total_items(counted) > Len(chain))
    <2>1. v = [w EXCEPT !.heap = filled, !.item = item]
      BY <1>6, Zenon DEF load_fat_directory
    <2>2. total_items(counted) \in Nat /\ total_items(counted) <= Len(chain)
      BY <1>1, <1>6, CountOfItems
    <2>3. list \in Seq(Entries)
      <3>1. \A i \in 1 .. total_items(counted) : chain[i] \in Entries
        BY <1>1, <2>2
      <3> QED  BY <2>2, <3>1, SubSeqProperties
    <2>4. IsFiniteSet(Room(w.heap)) /\ Room(w.heap) # {}
      <3>1. Room(w.heap) \in SUBSET Object
        BY DEF Room
      <3>2. IsFiniteSet(Room(w.heap))
        BY <3>1, DirectoryAssumption, FS_Subset
      <3> QED  BY <1>6, <3>2, FS_EmptySet
    <2>5. Allots(w.heap, allocated, at, "directory")
      BY <1>2, <2>4, RoomAllots
    <2>6. allocated \in Memory
      BY <2>5 DEF Allots
    <2> HIDE DEF counted, chain, at, allocated
    <2>7. /\ Room(allocated) = Room(w.heap) \ {at} /\ at \in Object /\ at \notin Held(w.heap)
          /\ Held(allocated) = Held(w.heap) \cup {at}
      BY <1>2, <2>5, RoomTaken
    <2>8. Room(allocated) # {}
      <3>1. at \in Room(w.heap)
        BY <2>5 DEF Allots
      <3>2. Cardinality(Room(w.heap) \ {at}) = Cardinality(Room(w.heap)) - 1
        BY <2>4, <3>1, FS_RemoveElement
      <3>3. Cardinality(Room(w.heap)) \in Nat
        BY <2>4, FS_CardinalityType
      <3>4. Cardinality(Room(w.heap) \ {at}) # 0
        BY <1>6, <3>2, <3>3
      <3> QED  BY <2>7, <3>4, FS_EmptySet
    <2>9. Allots(allocated, filled, next, "entries")
      BY <1>2, <2>6, <2>8, RoomAllots
    <2> HIDE DEF next, filled
    <2>10. /\ next \in Object /\ next \notin Held(allocated) /\ filled \in Memory
           /\ Held(filled) = Held(allocated) \cup {next}
      <3>1. filled \in Memory
        BY <2>9 DEF Allots
      <3> QED  BY <1>2, <2>6, <2>9, <3>1, RoomTaken
    <2> HIDE DEF list
    <2>11. item \in Items /\ item # Null /\ item.objects = {at, next}
      BY <2>3, <2>7, <2>10 DEF Items, Null
    <2> HIDE DEF item
    <2>12. /\ IsWalk(v) /\ v.twice = w.twice /\ v.item = item /\ v.heap = filled
      BY <2>1, <2>10, <2>11 DEF IsWalk
    <2> QED  BY <2>7, <2>10, <2>11, <2>12
  <1> QED  BY <1>3, <1>4, <1>5, <1>6

LEMMA ItemFound ==
    ASSUME image \in Partitions, NEW w, IsWalk(w), w.end = "running", NEW e \in Entries,
           IsSubdirectory(e) => e.first \in Cluster, NEW base
    PROVE  Follows(w, new_fat_item(w, e), base)
PROOF
  <1> DEFINE at == Lowest(w.heap)
             mem == kzalloc(w.heap, "item")
             taken == [w EXCEPT !.heap = mem, !.twice = @ \/ w.item.kind # "null"]
             v == new_fat_item(w, e)
  <1>1. w.heap \in Memory /\ w.item \in Items /\ w.twice \in BOOLEAN
    BY DEF IsWalk
  <1>2. CASE Room(w.heap) = {}
    <2>1. v = [w EXCEPT !.item = Null, !.full = TRUE]
      BY <1>2 DEF new_fat_item
    <2>2. IsWalk(v) /\ v.item = Null /\ v.heap = w.heap /\ v.twice = w.twice
      BY <2>1 DEF IsWalk, Items
    <2> QED  BY <1>2, <2>2, Zenon DEF Follows, Takes
  <1>3. CASE Room(w.heap) # {}
    <2>1. "item" \in Kinds \ {"free"} /\ "item" \notin HeldKinds
          /\ "file" \in Kinds \ {"free"} /\ "file" \in HeldKinds
      BY DEF Kinds, HeldKinds
    <2>2. Allots(w.heap, mem, at, "item")
      BY <1>1, <1>3, <2>1, RoomAllots
    <2>3. mem \in Memory /\ Held(mem) = Held(w.heap)
      <3>1. mem \in Memory
        BY <2>2 DEF Allots
      <3> QED  BY <1>1, <2>1, <2>2, <3>1, RoomTaken
    <2> DEFINE twice == w.twice \/ w.item.kind # "null"
    <2>4. twice \in BOOLEAN /\ twice = (w.twice \/ w.item # Null)
      BY <1>1, ItemKinds
    <2> HIDE DEF twice, mem
    <2>5. /\ IsWalk(taken) /\ taken.heap = mem /\ taken.end = w.end /\ taken.item = w.item
          /\ taken.twice = (w.twice \/ w.item # Null)
      <3>1. taken = [w EXCEPT !.heap = mem, !.twice = twice]
        BY DEF twice, IsWalk
      <3> HIDE DEF taken
      <3> QED  BY <2>3, <2>4, <3>1 DEF IsWalk
    <2> HIDE DEF taken
    <2>6. /\ IsWalk(v) /\ v.twice = taken.twice
          /\ v.end = "running" =>
                 /\ v.item # Null /\ v.item.objects \cap Held(mem) = {}
                 /\ Held(v.heap) = Held(mem) \cup v.item.objects
      <3>1. CASE IsSubdirectory(e)
        <4>1. v = load_fat_directory(taken, e)
          BY <1>3, <3>1, Zenon DEF new_fat_item, taken, mem
        <4> HIDE DEF v
        <4> QED  BY <2>5, <3>1, <4>1, DirectoryLoaded, Zenon
      <3>2. CASE ~IsSubdirectory(e)
        <4>1. v = clone_directory_item(taken, e)
          BY <1>3, <3>2, Zenon DEF new_fat_item, taken, mem
        <4> HIDE DEF v
        <4>2. CASE Room(mem) = {}
          <5>1. v = [taken EXCEPT !.end = "wild", !.full = TRUE]
            BY <2>5, <4>1, <4>2 DEF clone_directory_item
          <5>2. IsWalk(v) /\ v.twice = taken.twice /\ v.end # "running"
            BY <2>5, <5>1 DEF IsWalk
          <5> QED  BY <5>2
        <4>3. CASE Room(mem) # {}
          <5> DEFINE o == Lowest(mem)
                     new == kzalloc(mem, "file")
                     item == [kind |-> "file", entry |-> e, objects |-> {o}]
          <5>1. v = [taken EXCEPT !.heap = new, !.item = item]
            BY <2>5, <4>1, <4>3 DEF clone_directory_item
          <5>2. Allots(mem, new, o, "file")
            BY <2>1, <2>3, <4>3, RoomAllots
          <5> HIDE DEF new, o
          <5>3. new \in Memory
            BY <5>2 DEF Allots
          <5>4. o \in Object /\ o \notin Held(mem) /\ Held(new) = Held(mem) \cup {o}
            BY <2>1, <2>3, <5>2, RoomTaken
          <5>5. item \in Items /\ item # Null /\ item.objects = {o}
            BY <5>4 DEF Items, Null
          <5> HIDE DEF item
          <5>6. IsWalk(v) /\ v.twice = taken.twice /\ v.heap = new /\ v.item = item
            BY <2>5, <5>1, <5>3, <5>5 DEF IsWalk
          <5> QED  BY <5>4, <5>5, <5>6
        <4> QED  BY <4>2, <4>3
      <3> QED  BY <3>1, <3>2
    <2> HIDE DEF v
    <2>7. ASSUME v.end = "running", ~v.twice, Takes(w, base) PROVE Takes(v, base)
      <3>1. w.item = Null
        BY <2>5, <2>6, <2>7
      <3>2. Held(w.heap) = base
        BY <1>3, <2>7, <3>1 DEF Takes
      <3> QED  BY <2>3, <2>6, <2>7, <3>2 DEF Takes
    <2>8. w.twice => v.twice
      BY <2>5, <2>6
    <2>9. IsWalk(v)
      BY <2>6
    <2> QED  BY <2>7, <2>8, <2>9, Zenon DEF Follows, v
  <1> QED  BY <1>2, <1>3

\* Only what is found below a directory is looked at: every subdirectory of that name
\* has a cluster.
Reachable(name) == \A e \in Entries : IsSubdirectory(e) /\ Matches(e, name) => e.first \in Cluster

LEMMA FollowsOn ==
    ASSUME NEW u, NEW v, NEW w, NEW base, Follows(u, v, base), Follows(v, w, base),
           v.end # "running" => w = v
    PROVE  Follows(u, w, base)
PROOF
  BY DEF Follows

LEMMA ListSearched ==
    ASSUME image \in Partitions, NEW w, IsWalk(w), NEW list \in Seq(Entries), NEW name, Reachable(name),
           NEW base
    PROVE  Follows([w EXCEPT !.item = Null], find_item_in_directory(w, list, name), base)
PROOF
  <1> DEFINE h == Len(list)
             u == [w EXCEPT !.item = Null]
             g == CHOOSE f : f = [n \in 0 .. h |->
                      IF n = 0 THEN u ELSE Looked(f[n - 1], list[n], name)]
             Claim(n) == Follows(u, g[n], base)
             Bad == {n \in 0 .. h : ~Claim(n)}
  <1>1. h \in Nat /\ h \in 0 .. h /\ \A n \in 1 .. h : list[n] \in Entries
    OBVIOUS
  <1>2. find_item_in_directory(w, list, name) = g[h]
    BY Zenon DEF find_item_in_directory, Search
  <1> HIDE DEF h
  <1>3. IsSearch(g, w, list, name, h)
    <2>1. PICK f : IsSearch(f, w, list, name, h)
      BY <1>1, SearchExists
    <2> QED  BY <2>1, Zenon DEF IsSearch
  <1> HIDE DEF g
  <1>4. IsWalk(u) /\ Follows(u, u, base)
    <2>1. IsWalk(u)
      BY DEF IsWalk, Items
    <2> QED  BY <2>1, Zenon DEF Follows
  <1>5. g[0] = u /\ \A n \in 1 .. h : g[n] = Looked(g[n - 1], list[n], name)
    <2>1. 0 \in 0 .. h /\ \A n \in 1 .. h : n \in 0 .. h /\ n # 0
      BY <1>1
    <2>2. \A n \in 0 .. h : g[n] = IF n = 0 THEN u ELSE Looked(g[n - 1], list[n], name)
      BY <1>3, Zenon DEF IsSearch
    <2> QED  BY <2>1, <2>2, Zenon
  <1> HIDE DEF u
  <1>6. Bad = {}
    <2>1. SUFFICES ASSUME Bad # {} PROVE FALSE
      OBVIOUS
    <2>2. PICK n \in Bad : \A m \in Bad : n <= m
      <3>1. Bad \subseteq Nat
        BY <1>1
      <3> QED  BY <2>1, <3>1, LeastExists
    <2>3. n # 0
      BY <1>4, <1>5, <2>2
    <2>4. n \in 1 .. h /\ n - 1 \in 0 .. h /\ n - 1 \notin Bad
      BY <1>1, <2>2, <2>3
    <2>5. Follows(u, g[n - 1], base)
      BY <2>4
    <2> DEFINE c == g[n - 1]
               e == list[n]
    <2>6. g[n] = Looked(c, e, name) /\ e \in Entries
      BY <1>1, <1>5, <2>4
    <2> HIDE DEF c, e
    <2>7. IsWalk(c)
      BY <2>5 DEF Follows, c
    <2>8. CASE c.end = "running" /\ Matches(e, name)
      <3>1. g[n] = new_fat_item(c, e)
        BY <2>6, <2>8 DEF Looked
      <3>2. IsSubdirectory(e) => e.first \in Cluster
        BY <2>6, <2>8 DEF Reachable
      <3>3. Follows(c, g[n], base)
        BY <2>6, <2>7, <2>8, <3>1, <3>2, ItemFound
      <3>4. Follows(u, g[n], base)
        BY <2>5, <2>8, <3>3, FollowsOn DEF c
      <3> QED  BY <2>2, <3>4
    <2>9. CASE ~(c.end = "running" /\ Matches(e, name))
      <3>1. g[n] = c
        BY <2>6, <2>9 DEF Looked
      <3> QED  BY <2>2, <2>5, <3>1 DEF c
    <2> QED  BY <2>8, <2>9
  <1> QED  BY <1>1, <1>2, <1>6 DEF u

\* On the way a walk may lose what it has, when it comes to a file: then it finds nothing.
Carries(w, base) ==
    w.item # Null => w.item.objects \cap base = {} /\ Held(w.heap) = base \cup w.item.objects

\* The same of a walk by one more part.
Advances(w, v, base) ==
    /\ IsWalk(v)
    /\ w.twice => v.twice
    /\ v.end = "running" => w.end = "running"
    /\ v.end = "running" /\ ~v.twice /\ Carries(w, base) => Carries(v, base)

LEMMA ObjectsFreed ==
    ASSUME NEW mem \in Memory, NEW S \in SUBSET Object
    PROVE  kfree(mem, S) \in Memory /\ Held(kfree(mem, S)) = Held(mem) \ S
PROOF
  BY DEF kfree, Memory, Held, Kinds, HeldKinds

LEMMA PartFollowed ==
    ASSUME image \in Partitions, NEW w, IsWalk(w), NEW part, Reachable(part), NEW base
    PROVE  Advances(w, NextPart(w, part), base)
PROOF
  <1> DEFINE v == NextPart(w, part)
             u == [w EXCEPT !.item = Null]
  <1>1. /\ IsWalk(u) /\ u.heap = w.heap /\ u.twice = w.twice /\ u.end = w.end /\ u.item = Null
        /\ w.twice \in BOOLEAN
    BY DEF IsWalk, Items
  <1>2. CASE w.item.kind # "directory"
    <2>1. v = u
      BY <1>2 DEF NextPart
    <2> HIDE DEF u, v
    <2>2. Advances(w, v, base)
      BY <1>1, <2>1 DEF Advances, Carries
    <2> QED  BY <2>2 DEF v
  <1>3. CASE w.item.kind = "directory"
    <2> DEFINE own == w.item.objects
               found == find_item_in_directory(w, w.item.list, part)
               freed == kfree(found.heap, own)
    <2>1. /\ own \in SUBSET Object /\ w.item.list \in Seq(Entries) /\ w.item # Null
      BY <1>3 DEF IsWalk, Items, Null
    <2>2. Follows(u, found, base \cup own)
      BY <2>1, ListSearched, Zenon
    <2>3. v = IF found.end = "running" THEN [found EXCEPT !.heap = kfree(@, own)] ELSE found
      BY <1>3 DEF NextPart, free_fat_item
    <2> HIDE DEF found, u
    <2>4. IsWalk(found) /\ found.heap \in Memory
      BY <2>2 DEF Follows, IsWalk
    <2>5. freed \in Memory /\ Held(freed) = Held(found.heap) \ own
      BY <2>1, <2>4, ObjectsFreed, Zenon
    <2> HIDE DEF freed
    <2>6. /\ IsWalk(v) /\ v.twice = found.twice /\ v.end = found.end
          /\ v.end = "running" => v.item = found.item /\ v.heap = freed
      <3>1. CASE found.end = "running"
        <4>1. v = [found EXCEPT !.heap = freed]
          BY <2>3, <2>4, <3>1 DEF freed, IsWalk
        <4> QED  BY <2>4, <2>5, <4>1 DEF IsWalk
      <3>2. CASE found.end # "running"
        BY <2>3, <2>4, <3>2
      <3> QED  BY <3>1, <3>2
    <2> HIDE DEF v
    <2>7. ASSUME v.end = "running", ~v.twice, Carries(w, base) PROVE Carries(v, base)
      <3>1. own \cap base = {} /\ Held(w.heap) = base \cup own
        BY <2>1, <2>7 DEF Carries
      <3>2. Takes(u, base \cup own)
        BY <1>1, <3>1 DEF Takes
      <3>3. Takes(found, base \cup own)
        BY <2>2, <2>6, <2>7, <3>2 DEF Follows
      <3>4. ASSUME found.item # Null
            PROVE  found.item.objects \cap base = {} /\ Held(freed) = base \cup found.item.objects
        <4>1. /\ found.item.objects \cap (base \cup own) = {}
              /\ Held(found.heap) = (base \cup own) \cup found.item.objects
          BY <3>3, <3>4 DEF Takes
        <4> QED  BY <2>5, <3>1, <4>1
      <3> QED  BY <2>6, <2>7, <3>4 DEF Carries
    <2>8. (w.twice => v.twice) /\ (v.end = "running" => w.end = "running")
      BY <1>1, <2>2, <2>6 DEF Follows
    <2>9. Advances(w, v, base)
      BY <2>6, <2>7, <2>8, Zenon DEF Advances
    <2> QED  BY <2>9 DEF v
  <1> QED  BY <1>2, <1>3

\* So an open takes what its item has, and its descriptor.
LEMMA PathWalked ==
    ASSUME image \in Partitions, NEW mem \in Memory, fs_private.list \in Seq(Entries),
           NEW parts \in Requests
    PROVE  LET v == get_directory_entry(mem, parts)
           IN  IsWalk(v) /\ (v.end = "running" /\ ~v.twice => Carries(v, Held(mem)))
PROOF
  <1> DEFINE h == Len(parts) - 1
             base == Held(mem)
             w == Walk(mem)
             u == find_item_in_directory(w, fs_private.list, parts[1])
             g == CHOOSE f : f = [n \in 0 .. h |-> IF n = 0 THEN u ELSE NextPart(f[n - 1], parts[n + 1])]
             Claim(n) == /\ IsWalk(g[n])
                         /\ g[n].end = "running" /\ ~g[n].twice => Carries(g[n], base)
             Bad == {n \in 0 .. h : ~Claim(n)}
  <1>1. Len(parts) \in Nat /\ h \in Nat /\ h \in 0 .. h /\ 1 \in 1 .. Len(parts)
    BY DirectoryAssumption
  <1>2. \A n \in 1 .. Len(parts) : Reachable(parts[n])
    BY DirectoryAssumption DEF Reachable, Entries
  <1>3. get_directory_entry(mem, parts) = g[h]
    BY Zenon DEF get_directory_entry
  <1>4. \A n \in 0 .. h : n + 1 \in 1 .. Len(parts)
    BY <1>1
  <1> HIDE DEF h
  <1>5. IsPath(g, mem, parts, h)
    <2>1. PICK f : IsPath(f, mem, parts, h)
      BY <1>1, PathExists
    <2> QED  BY <2>1, Zenon DEF IsPath
  <1> HIDE DEF g
  <1>6. IsWalk(u) /\ (u.end = "running" /\ ~u.twice => Carries(u, base))
    <2> DEFINE c == [w EXCEPT !.item = Null]
    <2>1. IsWalk(w) /\ c.heap = mem /\ c.item = Null
      <3>1. w = [heap |-> mem, item |-> Null, end |-> "running", twice |-> FALSE, full |-> FALSE]
        BY DEF Walk
      <3>2. Null \in Items
        BY DEF Items
      <3> HIDE DEF w
      <3> QED  BY <3>1, <3>2 DEF IsWalk
    <2>2. Follows(c, u, base)
      BY <1>1, <1>2, <2>1, ListSearched, Zenon
    <2> HIDE DEF u, w
    <2>3. Takes(c, base)
      BY <2>1 DEF Takes
    <2> HIDE DEF c
    <2> QED  BY <2>2, <2>3 DEF Follows, Takes, Carries
  <1>7. g[0] = u /\ \A n \in 1 .. h : g[n] = NextPart(g[n - 1], parts[n + 1])
    <2>1. 0 \in 0 .. h /\ \A n \in 1 .. h : n \in 0 .. h /\ n # 0
      BY <1>1
    <2>2. \A n \in 0 .. h : g[n] = IF n = 0 THEN u ELSE NextPart(g[n - 1], parts[n + 1])
      BY <1>5, Zenon DEF IsPath
    <2> QED  BY <2>1, <2>2, Zenon
  <1> HIDE DEF u, w, base
  <1>8. Bad = {}
    <2>1. SUFFICES ASSUME Bad # {} PROVE FALSE
      OBVIOUS
    <2>2. PICK n \in Bad : \A m \in Bad : n <= m
      <3>1. Bad \subseteq Nat
        BY <1>1
      <3> QED  BY <2>1, <3>1, LeastExists
    <2>3. n # 0
      BY <1>6, <1>7, <2>2
    <2>4. n \in 1 .. h /\ n - 1 \in 0 .. h /\ n - 1 \notin Bad /\ n \in 0 .. h
      BY <1>1, <2>2, <2>3
    <2> DEFINE c == g[n - 1]
               part == parts[n + 1]
    <2>5. IsWalk(c) /\ (c.end = "running" /\ ~c.twice => Carries(c, base))
      BY <2>4
    <2>6. Reachable(part)
      BY <1>2, <1>4, <2>4
    <2>7. g[n] = NextPart(c, part)
      BY <1>7, <2>4
    <2> HIDE DEF c, part
    <2>8. Advances(c, g[n], base)
      BY <2>5, <2>6, <2>7, PartFollowed, Zenon
    <2>9. Claim(n)
      BY <2>5, <2>8 DEF Advances
    <2> QED  BY <2>2, <2>9
  <1>9. Claim(h)
    BY <1>1, <1>8
  <1> QED  BY <1>3, <1>9 DEF base

----------------------------------------------------------------------------
\* The objects of open files.

\* Open files, which of them are open, and what they own.
Descriptors == [kind : {"descriptor"}, at : Object, item : Items \ {Null}, path : Requests]
Open(files) == {d \in Descriptor : files[d] # Null}
OwnedBy(file) == file.item.objects \cup {file.at}

\* What is held is what open files own, each of it once.
Ownership(files, mem) ==
    /\ \A d \in Open(files) : OwnedBy(files[d]) \subseteq Held(mem)
    /\ \A o \in Held(mem) : \E d \in Open(files) : o \in OwnedBy(files[d])
    /\ \A c, d \in Open(files) : c # d => OwnedBy(files[c]) \cap OwnedBy(files[d]) = {}

\* The inductive invariant.
DirectoryInv ==
    /\ image \in Partitions
    /\ heap \in Memory
    /\ opened \in [Descriptor -> {Null} \cup Descriptors]
    /\ shadowed \in BOOLEAN
    /\ status = "unmounted" => Room(heap) = Object /\ \A d \in Descriptor : opened[d] = Null
    /\ status = "refused" => Room(heap) = Object
    /\ status = "running" => fs_private.list \in Seq(Entries)
    /\ status = "running" /\ ~shadowed => Ownership(opened, heap)

LEMMA DirectoryBegins ==
    DirectoryInit => DirectoryInv
PROOF
  BY DEF DirectoryInit, DirectoryInv, Memory, Kinds, Room

LEMMA SamePartition ==
    image' = image => Items' = Items /\ Descriptors' = Descriptors /\ Entries' = Entries
PROOF
  BY DEF Items, Descriptors, Entries

LEMMA ResolveStep ==
    ASSUME DirectoryInv, fat16_resolve
    PROVE  DirectoryInv'
PROOF
  <1> DEFINE list == SubSeq(image.root, 1, total_items(image.root))
             m1 == kzalloc(heap, "private")
             m2 == kzalloc(m1, "stream")
             m3 == kzalloc(m2, "stream")
             m4 == kzalloc(m3, "stream")
             m5 == kzalloc(m4, "root")
  <1>1. /\ status = "unmounted" /\ heap' = m5 /\ image' = image
        /\ fs_private' = [kind |-> "private", list |-> list] /\ status' = "running"
        /\ opened' = opened /\ shadowed' = shadowed
    BY Zenon DEF fat16_resolve, init_private
  <1>2. /\ image \in Partitions /\ heap \in Memory /\ \A o \in Object : heap[o] = "free"
        /\ \A d \in Descriptor : opened[d] = Null
    BY <1>1 DEF DirectoryInv, Room
  <1>3. "private" \in Kinds /\ "stream" \in Kinds /\ "root" \in Kinds
    BY DEF Kinds
  <1>4. m1 \in Memory /\ \A o \in Object : m1[o] \in {"free", "private"}
    BY <1>2, <1>3, KindsChange
  <1> HIDE DEF m1
  <1>5. m2 \in Memory /\ \A o \in Object : m2[o] \in {"free", "private", "stream"}
    <2>1. m2 \in Memory /\ \A o \in Object : m2[o] \in {m1[o], "stream"}
      BY <1>3, <1>4, KindsChange, Zenon
    <2> QED  BY <1>4, <2>1
  <1> HIDE DEF m2
  <1>6. m3 \in Memory /\ \A o \in Object : m3[o] \in {"free", "private", "stream"}
    <2>1. m3 \in Memory /\ \A o \in Object : m3[o] \in {m2[o], "stream"}
      BY <1>3, <1>5, KindsChange, Zenon
    <2> QED  BY <1>5, <2>1
  <1> HIDE DEF m3
  <1>7. m4 \in Memory /\ \A o \in Object : m4[o] \in {"free", "private", "stream"}
    <2>1. m4 \in Memory /\ \A o \in Object : m4[o] \in {m3[o], "stream"}
      BY <1>3, <1>6, KindsChange, Zenon
    <2> QED  BY <1>6, <2>1
  <1> HIDE DEF m4
  <1>8. m5 \in Memory /\ \A o \in Object : m5[o] \in {"free", "private", "stream", "root"}
    <2>1. m5 \in Memory /\ \A o \in Object : m5[o] \in {m4[o], "root"}
      BY <1>3, <1>7, KindsChange, Zenon
    <2> QED  BY <1>7, <2>1
  <1> HIDE DEF m5
  <1>9. list \in Seq(Entries)
    <2>1. image.root \in Seq(Entries) /\ Ends(image.root)
      BY <1>2, DirectoryFacts
    <2>2. total_items(image.root) \in Nat /\ total_items(image.root) <= Len(image.root)
      BY <2>1, CountOfItems
    <2>3. \A i \in 1 .. total_items(image.root) : image.root[i] \in Entries
      BY <2>1, <2>2
    <2> QED  BY <2>2, <2>3, SubSeqProperties
  <1> HIDE DEF list
  <1>10. Ownership(opened, m5)
    <2>1. Held(m5) = {} /\ Open(opened) = {}
      BY <1>2, <1>8 DEF Held, HeldKinds, Open
    <2> QED  BY <2>1, Zenon DEF Ownership
  <1> QED  BY <1>1, <1>8, <1>9, <1>10, SamePartition DEF DirectoryInv

LEMMA RefusesStep ==
    ASSUME DirectoryInv, fat16_resolve_refuses
    PROVE  DirectoryInv'
PROOF
  <1> DEFINE m1 == kzalloc(heap, "private")
             m2 == kzalloc(m1, "stream")
             m3 == kzalloc(m2, "stream")
             m4 == kzalloc(m3, "stream")
  <1>1. /\ status = "unmounted" /\ heap' = free_private(m4) /\ image' = image
        /\ status' = "refused" /\ opened' = opened /\ shadowed' = shadowed
    BY Zenon DEF fat16_resolve_refuses, init_private
  <1>2. heap \in Memory /\ \A o \in Object : heap[o] = "free"
    BY <1>1 DEF DirectoryInv, Room
  <1>3. "private" \in Kinds /\ "stream" \in Kinds
    BY DEF Kinds
  <1>4. m1 \in Memory /\ \A o \in Object : m1[o] \in {"free", "private"}
    BY <1>2, <1>3, KindsChange
  <1> HIDE DEF m1
  <1>5. m2 \in Memory /\ \A o \in Object : m2[o] \in {"free", "private", "stream"}
    <2>1. m2 \in Memory /\ \A o \in Object : m2[o] \in {m1[o], "stream"}
      BY <1>3, <1>4, KindsChange, Zenon
    <2> QED  BY <1>4, <2>1
  <1> HIDE DEF m2
  <1>6. m3 \in Memory /\ \A o \in Object : m3[o] \in {"free", "private", "stream"}
    <2>1. m3 \in Memory /\ \A o \in Object : m3[o] \in {m2[o], "stream"}
      BY <1>3, <1>5, KindsChange, Zenon
    <2> QED  BY <1>5, <2>1
  <1> HIDE DEF m3
  <1>7. m4 \in Memory /\ \A o \in Object : m4[o] \in {"free", "private", "stream"}
    <2>1. m4 \in Memory /\ \A o \in Object : m4[o] \in {m3[o], "stream"}
      BY <1>3, <1>6, KindsChange, Zenon
    <2> QED  BY <1>6, <2>1
  <1> HIDE DEF m4
  <1>8. free_private(m4) \in Memory /\ Room(free_private(m4)) = Object
    BY <1>7 DEF free_private, Memory, Room, Kinds
  <1> QED  BY <1>1, <1>8, SamePartition DEF DirectoryInv

\* A file that is opened brings what was not held, and nobody else has any of it.
LEMMA OneMore ==
    ASSUME NEW files \in [Descriptor -> {Null} \cup Descriptors], NEW mem \in Memory, NEW new \in Memory,
           Ownership(files, mem), NEW d \in Descriptor, files[d] = Null,
           NEW file \in Descriptors,
           OwnedBy(file) \cap Held(mem) = {}, Held(new) = Held(mem) \cup OwnedBy(file)
    PROVE  Ownership([files EXCEPT ![d] = file], new)
PROOF
  <1> DEFINE more == [files EXCEPT ![d] = file]
  <1>1. more[d] = file /\ file # Null /\ \A e \in Descriptor : e # d => more[e] = files[e]
    BY DEF Descriptors, Null
  <1> HIDE DEF more
  <1>2. d \in Open(more) /\ \A e \in Open(more) : e # d => e \in Open(files) /\ more[e] = files[e]
    BY <1>1 DEF Open
  <1>3. \A e \in Open(files) : e \in Open(more) /\ e # d /\ more[e] = files[e]
    BY <1>1 DEF Open
  <1>4. \A e \in Open(more) : OwnedBy(more[e]) \subseteq Held(new)
    BY <1>1, <1>2 DEF Ownership
  <1>5. ASSUME NEW o \in Held(new) PROVE \E e \in Open(more) : o \in OwnedBy(more[e])
    <2>1. CASE o \in OwnedBy(file)
      BY <1>1, <1>2, <2>1
    <2>2. CASE o \in Held(mem)
      BY <1>3, <2>2 DEF Ownership
    <2> QED  BY <1>5, <2>1, <2>2
  <1>6. ASSUME NEW c \in Open(more), NEW e \in Open(more), c # e
        PROVE  OwnedBy(more[c]) \cap OwnedBy(more[e]) = {}
    <2>1. CASE c # d /\ e # d
      BY <1>2, <1>6, <2>1 DEF Ownership
    <2>2. CASE c = d
      <3>1. OwnedBy(more[e]) \subseteq Held(mem)
        BY <1>2, <1>6, <2>2 DEF Ownership
      <3> QED  BY <1>1, <2>2, <3>1
    <2>3. CASE e = d
      <3>1. OwnedBy(more[c]) \subseteq Held(mem)
        BY <1>2, <1>6, <2>3 DEF Ownership
      <3> QED  BY <1>1, <2>3, <3>1
    <2> QED  BY <2>1, <2>2, <2>3
  <1> QED  BY <1>4, <1>5, <1>6, Zenon DEF Ownership, more

\* And one that is closed takes what it has along.
LEMMA OneLess ==
    ASSUME NEW files \in [Descriptor -> {Null} \cup Descriptors], NEW mem \in Memory, NEW new \in Memory,
           Ownership(files, mem), NEW d \in Descriptor, files[d] # Null,
           Held(new) = Held(mem) \ OwnedBy(files[d])
    PROVE  Ownership([files EXCEPT ![d] = Null], new)
PROOF
  <1> DEFINE less == [files EXCEPT ![d] = Null]
  <1>1. less[d] = Null /\ \A e \in Descriptor : e # d => less[e] = files[e]
    OBVIOUS
  <1> HIDE DEF less
  <1>2. d \in Open(files) /\ \A e \in Open(less) : e # d /\ e \in Open(files) /\ less[e] = files[e]
    BY <1>1 DEF Open
  <1>3. \A e \in Open(files) : e # d => e \in Open(less) /\ less[e] = files[e]
    BY <1>1 DEF Open
  <1>4. ASSUME NEW e \in Open(less) PROVE OwnedBy(less[e]) \subseteq Held(new)
    <2>1. OwnedBy(files[e]) \subseteq Held(mem) /\ OwnedBy(files[e]) \cap OwnedBy(files[d]) = {}
      BY <1>2, <1>4 DEF Ownership
    <2> QED  BY <1>2, <1>4, <2>1
  <1>5. ASSUME NEW o \in Held(new) PROVE \E e \in Open(less) : o \in OwnedBy(less[e])
    <2>1. PICK e \in Open(files) : o \in OwnedBy(files[e])
      BY <1>5 DEF Ownership
    <2> QED  BY <1>3, <1>5, <2>1
  <1>6. \A c, e \in Open(less) : c # e => OwnedBy(less[c]) \cap OwnedBy(less[e]) = {}
    BY <1>2 DEF Ownership
  <1> QED  BY <1>4, <1>5, <1>6, Zenon DEF Ownership, less

LEMMA OpenStep ==
    ASSUME DirectoryInv, NEW d \in Descriptor, NEW parts \in Requests, NEW mode, fat16_open(d, parts, mode)
    PROVE  DirectoryInv'
PROOF
  <1> DEFINE at == Lowest(heap)
             mem == kzalloc(heap, "descriptor")
             w == get_directory_entry(mem, parts)
             file == [kind |-> "descriptor", at |-> at, item |-> w.item, path |-> parts]
  <1>1. /\ status = "running" /\ opened[d] = Null /\ image' = image /\ fs_private' = fs_private
        /\ image \in Partitions /\ heap \in Memory /\ shadowed \in BOOLEAN
        /\ opened \in [Descriptor -> {Null} \cup Descriptors] /\ fs_private.list \in Seq(Entries)
    BY DEF fat16_open, DirectoryInv
  <1>2. CASE mode # "FILE_MODE_READ" \/ Room(heap) = {}
    <2>1. status' = "panic" /\ heap' = heap /\ opened' = opened /\ shadowed' = shadowed
      BY <1>2 DEF fat16_open
    <2> QED  BY <1>1, <2>1, SamePartition DEF DirectoryInv
  <1>3. CASE ~(mode # "FILE_MODE_READ" \/ Room(heap) = {})
    <2>1. /\ heap' = w.heap /\ shadowed' = (shadowed \/ w.twice)
          /\ IF w.end = "running" /\ w.item # Null
             THEN opened' = [opened EXCEPT ![d] = file] /\ status' = status
             ELSE status' = (IF w.end = "running" THEN "panic" ELSE w.end) /\ opened' = opened
      BY <1>3, Zenon DEF fat16_open
    <2>2. "descriptor" \in Kinds \ {"free"} /\ "descriptor" \in HeldKinds
      BY DEF Kinds, HeldKinds
    <2>3. Allots(heap, mem, at, "descriptor")
      BY <1>1, <1>3, <2>2, RoomAllots
    <2> HIDE DEF mem, at
    <2>4. mem \in Memory
      BY <2>3 DEF Allots
    <2>5. at \in Object /\ at \notin Held(heap) /\ Held(mem) = Held(heap) \cup {at}
      BY <1>1, <2>2, <2>3, RoomTaken
    <2>6. IsWalk(w) /\ (w.end = "running" /\ ~w.twice => Carries(w, Held(mem)))
      BY <1>1, <2>4, PathWalked, Zenon
    <2> HIDE DEF w
    <2>7. /\ w.heap \in Memory /\ w.item \in Items /\ w.twice \in BOOLEAN
          /\ w.end \in {"running", "hung", "wild", "panic"}
      BY <2>6 DEF IsWalk
    <2>8. CASE w.end = "running" /\ w.item # Null
      <3>1. opened' = [opened EXCEPT ![d] = file] /\ status' = "running"
        BY <1>1, <2>1, <2>8
      <3>2. file \in Descriptors /\ OwnedBy(file) = w.item.objects \cup {at}
        BY <2>5, <2>7, <2>8 DEF Descriptors, OwnedBy
      <3> HIDE DEF file
      <3>3. ASSUME ~shadowed' PROVE Ownership(opened', heap')
        <4>1. ~shadowed /\ ~w.twice /\ Ownership(opened, heap)
          BY <1>1, <2>1, <2>7, <3>3 DEF DirectoryInv
        <4>2. w.item.objects \cap Held(mem) = {} /\ Held(w.heap) = Held(mem) \cup w.item.objects
          BY <2>6, <2>8, <4>1 DEF Carries
        <4>3. OwnedBy(file) \cap Held(heap) = {} /\ Held(w.heap) = Held(heap) \cup OwnedBy(file)
          BY <2>5, <3>2, <4>2
        <4> QED  BY <1>1, <2>1, <2>7, <3>1, <3>2, <4>1, <4>3, OneMore, Zenon
      <3>4. opened' \in [Descriptor -> {Null} \cup Descriptors]
        BY <1>1, <3>1, <3>2
      <3> QED  BY <1>1, <2>1, <2>7, <3>1, <3>3, <3>4, SamePartition DEF DirectoryInv
    <2>9. CASE ~(w.end = "running" /\ w.item # Null)
      <3>1. opened' = opened /\ status' \in {"panic", "hung", "wild"}
        BY <2>1, <2>7, <2>9
      <3> QED  BY <1>1, <2>1, <2>7, <3>1, SamePartition DEF DirectoryInv
    <2> QED  BY <2>8, <2>9
  <1> QED  BY <1>2, <1>3

LEMMA CloseStep ==
    ASSUME DirectoryInv, NEW d \in Descriptor, fat16_close(d)
    PROVE  DirectoryInv'
PROOF
  <1> DEFINE own == free_fat_item(opened[d].item) \cup {opened[d].at}
             freed == kfree(heap, own)
  <1>1. /\ status = "running" /\ status' = status /\ opened[d] # Null /\ image' = image
        /\ fs_private' = fs_private /\ shadowed' = shadowed
        /\ heap' = freed /\ opened' = [opened EXCEPT ![d] = Null]
    BY Zenon DEF fat16_close
  <1>2. /\ image \in Partitions /\ heap \in Memory /\ shadowed \in BOOLEAN
        /\ opened \in [Descriptor -> {Null} \cup Descriptors] /\ fs_private.list \in Seq(Entries)
    BY <1>1 DEF DirectoryInv
  <1>3. own \in SUBSET Object /\ own = OwnedBy(opened[d])
    <2>1. opened[d] \in Descriptors
      BY <1>1, <1>2
    <2>2. opened[d].at \in Object /\ opened[d].item \in Items \ {Null}
      BY <2>1 DEF Descriptors
    <2>3. opened[d].item.objects \in SUBSET Object
      BY <2>2 DEF Items
    <2> QED  BY <2>2, <2>3 DEF OwnedBy, free_fat_item
  <1> HIDE DEF own
  <1>4. freed \in Memory /\ Held(freed) = Held(heap) \ own
    BY <1>2, <1>3, ObjectsFreed, Zenon
  <1> HIDE DEF freed
  <1>5. ~shadowed => Ownership(opened', heap')
    <2>1. ASSUME ~shadowed PROVE Ownership(opened, heap)
      BY <1>1, <2>1 DEF DirectoryInv
    <2> QED  BY <1>1, <1>2, <1>3, <1>4, <2>1, OneLess, Zenon
  <1>6. opened' \in [Descriptor -> {Null} \cup Descriptors]
    BY <1>1, <1>2
  <1> QED  BY <1>1, <1>2, <1>4, <1>5, <1>6, SamePartition DEF DirectoryInv

\* Every step of a partition keeps it.
LEMMA DirectoryStep ==
    DirectoryInv /\ [DirectoryNext]_directory => DirectoryInv'
PROOF
  <1>1. ASSUME DirectoryInv, UNCHANGED directory PROVE DirectoryInv'
    BY <1>1, SamePartition DEF directory, DirectoryInv
  <1>2. ASSUME DirectoryInv, DirectoryNext PROVE DirectoryInv'
    <2>1. CASE fat16_resolve
      BY <1>2, <2>1, ResolveStep
    <2>2. CASE fat16_resolve_refuses
      BY <1>2, <2>2, RefusesStep
    <2>3. CASE \E d \in Descriptor, parts \in Requests, str_mode \in ModeString :
                  /\ file_get_mode_by_string(str_mode) # "FILE_MODE_INVALID"
                  /\ fat16_open(d, parts, file_get_mode_by_string(str_mode))
      BY <1>2, <2>3, OpenStep
    <2>4. CASE \E d \in Descriptor : fat16_close(d)
      BY <1>2, <2>4, CloseStep
    <2>5. CASE DirectoryStopped
      BY <1>1, <1>2, <2>5 DEF DirectoryStopped
    <2> QED  BY <1>2, <2>1, <2>2, <2>3, <2>4, <2>5, Zenon DEF DirectoryNext
  <1> QED  BY <1>1, <1>2

\* Whatever is opened and closed, and however a walk goes on over several parts, the
\* heap holds for files exactly what the open files have, each of one of them
\* (fat16.c:240-263, 448-523, 555-582, 694-716, 856-864).
THEOREM DirectoryObjectsOwned == DirectorySpec => []ObjectsOwned
PROOF
  <1>1. DirectoryInv => ObjectsOwned
    <2> SUFFICES ASSUME DirectoryInv PROVE ObjectsOwned
      OBVIOUS
    <2>1. status = "refused" => Room(heap) = Object
      BY DEF DirectoryInv
    <2>2. ASSUME status = "running", ~shadowed
          PROVE  /\ UNION {OwnedBy(opened[d]) : d \in Open(opened)} = Held(heap)
                 /\ \A c, d \in Open(opened) : c # d => OwnedBy(opened[c]) \cap OwnedBy(opened[d]) = {}
      <3>1. Ownership(opened, heap)
        BY <2>2 DEF DirectoryInv
      <3> QED  BY <3>1 DEF Ownership
    <2> QED  BY <2>1, <2>2, Zenon DEF ObjectsOwned, Open, OwnedBy, Held, HeldKinds
  <1> QED  BY <1>1, DirectoryBegins, DirectoryStep, PTL DEF DirectorySpec
----------------------------------------------------------------------------
\* From the map to the heap.

\* What a map is made of.
Regions == [type : Nat, base : Nat, len : Nat]

\* Of a map up to n: nothing, if nothing is available, or one of the longest regions.
Found(best, map, n) ==
    /\ best.base \in Nat /\ best.len \in Nat
    /\ best.len > 0 => \E i \in 1 .. n : Available(map[i]) /\ best.base = map[i].base /\ best.len = map[i].len
    /\ \A j \in 1 .. n : Available(map[j]) => map[j].len <= best.len

\* It stays one when the next region is looked at.
LEMMA LongerFound ==
    ASSUME NEW map \in Seq(Regions), NEW n \in 1 .. Len(map), NEW best, Found(best, map, n - 1)
    PROVE  Found(Longer(best, map[n]), map, n)
PROOF
  <1>1. map[n] \in Regions /\ n \in Nat /\ n >= 1
    <2>1. Len(map) \in Nat
      BY LenProperties
    <2> QED  BY <2>1, ElementOfSeq
  <1> DEFINE region == map[n]
  <1>2. region.base \in Nat /\ region.len \in Nat
    BY <1>1 DEF Regions
  <1>3. \A j \in 1 .. n : j = n \/ j \in 1 .. (n - 1)
    BY <1>1
  <1>4. \A j \in 1 .. (n - 1) : j \in 1 .. n
    BY <1>1
  <1>5. n \in 1 .. n
    BY <1>1
  <1>6. \A j \in 1 .. n : map[j].len \in Nat
    <2> TAKE j \in 1 .. n
    <2>1. Len(map) \in Nat
      BY LenProperties
    <2>2. map[j] \in Regions
      BY <2>1, ElementOfSeq
    <2> QED  BY <2>2 DEF Regions
  <1>7. CASE Available(region) /\ region.len > best.len
    <2>1. Longer(best, region) = [base |-> region.base, len |-> region.len]
      BY <1>7 DEF Longer
    <2>2. ASSUME NEW j \in 1 .. n, Available(map[j]) PROVE map[j].len <= region.len
      BY <1>2, <1>3, <1>6, <1>7, <2>2 DEF Found
    <2> QED  BY <1>2, <1>5, <1>7, <2>1, <2>2 DEF Found
  <1>8. CASE ~(Available(region) /\ region.len > best.len)
    <2>1. Longer(best, region) = best
      BY <1>8 DEF Longer
    <2>2. ASSUME NEW j \in 1 .. n, Available(map[j]) PROVE map[j].len <= best.len
      BY <1>2, <1>3, <1>8, <2>2 DEF Found
    <2> QED  BY <1>4, <2>1, <2>2 DEF Found
  <1> QED  BY <1>7, <1>8

\* The function of a search is there for every map.
IsLongest(g, map, h) ==
    g = [n \in 0 .. h |-> IF n = 0 THEN None ELSE Longer(g[n - 1], map[n])]

LEMMA LongestExists ==
    ASSUME NEW map, NEW h \in Nat
    PROVE  \E g : IsLongest(g, map, h)
PROOF
  <1> DEFINE Bad == {k \in 0 .. h : ~ \E g : IsLongest(g, map, k)}
  <1>1. SUFFICES ASSUME Bad # {} PROVE FALSE
    <2>1. h \in 0 .. h
      OBVIOUS
    <2> QED  BY <2>1
  <1>2. PICK k \in Bad : \A j \in Bad : k <= j
    <2>1. Bad \subseteq Nat
      OBVIOUS
    <2> QED  BY <1>1, <2>1, LeastExists
  <1>3. CASE k = 0
    <2> DEFINE g == [n \in 0 .. 0 |-> None]
    <2>1. \A n \in 0 .. 0 : n = 0
      OBVIOUS
    <2>2. g = [n \in 0 .. 0 |-> IF n = 0 THEN None ELSE Longer(g[n - 1], map[n])]
      BY <2>1
    <2> QED  BY <1>2, <1>3, <2>2 DEF IsLongest
  <1>4. CASE k # 0
    <2>1. k - 1 \in 0 .. h /\ k - 1 \notin Bad /\ k \in 1 .. h
      BY <1>2, <1>4
    <2>2. PICK f : IsLongest(f, map, k - 1)
      BY <2>1
    <2> DEFINE g == [n \in 0 .. k |-> IF n = k THEN Longer(f[k - 1], map[k]) ELSE f[n]]
    <2>3. ASSUME NEW n \in 0 .. k
          PROVE  g[n] = IF n = 0 THEN None ELSE Longer(g[n - 1], map[n])
      <3>1. CASE n = k
        <4>1. n # 0 /\ n - 1 \in 0 .. k /\ n - 1 # k
          BY <2>1, <3>1
        <4> QED  BY <3>1, <4>1
      <3>2. CASE n # k
        <4>1. n \in 0 .. (k - 1) /\ (n # 0 => n - 1 \in 0 .. k /\ n - 1 # k)
          BY <2>1, <3>2
        <4>2. f[n] = IF n = 0 THEN None ELSE Longer(f[n - 1], map[n])
          BY <2>2, <4>1 DEF IsLongest
        <4> QED  BY <3>2, <4>1, <4>2
      <3> QED  BY <3>1, <3>2
    <2>4. g = [n \in 0 .. k |-> IF n = 0 THEN None ELSE Longer(g[n - 1], map[n])]
      <3> HIDE DEF g
      <3>1. g = [n \in 0 .. k |-> g[n]]
        BY DEF g
      <3> QED  BY <2>3, <3>1
    <2> QED  BY <1>2, <2>4 DEF IsLongest
  <1> QED  BY <1>3, <1>4

\* What is found in a map.
LEMMA LongestFound ==
    ASSUME NEW map \in Seq(Regions)
    PROVE  Found(Longest(map), map, Len(map))
PROOF
  <1> DEFINE h == Len(map)
             g == CHOOSE f : f = [n \in 0 .. h |-> IF n = 0 THEN None ELSE Longer(f[n - 1], map[n])]
             Bad == {n \in 0 .. h : ~Found(g[n], map, n)}
  <1>1. h \in Nat /\ h \in 0 .. h
    BY LenProperties
  <1>2. Longest(map) = g[h]
    BY Zenon DEF Longest
  <1>3. IsLongest(g, map, h)
    <2>1. PICK f : IsLongest(f, map, h)
      BY <1>1, LongestExists
    <2> QED  BY <2>1, Zenon DEF IsLongest
  <1> HIDE DEF g
  <1>4. g[0] = None /\ \A n \in 1 .. h : g[n] = Longer(g[n - 1], map[n])
    <2>1. 0 \in 0 .. h /\ \A n \in 1 .. h : n \in 0 .. h /\ n # 0
      BY <1>1
    <2>2. \A n \in 0 .. h : g[n] = IF n = 0 THEN None ELSE Longer(g[n - 1], map[n])
      BY <1>3, Zenon DEF IsLongest
    <2> QED  BY <2>1, <2>2, Zenon
  <1>5. Bad = {}
    <2>1. SUFFICES ASSUME Bad # {} PROVE FALSE
      OBVIOUS
    <2>2. PICK n \in Bad : \A m \in Bad : n <= m
      <3>1. Bad \subseteq Nat
        BY <1>1
      <3> QED  BY <2>1, <3>1, LeastExists
    <2>3. n # 0
      <3>1. Found(None, map, 0)
        BY DEF Found, None
      <3> QED  BY <1>4, <2>2, <3>1, Zenon
    <2>4. n \in 1 .. h /\ n - 1 \in 0 .. h /\ n - 1 \notin Bad
      BY <1>1, <2>2, <2>3
    <2>5. Found(g[n - 1], map, n - 1)
      BY <2>4
    <2>6. Found(Longer(g[n - 1], map[n]), map, n)
      BY <2>4, <2>5, LongerFound
    <2> QED  BY <1>4, <2>2, <2>4, <2>6
  <1> QED  BY <1>1, <1>2, <1>5

\* The end of a map for GitBoot.
LEMMA FirstEmptyThere ==
    ASSUME NEW map \in Seq(Regions), Empty(map) # {}
    PROVE  FirstEmpty(map) \in 1 .. Len(map) /\ map[FirstEmpty(map)].len = 0
PROOF
  <1>1. Len(map) \in Nat /\ DOMAIN map = 1 .. Len(map)
    BY LenProperties
  <1>2. Empty(map) \subseteq Nat
    BY <1>1 DEF Empty
  <1>3. \E i \in Empty(map) : \A j \in Empty(map) : i <= j
    BY <1>2, LeastExists
  <1>4. FirstEmpty(map) \in Empty(map)
    BY <1>3, Zenon DEF FirstEmpty
  <1> QED  BY <1>1, <1>4 DEF Empty

\* What a loader has found is a region, or nothing.
LEMMA RegionTyped ==
    ASSUME NEW magic, NEW map \in Seq(Regions)
    PROVE  Region(magic, map).base \in Nat /\ Region(magic, map).len \in Nat
PROOF
  <1>1. ASSUME NEW shown \in Seq(Regions)
        PROVE  Longest(shown).base \in Nat /\ Longest(shown).len \in Nat
    BY <1>1, LongestFound DEF Found
  <1>2. Empty(map) # {} => SubSeq(map, 1, FirstEmpty(map) - 1) \in Seq(Regions)
    <2> SUFFICES ASSUME Empty(map) # {} PROVE SubSeq(map, 1, FirstEmpty(map) - 1) \in Seq(Regions)
      OBVIOUS
    <2>1. FirstEmpty(map) \in 1 .. Len(map)
      BY FirstEmptyThere
    <2>2. Len(map) \in Nat /\ \A i \in 1 .. (FirstEmpty(map) - 1) : map[i] \in Regions
      BY <2>1, LenProperties, ElementOfSeq
    <2> QED  BY <2>1, <2>2, SubSeqProperties
  <1> QED  BY <1>1, <1>2 DEF Region, parse_tags, gitboot_init

\* The region that either loader has found, if there is any: none that it reports is
\* longer, and what GitBoot does not report is behind a region of no length.
LEMMA RegionFound ==
    ASSUME NEW magic, NEW map \in Seq(Regions), NEW region, region = Region(magic, map), region.len > 0,
           m_bootloader(magic) # "nullptr"
    PROVE  /\ region.base \in Nat /\ region.len \in Nat
           /\ \E i \in DOMAIN map :
                 /\ Available(map[i]) /\ region.base = map[i].base /\ region.len = map[i].len
                 /\ \A j \in DOMAIN map : Available(map[j]) /\ map[j].len > map[i].len =>
                       magic = "1337" /\ \E k \in 1 .. j : map[k].len = 0
PROOF
  <1>1. Len(map) \in Nat /\ DOMAIN map = 1 .. Len(map)
    BY LenProperties
  <1>2. ASSUME NEW j \in 1 .. Len(map) PROVE map[j].len \in Nat
    <2>1. map[j] \in Regions
      BY <1>1, ElementOfSeq
    <2> QED  BY <2>1 DEF Regions
  <1>3. CASE region = Longest(map)
    <2>1. Found(region, map, Len(map))
      BY <1>3, LongestFound
    <2>2. PICK i \in 1 .. Len(map) :
              Available(map[i]) /\ region.base = map[i].base /\ region.len = map[i].len
      BY <2>1 DEF Found
    <2>3. ASSUME NEW j \in 1 .. Len(map), Available(map[j]), map[j].len > map[i].len PROVE FALSE
      <3>1. map[j].len <= region.len
        BY <2>1, <2>3 DEF Found
      <3> QED  BY <1>2, <2>2, <2>3, <3>1
    <2> QED  BY <1>1, <2>1, <2>2, <2>3 DEF Found
  <1>4. CASE region # Longest(map)
    <2> DEFINE z == FirstEmpty(map)
               shown == SubSeq(map, 1, z - 1)
    <2>1. magic = "1337" /\ Empty(map) # {} /\ region = Longest(shown)
      BY <1>4 DEF Region, m_bootloader, parse_tags, gitboot_init
    <2>2. z \in 1 .. Len(map) /\ map[z].len = 0
      BY <2>1, FirstEmptyThere
    <2> HIDE DEF z
    <2>3. z - 1 \in 0 .. Len(map) /\ \A i \in 1 .. (z - 1) : i \in 1 .. Len(map)
      BY <1>1, <2>2
    <2>4. /\ shown \in Seq(Regions) /\ Len(shown) = z - 1
          /\ \A i \in 1 .. (z - 1) : shown[i] = map[i]
      <3>1. \A i \in 1 .. (z - 1) : map[i] \in Regions
        BY <1>1, <2>3, ElementOfSeq
      <3>2. \A i \in 1 .. (z - 1) : 1 + i - 1 = i
        BY <1>1, <2>2
      <3>3. Len(shown) = z - 1
        BY <1>1, <2>2, <2>3, SubSeqProperties
      <3> QED  BY <1>1, <2>2, <2>3, <3>1, <3>2, <3>3, SubSeqProperties
    <2> HIDE DEF shown
    <2>5. Found(region, shown, z - 1)
      BY <2>1, <2>4, LongestFound
    <2>6. PICK i \in 1 .. (z - 1) :
              Available(map[i]) /\ region.base = map[i].base /\ region.len = map[i].len
      BY <2>4, <2>5 DEF Found
    <2>7. ASSUME NEW j \in 1 .. Len(map), Available(map[j]), map[j].len > map[i].len
          PROVE  \E k \in 1 .. j : map[k].len = 0
      <3>1. CASE j >= z
        BY <1>1, <2>2, <3>1
      <3>2. CASE j < z
        <4>1. j \in 1 .. (z - 1)
          BY <1>1, <2>2, <3>2
        <4>2. map[j].len <= region.len
          BY <2>4, <2>5, <2>7, <4>1 DEF Found
        <4> QED  BY <1>2, <2>3, <2>6, <2>7, <4>2
      <3> QED  BY <1>1, <2>2, <3>1, <3>2
    <2> QED  BY <1>1, <2>1, <2>3, <2>5, <2>6, <2>7 DEF Found
  <1> QED  BY <1>3, <1>4

\* What lies between two multiples is one.
LEMMA Between ==
    ASSUME NEW b \in Nat \ {0}, NEW s \in Nat, NEW z \in Nat, s % b = 0, (s + z) % b = 0
    PROVE  (z \div b) * b = z /\ z \div b \in Nat
PROOF
  <1> DEFINE p == s \div b
             q == (s + z) \div b
  <1>1. p \in Int /\ q \in Int /\ s = b * p /\ s + z = b * q
    <2>1. \A n \in Nat : n \div b \in Int /\ n = b * (n \div b) + (n % b)
      OBVIOUS
    <2>2. s + z \in Nat
      OBVIOUS
    <2> QED  BY <2>1, <2>2
  <1> HIDE DEF p, q
  <1>2. z = b * (q - p) /\ q - p \in Int
    BY <1>1
  <1>3. \A k \in Int : (b * k) \div b = k
    OBVIOUS
  <1>4. z \div b = q - p
    BY <1>2, <1>3
  <1>5. z \div b \in Nat
    BY <1>2, <1>4
  <1> QED  BY <1>2, <1>4, <1>5

\* A heap that is not refused is where it was to be, and has all of it.
LEMMA HeapPlaced ==
    ASSUME NEW base \in Nat, NEW len \in Nat, len > kernel_size, base + len <= Address,
           kheap_init(base + kernel_size, len - kernel_size).ok
    PROVE  LET heap_ == kheap_init(base + kernel_size, len - kernel_size)
           IN  /\ heap_.start = base + kernel_size
               /\ heap_.start + heap_.total * HEAP_BLOCK_SIZE = base + len
PROOF
  <1> DEFINE s == base + kernel_size
             z == len - kernel_size
             e == (s + z) % Address
             total == z \div HEAP_BLOCK_SIZE
  <1>1. /\ Address \in Nat \ {0} /\ HEAP_BLOCK_SIZE \in Nat \ {0} /\ kernel_size \in Nat \ {0}
        /\ Address % HEAP_BLOCK_SIZE = 0
    BY BootAssumption
  <1>2. s \in Nat /\ z \in Nat /\ s < Address /\ z < Address /\ s + z = base + len
    BY <1>1
  <1>3. \A n \in Nat : n < Address => n % Address = n
    BY <1>1
  <1>4. s % Address = s /\ z % Address = z
    BY <1>2, <1>3
  <1>5. /\ kheap_init(s, z).start = s /\ kheap_init(s, z).total = total
        /\ heap_validate(s, e, total)
    BY <1>4 DEF kheap_init
  <1>6. s % HEAP_BLOCK_SIZE = 0 /\ e % HEAP_BLOCK_SIZE = 0
    BY <1>5 DEF heap_validate
  <1>7. (s + z) % HEAP_BLOCK_SIZE = 0
    <2>1. CASE s + z = Address
      BY <1>1, <2>1
    <2>2. CASE s + z < Address
      <3>1. s + z \in Nat
        BY <1>2
      <3> QED  BY <1>3, <1>6, <2>2, <3>1
    <2>3. s + z <= Address
      BY <1>2
    <2> QED  BY <1>1, <1>2, <2>1, <2>2, <2>3
  <1> HIDE DEF s, z
  <1>8. total * HEAP_BLOCK_SIZE = z
    BY <1>1, <1>2, <1>6, <1>7, Between
  <1>9. s + total * HEAP_BLOCK_SIZE = base + len
    BY <1>2, <1>8
  <1> HIDE DEF total
  <1> QED  BY <1>5, <1>9 DEF s, z

\* Every start that comes to a heap puts it there.
LEMMA BootHeap ==
    ASSUME NEW magic, NEW map \in MemoryMap, machine' = kernel_main(magic, map)
    PROVE  HeapInLongestRegion'
PROOF
  <1> DEFINE region == Region(magic, map)
             placed == kheap_init(region.base + kernel_size, region.len - kernel_size)
  <1>1. SUFFICES ASSUME machine'.end = "heap" PROVE HeapInLongestRegion'
    BY DEF HeapInLongestRegion
  <1>2. /\ m_bootloader(magic) # "nullptr" /\ ~(region.len < kernel_size) /\ placed.ok
        /\ machine' = [end |-> "heap", start |-> placed.start, total |-> placed.total,
                       magic |-> magic, map |-> map]
    BY <1>1, Zenon DEF kernel_main
  <1>3. map \in Seq(Regions) /\ kernel_size \in Nat \ {0}
    BY BootAssumption DEF Regions
  <1>4. region.len > 0
    <2>1. region.len \in Nat
      BY <1>3, RegionTyped
    <2> QED  BY <1>2, <1>3, <2>1
  <1>5. /\ region.base \in Nat /\ region.len \in Nat
        /\ \E i \in DOMAIN map :
              /\ Available(map[i]) /\ region.base = map[i].base /\ region.len = map[i].len
              /\ \A j \in DOMAIN map : Available(map[j]) /\ map[j].len > map[i].len =>
                    magic = "1337" /\ \E k \in 1 .. j : map[k].len = 0
    BY <1>2, <1>3, <1>4, RegionFound
  <1> HIDE DEF region
  <1>6. PICK i \in DOMAIN map :
           /\ Available(map[i]) /\ region.base = map[i].base /\ region.len = map[i].len
           /\ \A j \in DOMAIN map : Available(map[j]) /\ map[j].len > map[i].len =>
                 magic = "1337" /\ \E k \in 1 .. j : map[k].len = 0
    BY <1>5
  <1>7. region.len > kernel_size /\ region.base + region.len <= Address =>
           /\ placed.start = region.base + kernel_size
           /\ placed.start + placed.total * HEAP_BLOCK_SIZE = region.base + region.len
    BY <1>2, <1>5, HeapPlaced
  <1> HIDE DEF placed
  <1>8. /\ machine'.map = map /\ machine'.magic = magic
        /\ machine'.start = placed.start /\ machine'.total = placed.total
    BY <1>2
  <1> QED  BY <1>6, <1>7, <1>8 DEF HeapInLongestRegion

\* Whatever map either loader gives, of any number of regions of any size, the heap
\* takes one of the longest of those it reports, from behind the kernel to the end
\* (Multiboot.cpp:97-100, GitBoot.cpp:20-39, kernel.cpp:241-259, hkeap.c:16-24).
THEOREM BootHeapInLongestRegion == BootSpec => []HeapInLongestRegion
PROOF
  <1>1. BootInit => HeapInLongestRegion
    BY DEF BootInit, Off, HeapInLongestRegion
  <1>2. HeapInLongestRegion /\ [BootNext]_machine => HeapInLongestRegion'
    <2>1. ASSUME power_on PROVE HeapInLongestRegion'
      BY <2>1, BootHeap DEF power_on
    <2>2. ASSUME reset PROVE HeapInLongestRegion'
      BY <2>2 DEF reset, Off, HeapInLongestRegion
    <2>3. ASSUME HeapInLongestRegion, UNCHANGED machine PROVE HeapInLongestRegion'
      BY <2>3 DEF HeapInLongestRegion
    <2> QED  BY <2>1, <2>2, <2>3 DEF BootNext
  <1> QED  BY <1>1, <1>2, PTL DEF BootSpec
----------------------------------------------------------------------------
\* The command line.

\* By how many the other keys of i .. j outnumber the backspaces.
Balance(keys, i, j) == (j - i + 1) - 2 * Cardinality(Backspaces(keys, i, j))

\* It is a number, and 0 of no keys.
LEMMA BackspacesCounted ==
    ASSUME NEW keys, NEW i \in Int, NEW j \in Int
    PROVE  /\ IsFiniteSet(Backspaces(keys, i, j)) /\ Cardinality(Backspaces(keys, i, j)) \in Nat
           /\ Balance(keys, i, j) \in Int
PROOF
  <1>1. IsFiniteSet(i .. j)
    BY FS_Interval
  <1>2. IsFiniteSet(Backspaces(keys, i, j))
    BY <1>1, FS_Subset DEF Backspaces
  <1>3. Cardinality(Backspaces(keys, i, j)) \in Nat
    BY <1>2, FS_CardinalityType
  <1> QED  BY <1>2, <1>3 DEF Balance

LEMMA NothingCounted ==
    ASSUME NEW keys, NEW n \in Nat
    PROVE  Balance(keys, n + 1, n) = 0
PROOF
  <1>1. Backspaces(keys, n + 1, n) = {}
    BY DEF Backspaces
  <1>2. Cardinality(Backspaces(keys, n + 1, n)) = 0
    BY <1>1, FS_EmptySet
  <1> QED  BY <1>2 DEF Balance

\* One key more changes the balance by one.
LEMMA BalanceMoves ==
    ASSUME NEW keys \in Seq(Key), NEW c \in Key, NEW i \in 1 .. Len(keys) + 1
    PROVE  LET n == Len(keys)
               more == Append(keys, c)
           IN  /\ \A j \in i .. n : Balance(more, i, j) = Balance(keys, i, j)
               /\ c # Backspace => Balance(more, i, n + 1) = Balance(keys, i, n) + 1
               /\ c = Backspace => Balance(more, i, n + 1) = Balance(keys, i, n) - 1
PROOF
  <1> DEFINE n == Len(keys)
             more == Append(keys, c)
  <1>1. n \in Nat /\ i \in Nat /\ i >= 1 /\ i <= n + 1
    BY LenProperties
  <1>2. /\ \A k \in 1 .. n : more[k] = keys[k]
        /\ more[n + 1] = c
    BY AppendProperties
  <1> HIDE DEF n, more
  <1>3. ASSUME NEW j \in i .. n PROVE Balance(more, i, j) = Balance(keys, i, j)
    <2>1. \A k \in i .. j : k \in 1 .. n
      BY <1>1
    <2>2. Backspaces(more, i, j) = Backspaces(keys, i, j)
      BY <1>2, <2>1 DEF Backspaces
    <2> QED  BY <2>2 DEF Balance
  <1>4. \A k \in i .. (n + 1) : k = n + 1 \/ (k \in i .. n /\ k \in 1 .. n)
    BY <1>1
  <1>5. \A k \in i .. n : k \in i .. (n + 1) /\ k \in 1 .. n /\ k # n + 1
    BY <1>1
  <1>6. n + 1 \in i .. (n + 1)
    BY <1>1
  <1>7. Cardinality(Backspaces(keys, i, n)) \in Nat /\ IsFiniteSet(Backspaces(keys, i, n))
    BY <1>1, BackspacesCounted
  <1>8. CASE c # Backspace
    <2>1. Backspaces(more, i, n + 1) = Backspaces(keys, i, n)
      BY <1>2, <1>4, <1>5, <1>8 DEF Backspaces
    <2> QED  BY <1>1, <1>3, <1>7, <1>8, <2>1 DEF Balance, n, more
  <1>9. CASE c = Backspace
    <2>1. Backspaces(more, i, n + 1) = Backspaces(keys, i, n) \cup {n + 1}
      BY <1>2, <1>4, <1>5, <1>6, <1>9 DEF Backspaces
    <2>2. n + 1 \notin Backspaces(keys, i, n)
      BY <1>5 DEF Backspaces
    <2>3. Cardinality(Backspaces(more, i, n + 1)) = Cardinality(Backspaces(keys, i, n)) + 1
      BY <1>7, <2>1, <2>2, FS_AddElement
    <2> QED  BY <1>1, <1>3, <1>7, <1>9, <2>3 DEF Balance, n, more
  <1> QED  BY <1>8, <1>9

\* What stays has more than half of the keys at every point behind it.
LEMMA StaysBalanced ==
    ASSUME NEW keys \in Seq(Key), NEW i \in 1 .. Len(keys)
    PROVE  Stays(keys, i) <=> keys[i] # Backspace /\ \A j \in i .. Len(keys) : Balance(keys, i, j) > 0
PROOF
  <1>1. ASSUME NEW j \in i .. Len(keys)
        PROVE  2 * Cardinality(Backspaces(keys, i, j)) < j - i + 1 <=> Balance(keys, i, j) > 0
    <2>1. i \in Int /\ j \in Int /\ Cardinality(Backspaces(keys, i, j)) \in Nat
      BY BackspacesCounted
    <2> QED  BY <2>1 DEF Balance
  <1> QED  BY <1>1 DEF Stays

\* A character stays, and takes nothing from those before it.
LEMMA CharacterStays ==
    ASSUME NEW keys \in Seq(Key), NEW c \in Key, c # Backspace
    PROVE  /\ Stays(Append(keys, c), Len(keys) + 1)
           /\ \A i \in 1 .. Len(keys) : Stays(Append(keys, c), i) <=> Stays(keys, i)
PROOF
  <1> DEFINE n == Len(keys)
             more == Append(keys, c)
  <1>1. n \in Nat /\ more \in Seq(Key) /\ Len(more) = n + 1 /\ more[n + 1] = c
    BY LenProperties, AppendProperties
  <1>2. \A k \in 1 .. n : more[k] = keys[k]
    BY AppendProperties
  <1>3. ASSUME NEW i \in 1 .. n + 1
        PROVE  /\ \A j \in i .. n : Balance(more, i, j) = Balance(keys, i, j)
               /\ Balance(more, i, n + 1) = Balance(keys, i, n) + 1
    BY <1>3, BalanceMoves
  <1> HIDE DEF n, more
  <1>4. Stays(more, n + 1)
    <2>2. Balance(keys, n + 1, n) = 0
      BY <1>1, NothingCounted
    <2>3. \A j \in (n + 1) .. (n + 1) : j = n + 1
      BY <1>1
    <2>4. n + 1 \in 1 .. (n + 1)
      BY <1>1
    <2>5. Balance(more, n + 1, n + 1) = 1
      BY <1>3, <2>2, <2>4
    <2> QED  BY <1>1, <2>3, <2>4, <2>5, StaysBalanced
  <1>5. ASSUME NEW i \in 1 .. n PROVE Stays(more, i) <=> Stays(keys, i)
    <2>1. i \in Nat /\ i \in 1 .. (n + 1) /\ n \in i .. n
      BY <1>1
    <2>2. /\ Stays(more, i) <=> more[i] # Backspace /\ \A j \in i .. (n + 1) : Balance(more, i, j) > 0
          /\ Stays(keys, i) <=> keys[i] # Backspace /\ \A j \in i .. n : Balance(keys, i, j) > 0
      BY <1>1, <2>1, StaysBalanced DEF n
    <2>3. \A j \in i .. (n + 1) : j \in i .. n \/ j = n + 1
      BY <1>1
    <2>4. \A j \in i .. n : j \in i .. (n + 1) /\ Balance(more, i, j) = Balance(keys, i, j)
      BY <1>1, <1>3, <2>1
    <2>5. Balance(keys, i, n) \in Int /\ Balance(more, i, n + 1) = Balance(keys, i, n) + 1
      <3>1. i \in Int /\ n \in Int
        BY <1>1
      <3>2. Balance(keys, i, n) \in Int
        BY <3>1, BackspacesCounted, Zenon
      <3> QED  BY <1>3, <2>1, <3>2
    <2>6. (\A j \in i .. n : Balance(keys, i, j) > 0) => Balance(more, i, n + 1) > 0
      BY <2>1, <2>5
    <2> QED  BY <1>2, <2>2, <2>3, <2>4, <2>6
  <1> QED  BY <1>4, <1>5 DEF n, more

\* A backspace takes what was ahead by no more than one.
LEMMA BackspaceTakes ==
    ASSUME NEW keys \in Seq(Key), Backspace \in Key
    PROVE  LET n == Len(keys)
               more == Append(keys, Backspace)
           IN  /\ ~Stays(more, n + 1)
               /\ \A i \in 1 .. n : Stays(more, i) <=> Stays(keys, i) /\ Balance(keys, i, n) > 1
PROOF
  <1> DEFINE n == Len(keys)
             more == Append(keys, Backspace)
  <1>1. n \in Nat /\ more \in Seq(Key) /\ Len(more) = n + 1 /\ more[n + 1] = Backspace
    BY LenProperties, AppendProperties
  <1>2. \A k \in 1 .. n : more[k] = keys[k]
    BY AppendProperties
  <1>3. ASSUME NEW i \in 1 .. n + 1
        PROVE  /\ \A j \in i .. n : Balance(more, i, j) = Balance(keys, i, j)
               /\ Balance(more, i, n + 1) = Balance(keys, i, n) - 1
    BY <1>3, BalanceMoves
  <1> HIDE DEF n, more
  <1>4. ~Stays(more, n + 1)
    BY <1>1 DEF Stays
  <1>5. ASSUME NEW i \in 1 .. n PROVE Stays(more, i) <=> Stays(keys, i) /\ Balance(keys, i, n) > 1
    <2>1. i \in Nat /\ i \in 1 .. (n + 1) /\ n \in i .. n /\ n + 1 \in i .. (n + 1)
      BY <1>1
    <2>2. /\ Stays(more, i) <=> more[i] # Backspace /\ \A j \in i .. (n + 1) : Balance(more, i, j) > 0
          /\ Stays(keys, i) <=> keys[i] # Backspace /\ \A j \in i .. n : Balance(keys, i, j) > 0
      BY <1>1, <2>1, StaysBalanced DEF n
    <2>3. \A j \in i .. (n + 1) : j \in i .. n \/ j = n + 1
      BY <1>1
    <2>4. \A j \in i .. n : j \in i .. (n + 1) /\ Balance(more, i, j) = Balance(keys, i, j)
      BY <1>1, <1>3, <2>1
    <2>5. Balance(keys, i, n) \in Int /\ Balance(more, i, n + 1) = Balance(keys, i, n) - 1
      <3>1. i \in Int /\ n \in Int
        BY <1>1
      <3>2. Balance(keys, i, n) \in Int
        BY <3>1, BackspacesCounted, Zenon
      <3> QED  BY <1>3, <2>1, <3>2
    <2>6. Balance(keys, i, n) > 1 <=> Balance(more, i, n + 1) > 0
      BY <2>5
    <2> QED  BY <1>2, <2>1, <2>2, <2>3, <2>4, <2>6
  <1> QED  BY <1>4, <1>5 DEF n, more

\* A line at its place among its keys: the k-th character from the end is k ahead.
Placed(at, str, keys) ==
    /\ at \in [1 .. Len(str) -> 1 .. Len(keys)]
    /\ \A k \in 1 .. Len(str) : Stays(keys, at[k]) /\ str[k] = keys[at[k]]
    /\ \A k, l \in 1 .. Len(str) : k < l => at[k] < at[l]
    /\ \A i \in 1 .. Len(keys) : Stays(keys, i) => \E k \in 1 .. Len(str) : at[k] = i
    /\ \A k \in 1 .. Len(str) : Balance(keys, at[k], Len(keys)) = Len(str) - k + 1

\* A line that grows by a character, or loses its last one, is at its place.
LEMMA CharacterPlaced ==
    ASSUME NEW str \in Seq(Key), NEW keys \in Seq(Key), NEW at, Placed(at, str, keys),
           NEW c \in Key, c # Backspace
    PROVE  \E new : Placed(new, Append(str, c), Append(keys, c))
PROOF
  <1> DEFINE n == Len(keys)
             L == Len(str)
             more == Append(keys, c)
             longer == Append(str, c)
             new == [k \in 1 .. (L + 1) |-> IF k = L + 1 THEN n + 1 ELSE at[k]]
  <1>1. /\ n \in Nat /\ Len(more) = n + 1 /\ more[n + 1] = c /\ \A i \in 1 .. n : more[i] = keys[i]
        /\ L \in Nat /\ Len(longer) = L + 1 /\ longer[L + 1] = c /\ \A k \in 1 .. L : longer[k] = str[k]
    BY LenProperties, AppendProperties
  <1>2. /\ Stays(more, n + 1)
        /\ \A i \in 1 .. n : Stays(more, i) <=> Stays(keys, i)
    BY CharacterStays
  <1>3. /\ \A i \in 1 .. n : Balance(more, i, n + 1) = Balance(keys, i, n) + 1
        /\ Balance(more, n + 1, n + 1) = 1
    <2>1. \A i \in 1 .. n : i \in 1 .. (n + 1)
      BY <1>1
    <2>2. n + 1 \in 1 .. (n + 1)
      BY <1>1
    <2>3. Balance(keys, n + 1, n) = 0
      BY <1>1, NothingCounted
    <2> QED  BY <2>1, <2>2, <2>3, BalanceMoves
  <1>4. /\ at \in [1 .. L -> 1 .. n]
        /\ \A k \in 1 .. L : Stays(keys, at[k]) /\ str[k] = keys[at[k]]
        /\ \A k, l \in 1 .. L : k < l => at[k] < at[l]
        /\ \A i \in 1 .. n : Stays(keys, i) => \E k \in 1 .. L : at[k] = i
        /\ \A k \in 1 .. L : Balance(keys, at[k], n) = L - k + 1
    BY DEF Placed
  <1> HIDE DEF n, L, more, longer
  <1>5. \A k \in 1 .. (L + 1) : k = L + 1 \/ k \in 1 .. L
    BY <1>1
  <1>6. /\ L + 1 \in 1 .. (L + 1) /\ n + 1 \in 1 .. (n + 1)
        /\ \A k \in 1 .. L : k \in 1 .. (L + 1) /\ k # L + 1 /\ k \in Int
        /\ \A i \in 1 .. (n + 1) : i = n + 1 \/ i \in 1 .. n
        /\ \A i \in 1 .. n : i \in 1 .. (n + 1) /\ i < n + 1
    BY <1>1
  <1>7. new[L + 1] = n + 1 /\ \A k \in 1 .. L : new[k] = at[k] /\ at[k] \in 1 .. n
    BY <1>4, <1>6
  <1>8. new \in [1 .. (L + 1) -> 1 .. (n + 1)]
    BY <1>4, <1>5, <1>6
  <1> HIDE DEF new
  <1>9. \A k \in 1 .. (L + 1) : Stays(more, new[k]) /\ longer[k] = more[new[k]]
    <2>1. \A k \in 1 .. L : Stays(more, at[k]) /\ longer[k] = more[at[k]]
      BY <1>1, <1>2, <1>4, <1>7
    <2> QED  BY <1>1, <1>2, <1>5, <1>7, <2>1
  <1>10. ASSUME NEW k \in 1 .. (L + 1), NEW l \in 1 .. (L + 1), k < l PROVE new[k] < new[l]
    <2>1. k \in 1 .. L
      BY <1>1, <1>10
    <2> QED  BY <1>4, <1>5, <1>6, <1>7, <1>10, <2>1
  <1>11. ASSUME NEW i \in 1 .. (n + 1), Stays(more, i) PROVE \E k \in 1 .. (L + 1) : new[k] = i
    BY <1>2, <1>4, <1>6, <1>7, <1>11
  <1>12. ASSUME NEW k \in 1 .. (L + 1) PROVE Balance(more, new[k], n + 1) = (L + 1) - k + 1
    <2>1. CASE k = L + 1
      BY <1>1, <1>3, <1>7, <2>1
    <2>2. CASE k \in 1 .. L
      <3>1. Balance(more, at[k], n + 1) = Balance(keys, at[k], n) + 1
        BY <1>3, <1>7, <2>2
      <3>2. Balance(keys, at[k], n) = L - k + 1
        BY <1>4, <2>2
      <3> QED  BY <1>1, <1>7, <2>2, <3>1, <3>2
    <2> QED  BY <1>5, <2>1, <2>2
  <1>13. Placed(new, longer, more)
    BY <1>1, <1>8, <1>9, <1>10, <1>11, <1>12 DEF Placed
  <1> QED  BY <1>13 DEF longer, more

LEMMA BackspacePlaced ==
    ASSUME NEW str \in Seq(Key), NEW keys \in Seq(Key), NEW at, Placed(at, str, keys),
           Backspace \in Key, NEW shorter,
           shorter = IF Len(str) = 0 THEN << >> ELSE SubSeq(str, 1, Len(str) - 1)
    PROVE  \E new : Placed(new, shorter, Append(keys, Backspace))
PROOF
  <1> DEFINE n == Len(keys)
             L == Len(str)
             m == Len(shorter)
             more == Append(keys, Backspace)
             new == [k \in 1 .. m |-> at[k]]
  <1>1. /\ n \in Nat /\ Len(more) = n + 1 /\ \A i \in 1 .. n : more[i] = keys[i]
        /\ L \in Nat
    BY LenProperties, AppendProperties
  <1>2. /\ ~Stays(more, n + 1)
        /\ \A i \in 1 .. n : Stays(more, i) <=> Stays(keys, i) /\ Balance(keys, i, n) > 1
    BY BackspaceTakes
  <1>3. \A i \in 1 .. n : Balance(more, i, n + 1) = Balance(keys, i, n) - 1
    <2>1. \A i \in 1 .. n : i \in 1 .. (n + 1)
      BY <1>1
    <2> QED  BY <2>1, BalanceMoves
  <1>4. /\ at \in [1 .. L -> 1 .. n]
        /\ \A k \in 1 .. L : Stays(keys, at[k]) /\ str[k] = keys[at[k]]
        /\ \A k, l \in 1 .. L : k < l => at[k] < at[l]
        /\ \A i \in 1 .. n : Stays(keys, i) => \E k \in 1 .. L : at[k] = i
        /\ \A k \in 1 .. L : Balance(keys, at[k], n) = L - k + 1
    BY DEF Placed
  <1>5. /\ m = (IF L = 0 THEN 0 ELSE L - 1) /\ m \in Nat
        /\ \A k \in 1 .. m : shorter[k] = str[k] /\ k \in 1 .. L /\ k < L /\ k \in Nat
        /\ \A k \in 1 .. L : k \notin 1 .. m => k = L
    <2>1. CASE L = 0
      <3>1. m = 0
        BY <2>1
      <3> QED  BY <2>1, <3>1
    <2>2. CASE L # 0
      <3>1. L - 1 \in 0 .. L /\ shorter = SubSeq(str, 1, L - 1)
        BY <1>1, <2>2
      <3>2. m = L - 1 /\ \A k \in 1 .. (L - 1) : shorter[k] = str[k]
        <4>1. \A k \in 1 .. (L - 1) : str[1 + k - 1] \in Key /\ 1 + k - 1 = k
          BY <1>1, ElementOfSeq
        <4>2. Len(SubSeq(str, 1, L - 1)) = L - 1
          <5>1. 1 \in 1 .. L + 1 /\ L - 1 \in 0 .. L /\ 1 <= (L - 1) + 1
            BY <1>1, <2>2
          <5> HIDE DEF L
          <5>2. Len(SubSeq(str, 1, L - 1)) = IF 1 <= L - 1 THEN (L - 1) - 1 + 1 ELSE 0
            BY <5>1, SubSeqProperties DEF L
          <5> QED  BY <1>1, <2>2, <5>2
        <4> QED  BY <1>1, <3>1, <4>1, <4>2, SubSeqProperties
      <3> QED  BY <1>1, <2>2, <3>2
    <2> QED  BY <2>1, <2>2
  <1> HIDE DEF n, L, m, more
  <1>6. \A i \in 1 .. n : i \in 1 .. (n + 1)
    BY <1>1
  <1>7. \A k \in 1 .. m : new[k] = at[k] /\ at[k] \in 1 .. n /\ Balance(keys, at[k], n) = L - k + 1
    BY <1>4, <1>5
  <1>8. new \in [1 .. m -> 1 .. (n + 1)]
    BY <1>6, <1>7
  <1> HIDE DEF new
  <1>9. ASSUME NEW k \in 1 .. m
        PROVE  /\ Stays(more, new[k]) /\ shorter[k] = more[new[k]]
               /\ Balance(more, new[k], n + 1) = m - k + 1
    <2>1. k \in 1 .. L /\ k < L /\ k \in Nat /\ m = L - 1
      BY <1>1, <1>5
    <2>2. Balance(keys, at[k], n) > 1
      BY <1>1, <1>7, <2>1
    <2>3. Balance(more, at[k], n + 1) = m - k + 1
      BY <1>1, <1>3, <1>7, <2>1
    <2>4. Stays(more, at[k])
      BY <1>2, <1>4, <1>7, <2>1, <2>2
    <2>5. shorter[k] = more[at[k]]
      BY <1>1, <1>4, <1>5, <1>7, <2>1
    <2> QED  BY <1>7, <2>3, <2>4, <2>5
  <1>10. ASSUME NEW k \in 1 .. m, NEW l \in 1 .. m, k < l PROVE new[k] < new[l]
    BY <1>4, <1>5, <1>7, <1>10
  <1>11. ASSUME NEW i \in 1 .. (n + 1), Stays(more, i) PROVE \E k \in 1 .. m : new[k] = i
    <2>1. i \in 1 .. n
      <3>1. i = n + 1 \/ i \in 1 .. n
        BY <1>1
      <3> QED  BY <1>2, <1>11, <3>1
    <2>2. Stays(keys, i) /\ Balance(keys, i, n) > 1
      BY <1>2, <1>11, <2>1
    <2>3. PICK k \in 1 .. L : at[k] = i
      BY <1>4, <2>1, <2>2
    <2>4. k # L
      <3>1. Balance(keys, at[k], n) = L - k + 1
        BY <1>4
      <3> QED  BY <1>1, <2>2, <2>3, <3>1
    <2> QED  BY <1>5, <1>7, <2>3, <2>4
  <1>12. Placed(new, shorter, more)
    BY <1>1, <1>8, <1>9, <1>10, <1>11 DEF Placed, m
  <1> QED  BY <1>12 DEF more

\* Strings compare equal when the first is a prefix of the second.
Texts == Seq(Nat \ {NUL})

LEMMA PrefixOf ==
    ASSUME NEW name \in Texts, NEW str \in Texts, Len(name) <= Len(str),
           \A i \in 1 .. Len(name) : name[i] = str[i]
    PROVE  IsPrefix(name, str)
PROOF
  <1> DEFINE n == Len(name)
             a == SubSeq(name, 1, n)
             b == SubSeq(str, 1, n)
  <1>1. n \in Nat /\ Len(str) \in Nat /\ n <= Len(str)
    BY LenProperties DEF Texts
  <1>2. \A i \in 1 .. n : name[i] \in Nat /\ str[i] \in Nat
    <2>1. \A i \in 1 .. n : i \in 1 .. Len(str)
      BY <1>1
    <2> QED  BY <2>1, ElementOfSeq DEF Texts
  <1>3. /\ a \in Seq(Nat) /\ Len(a) = IF 1 <= n THEN n - 1 + 1 ELSE 0
        /\ \A i \in 1 .. (n - 1 + 1) : a[i] = name[1 + i - 1]
    BY <1>1, <1>2, SubSeqProperties
  <1>4. /\ b \in Seq(Nat) /\ Len(b) = IF 1 <= n THEN n - 1 + 1 ELSE 0
        /\ \A i \in 1 .. (n - 1 + 1) : b[i] = str[1 + i - 1]
    BY <1>1, <1>2, SubSeqProperties
  <1> HIDE DEF a, b
  <1>5. \A i \in 1 .. n : i \in 1 .. (n - 1 + 1) /\ 1 + i - 1 = i
    BY <1>1
  <1>6. Len(a) = n /\ Len(b) = n /\ \A i \in 1 .. n : a[i] = b[i]
    BY <1>1, <1>3, <1>4, <1>5
  <1>7. a = b
    BY <1>3, <1>4, <1>6, SeqEqual
  <1> QED  BY <1>1, <1>7 DEF IsPrefix, a, b

LEMMA EqualPrefix ==
    ASSUME NEW name \in Texts, NEW str \in Texts, strcmp(name, str) = 0
    PROVE  IsPrefix(name, str)
PROOF
  <1> DEFINE n == Len(name)
             D == Differing(name, str, n)
  <1>1. n \in Nat /\ Len(str) \in Nat /\ DOMAIN name = 1 .. n /\ DOMAIN str = 1 .. Len(str)
    BY LenProperties DEF Texts
  <1>2. /\ \A i \in 1 .. n : name[i] \in Nat /\ name[i] # 0
        /\ \A i \in 1 .. Len(str) : str[i] \in Nat
    BY <1>1, ElementOfSeq DEF Texts, NUL
  <1>3. D = {}
    <2> SUFFICES ASSUME D # {} PROVE FALSE
      OBVIOUS
    <2>1. D \subseteq Nat
      BY <1>1 DEF Differing
    <2>2. \E i \in D : \A j \in D : i <= j
      BY <2>1, LeastExists
    <2> DEFINE i == CHOOSE i \in D : \A j \in D : i <= j
    <2>3. i \in D
      BY <2>2, Zenon
    <2>4. At(name, i) - At(str, i) = 0
      BY Zenon DEF strcmp, strncmp, strlen
    <2> HIDE DEF i
    <2>5. i \in 1 .. n /\ At(name, i) # At(str, i)
      BY <2>3 DEF Differing
    <2>6. At(name, i) \in Int /\ At(str, i) \in Int
      BY <1>1, <1>2, <2>5 DEF At, NUL
    <2> QED  BY <2>4, <2>5, <2>6
  <1>4. ASSUME NEW i \in 1 .. n PROVE i \in 1 .. Len(str) /\ name[i] = str[i]
    <2>1. At(name, i) = At(str, i)
      BY <1>3 DEF Differing
    <2> QED  BY <1>1, <1>2, <2>1 DEF At, NUL
  <1>5. n <= Len(str)
    <2>1. CASE n = 0
      BY <1>1, <2>1
    <2>2. CASE n # 0
      <3>1. n \in 1 .. n
        BY <1>1, <2>2
      <3> QED  BY <1>1, <1>4, <3>1
    <2> QED  BY <2>1, <2>2
  <1> QED  BY <1>4, <1>5, PrefixOf

\* What a line may come to.
Comes(str, path) ==
    \/ path = Drive \o str
    \/ path = << >> /\ \E name \in {Int3, Ping, Cat} : IsPrefix(name, str)

LEMMA CommandComes ==
    ASSUME NEW str \in Texts, NEW fails
    PROVE  Comes(str, process_command(str, fails).execprocess)
PROOF
  <1>1. Int3 \in Texts /\ Ping \in Texts /\ Cat \in Texts
    BY ZofiaAssumption DEF Texts
  <1>2. \A name \in {Int3, Ping, Cat} : Is(name, str) => IsPrefix(name, str)
    BY <1>1, EqualPrefix DEF Is
  <1>3. CASE Is(Int3, str)
    <2>1. process_command(str, fails).execprocess = << >>
      BY <1>3 DEF process_command
    <2> QED  BY <1>2, <1>3, <2>1 DEF Comes
  <1>4. CASE ~Is(Int3, str) /\ Is(Ping, str)
    <2>1. process_command(str, fails).execprocess = << >>
      BY <1>4 DEF process_command
    <2> QED  BY <1>2, <1>4, <2>1 DEF Comes
  <1>5. CASE ~Is(Int3, str) /\ ~Is(Ping, str)
    <2>1. process_command(str, fails).execprocess
             = IF Is(Cat, str) /\ fails # "none" THEN << >> ELSE Drive \o str
      BY <1>5 DEF process_command
    <2> QED  BY <1>2, <2>1 DEF Comes
  <1> QED  BY <1>3, <1>4, <1>5

\* The inductive invariant.
LineInv(l, keys) ==
    /\ l \in [buffer : Seq(Key), done : BOOLEAN]
    /\ keys \in Seq(Key)
    /\ \E at : Placed(at, l.buffer, keys)
    /\ Len(l.buffer) <= BufferLength
    /\ ~l.done => Len(l.buffer) < BufferLength
ZofiaInv ==
    /\ LineInv(line, typed)
    /\ ran # NotYet => Comes(ran.line, ran.execprocess)

LEMMA LineMade ==
    ASSUME NEW str \in Seq(Key), NEW done \in BOOLEAN, NEW keys \in Seq(Key),
           \E at : Placed(at, str, keys),
           Len(str) <= BufferLength, ~done => Len(str) < BufferLength
    PROVE  LineInv([buffer |-> str, done |-> done], keys)
PROOF
  BY DEF LineInv

LEMMA NoLinePlaced == \E at : Placed(at, << >>, << >>)
PROOF
  <1> DEFINE at == [k \in 1 .. 0 |-> 0]
  <1>1. Len(<< >>) = 0 /\ \A k : k \notin 1 .. 0
    OBVIOUS
  <1>2. Placed(at, << >>, << >>)
    BY <1>1 DEF Placed
  <1> QED  BY <1>2

\* What begins.
LEMMA NoLineInv == LineInv(NoLine, << >>)
PROOF
  <1>1. << >> \in Seq(Key) /\ Len(<< >>) = 0
    BY EmptySeq
  <1>2. 0 < BufferLength /\ 0 <= BufferLength
    BY ZofiaAssumption
  <1>3. LineInv([buffer |-> << >>, done |-> FALSE], << >>)
    BY <1>1, <1>2, NoLinePlaced, LineMade
  <1> QED  BY <1>3 DEF NoLine

LEMMA ZofiaBegins == ZofiaInit => ZofiaInv
PROOF
  BY NoLineInv DEF ZofiaInit, ZofiaInv

\* A key, and a line that is run, keep the invariant.
LEMMA KeyStep ==
    ASSUME ZofiaInv, NEW c \in Key, getc(c)
    PROVE  ZofiaInv'
PROOF
  <1> DEFINE str == line.buffer
             n == Len(str)
  <1>1. /\ line' = type_key(line, c) /\ ran' = NotYet /\ ~line.done
        /\ typed' = IF c = Return_key THEN typed ELSE Append(typed, c)
    BY DEF getc
  <1>2. /\ line.buffer = str /\ line.done = FALSE
        /\ line = [buffer |-> str, done |-> FALSE] /\ str \in Seq(Key) /\ typed \in Seq(Key)
        /\ n \in Nat /\ n < BufferLength /\ BufferLength \in Nat
    <2>1. line \in [buffer : Seq(Key), done : BOOLEAN] /\ typed \in Seq(Key)
      BY DEF ZofiaInv, LineInv
    <2>2. n < BufferLength
      BY <1>1 DEF ZofiaInv, LineInv
    <2> QED  BY <1>1, <2>1, <2>2, LenProperties, ZofiaAssumption
  <1>3. PICK at : Placed(at, str, typed)
    BY DEF ZofiaInv, LineInv
  <1> HIDE DEF str
  <1>4. Append(typed, c) \in Seq(Key) /\ Append(str, c) \in Seq(Key) /\ Len(Append(str, c)) = n + 1
    BY <1>2, AppendProperties
  <1>5. CASE c = Backspace
    <2> DEFINE shorter == IF n = 0 THEN << >> ELSE SubSeq(str, 1, n - 1)
    <2>1. shorter \in Seq(Key) /\ Len(shorter) \in Nat /\ Len(shorter) < BufferLength
      <3>1. CASE n = 0
        BY <1>2, <3>1
      <3>2. CASE n # 0
        <4>1. \A i \in 1 .. (n - 1) : str[i] \in Key
          BY <1>2, ElementOfSeq
        <4>2. /\ SubSeq(str, 1, n - 1) \in Seq(Key)
              /\ Len(SubSeq(str, 1, n - 1)) = IF 1 <= n - 1 THEN (n - 1) - 1 + 1 ELSE 0
          BY <1>2, <3>2, <4>1, SubSeqProperties
        <4> QED  BY <1>2, <3>2, <4>2
      <3> QED  BY <3>1, <3>2
    <2>2. line' = [buffer |-> shorter, done |-> FALSE]
      <3>1. CASE str = << >>
        <4>1. c = Backspace /\ line.buffer = << >>
          BY <1>2, <1>5, <3>1
        <4>2. type_key(line, c) = line
          BY <4>1 DEF type_key, Backspace, Return_key
        <4>3. shorter = << >>
          BY <3>1
        <4> QED  BY <1>1, <1>2, <3>1, <4>2, <4>3
      <3>2. CASE str # << >>
        <4>1. n # 0
          BY <1>2, <3>2, EmptySeq
        <4>2. c = Backspace /\ line.buffer # << >>
          BY <1>2, <1>5, <3>2
        <4>3. type_key(line, c) = [line EXCEPT !.buffer = Front(@)]
          BY <4>2 DEF type_key, Backspace, Return_key
        <4>4. Front(str) = shorter
          BY <4>1 DEF Front
        <4> QED  BY <1>1, <1>2, <4>3, <4>4
      <3> QED  BY <3>1, <3>2
    <2>3. typed' = Append(typed, Backspace)
      BY <1>1, <1>5 DEF Backspace, Return_key
    <2>4. \E new : Placed(new, shorter, Append(typed, Backspace))
      BY <1>2, <1>3, <1>5, BackspacePlaced
    <2> HIDE DEF shorter
    <2>5. LineInv(line', typed')
      <3>1. Len(shorter) <= BufferLength /\ FALSE \in BOOLEAN
        BY <1>2, <2>1
      <3> QED  BY <1>4, <1>5, <2>1, <2>2, <2>3, <2>4, <3>1, LineMade
    <2> QED  BY <1>1, <2>5 DEF ZofiaInv
  <1>6. CASE c = Return_key
    <2>1. line' = [buffer |-> str, done |-> TRUE]
      <3>1. line' = [line EXCEPT !.done = TRUE]
        BY <1>1, <1>6 DEF type_key, Return_key, Backspace
      <3> QED  BY <1>2, <3>1
    <2>2. typed' = typed
      BY <1>1, <1>6
    <2>3. LineInv(line', typed')
      <3>1. n <= BufferLength /\ TRUE \in BOOLEAN
        BY <1>2
      <3> QED  BY <1>2, <1>3, <2>1, <2>2, <3>1, LineMade
    <2> QED  BY <1>1, <2>3 DEF ZofiaInv
  <1>7. CASE c # Backspace /\ c # Return_key
    <2>1. line' = [buffer |-> Append(str, c), done |-> n + 1 = BufferLength]
      BY <1>1, <1>2, <1>7 DEF type_key
    <2>2. typed' = Append(typed, c)
      BY <1>1, <1>7
    <2>3. \E new : Placed(new, Append(str, c), Append(typed, c))
      BY <1>2, <1>3, <1>7, CharacterPlaced
    <2>4. (n + 1 = BufferLength) \in BOOLEAN
      OBVIOUS
    <2>5. LineInv(line', typed')
      <3>1. n + 1 <= BufferLength /\ (~(n + 1 = BufferLength) => n + 1 < BufferLength)
        BY <1>2
      <3> QED  BY <1>2, <1>4, <2>1, <2>2, <2>3, <2>4, <3>1, LineMade
    <2> QED  BY <1>1, <2>5 DEF ZofiaInv
  <1> QED  BY <1>5, <1>6, <1>7

LEMMA RunStep ==
    ASSUME ZofiaInv, NEW fails, run(fails)
    PROVE  ZofiaInv'
PROOF
  <1>1. line.buffer \in Texts
    <2>1. line.buffer \in Seq(Key) /\ Key \subseteq Nat \ {NUL}
      BY ZofiaAssumption DEF ZofiaInv, LineInv
    <2> QED  BY <2>1, SeqMonotonic DEF Texts
  <1>2. /\ ran'.line = line.buffer
        /\ ran'.execprocess = process_command(line.buffer, fails).execprocess
        /\ line' = NoLine /\ typed' = << >>
    BY DEF run
  <1>3. Comes(ran'.line, ran'.execprocess)
    BY <1>1, <1>2, CommandComes
  <1> QED  BY <1>2, <1>3, NoLineInv DEF ZofiaInv

\* However a line is typed, with backspaces anywhere, what is run is what was left of it,
\* and nothing is stored before the array or behind its last place (zofia.cpp:97-134).
THEOREM ZofiaLineEdited == ZofiaSpec => []LineEdited
PROOF
  <1>1. ZofiaInv /\ [ZofiaNext]_zofia => ZofiaInv'
    <2> SUFFICES ASSUME ZofiaInv, [ZofiaNext]_zofia PROVE ZofiaInv'
      OBVIOUS
    <2>1. ASSUME UNCHANGED zofia PROVE ZofiaInv'
      BY <2>1 DEF zofia, ZofiaInv
    <2> QED  BY <2>1, KeyStep, RunStep DEF ZofiaNext, ZofiaStopped
  <1>2. ZofiaInv => LineEdited
    <2> SUFFICES ASSUME ZofiaInv PROVE LineEdited
      OBVIOUS
    <2>1. Edited(line.buffer, typed)
      BY DEF ZofiaInv, LineInv, Placed, Edited
    <2> QED  BY <2>1 DEF ZofiaInv, LineInv, LineEdited, Comes
  <1> QED  BY <1>1, <1>2, ZofiaBegins, PTL DEF ZofiaSpec

----------------------------------------------------------------------------
\* The lookup of a mount.  A sequence is a prefix when it agrees as far as it goes.

LEMMA PrefixIs ==
    ASSUME NEW S, NEW s \in Seq(S), NEW t \in Seq(S)
    PROVE  IsPrefix(s, t) <=> Len(s) <= Len(t) /\ \A i \in 1 .. Len(s) : s[i] = t[i]
PROOF
  <1> DEFINE n == Len(s)
             a == SubSeq(s, 1, n)
             b == SubSeq(t, 1, n)
  <1>1. n \in Nat /\ Len(t) \in Nat /\ \A i \in 1 .. n : i \in 1 .. (n - 1 + 1) /\ 1 + i - 1 = i
    BY LenProperties
  <1>2. SUFFICES ASSUME n <= Len(t) PROVE (a = b) <=> \A i \in 1 .. n : s[i] = t[i]
    BY Zenon DEF IsPrefix
  <1>3. \A i \in 1 .. n : s[i] \in S /\ t[i] \in S
    BY <1>1, <1>2, ElementOfSeq
  <1>4. /\ a \in Seq(S) /\ Len(a) = IF 1 <= n THEN n - 1 + 1 ELSE 0
        /\ \A i \in 1 .. (n - 1 + 1) : a[i] = s[1 + i - 1]
    BY <1>1, <1>3, SubSeqProperties
  <1>5. /\ b \in Seq(S) /\ Len(b) = IF 1 <= n THEN n - 1 + 1 ELSE 0
        /\ \A i \in 1 .. (n - 1 + 1) : b[i] = t[1 + i - 1]
    BY <1>1, <1>3, SubSeqProperties
  <1> HIDE DEF a, b
  <1>6. Len(a) = n /\ Len(b) = n
    BY <1>1, <1>4, <1>5
  <1> HIDE DEF n
  <1>7. \A i \in 1 .. n : a[i] = s[i] /\ b[i] = t[i]
    BY <1>1, <1>4, <1>5
  <1>8. ASSUME \A i \in 1 .. n : s[i] = t[i] PROVE a = b
    <2>1. \A i \in 1 .. Len(a) : a[i] = b[i]
      BY <1>6, <1>7, <1>8
    <2> QED  BY <1>4, <1>5, <1>6, <2>1, SeqEqual
  <1> QED  BY <1>7, <1>8

\* What is a prefix of a longer text is one of the text or is all of it.
LEMMA PrefixGrows ==
    ASSUME NEW S, NEW s \in Seq(S), NEW t \in Seq(S), NEW c \in S
    PROVE  IsPrefix(t, Append(s, c)) <=> IsPrefix(t, s) \/ t = Append(s, c)
PROOF
  <1> DEFINE u == Append(s, c)
             n == Len(s)
  <1>1. /\ u \in Seq(S) /\ Len(u) = n + 1 /\ u[n + 1] = c /\ \A i \in 1 .. n : u[i] = s[i]
        /\ n \in Nat /\ Len(t) \in Nat
    BY AppendProperties, LenProperties
  <1> HIDE DEF u, n
  <1>2. IsPrefix(t, u) <=> Len(t) <= n + 1 /\ \A i \in 1 .. Len(t) : t[i] = u[i]
    BY <1>1, PrefixIs
  <1>3. IsPrefix(t, s) <=> Len(t) <= n /\ \A i \in 1 .. Len(t) : t[i] = s[i]
    BY PrefixIs DEF n
  <1>4. CASE Len(t) <= n
    <2>1. \A i \in 1 .. Len(t) : u[i] = s[i]
      BY <1>1, <1>4
    <2>2. t # u
      BY <1>1, <1>4
    <2> QED  BY <1>1, <1>2, <1>3, <1>4, <2>1, <2>2 DEF u
  <1>5. CASE Len(t) = n + 1
    <2>1. IsPrefix(t, u) <=> t = u
      BY <1>1, <1>2, <1>5, SeqEqual
    <2>2. ~ IsPrefix(t, s)
      BY <1>1, <1>3, <1>5
    <2> QED  BY <2>1, <2>2 DEF u
  <1>6. CASE Len(t) > n + 1
    <2>1. ~ IsPrefix(t, u) /\ ~ IsPrefix(t, s) /\ t # u
      BY <1>1, <1>2, <1>3, <1>6
    <2> QED  BY <2>1 DEF u
  <1> QED  BY <1>1, <1>4, <1>5, <1>6

\* Sequences that end alike are alike in front.
LEMMA AppendApart ==
    ASSUME NEW S, NEW s \in Seq(S), NEW t \in Seq(S), NEW c \in S, NEW d \in S,
           Append(s, c) = Append(t, d)
    PROVE  s = t /\ c = d
PROOF
  <1> DEFINE u == Append(s, c)
             v == Append(t, d)
  <1>1. /\ Len(u) = Len(s) + 1 /\ u[Len(s) + 1] = c /\ \A i \in 1 .. Len(s) : u[i] = s[i]
        /\ Len(s) \in Nat
    BY AppendProperties, LenProperties
  <1>2. /\ Len(v) = Len(t) + 1 /\ v[Len(t) + 1] = d /\ \A i \in 1 .. Len(t) : v[i] = t[i]
        /\ Len(t) \in Nat
    BY AppendProperties, LenProperties
  <1>3. u = v
    OBVIOUS
  <1> HIDE DEF u, v
  <1>4. Len(s) = Len(t)
    BY <1>1, <1>2, <1>3
  <1>5. \A i \in 1 .. Len(s) : s[i] = t[i]
    BY <1>1, <1>2, <1>3, <1>4
  <1> QED  BY <1>1, <1>2, <1>3, <1>4, <1>5, SeqEqual

\* Parts joined one after the other.
IsJoined(g, parts, h) ==
    g = [n \in 0 .. h |-> IF n = 0 THEN << >> ELSE g[n - 1] \o (IF n = 1 THEN << >> ELSE <<Slash>>) \o parts[n]]

LEMMA JoinedExists ==
    ASSUME NEW parts, NEW h \in Nat
    PROVE  \E g : IsJoined(g, parts, h)
PROOF
  <1> DEFINE Bad == {k \in 0 .. h : ~ \E g : IsJoined(g, parts, k)}
  <1>1. SUFFICES ASSUME Bad # {} PROVE FALSE
    <2>1. h \in 0 .. h
      OBVIOUS
    <2> QED  BY <2>1
  <1>2. PICK k \in Bad : \A j \in Bad : k <= j
    <2>1. Bad \subseteq Nat
      OBVIOUS
    <2> QED  BY <1>1, <2>1, LeastExists
  <1>3. CASE k = 0
    <2> DEFINE g == [n \in 0 .. 0 |-> << >>]
    <2>1. \A n \in 0 .. 0 : n = 0
      OBVIOUS
    <2>2. g = [n \in 0 .. 0 |-> IF n = 0 THEN << >> ELSE g[n - 1] \o (IF n = 1 THEN << >> ELSE <<Slash>>) \o parts[n]]
      BY <2>1
    <2> QED  BY <1>2, <1>3, <2>2 DEF IsJoined
  <1>4. CASE k # 0
    <2>1. k - 1 \in 0 .. h /\ k - 1 \notin Bad /\ k \in 1 .. h
      BY <1>2, <1>4
    <2>2. PICK f : IsJoined(f, parts, k - 1)
      BY <2>1
    <2> DEFINE g == [n \in 0 .. k |-> IF n = k THEN f[k - 1] \o (IF k = 1 THEN << >> ELSE <<Slash>>) \o parts[k] ELSE f[n]]
    <2>3. ASSUME NEW n \in 0 .. k
          PROVE  g[n] = IF n = 0 THEN << >> ELSE g[n - 1] \o (IF n = 1 THEN << >> ELSE <<Slash>>) \o parts[n]
      <3>1. CASE n = k
        <4>1. n # 0 /\ n - 1 \in 0 .. k /\ n - 1 # k
          BY <2>1, <3>1
        <4> QED  BY <3>1, <4>1
      <3>2. CASE n # k
        <4>1. n \in 0 .. (k - 1) /\ (n # 0 => n - 1 \in 0 .. k /\ n - 1 # k)
          BY <2>1, <3>2
        <4>2. f[n] = IF n = 0 THEN << >> ELSE f[n - 1] \o (IF n = 1 THEN << >> ELSE <<Slash>>) \o parts[n]
          BY <2>2, <4>1 DEF IsJoined
        <4> QED  BY <3>2, <4>1, <4>2
      <3> QED  BY <3>1, <3>2
    <2>4. g = [n \in 0 .. k |-> IF n = 0 THEN << >> ELSE g[n - 1] \o (IF n = 1 THEN << >> ELSE <<Slash>>) \o parts[n]]
      <3> HIDE DEF g
      <3>1. g = [n \in 0 .. k |-> g[n]]
        BY DEF g
      <3> QED  BY <2>3, <3>1
    <2> QED  BY <1>2, <2>4 DEF IsJoined
  <1> QED  BY <1>3, <1>4

LEMMA JoinedEnds ==
    ASSUME NEW parts, NEW h \in Nat
    PROVE  \E g : IsJoined(g, parts, h) /\ reconstructed_path(parts, h) = g[h]
PROOF
  <1> DEFINE g == CHOOSE f : f = [j \in 0 .. h |-> IF j = 0 THEN << >>
                      ELSE f[j - 1] \o (IF j = 1 THEN << >> ELSE <<Slash>>) \o parts[j]]
  <1>1. \E f : f = [j \in 0 .. h |-> IF j = 0 THEN << >>
                      ELSE f[j - 1] \o (IF j = 1 THEN << >> ELSE <<Slash>>) \o parts[j]]
    <2>1. PICK f : IsJoined(f, parts, h)
      BY JoinedExists
    <2> QED  BY <2>1, Zenon DEF IsJoined
  <1>2. IsJoined(g, parts, h)
    BY <1>1, Zenon DEF IsJoined
  <1>3. reconstructed_path(parts, h) = g[h]
    BY Zenon DEF reconstructed_path
  <1> HIDE DEF g
  <1> QED  BY <1>2, <1>3

\* Parts that agree are joined alike.
LEMMA JoinedAgree ==
    ASSUME NEW g, NEW f, NEW p, NEW q, NEW m \in Nat, NEW n \in Nat, m <= n,
           IsJoined(g, p, m), IsJoined(f, q, n), \A i \in 1 .. m : p[i] = q[i]
    PROVE  \A i \in 0 .. m : g[i] = f[i]
PROOF
  <1> DEFINE Bad == {i \in 0 .. m : g[i] # f[i]}
  <1>1. SUFFICES ASSUME Bad # {} PROVE FALSE
    OBVIOUS
  <1>2. PICK k \in Bad : \A j \in Bad : k <= j
    <2>1. Bad \subseteq Nat
      OBVIOUS
    <2> QED  BY <1>1, <2>1, LeastExists
  <1>3. k \in 0 .. m /\ k \in 0 .. n /\ g[k] # f[k]
    BY <1>2
  <1>4. g[k] = IF k = 0 THEN << >> ELSE g[k - 1] \o (IF k = 1 THEN << >> ELSE <<Slash>>) \o p[k]
    BY <1>3, Zenon DEF IsJoined
  <1>5. f[k] = IF k = 0 THEN << >> ELSE f[k - 1] \o (IF k = 1 THEN << >> ELSE <<Slash>>) \o q[k]
    BY <1>3, Zenon DEF IsJoined
  <1>6. k # 0
    BY <1>3, <1>4, <1>5
  <1>7. k - 1 \in 0 .. m /\ k - 1 \notin Bad /\ k \in 1 .. m
    BY <1>2, <1>3, <1>6
  <1>8. g[k - 1] = f[k - 1] /\ p[k] = q[k]
    BY <1>7
  <1> QED  BY <1>3, <1>4, <1>5, <1>8

LEMMA SameJoined ==
    ASSUME NEW p, NEW q, NEW n \in Nat, \A i \in 1 .. n : p[i] = q[i]
    PROVE  reconstructed_path(p, n) = reconstructed_path(q, n)
PROOF
  <1>1. PICK g : IsJoined(g, p, n) /\ reconstructed_path(p, n) = g[n]
    BY JoinedEnds
  <1>2. PICK f : IsJoined(f, q, n) /\ reconstructed_path(q, n) = f[n]
    BY JoinedEnds
  <1>3. n \in 0 .. n /\ n <= n
    OBVIOUS
  <1>4. \A i \in 0 .. n : g[i] = f[i]
    BY <1>1, <1>2, <1>3, JoinedAgree
  <1> QED  BY <1>1, <1>2, <1>3, <1>4

LEMMA NoneJoined ==
    ASSUME NEW parts
    PROVE  reconstructed_path(parts, 0) = << >>
PROOF
  <1>1. PICK g : IsJoined(g, parts, 0) /\ reconstructed_path(parts, 0) = g[0]
    BY JoinedEnds
  <1>2. 0 \in 0 .. 0
    OBVIOUS
  <1> QED  BY <1>1, <1>2, Zenon DEF IsJoined

LEMMA OneMoreJoined ==
    ASSUME NEW parts, NEW n \in Nat \ {0}
    PROVE  reconstructed_path(parts, n)
             = reconstructed_path(parts, n - 1) \o (IF n = 1 THEN << >> ELSE <<Slash>>) \o parts[n]
PROOF
  <1>1. PICK g : IsJoined(g, parts, n) /\ reconstructed_path(parts, n) = g[n]
    BY JoinedEnds
  <1>2. n - 1 \in Nat /\ n - 1 <= n /\ n \in 0 .. n /\ n # 0 /\ n - 1 \in 0 .. (n - 1)
    OBVIOUS
  <1>3. PICK f : IsJoined(f, parts, n - 1) /\ reconstructed_path(parts, n - 1) = f[n - 1]
    BY <1>2, JoinedEnds
  <1>4. f[n - 1] = g[n - 1]
    BY <1>1, <1>2, <1>3, JoinedAgree
  <1>5. g[n] = g[n - 1] \o (IF n = 1 THEN << >> ELSE <<Slash>>) \o parts[n]
    BY <1>1, <1>2, Zenon DEF IsJoined
  <1> QED  BY <1>1, <1>3, <1>4, <1>5

\* What is joined is a text, not shorter than what fewer parts give.
LEMMA JoinedGrows ==
    ASSUME NEW parts \in Seq(Texts), NEW n \in 1 .. Len(parts), reconstructed_path(parts, n - 1) \in Texts
    PROVE  /\ reconstructed_path(parts, n) \in Texts
           /\ Len(reconstructed_path(parts, n - 1)) <= Len(reconstructed_path(parts, n))
PROOF
  <1> DEFINE S == Nat \ {NUL}
             s == reconstructed_path(parts, n - 1)
             sep == IF n = 1 THEN << >> ELSE <<Slash>>
  <1>1. parts[n] \in Seq(S) /\ s \in Seq(S)
    BY ElementOfSeq DEF Texts
  <1>2. sep \in Seq(S)
    <2>1. Slash \in S
      BY DEF Slash, NUL
    <2> HIDE DEF S
    <2>2. << >> \in Seq(S) /\ <<Slash>> \in Seq(S)
      BY <2>1
    <2> QED  BY <2>2
  <1> HIDE DEF S, s, sep
  <1>3. /\ s \o sep \in Seq(S) /\ Len(s \o sep) = Len(s) + Len(sep)
        /\ Len(s) \in Nat /\ Len(sep) \in Nat /\ Len(parts[n]) \in Nat
    BY <1>1, <1>2, ConcatProperties, LenProperties
  <1>4. /\ (s \o sep) \o parts[n] \in Seq(S)
        /\ Len((s \o sep) \o parts[n]) = Len(s \o sep) + Len(parts[n])
    BY <1>1, <1>3, ConcatProperties
  <1>5. reconstructed_path(parts, n) = (s \o sep) \o parts[n]
    <2>1. n \in Nat \ {0}
      OBVIOUS
    <2> QED  BY <2>1, OneMoreJoined DEF s, sep
  <1>6. Len(s) <= Len((s \o sep) \o parts[n])
    <2> DEFINE a == Len(s)  b == Len(sep)  c == Len(parts[n])
               d == Len(s \o sep)  e == Len((s \o sep) \o parts[n])
    <2>1. a \in Nat /\ b \in Nat /\ c \in Nat /\ d = a + b /\ e = d + c
      BY <1>3, <1>4
    <2> HIDE DEF a, b, c, d, e
    <2>2. a <= e
      BY <2>1
    <2> QED  BY <2>2 DEF a, e
  <1> QED  BY <1>4, <1>5, <1>6 DEF S, s, Texts

LEMMA JoinedTyped ==
    ASSUME NEW parts \in Seq(Texts)
    PROVE  \A n \in 0 .. Len(parts) : reconstructed_path(parts, n) \in Texts
PROOF
  <1> DEFINE Bad == {n \in 0 .. Len(parts) : reconstructed_path(parts, n) \notin Texts}
  <1>1. SUFFICES ASSUME Bad # {} PROVE FALSE
    OBVIOUS
  <1>2. PICK k \in Bad : \A j \in Bad : k <= j
    <2>1. Bad \subseteq Nat
      BY LenProperties
    <2> QED  BY <1>1, <2>1, LeastExists
  <1>3. CASE k = 0
    <2>1. << >> \in Texts
      BY DEF Texts
    <2> QED  BY <1>2, <1>3, <2>1, NoneJoined
  <1>4. CASE k # 0
    <2>1. k - 1 \in 0 .. Len(parts) /\ k - 1 \notin Bad /\ k \in 1 .. Len(parts)
      BY <1>2, <1>4, LenProperties
    <2> QED  BY <1>2, <2>1, JoinedGrows
  <1> QED  BY <1>3, <1>4

LEMMA JoinedLonger ==
    ASSUME NEW parts \in Seq(Texts), NEW m \in 0 .. Len(parts)
    PROVE  \A n \in m .. Len(parts) :
              Len(reconstructed_path(parts, m)) <= Len(reconstructed_path(parts, n))
PROOF
  <1> DEFINE L(n) == Len(reconstructed_path(parts, n))
             Bad == {n \in m .. Len(parts) : ~ (L(m) <= L(n))}
  <1>1. SUFFICES ASSUME Bad # {} PROVE FALSE
    OBVIOUS
  <1>2. PICK k \in Bad : \A j \in Bad : k <= j
    <2>1. Bad \subseteq Nat
      BY LenProperties
    <2> QED  BY <1>1, <2>1, LeastExists
  <1>3. \A n \in 0 .. Len(parts) : L(n) \in Nat
    BY JoinedTyped, LenProperties DEF Texts
  <1>4. k # m
    BY <1>2, <1>3
  <1>5. k - 1 \in m .. Len(parts) /\ k - 1 \notin Bad /\ k \in 1 .. Len(parts) /\ k - 1 \in 0 .. Len(parts)
    BY <1>2, <1>4, LenProperties
  <1>6. L(m) <= L(k - 1) /\ L(k - 1) <= L(k)
    BY <1>5, JoinedGrows, JoinedTyped
  <1>7. L(m) \in Nat /\ L(k - 1) \in Nat /\ L(k) \in Nat /\ ~ (L(m) <= L(k))
    BY <1>2, <1>3, <1>5
  <1> HIDE DEF L
  <1> QED  BY <1>6, <1>7

\* What one character does to the parts and to what they are joined to.
LEMMA CharAdded ==
    ASSUME NEW parts \in Seq(Texts), Len(parts) >= 1, NEW c \in Nat \ {NUL}
    PROVE  LET L == Len(parts)
               new == AddChar(parts, c)
           IN  /\ new \in Seq(Texts) /\ Len(new) = IF c = Slash THEN L + 1 ELSE L
               /\ reconstructed_path(new, Len(new)) = Append(reconstructed_path(parts, L), c)
               /\ \A n \in 1 .. (Len(new) - 1) : reconstructed_path(new, n) = reconstructed_path(parts, n)
PROOF
  <1> DEFINE L == Len(parts)
             new == AddChar(parts, c)
             s == reconstructed_path(parts, L)
             S == Nat \ {NUL}
  <1>1. L \in Nat /\ L >= 1 /\ L \in 0 .. L /\ L \in 1 .. L /\ L - 1 \in 0 .. L
    BY LenProperties
  <1>2. s \in Texts /\ parts[L] \in Texts /\ reconstructed_path(parts, L - 1) \in Texts
    BY <1>1, JoinedTyped, ElementOfSeq
  <1>3. CASE c = Slash
    <2>1. new = Append(parts, << >>) /\ << >> \in Texts
      BY <1>3 DEF AddChar, Texts
    <2> HIDE DEF new
    <2>2. /\ new \in Seq(Texts) /\ Len(new) = L + 1 /\ new[L + 1] = << >>
          /\ \A i \in 1 .. L : new[i] = parts[i]
      BY <2>1, AppendProperties
    <2> HIDE DEF L
    <2>3. ASSUME NEW n \in 1 .. L PROVE reconstructed_path(new, n) = reconstructed_path(parts, n)
      <3>1. n \in Nat /\ \A i \in 1 .. n : new[i] = parts[i]
        BY <1>1, <2>2
      <3> QED  BY <3>1, SameJoined
    <2>4. reconstructed_path(new, L + 1) = Append(s, c)
      <3>1. L + 1 \in Nat \ {0} /\ L + 1 # 1 /\ (L + 1) - 1 = L
        BY <1>1
      <3>2. reconstructed_path(new, L + 1) = reconstructed_path(new, L) \o <<Slash>> \o << >>
        BY <2>2, <3>1, OneMoreJoined
      <3>3. reconstructed_path(new, L) = s
        BY <1>1, <2>3
      <3>4. s \o <<Slash>> \o << >> = Append(s, Slash)
        <4>1. s \in Seq(S) /\ Slash \in S
          BY <1>2 DEF Texts, Slash, NUL
        <4> HIDE DEF s, S
        <4> QED  BY <4>1
      <3> QED  BY <1>3, <3>2, <3>3, <3>4
    <2>5. L + 1 - 1 = L
      BY <1>1
    <2> QED  BY <1>1, <1>3, <2>2, <2>3, <2>4, <2>5 DEF new, L
  <1>4. CASE c # Slash
    <2>1. new = [parts EXCEPT ![L] = Append(parts[L], c)]
      BY <1>4 DEF AddChar
    <2>2. Append(parts[L], c) \in Texts
      BY <1>2, AppendProperties DEF Texts
    <2> HIDE DEF new
    <2>3. /\ new \in Seq(Texts) /\ Len(new) = L /\ new[L] = Append(parts[L], c)
          /\ \A i \in 1 .. (L - 1) : new[i] = parts[i]
      <3>1. new \in Seq(Texts) /\ Len(new) = L
        BY <1>1, <2>1, <2>2, ExceptSeq
      <3>2. \A i \in 1 .. L : new[i] = IF i = L THEN Append(parts[L], c) ELSE parts[i]
        BY <1>1, <2>1, LenProperties
      <3> HIDE DEF L
      <3> QED  BY <1>1, <3>1, <3>2
    <2> HIDE DEF L
    <2>4. ASSUME NEW n \in 0 .. (L - 1) PROVE reconstructed_path(new, n) = reconstructed_path(parts, n)
      <3>1. n \in Nat /\ \A i \in 1 .. n : new[i] = parts[i]
        BY <1>1, <2>3
      <3> QED  BY <3>1, SameJoined
    <2>5. reconstructed_path(new, L) = Append(s, c)
      <3> DEFINE r == reconstructed_path(parts, L - 1)
                 sep == IF L = 1 THEN << >> ELSE <<Slash>>
                 t == parts[L]
      <3>1. L \in Nat \ {0} /\ L - 1 \in 0 .. (L - 1)
        BY <1>1
      <3>2. s = r \o sep \o t
        BY <3>1, OneMoreJoined DEF L
      <3>3. reconstructed_path(new, L) = r \o sep \o Append(t, c)
        <4>1. reconstructed_path(new, L - 1) = r
          BY <2>4, <3>1
        <4>2. reconstructed_path(new, L) = reconstructed_path(new, L - 1) \o sep \o new[L]
          BY <3>1, OneMoreJoined
        <4> QED  BY <2>3, <4>1, <4>2
      <3>4. r \in Seq(S) /\ t \in Seq(S) /\ sep \in Seq(S)
        <4>1. Slash \in S
          BY DEF Slash, NUL
        <4> HIDE DEF S
        <4>2. << >> \in Seq(S) /\ <<Slash>> \in Seq(S)
          BY <4>1
        <4> QED  BY <1>2, <4>2 DEF Texts, S
      <3>5. r \o sep \o Append(t, c) = Append(r \o sep \o t, c)
        <4>1. c \in S
          OBVIOUS
        <4> HIDE DEF r, sep, t, S
        <4> QED  BY <3>4, <4>1
      <3> QED  BY <3>2, <3>3, <3>5
    <2>6. \A n \in 1 .. (L - 1) : n \in 0 .. (L - 1)
      BY <1>1
    <2> QED  BY <1>1, <1>4, <2>3, <2>4, <2>5, <2>6 DEF new, L
  <1> QED  BY <1>3, <1>4

\* The parts of a text: together they are all of it, and fewer of them are what is in
\* front of a slash.
Whole(parts, s) ==
    /\ parts \in Seq(Texts) /\ Len(parts) >= 1
    /\ reconstructed_path(parts, Len(parts)) = s
    /\ \A t \in Texts :
          IsPrefix(Append(t, Slash), s)
            <=> \E n \in 1 .. (Len(parts) - 1) : reconstructed_path(parts, n) = t

LEMMA WholeBegins == Whole(<<<< >>>>, << >>)
PROOF
  <1>1. << >> \in Texts
    BY DEF Texts
  <1>2. <<<< >>>> \in Seq(Texts) /\ Len(<<<< >>>>) = 1
    BY <1>1
  <1>3. reconstructed_path(<<<< >>>>, 1) = << >>
    <2>1. 1 \in Nat \ {0} /\ 1 - 1 = 0
      OBVIOUS
    <2> DEFINE only == <<<< >>>>
    <2>2. only[1] = << >>
      OBVIOUS
    <2> HIDE DEF only
    <2>3. reconstructed_path(only, 0) = << >>
      BY NoneJoined
    <2>4. reconstructed_path(only, 1)
            = reconstructed_path(only, 1 - 1) \o (IF 1 = 1 THEN << >> ELSE <<Slash>>) \o only[1]
      BY <2>1, OneMoreJoined
    <2>5. reconstructed_path(only, 1) = << >> \o << >> \o << >>
      BY <2>1, <2>2, <2>3, <2>4
    <2> QED  BY <2>5 DEF only
  <1>4. ASSUME NEW t \in Texts
        PROVE  IsPrefix(Append(t, Slash), << >>)
                 <=> \E n \in 1 .. (1 - 1) : reconstructed_path(<<<< >>>>, n) = t
    <2>1. Append(t, Slash) \in Seq(Nat) /\ Len(Append(t, Slash)) = Len(t) + 1 /\ Len(t) \in Nat
      BY AppendProperties, LenProperties DEF Texts, Slash
    <2>2. << >> \in Seq(Nat) /\ Len(<< >>) = 0
      OBVIOUS
    <2>3. ~ IsPrefix(Append(t, Slash), << >>)
      BY <2>1, <2>2 DEF IsPrefix
    <2> QED  BY <2>3
  <1> QED  BY <1>2, <1>3, <1>4 DEF Whole

LEMMA WholeGrows ==
    ASSUME NEW parts, NEW s \in Texts, Whole(parts, s), NEW c \in Nat \ {NUL}
    PROVE  Whole(AddChar(parts, c), Append(s, c))
PROOF
  <1> DEFINE L == Len(parts)
             new == AddChar(parts, c)
             S == Nat \ {NUL}
  <1>1. parts \in Seq(Texts) /\ L >= 1 /\ L \in Nat /\ reconstructed_path(parts, L) = s
    BY LenProperties DEF Whole
  <1>2. /\ new \in Seq(Texts) /\ Len(new) = IF c = Slash THEN L + 1 ELSE L
        /\ reconstructed_path(new, Len(new)) = Append(s, c)
        /\ \A n \in 1 .. (Len(new) - 1) : reconstructed_path(new, n) = reconstructed_path(parts, n)
    BY <1>1, CharAdded
  <1>3. s \in Seq(S) /\ Slash \in S /\ c \in S
    BY DEF Texts, Slash, NUL
  <1>4. ASSUME NEW t \in Texts
        PROVE  IsPrefix(Append(t, Slash), s)
                 <=> \E n \in 1 .. (L - 1) : reconstructed_path(parts, n) = t
    BY DEF Whole
  <1> HIDE DEF L, new, S
  <1>5. Len(new) >= 1
    BY <1>1, <1>2
  <1>6. ASSUME NEW t \in Texts
        PROVE  IsPrefix(Append(t, Slash), Append(s, c))
                 <=> \E n \in 1 .. (Len(new) - 1) : reconstructed_path(new, n) = t
    <2>1. t \in Seq(S) /\ Append(t, Slash) \in Seq(S)
      BY <1>3, AppendProperties DEF Texts, S
    <2>2. IsPrefix(Append(t, Slash), Append(s, c))
            <=> IsPrefix(Append(t, Slash), s) \/ Append(t, Slash) = Append(s, c)
      BY <1>3, <2>1, PrefixGrows
    <2>3. Append(t, Slash) = Append(s, c) <=> t = s /\ c = Slash
      BY <1>3, <2>1, AppendApart
    <2>4. CASE c = Slash
      <3>1. Len(new) - 1 = L /\ L \in 1 .. L /\ \A n \in 1 .. L : n \in 1 .. (L - 1) \/ n = L
        BY <1>1, <1>2, <2>4
      <3>2. \A n \in 1 .. (L - 1) : n \in 1 .. L
        BY <1>1
      <3>3. (\E n \in 1 .. L : reconstructed_path(new, n) = t)
              <=> (\E n \in 1 .. (L - 1) : reconstructed_path(parts, n) = t) \/ s = t
        BY <1>1, <1>2, <3>1, <3>2
      <3> QED  BY <1>4, <2>2, <2>3, <2>4, <3>1, <3>3
    <2>5. CASE c # Slash
      <3>1. Len(new) = L
        BY <1>2, <2>5
      <3> QED  BY <1>2, <1>4, <2>2, <2>3, <2>5, <3>1
    <2> QED  BY <2>4, <2>5
  <1> QED  BY <1>2, <1>5, <1>6 DEF Whole, new

IsParsed(g, path, h) ==
    g = [n \in 0 .. h |-> IF n = 0 THEN <<<< >>>> ELSE AddChar(g[n - 1], path[n])]

LEMMA ParsedExists ==
    ASSUME NEW path, NEW h \in Nat
    PROVE  \E g : IsParsed(g, path, h)
PROOF
  <1> DEFINE Bad == {k \in 0 .. h : ~ \E g : IsParsed(g, path, k)}
  <1>1. SUFFICES ASSUME Bad # {} PROVE FALSE
    <2>1. h \in 0 .. h
      OBVIOUS
    <2> QED  BY <2>1
  <1>2. PICK k \in Bad : \A j \in Bad : k <= j
    <2>1. Bad \subseteq Nat
      OBVIOUS
    <2> QED  BY <1>1, <2>1, LeastExists
  <1>3. CASE k = 0
    <2> DEFINE g == [n \in 0 .. 0 |-> <<<< >>>>]
    <2>1. \A n \in 0 .. 0 : n = 0
      OBVIOUS
    <2>2. g = [n \in 0 .. 0 |-> IF n = 0 THEN <<<< >>>> ELSE AddChar(g[n - 1], path[n])]
      BY <2>1
    <2> QED  BY <1>2, <1>3, <2>2 DEF IsParsed
  <1>4. CASE k # 0
    <2>1. k - 1 \in 0 .. h /\ k - 1 \notin Bad /\ k \in 1 .. h
      BY <1>2, <1>4
    <2>2. PICK f : IsParsed(f, path, k - 1)
      BY <2>1
    <2> DEFINE g == [n \in 0 .. k |-> IF n = k THEN AddChar(f[k - 1], path[k]) ELSE f[n]]
    <2>3. ASSUME NEW n \in 0 .. k
          PROVE  g[n] = IF n = 0 THEN <<<< >>>> ELSE AddChar(g[n - 1], path[n])
      <3>1. CASE n = k
        <4>1. n # 0 /\ n - 1 \in 0 .. k /\ n - 1 # k
          BY <2>1, <3>1
        <4> QED  BY <3>1, <4>1
      <3>2. CASE n # k
        <4>1. n \in 0 .. (k - 1) /\ (n # 0 => n - 1 \in 0 .. k /\ n - 1 # k)
          BY <2>1, <3>2
        <4>2. f[n] = IF n = 0 THEN <<<< >>>> ELSE AddChar(f[n - 1], path[n])
          BY <2>2, <4>1 DEF IsParsed
        <4> QED  BY <3>2, <4>1, <4>2
      <3> QED  BY <3>1, <3>2
    <2>4. g = [n \in 0 .. k |-> IF n = 0 THEN <<<< >>>> ELSE AddChar(g[n - 1], path[n])]
      <3> HIDE DEF g
      <3>1. g = [n \in 0 .. k |-> g[n]]
        BY DEF g
      <3> QED  BY <2>3, <3>1
    <2> QED  BY <1>2, <2>4 DEF IsParsed
  <1> QED  BY <1>3, <1>4

\* A path that is valid is all of its parts.
LEMMA PathParsed ==
    ASSUME NEW path \in Texts, valid(path)
    PROVE  Whole(parse(path), path)
PROOF
  <1> DEFINE h == Len(path)
             g == CHOOSE f : f = [k \in 0 .. h |-> IF k = 0 THEN <<<< >>>> ELSE AddChar(f[k - 1], path[k])]
             Until(n) == SubSeq(path, 1, n)
             Bad == {n \in 0 .. h : ~ Whole(g[n], Until(n))}
  <1>1. h \in Nat /\ h \in 0 .. h /\ path \in Seq(Nat \ {NUL})
    BY LenProperties DEF Texts
  <1>2. parse(path) = g[h]
    BY Zenon DEF parse
  <1>3. IsParsed(g, path, h)
    <2>1. PICK f : IsParsed(f, path, h)
      BY <1>1, ParsedExists
    <2> QED  BY <2>1, Zenon DEF IsParsed
  <1> HIDE DEF g
  <1>4. g[0] = <<<< >>>> /\ \A n \in 1 .. h : g[n] = AddChar(g[n - 1], path[n])
    <2>1. 0 \in 0 .. h /\ \A n \in 1 .. h : n \in 0 .. h /\ n # 0
      BY <1>1
    <2>2. \A n \in 0 .. h : g[n] = IF n = 0 THEN <<<< >>>> ELSE AddChar(g[n - 1], path[n])
      BY <1>3, Zenon DEF IsParsed
    <2> QED  BY <2>1, <2>2, Zenon
  <1>5. Bad = {}
    <2>1. SUFFICES ASSUME Bad # {} PROVE FALSE
      OBVIOUS
    <2>2. PICK n \in Bad : \A m \in Bad : n <= m
      <3>1. Bad \subseteq Nat
        BY <1>1
      <3> QED  BY <2>1, <3>1, LeastExists
    <2>3. n # 0
      <3>1. Until(0) = << >>
        BY <1>1
      <3> QED  BY <1>4, <2>2, <3>1, WholeBegins
    <2>4. n \in 1 .. h /\ n - 1 \in 0 .. h /\ n - 1 \notin Bad /\ ~ Whole(g[n], Until(n))
      BY <1>1, <2>2, <2>3
    <2>5. Whole(g[n - 1], Until(n - 1))
      BY <2>4
    <2>6. /\ path[n] \in Nat \ {NUL} /\ Until(n - 1) \in Texts
          /\ Until(n) = Append(Until(n - 1), path[n])
      <3>1. path[n] \in Nat \ {NUL}
        BY <1>1, <2>4, ElementOfSeq
      <3>2. Until(n - 1) \in Texts
        BY <1>1, <2>4 DEF Texts
      <3>3. Until(n) = Append(Until(n - 1), path[n])
        BY <1>1, <2>4
      <3> QED  BY <3>1, <3>2, <3>3
    <2>7. Whole(AddChar(g[n - 1], path[n]), Append(Until(n - 1), path[n]))
      BY <2>5, <2>6, WholeGrows
    <2> QED  BY <1>4, <2>4, <2>6, <2>7
  <1>6. Until(h) = path
    BY <1>1
  <1> QED  BY <1>1, <1>2, <1>5, <1>6

LEMMA MountedIs ==
    ASSUME NEW s \in Texts, NEW name \in Texts
    PROVE  IsMounted(s, name) <=> s = name
PROOF
  <1>1. ASSUME IsMounted(s, name) PROVE s = name
    <2>1. Len(s) = Len(name) /\ strcmp(s, name) = 0
      BY <1>1 DEF IsMounted, strlen
    <2>2. IsPrefix(s, name)
      BY <2>1, EqualPrefix
    <2>3. \A i \in 1 .. Len(s) : s[i] = name[i]
      BY <2>2, PrefixIs DEF Texts
    <2> QED  BY <2>1, <2>3, SeqEqual DEF Texts
  <1>2. IsMounted(s, s)
    <2>1. Differing(s, s, Len(s)) = {}
      BY DEF Differing
    <2> QED  BY <2>1 DEF IsMounted, strcmp, strncmp, strlen
  <1> QED  BY <1>1, <1>2

\* The names that serve a path are those that its first parts are joined to.
LEMMA ServesParts ==
    ASSUME NEW path \in Texts, valid(path), NEW name \in Texts
    PROVE  Serves(name, path)
             <=> \E n \in 1 .. Len(parse(path)) : reconstructed_path(parse(path), n) = name
PROOF
  <1> DEFINE parts == parse(path)
             L == Len(parts)
  <1>1. Whole(parts, path)
    BY PathParsed
  <1> HIDE DEF parts
  <1>2. L \in Nat /\ L >= 1 /\ reconstructed_path(parts, L) = path
    BY <1>1, LenProperties DEF Whole
  <1>3. IsPrefix(Append(name, Slash), path)
          <=> \E n \in 1 .. (L - 1) : reconstructed_path(parts, n) = name
    BY <1>1 DEF Whole
  <1> HIDE DEF L
  <1>4. L \in 1 .. L /\ \A n \in 1 .. L : n \in 1 .. (L - 1) \/ n = L
    BY <1>2
  <1>5. \A n \in 1 .. (L - 1) : n \in 1 .. L
    BY <1>2
  <1>6. Serves(name, path) <=> \E n \in 1 .. L : reconstructed_path(parts, n) = name
    BY <1>2, <1>3, <1>4, <1>5 DEF Serves
  <1> QED  BY <1>6 DEF parts, L

\* Names of one length that serve one path are the same name.
LEMMA SameServes ==
    ASSUME NEW path \in Texts, NEW s \in Texts, NEW t \in Texts,
           Serves(s, path), Serves(t, path), Len(s) = Len(t)
    PROVE  s = t
PROOF
  <1>1. ASSUME NEW u \in Texts, Serves(u, path) PROVE \A i \in 1 .. Len(u) : u[i] = path[i]
    <2>1. CASE u = path
      BY <2>1
    <2>2. CASE IsPrefix(Append(u, Slash), path)
      <3> DEFINE v == Append(u, Slash)
      <3>1. /\ v \in Seq(Nat) /\ Len(v) = Len(u) + 1 /\ Len(u) \in Nat
            /\ \A i \in 1 .. Len(u) : v[i] = u[i]
        <4>1. u \in Seq(Nat) /\ Slash \in Nat
          BY DEF Texts, Slash
        <4> QED  BY <4>1, AppendProperties, LenProperties
      <3>2. path \in Seq(Nat)
        BY DEF Texts
      <3> HIDE DEF v
      <3>3. \A i \in 1 .. Len(v) : v[i] = path[i]
        BY <2>2, <3>1, <3>2, PrefixIs DEF v
      <3>4. \A i \in 1 .. Len(u) : i \in 1 .. Len(v)
        BY <3>1
      <3> QED  BY <3>1, <3>3, <3>4
    <2> QED  BY <1>1, <2>1, <2>2 DEF Serves
  <1>2. \A i \in 1 .. Len(s) : s[i] = t[i]
    BY <1>1
  <1> QED  BY <1>2, SeqEqual DEF Texts

\* The inductive invariant: no mount is named by more parts than are tried.
OpeningType ==
    opening \in [end : {"none", "refused", "trying", "found", "unmounted"},
                 filename : Texts, parts : Seq(Texts), n : Nat, slot : Nat]
Tried ==
    /\ opening.parts = parse(opening.filename) /\ valid(opening.filename)
    /\ opening.n <= Len(opening.parts)
    /\ \A m \in (opening.n + 1) .. Len(opening.parts) : Slots_of(opening.parts, m) = {}
LookupInv ==
    /\ mounted \in Seq(Texts \ {<< >>})
    /\ OpeningType
    /\ opening.end = "trying" => Tried
    /\ MountsMatch

LEMMA MountedText ==
    ASSUME mounted \in Seq(Texts \ {<< >>}), NEW idx \in DOMAIN mounted
    PROVE  mounted[idx] \in Texts /\ mounted[idx] # << >>
PROOF
  BY ElementOfSeq, LenProperties

LEMMA LookupBegins == LookupInit => LookupInv
PROOF
  <1> SUFFICES ASSUME LookupInit PROVE LookupInv
    OBVIOUS
  <1>1. << >> \in Texts /\ << >> \in Seq(Texts) /\ << >> \in Seq(Texts \ {<< >>})
    BY DEF Texts
  <1>2. OpeningType /\ opening.end = "none"
    BY <1>1 DEF LookupInit, Closed, OpeningType
  <1> QED  BY <1>1, <1>2 DEF LookupInit, LookupInv, MountsMatch

LEMMA MountStep ==
    ASSUME LookupInv, NEW filename \in MountName, mount(filename)
    PROVE  LookupInv'
PROOF
  <1>1. filename \in Texts \ {<< >>}
    BY LookupAssumption DEF Texts
  <1>2. mounted' \in Seq(Texts \ {<< >>})
    BY <1>1, AppendProperties DEF mount, LookupInv
  <1>3. opening' = Closed /\ opening = Closed /\ OpeningType
    BY DEF mount, LookupInv
  <1>4. OpeningType' /\ opening'.end = "none"
    BY <1>3 DEF OpeningType, Closed
  <1> QED  BY <1>2, <1>4 DEF LookupInv, MountsMatch

LEMMA ParseTyped ==
    ASSUME NEW path \in Texts
    PROVE  parse(path) \in Seq(Texts) /\ (Len(parse(path)) >= 2 => valid(path))
PROOF
  <1>1. CASE valid(path)
    BY <1>1, PathParsed DEF Whole
  <1>2. CASE ~valid(path)
    <2>1. parse(path) = << >>
      BY <1>2, Zenon DEF parse
    <2> QED  BY <2>1
  <1> QED  BY <1>1, <1>2

LEMMA FopenStep ==
    ASSUME LookupInv, NEW filename \in Filename, NEW str_mode, fopen(filename, str_mode)
    PROVE  LookupInv'
PROOF
  <1> DEFINE parts == parse(filename)
             L == Len(parts)
  <1>1. filename \in Texts /\ parts \in Seq(Texts) /\ L \in Nat /\ (L >= 2 => valid(filename))
    <2>1. filename \in Texts
      BY LookupAssumption DEF Texts
    <2> QED  BY <2>1, ParseTyped, LenProperties
  <1>2. PICK end \in {"refused", "trying"} :
          /\ opening' = [end |-> end, filename |-> filename, parts |-> parts, n |-> L, slot |-> 0]
          /\ end = "trying" => ~ (L < 2)
    BY DEF fopen
  <1>3. mounted' = mounted /\ mounted \in Seq(Texts \ {<< >>})
    BY DEF fopen, LookupInv
  <1> HIDE DEF parts, L
  <1>4. OpeningType'
    BY <1>1, <1>2 DEF OpeningType
  <1>5. opening'.end = end /\ opening'.filename = filename /\ opening'.parts = parts /\ opening'.n = L
    BY <1>2
  <1>6. opening'.end = "trying" => Tried'
    <2>1. L <= L /\ \A m \in (L + 1) .. L : FALSE
      BY <1>1
    <2> QED  BY <1>1, <1>2, <1>5, <2>1 DEF Tried, parts, L
  <1>7. MountsMatch'
    BY <1>2, <1>5 DEF MountsMatch
  <1> QED  BY <1>3, <1>4, <1>6, <1>7 DEF LookupInv

\* The first slot of those that have the name.
LEMMA FirstSlotFound ==
    ASSUME LookupInv, NEW parts, NEW n, Slots_of(parts, n) # {}
    PROVE  /\ FirstSlot(parts, n) \in Slots_of(parts, n)
           /\ \A other \in Slots_of(parts, n) : FirstSlot(parts, n) <= other
PROOF
  <1>1. Slots_of(parts, n) \subseteq Nat
    BY LenProperties DEF Slots_of, LookupInv
  <1>2. \E idx \in Slots_of(parts, n) : \A other \in Slots_of(parts, n) : idx <= other
    BY <1>1, LeastExists
  <1> QED  BY <1>2, Zenon DEF FirstSlot

\* A slot that serves the path has the name of some of its parts, not of more than
\* are tried.
LEMMA ServesTried ==
    ASSUME LookupInv, opening.end = "trying", NEW idx \in DOMAIN mounted,
           Serves(mounted[idx], opening.filename)
    PROVE  \E m \in 1 .. opening.n :
              /\ reconstructed_path(opening.parts, m) = mounted[idx]
              /\ idx \in Slots_of(opening.parts, m)
PROOF
  <1> DEFINE parts == opening.parts
  <1>1. /\ opening.filename \in Texts /\ valid(opening.filename) /\ parts = parse(opening.filename)
        /\ parts \in Seq(Texts) /\ opening.n \in Nat /\ opening.n <= Len(parts) /\ Len(parts) \in Nat
    BY LenProperties DEF LookupInv, OpeningType, Tried
  <1>2. mounted[idx] \in Texts
    BY MountedText DEF LookupInv
  <1>3. PICK m \in 1 .. Len(parts) : reconstructed_path(parts, m) = mounted[idx]
    BY <1>1, <1>2, ServesParts
  <1>4. idx \in Slots_of(parts, m)
    BY <1>2, <1>3, MountedIs DEF Slots_of
  <1>5. m \notin (opening.n + 1) .. Len(parts)
    BY <1>4 DEF LookupInv, Tried
  <1>6. m \in 1 .. opening.n
    BY <1>1, <1>5
  <1> QED  BY <1>3, <1>4, <1>6

LEMMA FoundStep ==
    ASSUME LookupInv, mount_found
    PROVE  LookupInv'
PROOF
  <1> DEFINE parts == opening.parts
             n == opening.n
             path == opening.filename
             slot == FirstSlot(parts, n)
  <1>1. /\ path \in Texts /\ valid(path) /\ parts = parse(path) /\ opening.end = "trying"
        /\ parts \in Seq(Texts) /\ n \in Nat /\ n <= Len(parts) /\ Len(parts) \in Nat
    BY LenProperties DEF LookupInv, OpeningType, Tried, mount_found
  <1>2. slot \in Slots_of(parts, n) /\ \A other \in Slots_of(parts, n) : slot <= other
    BY FirstSlotFound DEF mount_found
  <1>3. mounted' = mounted /\ opening' = [opening EXCEPT !.end = "found", !.slot = slot]
    BY DEF mount_found
  <1> HIDE DEF slot
  <1>4. slot \in DOMAIN mounted /\ slot \in Nat /\ mounted[slot] \in Texts /\ mounted[slot] # << >>
    <2>1. slot \in DOMAIN mounted
      BY <1>2 DEF Slots_of
    <2> QED  BY <2>1, MountedText, LenProperties DEF LookupInv
  <1>5. n \in 0 .. Len(parts) /\ reconstructed_path(parts, n) \in Texts
    BY <1>1, JoinedTyped
  <1>6. reconstructed_path(parts, n) = mounted[slot]
    BY <1>2, <1>4, <1>5, MountedIs DEF Slots_of
  <1>7. n \in 1 .. Len(parts)
    <2>1. n # 0
      BY <1>4, <1>6, NoneJoined
    <2> QED  BY <1>1, <2>1
  <1>8. Serves(mounted[slot], path)
    BY <1>1, <1>4, <1>6, <1>7, ServesParts
  <1>9. ASSUME NEW idx \in DOMAIN mounted, Serves(mounted[idx], path)
        PROVE  \/ Len(mounted[idx]) < Len(mounted[slot])
               \/ mounted[idx] = mounted[slot] /\ slot <= idx
    <2>1. PICK m \in 1 .. n : /\ reconstructed_path(parts, m) = mounted[idx]
                              /\ idx \in Slots_of(parts, m)
      BY <1>1, <1>9, ServesTried
    <2>2. Len(mounted[idx]) <= Len(mounted[slot])
      <3>1. m \in 0 .. Len(parts) /\ n \in m .. Len(parts)
        BY <1>1, <2>1
      <3> QED  BY <1>1, <1>6, <2>1, <3>1, JoinedLonger
    <2>3. mounted[idx] \in Texts /\ Len(mounted[idx]) \in Nat /\ Len(mounted[slot]) \in Nat
      BY <1>4, MountedText, LenProperties DEF LookupInv, Texts
    <2>4. CASE Len(mounted[idx]) = Len(mounted[slot])
      <3>1. mounted[idx] = mounted[slot]
        BY <1>1, <1>4, <1>8, <1>9, <2>3, <2>4, SameServes
      <3>2. idx \in Slots_of(parts, n)
        BY <1>4, <1>5, <1>6, <3>1, MountedIs DEF Slots_of
      <3> QED  BY <1>2, <3>1, <3>2
    <2> QED  BY <2>2, <2>3, <2>4
  <1>10. /\ opening'.end = "found" /\ opening'.slot = slot /\ opening'.filename = path
         /\ OpeningType'
    <2>1. OpeningType
      BY DEF LookupInv
    <2> QED  BY <1>3, <1>4, <2>1 DEF OpeningType
  <1>11. MountsMatch'
    BY <1>3, <1>8, <1>9, <1>10 DEF MountsMatch, Serves
  <1> QED  BY <1>3, <1>10, <1>11 DEF LookupInv

LEMMA LessStep ==
    ASSUME LookupInv, one_part_less
    PROVE  LookupInv'
PROOF
  <1> DEFINE parts == opening.parts
             n == opening.n
             path == opening.filename
  <1>1. /\ opening.end = "trying" /\ n \in Nat /\ Len(parts) \in Nat /\ OpeningType /\ Tried
        /\ Slots_of(parts, n) = {} /\ mounted' = mounted /\ mounted \in Seq(Texts \ {<< >>})
    BY LenProperties DEF LookupInv, OpeningType, one_part_less
  <1>2. \A m \in Nat : Slots_of(parts, m)' = Slots_of(parts', m)
    BY <1>1 DEF Slots_of
  <1>3. CASE n = 0
    <2>1. opening' = [opening EXCEPT !.end = "unmounted"]
      BY <1>3 DEF one_part_less
    <2>2. opening'.end = "unmounted" /\ opening'.filename = path /\ OpeningType'
      BY <1>1, <2>1 DEF OpeningType
    <2>3. \A idx \in DOMAIN mounted : ~ Serves(mounted[idx], path)
      <3>1. \A m \in 1 .. n : FALSE
        BY <1>3
      <3> QED  BY <1>1, <3>1, ServesTried
    <2>4. MountsMatch'
      BY <1>1, <2>2, <2>3 DEF MountsMatch, Serves
    <2> QED  BY <1>1, <2>2, <2>4 DEF LookupInv
  <1>4. CASE n # 0
    <2>1. opening' = [opening EXCEPT !.n = n - 1]
      BY <1>4 DEF one_part_less
    <2>2. n - 1 \in Nat
      BY <1>1, <1>4
    <2>3. /\ opening'.end = "trying" /\ opening'.filename = path /\ opening'.parts = parts
          /\ opening'.n = n - 1 /\ OpeningType'
      BY <1>1, <2>1, <2>2 DEF OpeningType
    <2>4. \A m \in (n - 1 + 1) .. Len(parts) : m = n \/ m \in (n + 1) .. Len(parts)
      BY <1>1
    <2>5. \A m \in (n - 1 + 1) .. Len(parts) : Slots_of(parts, m) = {}
      BY <1>1, <2>4 DEF Tried
    <2>6. n - 1 <= Len(parts) /\ parts = parse(path) /\ valid(path)
      BY <1>1, <2>2 DEF Tried
    <2>7. Tried'
      BY <1>1, <2>3, <2>5, <2>6 DEF Tried, Slots_of
    <2>8. MountsMatch'
      BY <2>3 DEF MountsMatch
    <2> QED  BY <1>1, <2>3, <2>7, <2>8 DEF LookupInv
  <1> QED  BY <1>3, <1>4

LEMMA LookupStep ==
    ASSUME LookupInv, [LookupNext]_lookup
    PROVE  LookupInv'
PROOF
  <1>1. CASE UNCHANGED lookup
    BY <1>1 DEF lookup, LookupInv, OpeningType, Tried, MountsMatch, Slots_of
  <1>2. CASE \E filename \in MountName : mount(filename)
    BY <1>2, MountStep
  <1>3. CASE \E filename \in Filename, str_mode \in Openmode : fopen(filename, str_mode)
    BY <1>3, FopenStep
  <1>4. CASE mount_found
    BY <1>4, FoundStep
  <1>5. CASE one_part_less
    BY <1>5, LessStep
  <1>6. CASE fopen_returns
    <2>1. mounted' = mounted /\ opening' = Closed
      BY <1>6 DEF fopen_returns
    <2>2. << >> \in Texts /\ << >> \in Seq(Texts)
      BY DEF Texts
    <2>3. OpeningType' /\ opening'.end = "none"
      BY <2>1, <2>2 DEF OpeningType, Closed
    <2> QED  BY <2>1, <2>3 DEF LookupInv, MountsMatch
  <1> QED  BY <1>1, <1>2, <1>3, <1>4, <1>5, <1>6 DEF LookupNext

\* An open finds the mount that serves its path: with the longest name, and the first
\* of that name; it finds none only when none serves it.  For every path, every table
\* of mounts and every order of mounts and opens.
THEOREM LookupMountsMatch == LookupSpec => []MountsMatch
PROOF
  <1>1. LookupInv /\ [LookupNext]_lookup => LookupInv'
    BY LookupStep
  <1>2. LookupInv => MountsMatch
    BY DEF LookupInv
  <1> QED  BY <1>1, <1>2, LookupBegins, PTL DEF LookupSpec
----------------------------------------------------------------------------
\* What an open finds.

\* Names compare equal when they differ in none of the characters that are compared.
LEMMA ComparedEqual ==
    ASSUME NEW s \in Texts, NEW t \in Texts, NEW n \in Nat
    PROVE  (istrncmp(s, t, n) = 0) = \A i \in 1 .. n : tolower(At(s, i)) = tolower(At(t, i))
PROOF
  <1> DEFINE differing == {i \in 1 .. n : tolower(At(s, i)) # tolower(At(t, i))}
             i == CHOOSE i \in differing : \A j \in differing : i <= j
  <1>1. CASE differing = {}
    <2>1. istrncmp(s, t, n) = 0
      BY <1>1, Zenon DEF istrncmp
    <2> QED  BY <1>1, <2>1
  <1>2. CASE differing # {}
    <2>1. istrncmp(s, t, n) = At(s, i) - At(t, i)
      BY <1>2, Zenon DEF istrncmp
    <2>2. differing \subseteq Nat
      OBVIOUS
    <2>3. \E k \in differing : \A j \in differing : k <= j
      BY <1>2, <2>2, LeastExists
    <2>4. i \in differing
      BY <2>3, Zenon
    <2> HIDE DEF i
    <2>5. At(s, i) \in Nat /\ At(t, i) \in Nat
      <3>1. s \in Seq(Nat) /\ t \in Seq(Nat)
        BY DEF Texts
      <3> QED  BY <2>4, <3>1, ElementOfSeq, LenProperties DEF At, NUL
    <2>6. At(s, i) # At(t, i)
      BY <2>4
    <2>7. istrncmp(s, t, n) # 0
      BY <2>1, <2>5, <2>6
    <2> QED  BY <2>4, <2>7
  <1> QED  BY <1>1, <1>2

LEMMA CharacterThere ==
    ASSUME NEW s \in Texts, NEW i \in Nat \ {0}
    PROVE  /\ (tolower(At(s, i)) = 0) = (i > Len(s))
           /\ i <= Len(s) => At(s, i) = s[i]
           /\ i > Len(s) => At(s, i) = 0
PROOF
  <1>1. DOMAIN s = 1 .. Len(s) /\ Len(s) \in Nat /\ \A j \in 1 .. Len(s) : s[j] \in Nat /\ s[j] # 0
    BY LenProperties, ElementOfSeq DEF Texts, NUL
  <1>2. CASE i <= Len(s)
    <2>1. At(s, i) = s[i] /\ s[i] \in Nat /\ s[i] # 0
      BY <1>1, <1>2 DEF At
    <2>2. tolower(s[i]) # 0
      BY <2>1 DEF tolower
    <2> QED  BY <1>1, <1>2, <2>1, <2>2
  <1>3. CASE i > Len(s)
    <2>1. At(s, i) = 0
      BY <1>1, <1>3 DEF At, NUL
    <2>2. tolower(0) = 0
      BY DEF tolower
    <2> QED  BY <1>1, <1>3, <2>1, <2>2
  <1> QED  BY <1>1, <1>2, <1>3

\* Two names of the same part are not told apart.
LEMMA BothMatch ==
    ASSUME NEW s \in Texts, NEW t \in Texts, NEW p \in Texts, NEW n \in Nat,
           istrncmp(s, p, n) = 0, istrncmp(t, p, n) = 0
    PROVE  istrncmp(s, t, n) = 0
PROOF
  <1>1. \A i \in 1 .. n : tolower(At(s, i)) = tolower(At(p, i))
    BY ComparedEqual
  <1>2. \A i \in 1 .. n : tolower(At(t, i)) = tolower(At(p, i))
    BY ComparedEqual
  <1>3. \A i \in 1 .. n : tolower(At(s, i)) = tolower(At(t, i))
    BY <1>1, <1>2
  <1>4. (istrncmp(s, t, n) = 0) = \A i \in 1 .. n : tolower(At(s, i)) = tolower(At(t, i))
    BY ComparedEqual
  <1> QED  BY <1>3, <1>4

\* A part that is compared to its end matches the names that are the same but for case.
LEMMA MatchNames ==
    ASSUME NEW s \in Texts, NEW p \in Texts, NEW n \in Nat,
           Len(p) <= n, Len(p) = n => Len(s) <= n
    PROVE  (istrncmp(s, p, n) = 0) = (Lowercase(s) = Lowercase(p))
PROOF
  <1> DEFINE a == Len(s)
             b == Len(p)
  <1>1. DOMAIN s = 1 .. a /\ DOMAIN p = 1 .. b /\ a \in Nat /\ b \in Nat
    <2>1. s \in Seq(Nat \ {NUL}) /\ p \in Seq(Nat \ {NUL})
      BY DEF Texts
    <2> QED  BY <2>1, LenProperties
  <1>2. Lowercase(s) = [i \in 1 .. a |-> tolower(s[i])] /\ Lowercase(p) = [i \in 1 .. b |-> tolower(p[i])]
    BY <1>1, Zenon DEF Lowercase
  <1>3. ASSUME NEW i \in Nat \ {0}
        PROVE  /\ (tolower(At(s, i)) = 0) = (i > a) /\ (tolower(At(p, i)) = 0) = (i > b)
               /\ i <= a => At(s, i) = s[i]
               /\ i <= b => At(p, i) = p[i]
               /\ i > a => At(s, i) = 0
               /\ i > b => At(p, i) = 0
    BY CharacterThere
  <1>4. b <= n /\ (b = n => a <= n)
    OBVIOUS
  <1> HIDE DEF a, b
  <1>5. ASSUME \A i \in 1 .. n : tolower(At(s, i)) = tolower(At(p, i))
        PROVE  Lowercase(s) = Lowercase(p)
    <2>1. ASSUME NEW i \in 1 .. n PROVE (i > a) = (i > b)
      <3>1. i \in Nat \ {0}
        OBVIOUS
      <3> QED  BY <1>3, <1>5, <3>1
    <2>2. a = b
      <3>1. CASE a < b
        <4>1. b \in 1 .. n /\ b > a /\ ~ (b > b)
          BY <1>1, <1>4, <3>1
        <4> QED  BY <2>1, <4>1
      <3>2. CASE a > b /\ b = n
        BY <1>1, <1>4, <3>2
      <3>3. CASE a > b /\ b # n
        <4>1. b + 1 \in 1 .. n /\ b + 1 > b /\ ~ (b + 1 > a)
          BY <1>1, <1>4, <3>3
        <4> QED  BY <2>1, <4>1
      <3> QED  BY <1>1, <3>1, <3>2, <3>3
    <2>3. ASSUME NEW i \in 1 .. b PROVE tolower(s[i]) = tolower(p[i])
      <3>1. i \in 1 .. n /\ i \in Nat \ {0} /\ i <= a /\ i <= b
        BY <1>1, <1>4, <2>2
      <3>2. At(s, i) = s[i] /\ At(p, i) = p[i]
        BY <1>3, <3>1
      <3> QED  BY <1>5, <3>1, <3>2
    <2> QED  BY <1>2, <2>2, <2>3
  <1>6. ASSUME Lowercase(s) = Lowercase(p), NEW i \in 1 .. n
        PROVE  tolower(At(s, i)) = tolower(At(p, i))
    <2>1. 1 .. a = 1 .. b
      BY <1>2, <1>6
    <2>2. a = b
      <3>1. CASE a < b
        <4>1. b \in 1 .. b /\ b \notin 1 .. a
          BY <1>1, <3>1
        <4> QED  BY <2>1, <4>1
      <3>2. CASE b < a
        <4>1. a \in 1 .. a /\ a \notin 1 .. b
          BY <1>1, <3>2
        <4> QED  BY <2>1, <4>1
      <3> QED  BY <1>1, <3>1, <3>2
    <2>3. i \in Nat \ {0}
      OBVIOUS
    <2>4. CASE i <= b
      <3>1. i \in 1 .. b /\ i \in 1 .. a
        BY <1>1, <2>2, <2>3, <2>4
      <3>2. Lowercase(s)[i] = tolower(s[i]) /\ Lowercase(p)[i] = tolower(p[i])
        BY <1>2, <3>1
      <3>3. At(s, i) = s[i] /\ At(p, i) = p[i]
        BY <1>3, <2>2, <2>3, <2>4
      <3> QED  BY <1>6, <3>2, <3>3
    <2>5. CASE i > b
      <3>1. At(s, i) = 0 /\ At(p, i) = 0
        BY <1>3, <2>2, <2>3, <2>5
      <3> QED  BY <3>1
    <2> QED  BY <1>1, <2>3, <2>4, <2>5
  <1>7. (istrncmp(s, p, n) = 0) = \A i \in 1 .. n : tolower(At(s, i)) = tolower(At(p, i))
    BY ComparedEqual
  <1> QED  BY <1>5, <1>6, <1>7

\* The first zero ends what is read of a directory.
LEMMA ZeroFirst ==
    ASSUME NEW S, NEW slots \in Seq(S), Ends(slots)
    PROVE  /\ FirstZero(slots) \in DOMAIN slots
           /\ IsZero(slots[FirstZero(slots)])
           /\ \A j \in 1 .. (FirstZero(slots) - 1) : ~IsZero(slots[j])
PROOF
  <1> DEFINE Zeros == {i \in DOMAIN slots : IsZero(slots[i])}
  <1>1. DOMAIN slots = 1 .. Len(slots) /\ Len(slots) \in Nat
    OBVIOUS
  <1>2. PICK z \in Zeros : \A t \in Zeros : z <= t
    <2>1. Zeros \subseteq Nat /\ Zeros # {}
      BY <1>1 DEF Ends
    <2> QED  BY <2>1, LeastExists
  <1>3. \E i \in DOMAIN slots : IsZero(slots[i]) /\ \A j \in 1 .. (i - 1) : ~IsZero(slots[j])
    <2>1. ASSUME NEW j \in 1 .. (z - 1), IsZero(slots[j]) PROVE FALSE
      <3>1. j \in Zeros /\ j < z
        BY <1>1, <1>2, <2>1
      <3> QED  BY <1>1, <1>2, <3>1
    <2> QED  BY <1>2, <2>1
  <1> QED  BY <1>3, Zenon DEF FirstZero

\* Entries that are there, and none of them deleted.
Undeleted(slots) == \A i \in DOMAIN UpToZero(slots) : UpToZero(slots)[i].kind # "deleted"

\* Where none was deleted, as many are counted as there are in front of the zero.
LEMMA LiveRead ==
    ASSUME NEW S, NEW slots \in Seq(S), Ends(slots), Undeleted(slots)
    PROVE  LET live == UpToZero(slots)
           IN  /\ live = SubSeq(slots, 1, total_items(slots))
               /\ live \in Seq(S) /\ Len(live) = total_items(slots)
               /\ total_items(slots) \in Nat /\ total_items(slots) <= Len(slots)
               /\ \A i \in 1 .. Len(live) : ~IsZero(live[i])
PROOF
  <1> DEFINE z == FirstZero(slots)
             n == z - 1
             a == Len(slots)
             live == UpToZero(slots)
  <1>1. /\ z \in 1 .. a /\ a \in Nat /\ \A i \in 1 .. a : slots[i] \in S
        /\ \A j \in 1 .. (z - 1) : ~IsZero(slots[j])
    BY ZeroFirst
  <1>2. live = SubSeq(slots, 1, n)
    BY DEF UpToZero
  <1>3. total_items(slots) = Cardinality({i \in 1 .. n : slots[i].kind # "deleted"})
    BY DEF total_items
  <1> HIDE DEF z, a
  <1>4. n \in Nat /\ n <= a
    BY <1>1
  <1>5. \A j \in 1 .. n : ~IsZero(slots[j]) /\ j \in 1 .. a
    BY <1>1
  <1> HIDE DEF n
  <1>6. Len(live) = n
    BY <1>2, <1>4, SubSeqProperties DEF a
  <1>7. \A i \in 1 .. n : live[i] = slots[i]
    BY <1>2, <1>4, SubSeqProperties DEF a
  <1>8. live \in Seq(S)
    <2>1. \A i \in 1 .. n : slots[i] \in S
      BY <1>1, <1>5
    <2> QED  BY <1>2, <1>4, <2>1, SubSeqProperties DEF a
  <1> HIDE DEF live
  <1>9. DOMAIN live = 1 .. n
    BY <1>6, <1>8
  <1>10. total_items(slots) = n
    <2>1. \A i \in 1 .. n : slots[i].kind # "deleted"
      BY <1>7, <1>9 DEF Undeleted, live
    <2>2. {i \in 1 .. n : slots[i].kind # "deleted"} = 1 .. n
      BY <2>1
    <2>3. Cardinality(1 .. n) = n
      BY <1>4, FS_Interval
    <2> QED  BY <1>3, <2>2, <2>3, Zenon
  <1>11. \A i \in 1 .. n : ~IsZero(live[i])
    BY <1>5, <1>7
  <1> QED  BY <1>2, <1>4, <1>6, <1>8, <1>10, <1>11 DEF live, a

\* A regular directory of the partition is loaded with what is meant to be in it.
LEMMA RegularLoaded ==
    ASSUME image \in Partitions, NEW w, IsWalk(w), w.end = "running", NEW e \in Entries,
           IsSubdirectory(e), e.first \in Cluster
    PROVE  LET v == load_fat_directory(w, e)
           IN  /\ w.full => v.full
               /\ v.end = "running" => v.item.entry = e /\ v.item.kind = "directory"
               /\ v.end = "running" /\ Regular(e) => v.item.list = UpToZero(SlotsOf(e))
               /\ ~v.full /\ Regular(e) => v.end = "running"
PROOF
  <1> DEFINE counted == OnDisk(e.first)
             chain == OnChain(e.first)
             at == Lowest(w.heap)
             allocated == kzalloc(w.heap, "directory")
             next == Lowest(allocated)
             filled == kzalloc(allocated, "entries")
             list == SubSeq(chain, 1, total_items(counted))
             item == [kind |-> "directory", entry |-> e, objects |-> {at, next}, list |-> list]
             v == load_fat_directory(w, e)
  <1>1. counted \in Seq(Entries) /\ chain \in Seq(Entries)
    BY DiskSlots, ChainSlots
  <1>2. ASSUME Regular(e)
        PROVE  /\ Ends(counted) /\ list = UpToZero(SlotsOf(e))
               /\ ~(total_items(counted) > Len(chain))
    <2>1. SlotsOf(e) = chain
      BY DEF SlotsOf, IsSubdirectory
    <2> HIDE DEF counted, chain
    <2>2. /\ Ends(chain) /\ Ends(counted) /\ UpToZero(counted) = UpToZero(chain)
          /\ Undeleted(chain) /\ Undeleted(counted)
      <3>1. /\ Ends(chain) /\ Ends(counted) /\ UpToZero(counted) = UpToZero(chain)
            /\ \A i \in DOMAIN UpToZero(chain) : UpToZero(chain)[i].kind # "deleted"
        BY <1>2, <2>1 DEF Regular, IsSubdirectory, counted
      <3> QED  BY <3>1 DEF Undeleted
    <2>3. /\ Len(UpToZero(counted)) = total_items(counted)
      BY <1>1, <2>2, LiveRead
    <2>4. /\ Len(UpToZero(chain)) = total_items(chain)
          /\ UpToZero(chain) = SubSeq(chain, 1, total_items(chain))
          /\ total_items(chain) \in Nat /\ total_items(chain) <= Len(chain)
      BY <1>1, <2>2, LiveRead
    <2>5. total_items(counted) = total_items(chain)
      BY <2>2, <2>3, <2>4
    <2>6. Len(chain) \in Nat
      BY <1>1
    <2> QED  BY <2>1, <2>2, <2>4, <2>5, <2>6
  <1>3. CASE ~Ends(counted)
    <2>1. v = [w EXCEPT !.end = "hung"]
      BY <1>3 DEF load_fat_directory
    <2>2. v.full = w.full /\ v.end # "running"
      BY <2>1 DEF IsWalk
    <2> QED  BY <1>2, <1>3, <2>2
  <1>4. CASE Ends(counted) /\ Cardinality(Room(w.heap)) < 2
    <2>1. v = [w EXCEPT !.end = "wild", !.full = TRUE]
      BY <1>4 DEF load_fat_directory
    <2>2. v.full /\ v.end # "running"
      BY <2>1 DEF IsWalk
    <2> QED  BY <2>2
  <1>5. CASE Ends(counted) /\ ~(Cardinality(Room(w.heap)) < 2) /\ total_items(counted) > Len(chain)
    <2>1. v = [w EXCEPT !.end = "panic"]
      BY <1>5 DEF load_fat_directory
    <2>2. v.full = w.full /\ v.end # "running"
      BY <2>1 DEF IsWalk
    <2> QED  BY <1>2, <1>5, <2>2
  <1>6. CASE Ends(counted) /\ ~(Cardinality(Room(w.heap)) < 2) /\ ~(total_items(counted) > Len(chain))
    <2>1. v = [w EXCEPT !.heap = filled, !.item = item]
      BY <1>6, Zenon DEF load_fat_directory
    <2> HIDE DEF list, filled, at, next
    <2>2. v.full = w.full /\ v.end = "running" /\ v.item = item
      BY <2>1 DEF IsWalk
    <2>3. item.entry = e /\ item.kind = "directory" /\ item.list = list
      OBVIOUS
    <2> HIDE DEF item, v
    <2> QED  BY <1>2, <2>2, <2>3 DEF v
  <1> QED  BY <1>3, <1>4, <1>5, <1>6

\* What a walk is when it has come to an entry.
CameTo(v, e) ==
    /\ v.item.entry = e
    /\ v.item.kind = IF IsSubdirectory(e) THEN "directory" ELSE "file"
    /\ IsSubdirectory(e) => e.first \in Cluster
    /\ IsSubdirectory(e) /\ Regular(e) => v.item.list = UpToZero(SlotsOf(e))

Arrives(w, v, e) ==
    /\ w.full => v.full
    /\ v.end = "running" /\ v.item # Null => CameTo(v, e)
    /\ ~v.full /\ (IsSubdirectory(e) => Regular(e)) => v.end = "running" /\ v.item # Null

LEMMA EntryArrives ==
    ASSUME image \in Partitions, NEW w, IsWalk(w), w.end = "running", NEW e \in Entries,
           IsSubdirectory(e) => e.first \in Cluster
    PROVE  Arrives(w, new_fat_item(w, e), e)
PROOF
  <1> DEFINE mem == kzalloc(w.heap, "item")
             taken == [w EXCEPT !.heap = mem, !.twice = @ \/ w.item.kind # "null"]
             v == new_fat_item(w, e)
  <1>1. w.heap \in Memory /\ w.item \in Items /\ w.twice \in BOOLEAN
    BY DEF IsWalk
  <1>2. CASE Room(w.heap) = {}
    <2>1. v = [w EXCEPT !.item = Null, !.full = TRUE]
      BY <1>2 DEF new_fat_item
    <2>2. v.full /\ v.item = Null
      BY <2>1 DEF IsWalk
    <2> QED  BY <2>2, Zenon DEF Arrives
  <1>3. CASE Room(w.heap) # {}
    <2>1. "item" \in Kinds
      BY DEF Kinds
    <2>2. mem \in Memory
      BY <1>1, <2>1, KindsChange
    <2> DEFINE twice == w.twice \/ w.item.kind # "null"
    <2>3. twice \in BOOLEAN
      BY <1>1, ItemKinds
    <2> HIDE DEF twice, mem
    <2>4. IsWalk(taken) /\ taken.end = "running" /\ taken.full = w.full /\ taken.heap = mem
      <3>1. taken = [w EXCEPT !.heap = mem, !.twice = twice]
        BY DEF twice, IsWalk
      <3> HIDE DEF taken
      <3> QED  BY <2>2, <2>3, <3>1 DEF IsWalk
    <2> HIDE DEF taken
    <2>5. CASE IsSubdirectory(e)
      <3>1. v = load_fat_directory(taken, e)
        BY <1>3, <2>5, Zenon DEF new_fat_item, taken, mem
      <3> HIDE DEF v
      <3>2. /\ taken.full => v.full
            /\ v.end = "running" => v.item.entry = e /\ v.item.kind = "directory"
            /\ v.end = "running" /\ Regular(e) => v.item.list = UpToZero(SlotsOf(e))
            /\ ~v.full /\ Regular(e) => v.end = "running"
        BY <2>4, <2>5, <3>1, RegularLoaded, Zenon
      <3>3. v.end = "running" => v.item # Null
        BY <2>4, <2>5, <3>1, DirectoryLoaded, Zenon
      <3> QED  BY <2>4, <2>5, <3>2, <3>3 DEF Arrives, CameTo, v
    <2>6. CASE ~IsSubdirectory(e)
      <3>1. v = clone_directory_item(taken, e)
        BY <1>3, <2>6, Zenon DEF new_fat_item, taken, mem
      <3> HIDE DEF v
      <3>2. CASE Room(mem) = {}
        <4>1. v = [taken EXCEPT !.end = "wild", !.full = TRUE]
          BY <2>4, <3>1, <3>2 DEF clone_directory_item
        <4>2. v.full /\ v.end # "running"
          BY <2>4, <4>1 DEF IsWalk
        <4> QED  BY <4>2, Zenon DEF Arrives, v
      <3>3. CASE Room(mem) # {}
        <4> DEFINE item == [kind |-> "file", entry |-> e, objects |-> {Lowest(mem)}]
        <4>1. v = [taken EXCEPT !.heap = kzalloc(mem, "file"), !.item = item]
          BY <2>4, <3>1, <3>3 DEF clone_directory_item
        <4>2. item # Null /\ item.kind = "file" /\ item.entry = e
          BY DEF Null
        <4> HIDE DEF item
        <4>3. v.full = w.full /\ v.end = "running" /\ v.item = item
          BY <2>4, <4>1 DEF IsWalk
        <4> QED  BY <2>6, <4>2, <4>3 DEF Arrives, CameTo, v
      <3> QED  BY <3>2, <3>3
    <2> QED  BY <2>5, <2>6
  <1> QED  BY <1>2, <1>3

\* A search that comes to at most one entry, and which one it is: 0 for none.
LEMMA OneFound ==
    ASSUME NEW w, IsWalk(w), NEW list, Len(list) \in Nat, NEW name, NEW m \in 0 .. Len(list),
           \A i \in 1 .. Len(list) : (w.end = "running" /\ Matches(list[i], name) <=> i = m)
    PROVE  find_item_in_directory(w, list, name) =
               IF m = 0 THEN [w EXCEPT !.item = Null] ELSE new_fat_item([w EXCEPT !.item = Null], list[m])
PROOF
  <1> DEFINE h == Len(list)
             u == [w EXCEPT !.item = Null]
             x == new_fat_item(u, list[m])
             g == CHOOSE f : f = [n \in 0 .. h |->
                      IF n = 0 THEN u ELSE Looked(f[n - 1], list[n], name)]
             Claim(n) == g[n] = IF m # 0 /\ m <= n THEN x ELSE u
             Bad == {n \in 0 .. h : ~Claim(n)}
  <1>1. h \in Nat /\ h \in 0 .. h /\ m \in Nat /\ m <= h
    OBVIOUS
  <1>2. find_item_in_directory(w, list, name) = g[h]
    BY Zenon DEF find_item_in_directory, Search
  <1>3. \A i \in 1 .. h : (w.end = "running" /\ Matches(list[i], name) <=> i = m)
    OBVIOUS
  <1> HIDE DEF h
  <1>4. IsSearch(g, w, list, name, h)
    <2>1. PICK f : IsSearch(f, w, list, name, h)
      BY <1>1, SearchExists
    <2> QED  BY <2>1, Zenon DEF IsSearch
  <1> HIDE DEF g
  <1>5. g[0] = u /\ \A n \in 1 .. h : g[n] = Looked(g[n - 1], list[n], name)
    <2>1. 0 \in 0 .. h /\ \A n \in 1 .. h : n \in 0 .. h /\ n # 0
      BY <1>1
    <2>2. \A n \in 0 .. h : g[n] = IF n = 0 THEN u ELSE Looked(g[n - 1], list[n], name)
      BY <1>4, Zenon DEF IsSearch
    <2> QED  BY <2>1, <2>2, Zenon
  <1>6. u.end = w.end
    BY DEF IsWalk
  <1> HIDE DEF u, x
  <1>7. Bad = {}
    <2>1. SUFFICES ASSUME Bad # {} PROVE FALSE
      OBVIOUS
    <2>2. PICK n \in Bad : \A k \in Bad : n <= k
      <3>1. Bad \subseteq Nat
        BY <1>1
      <3> QED  BY <2>1, <3>1, LeastExists
    <2>3. n # 0
      BY <1>1, <1>5, <2>2
    <2>4. n \in 1 .. h /\ n - 1 \in 0 .. h /\ n - 1 \notin Bad
      BY <1>1, <2>2, <2>3
    <2>5. g[n - 1] = IF m # 0 /\ m <= n - 1 THEN x ELSE u
      BY <2>4
    <2> DEFINE c == g[n - 1]
    <2>6. g[n] = IF c.end = "running" /\ Matches(list[n], name) THEN new_fat_item(c, list[n]) ELSE c
      BY <1>5, <2>4 DEF Looked
    <2> HIDE DEF c
    <2>7. CASE n = m
      <3>1. w.end = "running" /\ Matches(list[n], name)
        BY <1>3, <2>4, <2>7
      <3>2. ~(m <= n - 1)
        BY <1>1, <2>4, <2>7
      <3>3. c = u
        BY <2>5, <3>2 DEF c
      <3>4. g[n] = x
        BY <1>6, <2>6, <2>7, <3>1, <3>3 DEF x
      <3>5. Claim(n)
        BY <1>1, <2>3, <2>7, <3>4
      <3> QED  BY <2>2, <3>5
    <2>8. CASE n # m
      <3>1. ~(w.end = "running" /\ Matches(list[n], name))
        BY <1>3, <2>4, <2>8
      <3>2. g[n] = c
        <4>1. CASE m = 0
          BY <1>6, <2>5, <2>6, <3>1, <4>1 DEF c
        <4>2. CASE m # 0
          <5>1. m \in 1 .. h
            BY <1>1, <4>2
          <5>2. ~Matches(list[n], name)
            BY <1>3, <3>1, <5>1
          <5> QED  BY <2>6, <5>2
        <4> QED  BY <4>1, <4>2
      <3>3. (m <= n) = (m <= n - 1)
        BY <1>1, <2>4, <2>8
      <3>4. Claim(n)
        BY <2>5, <3>2, <3>3 DEF c
      <3> QED  BY <2>2, <3>4
    <2> QED  BY <2>7, <2>8
  <1>8. Claim(h)
    BY <1>1, <1>7
  <1>9. g[h] = IF m = 0 THEN u ELSE x
    BY <1>1, <1>8
  <1> QED  BY <1>2, <1>9 DEF u, x

\* Names are texts.
LEMMA NamesAreTexts ==
    ASSUME image \in Partitions, NEW e \in Entries, e.kind # "zero", e.kind # "deleted"
    PROVE  full_relative_filename(e) \in Texts
PROOF
  <1>1. e.name \in Seq(Nat \ {NUL}) /\ e.ext \in Seq(Nat \ {NUL})
    <2>1. \A f \in Slots(image) : f.kind \notin {"zero", "deleted"} =>
              f.name \in Seq(Nat \ {NUL}) /\ f.ext \in Seq(Nat \ {NUL})
      BY DirectoryAssumption
    <2> QED  BY <2>1 DEF Entries
  <1>2. << >> \in Seq(Nat \ {NUL}) /\ <<Dot>> \in Seq(Nat \ {NUL})
    <2>1. Dot \in Nat \ {NUL}
      BY DEF Dot, NUL
    <2> QED  BY <2>1
  <1>3. <<Dot>> \o e.ext \in Seq(Nat \ {NUL})
    BY <1>1, <1>2, ConcatProperties, Zenon
  <1>4. (IF e.ext = << >> THEN << >> ELSE <<Dot>> \o e.ext) \in Seq(Nat \ {NUL})
    BY <1>2, <1>3
  <1>5. full_relative_filename(e) \in Seq(Nat \ {NUL})
    BY <1>1, <1>4, ConcatProperties, Zenon DEF full_relative_filename
  <1> QED  BY <1>5 DEF Texts

\* What a directory has of a name, and what is below several of them.
Of(dir, part) == {e \in EntriesOf(dir) : Named(e, part)}
Below(dirs, part) == UNION {Of(dir, part) : dir \in {e \in dirs : e.kind \in {"root", "directory"}}}

IsLevels(g, parts, h) ==
    g = [n \in 0 .. h |-> IF n = 0 THEN {[kind |-> "root"]} ELSE Below(g[n - 1], parts[n])]

LEMMA LevelsExist ==
    ASSUME NEW parts, NEW h \in Nat
    PROVE  \E g : IsLevels(g, parts, h)
PROOF
  <1> DEFINE Bad == {k \in 0 .. h : ~ \E g : IsLevels(g, parts, k)}
  <1>1. SUFFICES ASSUME Bad # {} PROVE FALSE
    <2>1. h \in 0 .. h
      OBVIOUS
    <2> QED  BY <2>1
  <1>2. PICK k \in Bad : \A j \in Bad : k <= j
    <2>1. Bad \subseteq Nat
      OBVIOUS
    <2> QED  BY <1>1, <2>1, LeastExists
  <1>3. CASE k = 0
    <2> DEFINE g == [n \in 0 .. 0 |-> {[kind |-> "root"]}]
    <2>1. \A n \in 0 .. 0 : n = 0
      OBVIOUS
    <2>2. g = [n \in 0 .. 0 |-> IF n = 0 THEN {[kind |-> "root"]} ELSE Below(g[n - 1], parts[n])]
      BY <2>1
    <2> QED  BY <1>2, <1>3, <2>2 DEF IsLevels
  <1>4. CASE k # 0
    <2>1. k - 1 \in 0 .. h /\ k - 1 \notin Bad /\ k \in 1 .. h
      BY <1>2, <1>4
    <2>2. PICK f : IsLevels(f, parts, k - 1)
      BY <2>1
    <2> DEFINE g == [n \in 0 .. k |-> IF n = k THEN Below(f[k - 1], parts[k]) ELSE f[n]]
    <2>3. ASSUME NEW n \in 0 .. k
          PROVE  g[n] = IF n = 0 THEN {[kind |-> "root"]} ELSE Below(g[n - 1], parts[n])
      <3>1. CASE n = k
        <4>1. n # 0 /\ n - 1 \in 0 .. k /\ n - 1 # k
          BY <2>1, <3>1
        <4> QED  BY <3>1, <4>1
      <3>2. CASE n # k
        <4>1. n \in 0 .. (k - 1) /\ (n # 0 => n - 1 \in 0 .. k /\ n - 1 # k)
          BY <2>1, <3>2
        <4>2. f[n] = IF n = 0 THEN {[kind |-> "root"]} ELSE Below(f[n - 1], parts[n])
          BY <2>2, <4>1 DEF IsLevels
        <4> QED  BY <3>2, <4>1, <4>2
      <3> QED  BY <3>1, <3>2
    <2>4. g = [n \in 0 .. k |-> IF n = 0 THEN {[kind |-> "root"]} ELSE Below(g[n - 1], parts[n])]
      <3> HIDE DEF g
      <3>1. g = [n \in 0 .. k |-> g[n]]
        BY DEF g
      <3> QED  BY <2>3, <3>1
    <2> QED  BY <1>2, <2>4 DEF IsLevels
  <1> QED  BY <1>3, <1>4

LEMMA LevelsOf ==
    ASSUME NEW parts, Len(parts) \in Nat
    PROVE  /\ Denoted(parts)[0] = {[kind |-> "root"]}
           /\ \A n \in 1 .. Len(parts) : Denoted(parts)[n] = Below(Denoted(parts)[n - 1], parts[n])
PROOF
  <1> DEFINE h == Len(parts)
             g == Denoted(parts)
  <1>1. IsLevels(g, parts, h)
    <2>1. PICK f : IsLevels(f, parts, h)
      BY LevelsExist
    <2> QED  BY <2>1, Zenon DEF IsLevels, Denoted, Below, Of
  <1> HIDE DEF g
  <1>2. h \in Nat
    OBVIOUS
  <1> HIDE DEF h
  <1>3. 0 \in 0 .. h /\ \A n \in 1 .. h : n \in 0 .. h /\ n # 0
    BY <1>2
  <1>4. \A n \in 0 .. h : g[n] = IF n = 0 THEN {[kind |-> "root"]} ELSE Below(g[n - 1], parts[n])
    BY <1>1, Zenon DEF IsLevels
  <1> QED  BY <1>3, <1>4, Zenon DEF g, h

\* The directories a walk comes to, and what is read of them.
IsDirectory(dir) ==
    \/ dir = [kind |-> "root"]
    \/ dir \in Entries /\ IsSubdirectory(dir) /\ dir.first \in Cluster

LEMMA DirectorySlots ==
    ASSUME image \in Partitions, NEW dir, IsDirectory(dir)
    PROVE  SlotsOf(dir) \in Seq(Entries)
PROOF
  <1>1. CASE dir = [kind |-> "root"]
    <2>1. SlotsOf(dir) = image.root
      BY <1>1 DEF SlotsOf
    <2> QED  BY <2>1, DirectoryFacts
  <1>2. CASE dir \in Entries /\ IsSubdirectory(dir) /\ dir.first \in Cluster
    <2>1. SlotsOf(dir) = OnChain(dir.first)
      BY <1>2 DEF SlotsOf, IsSubdirectory
    <2> QED  BY <1>2, <2>1, ChainSlots
  <1> QED  BY <1>1, <1>2 DEF IsDirectory

\* In a regular directory the list that is read has the entries of the directory, all of
\* them with names.
LEMMA RegularList ==
    ASSUME image \in Partitions, NEW dir, IsDirectory(dir), Regular(dir)
    PROVE  LET list == UpToZero(SlotsOf(dir))
           IN  /\ list \in Seq(Entries) /\ EntriesOf(dir) = Range(list)
               /\ \A i \in 1 .. Len(list) :
                      /\ list[i] \in Entries /\ list[i].kind # "zero" /\ list[i].kind # "deleted"
                      /\ full_relative_filename(list[i]) \in Texts
PROOF
  <1> DEFINE slots == SlotsOf(dir)
             list == UpToZero(slots)
  <1>1. slots \in Seq(Entries)
    BY DirectorySlots
  <1>2. Ends(slots) /\ Undeleted(slots)
    BY DEF Regular, Undeleted
  <1>3. EntriesOf(dir) = {s \in Range(list) : s.kind # "deleted"}
    BY DEF EntriesOf
  <1> HIDE DEF slots
  <1>4. list \in Seq(Entries) /\ \A i \in 1 .. Len(list) : ~IsZero(list[i])
    BY <1>1, <1>2, LiveRead
  <1>5. \A i \in DOMAIN list : list[i].kind # "deleted"
    BY <1>2 DEF Undeleted
  <1> HIDE DEF list
  <1>6. DOMAIN list = 1 .. Len(list) /\ \A i \in 1 .. Len(list) : list[i] \in Entries
    BY <1>4, ElementOfSeq
  <1>7. \A i \in 1 .. Len(list) : list[i].kind # "zero" /\ list[i].kind # "deleted"
    BY <1>4, <1>5, <1>6 DEF IsZero
  <1>8. \A i \in 1 .. Len(list) : full_relative_filename(list[i]) \in Texts
    BY <1>6, <1>7, NamesAreTexts
  <1>9. EntriesOf(dir) = Range(list)
    BY <1>3, <1>5 DEF Range
  <1> QED  BY <1>4, <1>6, <1>7, <1>8, <1>9 DEF list, slots

\* A search of a regular directory comes to the entry of that name, if there is one.
Searched(w, v, D) ==
    /\ w.full => v.full
    /\ v.end = "running" /\ v.item # Null => D = {v.item.entry} /\ CameTo(v, v.item.entry)
    /\ ~v.full /\ (\A e \in D : IsSubdirectory(e) => Regular(e)) =>
          v.end = "running" /\ (v.item = Null => D = {})

LEMMA DirectorySearched ==
    ASSUME image \in Partitions, NEW w, IsWalk(w), w.end = "running", NEW dir, IsDirectory(dir), Regular(dir),
           NEW part \in Texts, Reachable(part), \A e \in EntriesOf(dir) : Compared(part, e)
    PROVE  Searched(w, find_item_in_directory(w, UpToZero(SlotsOf(dir)), part), Of(dir, part))
PROOF
  <1> DEFINE list == UpToZero(SlotsOf(dir))
             D == Of(dir, part)
             u == [w EXCEPT !.item = Null]
             v == find_item_in_directory(w, list, part)
             h == Len(list)
             Name(i) == full_relative_filename(list[i])
  <1>1. /\ list \in Seq(Entries) /\ EntriesOf(dir) = Range(list)
        /\ \A i \in 1 .. h :
               /\ list[i] \in Entries /\ list[i].kind # "zero" /\ list[i].kind # "deleted"
               /\ Name(i) \in Texts
    BY RegularList
  <1>2. \A i, j \in DOMAIN list : i # j => istrncmp(Name(i), Name(j), Buffer) # 0
    BY DEF Regular
  <1> HIDE DEF list
  <1>3. h \in Nat /\ DOMAIN list = 1 .. h
    BY <1>1
  <1>4. IsWalk(u) /\ u.end = "running" /\ u.full = w.full /\ u.item = Null
    <2>1. Null \in Items
      BY DEF Items
    <2> QED  BY <2>1 DEF IsWalk
  <1> HIDE DEF u, h
  <1>5. Buffer \in Nat
    BY DirectoryAssumption DEF Buffer
  <1>6. ASSUME NEW i \in 1 .. h
        PROVE  /\ Matches(list[i], part) <=> istrncmp(Name(i), part, Buffer) = 0
               /\ Matches(list[i], part) <=> list[i] \in D
    <2>1. list[i] \in EntriesOf(dir)
      BY <1>1, <1>3 DEF Range
    <2>2. Compared(part, list[i])
      BY <2>1
    <2>3. Name(i) \in Texts
      BY <1>1
    <2>4. istrncmp(Name(i), part, Buffer) = 0 <=> Lowercase(Name(i)) = Lowercase(part)
      BY <1>5, <2>2, <2>3, MatchNames DEF Compared
    <2>5. Matches(list[i], part) <=> istrncmp(Name(i), part, Buffer) = 0
      BY <1>1 DEF Matches
    <2>6. list[i] \in D <=> Lowercase(Name(i)) = Lowercase(part)
      BY <2>1 DEF Of, Named
    <2> QED  BY <2>4, <2>5, <2>6
  <1>7. ASSUME NEW i \in 1 .. h, NEW j \in 1 .. h, Matches(list[i], part), Matches(list[j], part)
        PROVE  i = j
    <2>1. Name(i) \in Texts /\ Name(j) \in Texts
      BY <1>1
    <2>2. istrncmp(Name(i), part, Buffer) = 0 /\ istrncmp(Name(j), part, Buffer) = 0
      BY <1>6, <1>7
    <2>3. istrncmp(Name(i), Name(j), Buffer) = 0
      BY <1>5, <2>1, <2>2, BothMatch
    <2> QED  BY <1>2, <1>3, <2>3
  <1>8. \A e \in D : \E i \in 1 .. h : e = list[i] /\ Matches(list[i], part)
    <2> SUFFICES ASSUME NEW e \in D PROVE \E i \in 1 .. h : e = list[i] /\ Matches(list[i], part)
      OBVIOUS
    <2>1. e \in Range(list)
      BY <1>1 DEF Of
    <2>2. PICK i \in 1 .. h : e = list[i]
      BY <1>3, <2>1 DEF Range
    <2> QED  BY <1>6, <2>2
  <1>9. CASE \E m \in 1 .. h : Matches(list[m], part)
    <2>1. PICK m \in 1 .. h : Matches(list[m], part)
      BY <1>9
    <2>2. m \in 0 .. h /\ m # 0 /\ \A i \in 1 .. h : (w.end = "running" /\ Matches(list[i], part) <=> i = m)
      BY <1>3, <1>7, <2>1
    <2> DEFINE e == list[m]
    <2>3. v = new_fat_item(u, e)
      BY <1>3, <2>2, OneFound DEF h, u
    <2>4. e \in Entries /\ D = {e}
      <3>1. e \in D
        BY <1>6, <2>1
      <3>2. \A f \in D : f = e
        BY <1>7, <1>8, <2>1
      <3> QED  BY <1>1, <3>1, <3>2
    <2>5. IsSubdirectory(e) => e.first \in Cluster
      BY <2>1, <2>4 DEF Reachable
    <2> HIDE DEF e, v, D
    <2>6. Arrives(u, v, e)
      BY <1>4, <2>3, <2>4, <2>5, EntryArrives
    <2>7. Searched(w, v, D)
      BY <1>4, <2>4, <2>6 DEF Searched, Arrives, CameTo
    <2> QED  BY <2>7 DEF v, D, list
  <1>10. CASE ~ \E m \in 1 .. h : Matches(list[m], part)
    <2>1. 0 \in 0 .. h /\ \A i \in 1 .. h : (w.end = "running" /\ Matches(list[i], part) <=> i = 0)
      BY <1>3, <1>10
    <2>2. v = u
      BY <1>3, <2>1, OneFound DEF h, u
    <2>3. D = {}
      BY <1>8, <1>10
    <2> HIDE DEF v, D
    <2>4. Searched(w, v, D)
      BY <1>4, <2>2, <2>3 DEF Searched
    <2> QED  BY <2>4 DEF v, D, list
  <1> QED  BY <1>9, <1>10

LEMMA SearchStopped ==
    ASSUME NEW w, IsWalk(w), w.end # "running", NEW list \in Seq(Entries), NEW name
    PROVE  find_item_in_directory(w, list, name) = [w EXCEPT !.item = Null]
PROOF
  <1>1. Len(list) \in Nat
    OBVIOUS
  <1>2. 0 \in 0 .. Len(list) /\ \A i \in 1 .. Len(list) : (w.end = "running" /\ Matches(list[i], name) <=> i = 0)
    BY <1>1
  <1> QED  BY <1>1, <1>2, OneFound

\* Where a walk is after some parts that denote no entry but one.
Way(v, D) ==
    /\ v.end = "running" /\ v.item # Null => D = {v.item.entry} /\ CameTo(v, v.item.entry)
    /\ ~v.full => v.end = "running" /\ (v.item = Null => D = {})

\* No entry says that it is the root.
LEMMA EntryKinds ==
    ASSUME image \in Partitions
    PROVE  \A e \in Entries : e.kind # "root"
PROOF
  <1>1. \A f \in Slots(image) : f.kind \in {"zero", "deleted", "file", "directory", "junk"}
    BY DirectoryAssumption
  <1> QED  BY <1>1 DEF Entries

LEMMA OneBelow ==
    ASSUME NEW dir, NEW part
    PROVE  /\ dir.kind \in {"root", "directory"} => Below({dir}, part) = Of(dir, part)
           /\ dir.kind \notin {"root", "directory"} => Below({dir}, part) = {}
           /\ Below({}, part) = {}
PROOF
  BY DEF Below

LEMMA PartTaken ==
    ASSUME image \in Partitions, NEW w, IsWalk(w), NEW part \in Texts, Reachable(part), NEW D, Way(w, D),
           \A e \in D : IsSubdirectory(e) => Regular(e) /\ \A f \in EntriesOf(e) : Compared(part, f),
           \A e \in Below(D, part) : IsSubdirectory(e) => Regular(e)
    PROVE  Way(NextPart(w, part), Below(D, part))
PROOF
  <1> DEFINE v == NextPart(w, part)
             e == w.item.entry
             next == Below(D, part)
             found == find_item_in_directory(w, w.item.list, part)
  <1>1. w.item \in Items /\ w.full \in BOOLEAN
    BY DEF IsWalk
  <1>2. CASE w.item.kind # "directory"
    <2>1. v = [w EXCEPT !.item = Null]
      BY <1>2 DEF NextPart
    <2>2. v.item = Null /\ v.end = w.end /\ v.full = w.full
      BY <2>1 DEF IsWalk
    <2>3. ASSUME w.end = "running", w.item = Null => D = {} PROVE next = {}
      <3>1. CASE w.item = Null
        <4>1. D = {}
          BY <2>3, <3>1
        <4> QED  BY <4>1, OneBelow
      <3>2. CASE w.item # Null
        <4>1. D = {e} /\ CameTo(w, e)
          BY <2>3, <3>2 DEF Way
        <4>2. e \in Entries
          BY <1>1, <3>2 DEF Items
        <4>3. e.kind # "directory" /\ e.kind # "root"
          BY <1>2, <4>1, <4>2, EntryKinds DEF CameTo, IsSubdirectory
        <4> HIDE DEF e
        <4> QED  BY <4>1, <4>3, OneBelow
      <3> QED  BY <3>1, <3>2
    <2> HIDE DEF v, next
    <2>4. Way(v, next)
      BY <2>2, <2>3 DEF Way
    <2> QED  BY <2>4 DEF v, next
  <1>3. CASE w.item.kind = "directory"
    <2>1. w.item # Null /\ e \in Entries /\ w.item.list \in Seq(Entries)
      BY <1>1, <1>3 DEF Items, Null
    <2>2. v = IF found.end = "running" THEN [found EXCEPT !.heap = kfree(@, free_fat_item(w.item))] ELSE found
      BY <1>3 DEF NextPart
    <2>3. IsWalk(found)
      <3>1. Follows([w EXCEPT !.item = Null], found, {})
        BY <2>1, ListSearched, Zenon
      <3> QED  BY <3>1 DEF Follows
    <2>4. CASE w.end # "running"
      <3>1. found = [w EXCEPT !.item = Null]
        BY <2>1, <2>4, SearchStopped
      <3>2. found.end # "running" /\ found.full = w.full
        BY <2>4, <3>1 DEF IsWalk
      <3>3. w.full
        BY <2>4 DEF Way
      <3>4. v = found
        BY <2>2, <3>2
      <3> HIDE DEF v, next, found
      <3>5. Way(v, next)
        BY <3>2, <3>3, <3>4 DEF Way
      <3> QED  BY <3>5 DEF v, next
    <2>5. CASE w.end = "running"
      <3>1. D = {e} /\ CameTo(w, e)
        BY <2>1, <2>5 DEF Way
      <3>2. IsSubdirectory(e) /\ e.first \in Cluster
        BY <1>3, <3>1 DEF CameTo
      <3>3. Regular(e) /\ (\A f \in EntriesOf(e) : Compared(part, f)) /\ IsDirectory(e)
        BY <2>1, <3>1, <3>2 DEF IsDirectory
      <3>4. w.item.list = UpToZero(SlotsOf(e))
        BY <3>1, <3>2, <3>3 DEF CameTo
      <3>5. next = Of(e, part)
        BY <3>1, <3>2, OneBelow DEF IsSubdirectory
      <3> HIDE DEF e
      <3>6. Searched(w, found, next)
        BY <2>5, <3>3, <3>4, <3>5, DirectorySearched
      <3>7. v.item = found.item /\ v.end = found.end /\ v.full = found.full
        <4> HIDE DEF found, v
        <4>1. CASE found.end = "running"
          <5>1. v = [found EXCEPT !.heap = kfree(found.heap, free_fat_item(w.item))]
            BY <2>2, <4>1
          <5> QED  BY <2>3, <5>1 DEF IsWalk
        <4>2. CASE found.end # "running"
          BY <2>2, <4>2
        <4> QED  BY <4>1, <4>2
      <3>8. \A f \in next : IsSubdirectory(f) => Regular(f)
        OBVIOUS
      <3> HIDE DEF v, next, found
      <3>9. Way(v, next)
        BY <3>6, <3>7, <3>8 DEF Way, Searched, CameTo
      <3> QED  BY <3>9 DEF v, next
    <2> QED  BY <2>4, <2>5
  <1> QED  BY <1>2, <1>3

\* What is straight says of every part.
LEMMA StraightOn ==
    ASSUME NEW parts, Straight(parts), NEW n \in 0 .. Len(parts), NEW dir \in Denoted(parts)[n],
           dir.kind \in {"root", "directory"}
    PROVE  /\ Regular(dir)
           /\ n < Len(parts) => \A e \in EntriesOf(dir) : Compared(parts[n + 1], e)
PROOF
  BY Zenon DEF Straight

\* So an open along regular directories arrives at what its path denotes.
LEMMA WayWalked ==
    ASSUME image \in Partitions, NEW mem \in Memory,
           fs_private.list = SubSeq(image.root, 1, total_items(image.root)),
           NEW parts \in Requests, Straight(parts)
    PROVE  Way(get_directory_entry(mem, parts), Denoted(parts)[Len(parts)])
PROOF
  <1> DEFINE h == Len(parts) - 1
             w == Walk(mem)
             root == [kind |-> "root"]
             level == Denoted(parts)
             u == find_item_in_directory(w, fs_private.list, parts[1])
             g == CHOOSE f : f = [n \in 0 .. h |-> IF n = 0 THEN u ELSE NextPart(f[n - 1], parts[n + 1])]
             Claim(n) == IsWalk(g[n]) /\ Way(g[n], level[n + 1])
             Bad == {n \in 0 .. h : ~Claim(n)}
  <1>1. Len(parts) \in Nat /\ Len(parts) = h + 1 /\ h \in Nat /\ h \in 0 .. h
    BY DirectoryAssumption
  <1>2. \A n \in 1 .. Len(parts) : Reachable(parts[n]) /\ parts[n] \in Texts
    <2>1. \A n \in 1 .. Len(parts) : Reachable(parts[n])
      BY DirectoryAssumption DEF Reachable, Entries
    <2>2. parts \in Seq(Seq(Nat \ {NUL}))
      BY DirectoryAssumption
    <2>3. \A n \in 1 .. Len(parts) : parts[n] \in Seq(Nat \ {NUL})
      BY <2>2, ElementOfSeq
    <2> QED  BY <2>1, <2>3 DEF Texts
  <1>3. get_directory_entry(mem, parts) = g[h]
    BY Zenon DEF get_directory_entry
  <1>4. level[0] = {root} /\ \A n \in 1 .. Len(parts) : level[n] = Below(level[n - 1], parts[n])
    BY <1>1, LevelsOf
  <1>5. \A n \in 0 .. Len(parts) : \A e \in level[n] : IsSubdirectory(e) => Regular(e)
    BY StraightOn DEF IsSubdirectory
  <1>6. \A n \in 0 .. h : \A e \in level[n] : e.kind \in {"root", "directory"} =>
            \A f \in EntriesOf(e) : Compared(parts[n + 1], f)
    <2> SUFFICES ASSUME NEW n \in 0 .. h, NEW e \in level[n], e.kind \in {"root", "directory"}
                 PROVE  \A f \in EntriesOf(e) : Compared(parts[n + 1], f)
      OBVIOUS
    <2>1. n \in 0 .. Len(parts) /\ n < Len(parts)
      BY <1>1
    <2> QED  BY <2>1, StraightOn
  <1>7. \A n \in 0 .. h : n + 1 \in 1 .. Len(parts) /\ n + 1 \in 0 .. Len(parts)
    BY <1>1
  <1> HIDE DEF h
  <1>8. IsPath(g, mem, parts, h)
    <2>1. PICK f : IsPath(f, mem, parts, h)
      BY <1>1, PathExists
    <2> QED  BY <2>1, Zenon DEF IsPath
  <1> HIDE DEF g
  <1>9. g[0] = u /\ \A n \in 1 .. h : g[n] = NextPart(g[n - 1], parts[n + 1])
    <2>1. 0 \in 0 .. h /\ \A n \in 1 .. h : n \in 0 .. h /\ n # 0
      BY <1>1
    <2>2. \A n \in 0 .. h : g[n] = IF n = 0 THEN u ELSE NextPart(g[n - 1], parts[n + 1])
      BY <1>8, Zenon DEF IsPath
    <2> QED  BY <2>1, <2>2, Zenon
  <1>10. Claim(0)
    <2>1. IsWalk(w) /\ w.end = "running" /\ w.item = Null
      <3>1. w = [heap |-> mem, item |-> Null, end |-> "running", twice |-> FALSE, full |-> FALSE]
        BY DEF Walk
      <3>2. Null \in Items
        BY DEF Items
      <3> HIDE DEF w
      <3> QED  BY <3>1, <3>2 DEF IsWalk
    <2> HIDE DEF w
    <2>2. 0 \in 0 .. h /\ 0 \in 0 .. Len(parts) /\ 1 \in 1 .. Len(parts) /\ 1 \in 0 .. Len(parts)
      BY <1>1
    <2>3. IsDirectory(root) /\ root \in level[0] /\ root.kind \in {"root", "directory"}
      BY <1>4 DEF IsDirectory
    <2>4. Regular(root) /\ \A f \in EntriesOf(root) : Compared(parts[1], f)
      <3>1. Regular(root)
        BY <2>2, <2>3, StraightOn
      <3>2. \A f \in EntriesOf(root) : Compared(parts[0 + 1], f)
        BY <1>6, <2>2, <2>3
      <3> QED  BY <3>1, <3>2
    <2>5. fs_private.list = UpToZero(SlotsOf(root))
      <3>1. SlotsOf(root) = image.root
        BY DEF SlotsOf
      <3>2. Undeleted(image.root) /\ Ends(image.root)
        BY <2>4, <3>1 DEF Regular, Undeleted
      <3>3. UpToZero(image.root) = SubSeq(image.root, 1, total_items(image.root))
        BY <3>2, DirectoryFacts, LiveRead
      <3> QED  BY <3>1, <3>3
    <2>6. level[1] = Of(root, parts[1])
      <3>1. level[1] = Below({root}, parts[1])
        <4>1. level[1] = Below(level[1 - 1], parts[1]) /\ 1 - 1 = 0
          BY <1>4, <2>2
        <4>2. level[1 - 1] = {root}
          BY <1>4, <4>1
        <4> QED  BY <4>1, <4>2
      <3> QED  BY <2>3, <3>1, OneBelow
    <2>7. Reachable(parts[1]) /\ parts[1] \in Texts
      BY <1>2, <2>2
    <2>8. IsWalk(u)
      <3>1. fs_private.list \in Seq(Entries)
        BY <2>3, <2>4, <2>5, RegularList
      <3>2. Follows([w EXCEPT !.item = Null], u, {})
        BY <2>1, <2>7, <3>1, ListSearched, Zenon
      <3> QED  BY <3>2 DEF Follows
    <2>9. Searched(w, u, Of(root, parts[1]))
      BY <2>1, <2>3, <2>4, <2>5, <2>7, DirectorySearched
    <2>10. \A e \in level[1] : IsSubdirectory(e) => Regular(e)
      BY <1>5, <2>2
    <2> HIDE DEF u, level, root
    <2>11. Way(u, level[1])
      BY <2>6, <2>9, <2>10 DEF Way, Searched
    <2>12. g[0] = u /\ level[0 + 1] = level[1]
      BY <1>9
    <2> QED  BY <2>8, <2>11, <2>12
  <1> HIDE DEF u, w, level
  <1>11. Bad = {}
    <2>1. SUFFICES ASSUME Bad # {} PROVE FALSE
      OBVIOUS
    <2>2. PICK n \in Bad : \A m \in Bad : n <= m
      <3>1. Bad \subseteq Nat
        BY <1>1
      <3> QED  BY <2>1, <3>1, LeastExists
    <2>3. n # 0
      BY <1>10, <2>2
    <2>4. n \in 1 .. h /\ n - 1 \in 0 .. h /\ n - 1 \notin Bad /\ n \in 0 .. h
      BY <1>1, <2>2, <2>3
    <2> DEFINE c == g[n - 1]
               part == parts[n + 1]
               D == level[n]
    <2>5. IsWalk(c) /\ Way(c, D)
      <3>1. IsWalk(g[n - 1]) /\ Way(g[n - 1], level[(n - 1) + 1])
        BY <2>4
      <3>2. (n - 1) + 1 = n
        BY <2>4
      <3> QED  BY <3>1, <3>2
    <2>6. Reachable(part) /\ part \in Texts
      BY <1>2, <1>7, <2>4
    <2>7. g[n] = NextPart(c, part)
      BY <1>9, <2>4
    <2>8. level[n + 1] = Below(D, part)
      <3>1. n + 1 \in 1 .. Len(parts) /\ (n + 1) - 1 = n
        BY <1>7, <2>4
      <3> QED  BY <1>4, <3>1
    <2>9. \A e \in D : IsSubdirectory(e) => Regular(e) /\ \A f \in EntriesOf(e) : Compared(part, f)
      <3>1. n \in 0 .. Len(parts)
        BY <1>1, <2>4
      <3> QED  BY <1>5, <1>6, <2>4, <3>1 DEF IsSubdirectory
    <2>10. \A e \in level[n + 1] : IsSubdirectory(e) => Regular(e)
      BY <1>5, <1>7, <2>4
    <2> HIDE DEF c, part, D
    <2>11. IsWalk(g[n])
      <3>1. Advances(c, g[n], {})
        BY <2>5, <2>6, <2>7, PartFollowed, Zenon
      <3> QED  BY <3>1 DEF Advances
    <2>12. Way(g[n], level[n + 1])
      BY <2>5, <2>6, <2>7, <2>8, <2>9, <2>10, PartTaken
    <2> QED  BY <2>2, <2>11, <2>12
  <1>12. Claim(h)
    BY <1>1, <1>11
  <1> QED  BY <1>1, <1>3, <1>12 DEF level

----------------------------------------------------------------------------
\* The root directory stays as it was read, and so do the ways along it.
LEMMA SameWays ==
    ASSUME image' = image
    PROVE  \A parts : Denoted(parts)' = Denoted(parts) /\ (Straight(parts)' <=> Straight(parts))
PROOF
  <1>1. \A e : SlotsOf(e)' = SlotsOf(e) /\ EntriesOf(e)' = EntriesOf(e) /\ OnDisk(e.first)' = OnDisk(e.first)
    BY SMT DEF SlotsOf, EntriesOf, OnChain, Followed, OnDisk
  <1>2. \A parts : Denoted(parts)' = Denoted(parts)
    BY SMT DEF Denoted, EntriesOf, SlotsOf, OnChain, Followed
  <1>3. \A dir : Regular(dir)' <=> Regular(dir)
    BY <1>1 DEF Regular
  <1>4. \A parts : Straight(parts)' <=> Straight(parts)
    BY <1>1, <1>2, <1>3 DEF Straight
  <1> QED  BY <1>2, <1>4

\* The parts of what opens find.
FilesFound ==
    \A d \in Descriptor :
        opened[d] # Null /\ Straight(opened[d].path) =>
            /\ opened[d].item.entry \in Denoted(opened[d].path)[Len(opened[d].path)]
            /\ fat16_stat(opened[d].item).folder = (opened[d].item.entry.kind = "directory")

OnlyMissing ==
    status \in {"panic", "hung", "wild"} /\ Straight(asked.parts) /\ ~exhausted =>
        \/ asked.mode # "FILE_MODE_READ"
        \/ Denoted(asked.parts)[Len(asked.parts)] = {}

WalkInv ==
    /\ DirectoryInv
    /\ status = "running" => fs_private.list = SubSeq(image.root, 1, total_items(image.root))
    /\ FilesFound
    /\ OnlyMissing

LEMMA OpenFinds ==
    ASSUME WalkInv, NEW d \in Descriptor, NEW parts \in Requests, NEW mode, fat16_open(d, parts, mode)
    PROVE  FilesFound' /\ OnlyMissing'
PROOF
  <1> DEFINE mem == kzalloc(heap, "descriptor")
             w == get_directory_entry(mem, parts)
             file == [kind |-> "descriptor", at |-> Lowest(heap), item |-> w.item, path |-> parts]
  <1>1. /\ status = "running" /\ image' = image /\ asked' = [parts |-> parts, mode |-> mode]
        /\ image \in Partitions /\ heap \in Memory
        /\ opened \in [Descriptor -> {Null} \cup Descriptors]
        /\ fs_private.list = SubSeq(image.root, 1, total_items(image.root))
    BY DEF fat16_open, WalkInv, DirectoryInv
  <1>2. \A p : Denoted(p)' = Denoted(p) /\ (Straight(p)' <=> Straight(p))
    BY <1>1, SameWays
  <1>3. asked'.parts = parts /\ asked'.mode = mode
    BY <1>1
  <1>4. CASE mode # "FILE_MODE_READ" \/ Room(heap) = {}
    <2>1. opened' = opened /\ exhausted' = (Room(heap) = {})
      BY <1>4 DEF fat16_open
    <2>2. FilesFound'
      BY <1>2, <2>1 DEF FilesFound, WalkInv
    <2>3. OnlyMissing'
      BY <1>3, <1>4, <2>1 DEF OnlyMissing
    <2> QED  BY <2>2, <2>3
  <1>5. CASE ~(mode # "FILE_MODE_READ" \/ Room(heap) = {})
    <2>1. /\ exhausted' = (exhausted \/ w.full)
          /\ IF w.end = "running" /\ w.item # Null
             THEN opened' = [opened EXCEPT ![d] = file] /\ status' = status
             ELSE status' = (IF w.end = "running" THEN "panic" ELSE w.end) /\ opened' = opened
      BY <1>5, Zenon DEF fat16_open
    <2>2. mem \in Memory
      <3>1. "descriptor" \in Kinds
        BY DEF Kinds, HeldKinds
      <3> QED  BY <1>1, <3>1, KindsChange
    <2> HIDE DEF mem
    <2>3. Straight(parts) => Way(w, Denoted(parts)[Len(parts)])
      BY <1>1, <2>2, WayWalked
    <2> HIDE DEF w
    <2>4. FilesFound'
      <3>1. CASE w.end = "running" /\ w.item # Null
        <4>1. opened' = [opened EXCEPT ![d] = file]
          BY <2>1, <3>1
        <4>2. file.path = parts /\ file.item = w.item
          OBVIOUS
        <4> HIDE DEF file
        <4>3. ASSUME Straight(parts)
              PROVE  /\ w.item.entry \in Denoted(parts)[Len(parts)]
                     /\ fat16_stat(w.item).folder = (w.item.entry.kind = "directory")
          <5>1. Denoted(parts)[Len(parts)] = {w.item.entry} /\ CameTo(w, w.item.entry)
            BY <2>3, <3>1, <4>3 DEF Way
          <5> QED  BY <5>1 DEF CameTo, IsSubdirectory, fat16_stat
        <4>4. ASSUME NEW c \in Descriptor, opened'[c] # Null, Straight(opened'[c].path)
              PROVE  /\ opened'[c].item.entry \in Denoted(opened'[c].path)[Len(opened'[c].path)]
                     /\ fat16_stat(opened'[c].item).folder = (opened'[c].item.entry.kind = "directory")
          <5>1. CASE c = d
            <6>1. opened'[c] = file
              BY <1>1, <4>1, <5>1
            <6> QED  BY <4>2, <4>3, <4>4, <6>1
          <5>2. CASE c # d
            <6>1. opened'[c] = opened[c]
              BY <1>1, <4>1, <5>2
            <6> QED  BY <4>4, <6>1 DEF WalkInv, FilesFound
          <5> QED  BY <5>1, <5>2
        <4> QED  BY <1>2, <4>4 DEF FilesFound, fat16_stat
      <3>2. CASE ~(w.end = "running" /\ w.item # Null)
        <4>1. opened' = opened
          BY <2>1, <3>2
        <4> QED  BY <1>2, <4>1 DEF FilesFound, WalkInv
      <3> QED  BY <3>1, <3>2
    <2>5. OnlyMissing'
      <3>1. CASE w.end = "running" /\ w.item # Null
        BY <1>1, <2>1, <3>1 DEF OnlyMissing
      <3>2. CASE ~(w.end = "running" /\ w.item # Null)
        <4>1. ASSUME Straight(parts), ~w.full PROVE Denoted(parts)[Len(parts)] = {}
          BY <2>3, <3>2, <4>1 DEF Way
        <4> QED  BY <1>2, <1>3, <2>1, <4>1 DEF OnlyMissing
      <3> QED  BY <3>1, <3>2
    <2> QED  BY <2>4, <2>5
  <1> QED  BY <1>4, <1>5

LEMMA WalkStep ==
    WalkInv /\ [DirectoryNext]_directory => WalkInv'
PROOF
  <1> SUFFICES ASSUME WalkInv, [DirectoryNext]_directory PROVE WalkInv'
    OBVIOUS
  <1>1. DirectoryInv'
    BY DirectoryStep DEF WalkInv
  <1>2. CASE UNCHANGED directory \/ DirectoryStopped
    <2>1. UNCHANGED directory
      BY <1>2 DEF DirectoryStopped
    <2>2. /\ image' = image /\ fs_private' = fs_private /\ opened' = opened /\ status' = status
          /\ asked' = asked /\ exhausted' = exhausted
      BY <2>1 DEF directory
    <2>3. FilesFound' /\ OnlyMissing'
      BY <2>2, SameWays DEF WalkInv, FilesFound, OnlyMissing
    <2> QED  BY <1>1, <2>2, <2>3 DEF WalkInv
  <1>3. CASE fat16_resolve
    <2>1. /\ image' = image /\ opened' = opened /\ status' = "running"
          /\ fs_private'.list = SubSeq(image.root, 1, total_items(image.root))
      BY <1>3 DEF fat16_resolve
    <2>2. FilesFound' /\ OnlyMissing'
      BY <2>1, SameWays DEF WalkInv, FilesFound, OnlyMissing
    <2> QED  BY <1>1, <2>1, <2>2 DEF WalkInv
  <1>4. CASE fat16_resolve_refuses
    <2>1. image' = image /\ opened' = opened /\ status' = "refused"
      BY <1>4 DEF fat16_resolve_refuses
    <2>2. FilesFound' /\ OnlyMissing'
      BY <2>1, SameWays DEF WalkInv, FilesFound, OnlyMissing
    <2> QED  BY <1>1, <2>1, <2>2 DEF WalkInv
  <1>5. ASSUME NEW d \in Descriptor, NEW parts \in Requests, NEW mode, fat16_open(d, parts, mode)
        PROVE  WalkInv'
    <2>1. FilesFound' /\ OnlyMissing'
      BY <1>5, OpenFinds
    <2>2. image' = image /\ fs_private' = fs_private /\ status = "running"
      BY <1>5 DEF fat16_open
    <2> QED  BY <1>1, <2>1, <2>2 DEF WalkInv
  <1>6. ASSUME NEW d \in Descriptor, fat16_close(d) PROVE WalkInv'
    <2>1. /\ image' = image /\ fs_private' = fs_private /\ status = "running" /\ status' = "running"
          /\ opened' = [opened EXCEPT ![d] = Null]
      BY <1>6 DEF fat16_close
    <2>2. \A c \in Descriptor : opened'[c] # Null => opened'[c] = opened[c]
      BY <2>1 DEF WalkInv, DirectoryInv
    <2>3. FilesFound'
      <3>1. \A p : Denoted(p)' = Denoted(p) /\ (Straight(p)' <=> Straight(p))
        BY <2>1, SameWays
      <3>2. ASSUME NEW c \in Descriptor, opened'[c] # Null, Straight(opened'[c].path)
            PROVE  /\ opened'[c].item.entry \in Denoted(opened'[c].path)[Len(opened'[c].path)]
                   /\ fat16_stat(opened'[c].item).folder = (opened'[c].item.entry.kind = "directory")
        <4>1. opened'[c] = opened[c]
          BY <2>2, <3>2
        <4> QED  BY <3>2, <4>1 DEF WalkInv, FilesFound
      <3> QED  BY <3>1, <3>2 DEF FilesFound, fat16_stat
    <2>4. OnlyMissing'
      BY <2>1 DEF OnlyMissing
    <2> QED  BY <1>1, <2>1, <2>3, <2>4 DEF WalkInv
  <1> QED  BY <1>2, <1>3, <1>4, <1>5, <1>6, Zenon DEF DirectoryNext

\* However many files were opened and closed before, along regular directories an open
\* ends at the one entry that its path denotes, whatever the case it is written in, with
\* the kind that fstat tells; unless the heap is full only a path that denotes nothing,
\* or an open for writing, stops the kernel (fat16.c:88-159, 448-581, 694-724, 821-849).
THEOREM DirectoryWalkFinds == DirectorySpec => []WalkFinds
PROOF
  <1>1. DirectoryInit => WalkInv
    <2> SUFFICES ASSUME DirectoryInit PROVE WalkInv
      OBVIOUS
    <2>1. DirectoryInv
      BY DirectoryBegins
    <2>2. FilesFound /\ OnlyMissing /\ status # "running"
      BY DEF DirectoryInit, FilesFound, OnlyMissing
    <2> QED  BY <2>1, <2>2 DEF WalkInv
  <1>2. WalkInv => WalkFinds
    BY Zenon DEF WalkInv, FilesFound, OnlyMissing, WalkFinds
  <1> QED  BY <1>1, <1>2, WalkStep, PTL DEF DirectorySpec
----------------------------------------------------------------------------
\* The string routines: comparisons.

\* Characters of a text, and NULs behind it.
LEMMA CharactersAt ==
    ASSUME NEW s \in Texts
    PROVE  /\ Len(s) \in Nat /\ DOMAIN s = 1 .. Len(s)
           /\ \A i \in Int : At(s, i) \in Nat
           /\ \A i \in 1 .. Len(s) : At(s, i) = s[i] /\ s[i] \in Nat \ {NUL}
           /\ \A i \in Int : ~(i \in 1 .. Len(s)) => At(s, i) = NUL
PROOF
  <1>1. Len(s) \in Nat /\ DOMAIN s = 1 .. Len(s)
    BY LenProperties DEF Texts
  <1>2. \A i \in 1 .. Len(s) : s[i] \in Nat \ {NUL}
    BY ElementOfSeq DEF Texts
  <1> QED  BY <1>1, <1>2 DEF At, NUL

\* The texts differ at i and not before.
FirstDifference(s, t, n, i) ==
    /\ i \in 1 .. n
    /\ At(s, i) # At(t, i)
    /\ \A j \in 1 .. (i - 1) : At(s, j) = At(t, j)

LEMMA StringsCompared ==
    ASSUME NEW s \in Texts, NEW t \in Texts, NEW n \in Nat
    PROVE  \/ /\ \A i \in 1 .. n : At(s, i) = At(t, i)
              /\ strncmp(s, t, n) = 0
           \/ \E i \in 1 .. n : /\ FirstDifference(s, t, n, i)
                                /\ strncmp(s, t, n) = At(s, i) - At(t, i)
PROOF
  <1> DEFINE D == Differing(s, t, n)
  <1>1. CASE D = {}
    <2>1. \A i \in 1 .. n : At(s, i) = At(t, i)
      BY <1>1 DEF Differing
    <2>2. strncmp(s, t, n) = 0
      BY <1>1 DEF strncmp
    <2> QED  BY <2>1, <2>2
  <1>2. CASE D # {}
    <2>1. D \subseteq Nat
      BY DEF Differing
    <2>2. \E i \in D : \A j \in D : i <= j
      BY <1>2, <2>1, LeastExists
    <2> DEFINE i == CHOOSE i \in D : \A j \in D : i <= j
    <2>3. i \in D /\ \A j \in D : i <= j
      BY <2>2, Zenon
    <2>4. strncmp(s, t, n) = At(s, i) - At(t, i)
      BY <1>2, Zenon DEF strncmp
    <2> HIDE DEF i
    <2>5. i \in 1 .. n /\ At(s, i) # At(t, i)
      BY <2>3 DEF Differing
    <2>6. ASSUME NEW j \in 1 .. (i - 1) PROVE At(s, j) = At(t, j)
      <3>1. j \in 1 .. n /\ ~(i <= j)
        BY <2>5
      <3> QED  BY <2>3, <3>1 DEF Differing
    <2>7. FirstDifference(s, t, n, i)
      BY <2>5, <2>6 DEF FirstDifference
    <2> QED  BY <2>4, <2>5, <2>7
  <1> QED  BY <1>1, <1>2

\* What comes first in the dictionary has the lesser character at the first difference.
LEMMA PrecedesAt ==
    ASSUME NEW s \in Texts, NEW t \in Texts, NEW n \in Nat, Len(s) <= n, Len(t) <= n
    PROVE  Precedes(s, t) <=> \E i \in 1 .. n : FirstDifference(s, t, n, i) /\ At(s, i) < At(t, i)
PROOF
  <1>0. /\ Len(s) \in Nat /\ Len(t) \in Nat
        /\ \A i \in Int : At(s, i) \in Nat /\ At(t, i) \in Nat
        /\ \A i \in 1 .. Len(s) : At(s, i) = s[i] /\ s[i] \in Nat \ {NUL}
        /\ \A i \in 1 .. Len(t) : At(t, i) = t[i] /\ t[i] \in Nat \ {NUL}
        /\ \A i \in Int : ~(i \in 1 .. Len(s)) => At(s, i) = NUL
        /\ \A i \in Int : ~(i \in 1 .. Len(t)) => At(t, i) = NUL
    BY CharactersAt
  <1>9. Len(s) \in Nat /\ Len(t) \in Nat
    BY <1>0
  <1>1. ASSUME NEW k \in 1 .. Len(t), k - 1 <= Len(s), \A i \in 1 .. (k - 1) : s[i] = t[i],
               k <= Len(s) => s[k] < t[k]
        PROVE  \E i \in 1 .. n : FirstDifference(s, t, n, i) /\ At(s, i) < At(t, i)
    <2>1. k \in 1 .. n /\ k \in Int /\ At(t, k) = t[k] /\ t[k] \in Nat \ {NUL}
      BY <1>0
    <2>2. At(s, k) < At(t, k)
      <3>1. CASE k <= Len(s)
        <4>1. k \in 1 .. Len(s)
          BY <3>1
        <4> QED  BY <1>0, <1>1, <2>1, <3>1, <4>1
      <3>2. CASE ~(k <= Len(s))
        <4>1. At(s, k) = NUL
          BY <1>0, <2>1, <3>2
        <4>2. At(s, k) = 0 /\ At(t, k) \in Nat /\ At(t, k) # 0
          BY <2>1, <4>1 DEF NUL
        <4> QED  BY <4>2
      <3> QED  BY <3>1, <3>2
    <2>3. ASSUME NEW i \in 1 .. (k - 1) PROVE At(s, i) = At(t, i)
      <3>1. i \in 1 .. Len(s) /\ i \in 1 .. Len(t)
        BY <1>9, <1>1
      <3> QED  BY <1>0, <1>1, <3>1
    <2>4. At(s, k) \in Nat /\ At(t, k) \in Nat
      BY <1>0, <2>1
    <2>5. At(s, k) # At(t, k)
      BY <2>2, <2>4
    <2>6. FirstDifference(s, t, n, k)
      BY <2>1, <2>3, <2>5 DEF FirstDifference
    <2> QED  BY <2>1, <2>2, <2>6
  <1>2. ASSUME NEW i \in 1 .. n, FirstDifference(s, t, n, i), At(s, i) < At(t, i)
        PROVE  Precedes(s, t)
    <2>0. i \in Int
      OBVIOUS
    <2>1. i \in Int /\ At(s, i) \in Nat /\ At(t, i) \in Nat
      BY <1>0, <2>0
    <2>2. i \in 1 .. Len(t)
      <3> SUFFICES ASSUME ~(i \in 1 .. Len(t)) PROVE FALSE
        OBVIOUS
      <3>1. At(t, i) = 0
        BY <1>0, <2>1 DEF NUL
      <3> QED  BY <1>2, <2>1, <3>1
    <2>3. i - 1 <= Len(s)
      <3> SUFFICES ASSUME ~(i - 1 <= Len(s)) PROVE FALSE
        OBVIOUS
      <3>1. i - 1 \in 1 .. (i - 1) /\ i - 1 \in 1 .. Len(t) /\ ~(i - 1 \in 1 .. Len(s)) /\ i - 1 \in Int
        BY <1>0, <2>2
      <3>2. At(s, i - 1) = At(t, i - 1)
        BY <1>2, <3>1 DEF FirstDifference
      <3>3. At(s, i - 1) = NUL /\ At(t, i - 1) = t[i - 1] /\ t[i - 1] # NUL
        BY <1>0, <3>1
      <3> QED  BY <3>2, <3>3
    <2>4. ASSUME NEW j \in 1 .. (i - 1) PROVE s[j] = t[j]
      <3>1. j \in 1 .. Len(s) /\ j \in 1 .. Len(t)
        BY <1>9, <2>2, <2>3
      <3>2. At(s, j) = At(t, j)
        BY <1>2 DEF FirstDifference
      <3> QED  BY <1>0, <3>1, <3>2
    <2>5. ASSUME i <= Len(s) PROVE s[i] < t[i]
      <3>1. i \in 1 .. Len(s)
        BY <1>0, <2>2, <2>5
      <3> QED  BY <1>0, <1>2, <2>2, <3>1
    <2> QED  BY <2>2, <2>3, <2>4, <2>5 DEF Precedes
  <1> QED  BY <1>1, <1>2 DEF Precedes

LEMMA ComparisonSign ==
    ASSUME NEW s \in Texts, NEW t \in Texts, NEW n \in Nat, Len(s) <= n, Len(t) <= n
    PROVE  /\ strncmp(s, t, n) < 0 <=> Precedes(s, t)
           /\ strncmp(s, t, n) > 0 <=> Precedes(t, s)
PROOF
  <1>1. CASE /\ \A i \in 1 .. n : At(s, i) = At(t, i)
             /\ strncmp(s, t, n) = 0
    <2>1. ~Precedes(s, t) /\ ~Precedes(t, s)
      BY <1>1, PrecedesAt DEF FirstDifference
    <2> QED  BY <1>1, <2>1
  <1>2. ASSUME NEW i \in 1 .. n, FirstDifference(s, t, n, i), strncmp(s, t, n) = At(s, i) - At(t, i)
        PROVE  /\ strncmp(s, t, n) < 0 <=> Precedes(s, t)
               /\ strncmp(s, t, n) > 0 <=> Precedes(t, s)
    <2>1. i \in Int /\ At(s, i) \in Nat /\ At(t, i) \in Nat /\ At(s, i) # At(t, i)
      BY <1>2, CharactersAt DEF FirstDifference
    <2>2. FirstDifference(t, s, n, i)
      BY <1>2 DEF FirstDifference
    <2>3. ASSUME NEW j \in 1 .. n, FirstDifference(s, t, n, j) \/ FirstDifference(t, s, n, j) PROVE j = i
      <3>1. At(s, j) # At(t, j) /\ \A k \in 1 .. (j - 1) : At(s, k) = At(t, k)
        BY <2>3 DEF FirstDifference
      <3>2. \A k \in 1 .. (i - 1) : At(s, k) = At(t, k)
        BY <1>2 DEF FirstDifference
      <3>3. ~(j \in 1 .. (i - 1)) /\ ~(i \in 1 .. (j - 1))
        BY <2>1, <3>1, <3>2
      <3> QED  BY <3>3
    <2>4. Precedes(s, t) <=> At(s, i) < At(t, i)
      BY <1>2, <2>3, PrecedesAt
    <2>5. Precedes(t, s) <=> At(t, i) < At(s, i)
      BY <2>2, <2>3, PrecedesAt
    <2> QED  BY <1>2, <2>1, <2>4, <2>5
  <1> QED  BY <1>1, <1>2, StringsCompared

\* What is left of a text is what a comparison of n characters sees of it.
LEMMA FirstOfText ==
    ASSUME NEW s \in Texts, NEW n \in Nat
    PROVE  /\ First_(s, n) \in Texts
           /\ Len(First_(s, n)) = strnlen(s, n)
           /\ strnlen(s, n) \in Nat /\ strnlen(s, n) <= n /\ strnlen(s, n) <= Len(s)
           /\ \A i \in 1 .. strnlen(s, n) : First_(s, n)[i] = s[i]
           /\ \A i \in 1 .. n : At(First_(s, n), i) = At(s, i)
PROOF
  <1> DEFINE m == strnlen(s, n)
             f == First_(s, n)
  <1>1. /\ m \in Nat /\ m <= n /\ m <= Len(s) /\ Len(s) \in Nat
        /\ n <= Len(s) => m = n
        /\ Len(s) <= n => m = Len(s)
    BY CharactersAt DEF strnlen
  <1>2. ASSUME NEW i \in 1 .. m PROVE s[i] \in Nat \ {NUL}
    <2>1. i \in 1 .. Len(s)
      BY <1>1
    <2> QED  BY <2>1, CharactersAt
  <1> HIDE DEF m
  <1>3. f \in Texts /\ Len(f) = IF 1 <= m THEN m - 1 + 1 ELSE 0
    BY <1>1, <1>2, SubSeqProperties DEF First_, Texts, m
  <1>4. \A i \in 1 .. (m - 1 + 1) : f[i] = s[1 + i - 1]
    BY <1>1, <1>2, SubSeqProperties DEF First_, m
  <1> HIDE DEF f
  <1>5. Len(f) = m /\ \A i \in 1 .. m : f[i] = s[i]
    BY <1>1, <1>3, <1>4
  <1>6. ASSUME NEW i \in 1 .. n PROVE At(f, i) = At(s, i)
    <2>1. CASE i <= m
      <3>1. i \in 1 .. Len(f) /\ i \in 1 .. Len(s)
        BY <1>1, <1>5, <2>1
      <3>2. At(f, i) = f[i]
        BY <1>3, <3>1, CharactersAt
      <3>3. At(s, i) = s[i]
        BY <3>1, CharactersAt
      <3> QED  BY <1>1, <1>5, <3>1, <3>2, <3>3
    <2>2. CASE ~(i <= m)
      <3>1. ~(i \in 1 .. Len(f)) /\ ~(i \in 1 .. Len(s)) /\ i \in Int
        BY <1>1, <1>5, <2>2
      <3>2. At(f, i) = NUL
        BY <1>3, <3>1, CharactersAt
      <3>3. At(s, i) = NUL
        BY <3>1, CharactersAt
      <3> QED  BY <3>2, <3>3
    <2> QED  BY <2>1, <2>2
  <1> QED  BY <1>1, <1>3, <1>5, <1>6 DEF m, f

LEMMA FirstCompared ==
    ASSUME NEW s \in Texts, NEW t \in Texts, NEW n \in Nat
    PROVE  strncmp(s, t, n) = strncmp(First_(s, n), First_(t, n), n)
PROOF
  <1> DEFINE f == First_(s, n)
             g == First_(t, n)
             D == Differing(s, t, n)
  <1>1. \A i \in 1 .. n : At(f, i) = At(s, i) /\ At(g, i) = At(t, i)
    BY FirstOfText
  <1> HIDE DEF f, g
  <1>2. Differing(f, g, n) = D
    BY <1>1 DEF Differing
  <1>3. CASE D = {}
    BY <1>2, <1>3 DEF strncmp, f, g
  <1>4. CASE D # {}
    <2> DEFINE i == CHOOSE i \in D : \A j \in D : i <= j
    <2>1. D \subseteq Nat
      BY DEF Differing
    <2>2. \E k \in D : \A j \in D : k <= j
      BY <1>4, <2>1, LeastExists
    <2>3. i \in D
      BY <2>2, Zenon
    <2>4. strncmp(s, t, n) = At(s, i) - At(t, i)
      BY <1>4, Zenon DEF strncmp
    <2>5. strncmp(f, g, n) = At(f, i) - At(g, i)
      BY <1>2, <1>4, Zenon DEF strncmp
    <2> HIDE DEF i
    <2>6. i \in 1 .. n
      BY <2>3 DEF Differing
    <2>7. strncmp(s, t, n) = strncmp(f, g, n)
      BY <1>1, <2>4, <2>5, <2>6
    <2> QED  BY <2>7 DEF f, g
  <1> QED  BY <1>3, <1>4

\* But for the case of letters, texts are equal when no character tells them apart.
LEMMA CasesCompared ==
    ASSUME NEW s \in Texts, NEW t \in Texts, NEW n \in Nat
    PROVE  istrncmp(s, t, n) = 0 <=> \A i \in 1 .. n : tolower(At(s, i)) = tolower(At(t, i))
PROOF
  <1> DEFINE D == {i \in 1 .. n : tolower(At(s, i)) # tolower(At(t, i))}
  <1>1. CASE D = {}
    <2>1. istrncmp(s, t, n) = 0
      BY <1>1, Zenon DEF istrncmp
    <2> QED  BY <1>1, <2>1
  <1>2. CASE D # {}
    <2> DEFINE i == CHOOSE i \in D : \A j \in D : i <= j
    <2>1. D \subseteq Nat
      OBVIOUS
    <2>2. \E k \in D : \A j \in D : k <= j
      BY <1>2, <2>1, LeastExists
    <2>3. i \in D
      BY <2>2, Zenon
    <2>4. istrncmp(s, t, n) = At(s, i) - At(t, i)
      BY <1>2, Zenon DEF istrncmp
    <2> HIDE DEF i
    <2>5. i \in 1 .. n /\ tolower(At(s, i)) # tolower(At(t, i))
      BY <2>3
    <2>6. At(s, i) # At(t, i)
      BY <2>5
    <2>7. i \in Int
      BY <2>5
    <2>8. At(s, i) \in Nat /\ At(t, i) \in Nat
      BY <2>7, CharactersAt
    <2>9. istrncmp(s, t, n) # 0
      BY <2>4, <2>6, <2>8
    <2> QED  BY <2>5, <2>9
  <1> QED  BY <1>1, <1>2

LEMMA LowerCompared ==
    ASSUME NEW s \in Texts, NEW t \in Texts, NEW n \in Nat, Len(s) <= n, Len(t) <= n
    PROVE  Lower(s) = Lower(t) <=> \A i \in 1 .. n : tolower(At(s, i)) = tolower(At(t, i))
PROOF
  <1>1. Len(s) \in Nat /\ Len(t) \in Nat
    BY CharactersAt
  <1>2. /\ Lower(s) = [i \in 1 .. Len(s) |-> tolower(s[i])]
        /\ Lower(t) = [i \in 1 .. Len(t) |-> tolower(t[i])]
    BY CharactersAt DEF Lower
  <1>3. /\ \A i \in 1 .. Len(s) : At(s, i) = s[i] /\ tolower(s[i]) # tolower(NUL)
        /\ \A i \in 1 .. Len(t) : At(t, i) = t[i] /\ tolower(t[i]) # tolower(NUL)
    <2>1. ASSUME NEW c \in Nat \ {NUL} PROVE tolower(c) # tolower(NUL)
      BY DEF tolower, NUL
    <2> QED  BY <2>1, CharactersAt
  <1>4. /\ \A i \in 1 .. n : ~(i \in 1 .. Len(s)) => At(s, i) = NUL
        /\ \A i \in 1 .. n : ~(i \in 1 .. Len(t)) => At(t, i) = NUL
    <2>1. \A i \in 1 .. n : i \in Int
      OBVIOUS
    <2> QED  BY <2>1, CharactersAt
  <1>5. ASSUME Lower(s) = Lower(t), NEW i \in 1 .. n PROVE tolower(At(s, i)) = tolower(At(t, i))
    <2>1. DOMAIN Lower(s) = DOMAIN Lower(t) /\ \A j \in DOMAIN Lower(s) : Lower(s)[j] = Lower(t)[j]
      BY <1>5
    <2>2. 1 .. Len(s) = 1 .. Len(t)
      BY <1>2, <2>1
    <2>3. CASE i \in 1 .. Len(s)
      <3>1. i \in 1 .. Len(t) /\ tolower(s[i]) = tolower(t[i])
        BY <1>2, <2>1, <2>2, <2>3
      <3> QED  BY <1>3, <2>3, <3>1
    <2>4. CASE ~(i \in 1 .. Len(s))
      BY <1>4, <2>2, <2>4
    <2> QED  BY <2>3, <2>4
  <1>6. ASSUME \A i \in 1 .. n : tolower(At(s, i)) = tolower(At(t, i)) PROVE Lower(s) = Lower(t)
    <2>1. ASSUME Len(s) < Len(t) PROVE FALSE
      <3>1. Len(s) + 1 \in 1 .. n /\ ~(Len(s) + 1 \in 1 .. Len(s)) /\ Len(s) + 1 \in 1 .. Len(t)
        BY <1>1, <2>1
      <3> QED  BY <1>3, <1>4, <1>6, <3>1
    <2>2. ASSUME Len(t) < Len(s) PROVE FALSE
      <3>1. Len(t) + 1 \in 1 .. n /\ ~(Len(t) + 1 \in 1 .. Len(t)) /\ Len(t) + 1 \in 1 .. Len(s)
        BY <1>1, <2>2
      <3> QED  BY <1>3, <1>4, <1>6, <3>1
    <2>3. Len(s) = Len(t)
      BY <1>1, <2>1, <2>2
    <2>4. ASSUME NEW i \in 1 .. Len(s) PROVE tolower(s[i]) = tolower(t[i])
      <3>1. i \in 1 .. n /\ i \in 1 .. Len(t)
        BY <1>1, <2>3
      <3> QED  BY <1>3, <1>6, <3>1
    <2> QED  BY <1>2, <2>3, <2>4
  <1> QED  BY <1>5, <1>6

\* Where the first text does not end in front of the second, its length is enough to
\* tell them apart.
LEMMA WholeCompared ==
    ASSUME NEW s \in Texts, NEW t \in Texts, ~IsPrefix(s, t) \/ s = t
    PROVE  /\ strcmp(s, t) < 0 <=> Precedes(s, t)
           /\ strcmp(s, t) > 0 <=> Precedes(t, s)
PROOF
  <1> DEFINE n == Len(s)
             h == First_(t, n)
  <1>1. n \in Nat /\ Len(t) \in Nat
    BY CharactersAt
  <1>2. strcmp(s, t) = strncmp(s, t, n)
    BY DEF strcmp, strlen
  <1>3. CASE s = t
    <2>1. Differing(s, t, n) = {}
      BY <1>3 DEF Differing
    <2>2. strcmp(s, t) = 0
      BY <1>2, <2>1 DEF strncmp
    <2>3. \A i \in 1 .. Len(t) : t[i] \in Nat
      BY CharactersAt
    <2>4. ~Precedes(t, t)
      <3> SUFFICES ASSUME NEW k \in 1 .. Len(t), k - 1 <= Len(t), k <= Len(t) => t[k] < t[k] PROVE FALSE
        BY DEF Precedes
      <3>1. k <= Len(t) /\ t[k] \in Nat
        BY <1>1, <2>3
      <3> QED  BY <3>1
    <2> QED  BY <1>3, <2>2, <2>4
  <1>4. CASE ~IsPrefix(s, t)
    <2>1. First_(s, n) = s
      <3>1. strnlen(s, n) = n
        BY <1>1 DEF strnlen
      <3>2. SubSeq(s, 1, n) = s
        BY <1>1, SubSeqFull DEF Texts
      <3> QED  BY <3>1, <3>2 DEF First_
    <2>2. strcmp(s, t) = strncmp(s, h, n)
      BY <1>1, <1>2, <2>1, FirstCompared
    <2>3. h \in Texts /\ Len(h) = strnlen(t, n) /\ Len(h) <= n /\ Len(h) <= Len(t)
          /\ \A i \in 1 .. Len(h) : h[i] = t[i]
      BY <1>1, FirstOfText
    <2>4. Len(h) = IF Len(t) < n THEN Len(t) ELSE n
      BY <2>3 DEF strnlen
    <2> HIDE DEF h
    <2>5. /\ strncmp(s, h, n) < 0 <=> Precedes(s, h)
          /\ strncmp(s, h, n) > 0 <=> Precedes(h, s)
      BY <1>1, <2>3, ComparisonSign
    <2>6. ASSUME NEW k \in 1 .. Len(t), \A i \in 1 .. (k - 1) : s[i] = t[i], k - 1 <= n
          PROVE  k <= n
      <3> SUFFICES ASSUME k = n + 1 PROVE FALSE
        BY <1>1, <2>6
      <3>1. n <= Len(t) /\ \A i \in 1 .. n : s[i] = t[i]
        BY <1>1, <2>6
      <3> QED  BY <1>1, <1>4, <3>1, PrefixOf
    <2>7. Precedes(s, t) => Precedes(s, h)
      <3> SUFFICES ASSUME NEW k \in 1 .. Len(t), k - 1 <= n, \A i \in 1 .. (k - 1) : s[i] = t[i],
                          k <= n => s[k] < t[k]
                   PROVE  Precedes(s, h)
        BY DEF Precedes
      <3>1. k <= n
        BY <2>6
      <3>2. k \in 1 .. Len(h) /\ \A i \in 1 .. (k - 1) : i \in 1 .. Len(h)
        BY <1>1, <2>3, <2>4, <3>1
      <3>3. h[k] = t[k] /\ \A i \in 1 .. (k - 1) : h[i] = t[i]
        BY <2>3, <3>2
      <3> QED  BY <3>1, <3>2, <3>3 DEF Precedes
    <2>8. Precedes(s, h) => Precedes(s, t)
      <3> SUFFICES ASSUME NEW k \in 1 .. Len(h), k - 1 <= n, \A i \in 1 .. (k - 1) : s[i] = h[i],
                          k <= n => s[k] < h[k]
                   PROVE  Precedes(s, t)
        BY DEF Precedes
      <3>1. k \in 1 .. Len(t) /\ \A i \in 1 .. (k - 1) : i \in 1 .. Len(h)
        BY <1>1, <2>3, <2>4
      <3>2. h[k] = t[k] /\ \A i \in 1 .. (k - 1) : h[i] = t[i]
        BY <2>3, <3>1
      <3> QED  BY <3>1, <3>2 DEF Precedes
    <2>9. Precedes(h, s) <=> Precedes(t, s)
      <3>1. ASSUME NEW k \in 1 .. n
            PROVE  /\ k - 1 <= Len(h) <=> k - 1 <= Len(t)
                   /\ k <= Len(h) <=> k <= Len(t)
                   /\ k - 1 <= Len(h) => \A i \in 1 .. (k - 1) : h[i] = t[i]
                   /\ k <= Len(h) => h[k] = t[k]
        <4>1. k - 1 <= Len(h) => \A i \in 1 .. (k - 1) : i \in 1 .. Len(h)
          BY <1>1, <2>3, <2>4
        <4>2. k <= Len(h) => k \in 1 .. Len(h)
          BY <1>1, <2>3, <2>4
        <4>3. (k - 1 <= Len(h) <=> k - 1 <= Len(t)) /\ (k <= Len(h) <=> k <= Len(t))
          BY <1>1, <2>4
        <4> QED  BY <2>3, <4>1, <4>2, <4>3
      <3> HIDE DEF n
      <3>2. ASSUME NEW k \in 1 .. n
            PROVE  (/\ k - 1 <= Len(h) /\ \A i \in 1 .. (k - 1) : h[i] = s[i]
                    /\ k <= Len(h) => h[k] < s[k])
                    <=> (/\ k - 1 <= Len(t) /\ \A i \in 1 .. (k - 1) : t[i] = s[i]
                         /\ k <= Len(t) => t[k] < s[k])
        BY <3>1
      <3> QED  BY <3>2 DEF Precedes, n
    <2> QED  BY <2>2, <2>5, <2>7, <2>8, <2>9
  <1> QED  BY <1>3, <1>4

LEMMA ComparedOrdered ==
    ASSUME NEW s \in Texts, NEW t \in Texts, NEW n \in Nat, NEW c,
           c.s = s, c.t = t, c.n = n, c.strncmp = strncmp(s, t, n),
           c.istrncmp = istrncmp(s, t, n), c.strcmp = strcmp(s, t)
    PROVE  ComparisonsOrdered(c)
PROOF
  <1> DEFINE f == First_(s, n)
             g == First_(t, n)
  <1>1. f \in Texts /\ g \in Texts /\ Len(f) <= n /\ Len(g) <= n
    BY FirstOfText
  <1>2. \A i \in 1 .. n : At(f, i) = At(s, i) /\ At(g, i) = At(t, i)
    BY FirstOfText
  <1>3. strncmp(s, t, n) = strncmp(f, g, n)
    BY FirstCompared
  <1>4. istrncmp(s, t, n) = 0 <=> \A i \in 1 .. n : tolower(At(s, i)) = tolower(At(t, i))
    BY CasesCompared
  <1>5. ~IsPrefix(s, t) \/ s = t =>
            /\ strcmp(s, t) < 0 <=> Precedes(s, t)
            /\ strcmp(s, t) > 0 <=> Precedes(t, s)
    BY WholeCompared
  <1> HIDE DEF f, g
  <1>6. /\ strncmp(f, g, n) < 0 <=> Precedes(f, g)
        /\ strncmp(f, g, n) > 0 <=> Precedes(g, f)
    BY <1>1, ComparisonSign
  <1>7. Lower(f) = Lower(g) <=> \A i \in 1 .. n : tolower(At(f, i)) = tolower(At(g, i))
    BY <1>1, LowerCompared
  <1>8. istrncmp(s, t, n) = 0 <=> Lower(f) = Lower(g)
    BY <1>2, <1>4, <1>7
  <1>9. c.strncmp < 0 <=> Precedes(f, g)
    BY <1>3, <1>6
  <1>10. c.strncmp > 0 <=> Precedes(g, f)
    BY <1>3, <1>6
  <1> QED  BY <1>5, <1>8, <1>9, <1>10 DEF ComparisonsOrdered, f, g

----------------------------------------------------------------------------
\* Copies and lengths.

LEMMA TerminatorFound ==
    ASSUME NEW s \in Texts, NEW n \in Nat, NEW m, m = strnlen_terminator(s, n, Terminator)
    PROVE  /\ m \in Nat
           /\ m <= strnlen(s, n)
           /\ \A i \in 1 .. m : s[i] # Terminator
           /\ m < strnlen(s, n) => s[m + 1] = Terminator
PROOF
  <1> DEFINE stops == {i \in 1 .. n : At(s, i) \in {NUL, Terminator}}
  <1>0. Len(s) \in Nat
    BY CharactersAt
  <1>1. CASE stops = {}
    <2>1. m = n
      BY <1>1, Zenon DEF strnlen_terminator
    <2>2. \A i \in 1 .. n : At(s, i) # NUL /\ At(s, i) # Terminator
      BY <1>1
    <2>3. n <= Len(s)
      <3> SUFFICES ASSUME ~(n <= Len(s)) PROVE FALSE
        OBVIOUS
      <3>1. n \in 1 .. n /\ n \in Int /\ ~(n \in 1 .. Len(s))
        BY <1>0
      <3>2. At(s, n) = NUL
        BY <3>1, CharactersAt
      <3> QED  BY <2>2, <3>1, <3>2
    <2>4. strnlen(s, n) = n
      BY <1>0, <2>3 DEF strnlen
    <2>5. ASSUME NEW i \in 1 .. m PROVE s[i] # Terminator
      <3>1. i \in 1 .. n /\ i \in 1 .. Len(s)
        BY <1>0, <2>1, <2>3
      <3>2. At(s, i) = s[i]
        BY <3>1, CharactersAt
      <3> QED  BY <2>2, <3>1, <3>2
    <2> QED  BY <2>1, <2>4, <2>5
  <1>2. CASE stops # {}
    <2> DEFINE k == CHOOSE i \in stops : \A j \in stops : i <= j
    <2>1. stops \subseteq Nat
      OBVIOUS
    <2>2. \E i \in stops : \A j \in stops : i <= j
      BY <1>2, <2>1, LeastExists
    <2>3. k \in stops /\ \A j \in stops : k <= j
      BY <2>2, Zenon
    <2>4. m = k - 1
      BY <1>2, Zenon DEF strnlen_terminator
    <2> HIDE DEF k
    <2>5. k \in 1 .. n /\ At(s, k) \in {NUL, Terminator}
      BY <2>3
    <2>6. ASSUME NEW i \in 1 .. m PROVE i \in 1 .. Len(s) /\ s[i] # Terminator
      <3>1. i \in 1 .. n /\ i \in Int /\ ~(k <= i)
        BY <2>4, <2>5
      <3>2. At(s, i) # NUL /\ At(s, i) # Terminator
        BY <2>3, <3>1
      <3>3. i \in 1 .. Len(s)
        BY <3>1, <3>2, CharactersAt
      <3>4. At(s, i) = s[i]
        BY <3>3, CharactersAt
      <3> QED  BY <3>2, <3>3, <3>4
    <2>7. m <= Len(s)
      <3>1. CASE m = 0
        BY <1>0, <3>1
      <3>2. CASE m # 0
        <4>1. m \in 1 .. m
          BY <2>4, <2>5, <3>2
        <4>2. m \in 1 .. Len(s)
          BY <2>6, <4>1
        <4> QED  BY <1>0, <4>2
      <3> QED  BY <3>1, <3>2
    <2>8. m \in Nat /\ m <= strnlen(s, n)
      BY <1>0, <2>4, <2>5, <2>7 DEF strnlen
    <2>9. ASSUME m < strnlen(s, n) PROVE s[m + 1] = Terminator
      <3>1. m + 1 = k /\ k \in 1 .. Len(s)
        BY <1>0, <2>4, <2>5, <2>9 DEF strnlen
      <3>2. At(s, k) = s[k] /\ s[k] # NUL
        BY <3>1, CharactersAt
      <3> QED  BY <2>5, <3>1, <3>2
    <2> QED  BY <2>6, <2>8, <2>9
  <1> QED  BY <1>1, <1>2

LEMMA CopiedFit ==
    ASSUME NEW s \in Texts, NEW n \in 1 .. (Long - 1), NEW c,
           c.s = s, c.n = n, c.strncpy = strncpy(s, n), c.user_strncpy = user_strncpy(s, n),
           c.strnlen_terminator = strnlen_terminator(s, n, Terminator)
    PROVE  CopiesFit(c)
PROOF
  <1>1. Long \in Nat /\ n \in Nat /\ n - 1 \in 0 .. (Long - 1)
    BY StringsAssumption
  <1>2. (n - 1) % Long = n - 1
    BY <1>1
  <1>3. Len(First_(s, n)) = strnlen(s, n)
    BY <1>1, FirstOfText
  <1>4. c.strncpy = Append(First_(s, n - 1), NUL) /\ c.user_strncpy = c.strncpy
    BY <1>2, Zenon DEF strncpy, user_strncpy, First_
  <1> DEFINE m == strnlen_terminator(s, n, Terminator)
  <1>5. /\ m <= strnlen(s, n)
        /\ \A i \in 1 .. m : s[i] # Terminator
        /\ m < strnlen(s, n) => s[m + 1] = Terminator
    BY <1>1, TerminatorFound
  <1> HIDE DEF m
  <1>6. c.strnlen_terminator = m
    BY DEF m
  <1> QED  BY <1>3, <1>4, <1>5, <1>6 DEF CopiesFit

----------------------------------------------------------------------------
\* Numbers.

LEMMA QuotientLess ==
    ASSUME NEW n \in Nat, NEW base \in 2 .. 36
    PROVE  /\ n \div base \in Nat
           /\ n # 0 => n \div base < n
           /\ n - base * (n \div base) \in 0 .. (base - 1)
PROOF
  <1> DEFINE q == n \div base
  <1>1. /\ q \in Int
        /\ base * q <= n /\ n < base * q + base
    OBVIOUS
  <1> HIDE DEF q
  <1>2. q >= 0
    <2>1. SUFFICES ASSUME q <= -1 PROVE FALSE
      BY <1>1
    <2>2. base * q <= -base
      BY <1>1, <2>1
    <2> QED  BY <1>1, <2>2
  <1>3. n # 0 => q < n
    <2>1. 2 * q <= base * q
      BY <1>1, <1>2
    <2> QED  BY <1>1, <1>2, <2>1
  <1>4. base * q \in Int
    BY <1>1
  <1>5. n - base * q \in 0 .. (base - 1)
    BY <1>1, <1>4
  <1> QED  BY <1>1, <1>2, <1>3, <1>5 DEF q

LEMMA QuotientWithin ==
    ASSUME NEW k \in Nat, NEW n \in -k .. k, n # 0, NEW base \in 2 .. 36
    PROVE  /\ k # 0
           /\ CQuotient(n, base) \in -(k - 1) .. (k - 1)
           /\ n > 0 => CQuotient(n, base) \in 0 .. (n - 1)
PROOF
  <1>1. CASE n > 0
    <2>1. n \div base \in Nat /\ n \div base < n
      BY <1>1, QuotientLess
    <2>2. CQuotient(n, base) = n \div base
      BY <1>1 DEF CQuotient
    <2> QED  BY <1>1, <2>1, <2>2
  <1>2. CASE n < 0
    <2>1. -n \in Nat /\ -n # 0
      BY <1>2
    <2>2. (-n) \div base \in Nat /\ (-n) \div base < -n
      BY <2>1, QuotientLess
    <2>3. CQuotient(n, base) = -((-n) \div base)
      BY <1>2 DEF CQuotient
    <2> QED  BY <1>2, <2>2, <2>3
  <1> QED  BY <1>1, <1>2

IsDigits(g, base, h) ==
    g = [n \in -h .. h |-> IF n = 0 THEN << >>
                          ELSE <<Digit(CRemainder(n, base))>> \o g[CQuotient(n, base)]]

LEMMA DigitsExist ==
    ASSUME NEW base \in 2 .. 36, NEW h \in Nat
    PROVE  \E g : IsDigits(g, base, h)
PROOF
  <1> DEFINE Bad == {k \in 0 .. h : ~ \E g : IsDigits(g, base, k)}
  <1>1. SUFFICES ASSUME Bad # {} PROVE FALSE
    <2>1. h \in 0 .. h
      OBVIOUS
    <2> QED  BY <2>1
  <1>2. PICK k \in Bad : \A j \in Bad : k <= j
    <2>1. Bad \subseteq Nat
      OBVIOUS
    <2> QED  BY <1>1, <2>1, LeastExists
  <1>3. CASE k = 0
    <2> DEFINE g == [n \in -0 .. 0 |-> << >>]
    <2>1. \A n \in -0 .. 0 : n = 0
      OBVIOUS
    <2>2. g = [n \in -0 .. 0 |-> IF n = 0 THEN << >>
                               ELSE <<Digit(CRemainder(n, base))>> \o g[CQuotient(n, base)]]
      BY <2>1
    <2> QED  BY <1>2, <1>3, <2>2 DEF IsDigits
  <1>4. CASE k # 0
    <2>1. k - 1 \in 0 .. h /\ k - 1 \notin Bad /\ k \in Nat
      BY <1>2, <1>4
    <2>2. PICK f : IsDigits(f, base, k - 1)
      BY <2>1
    <2> DEFINE g == [n \in -k .. k |-> IF n = 0 THEN << >>
                           ELSE <<Digit(CRemainder(n, base))>> \o f[CQuotient(n, base)]]
    <2>3. ASSUME NEW n \in -(k - 1) .. (k - 1) PROVE g[n] = f[n]
      <3>1. n \in -k .. k
        BY <2>1
      <3>2. f[n] = IF n = 0 THEN << >>
                   ELSE <<Digit(CRemainder(n, base))>> \o f[CQuotient(n, base)]
        BY <2>2 DEF IsDigits
      <3> QED  BY <3>1, <3>2
    <2>4. ASSUME NEW n \in -k .. k, n # 0 PROVE g[CQuotient(n, base)] = f[CQuotient(n, base)]
      <3>1. CQuotient(n, base) \in -(k - 1) .. (k - 1)
        BY <2>1, <2>4, QuotientWithin
      <3> HIDE DEF g
      <3> QED  BY <2>3, <3>1
    <2>5. ASSUME NEW n \in -k .. k
          PROVE  g[n] = IF n = 0 THEN << >>
                        ELSE <<Digit(CRemainder(n, base))>> \o g[CQuotient(n, base)]
      <3>1. g[n] = IF n = 0 THEN << >>
                   ELSE <<Digit(CRemainder(n, base))>> \o f[CQuotient(n, base)]
        OBVIOUS
      <3> HIDE DEF g
      <3> QED  BY <2>4, <3>1
    <2>6. g = [n \in -k .. k |-> IF n = 0 THEN << >>
                      ELSE <<Digit(CRemainder(n, base))>> \o g[CQuotient(n, base)]]
      <3>1. g = [n \in -k .. k |-> g[n]]
        OBVIOUS
      <3> HIDE DEF g
      <3> QED  BY <2>5, <3>1
    <2> QED  BY <1>2, <2>6 DEF IsDigits
  <1> QED  BY <1>3, <1>4

IsValue(g, digits, base, h) ==
    g = [n \in 0 .. h |-> IF n = 0 THEN 0 ELSE g[n - 1] * base + Numeric(digits[n])]

LEMMA ValueExists ==
    ASSUME NEW digits, NEW base, NEW h \in Nat
    PROVE  \E g : IsValue(g, digits, base, h)
PROOF
  <1> DEFINE Bad == {k \in 0 .. h : ~ \E g : IsValue(g, digits, base, k)}
  <1>1. SUFFICES ASSUME Bad # {} PROVE FALSE
    <2>1. h \in 0 .. h
      OBVIOUS
    <2> QED  BY <2>1
  <1>2. PICK k \in Bad : \A j \in Bad : k <= j
    <2>1. Bad \subseteq Nat
      OBVIOUS
    <2> QED  BY <1>1, <2>1, LeastExists
  <1>3. CASE k = 0
    <2> DEFINE g == [n \in 0 .. 0 |-> 0]
    <2>1. \A n \in 0 .. 0 : n = 0
      OBVIOUS
    <2>2. g = [n \in 0 .. 0 |-> IF n = 0 THEN 0 ELSE g[n - 1] * base + Numeric(digits[n])]
      BY <2>1
    <2> QED  BY <1>2, <1>3, <2>2 DEF IsValue
  <1>4. CASE k # 0
    <2>1. k - 1 \in 0 .. h /\ k - 1 \notin Bad /\ k \in 1 .. h
      BY <1>2, <1>4
    <2>2. PICK f : IsValue(f, digits, base, k - 1)
      BY <2>1
    <2> DEFINE g == [n \in 0 .. k |-> IF n = k THEN f[k - 1] * base + Numeric(digits[k]) ELSE f[n]]
    <2>3. ASSUME NEW n \in 0 .. k
          PROVE  g[n] = IF n = 0 THEN 0 ELSE g[n - 1] * base + Numeric(digits[n])
      <3>1. CASE n = k
        <4>1. n # 0 /\ n - 1 \in 0 .. k /\ n - 1 # k
          BY <2>1, <3>1
        <4> QED  BY <3>1, <4>1
      <3>2. CASE n # k
        <4>1. n \in 0 .. (k - 1) /\ (n # 0 => n - 1 \in 0 .. k /\ n - 1 # k)
          BY <2>1, <3>2
        <4>2. f[n] = IF n = 0 THEN 0 ELSE f[n - 1] * base + Numeric(digits[n])
          BY <2>2, <4>1 DEF IsValue
        <4> QED  BY <3>2, <4>1, <4>2
      <3> QED  BY <3>1, <3>2
    <2>4. g = [n \in 0 .. k |-> IF n = 0 THEN 0 ELSE g[n - 1] * base + Numeric(digits[n])]
      <3> HIDE DEF g
      <3>1. g = [n \in 0 .. k |-> g[n]]
        BY DEF g
      <3> QED  BY <2>3, <3>1
    <2> QED  BY <1>2, <2>4 DEF IsValue
  <1> QED  BY <1>3, <1>4

LEMMA ValueEnds ==
    ASSUME NEW digits, NEW base, Len(digits) \in Nat
    PROVE  \E g : IsValue(g, digits, base, Len(digits)) /\ Value(digits, base) = g[Len(digits)]
PROOF
  <1> DEFINE g == CHOOSE f : f = [n \in 0 .. Len(digits) |->
                      IF n = 0 THEN 0 ELSE f[n - 1] * base + Numeric(digits[n])]
  <1>1. \E f : f = [n \in 0 .. Len(digits) |->
                      IF n = 0 THEN 0 ELSE f[n - 1] * base + Numeric(digits[n])]
    <2>1. PICK f : IsValue(f, digits, base, Len(digits))
      BY ValueExists
    <2> QED  BY <2>1, Zenon DEF IsValue
  <1>2. IsValue(g, digits, base, Len(digits))
    BY <1>1, Zenon DEF IsValue
  <1>3. Value(digits, base) = g[Len(digits)]
    BY Zenon DEF Value
  <1> HIDE DEF g
  <1> QED  BY <1>2, <1>3

\* One digit more.
LEMMA ValueAppended ==
    ASSUME NEW s \in Seq(Nat), NEW x \in Nat, NEW base
    PROVE  Value(Append(s, x), base) = Value(s, base) * base + Numeric(x)
PROOF
  <1> DEFINE L == Len(s)
             t == Append(s, x)
  <1>1. L \in Nat /\ Len(t) = L + 1 /\ t[L + 1] = x /\ \A i \in 1 .. L : t[i] = s[i]
    BY LenProperties, AppendProperties
  <1>2. PICK v : IsValue(v, s, base, L) /\ Value(s, base) = v[L]
    BY <1>1, ValueEnds
  <1> HIDE DEF L, t
  <1>3. PICK w : IsValue(w, t, base, Len(t)) /\ Value(t, base) = w[Len(t)]
    <2>1. Len(t) \in Nat
      BY <1>1
    <2> QED  BY <2>1, ValueEnds
  <1>4. \A n \in 0 .. L : v[n] = IF n = 0 THEN 0 ELSE v[n - 1] * base + Numeric(s[n])
    BY <1>2 DEF IsValue
  <1>5. \A n \in 0 .. (L + 1) : w[n] = IF n = 0 THEN 0 ELSE w[n - 1] * base + Numeric(t[n])
    BY <1>1, <1>3 DEF IsValue
  <1>6. ASSUME NEW n \in 0 .. L PROVE v[n] = w[n]
    <2> DEFINE Bad == {k \in 0 .. L : v[k] # w[k]}
    <2>1. SUFFICES ASSUME Bad # {} PROVE FALSE
      OBVIOUS
    <2>2. Bad \subseteq Nat
      BY <1>1
    <2>3. PICK k \in Bad : \A j \in Bad : k <= j
      BY <2>1, <2>2, LeastExists
    <2>4. k \in 0 .. L /\ k \in 0 .. (L + 1)
      BY <1>1, <2>3
    <2>5. k # 0
      BY <1>4, <1>5, <2>3, <2>4
    <2>6. k - 1 \in 0 .. L /\ ~(k <= k - 1) /\ k \in 1 .. L
      BY <1>1, <2>4, <2>5
    <2>7. v[k - 1] = w[k - 1]
      BY <2>3, <2>6
    <2>8. v[k] = v[k - 1] * base + Numeric(s[k])
      BY <1>4, <2>4, <2>5
    <2>9. w[k] = w[k - 1] * base + Numeric(t[k])
      BY <1>5, <2>4, <2>5
    <2>10. t[k] = s[k]
      BY <1>1, <2>6
    <2> QED  BY <2>3, <2>7, <2>8, <2>9, <2>10
  <1>7. L + 1 \in 0 .. (L + 1) /\ L + 1 # 0 /\ L + 1 - 1 = L /\ L \in 0 .. L
    BY <1>1
  <1>8. w[L + 1] = w[L] * base + Numeric(t[L + 1])
    <2>1. w[L + 1] = w[L + 1 - 1] * base + Numeric(t[L + 1])
      BY <1>5, <1>7
    <2> QED  BY <1>7, <2>1
  <1>9. v[L] = w[L]
    BY <1>6, <1>7
  <1>10. Value(t, base) = Value(s, base) * base + Numeric(x)
    BY <1>1, <1>2, <1>3, <1>8, <1>9
  <1> QED  BY <1>10 DEF t

LEMMA ValueOfNone ==
    ASSUME NEW base
    PROVE  Value(<< >>, base) = 0
PROOF
  <1>1. Len(<< >>) = 0
    OBVIOUS
  <1>2. PICK g : IsValue(g, << >>, base, 0) /\ Value(<< >>, base) = g[0]
    BY <1>1, ValueEnds
  <1> QED  BY <1>2 DEF IsValue

LEMMA ReverseFacts ==
    ASSUME NEW S, NEW s \in Seq(S)
    PROVE  /\ Reverse(s) \in Seq(S)
           /\ Len(Reverse(s)) = Len(s)
           /\ \A i \in 1 .. Len(s) : Reverse(s)[i] = s[(Len(s) - i) + 1]
PROOF
  <1> DEFINE L == Len(s)
  <1>1. L \in Nat /\ \A i \in 1 .. L : s[i] \in S
    BY LenProperties, ElementOfSeq
  <1>2. Reverse(s) = [i \in 1 .. L |-> s[(L - i) + 1]]
    BY DEF Reverse
  <1> HIDE DEF L
  <1>3. \A i \in 1 .. L : (L - i) + 1 \in 1 .. L
    BY <1>1
  <1>4. \A i \in 1 .. L : s[(L - i) + 1] \in S
    BY <1>1, <1>3
  <1>5. Reverse(s) \in Seq(S) /\ Len(Reverse(s)) = L
    BY <1>1, <1>2, <1>4
  <1> QED  BY <1>2, <1>5 DEF L

LEMMA FrontReversed ==
    ASSUME NEW S, NEW s \in Seq(S), NEW x \in S
    PROVE  Reverse(<<x>> \o s) = Append(Reverse(s), x)
PROOF
  <1> DEFINE L == Len(s)
             a == <<x>> \o s
             b == Append(Reverse(s), x)
             r == Reverse(s)
  <1>1. L \in Nat
    BY LenProperties
  <1>2. <<x>> \in Seq(S) /\ Len(<<x>>) = 1 /\ <<x>>[1] = x
    OBVIOUS
  <1>3. /\ a \in Seq(S) /\ Len(a) = L + 1
        /\ \A i \in 1 .. (L + 1) : a[i] = IF i <= 1 THEN x ELSE s[i - 1]
    <2>1. /\ a \in Seq(S) /\ Len(a) = Len(<<x>>) + L
          /\ \A i \in 1 .. Len(<<x>>) + L : a[i] = IF i <= Len(<<x>>) THEN <<x>>[i] ELSE s[i - Len(<<x>>)]
      BY <1>2, ConcatProperties
    <2> HIDE DEF a
    <2>2. Len(a) = L + 1
      BY <1>1, <1>2, <2>1
    <2>3. ASSUME NEW i \in 1 .. (L + 1) PROVE a[i] = IF i <= 1 THEN x ELSE s[i - 1]
      <3>1. i \in 1 .. Len(<<x>>) + L
        BY <1>1, <1>2
      <3>2. i <= 1 => i = 1
        BY <1>1
      <3> QED  BY <1>2, <2>1, <3>1, <3>2
    <2> QED  BY <2>1, <2>2, <2>3
  <1>4. r \in Seq(S) /\ Len(r) = L /\ \A i \in 1 .. L : r[i] = s[(L - i) + 1]
    BY ReverseFacts
  <1>5. /\ Reverse(a) \in Seq(S) /\ Len(Reverse(a)) = L + 1
        /\ \A i \in 1 .. (L + 1) : Reverse(a)[i] = a[(L + 1 - i) + 1]
    <2> HIDE DEF a
    <2>1. /\ Reverse(a) \in Seq(S) /\ Len(Reverse(a)) = Len(a)
          /\ \A i \in 1 .. Len(a) : Reverse(a)[i] = a[(Len(a) - i) + 1]
      BY <1>3, ReverseFacts
    <2> QED  BY <1>3, <2>1
  <1>6. /\ b \in Seq(S) /\ Len(b) = Len(r) + 1
        /\ \A i \in 1 .. Len(r) : b[i] = r[i]
        /\ b[Len(r) + 1] = x
    <2> HIDE DEF r
    <2> QED  BY <1>4, AppendProperties DEF r
  <1> HIDE DEF a, b, r, L
  <1>7. ASSUME NEW i \in 1 .. (L + 1) PROVE Reverse(a)[i] = b[i]
    <2>1. CASE i = L + 1
      <3>1. (L + 1 - i) + 1 = 1 /\ 1 \in 1 .. (L + 1)
        BY <1>1, <2>1
      <3>2. Reverse(a)[i] = a[1] /\ a[1] = x
        BY <1>3, <1>5, <3>1
      <3>3. b[i] = x
        BY <1>4, <1>6, <2>1
      <3> QED  BY <3>2, <3>3
    <2>2. CASE i # L + 1
      <3>1. i \in 1 .. L /\ (L + 1 - i) + 1 \in 1 .. (L + 1) /\ ~((L + 1 - i) + 1 <= 1)
            /\ (L + 1 - i) + 1 - 1 = (L - i) + 1
        BY <1>1, <2>2
      <3>2. Reverse(a)[i] = a[(L + 1 - i) + 1]
        BY <1>5
      <3>3. a[(L + 1 - i) + 1] = s[(L - i) + 1]
        <4> DEFINE m == (L + 1 - i) + 1
        <4>1. m \in 1 .. (L + 1) /\ ~(m <= 1) /\ m - 1 = (L - i) + 1
          BY <1>1, <3>1
        <4> HIDE DEF m
        <4>2. a[m] = s[m - 1]
          BY <1>3, <4>1
        <4> QED  BY <4>1, <4>2 DEF m
      <3>4. b[i] = r[i] /\ r[i] = s[(L - i) + 1]
        BY <1>4, <1>6, <3>1
      <3> QED  BY <3>2, <3>3, <3>4
    <2> QED  BY <2>1, <2>2
  <1>8. Reverse(a) = b
    <2>1. Len(Reverse(a)) = Len(b)
      BY <1>4, <1>5, <1>6
    <2>2. \A i \in 1 .. Len(Reverse(a)) : Reverse(a)[i] = b[i]
      BY <1>5, <1>7
    <2> QED  BY <1>5, <1>6, <2>1, <2>2, SeqEqual
  <1> QED  BY <1>8 DEF a, b, r

LEMMA BackReversed ==
    ASSUME NEW S, NEW s \in Seq(S), NEW x \in S
    PROVE  /\ Reverse(s \o <<x>>)[1] = x
           /\ Tail(Reverse(s \o <<x>>)) = Reverse(s)
PROOF
  <1> DEFINE L == Len(s)
             a == s \o <<x>>
             ra == Reverse(a)
             r == Reverse(s)
  <1>1. L \in Nat
    BY LenProperties
  <1>2. <<x>> \in Seq(S) /\ Len(<<x>>) = 1 /\ <<x>>[1] = x
    OBVIOUS
  <1>3. /\ a \in Seq(S) /\ Len(a) = L + 1
        /\ \A i \in 1 .. (L + 1) : a[i] = IF i <= L THEN s[i] ELSE x
    <2>1. /\ a \in Seq(S) /\ Len(a) = L + Len(<<x>>)
          /\ \A i \in 1 .. L + Len(<<x>>) : a[i] = IF i <= L THEN s[i] ELSE <<x>>[i - L]
      BY <1>2, ConcatProperties
    <2> HIDE DEF a
    <2>2. Len(a) = L + 1
      BY <1>1, <1>2, <2>1
    <2>3. ASSUME NEW i \in 1 .. (L + 1) PROVE a[i] = IF i <= L THEN s[i] ELSE x
      <3>1. i \in 1 .. L + Len(<<x>>)
        BY <1>1, <1>2
      <3>2. ~(i <= L) => i - L = 1
        BY <1>1
      <3> QED  BY <1>2, <2>1, <3>1, <3>2
    <2> QED  BY <2>1, <2>2, <2>3
  <1>4. r \in Seq(S) /\ Len(r) = L /\ \A i \in 1 .. L : r[i] = s[(L - i) + 1]
    BY ReverseFacts
  <1>5. /\ ra \in Seq(S) /\ Len(ra) = L + 1
        /\ \A i \in 1 .. (L + 1) : ra[i] = a[(L + 1 - i) + 1]
    <2> HIDE DEF a
    <2>1. /\ Reverse(a) \in Seq(S) /\ Len(Reverse(a)) = Len(a)
          /\ \A i \in 1 .. Len(a) : Reverse(a)[i] = a[(Len(a) - i) + 1]
      BY <1>3, ReverseFacts
    <2> QED  BY <1>3, <2>1
  <1> HIDE DEF a, ra, r, L
  <1>6. ra[1] = x
    <2>1. 1 \in 1 .. (L + 1) /\ (L + 1 - 1) + 1 = L + 1 /\ L + 1 \in 1 .. (L + 1) /\ ~(L + 1 <= L)
      BY <1>1
    <2> QED  BY <1>3, <1>5, <2>1
  <1>7. /\ Tail(ra) \in Seq(S) /\ Len(Tail(ra)) = L
        /\ \A i \in 1 .. L : Tail(ra)[i] = ra[i + 1]
    <2>1. ra # << >>
      BY <1>1, <1>5, EmptySeq
    <2>2. /\ Tail(ra) \in Seq(S) /\ Len(Tail(ra)) = Len(ra) - 1
          /\ \A i \in 1 .. Len(Tail(ra)) : Tail(ra)[i] = ra[i + 1]
      BY <1>5, <2>1, HeadTailProperties
    <2>3. Len(Tail(ra)) = L
      BY <1>1, <1>5, <2>2
    <2> QED  BY <2>2, <2>3
  <1>8. ASSUME NEW i \in 1 .. L PROVE Tail(ra)[i] = r[i]
    <2>1. i + 1 \in 1 .. (L + 1) /\ (L + 1 - (i + 1)) + 1 = (L - i) + 1
          /\ (L - i) + 1 \in 1 .. (L + 1) /\ (L - i) + 1 <= L
      BY <1>1
    <2> QED  BY <1>3, <1>4, <1>5, <1>7, <2>1
  <1>9. Tail(ra) = r
    <2>1. Len(Tail(ra)) = Len(r) /\ \A i \in 1 .. Len(Tail(ra)) : Tail(ra)[i] = r[i]
      BY <1>4, <1>7, <1>8
    <2> QED  BY <1>4, <1>7, <2>1, SeqEqual
  <1> QED  BY <1>6, <1>9 DEF a, ra, r

LEMMA SeqGrows ==
    ASSUME NEW S, NEW T, S \subseteq T
    PROVE  Seq(S) \subseteq Seq(T)
PROOF
  OBVIOUS

DigitCodes == 48 .. 122

LEMMA CodesAreCharacters == Seq(DigitCodes) \subseteq Seq(Nat) /\ DigitCodes \subseteq Nat \ {Minus}
PROOF
  <1>1. DigitCodes \subseteq Nat /\ DigitCodes \subseteq Nat \ {Minus}
    BY DEF DigitCodes, Minus
  <1> QED  BY <1>1, SeqGrows

LEMMA DigitNumeric ==
    ASSUME NEW r \in 0 .. 35
    PROVE  Digit(r) \in DigitCodes /\ Numeric(Digit(r)) = r
PROOF
  BY DEF Digit, DigitCodes, Numeric, is_digit, to_numeric_digit

LEMMA DigitsEnd ==
    ASSUME NEW base \in 2 .. 36
    PROVE  \E g : IsDigits(g, base, Long) /\ \A num : Digits(num, base) = g[num]
PROOF
  <1> DEFINE g == CHOOSE f : f = [n \in -Long .. Long |-> IF n = 0 THEN << >>
                      ELSE <<Digit(CRemainder(n, base))>> \o f[CQuotient(n, base)]]
  <1>1. \E f : f = [n \in -Long .. Long |-> IF n = 0 THEN << >>
                      ELSE <<Digit(CRemainder(n, base))>> \o f[CQuotient(n, base)]]
    <2>1. PICK f : IsDigits(f, base, Long)
      BY DigitsExist, StringsAssumption
    <2> QED  BY <2>1, Zenon DEF IsDigits
  <1>2. IsDigits(g, base, Long)
    BY <1>1, Zenon DEF IsDigits
  <1>3. \A num : Digits(num, base) = g[num]
    BY Zenon DEF Digits
  <1> HIDE DEF g
  <1> QED  BY <1>2, <1>3

\* The digits of a number, read from the last one made.
ReadsAs(d, n, base) ==
    /\ d \in Seq(DigitCodes)
    /\ n # 0 => d # << >>
    /\ Value(Reverse(d), base) = n

LEMMA DigitsRead ==
    ASSUME NEW base \in 2 .. 36, NEW n \in 0 .. Long
    PROVE  ReadsAs(Digits(n, base), n, base)
PROOF
  <1> DEFINE Bad == {k \in 0 .. Long : ~ReadsAs(Digits(k, base), k, base)}
  <1>0. Long \in Nat
    BY StringsAssumption
  <1>1. SUFFICES ASSUME Bad # {} PROVE FALSE
    OBVIOUS
  <1>2. PICK k \in Bad : \A j \in Bad : k <= j
    <2>1. Bad \subseteq Nat
      BY <1>0
    <2> QED  BY <1>1, <2>1, LeastExists
  <1>3. PICK g : IsDigits(g, base, Long) /\ \A num : Digits(num, base) = g[num]
    BY DigitsEnd
  <1>4. k \in -Long .. Long /\ k \in Nat /\ k \in 0 .. Long
    BY <1>0, <1>2
  <1>5. g[k] = IF k = 0 THEN << >> ELSE <<Digit(CRemainder(k, base))>> \o g[CQuotient(k, base)]
    BY <1>3, <1>4 DEF IsDigits
  <1>6. k # 0
    <2> SUFFICES ASSUME k = 0 PROVE FALSE
      OBVIOUS
    <2>1. Digits(k, base) = << >>
      BY <1>3, <1>5
    <2>2. Reverse(<< >>) = << >>
      BY DEF Reverse
    <2>3. ReadsAs(<< >>, 0, base)
      BY <2>2, ValueOfNone DEF ReadsAs
    <2> QED  BY <1>2, <2>1, <2>3
  <1> DEFINE q == CQuotient(k, base)
             r == CRemainder(k, base)
             d == Digits(q, base)
             x == Digit(r)
  <1>7. q = k \div base /\ r = k - base * q
    BY <1>4 DEF CQuotient, CRemainder
  <1>8. q \in Nat /\ q < k /\ r \in 0 .. (base - 1)
    BY <1>4, <1>6, <1>7, QuotientLess
  <1>9. Digits(k, base) = <<x>> \o d
    BY <1>3, <1>5, <1>6
  <1> HIDE DEF q, r
  <1>10. ReadsAs(d, q, base)
    <2>1. q \in 0 .. Long /\ ~(k <= q)
      BY <1>0, <1>4, <1>8
    <2> QED  BY <1>2, <2>1
  <1>11. x \in DigitCodes /\ Numeric(x) = r
    <2>1. r \in 0 .. 35
      BY <1>8
    <2> QED  BY <2>1, DigitNumeric
  <1> HIDE DEF d, x
  <1>12. Reverse(<<x>> \o d) = Append(Reverse(d), x)
    BY <1>10, <1>11, FrontReversed DEF ReadsAs
  <1>13. Reverse(d) \in Seq(Nat) /\ x \in Nat
    <2>1. Reverse(d) \in Seq(DigitCodes)
      BY <1>10, ReverseFacts DEF ReadsAs
    <2> QED  BY <1>11, <2>1, CodesAreCharacters
  <1>14. Value(Append(Reverse(d), x), base) = Value(Reverse(d), base) * base + Numeric(x)
    BY <1>13, ValueAppended
  <1>15. Value(Reverse(<<x>> \o d), base) = q * base + r
    BY <1>10, <1>11, <1>12, <1>14 DEF ReadsAs
  <1>16. q * base + r = k
    BY <1>4, <1>7, <1>8
  <1>17. <<x>> \o d \in Seq(DigitCodes) /\ <<x>> \o d # << >>
    <2>1. d \in Seq(DigitCodes) /\ <<x>> \in Seq(DigitCodes) /\ <<x>> # << >>
      BY <1>10, <1>11 DEF ReadsAs
    <2> QED  BY <2>1, ConcatProperties, ConcatEqualIffEmpty
  <1>18. ReadsAs(<<x>> \o d, k, base)
    BY <1>15, <1>16, <1>17 DEF ReadsAs
  <1> QED  BY <1>2, <1>9, <1>18

LEMMA ReadWithoutSign ==
    ASSUME NEW d, NEW n, NEW base, ReadsAs(d, n, base), d # << >>
    PROVE  ReadBack(Reverse(d), base) = n
PROOF
  <1>1. d \in Seq(DigitCodes) /\ Len(d) \in Nat \ {0}
    BY EmptySeq DEF ReadsAs
  <1>2. Reverse(d) \in Seq(DigitCodes) /\ Len(Reverse(d)) = Len(d)
    BY <1>1, ReverseFacts
  <1>3. 1 \in 1 .. Len(Reverse(d))
    BY <1>1, <1>2
  <1>4. Reverse(d)[1] \in DigitCodes
    BY <1>2, <1>3, ElementOfSeq
  <1>5. Reverse(d)[1] # Minus
    BY <1>4, CodesAreCharacters
  <1> QED  BY <1>5 DEF ReadBack, ReadsAs

LEMMA ZeroRead ==
    ASSUME NEW base \in 2 .. 36
    PROVE  ReadBack(<<Digit(0)>>, base) = 0
PROOF
  <1>1. Digit(0) = 48 /\ Numeric(48) = 0
    BY DEF Digit, Numeric, is_digit, to_numeric_digit
  <1>2. <<48>> = Append(<< >>, 48) /\ << >> \in Seq(Nat)
    OBVIOUS
  <1>3. Value(<<48>>, base) = 0 * base + 0
    BY <1>1, <1>2, ValueAppended, ValueOfNone
  <1>4. <<48>>[1] # Minus
    BY DEF Minus
  <1> QED  BY <1>1, <1>3, <1>4 DEF ReadBack

LEMMA UnsignedRead ==
    ASSUME NEW num \in 0 .. Long, NEW base \in 2 .. 36
    PROVE  ReadBack(uitoa(num, base), base) = num
PROOF
  <1>1. CASE num = 0
    BY <1>1, ZeroRead DEF uitoa
  <1>2. CASE num # 0
    <2>1. uitoa(num, base) = Reverse(Digits(num, base))
      BY <1>2 DEF uitoa, strrev
    <2>2. ReadsAs(Digits(num, base), num, base)
      BY DigitsRead
    <2>3. Digits(num, base) # << >>
      BY <1>2, <2>2 DEF ReadsAs
    <2> QED  BY <2>1, <2>2, <2>3, ReadWithoutSign
  <1> QED  BY <1>1, <1>2

LEMMA SignedRange ==
    ASSUME NEW n \in Int
    PROVE  /\ Signed(n) \in -(Long \div 2) .. (Long \div 2 - 1)
           /\ n % Long \in 0 .. (Long - 1)
PROOF
  <1>1. Long \in Nat \ {0} /\ Long % 2 = 0
    BY StringsAssumption
  <1>2. n % Long \in 0 .. (Long - 1)
    BY <1>1
  <1>3. Long \div 2 \in Nat /\ Long = 2 * (Long \div 2)
    BY <1>1
  <1> DEFINE m == n % Long
             h == Long \div 2
  <1>4. Signed(n) = IF m >= h THEN m - Long ELSE m
    BY DEF Signed
  <1> HIDE DEF m, h
  <1>5. m \in 0 .. (Long - 1) /\ h \in Nat /\ Long = 2 * h
    BY <1>2, <1>3 DEF m, h
  <1>6. Signed(n) \in -h .. (h - 1)
    BY <1>4, <1>5
  <1> QED  BY <1>5, <1>6 DEF m, h

LEMMA SignedSame ==
    ASSUME NEW n \in 0 .. (Long \div 2 - 1)
    PROVE  Signed(n) = n /\ n \in 0 .. Long
PROOF
  <1>1. Long \in Nat \ {0} /\ Long % 2 = 0
    BY StringsAssumption
  <1>2. Long \div 2 \in Nat /\ Long = 2 * (Long \div 2)
    BY <1>1
  <1>3. n \in Nat /\ n < Long \div 2 /\ n < Long
    BY <1>2
  <1>4. n % Long = n
    BY <1>1, <1>3
  <1> QED  BY <1>1, <1>3, <1>4 DEF Signed

\* What is not negative is printed alike by both.
LEMMA SignedPrinted ==
    ASSUME NEW n \in Int, NEW base \in 2 .. 36, Signed(n) >= 0
    PROVE  Signed(n) \in 0 .. Long /\ itoa(Signed(n), base) = uitoa(Signed(n), base)
PROOF
  <1> DEFINE m == Signed(n)
             h == Long \div 2
  <1>1. m \in 0 .. (h - 1)
    <2>1. Long \in Nat
      BY StringsAssumption
    <2>2. m \in -h .. (h - 1) /\ h \in Nat
      BY <2>1, SignedRange
    <2> HIDE DEF h
    <2> QED  BY <2>2
  <1> HIDE DEF m
  <1>2. m \in 0 .. Long
    BY <1>1, SignedSame
  <1>3. ~(m < 0 /\ base = 10)
    BY <1>2
  <1>4. CASE m = 0
    BY <1>2, <1>4 DEF itoa, uitoa, m
  <1>5. CASE m # 0
    <2>1. itoa(m, base) = strrev(Digits(m, base) \o << >>)
      BY <1>3, <1>5 DEF itoa
    <2>2. Digits(m, base) \in Seq(DigitCodes)
      BY <1>2, DigitsRead DEF ReadsAs
    <2>3. Digits(m, base) \o << >> = Digits(m, base)
      BY <2>2, ConcatEmptySeq
    <2> QED  BY <1>2, <1>5, <2>1, <2>3 DEF uitoa, m
  <1> QED  BY <1>4, <1>5

LEMMA SignedRead ==
    ASSUME NEW n \in Int, NEW base \in 2 .. 36,
           Signed(n) >= 0 \/ (base = 10 /\ Signed(n) # -(Long \div 2))
    PROVE  ReadBack(itoa(Signed(n), base), base) = Signed(n)
PROOF
  <1> DEFINE m == Signed(n)
             h == Long \div 2
  <1>1. m \in -h .. (h - 1) /\ h \in Nat
    <2>1. Long \in Nat
      BY StringsAssumption
    <2> QED  BY <2>1, SignedRange
  <1>2. CASE m >= 0
    <2>1. m \in 0 .. Long /\ itoa(m, base) = uitoa(m, base)
      BY <1>2, SignedPrinted
    <2> HIDE DEF m
    <2>2. ReadBack(uitoa(m, base), base) = m
      BY <2>1, UnsignedRead
    <2> QED  BY <2>1, <2>2 DEF m
  <1>3. CASE ~(m >= 0)
    <2>1. base = 10 /\ m < 0 /\ -m \in 0 .. (h - 1) /\ -m # 0
      BY <1>1, <1>3
    <2> HIDE DEF m, h
    <2>2. Signed(-m) = -m /\ -m \in 0 .. Long
      BY <2>1, SignedSame DEF h
    <2> DEFINE d == Digits(-m, base)
    <2>3. ReadsAs(d, -m, base)
      BY <2>2, DigitsRead
    <2>4. itoa(m, base) = Reverse(d \o <<Minus>>)
      <3>1. m < 0 /\ base = 10 /\ m # 0
        BY <1>1, <2>1
      <3> QED  BY <2>2, <3>1 DEF itoa, strrev
    <2> HIDE DEF d
    <2>5. d \in Seq(Nat) /\ Minus \in Nat
      BY <2>3, CodesAreCharacters DEF ReadsAs, Minus
    <2>6. Reverse(d \o <<Minus>>)[1] = Minus /\ Tail(Reverse(d \o <<Minus>>)) = Reverse(d)
      BY <2>5, BackReversed
    <2>7. ReadBack(itoa(m, base), base) = -Value(Reverse(d), base)
      BY <2>4, <2>6 DEF ReadBack
    <2>8. Value(Reverse(d), base) = -m
      BY <2>3 DEF ReadsAs
    <2>9. -(-m) = m
      BY <1>1
    <2> QED  BY <2>7, <2>8, <2>9 DEF m
  <1> QED  BY <1>2, <1>3

LEMMA ConvertedRead ==
    ASSUME NEW n \in Int, NEW base \in 2 .. 36, NEW c, c.n = n, c.base = base,
           c.itoa = itoa(Signed(n), base), c.uitoa = uitoa(n % Long, base)
    PROVE  NumbersReadBack(c)
PROOF
  <1>1. n % Long \in 0 .. Long
    <2>1. Long \in Nat
      BY StringsAssumption
    <2> QED  BY <2>1, SignedRange
  <1>2. ReadBack(c.uitoa, c.base) = c.n % Long
    BY <1>1, UnsignedRead
  <1>3. Signed(n) >= 0 \/ (base = 10 /\ Signed(n) # -(Long \div 2)) =>
            ReadBack(itoa(Signed(n), base), base) = Signed(n)
    BY SignedRead
  <1>4. Signed(n) >= 0 => itoa(Signed(n), base) = uitoa(n % Long, base)
    <2>1. n % Long \in Int /\ Long \in Nat \ {0}
      BY StringsAssumption
    <2>2. Signed(n) >= 0 => Signed(n) = n % Long
      BY <1>1, <2>1 DEF Signed
    <2> QED  BY <2>2, SignedPrinted
  <1> QED  BY <1>2, <1>3, <1>4 DEF NumbersReadBack

----------------------------------------------------------------------------
\* Formats.

Letter == Literal \cup {"%", "s", "c", "d", "i", "l", "x", "p", "b", "u"}

\* The rest of a format behind a percent sign begins as text goes on behind its own.
Begins(rest, text) ==
    /\ Len(rest) \in Nat
    /\ Len(text) - 1 <= Len(rest)
    /\ \A j \in 1 .. (Len(text) - 1) : rest[j] = text[j + 1]

ReadAs(kernel, rest, d) == directive(kernel, rest) = Taken(Conversion(d.how), d.words, Len(d.text) - 1)

\* A directive that the kernel or a program takes as it is meant.
Understood(kernel, d) ==
    /\ d.text \in Seq(Letter)
    /\ Len(d.text) > 0
    /\ d.words \in Nat
    /\ \/ /\ d.how = "literal" /\ d.words = 0
          /\ Len(d.text) = 1 /\ d.text[1] # "%"
       \/ /\ d.how \notin {"literal", "nothing"}
          /\ d.text[1] = "%"
          /\ Len(d.text) > 1
          /\ \A rest : Begins(rest, d.text) => ReadAs(kernel, rest, d)

Conversions == {"percent", "char", "string", "itoa 10", "uitoa 16", "uitoa 2"}

\* The letters behind the percent sign come next.
Spells(rest, l) ==
    /\ Len(rest) \in Nat
    /\ Len(l) <= Len(rest)
    /\ \A j \in 1 .. Len(l) : rest[j] = l[j]

LEMMA PercentText ==
    ASSUME NEW l \in Seq(Letter)
    PROVE  /\ <<"%">> \o l \in Seq(Letter)
           /\ Len(l) \in Nat /\ Len(<<"%">> \o l) = Len(l) + 1
           /\ Len(<<"%">> \o l) - 1 = Len(l) /\ (Len(l) > 0 => Len(<<"%">> \o l) > 1)
           /\ (<<"%">> \o l)[1] = "%"
           /\ \A j \in 1 .. Len(l) : (<<"%">> \o l)[j + 1] = l[j]
PROOF
  <1> DEFINE text == <<"%">> \o l
             n == Len(l)
  <1>1. n \in Nat
    BY LenProperties
  <1>2. <<"%">> \in Seq(Letter) /\ Len(<<"%">>) = 1 /\ <<"%">>[1] = "%"
    BY DEF Letter
  <1>3. /\ text \in Seq(Letter) /\ Len(text) = Len(<<"%">>) + n
        /\ \A i \in 1 .. Len(<<"%">>) + n : text[i] = IF i <= Len(<<"%">>) THEN <<"%">>[i] ELSE l[i - Len(<<"%">>)]
    BY <1>2, ConcatProperties
  <1> HIDE DEF text, n
  <1>4. Len(text) = n + 1 /\ Len(text) - 1 = n /\ (n > 0 => Len(text) > 1)
    BY <1>1, <1>2, <1>3
  <1>5. text[1] = "%"
    <2>1. 1 \in 1 .. Len(<<"%">>) + n /\ 1 <= Len(<<"%">>)
      BY <1>1, <1>2
    <2> QED  BY <1>2, <1>3, <2>1
  <1>6. ASSUME NEW j \in 1 .. n PROVE text[j + 1] = l[j]
    <2>1. j + 1 \in 1 .. Len(<<"%">>) + n /\ ~(j + 1 <= Len(<<"%">>)) /\ j + 1 - Len(<<"%">>) = j
      BY <1>1, <1>2
    <2> QED  BY <1>3, <2>1
  <1> QED  BY <1>1, <1>3, <1>4, <1>5, <1>6 DEF text, n

LEMMA PercentUnderstood ==
    ASSUME NEW kernel, NEW l \in Seq(Letter), Len(l) > 0, NEW words \in Nat,
           NEW how \in Conversions \cup {"unsigned"},
           \A rest : Spells(rest, l) => directive(kernel, rest) = Taken(Conversion(how), words, Len(l))
    PROVE  Understood(kernel, [text |-> <<"%">> \o l, words |-> words, how |-> how])
PROOF
  <1> DEFINE text == <<"%">> \o l
             d == [text |-> text, words |-> words, how |-> how]
  <1>1. /\ text \in Seq(Letter) /\ Len(l) \in Nat /\ Len(text) - 1 = Len(l) /\ Len(text) > 1 /\ text[1] = "%"
        /\ \A j \in 1 .. Len(l) : text[j + 1] = l[j]
    BY PercentText
  <1> HIDE DEF text
  <1>2. d.text = text /\ d.words = words /\ d.how = how
    OBVIOUS
  <1> HIDE DEF d
  <1>4. ASSUME NEW rest, Begins(rest, text) PROVE ReadAs(kernel, rest, d)
    <2>1. Spells(rest, l)
      BY <1>1, <1>4, Zenon DEF Begins, Spells
    <2>2. directive(kernel, rest) = Taken(Conversion(how), words, Len(l))
      BY <2>1
    <2> QED  BY <1>1, <1>2, <2>2, Zenon DEF ReadAs
  <1>5. how \notin {"literal", "nothing"}
    BY Zenon DEF Conversions
  <1>6. Len(text) > 0
    <2> HIDE DEF d
    <2>1. Len(text) \in Nat
      BY <1>1, LenProperties
    <2> QED  BY <1>1, <2>1
  <1>7. /\ d.how \notin {"literal", "nothing"} /\ d.text[1] = "%" /\ Len(d.text) > 1
        /\ d.text \in Seq(Letter) /\ Len(d.text) > 0 /\ d.words \in Nat
    BY <1>1, <1>2, <1>5, <1>6
  <1>8. \A rest : Begins(rest, d.text) => ReadAs(kernel, rest, d)
    BY <1>2, <1>4
  <1>9. Understood(kernel, d)
    BY <1>7, <1>8 DEF Understood
  <1> QED  BY <1>9 DEF d, text

\* What a percent sign and letters mean.
LEMMA LettersRead ==
    ASSUME NEW kernel \in BOOLEAN, NEW rest, Len(rest) > 0
    PROVE  /\ rest[1] = "%" => directive(kernel, rest) = Taken("percent", 0, 1)
           /\ rest[1] = "c" => directive(kernel, rest) = Taken("char", 1, 1)
           /\ rest[1] = "s" => directive(kernel, rest) = Taken("string", 1, 1)
           /\ rest[1] \in {"d", "i"} => directive(kernel, rest) = Taken("itoa 10", 1, 1)
           /\ rest[1] \in {"x", "p"} => directive(kernel, rest) = Taken("uitoa 16", 1, 1)
           /\ rest[1] = "b" => directive(kernel, rest) = Taken("uitoa 2", 1, 1)
PROOF
  <1>1. Head(rest) = rest[1]
    OBVIOUS
  <1>2. rest[1] \notin {"u", "l"} => directive(kernel, rest) = Directive(rest[1])
    BY <1>1, Zenon DEF directive, kernel_directive, user_directive
  <1>3. /\ Directive("%") = Taken("percent", 0, 1)
        /\ Directive("c") = Taken("char", 1, 1)
        /\ Directive("s") = Taken("string", 1, 1)
        /\ Directive("d") = Taken("itoa 10", 1, 1) /\ Directive("i") = Taken("itoa 10", 1, 1)
        /\ Directive("x") = Taken("uitoa 16", 1, 1) /\ Directive("p") = Taken("uitoa 16", 1, 1)
        /\ Directive("b") = Taken("uitoa 2", 1, 1)
    BY DEF Directive
  <1> QED  BY <1>2, <1>3, Zenon

LEMMA LongLettersRead ==
    ASSUME NEW kernel \in BOOLEAN, NEW rest, Len(rest) > 1, rest[1] = "l"
    PROVE  /\ rest[2] \in {"d", "i"} => directive(kernel, rest) = Taken("itoa 10", 1, 2)
           /\ rest[2] = "x" => directive(kernel, rest) = Taken("uitoa 16", 1, 2)
           /\ rest[2] = "b" => directive(kernel, rest) = Taken("uitoa 2", 1, 2)
PROOF
  <1>1. Head(rest) = "l"
    OBVIOUS
  <1>2. rest[2] # "l" => kernel_directive(rest) = kvsprintf_l(rest[2])
    BY <1>1 DEF kernel_directive
  <1>3. user_directive(rest) = vsprintf_l(rest[2])
    BY <1>1 DEF user_directive
  <1>4. /\ kvsprintf_l("d") = Taken("itoa 10", 1, 2) /\ kvsprintf_l("i") = Taken("itoa 10", 1, 2)
        /\ kvsprintf_l("x") = Taken("uitoa 16", 1, 2)
        /\ kvsprintf_l("b") = Taken("uitoa 2", 1, 2)
    BY DEF kvsprintf_l
  <1>5. /\ vsprintf_l("d") = Taken("itoa 10", 1, 2) /\ vsprintf_l("i") = Taken("itoa 10", 1, 2)
        /\ vsprintf_l("x") = Taken("uitoa 16", 1, 2)
        /\ vsprintf_l("b") = Taken("uitoa 2", 1, 2)
    BY DEF vsprintf_l
  <1>6. /\ rest[2] \in {"d", "i"} => kernel_directive(rest) = Taken("itoa 10", 1, 2)
        /\ rest[2] = "x" => kernel_directive(rest) = Taken("uitoa 16", 1, 2)
        /\ rest[2] = "b" => kernel_directive(rest) = Taken("uitoa 2", 1, 2)
    BY <1>2, <1>4, Zenon
  <1>7. /\ rest[2] \in {"d", "i"} => user_directive(rest) = Taken("itoa 10", 1, 2)
        /\ rest[2] = "x" => user_directive(rest) = Taken("uitoa 16", 1, 2)
        /\ rest[2] = "b" => user_directive(rest) = Taken("uitoa 2", 1, 2)
    BY <1>3, <1>5, Zenon
  <1> QED  BY <1>6, <1>7, Zenon DEF directive

\* What only the kernel knows.
LEMMA KernelLettersRead ==
    ASSUME NEW rest, Len(rest) > 0
    PROVE  /\ rest[1] = "u" => directive(TRUE, rest) = Taken("itoa 10", 1, 1)
           /\ rest[1] = "l" /\ Len(rest) > 1 =>
                  /\ rest[2] = "u" => directive(TRUE, rest) = Taken("itoa 10", 1, 2)
                  /\ rest[2] = "p" => directive(TRUE, rest) = Taken("uitoa 16", 1, 2)
                  /\ rest[2] = "l" /\ Len(rest) > 2 =>
                         /\ rest[3] \in {"d", "i", "u"} => directive(TRUE, rest) = Taken("itoa 10", 2, 3)
                         /\ rest[3] \in {"x", "p"} => directive(TRUE, rest) = Taken("uitoa 16", 2, 3)
                         /\ rest[3] = "b" => directive(TRUE, rest) = Taken("uitoa 2", 2, 3)
PROOF
  <1>1. Head(rest) = rest[1] /\ directive(TRUE, rest) = kernel_directive(rest)
    BY DEF directive
  <1>2. rest[1] = "u" => kernel_directive(rest) = Taken("itoa 10", 1, 1)
    BY <1>1, Zenon DEF kernel_directive
  <1>3. rest[1] = "l" /\ Len(rest) > 1 /\ rest[2] # "l" => kernel_directive(rest) = kvsprintf_l(rest[2])
    BY <1>1 DEF kernel_directive
  <1>4. rest[1] = "l" /\ Len(rest) > 2 /\ rest[2] = "l" => kernel_directive(rest) = kvsprintf_ll(rest[3])
    <2> SUFFICES ASSUME rest[1] = "l", Len(rest) > 2, rest[2] = "l"
                 PROVE  kernel_directive(rest) = kvsprintf_ll(rest[3])
      OBVIOUS
    <2>1. Len(rest) > 1
      OBVIOUS
    <2> QED  BY <1>1, <2>1 DEF kernel_directive
  <1>5. kvsprintf_l("u") = Taken("itoa 10", 1, 2) /\ kvsprintf_l("p") = Taken("uitoa 16", 1, 2)
    BY DEF kvsprintf_l
  <1>6. /\ kvsprintf_ll("d") = Taken("itoa 10", 2, 3) /\ kvsprintf_ll("i") = Taken("itoa 10", 2, 3)
        /\ kvsprintf_ll("u") = Taken("itoa 10", 2, 3)
        /\ kvsprintf_ll("x") = Taken("uitoa 16", 2, 3) /\ kvsprintf_ll("p") = Taken("uitoa 16", 2, 3)
        /\ kvsprintf_ll("b") = Taken("uitoa 2", 2, 3)
    BY DEF kvsprintf_ll
  <1> QED  BY <1>1, <1>2, <1>3, <1>4, <1>5, <1>6, Zenon

Token(l, words, how) == [text |-> <<"%">> \o l, words |-> words, how |-> how]

LEMMA FamilyOf ==
    ASSUME NEW letters, NEW words, NEW how
    PROVE  Percent(letters, words, how) = {Token(l, words, how) : l \in letters}
PROOF
  BY Zenon DEF Percent, Token

LEMMA ConversionKept ==
    ASSUME NEW how \in Conversions
    PROVE  Conversion(how) = how /\ how \in Conversions \cup {"unsigned"}
PROOF
  BY DEF Conversions, Conversion

LEMMA OneUnderstood ==
    ASSUME NEW kernel, NEW a \in Letter, NEW words \in Nat, NEW how \in Conversions,
           \A rest : Len(rest) \in Nat /\ Len(rest) > 0 /\ rest[1] = a =>
               directive(kernel, rest) = Taken(how, words, 1)
    PROVE  Understood(kernel, Token(<<a>>, words, how))
PROOF
  <1> DEFINE l == <<a>>
  <1>1. l \in Seq(Letter) /\ Len(l) = 1 /\ l[1] = a
    OBVIOUS
  <1> HIDE DEF l
  <1>2. ASSUME NEW rest, Spells(rest, l) PROVE directive(kernel, rest) = Taken(how, words, Len(l))
    <2>1. Len(rest) \in Nat /\ Len(rest) > 0 /\ rest[1] = a
      BY <1>1, <1>2 DEF Spells
    <2> QED  BY <1>1, <2>1
  <1>3. Len(l) > 0
    BY <1>1
  <1>4. Understood(kernel, Token(l, words, how))
    BY <1>1, <1>2, <1>3, PercentUnderstood, ConversionKept DEF Token
  <1> QED  BY <1>4 DEF l

LEMMA TwoUnderstood ==
    ASSUME NEW kernel, NEW a \in Letter, NEW b \in Letter, NEW words \in Nat, NEW how \in Conversions,
           \A rest : Len(rest) \in Nat /\ Len(rest) > 1 /\ rest[1] = a /\ rest[2] = b =>
               directive(kernel, rest) = Taken(how, words, 2)
    PROVE  Understood(kernel, Token(<<a, b>>, words, how))
PROOF
  <1> DEFINE l == <<a, b>>
  <1>1. l \in Seq(Letter) /\ Len(l) = 2 /\ l[1] = a /\ l[2] = b
    OBVIOUS
  <1> HIDE DEF l
  <1>2. ASSUME NEW rest, Spells(rest, l) PROVE directive(kernel, rest) = Taken(how, words, Len(l))
    <2>1. Len(rest) \in Nat /\ Len(rest) > 1 /\ rest[1] = a /\ rest[2] = b
      BY <1>1, <1>2 DEF Spells
    <2> QED  BY <1>1, <2>1
  <1>3. Len(l) > 0
    BY <1>1
  <1>4. Understood(kernel, Token(l, words, how))
    BY <1>1, <1>2, <1>3, PercentUnderstood, ConversionKept DEF Token
  <1> QED  BY <1>4 DEF l

LEMMA ThreeUnderstood ==
    ASSUME NEW kernel, NEW a \in Letter, NEW b \in Letter, NEW e \in Letter, NEW words \in Nat, NEW how \in Conversions,
           \A rest : Len(rest) \in Nat /\ Len(rest) > 2 /\ rest[1] = a /\ rest[2] = b /\ rest[3] = e =>
               directive(kernel, rest) = Taken(how, words, 3)
    PROVE  Understood(kernel, Token(<<a, b, e>>, words, how))
PROOF
  <1> DEFINE l == <<a, b, e>>
  <1>1. l \in Seq(Letter) /\ Len(l) = 3 /\ l[1] = a /\ l[2] = b /\ l[3] = e
    OBVIOUS
  <1> HIDE DEF l
  <1>2. ASSUME NEW rest, Spells(rest, l) PROVE directive(kernel, rest) = Taken(how, words, Len(l))
    <2>1. Len(rest) \in Nat /\ Len(rest) > 2 /\ rest[1] = a /\ rest[2] = b /\ rest[3] = e
      BY <1>1, <1>2 DEF Spells
    <2> QED  BY <1>1, <2>1
  <1>3. Len(l) > 0
    BY <1>1
  <1>4. Understood(kernel, Token(l, words, how))
    BY <1>1, <1>2, <1>3, PercentUnderstood, ConversionKept DEF Token
  <1> QED  BY <1>4 DEF l

LEMMA PlainUnderstood ==
    ASSUME NEW kernel, NEW d \in Plain
    PROVE  Understood(kernel, d)
PROOF
  <1>1. PICK c \in Literal : d = [text |-> <<c>>, words |-> 0, how |-> "literal"]
    BY DEF Plain
  <1>2. c # "%" /\ c \in Letter
    BY CallsAssumption DEF Letter
  <1>3. d.text = <<c>> /\ d.words = 0 /\ d.how = "literal"
    BY <1>1
  <1>4. d.text \in Seq(Letter) /\ Len(d.text) = 1 /\ Len(d.text) > 0 /\ d.text[1] # "%"
    BY <1>2, <1>3
  <1> QED  BY <1>3, <1>4 DEF Understood

LEMMA KnownUnderstood ==
    ASSUME NEW kernel \in BOOLEAN, NEW d \in Known
    PROVE  Understood(kernel, d)
PROOF
  <1>0. {"%", "s", "c", "d", "i", "l", "x", "p", "b"} \subseteq Letter
    BY DEF Letter
  <1>1. \A e \in Percent({<<"%">>}, 0, "percent") : Understood(kernel, e)
    <2>1. Understood(kernel, Token(<<"%">>, 0, "percent"))
      <3>1. ASSUME NEW rest, Len(rest) \in Nat, Len(rest) > 0, rest[1] = "%"
            PROVE  directive(kernel, rest) = Taken("percent", 0, 1)
        BY <3>1, LettersRead, Zenon
      <3> QED  BY <1>0, <3>1, OneUnderstood, Zenon DEF Conversions
    <2> QED  BY <2>1, FamilyOf
  <1>2. \A e \in Percent({<<"s">>}, 1, "string") : Understood(kernel, e)
    <2>1. Understood(kernel, Token(<<"s">>, 1, "string"))
      <3>1. ASSUME NEW rest, Len(rest) \in Nat, Len(rest) > 0, rest[1] = "s"
            PROVE  directive(kernel, rest) = Taken("string", 1, 1)
        BY <3>1, LettersRead, Zenon
      <3> QED  BY <1>0, <3>1, OneUnderstood, Zenon DEF Conversions
    <2> QED  BY <2>1, FamilyOf
  <1>3. \A e \in Percent({<<"c">>}, 1, "char") : Understood(kernel, e)
    <2>1. Understood(kernel, Token(<<"c">>, 1, "char"))
      <3>1. ASSUME NEW rest, Len(rest) \in Nat, Len(rest) > 0, rest[1] = "c"
            PROVE  directive(kernel, rest) = Taken("char", 1, 1)
        BY <3>1, LettersRead, Zenon
      <3> QED  BY <1>0, <3>1, OneUnderstood, Zenon DEF Conversions
    <2> QED  BY <2>1, FamilyOf
  <1>4. \A e \in Percent({<<"d">>, <<"i">>, <<"l", "d">>, <<"l", "i">>}, 1, "itoa 10") : Understood(kernel, e)
    <2>1. Understood(kernel, Token(<<"d">>, 1, "itoa 10"))
      <3>1. ASSUME NEW rest, Len(rest) \in Nat, Len(rest) > 0, rest[1] = "d"
            PROVE  directive(kernel, rest) = Taken("itoa 10", 1, 1)
        BY <3>1, LettersRead, Zenon
      <3> QED  BY <1>0, <3>1, OneUnderstood, Zenon DEF Conversions
    <2>2. Understood(kernel, Token(<<"i">>, 1, "itoa 10"))
      <3>1. ASSUME NEW rest, Len(rest) \in Nat, Len(rest) > 0, rest[1] = "i"
            PROVE  directive(kernel, rest) = Taken("itoa 10", 1, 1)
        BY <3>1, LettersRead, Zenon
      <3> QED  BY <1>0, <3>1, OneUnderstood, Zenon DEF Conversions
    <2>3. Understood(kernel, Token(<<"l", "d">>, 1, "itoa 10"))
      <3>1. ASSUME NEW rest, Len(rest) \in Nat, Len(rest) > 1, rest[1] = "l", rest[2] = "d"
            PROVE  directive(kernel, rest) = Taken("itoa 10", 1, 2)
        BY <3>1, LongLettersRead, Zenon
      <3> QED  BY <1>0, <3>1, TwoUnderstood, Zenon DEF Conversions
    <2>4. Understood(kernel, Token(<<"l", "i">>, 1, "itoa 10"))
      <3>1. ASSUME NEW rest, Len(rest) \in Nat, Len(rest) > 1, rest[1] = "l", rest[2] = "i"
            PROVE  directive(kernel, rest) = Taken("itoa 10", 1, 2)
        BY <3>1, LongLettersRead, Zenon
      <3> QED  BY <1>0, <3>1, TwoUnderstood, Zenon DEF Conversions
    <2> QED  BY <2>1, <2>2, <2>3, <2>4, FamilyOf, Zenon
  <1>5. \A e \in Percent({<<"x">>, <<"p">>, <<"l", "x">>}, 1, "uitoa 16") : Understood(kernel, e)
    <2>1. Understood(kernel, Token(<<"x">>, 1, "uitoa 16"))
      <3>1. ASSUME NEW rest, Len(rest) \in Nat, Len(rest) > 0, rest[1] = "x"
            PROVE  directive(kernel, rest) = Taken("uitoa 16", 1, 1)
        BY <3>1, LettersRead, Zenon
      <3> QED  BY <1>0, <3>1, OneUnderstood, Zenon DEF Conversions
    <2>2. Understood(kernel, Token(<<"p">>, 1, "uitoa 16"))
      <3>1. ASSUME NEW rest, Len(rest) \in Nat, Len(rest) > 0, rest[1] = "p"
            PROVE  directive(kernel, rest) = Taken("uitoa 16", 1, 1)
        BY <3>1, LettersRead, Zenon
      <3> QED  BY <1>0, <3>1, OneUnderstood, Zenon DEF Conversions
    <2>3. Understood(kernel, Token(<<"l", "x">>, 1, "uitoa 16"))
      <3>1. ASSUME NEW rest, Len(rest) \in Nat, Len(rest) > 1, rest[1] = "l", rest[2] = "x"
            PROVE  directive(kernel, rest) = Taken("uitoa 16", 1, 2)
        BY <3>1, LongLettersRead, Zenon
      <3> QED  BY <1>0, <3>1, TwoUnderstood, Zenon DEF Conversions
    <2> QED  BY <2>1, <2>2, <2>3, FamilyOf, Zenon
  <1>6. \A e \in Percent({<<"b">>, <<"l", "b">>}, 1, "uitoa 2") : Understood(kernel, e)
    <2>1. Understood(kernel, Token(<<"b">>, 1, "uitoa 2"))
      <3>1. ASSUME NEW rest, Len(rest) \in Nat, Len(rest) > 0, rest[1] = "b"
            PROVE  directive(kernel, rest) = Taken("uitoa 2", 1, 1)
        BY <3>1, LettersRead, Zenon
      <3> QED  BY <1>0, <3>1, OneUnderstood, Zenon DEF Conversions
    <2>2. Understood(kernel, Token(<<"l", "b">>, 1, "uitoa 2"))
      <3>1. ASSUME NEW rest, Len(rest) \in Nat, Len(rest) > 1, rest[1] = "l", rest[2] = "b"
            PROVE  directive(kernel, rest) = Taken("uitoa 2", 1, 2)
        BY <3>1, LongLettersRead, Zenon
      <3> QED  BY <1>0, <3>1, TwoUnderstood, Zenon DEF Conversions
    <2> QED  BY <2>1, <2>2, FamilyOf, Zenon
  <1> QED  BY <1>1, <1>2, <1>3, <1>4, <1>5, <1>6, PlainUnderstood, Zenon DEF Known

LEMMA LettersAre ==
    ASSUME NEW a \in Letter, NEW b \in Letter, NEW e \in Letter
    PROVE  /\ <<a>> \in Seq(Letter) /\ Len(<<a>>) = 1 /\ <<a>>[1] = a
           /\ <<a, b>> \in Seq(Letter) /\ Len(<<a, b>>) = 2 /\ <<a, b>>[1] = a /\ <<a, b>>[2] = b
           /\ <<a, b, e>> \in Seq(Letter) /\ Len(<<a, b, e>>) = 3
           /\ <<a, b, e>>[1] = a /\ <<a, b, e>>[2] = b /\ <<a, b, e>>[3] = e
PROOF
  OBVIOUS

\* What stands for unsigned numbers in base ten.
LEMMA UnsignedUnderstood ==
    /\ Understood(TRUE, Token(<<"u">>, 1, "unsigned"))
    /\ Understood(TRUE, Token(<<"l", "u">>, 1, "unsigned"))
    /\ Understood(TRUE, Token(<<"l", "l", "u">>, 2, "unsigned"))
PROOF
  <1>0. /\ "u" \in Letter /\ "l" \in Letter
        /\ "unsigned" \in Conversions \cup {"unsigned"}
        /\ Conversion("unsigned") = "itoa 10"
    BY DEF Letter, Conversion
  <1>1. Understood(TRUE, Token(<<"u">>, 1, "unsigned"))
    <2> DEFINE l == <<"u">>
    <2>1. l \in Seq(Letter) /\ Len(l) = 1 /\ l[1] = "u"
      BY <1>0, LettersAre, Zenon
    <2> HIDE DEF l
    <2>2. ASSUME NEW rest, Spells(rest, l) PROVE directive(TRUE, rest) = Taken(Conversion("unsigned"), 1, Len(l))
      <3>1. Len(rest) > 0 /\ rest[1] = "u"
        BY <2>1, <2>2 DEF Spells
      <3> QED  BY <1>0, <2>1, <3>1, KernelLettersRead
    <2>3. Len(l) > 0 /\ 1 \in Nat
      BY <2>1
    <2>4. Understood(TRUE, Token(l, 1, "unsigned"))
      BY <1>0, <2>1, <2>2, <2>3, PercentUnderstood, Zenon DEF Token
    <2> QED  BY <2>4 DEF l
  <1>2. Understood(TRUE, Token(<<"l", "u">>, 1, "unsigned"))
    <2> DEFINE l == <<"l", "u">>
    <2>1. l \in Seq(Letter) /\ Len(l) = 2 /\ l[1] = "l" /\ l[2] = "u"
      BY <1>0, LettersAre, Zenon
    <2> HIDE DEF l
    <2>2. ASSUME NEW rest, Spells(rest, l) PROVE directive(TRUE, rest) = Taken(Conversion("unsigned"), 1, Len(l))
      <3>1. Len(rest) > 0 /\ Len(rest) > 1 /\ rest[1] = "l" /\ rest[2] = "u"
        BY <2>1, <2>2 DEF Spells
      <3> QED  BY <1>0, <2>1, <3>1, KernelLettersRead
    <2>3. Len(l) > 0 /\ 1 \in Nat
      BY <2>1
    <2>4. Understood(TRUE, Token(l, 1, "unsigned"))
      BY <1>0, <2>1, <2>2, <2>3, PercentUnderstood, Zenon DEF Token
    <2> QED  BY <2>4 DEF l
  <1>3. Understood(TRUE, Token(<<"l", "l", "u">>, 2, "unsigned"))
    <2> DEFINE l == <<"l", "l", "u">>
    <2>1. l \in Seq(Letter) /\ Len(l) = 3 /\ l[1] = "l" /\ l[2] = "l" /\ l[3] = "u"
      BY <1>0, LettersAre, Zenon
    <2> HIDE DEF l
    <2>2. ASSUME NEW rest, Spells(rest, l) PROVE directive(TRUE, rest) = Taken(Conversion("unsigned"), 2, Len(l))
      <3>1. Len(rest) > 0 /\ Len(rest) > 1 /\ Len(rest) > 2 /\ rest[1] = "l" /\ rest[2] = "l" /\ rest[3] = "u"
        BY <2>1, <2>2 DEF Spells
      <3> QED  BY <1>0, <2>1, <3>1, KernelLettersRead
    <2>3. Len(l) > 0 /\ 2 \in Nat
      BY <2>1
    <2>4. Understood(TRUE, Token(l, 2, "unsigned"))
      BY <1>0, <2>1, <2>2, <2>3, PercentUnderstood, Zenon DEF Token
    <2> QED  BY <2>4 DEF l
  <1> QED  BY <1>1, <1>2, <1>3

LEMMA KernelUnderstood ==
    ASSUME NEW d \in KernelOnly
    PROVE  Understood(TRUE, d)
PROOF
  <1>0. {"u", "d", "i", "l", "x", "p", "b"} \subseteq Letter
    BY DEF Letter
  <1>1. \A e \in Percent({<<"u">>, <<"l", "u">>}, 1, "unsigned") : Understood(TRUE, e)
    BY UnsignedUnderstood, FamilyOf
  <1>2. \A e \in Percent({<<"l", "p">>}, 1, "uitoa 16") : Understood(TRUE, e)
    <2>1. Understood(TRUE, Token(<<"l", "p">>, 1, "uitoa 16"))
      <3>1. ASSUME NEW rest, Len(rest) \in Nat, Len(rest) > 1, rest[1] = "l", rest[2] = "p"
            PROVE  directive(TRUE, rest) = Taken("uitoa 16", 1, 2)
        <4>1. Len(rest) > 0
          BY <3>1
        <4> QED  BY <3>1, <4>1, KernelLettersRead, Zenon
      <3> QED  BY <1>0, <3>1, TwoUnderstood, Zenon DEF Conversions
    <2> QED  BY <2>1, FamilyOf, Zenon
  <1>3. \A e \in Percent({<<"l", "l", "d">>, <<"l", "l", "i">>}, 2, "itoa 10") : Understood(TRUE, e)
    <2>1. Understood(TRUE, Token(<<"l", "l", "d">>, 2, "itoa 10"))
      <3>1. ASSUME NEW rest, Len(rest) \in Nat, Len(rest) > 2, rest[1] = "l", rest[2] = "l", rest[3] = "d"
            PROVE  directive(TRUE, rest) = Taken("itoa 10", 2, 3)
        <4>1. Len(rest) > 0 /\ Len(rest) > 1
          BY <3>1
        <4> QED  BY <3>1, <4>1, KernelLettersRead, Zenon
      <3> QED  BY <1>0, <3>1, ThreeUnderstood, Zenon DEF Conversions
    <2>2. Understood(TRUE, Token(<<"l", "l", "i">>, 2, "itoa 10"))
      <3>1. ASSUME NEW rest, Len(rest) \in Nat, Len(rest) > 2, rest[1] = "l", rest[2] = "l", rest[3] = "i"
            PROVE  directive(TRUE, rest) = Taken("itoa 10", 2, 3)
        <4>1. Len(rest) > 0 /\ Len(rest) > 1
          BY <3>1
        <4> QED  BY <3>1, <4>1, KernelLettersRead, Zenon
      <3> QED  BY <1>0, <3>1, ThreeUnderstood, Zenon DEF Conversions
    <2> QED  BY <2>1, <2>2, FamilyOf, Zenon
  <1>4. \A e \in Percent({<<"l", "l", "x">>, <<"l", "l", "p">>}, 2, "uitoa 16") : Understood(TRUE, e)
    <2>1. Understood(TRUE, Token(<<"l", "l", "x">>, 2, "uitoa 16"))
      <3>1. ASSUME NEW rest, Len(rest) \in Nat, Len(rest) > 2, rest[1] = "l", rest[2] = "l", rest[3] = "x"
            PROVE  directive(TRUE, rest) = Taken("uitoa 16", 2, 3)
        <4>1. Len(rest) > 0 /\ Len(rest) > 1
          BY <3>1
        <4> QED  BY <3>1, <4>1, KernelLettersRead, Zenon
      <3> QED  BY <1>0, <3>1, ThreeUnderstood, Zenon DEF Conversions
    <2>2. Understood(TRUE, Token(<<"l", "l", "p">>, 2, "uitoa 16"))
      <3>1. ASSUME NEW rest, Len(rest) \in Nat, Len(rest) > 2, rest[1] = "l", rest[2] = "l", rest[3] = "p"
            PROVE  directive(TRUE, rest) = Taken("uitoa 16", 2, 3)
        <4>1. Len(rest) > 0 /\ Len(rest) > 1
          BY <3>1
        <4> QED  BY <3>1, <4>1, KernelLettersRead, Zenon
      <3> QED  BY <1>0, <3>1, ThreeUnderstood, Zenon DEF Conversions
    <2> QED  BY <2>1, <2>2, FamilyOf, Zenon
  <1>5. \A e \in Percent({<<"l", "l", "b">>}, 2, "uitoa 2") : Understood(TRUE, e)
    <2>1. Understood(TRUE, Token(<<"l", "l", "b">>, 2, "uitoa 2"))
      <3>1. ASSUME NEW rest, Len(rest) \in Nat, Len(rest) > 2, rest[1] = "l", rest[2] = "l", rest[3] = "b"
            PROVE  directive(TRUE, rest) = Taken("uitoa 2", 2, 3)
        <4>1. Len(rest) > 0 /\ Len(rest) > 1
          BY <3>1
        <4> QED  BY <3>1, <4>1, KernelLettersRead, Zenon
      <3> QED  BY <1>0, <3>1, ThreeUnderstood, Zenon DEF Conversions
    <2> QED  BY <2>1, FamilyOf, Zenon
  <1>6. \A e \in Percent({<<"l", "l", "u">>}, 2, "unsigned") : Understood(TRUE, e)
    BY UnsignedUnderstood, FamilyOf
  <1> QED  BY <1>1, <1>2, <1>3, <1>4, <1>5, <1>6, Zenon DEF KernelOnly

----------------------------------------------------------------------------
\* Texts of directives, and the turns of a loop over them.

IsSpelled(g, tokens, h) ==
    g = [n \in 0 .. h |-> IF n = 0 THEN << >> ELSE g[n - 1] \o tokens[n].text]

LEMMA SpelledExists ==
    ASSUME NEW tokens, NEW h \in Nat
    PROVE  \E g : IsSpelled(g, tokens, h)
PROOF
  <1> DEFINE Bad == {k \in 0 .. h : ~ \E g : IsSpelled(g, tokens, k)}
  <1>1. SUFFICES ASSUME Bad # {} PROVE FALSE
    <2>1. h \in 0 .. h
      OBVIOUS
    <2> QED  BY <2>1
  <1>2. PICK k \in Bad : \A j \in Bad : k <= j
    <2>1. Bad \subseteq Nat
      OBVIOUS
    <2> QED  BY <1>1, <2>1, LeastExists
  <1>3. CASE k = 0
    <2> DEFINE g == [n \in 0 .. 0 |-> << >>]
    <2>1. \A n \in 0 .. 0 : n = 0
      OBVIOUS
    <2>2. g = [n \in 0 .. 0 |-> IF n = 0 THEN << >> ELSE g[n - 1] \o tokens[n].text]
      BY <2>1
    <2> QED  BY <1>2, <1>3, <2>2 DEF IsSpelled
  <1>4. CASE k # 0
    <2>1. k - 1 \in 0 .. h /\ k - 1 \notin Bad /\ k \in 1 .. h
      BY <1>2, <1>4
    <2>2. PICK f : IsSpelled(f, tokens, k - 1)
      BY <2>1
    <2> DEFINE g == [n \in 0 .. k |-> IF n = k THEN f[k - 1] \o tokens[k].text ELSE f[n]]
    <2>3. ASSUME NEW n \in 0 .. k
          PROVE  g[n] = IF n = 0 THEN << >> ELSE g[n - 1] \o tokens[n].text
      <3>1. CASE n = k
        <4>1. n # 0 /\ n - 1 \in 0 .. k /\ n - 1 # k
          BY <2>1, <3>1
        <4> QED  BY <3>1, <4>1
      <3>2. CASE n # k
        <4>1. n \in 0 .. (k - 1) /\ (n # 0 => n - 1 \in 0 .. k /\ n - 1 # k)
          BY <2>1, <3>2
        <4>2. f[n] = IF n = 0 THEN << >> ELSE f[n - 1] \o tokens[n].text
          BY <2>2, <4>1 DEF IsSpelled
        <4> QED  BY <3>2, <4>1, <4>2
      <3> QED  BY <3>1, <3>2
    <2>4. g = [n \in 0 .. k |-> IF n = 0 THEN << >> ELSE g[n - 1] \o tokens[n].text]
      <3> HIDE DEF g
      <3>1. g = [n \in 0 .. k |-> g[n]]
        BY DEF g
      <3> QED  BY <2>3, <3>1
    <2> QED  BY <1>2, <2>4 DEF IsSpelled
  <1> QED  BY <1>3, <1>4

IsWords(g, tokens, h) ==
    g = [n \in 0 .. h |-> IF n = 0 THEN 0 ELSE g[n - 1] + tokens[n].words]

LEMMA WordsExist ==
    ASSUME NEW tokens, NEW h \in Nat
    PROVE  \E g : IsWords(g, tokens, h)
PROOF
  <1> DEFINE Bad == {k \in 0 .. h : ~ \E g : IsWords(g, tokens, k)}
  <1>1. SUFFICES ASSUME Bad # {} PROVE FALSE
    <2>1. h \in 0 .. h
      OBVIOUS
    <2> QED  BY <2>1
  <1>2. PICK k \in Bad : \A j \in Bad : k <= j
    <2>1. Bad \subseteq Nat
      OBVIOUS
    <2> QED  BY <1>1, <2>1, LeastExists
  <1>3. CASE k = 0
    <2> DEFINE g == [n \in 0 .. 0 |-> 0]
    <2>1. \A n \in 0 .. 0 : n = 0
      OBVIOUS
    <2>2. g = [n \in 0 .. 0 |-> IF n = 0 THEN 0 ELSE g[n - 1] + tokens[n].words]
      BY <2>1
    <2> QED  BY <1>2, <1>3, <2>2 DEF IsWords
  <1>4. CASE k # 0
    <2>1. k - 1 \in 0 .. h /\ k - 1 \notin Bad /\ k \in 1 .. h
      BY <1>2, <1>4
    <2>2. PICK f : IsWords(f, tokens, k - 1)
      BY <2>1
    <2> DEFINE g == [n \in 0 .. k |-> IF n = k THEN f[k - 1] + tokens[k].words ELSE f[n]]
    <2>3. ASSUME NEW n \in 0 .. k
          PROVE  g[n] = IF n = 0 THEN 0 ELSE g[n - 1] + tokens[n].words
      <3>1. CASE n = k
        <4>1. n # 0 /\ n - 1 \in 0 .. k /\ n - 1 # k
          BY <2>1, <3>1
        <4> QED  BY <3>1, <4>1
      <3>2. CASE n # k
        <4>1. n \in 0 .. (k - 1) /\ (n # 0 => n - 1 \in 0 .. k /\ n - 1 # k)
          BY <2>1, <3>2
        <4>2. f[n] = IF n = 0 THEN 0 ELSE f[n - 1] + tokens[n].words
          BY <2>2, <4>1 DEF IsWords
        <4> QED  BY <3>2, <4>1, <4>2
      <3> QED  BY <3>1, <3>2
    <2>4. g = [n \in 0 .. k |-> IF n = 0 THEN 0 ELSE g[n - 1] + tokens[n].words]
      <3> HIDE DEF g
      <3>1. g = [n \in 0 .. k |-> g[n]]
        BY DEF g
      <3> QED  BY <2>3, <3>1
    <2> QED  BY <1>2, <2>4 DEF IsWords
  <1> QED  BY <1>3, <1>4

IsTurns(g, kernel, fmt, h) ==
    g = [n \in 0 .. h |-> IF n = 0 THEN [i |-> 1, word |-> 1, out |-> << >>] ELSE Turn(kernel, fmt, g[n - 1])]

LEMMA TurnsExist ==
    ASSUME NEW kernel, NEW fmt, NEW h \in Nat
    PROVE  \E g : IsTurns(g, kernel, fmt, h)
PROOF
  <1> DEFINE Bad == {k \in 0 .. h : ~ \E g : IsTurns(g, kernel, fmt, k)}
  <1>1. SUFFICES ASSUME Bad # {} PROVE FALSE
    <2>1. h \in 0 .. h
      OBVIOUS
    <2> QED  BY <2>1
  <1>2. PICK k \in Bad : \A j \in Bad : k <= j
    <2>1. Bad \subseteq Nat
      OBVIOUS
    <2> QED  BY <1>1, <2>1, LeastExists
  <1>3. CASE k = 0
    <2> DEFINE g == [n \in 0 .. 0 |-> [i |-> 1, word |-> 1, out |-> << >>]]
    <2>1. \A n \in 0 .. 0 : n = 0
      OBVIOUS
    <2>2. g = [n \in 0 .. 0 |-> IF n = 0 THEN [i |-> 1, word |-> 1, out |-> << >>] ELSE Turn(kernel, fmt, g[n - 1])]
      BY <2>1
    <2> QED  BY <1>2, <1>3, <2>2 DEF IsTurns
  <1>4. CASE k # 0
    <2>1. k - 1 \in 0 .. h /\ k - 1 \notin Bad /\ k \in 1 .. h
      BY <1>2, <1>4
    <2>2. PICK f : IsTurns(f, kernel, fmt, k - 1)
      BY <2>1
    <2> DEFINE g == [n \in 0 .. k |-> IF n = k THEN Turn(kernel, fmt, f[k - 1]) ELSE f[n]]
    <2>3. ASSUME NEW n \in 0 .. k
          PROVE  g[n] = IF n = 0 THEN [i |-> 1, word |-> 1, out |-> << >>] ELSE Turn(kernel, fmt, g[n - 1])
      <3>1. CASE n = k
        <4>1. n # 0 /\ n - 1 \in 0 .. k /\ n - 1 # k
          BY <2>1, <3>1
        <4> QED  BY <3>1, <4>1
      <3>2. CASE n # k
        <4>1. n \in 0 .. (k - 1) /\ (n # 0 => n - 1 \in 0 .. k /\ n - 1 # k)
          BY <2>1, <3>2
        <4>2. f[n] = IF n = 0 THEN [i |-> 1, word |-> 1, out |-> << >>] ELSE Turn(kernel, fmt, f[n - 1])
          BY <2>2, <4>1 DEF IsTurns
        <4> QED  BY <3>2, <4>1, <4>2
      <3> QED  BY <3>1, <3>2
    <2>4. g = [n \in 0 .. k |-> IF n = 0 THEN [i |-> 1, word |-> 1, out |-> << >>] ELSE Turn(kernel, fmt, g[n - 1])]
      <3> HIDE DEF g
      <3>1. g = [n \in 0 .. k |-> g[n]]
        BY DEF g
      <3> QED  BY <2>3, <3>1
    <2> QED  BY <1>2, <2>4 DEF IsTurns
  <1> QED  BY <1>3, <1>4

LEMMA SpelledEnds ==
    ASSUME NEW tokens, Len(tokens) \in Nat
    PROVE  \E g : IsSpelled(g, tokens, Len(tokens)) /\ Spelled(tokens) = g[Len(tokens)]
PROOF
  <1> DEFINE g == CHOOSE f : f = [n \in 0 .. Len(tokens) |-> IF n = 0 THEN << >> ELSE f[n - 1] \o tokens[n].text]
  <1>1. \E f : f = [n \in 0 .. Len(tokens) |-> IF n = 0 THEN << >> ELSE f[n - 1] \o tokens[n].text]
    <2>1. PICK f : IsSpelled(f, tokens, Len(tokens))
      BY SpelledExists
    <2> QED  BY <2>1, Zenon DEF IsSpelled
  <1>2. IsSpelled(g, tokens, Len(tokens))
    BY <1>1, Zenon DEF IsSpelled
  <1>3. Spelled(tokens) = g[Len(tokens)]
    BY Zenon DEF Spelled
  <1> HIDE DEF g
  <1> QED  BY <1>2, <1>3

LEMMA WordsEnd ==
    ASSUME NEW tokens, Len(tokens) \in Nat
    PROVE  \E g : IsWords(g, tokens, Len(tokens)) /\ \A i : WordsBefore(tokens, i) = g[i - 1]
PROOF
  <1> DEFINE g == CHOOSE f : f = [n \in 0 .. Len(tokens) |-> IF n = 0 THEN 0 ELSE f[n - 1] + tokens[n].words]
  <1>1. \E f : f = [n \in 0 .. Len(tokens) |-> IF n = 0 THEN 0 ELSE f[n - 1] + tokens[n].words]
    <2>1. PICK f : IsWords(f, tokens, Len(tokens))
      BY WordsExist
    <2> QED  BY <2>1, Zenon DEF IsWords
  <1>2. IsWords(g, tokens, Len(tokens))
    BY <1>1, Zenon DEF IsWords
  <1>3. \A i : WordsBefore(tokens, i) = g[i - 1]
    BY Zenon DEF WordsBefore
  <1> HIDE DEF g
  <1> QED  BY <1>2, <1>3

LEMMA TurnsEnd ==
    ASSUME NEW kernel, NEW fmt, Len(fmt) \in Nat
    PROVE  \E g : IsTurns(g, kernel, fmt, Len(fmt)) /\ Printed(kernel, fmt) = g[Len(fmt)].out
PROOF
  <1> DEFINE g == CHOOSE f : f = [n \in 0 .. Len(fmt) |-> IF n = 0 THEN [i |-> 1, word |-> 1, out |-> << >>] ELSE Turn(kernel, fmt, f[n - 1])]
  <1>1. \E f : f = [n \in 0 .. Len(fmt) |-> IF n = 0 THEN [i |-> 1, word |-> 1, out |-> << >>] ELSE Turn(kernel, fmt, f[n - 1])]
    <2>1. PICK f : IsTurns(f, kernel, fmt, Len(fmt))
      BY TurnsExist
    <2> QED  BY <2>1, Zenon DEF IsTurns
  <1>2. IsTurns(g, kernel, fmt, Len(fmt))
    BY <1>1, Zenon DEF IsTurns
  <1>3. Printed(kernel, fmt) = g[Len(fmt)].out
    BY Zenon DEF Printed
  <1> HIDE DEF g
  <1> QED  BY <1>2, <1>3

\* b begins with a.
Continues(b, a) == Len(a) <= Len(b) /\ \A j \in 1 .. Len(a) : b[j] = a[j]

LEMMA ChainContinues ==
    ASSUME NEW g, NEW a \in Nat, NEW b \in Nat, a <= b,
           \A m \in a .. b : Len(g[m]) \in Nat,
           \A m \in (a + 1) .. b : Continues(g[m], g[m - 1])
    PROVE  Continues(g[b], g[a])
PROOF
  <1> DEFINE Bad == {m \in a .. b : ~Continues(g[m], g[a])}
  <1>1. SUFFICES ASSUME Bad # {} PROVE FALSE
    <2>1. b \in a .. b
      OBVIOUS
    <2> QED  BY <2>1
  <1>2. PICK m \in Bad : \A j \in Bad : m <= j
    <2>1. Bad \subseteq Nat
      OBVIOUS
    <2> QED  BY <1>1, <2>1, LeastExists
  <1>3. Continues(g[a], g[a])
    <2>1. Len(g[a]) \in Nat
      OBVIOUS
    <2> QED  BY <2>1 DEF Continues
  <1>4. m # a /\ m \in a .. b
    BY <1>2, <1>3
  <1>5. m - 1 \in a .. b /\ ~(m <= m - 1) /\ m \in (a + 1) .. b /\ a \in a .. b
    BY <1>4
  <1>6. Continues(g[m - 1], g[a])
    BY <1>2, <1>5
  <1>7. Continues(g[m], g[m - 1])
    BY <1>5
  <1>8. Len(g[m]) \in Nat /\ Len(g[m - 1]) \in Nat /\ Len(g[a]) \in Nat
    BY <1>4, <1>5
  <1>9. Len(g[a]) <= Len(g[m])
    BY <1>6, <1>7, <1>8 DEF Continues
  <1>10. ASSUME NEW j \in 1 .. Len(g[a]) PROVE g[m][j] = g[a][j]
    <2>1. j \in 1 .. Len(g[m - 1])
      BY <1>6, <1>8 DEF Continues
    <2> QED  BY <1>6, <1>7, <2>1 DEF Continues
  <1>11. Continues(g[m], g[a])
    BY <1>9, <1>10 DEF Continues
  <1> QED  BY <1>2, <1>11

LEMMA ConcatContinues ==
    ASSUME NEW S, NEW s \in Seq(S), NEW t \in Seq(S)
    PROVE  /\ s \o t \in Seq(S) /\ Len(s) \in Nat /\ Len(t) \in Nat
           /\ Len(s \o t) = Len(s) + Len(t)
           /\ Continues(s \o t, s)
           /\ \A j \in 1 .. Len(t) : (s \o t)[Len(s) + j] = t[j]
PROOF
  <1> DEFINE a == Len(s)
             b == Len(t)
             u == s \o t
  <1>1. a \in Nat /\ b \in Nat
    BY LenProperties
  <1>2. u \in Seq(S) /\ Len(u) = a + b
    BY ConcatProperties
  <1>3. \A i \in 1 .. a + b : u[i] = IF i <= a THEN s[i] ELSE t[i - a]
    BY ConcatProperties
  <1> HIDE DEF u, a, b
  <1>4. ASSUME NEW j \in 1 .. a PROVE u[j] = s[j]
    <2>1. j \in 1 .. a + b /\ j <= a
      BY <1>1
    <2> QED  BY <1>3, <2>1
  <1>5. ASSUME NEW j \in 1 .. b PROVE u[a + j] = t[j]
    <2> DEFINE k == a + j
    <2>1. k \in 1 .. a + b /\ ~(k <= a) /\ k - a = j
      BY <1>1
    <2> HIDE DEF k
    <2>2. u[k] = t[j]
      BY <1>3, <2>1
    <2> QED  BY <2>2 DEF k
  <1>6. a <= Len(u)
    BY <1>1, <1>2
  <1>7. Continues(u, s)
    BY <1>4, <1>6 DEF Continues, a
  <1> QED  BY <1>1, <1>2, <1>5, <1>7 DEF u, a, b

\* g holds the texts of the first directives, each with that of the next one added.
Spelling(g, tokens, h) ==
    /\ g[0] = << >>
    /\ \A n \in 0 .. h : g[n] \in Seq(Letter) /\ Len(g[n]) \in Nat /\ n <= Len(g[n])
    /\ \A n \in 1 .. h :
           /\ Len(g[n]) = Len(g[n - 1]) + Len(tokens[n].text)
           /\ Continues(g[n], g[n - 1])
           /\ \A j \in 1 .. Len(tokens[n].text) : g[n][Len(g[n - 1]) + j] = tokens[n].text[j]

LEMMA SpelledFacts ==
    ASSUME NEW tokens, NEW h \in Nat, NEW g, IsSpelled(g, tokens, h),
           \A i \in 1 .. h : tokens[i].text \in Seq(Letter) /\ Len(tokens[i].text) > 0
    PROVE  Spelling(g, tokens, h)
PROOF
  <1> DEFINE Fine(n) == g[n] \in Seq(Letter) /\ Len(g[n]) \in Nat /\ n <= Len(g[n])
             Bad == {n \in 0 .. h : ~Fine(n)}
  <1>1. \A n \in 0 .. h : g[n] = IF n = 0 THEN << >> ELSE g[n - 1] \o tokens[n].text
    BY DEF IsSpelled
  <1>2. g[0] = << >>
    <2>1. 0 \in 0 .. h
      OBVIOUS
    <2> HIDE DEF Fine, Bad
    <2> QED  BY <1>1, <2>1
  <1>3. Fine(0)
    BY <1>2
  <1>4. ASSUME NEW n \in 1 .. h, Fine(n - 1)
        PROVE  /\ Fine(n)
               /\ Len(g[n]) = Len(g[n - 1]) + Len(tokens[n].text)
               /\ Continues(g[n], g[n - 1])
               /\ \A j \in 1 .. Len(tokens[n].text) : g[n][Len(g[n - 1]) + j] = tokens[n].text[j]
    <2> DEFINE s == g[n - 1]
               t == tokens[n].text
    <2>1. g[n] = s \o t
      <3>1. n \in 0 .. h /\ n # 0
        OBVIOUS
      <3> QED  BY <1>1, <3>1
    <2>2. s \in Seq(Letter) /\ t \in Seq(Letter) /\ Len(t) > 0 /\ n - 1 <= Len(s)
      BY <1>4
    <2> HIDE DEF s, t
    <2>3. /\ s \o t \in Seq(Letter) /\ Len(s) \in Nat /\ Len(t) \in Nat
          /\ Len(s \o t) = Len(s) + Len(t)
          /\ Continues(s \o t, s)
          /\ \A j \in 1 .. Len(t) : (s \o t)[Len(s) + j] = t[j]
      BY <2>2, ConcatContinues
    <2>4. Len(s) + Len(t) \in Nat /\ n <= Len(s) + Len(t)
      BY <2>2, <2>3
    <2>5. Fine(n)
      BY <2>1, <2>3, <2>4
    <2> QED  BY <2>1, <2>3, <2>5 DEF s, t
  <1>5. ASSUME NEW n \in 0 .. h PROVE Fine(n)
    <2> HIDE DEF Fine
    <2>1. SUFFICES ASSUME Bad # {} PROVE FALSE
      OBVIOUS
    <2>2. PICK k \in Bad : \A j \in Bad : k <= j
      <3>1. Bad \subseteq Nat
        OBVIOUS
      <3> QED  BY <2>1, <3>1, LeastExists
    <2>3. k \in 1 .. h
      BY <1>3, <2>2
    <2>4. k - 1 \in 0 .. h /\ ~(k <= k - 1)
      BY <2>3
    <2>5. Fine(k - 1)
      BY <2>2, <2>4
    <2> QED  BY <1>4, <2>2, <2>3, <2>5
  <1> HIDE DEF Fine
  <1>6. ASSUME NEW n \in 1 .. h
        PROVE  /\ Len(g[n]) = Len(g[n - 1]) + Len(tokens[n].text)
               /\ Continues(g[n], g[n - 1])
               /\ \A j \in 1 .. Len(tokens[n].text) : g[n][Len(g[n - 1]) + j] = tokens[n].text[j]
    <2>1. n - 1 \in 0 .. h
      OBVIOUS
    <2> QED  BY <1>4, <1>5, <2>1
  <1> QED  BY <1>2, <1>5, <1>6 DEF Fine, Spelling

----------------------------------------------------------------------------
\* One turn.

Pieces == {<<"literal", c>> : c \in Letter} \cup (Conversions \X Nat) \cup {PastEnd}
States == [i : Nat \ {0}, word : Nat, out : Seq(Pieces)]

Takings == [how : Conversions \cup {"nothing"}, words : Nat, length : Nat \ {0}]

LEMMA DirectiveTyped ==
    ASSUME NEW kernel, NEW rest
    PROVE  directive(kernel, rest) \in Takings
PROOF
  <1>1. ASSUME NEW how \in Conversions \cup {"nothing"}, NEW words \in Nat, NEW length \in Nat \ {0}
        PROVE  Taken(how, words, length) \in Takings
    BY DEF Taken, Takings
  <1>2. Skip(1) \in Takings /\ Skip(2) \in Takings /\ Skip(3) \in Takings
    BY <1>1 DEF Skip
  <1>3. /\ Taken("percent", 0, 1) \in Takings
        /\ Taken("char", 1, 1) \in Takings
        /\ Taken("string", 1, 1) \in Takings
        /\ Taken("itoa 10", 1, 1) \in Takings
        /\ Taken("uitoa 16", 1, 1) \in Takings
        /\ Taken("uitoa 2", 1, 1) \in Takings
        /\ Taken("itoa 10", 1, 2) \in Takings
        /\ Taken("uitoa 16", 1, 2) \in Takings
        /\ Taken("uitoa 2", 1, 2) \in Takings
        /\ Taken("itoa 10", 2, 3) \in Takings
        /\ Taken("uitoa 16", 2, 3) \in Takings
        /\ Taken("uitoa 2", 2, 3) \in Takings
    <2>2. Taken("percent", 0, 1) \in Takings
      BY DEF Taken, Takings, Conversions
    <2>3. Taken("char", 1, 1) \in Takings
      BY DEF Taken, Takings, Conversions
    <2>4. Taken("string", 1, 1) \in Takings
      BY DEF Taken, Takings, Conversions
    <2>5. Taken("itoa 10", 1, 1) \in Takings
      BY DEF Taken, Takings, Conversions
    <2>6. Taken("uitoa 16", 1, 1) \in Takings
      BY DEF Taken, Takings, Conversions
    <2>7. Taken("uitoa 2", 1, 1) \in Takings
      BY DEF Taken, Takings, Conversions
    <2>8. Taken("itoa 10", 1, 2) \in Takings
      BY DEF Taken, Takings, Conversions
    <2>9. Taken("uitoa 16", 1, 2) \in Takings
      BY DEF Taken, Takings, Conversions
    <2>10. Taken("uitoa 2", 1, 2) \in Takings
      BY DEF Taken, Takings, Conversions
    <2>11. Taken("itoa 10", 2, 3) \in Takings
      BY DEF Taken, Takings, Conversions
    <2>12. Taken("uitoa 16", 2, 3) \in Takings
      BY DEF Taken, Takings, Conversions
    <2>13. Taken("uitoa 2", 2, 3) \in Takings
      BY DEF Taken, Takings, Conversions
    <2> QED  BY <2>2, <2>3, <2>4, <2>5, <2>6, <2>7, <2>8, <2>9, <2>10, <2>11, <2>12, <2>13, Zenon
  <1>4. ASSUME NEW c PROVE Directive(c) \in Takings
    <2>1. CASE c = "%"
      BY <1>3, <2>1, Zenon DEF Directive
    <2>2. CASE c = "c"
      BY <1>3, <2>2, Zenon DEF Directive
    <2>3. CASE c = "s"
      BY <1>3, <2>3, Zenon DEF Directive
    <2>4. CASE c \in {"d", "i"}
      BY <1>3, <2>4, Zenon DEF Directive
    <2>5. CASE c \in {"x", "p"}
      BY <1>3, <2>5, Zenon DEF Directive
    <2>6. CASE c = "b"
      BY <1>3, <2>6, Zenon DEF Directive
    <2>7. CASE c \notin {"%", "c", "s", "d", "i", "x", "p", "b"}
      <3>1. Directive(c) = Skip(1)
        BY <2>7, Zenon DEF Directive
      <3> QED  BY <1>2, <3>1
    <2> QED  BY <2>1, <2>2, <2>3, <2>4, <2>5, <2>6, <2>7
  <1>5. ASSUME NEW c PROVE vsprintf_l(c) \in Takings
    <2>1. CASE c \in {"d", "i"}
      BY <1>3, <2>1, Zenon DEF vsprintf_l
    <2>2. CASE c = "x"
      BY <1>3, <2>2, Zenon DEF vsprintf_l
    <2>3. CASE c = "b"
      BY <1>3, <2>3, Zenon DEF vsprintf_l
    <2>4. CASE c \notin {"d", "i", "x", "b"}
      <3>1. vsprintf_l(c) = Skip(2)
        BY <2>4, Zenon DEF vsprintf_l
      <3> QED  BY <1>2, <3>1
    <2> QED  BY <2>1, <2>2, <2>3, <2>4
  <1>6. ASSUME NEW c PROVE kvsprintf_l(c) \in Takings
    <2>1. CASE c \in {"d", "i", "u"}
      BY <1>3, <2>1, Zenon DEF kvsprintf_l
    <2>2. CASE c \in {"x", "p"}
      BY <1>3, <2>2, Zenon DEF kvsprintf_l
    <2>3. CASE c = "b"
      BY <1>3, <2>3, Zenon DEF kvsprintf_l
    <2>4. CASE c \notin {"d", "i", "u", "x", "p", "b"}
      <3>1. kvsprintf_l(c) = Skip(2)
        BY <2>4, Zenon DEF kvsprintf_l
      <3> QED  BY <1>2, <3>1
    <2> QED  BY <2>1, <2>2, <2>3, <2>4
  <1>7. ASSUME NEW c PROVE kvsprintf_ll(c) \in Takings
    <2>1. CASE c \in {"d", "i", "u"}
      BY <1>3, <2>1, Zenon DEF kvsprintf_ll
    <2>2. CASE c \in {"x", "p"}
      BY <1>3, <2>2, Zenon DEF kvsprintf_ll
    <2>3. CASE c = "b"
      BY <1>3, <2>3, Zenon DEF kvsprintf_ll
    <2>4. CASE c \notin {"d", "i", "u", "x", "p", "b"}
      <3>1. kvsprintf_ll(c) = Skip(3)
        BY <2>4, Zenon DEF kvsprintf_ll
      <3> QED  BY <1>2, <3>1
    <2> QED  BY <2>1, <2>2, <2>3, <2>4
  <1>8. kernel_directive(rest) \in Takings
    <2>1. CASE Head(rest) = "u"
      BY <1>3, <2>1, Zenon DEF kernel_directive
    <2>2. CASE Head(rest) = "l"
      <3>1. \A c : kvsprintf_l(c) \in Takings /\ kvsprintf_ll(c) \in Takings
        BY <1>6, <1>7
      <3> QED  BY <2>2, <3>1, Zenon DEF kernel_directive
    <2>3. CASE Head(rest) \notin {"u", "l"}
      BY <1>4, <2>3, Zenon DEF kernel_directive
    <2> QED  BY <2>1, <2>2, <2>3
  <1>9. user_directive(rest) \in Takings
    BY <1>4, <1>5, Zenon DEF user_directive
  <1> QED  BY <1>8, <1>9 DEF directive

LEMMA PieceTyped ==
    ASSUME NEW how \in Conversions \cup {"nothing"}, NEW word \in Nat
    PROVE  Piece(how, word) \in Seq(Pieces)
PROOF
  <1>1. CASE how = "nothing"
    BY <1>1 DEF Piece
  <1>2. CASE how = "percent"
    <2>1. <<"literal", "%">> \in Pieces
      BY DEF Pieces, Letter
    <2>2. Piece(how, word) = <<<<"literal", "%">>>>
      BY <1>2 DEF Piece
    <2> QED  BY <2>1, <2>2
  <1>3. CASE how \notin {"nothing", "percent"}
    <2>1. how \in Conversions
      BY <1>3
    <2>2. <<how, word>> \in Pieces
      BY <2>1 DEF Pieces
    <2>3. Piece(how, word) = <<<<how, word>>>>
      BY <1>3 DEF Piece
    <2> QED  BY <2>2, <2>3
  <1> QED  BY <1>1, <1>2, <1>3

LEMMA AppendContinues ==
    ASSUME NEW S, NEW s \in Seq(S), NEW x \in S
    PROVE  /\ Append(s, x) \in Seq(S) /\ Continues(Append(s, x), s)
           /\ Len(s) \in Nat /\ Len(Append(s, x)) = Len(s) + 1 /\ Append(s, x)[Len(s) + 1] = x
PROOF
  <1>1. /\ Append(s, x) \in Seq(S) /\ Len(s) \in Nat /\ Len(Append(s, x)) = Len(s) + 1
        /\ \A i \in 1 .. Len(s) : Append(s, x)[i] = s[i]
        /\ Append(s, x)[Len(s) + 1] = x
    BY LenProperties, AppendProperties
  <1> QED  BY <1>1 DEF Continues

LEMMA SameContinues ==
    ASSUME NEW S, NEW s \in Seq(S)
    PROVE  Continues(s, s)
PROOF
  BY LenProperties DEF Continues

\* A turn only adds to what is printed.
LEMMA TurnTyped ==
    ASSUME NEW kernel, NEW fmt \in Seq(Letter), NEW s \in States
    PROVE  Turn(kernel, fmt, s) \in States /\ Continues(Turn(kernel, fmt, s).out, s.out)
PROOF
  <1> DEFINE rest == SubSeq(fmt, s.i + 1, Len(fmt))
             taken == directive(kernel, rest)
             t == Turn(kernel, fmt, s)
  <1>1. s.i \in Nat \ {0} /\ s.word \in Nat /\ s.out \in Seq(Pieces) /\ Len(fmt) \in Nat
    BY LenProperties DEF States
  <1>2. taken.how \in Conversions \cup {"nothing"} /\ taken.words \in Nat /\ taken.length \in Nat \ {0}
    BY DirectiveTyped DEF Takings
  <1>3. t = IF s.i > Len(fmt) THEN s
            ELSE IF fmt[s.i] # "%"
            THEN [s EXCEPT !.i = @ + 1, !.out = Append(@, <<"literal", fmt[s.i]>>)]
            ELSE IF rest = << >> \/ taken.length > Len(rest)
            THEN [s EXCEPT !.i = Len(fmt) + 1, !.out = Append(@, PastEnd)]
            ELSE [i |-> s.i + 1 + taken.length, word |-> s.word + taken.words,
                  out |-> s.out \o Piece(taken.how, s.word)]
    BY Zenon DEF Turn
  <1> HIDE DEF rest, taken, t
  <1>4. CASE s.i > Len(fmt)
    BY <1>1, <1>3, <1>4, SameContinues DEF t
  <1>5. CASE ~(s.i > Len(fmt)) /\ fmt[s.i] # "%"
    <2>1. t = [s EXCEPT !.i = @ + 1, !.out = Append(@, <<"literal", fmt[s.i]>>)]
      BY <1>3, <1>5
    <2>2. s.i \in 1 .. Len(fmt)
      BY <1>1, <1>5
    <2>3. fmt[s.i] \in Letter
      BY <2>2, ElementOfSeq
    <2> DEFINE x == <<"literal", fmt[s.i]>>
    <2>4. x \in Pieces
      BY <2>3 DEF Pieces
    <2> HIDE DEF x
    <2>5. Append(s.out, x) \in Seq(Pieces) /\ Continues(Append(s.out, x), s.out)
      BY <1>1, <2>4, AppendContinues
    <2>6. t = [s EXCEPT !.i = s.i + 1, !.out = Append(s.out, x)]
      BY <2>1 DEF x
    <2>7. t = [i |-> s.i + 1, word |-> s.word, out |-> Append(s.out, x)]
      BY <2>6 DEF States
    <2>8. s.i + 1 \in Nat \ {0}
      BY <1>1
    <2>9. t \in States /\ t.out = Append(s.out, x)
      BY <1>1, <2>5, <2>7, <2>8 DEF States
    <2> QED  BY <2>5, <2>9 DEF t
  <1>6. CASE ~(s.i > Len(fmt)) /\ ~(fmt[s.i] # "%") /\ (rest = << >> \/ taken.length > Len(rest))
    <2>1. t = [s EXCEPT !.i = Len(fmt) + 1, !.out = Append(@, PastEnd)]
      BY <1>3, <1>6
    <2>2. PastEnd \in Pieces
      BY DEF Pieces
    <2>3. Append(s.out, PastEnd) \in Seq(Pieces) /\ Continues(Append(s.out, PastEnd), s.out)
      BY <1>1, <2>2, AppendContinues
    <2>4. t = [i |-> Len(fmt) + 1, word |-> s.word, out |-> Append(s.out, PastEnd)]
      BY <2>1 DEF States
    <2>5. Len(fmt) + 1 \in Nat \ {0}
      BY <1>1
    <2>6. t \in States /\ t.out = Append(s.out, PastEnd)
      BY <1>1, <2>3, <2>4, <2>5 DEF States
    <2> QED  BY <2>3, <2>6 DEF t
  <1>7. CASE ~(s.i > Len(fmt)) /\ ~(fmt[s.i] # "%") /\ ~(rest = << >> \/ taken.length > Len(rest))
    <2> DEFINE p == Piece(taken.how, s.word)
    <2>1. t = [i |-> s.i + 1 + taken.length, word |-> s.word + taken.words, out |-> s.out \o p]
      BY <1>3, <1>7
    <2>2. p \in Seq(Pieces)
      BY <1>1, <1>2, PieceTyped
    <2> HIDE DEF p
    <2>3. s.out \o p \in Seq(Pieces) /\ Continues(s.out \o p, s.out)
      BY <1>1, <2>2, ConcatContinues
    <2>4. s.i + 1 + taken.length \in Nat \ {0} /\ s.word + taken.words \in Nat
      <3>1. \A a, b \in Nat \ {0} : a + 1 + b \in Nat \ {0}
        OBVIOUS
      <3>2. \A a, b \in Nat : a + b \in Nat
        OBVIOUS
      <3> QED  BY <1>1, <1>2, <3>1, <3>2
    <2>5. t \in States /\ t.out = s.out \o p
      BY <2>1, <2>3, <2>4 DEF States
    <2> QED  BY <2>3, <2>5 DEF t
  <1> QED  BY <1>4, <1>5, <1>6, <1>7

\* What a directive prints when its argument begins at word.
MeantAt(d, word) ==
    CASE d.how = "literal" -> <<"literal", d.text[1]>>
      [] d.how = "percent" -> <<"literal", "%">>
      [] OTHER -> <<Conversion(d.how), word>>

\* The turn t that prints a directive, from s.
Prints(t, s, d) ==
    /\ t.i = s.i + Len(d.text)
    /\ t.word = s.word + d.words
    /\ t.out = Append(s.out, MeantAt(d, s.word))

LEMMA TurnPrints ==
    ASSUME NEW kernel, NEW fmt \in Seq(Letter), NEW s \in States, NEW d, Understood(kernel, d),
           s.i - 1 + Len(d.text) <= Len(fmt),
           \A j \in 1 .. Len(d.text) : fmt[s.i - 1 + j] = d.text[j]
    PROVE  Prints(Turn(kernel, fmt, s), s, d)
PROOF
  <1> DEFINE rest == SubSeq(fmt, s.i + 1, Len(fmt))
             taken == directive(kernel, rest)
             t == Turn(kernel, fmt, s)
             n == Len(d.text)
             m == Len(fmt)
             x == MeantAt(d, s.word)
  <1>1. s.i \in Nat \ {0} /\ s.word \in Nat /\ s.out \in Seq(Pieces) /\ m \in Nat
    BY LenProperties DEF States
  <1>2. n \in Nat /\ n > 0 /\ d.text \in Seq(Letter) /\ d.words \in Nat
    BY LenProperties DEF Understood
  <1>3. t = IF s.i > m THEN s
            ELSE IF fmt[s.i] # "%"
            THEN [s EXCEPT !.i = @ + 1, !.out = Append(@, <<"literal", fmt[s.i]>>)]
            ELSE IF rest = << >> \/ taken.length > Len(rest)
            THEN [s EXCEPT !.i = m + 1, !.out = Append(@, PastEnd)]
            ELSE [i |-> s.i + 1 + taken.length, word |-> s.word + taken.words,
                  out |-> s.out \o Piece(taken.how, s.word)]
    BY Zenon DEF Turn
  <1>4. fmt[s.i] = d.text[1]
    <2>1. 1 \in 1 .. n /\ s.i - 1 + 1 = s.i
      BY <1>1, <1>2
    <2>2. fmt[s.i - 1 + 1] = d.text[1]
      BY <2>1
    <2> QED  BY <2>1, <2>2
  <1>5. s.i - 1 + n <= m /\ \A j \in 1 .. n : fmt[s.i - 1 + j] = d.text[j]
    OBVIOUS
  <1>6. s.i <= m /\ s.i \in 1 .. m
    BY <1>1, <1>2, <1>5
  <1> HIDE DEF taken, t, n, m, x, rest
  <1>7. CASE d.how = "literal" /\ d.words = 0 /\ Len(d.text) = 1 /\ d.text[1] # "%"
    <2>1. t = [s EXCEPT !.i = @ + 1, !.out = Append(@, <<"literal", fmt[s.i]>>)]
      BY <1>1, <1>3, <1>4, <1>6, <1>7
    <2>2. x = <<"literal", fmt[s.i]>>
      BY <1>4, <1>7 DEF MeantAt, x
    <2>3. t = [s EXCEPT !.i = s.i + 1, !.out = Append(s.out, x)]
      BY <2>1, <2>2
    <2>4. t = [i |-> s.i + 1, word |-> s.word, out |-> Append(s.out, x)]
      BY <2>3 DEF States
    <2>5. t.i = s.i + 1 /\ t.word = s.word /\ t.out = Append(s.out, x)
      BY <2>4
    <2>6. s.word + d.words = s.word /\ s.i + Len(d.text) = s.i + 1
      BY <1>1, <1>7
    <2> QED  BY <2>5, <2>6 DEF Prints, t, x
  <1>8. CASE /\ d.how \notin {"literal", "nothing"} /\ d.text[1] = "%" /\ Len(d.text) > 1
             /\ \A r : Begins(r, d.text) => ReadAs(kernel, r, d)
    <2>1. \A j \in (s.i + 1) .. m : fmt[j] \in Letter
      <3>1. \A j \in (s.i + 1) .. m : j \in 1 .. m
        BY <1>1
      <3>2. \A j \in 1 .. m : fmt[j] \in Letter
        BY ElementOfSeq DEF m
      <3> QED  BY <3>1, <3>2
    <2>2. s.i + 1 \in Int /\ m \in Int
      BY <1>1
    <2>3. Len(rest) = IF s.i + 1 <= m THEN m - (s.i + 1) + 1 ELSE 0
      BY <2>1, <2>2, SubSeqProperties DEF rest, m
    <2>4. \A j \in 1 .. (m - (s.i + 1) + 1) : rest[j] = fmt[s.i + 1 + j - 1]
      BY <2>1, <2>2, SubSeqProperties DEF rest, m
    <2>5. n > 1 /\ s.i - 1 + n <= m
      BY <1>5, <1>8 DEF n
    <2>6. Len(rest) = m - s.i /\ Len(rest) \in Nat /\ n - 1 <= Len(rest)
      BY <1>1, <1>2, <1>6, <2>3, <2>5
    <2>7. ASSUME NEW j \in 1 .. (n - 1) PROVE rest[j] = d.text[j + 1]
      <3> DEFINE p == s.i
                 k == p + 1 + j - 1
      <3>1. p \in Nat \ {0} /\ n \in Nat /\ m \in Nat /\ n > 1 /\ p - 1 + n <= m
        BY <1>1, <1>2, <2>5
      <3>2. \A l \in 1 .. (m - (p + 1) + 1) : rest[l] = fmt[p + 1 + l - 1]
        BY <2>4
      <3>3. \A l \in 1 .. n : fmt[p - 1 + l] = d.text[l]
        BY <1>5
      <3> HIDE DEF p
      <3>4. j \in 1 .. (m - (p + 1) + 1) /\ j + 1 \in 1 .. n /\ p - 1 + (j + 1) = k
        BY <3>1
      <3>5. rest[j] = fmt[k]
        BY <3>2, <3>4
      <3> HIDE DEF k
      <3>6. fmt[p - 1 + (j + 1)] = d.text[j + 1]
        BY <3>3, <3>4
      <3> QED  BY <3>4, <3>5, <3>6
    <2>8. Begins(rest, d.text)
      BY <2>6, <2>7 DEF Begins, n
    <2>9. taken = Taken(Conversion(d.how), d.words, n - 1)
      BY <1>8, <2>8 DEF ReadAs, taken, n
    <2>10. taken.how = Conversion(d.how) /\ taken.words = d.words /\ taken.length = n - 1
      BY <2>9 DEF Taken
    <2>11. Len(rest) > 0 /\ ~(n - 1 > Len(rest))
      BY <1>2, <2>5, <2>6
    <2>12. rest # << >>
      BY <2>11
    <2>13. t = [i |-> s.i + 1 + taken.length, word |-> s.word + taken.words,
                out |-> s.out \o Piece(taken.how, s.word)]
      BY <1>1, <1>3, <1>4, <1>6, <1>8, <2>10, <2>11, <2>12
    <2>14. Piece(Conversion(d.how), s.word) = <<x>>
      <3>1. CASE d.how = "unsigned"
        BY <3>1 DEF Conversion, Piece, MeantAt, x
      <3>2. CASE d.how # "unsigned"
        BY <1>8, <3>2 DEF Conversion, Piece, MeantAt, x
      <3> QED  BY <3>1, <3>2
    <2>15. t.i = s.i + 1 + (n - 1) /\ t.word = s.word + d.words /\ t.out = s.out \o <<x>>
      BY <2>10, <2>13, <2>14
    <2>16. s.i + 1 + (n - 1) = s.i + n
      BY <1>1, <1>2
    <2>17. s.out \o <<x>> = Append(s.out, x)
      OBVIOUS
    <2> QED  BY <2>15, <2>16, <2>17 DEF Prints, t, x, n
  <1> QED  BY <1>7, <1>8 DEF Understood

----------------------------------------------------------------------------
\* The whole loop.

\* After the turns of the first n directives, whose text and words are those of g and w.
Reached(s, tokens, g, w, n) ==
    /\ s \in States
    /\ s.i = Len(g[n]) + 1
    /\ w[n] \in Nat /\ s.word = w[n] + 1
    /\ Len(s.out) = n
    /\ \A j \in 1 .. n : s.out[j] = Expected(tokens)[j]

LEMMA DirectivesReached ==
    ASSUME NEW kernel, NEW tokens, NEW h \in Nat, Len(tokens) = h,
           NEW g, IsSpelled(g, tokens, h),
           \A i \in 1 .. h : tokens[i].text \in Seq(Letter) /\ Len(tokens[i].text) > 0,
           NEW w, IsWords(w, tokens, h), \A i : WordsBefore(tokens, i) = w[i - 1],
           NEW f, IsTurns(f, kernel, g[h], Len(g[h])),
           NEW k \in 0 .. h, \A i \in 1 .. k : Understood(kernel, tokens[i])
    PROVE  Reached(f[k], tokens, g, w, k)
PROOF
  <1> DEFINE fmt == g[h]
             Bad == {n \in 0 .. k : ~Reached(f[n], tokens, g, w, n)}
  <1>1. SUFFICES ASSUME Bad # {} PROVE FALSE
    OBVIOUS
  <1>2. PICK n \in Bad : \A j \in Bad : n <= j
    <2>1. Bad \subseteq Nat
      OBVIOUS
    <2> QED  BY <1>1, <2>1, LeastExists
  <1>3. /\ g[0] = << >>
        /\ \A i \in 0 .. h : g[i] \in Seq(Letter) /\ Len(g[i]) \in Nat /\ i <= Len(g[i])
        /\ \A i \in 1 .. h :
               /\ Len(g[i]) = Len(g[i - 1]) + Len(tokens[i].text)
               /\ Continues(g[i], g[i - 1])
               /\ \A j \in 1 .. Len(tokens[i].text) : g[i][Len(g[i - 1]) + j] = tokens[i].text[j]
    <2>1. Spelling(g, tokens, h)
      BY SpelledFacts
    <2> QED  BY <2>1 DEF Spelling
  <1>4. fmt \in Seq(Letter) /\ Len(fmt) \in Nat /\ h <= Len(fmt)
    BY <1>3
  <1>5. \A i \in 0 .. Len(fmt) : f[i] = IF i = 0 THEN [i |-> 1, word |-> 1, out |-> << >>]
                                       ELSE Turn(kernel, fmt, f[i - 1])
    BY DEF IsTurns
  <1>6. \A i \in 0 .. h : w[i] = IF i = 0 THEN 0 ELSE w[i - 1] + tokens[i].words
    BY DEF IsWords
  <1>7. n # 0
    <2> SUFFICES ASSUME n = 0 PROVE FALSE
      OBVIOUS
    <2>1. f[0] = [i |-> 1, word |-> 1, out |-> << >>]
      BY <1>4, <1>5
    <2>2. w[0] = 0 /\ Len(g[0]) = 0
      <3>1. 0 \in 0 .. h
        OBVIOUS
      <3>2. w[0] = 0
        BY <1>6, <3>1
      <3> QED  BY <1>3, <3>2
    <2>3. << >> \in Seq(Pieces)
      OBVIOUS
    <2>4. f[0] \in States
      BY <2>1, <2>3 DEF States
    <2>5. Reached(f[0], tokens, g, w, 0)
      BY <2>1, <2>2, <2>4 DEF Reached
    <2> QED  BY <1>2, <2>5
  <1>8. /\ n \in 1 .. k /\ n \in 1 .. h /\ n \in Nat /\ n - 1 \in 0 .. k /\ ~(n <= n - 1)
        /\ n \in 0 .. h /\ n \in 0 .. Len(fmt) /\ n - 1 \in 0 .. h
    BY <1>2, <1>4, <1>7
  <1> DEFINE s == f[n - 1]
             d == tokens[n]
             a == Len(g[n - 1])
             t == Turn(kernel, fmt, s)
  <1>9. Reached(s, tokens, g, w, n - 1)
    BY <1>2, <1>8
  <1>10. Understood(kernel, d) /\ d.words \in Nat /\ Len(d.text) \in Nat
    <2>1. Understood(kernel, d)
      BY <1>8
    <2> HIDE DEF d
    <2> QED  BY <2>1, LenProperties DEF Understood
  <1>11. /\ Len(g[n]) = a + Len(d.text) /\ a \in Nat
         /\ \A j \in 1 .. Len(d.text) : g[n][a + j] = d.text[j]
    <2>1. a \in Nat
      BY <1>3, <1>8
    <2>2. /\ Len(g[n]) = a + Len(d.text)
          /\ \A j \in 1 .. Len(d.text) : g[n][a + j] = d.text[j]
      BY <1>3, <1>8
    <2> QED  BY <2>1, <2>2
  <1>12. Continues(fmt, g[n])
    <2>1. \A m \in n .. h : Len(g[m]) \in Nat
      BY <1>3, <1>8
    <2>2. \A m \in (n + 1) .. h : Continues(g[m], g[m - 1])
      <3>1. \A m \in (n + 1) .. h : m \in 1 .. h
        BY <1>8
      <3>2. \A m \in 1 .. h : Continues(g[m], g[m - 1])
        BY <1>3
      <3> QED  BY <3>1, <3>2
    <2>3. n <= h
      BY <1>8
    <2> QED  BY <1>8, <2>1, <2>2, <2>3, ChainContinues
  <1>13. s \in States /\ s.i = a + 1 /\ w[n - 1] \in Nat /\ s.word = w[n - 1] + 1 /\ Len(s.out) = n - 1
         /\ \A j \in 1 .. (n - 1) : s.out[j] = Expected(tokens)[j]
    BY <1>9 DEF Reached
  <1>14. f[n] = t
    BY <1>5, <1>7, <1>8
  <1>15. w[n] = w[n - 1] + d.words
    BY <1>6, <1>7, <1>8
  <1>16. Expected(tokens)[n] = MeantAt(d, w[n - 1] + 1)
    <2>1. Expected(tokens)[n] = Meant(tokens, n)
      BY <1>8 DEF Expected
    <2>2. WordsBefore(tokens, n) = w[n - 1]
      OBVIOUS
    <2> QED  BY <2>1, <2>2, Zenon DEF Meant, MeantAt
  <1> HIDE DEF fmt, s, d, a, t
  <1>17. s.i - 1 + Len(d.text) <= Len(fmt)
    BY <1>4, <1>10, <1>11, <1>12, <1>13 DEF Continues
  <1>18. ASSUME NEW j \in 1 .. Len(d.text) PROVE fmt[s.i - 1 + j] = d.text[j]
    <2> DEFINE p == a + j
    <2>1. p \in 1 .. Len(g[n]) /\ s.i - 1 + j = p
      BY <1>10, <1>11, <1>13
    <2>2. g[n][p] = d.text[j]
      BY <1>11
    <2> HIDE DEF p
    <2> QED  BY <1>12, <2>1, <2>2 DEF Continues
  <1>19. Prints(t, s, d)
    BY <1>4, <1>10, <1>13, <1>17, <1>18, TurnPrints DEF t
  <1>20. t \in States
    BY <1>4, <1>13, TurnTyped DEF t
  <1> DEFINE x == MeantAt(d, s.word)
  <1>21. t.i = s.i + Len(d.text) /\ t.word = s.word + d.words /\ t.out = Append(s.out, x)
    BY <1>19 DEF Prints
  <1>22. x = Expected(tokens)[n]
    BY <1>13, <1>16
  <1> HIDE DEF x
  <1>23. s.out \in Seq(Pieces) /\ t.out \in Seq(Pieces) /\ s.word \in Nat
    BY <1>13, <1>20 DEF States
  <1>24. /\ Len(t.out) = Len(s.out) + 1 /\ t.out[Len(s.out) + 1] = x
         /\ \A j \in 1 .. Len(s.out) : t.out[j] = s.out[j]
    <2>1. Len(s.out) \in Nat
      BY <1>23, LenProperties
    <2> QED  BY <1>21, <2>1
  <1>25. Len(t.out) = n /\ t.out[n] = x /\ \A j \in 1 .. (n - 1) : t.out[j] = s.out[j]
    <2>1. Len(s.out) + 1 = n
      BY <1>8, <1>13
    <2> QED  BY <1>13, <1>24, <2>1
  <1>26. \A j \in 1 .. n : t.out[j] = Expected(tokens)[j]
    <2>1. ASSUME NEW j \in 1 .. n PROVE t.out[j] = Expected(tokens)[j]
      <3>1. CASE j = n
        BY <1>22, <1>25, <3>1
      <3>2. CASE j # n
        <4>1. j \in 1 .. (n - 1)
          BY <1>8, <3>2
        <4> QED  BY <1>13, <1>25, <4>1
      <3> QED  BY <3>1, <3>2
    <2> QED  BY <2>1
  <1>27. t.i = Len(g[n]) + 1
    <2> DEFINE b == Len(d.text)
    <2>1. s.i = a + 1 /\ t.i = s.i + b /\ Len(g[n]) = a + b
      BY <1>11, <1>13, <1>21
    <2>2. a \in Nat /\ b \in Nat
      BY <1>10, <1>11
    <2> HIDE DEF b
    <2>3. (a + 1) + b = (a + b) + 1
      BY <2>2
    <2> QED  BY <2>1, <2>3
  <1>28. w[n] \in Nat /\ t.word = w[n] + 1
    <2>1. \A p, q \in Nat : p + q \in Nat /\ (p + 1) + q = (p + q) + 1
      OBVIOUS
    <2>2. w[n] = w[n - 1] + d.words /\ t.word = (w[n - 1] + 1) + d.words
      BY <1>13, <1>15, <1>21
    <2> QED  BY <1>10, <1>13, <2>1, <2>2
  <1>29. Reached(t, tokens, g, w, n)
    BY <1>20, <1>25, <1>26, <1>27, <1>28 DEF Reached
  <1> QED  BY <1>2, <1>14, <1>29

\* Once the format has been printed, nothing more is.
LEMMA TurnsOver ==
    ASSUME NEW kernel, NEW fmt, Len(fmt) \in Nat, NEW f, IsTurns(f, kernel, fmt, Len(fmt)),
           NEW k \in 0 .. Len(fmt), f[k].i > Len(fmt)
    PROVE  f[Len(fmt)] = f[k]
PROOF
  <1> DEFINE h == Len(fmt)
             Bad == {n \in k .. h : f[n] # f[k]}
  <1>1. SUFFICES ASSUME Bad # {} PROVE FALSE
    <2>1. h \in k .. h
      OBVIOUS
    <2> QED  BY <2>1
  <1>2. PICK n \in Bad : \A j \in Bad : n <= j
    <2>1. Bad \subseteq Nat
      OBVIOUS
    <2> QED  BY <1>1, <2>1, LeastExists
  <1>3. n # k /\ n \in k .. h
    BY <1>2
  <1>4. n - 1 \in k .. h /\ ~(n <= n - 1) /\ n \in 0 .. h /\ n # 0
    BY <1>3
  <1>5. f[n - 1] = f[k]
    BY <1>2, <1>4
  <1>6. f[n] = Turn(kernel, fmt, f[n - 1])
    BY <1>4 DEF IsTurns
  <1>7. Turn(kernel, fmt, f[k]) = f[k]
    BY DEF Turn
  <1> QED  BY <1>2, <1>5, <1>6, <1>7

LEMMA TurnsTyped ==
    ASSUME NEW kernel, NEW fmt \in Seq(Letter), NEW f, IsTurns(f, kernel, fmt, Len(fmt))
    PROVE  /\ \A n \in 0 .. Len(fmt) : f[n] \in States
           /\ \A n \in 1 .. Len(fmt) : Continues(f[n].out, f[n - 1].out)
PROOF
  <1> DEFINE h == Len(fmt)
             Bad == {n \in 0 .. h : f[n] \notin States}
  <1>0. h \in Nat
    BY LenProperties
  <1>1. \A n \in 0 .. h : f[n] = IF n = 0 THEN [i |-> 1, word |-> 1, out |-> << >>]
                                 ELSE Turn(kernel, fmt, f[n - 1])
    BY DEF IsTurns
  <1> HIDE DEF h
  <1>2. f[0] \in States
    <2>1. f[0] = [i |-> 1, word |-> 1, out |-> << >>]
      BY <1>0, <1>1
    <2>2. << >> \in Seq(Pieces)
      OBVIOUS
    <2> QED  BY <2>1, <2>2 DEF States
  <1>3. ASSUME NEW n \in 1 .. h, f[n - 1] \in States
        PROVE  f[n] \in States /\ Continues(f[n].out, f[n - 1].out)
    <2>1. n \in 0 .. h /\ n # 0
      BY <1>0
    <2>2. f[n] = Turn(kernel, fmt, f[n - 1])
      BY <1>1, <2>1
    <2> QED  BY <1>3, <2>2, TurnTyped
  <1>4. Bad = {}
    <2>1. SUFFICES ASSUME Bad # {} PROVE FALSE
      OBVIOUS
    <2>2. PICK n \in Bad : \A j \in Bad : n <= j
      <3>1. Bad \subseteq Nat
        BY <1>0
      <3> QED  BY <2>1, <3>1, LeastExists
    <2>3. n \in 1 .. h
      BY <1>0, <1>2, <2>2
    <2>4. n - 1 \in 0 .. h /\ ~(n <= n - 1)
      BY <1>0, <2>3
    <2>5. f[n - 1] \in States
      BY <2>2, <2>4
    <2> QED  BY <1>3, <2>2, <2>3, <2>5
  <1>5. \A n \in 0 .. h : f[n] \in States
    BY <1>4
  <1>6. ASSUME NEW n \in 1 .. h PROVE Continues(f[n].out, f[n - 1].out)
    <2>1. n - 1 \in 0 .. h
      BY <1>0
    <2> QED  BY <1>3, <1>5, <2>1
  <1> QED  BY <1>5, <1>6 DEF h

LEMMA SameStart ==
    ASSUME NEW S, NEW a, NEW b, NEW n \in Nat, \A j \in 1 .. n : a[j] \in S /\ b[j] = a[j]
    PROVE  SubSeq(a, 1, n) = SubSeq(b, 1, n)
PROOF
  <1> DEFINE x == SubSeq(a, 1, n)
             y == SubSeq(b, 1, n)
  <1>1. x \in Seq(S) /\ Len(x) = IF 1 <= n THEN n - 1 + 1 ELSE 0
    BY SubSeqProperties
  <1>2. \A i \in 1 .. (n - 1 + 1) : x[i] = a[1 + i - 1]
    BY SubSeqProperties
  <1>3. y \in Seq(S) /\ Len(y) = IF 1 <= n THEN n - 1 + 1 ELSE 0
    BY SubSeqProperties
  <1>4. \A i \in 1 .. (n - 1 + 1) : y[i] = b[1 + i - 1]
    BY SubSeqProperties
  <1> HIDE DEF x, y
  <1>5. ASSUME NEW i \in 1 .. Len(x) PROVE x[i] = y[i]
    <2>1. i \in 1 .. n /\ i \in 1 .. (n - 1 + 1) /\ 1 + i - 1 = i
      BY <1>1
    <2> QED  BY <1>2, <1>4, <2>1
  <1>6. x = y
    BY <1>1, <1>3, <1>5, SeqEqual
  <1> QED  BY <1>6 DEF x, y

\* Each directive that is understood, and all before it, prints its own argument; when
\* all are, there is nothing else.
LEMMA FormatPrinted ==
    ASSUME NEW kernel, NEW tokens \in Seq(Known \cup KernelOnly),
           NEW k \in 0 .. Len(tokens), \A i \in 1 .. k : Understood(kernel, tokens[i])
    PROVE  /\ SubSeq(Printed(kernel, Spelled(tokens)), 1, k) = SubSeq(Expected(tokens), 1, k)
           /\ k = Len(tokens) => Printed(kernel, Spelled(tokens)) = Expected(tokens)
PROOF
  <1> DEFINE h == Len(tokens)
  <1>1. h \in Nat /\ k \in Nat /\ k \in 0 .. h
    BY LenProperties
  <1>2. ASSUME NEW i \in 1 .. h PROVE tokens[i].text \in Seq(Letter) /\ Len(tokens[i].text) > 0
    <2>1. tokens[i] \in Known \cup KernelOnly
      BY <1>2, ElementOfSeq
    <2>2. Understood(TRUE, tokens[i])
      BY <2>1, KnownUnderstood, KernelUnderstood
    <2> QED  BY <2>2 DEF Understood
  <1>3. PICK g : IsSpelled(g, tokens, h) /\ Spelled(tokens) = g[h]
    BY <1>1, SpelledEnds
  <1>4. PICK w : IsWords(w, tokens, h) /\ \A i : WordsBefore(tokens, i) = w[i - 1]
    BY <1>1, WordsEnd
  <1>5. Spelling(g, tokens, h)
    <2> HIDE DEF h
    <2> QED  BY <1>1, <1>2, <1>3, SpelledFacts
  <1> DEFINE fmt == g[h]
             m == Len(fmt)
  <1>6. fmt \in Seq(Letter) /\ m \in Nat /\ h <= m
    <2>1. h \in 0 .. h
      BY <1>1
    <2> QED  BY <1>5, <2>1 DEF Spelling
  <1>7. PICK f : IsTurns(f, kernel, fmt, m) /\ Printed(kernel, fmt) = f[m].out
    BY <1>6, TurnsEnd
  <1>8. Reached(f[k], tokens, g, w, k)
    BY <1>1, <1>2, <1>3, <1>4, <1>7, DirectivesReached
  <1>9. /\ \A n \in 0 .. m : f[n] \in States
        /\ \A n \in 1 .. m : Continues(f[n].out, f[n - 1].out)
    BY <1>6, <1>7, TurnsTyped
  <1>10. /\ f[k].out \in Seq(Pieces) /\ Len(f[k].out) = k /\ f[k].i = Len(g[k]) + 1
         /\ \A j \in 1 .. k : f[k].out[j] = Expected(tokens)[j]
    BY <1>8 DEF Reached, States
  <1> HIDE DEF h, fmt, m
  <1>11. Continues(f[m].out, f[k].out)
    <2> DEFINE o == [n \in 0 .. m |-> f[n].out]
    <2>1. \A n \in 0 .. m : o[n] = f[n].out
      OBVIOUS
    <2>2. k <= m /\ k \in 0 .. m /\ m \in 0 .. m
      BY <1>1, <1>6
    <2> HIDE DEF o
    <2>3. ASSUME NEW n \in k .. m PROVE Len(o[n]) \in Nat
      <3>1. n \in 0 .. m
        BY <1>1, <1>6
      <3>2. f[n].out \in Seq(Pieces)
        BY <1>9, <3>1 DEF States
      <3> QED  BY <2>1, <3>1, <3>2, LenProperties
    <2>4. ASSUME NEW n \in (k + 1) .. m PROVE Continues(o[n], o[n - 1])
      <3>1. n \in 1 .. m /\ n \in 0 .. m /\ n - 1 \in 0 .. m
        BY <1>1, <1>6
      <3> QED  BY <1>9, <2>1, <3>1
    <2>5. Continues(o[m], o[k])
      BY <1>1, <1>6, <2>2, <2>3, <2>4, ChainContinues
    <2> QED  BY <2>1, <2>2, <2>5
  <1>12. ASSUME NEW j \in 1 .. k PROVE f[m].out[j] \in Pieces /\ Expected(tokens)[j] = f[m].out[j]
    <2>1. f[m].out[j] = f[k].out[j]
      BY <1>10, <1>11 DEF Continues
    <2>2. f[k].out[j] \in Pieces
      BY <1>10, ElementOfSeq
    <2> QED  BY <1>10, <2>1, <2>2
  <1>13. SubSeq(f[m].out, 1, k) = SubSeq(Expected(tokens), 1, k)
    BY <1>1, <1>12, SameStart
  <1>14. Spelled(tokens) = fmt /\ Printed(kernel, fmt) = f[m].out
    BY <1>3, <1>7 DEF fmt
  <1>15. ASSUME k = h PROVE f[m].out = Expected(tokens)
    <2>1. f[k].i > m /\ k \in 0 .. m
      <3>1. f[k].i = m + 1
        BY <1>10, <1>15 DEF fmt, m
      <3> QED  BY <1>1, <1>6, <1>15, <3>1
    <2>2. f[m] = f[k]
      BY <1>6, <1>7, <2>1, TurnsOver DEF m
    <2>3. Expected(tokens) = [i \in 1 .. k |-> Meant(tokens, i)]
      BY <1>15 DEF Expected, h
    <2> DEFINE e == Expected(tokens)
               o == f[k].out
    <2>4. \A j \in 1 .. k : e[j] \in Pieces
      BY <1>12
    <2>5. e = [j \in 1 .. k |-> e[j]]
      BY <2>3
    <2> HIDE DEF e, o
    <2>6. e \in Seq(Pieces) /\ Len(e) = k
      BY <1>1, <2>4, <2>5
    <2>7. o \in Seq(Pieces) /\ Len(o) = k /\ \A j \in 1 .. k : o[j] = e[j]
      BY <1>10 DEF o, e
    <2>8. o = e
      BY <2>6, <2>7, SeqEqual
    <2> QED  BY <2>2, <2>8 DEF o, e
  <1> QED  BY <1>13, <1>14, <1>15 DEF h

LEMMA PrintedAgree ==
    ASSUME NEW tokens \in Seq(Known \cup KernelOnly), NEW c, c.tokens = tokens,
           c.kvsprintf = kvsprintf(Spelled(tokens)), c.vsprintf = vsprintf(Spelled(tokens))
    PROVE  FormatAgrees(c)
PROOF
  <1> DEFINE h == Len(tokens)
  <1>1. h \in Nat /\ DOMAIN tokens = 1 .. h /\ \A i \in 1 .. h : tokens[i] \in Known \cup KernelOnly
    BY LenProperties, ElementOfSeq
  <1>2. c.kvsprintf = Expected(tokens)
    <2>1. \A i \in 1 .. h : Understood(TRUE, tokens[i])
      BY <1>1, KnownUnderstood, KernelUnderstood
    <2>2. h \in 0 .. h
      BY <1>1
    <2>3. Printed(TRUE, Spelled(tokens)) = Expected(tokens)
      BY <2>1, <2>2, FormatPrinted
    <2> QED  BY <2>3 DEF kvsprintf
  <1>3. ASSUME NEW n \in 1 .. h, \A i \in 1 .. n : tokens[i] \in Known
        PROVE  SubSeq(c.vsprintf, 1, n) = SubSeq(Expected(tokens), 1, n)
    <2>1. \A i \in 1 .. n : Understood(FALSE, tokens[i])
      BY <1>3, KnownUnderstood
    <2>2. n \in 0 .. h
      BY <1>1
    <2>3. SubSeq(Printed(FALSE, Spelled(tokens)), 1, n) = SubSeq(Expected(tokens), 1, n)
      BY <2>1, <2>2, FormatPrinted
    <2> QED  BY <2>3 DEF vsprintf
  <1> QED  BY <1>1, <1>2, <1>3 DEF FormatAgrees

----------------------------------------------------------------------------
\* All calls.

LEMMA AskAgrees ==
    ASSUME Ask
    PROVE  StringsAgree'
PROOF
  <1>1. CASE Convert
    <2>1. PICK n \in Number, base \in Base :
              call' = [op |-> "convert", n |-> n, base |-> base,
                       itoa |-> itoa(Signed(n), base), uitoa |-> uitoa(n % Long, base)]
      BY <1>1 DEF Convert
    <2>2. n \in Int /\ base \in 2 .. 36
      BY CallsAssumption
    <2>3. /\ call'.op = "convert" /\ call'.n = n /\ call'.base = base
          /\ call'.itoa = itoa(Signed(n), base) /\ call'.uitoa = uitoa(n % Long, base)
      BY <2>1
    <2>4. NumbersReadBack(call')
      BY <2>2, <2>3, ConvertedRead
    <2> QED  BY <2>3, <2>4 DEF StringsAgree
  <1>2. CASE Compare
    <2>1. PICK s \in Sample, t \in Sample, n \in Bound :
              call' = [op |-> "compare", s |-> s, t |-> t, n |-> n,
                       strncmp |-> strncmp(s, t, n), istrncmp |-> istrncmp(s, t, n),
                       strcmp |-> strcmp(s, t)]
      BY <1>2 DEF Compare
    <2>2. s \in Texts /\ t \in Texts /\ n \in Nat
      BY CallsAssumption, StringsAssumption DEF Texts
    <2>3. /\ call'.op = "compare" /\ call'.s = s /\ call'.t = t /\ call'.n = n
          /\ call'.strncmp = strncmp(s, t, n) /\ call'.istrncmp = istrncmp(s, t, n)
          /\ call'.strcmp = strcmp(s, t)
      BY <2>1
    <2>4. ComparisonsOrdered(call')
      BY <2>2, <2>3, ComparedOrdered
    <2> QED  BY <2>3, <2>4 DEF StringsAgree
  <1>3. CASE Copy
    <2>1. PICK s \in Sample, n \in Bound \ {0} :
              call' = [op |-> "copy", s |-> s, n |-> n,
                       strncpy |-> strncpy(s, n), user_strncpy |-> user_strncpy(s, n),
                       strnlen_terminator |-> strnlen_terminator(s, n, Terminator)]
      BY <1>3 DEF Copy
    <2>2. s \in Texts /\ n \in 1 .. (Long - 1)
      BY CallsAssumption, StringsAssumption DEF Texts
    <2>3. /\ call'.op = "copy" /\ call'.s = s /\ call'.n = n
          /\ call'.strncpy = strncpy(s, n) /\ call'.user_strncpy = user_strncpy(s, n)
          /\ call'.strnlen_terminator = strnlen_terminator(s, n, Terminator)
      BY <2>1
    <2>4. CopiesFit(call')
      BY <2>2, <2>3, CopiedFit
    <2> QED  BY <2>3, <2>4 DEF StringsAgree
  <1>4. CASE Print_
    <2>1. PICK tokens \in Formats :
              call' = [op |-> "print", tokens |-> tokens,
                       kvsprintf |-> kvsprintf(Spelled(tokens)), vsprintf |-> vsprintf(Spelled(tokens))]
      BY <1>4 DEF Print_
    <2>2. tokens \in Seq(Known \cup KernelOnly)
      BY CallsAssumption
    <2>3. /\ call'.op = "print" /\ call'.tokens = tokens
          /\ call'.kvsprintf = kvsprintf(Spelled(tokens)) /\ call'.vsprintf = vsprintf(Spelled(tokens))
      BY <2>1
    <2>4. FormatAgrees(call')
      BY <2>2, <2>3, PrintedAgree
    <2> QED  BY <2>3, <2>4 DEF StringsAgree
  <1> QED  BY <1>1, <1>2, <1>3, <1>4 DEF Ask

\* Whatever is called, comparisons have the sign of the dictionary's order, a copy is
\* what fits with its NUL, a number reads back from its digits, and every directive of a
\* format that kvsprintf or vsprintf knows is printed with its own argument.
THEOREM CallsStringsAgree == CallsSpec => []StringsAgree
PROOF
  <1>1. call = Idle => StringsAgree
    BY DEF StringsAgree, Idle
  <1>2. CallsInit => StringsAgree
    BY <1>1 DEF CallsInit
  <1>3. StringsAgree /\ [CallsNext]_call => StringsAgree'
    <2> SUFFICES ASSUME StringsAgree, [CallsNext]_call PROVE StringsAgree'
      OBVIOUS
    <2>1. CASE Ask
      BY <2>1, AskAgrees
    <2>2. CASE Return
      BY <2>2 DEF Return, StringsAgree, Idle
    <2>3. CASE UNCHANGED call
      BY <2>3 DEF StringsAgree
    <2> QED  BY <2>1, <2>2, <2>3 DEF CallsNext
  <1> QED  BY <1>2, <1>3, PTL DEF CallsSpec
===============================================================================
