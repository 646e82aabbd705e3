----------------------------- MODULE PipeFSProof -----------------------------
(***************************************************************************)
(* Proof that the byte ring of a pipe implements the queue it promises,    *)
(* for every size of the ring and of the blocks.                           *)
(***************************************************************************)
EXTENDS PipeFS, TLAPS, SequenceTheorems, WellFoundedInduction

N == m_buffer_size

\* The fields of the object.  The write index may stand at the end of the
\* buffer: a block that is as long as the buffer twice over, less the index,
\* leaves it there.
Fields == [buffer : [Index -> Byte], read : Index, write : 0 .. N, count : 0 .. N]

\* The write index is count bytes ahead of the read index, around the ring.
Ring(p) ==
    \/ p.read + p.count = p.write
    \/ p.read + p.count = p.write + N
    \/ p.read + p.count = p.write - N

PipeOK(p) == p \in Fields /\ Ring(p)

\* The inductive invariant.
IInv == PipeOK(pipe)

\* What a pipe holds, oldest first.
Held(p) == [i \in 1 .. p.count |-> p.buffer[(p.read + i - 1) % N]]

----------------------------------------------------------------------------
\* A set of natural numbers that is not empty has a least element: the
\* first call of a series that would not keep its promise.
LEMMA LeastExists ==
    ASSUME NEW S, S \subseteq Nat, S # {}
    PROVE  \E s \in S : \A t \in S : s <= t
PROOF
  <1>1. PICK x \in S : \A y \in S : ~ (<<y, x>> \in OpToRel(<, Nat))
    BY NatLessThanWellFounded, WFMin, Zenon
  <1>2. \A y \in S : ~ (y < x)
    BY <1>1 DEF OpToRel
  <1> QED  BY <1>2

\* The remainders by which an index comes back into the ring.
LEMMA Remainder ==
    ASSUME NEW x \in Nat
    PROVE  /\ x % N \in Index
           /\ x < N => x % N = x
           /\ x >= N /\ x < 2 * N => x % N = x - N
           /\ x = 2 * N => x % N = 0
PROOF
  <1>1. N \in Nat \ {0}
    BY PipeAssumption DEF N
  <1>2. x % N \in 0 .. (N - 1)
    BY <1>1
  <1>3. x < N => x % N = x
    BY <1>1
  <1>4. \A k, m \in Nat : m < N => (N * k + m) % N = m
    BY <1>1
  <1>5. x >= N /\ x < 2 * N => x % N = x - N
    <2>1. x >= N => x = N * 1 + (x - N) /\ x - N \in Nat
      BY <1>1
    <2> QED  BY <1>1, <1>4, <2>1
  <1>6. x = 2 * N => x % N = 0
    <2>1. (N * 2 + 0) % N = 0
      BY <1>1, <1>4
    <2>2. 2 * N = N * 2 + 0
      BY <1>1
    <2> QED  BY <2>1, <2>2
  <1> QED  BY <1>2, <1>3, <1>5, <1>6 DEF Index, N

\* Whatever the code adds to an index, one or two laps are taken off.
LEMMA WrapsOnce ==
    ASSUME NEW x \in Nat, x <= 2 * N
    PROVE  /\ x % N \in 0 .. (N - 1)
           /\ x % N = x \/ x % N = x - N \/ (x % N = x - 2 * N /\ x = 2 * N)
PROOF
  <1>1. N \in Nat \ {0} /\ Index = 0 .. (N - 1)
    BY PipeAssumption DEF N, Index
  <1>2. x < N \/ (x >= N /\ x < 2 * N) \/ x = 2 * N
    BY <1>1
  <1>3. 2 * N - 2 * N = 0
    BY <1>1
  <1> QED  BY <1>1, <1>2, <1>3, Remainder

\* Newest keeps at most Capacity elements, from the end.
LEMMA NewestIs ==
    ASSUME NEW s \in Seq(Byte), NEW d \in Nat, d = IF Len(s) <= N THEN 0 ELSE Len(s) - N
    PROVE  /\ Promise!Newest(s) \in Seq(Byte)
           /\ Len(Promise!Newest(s)) = Len(s) - d
           /\ \A i \in 1 .. (Len(s) - d) : Promise!Newest(s)[i] = s[d + i]
PROOF
  <1>1. N \in Nat \ {0} /\ Len(s) \in Nat
    BY PipeAssumption, LenProperties DEF N
  <1>2. CASE Len(s) <= N
    BY <1>1, <1>2 DEF Promise!Newest, N
  <1>3. CASE Len(s) > N
    <2>1. Promise!Newest(s) = SubSeq(s, Len(s) - N + 1, Len(s))
      BY <1>1, <1>3 DEF Promise!Newest, N
    <2>2. \A i \in (Len(s) - N + 1) .. Len(s) : s[i] \in Byte
      BY <1>1, <1>3, ElementOfSeq
    <2>3. /\ SubSeq(s, Len(s) - N + 1, Len(s)) \in Seq(Byte)
          /\ Len(SubSeq(s, Len(s) - N + 1, Len(s))) = N
          /\ \A i \in 1 .. N : SubSeq(s, Len(s) - N + 1, Len(s))[i] = s[Len(s) - N + 1 + i - 1]
      BY <1>1, <1>3, <2>2, SubSeqProperties
    <2>4. \A i \in 1 .. N : Len(s) - N + 1 + i - 1 = d + i
      BY <1>1, <1>3
    <2>5. Len(s) - d = N
      BY <1>1, <1>3
    <2>6. \A i \in 1 .. N : SubSeq(s, Len(s) - N + 1, Len(s))[i] = s[d + i]
      BY <2>3, <2>4
    <2> QED  BY <2>1, <2>3, <2>5, <2>6
  <1> QED  BY <1>1, <1>2, <1>3

\* What a pipe holds are bytes, as many as it counts.
LEMMA HeldIs ==
    ASSUME NEW p, PipeOK(p)
    PROVE  /\ Held(p) \in Seq(Byte)
           /\ Len(Held(p)) = p.count
           /\ \A i \in 1 .. p.count : Held(p)[i] = p.buffer[(p.read + i - 1) % N]
PROOF
  <1>1. N \in Nat \ {0} /\ p \in Fields /\ p.count \in Nat /\ p.read \in Nat
    BY PipeAssumption DEF N, PipeOK, Fields, Index
  <1>2. \A i \in 1 .. p.count : (p.read + i - 1) % N \in Index
    BY <1>1, Remainder
  <1>3. \A i \in 1 .. p.count : p.buffer[(p.read + i - 1) % N] \in Byte
    BY <1>1, <1>2 DEF Fields
  <1>4. Held(p) = [i \in 1 .. p.count |-> p.buffer[(p.read + i - 1) % N]]
    BY DEF Held
  <1> DEFINE f(i) == p.buffer[(p.read + i - 1) % N]
             k == p.count
  <1>5. k \in Nat /\ Held(p) = [i \in 1 .. k |-> f(i)] /\ \A i \in 1 .. k : f(i) \in Byte
    BY <1>1, <1>3, <1>4
  <1> HIDE DEF f, k
  <1>6. /\ Held(p) \in Seq(Byte) /\ Len(Held(p)) = k
        /\ \A i \in 1 .. k : Held(p)[i] = f(i)
    BY <1>5
  <1> QED  BY <1>6 DEF f, k

\* One block keeps the ring a queue: what it holds afterwards are the newest
\* bytes of what it held and the block.
LEMMA WriteKeeps ==
    ASSUME NEW p, PipeOK(p), NEW block \in Seq(Byte), ~Overruns(p, block)
    PROVE  /\ PipeOK(write(p, block))
           /\ Held(write(p, block)) = Promise!Newest(Held(p) \o block)
PROOF
  <1> DEFINE s == Len(block)
             c == p.count
             r == p.read
             w == p.write
             q == write(p, block)
             d == IF c + s <= N THEN 0 ELSE c + s - N
  <1> HIDE DEF s, c, r, w, q, d
  <1>1. /\ N \in Nat \ {0} /\ s \in Nat /\ c \in 0 .. N /\ r \in 0 .. (N - 1) /\ w \in 0 .. N
        /\ p.buffer \in [Index -> Byte]
        /\ (r + c = w \/ r + c = w + N \/ r + c = w - N)
        /\ Index = 0 .. (N - 1)
    BY PipeAssumption, LenProperties DEF N, PipeOK, Fields, Index, Ring, s, c, r, w
  <1>d. d \in Nat /\ (c + s <= N => d = 0) /\ (c + s > N => d = c + s - N)
    BY <1>1 DEF d
  <1>2. s <= 2 * N - w
    BY <1>1 DEF Overruns, N, s, w
  <1>3. Held(p) \in Seq(Byte) /\ Len(Held(p)) = c
    BY HeldIs DEF c
  <1>4. /\ Held(p) \o block \in Seq(Byte) /\ Len(Held(p) \o block) = c + s
        /\ \A i \in 1 .. (c + s) : (Held(p) \o block)[i] = IF i <= c THEN Held(p)[i] ELSE block[i - c]
    BY <1>3, ConcatProperties DEF s
  <1>5. d \in Nat /\ d = IF Len(Held(p) \o block) <= N THEN 0 ELSE Len(Held(p) \o block) - N
    <2>1. Len(Held(p) \o block) = c + s
      BY <1>4
    <2> QED  BY <1>1, <1>d, <2>1
  <1>6. CASE s = 0
    <2>1. block = << >> /\ q = p
      BY <1>6, EmptySeq DEF write, s, q
    <2>2. Held(p) \o block = Held(p)
      BY <1>3, <2>1, ConcatEmptySeq
    <2>3. Promise!Newest(Held(p)) = Held(p)
      BY <1>1, <1>3 DEF Promise!Newest, N
    <2> QED  BY <2>1, <2>2, <2>3 DEF q
  <1>7. CASE s > 0
    <2> DEFINE first == Smaller(s, N - w)
    <2>count. q.count = c + s - d
      BY <1>1, <1>7 DEF write, MakeRoom, N, PipeOK, Fields, s, c, q, d
    <2>read. /\ c + s <= N => q.read = r
             /\ c + s > N => q.read = (r + d) % N
      BY <1>1, <1>7 DEF write, MakeRoom, N, PipeOK, Fields, s, c, r, q, d
    <2>write. /\ w + s <= N => q.write = (w + s) % N
              /\ w + s > N => q.write = w + s - N
      BY <1>1, <1>7 DEF write, N, PipeOK, Fields, s, w, q
    <2>2. r + d <= 2 * N /\ r + d \in Nat /\ w + s \in Nat
      <3>1. w + s \in Nat /\ r + d \in Nat /\ w + s <= 2 * N
        BY <1>1, <1>2, <1>d
      <3>2. r + (c + s) <= 3 * N
        <4>1. r + c <= w + N
          BY <1>1
        <4> QED  BY <1>1, <3>1, <4>1
      <3>3. CASE d = 0
        BY <1>1, <3>1, <3>3
      <3>4. CASE d = c + s - N
        BY <1>1, <3>1, <3>2, <3>4
      <3>5. d = 0 \/ d = c + s - N
        BY <1>1, <1>d
      <3> QED  BY <3>3, <3>4, <3>5
    <2>3. /\ q.read \in 0 .. (N - 1)
          /\ q.read = r + d \/ q.read = r + d - N \/ q.read = r + d - 2 * N
      <3> DEFINE z == r + d
                 m == z % N
      <3>1. z \in Nat /\ z <= 2 * N /\ (c + s > N => q.read = m)
        BY <2>read, <2>2
      <3> HIDE DEF z
      <3>2. m \in 0 .. (N - 1) /\ (m = z \/ m = z - N \/ (m = z - 2 * N /\ z = 2 * N))
        BY <3>1, WrapsOnce
      <3> HIDE DEF m
      <3>3. (q.read = r /\ d = 0) \/ q.read = m
        BY <1>1, <1>d, <2>read, <3>1
      <3> QED  BY <1>1, <1>d, <3>1, <3>2, <3>3 DEF z
    <2>4. /\ q.write \in 0 .. N
          /\ q.write = w + s \/ q.write = w + s - N
      <3> DEFINE z == w + s
                 m == z % N
      <3>1. z \in Nat /\ (z <= N => z <= 2 * N) /\ (z <= N => q.write = m) /\ (z > N => q.write = z - N)
        BY <1>1, <2>write, <2>2
      <3> HIDE DEF z
      <3>2. z <= N => m \in 0 .. (N - 1) /\ (m = z \/ m = z - N \/ (m = z - 2 * N /\ z = 2 * N))
        BY <3>1, WrapsOnce
      <3> HIDE DEF m
      <3>3. z <= 2 * N
        BY <1>1, <1>2 DEF z
      <3> DEFINE b == q.write
      <3>4. b \in 0 .. N /\ (b = z \/ b = z - N)
        <4>1. /\ z \in Nat /\ z <= 2 * N /\ (z <= N => b = m) /\ (z > N => b = z - N)
              /\ z <= N => m \in 0 .. (N - 1) /\ (m = z \/ m = z - N)
          BY <1>1, <3>1, <3>2, <3>3
        <4> HIDE DEF b
        <4> QED  BY <1>1, <4>1
      <3> QED  BY <1>1, <3>4 DEF z
    <2>5. q.count \in 0 .. N
      BY <1>1, <1>d, <2>count
    <2>6. first \in 0 .. s /\ (first = s \/ first = N - w) /\ first <= N - w
      BY <1>1 DEF Smaller, first
    <2> HIDE DEF first
    <2>7. q.buffer = [i \in Index |->
              IF i < s - first THEN block[first + i + 1]
              ELSE IF i \in w .. (w + first - 1) THEN block[i - w + 1]
              ELSE p.buffer[i]]
      BY <1>1, <1>7 DEF write, Copy, first, N, s, w, q
    <2>8. \A k \in 1 .. s : block[k] \in Byte
      BY ElementOfSeq DEF s
    <2>9. ASSUME NEW i \in Index PROVE q.buffer[i] \in Byte
      <3>1. i < s - first => first + i + 1 \in 1 .. s
        BY <1>1, <2>6
      <3>2. i \in w .. (w + first - 1) => i - w + 1 \in 1 .. s
        BY <1>1, <2>6
      <3> QED  BY <1>1, <2>7, <2>8, <3>1, <3>2
    <2>buf. q.buffer \in [Index -> Byte]
      BY <2>7, <2>9
    <2>10. q \in Fields
      BY <1>1, <1>7, <2>3, <2>4, <2>5, <2>buf DEF Fields, write, q, s
    <2>11. Ring(q)
      <3> DEFINE a == q.read
                 b == q.write
                 k == q.count
      <3>1. /\ a \in 0 .. (N - 1) /\ b \in 0 .. N /\ k \in 0 .. N
            /\ a = r + d \/ a = r + d - N \/ a = r + d - 2 * N
            /\ b = w + s \/ b = w + s - N
            /\ k = c + s - d
        BY <2>count, <2>3, <2>4, <2>5
      <3> HIDE DEF a, b, k
      <3>2. a + k = r + c + s \/ a + k = r + c + s - N \/ a + k = r + c + s - 2 * N
        BY <1>1, <1>d, <3>1
      <3>3. a + k = b \/ a + k = b + N \/ a + k = b - N
        <4> DEFINE t == r + c + s
                   e == a + k
        <4>1. t = b - N \/ t = b \/ t = b + N \/ t = b + 2 * N
          BY <1>1, <3>1
        <4>2. e = t \/ e = t - N \/ e = t - 2 * N
          BY <1>1, <3>2
        <4>3. e \in Int /\ t \in Int /\ e < 2 * N /\ e >= 0
          BY <1>1, <3>1
        <4> HIDE DEF t, e
        <4>4. e = b \/ e = b + N \/ e = b - N
          BY <1>1, <3>1, <4>1, <4>2, <4>3
        <4> QED  BY <4>4 DEF e
      <3> QED  BY <3>3 DEF Ring, a, b, k
    <2>12. PipeOK(q)
      BY <2>10, <2>11 DEF PipeOK
    <2>13. ASSUME NEW i \in 1 .. q.count
           PROVE  Held(q)[i] = (Held(p) \o block)[d + i]
      <3> DEFINE x == (q.read + i - 1) % N
                 y == (r + (d + i) - 1) % N
      <3> HIDE DEF x, y
      <3>1. Held(q)[i] = q.buffer[x]
        BY <2>12, HeldIs DEF x
      <3> DEFINE z == q.read + i - 1
      <3>2. z \in Nat /\ z <= 2 * N /\ z # 2 * N
        <4> DEFINE a == q.read
                   k == q.count
        <4>1. a \in 0 .. (N - 1) /\ k \in 0 .. N /\ i \in 1 .. k
          BY <2>3, <2>5
        <4> HIDE DEF a, k
        <4>2. /\ a + i - 1 \in Nat /\ a + i - 1 <= 2 * N
              /\ a + i - 1 # 2 * N
          BY <1>1, <4>1
        <4> QED  BY <4>2 DEF a
      <3> HIDE DEF z
      <3>3. x \in 0 .. (N - 1) /\ (x = q.read + i - 1 \/ x = q.read + i - 1 - N)
        <4>1. z % N \in 0 .. (N - 1) /\ (z % N = z \/ z % N = z - N)
          BY <3>2, WrapsOnce
        <4>2. x \in 0 .. (N - 1) /\ (x = z \/ x = z - N)
          BY <4>1 DEF x, z
        <4>3. z = q.read + i - 1 /\ z - N = q.read + i - 1 - N
          BY <1>1, <2>3 DEF z
        <4> QED  BY <4>2, <4>3
      <3>4. x = r + d + i - 1 \/ x = r + d + i - 1 - N \/ x = r + d + i - 1 - 2 * N \/ x = r + d + i - 1 - 3 * N
        BY <1>1, <1>d, <2>3, <3>3
      <3>5. d + i \in 1 .. (c + s)
        BY <1>1, <1>d, <2>count
      <3>6. CASE d + i <= c
        <4>1. (Held(p) \o block)[d + i] = p.buffer[y]
          <5>1. (Held(p) \o block)[d + i] = Held(p)[d + i]
            BY <1>4, <3>5, <3>6
          <5>2. d + i \in 1 .. p.count
            BY <1>1, <1>d, <3>5, <3>6 DEF c
          <5> QED  BY <5>1, <5>2, HeldIs DEF y, r
        <4> DEFINE v == r + (d + i) - 1
        <4>2. v \in Nat /\ v <= 2 * N /\ v # 2 * N
          BY <1>1, <1>d, <3>6
        <4> HIDE DEF v
        <4>3. y \in 0 .. (N - 1) /\ (y = r + (d + i) - 1 \/ y = r + (d + i) - 1 - N)
          <5>1. v % N \in 0 .. (N - 1) /\ (v % N = v \/ v % N = v - N)
            BY <4>2, WrapsOnce
          <5>2. y \in 0 .. (N - 1) /\ (y = v \/ y = v - N)
            BY <5>1 DEF y, v
          <5>3. v = r + (d + i) - 1 /\ v - N = r + (d + i) - 1 - N
            BY <1>1, <1>d DEF v
          <5> QED  BY <5>2, <5>3
        <4>4. x = y
          BY <1>1, <1>d, <3>3, <3>4, <4>2, <4>3
        <4>5. ~ (x < s - first) /\ ~ (x \in w .. (w + first - 1))
          BY <1>1, <1>2, <1>d, <2>count, <2>6, <3>3, <3>4, <3>6
        <4> QED  BY <1>1, <2>7, <3>1, <3>3, <4>1, <4>4, <4>5
      <3>7. CASE d + i > c
        <4>1. (Held(p) \o block)[d + i] = block[d + i - c]
          <5>1. ~ (d + i <= c)
            BY <1>1, <1>d, <3>7
          <5>2. (Held(p) \o block)[d + i] = IF d + i <= c THEN Held(p)[d + i] ELSE block[(d + i) - c]
            BY <1>4, <3>5
          <5>3. (d + i) - c = d + i - c
            BY <1>1, <1>d
          <5> QED  BY <5>1, <5>2, <5>3
        <4>2. IF x < s - first THEN first + x + 1 = d + i - c
              ELSE x \in w .. (w + first - 1) /\ x - w + 1 = d + i - c
          BY <1>1, <1>2, <1>d, <2>count, <2>6, <3>3, <3>4, <3>5, <3>7
        <4> QED  BY <1>1, <2>7, <3>1, <3>3, <4>1, <4>2
      <3>8. d + i <= c \/ d + i > c
        BY <1>1, <1>d, <3>5
      <3> QED  BY <3>6, <3>7, <3>8
    <2>14. Held(q) \in Seq(Byte) /\ Len(Held(q)) = c + s - d
      BY <2>count, <2>12, HeldIs
    <2>15. /\ Promise!Newest(Held(p) \o block) \in Seq(Byte)
           /\ Len(Promise!Newest(Held(p) \o block)) = c + s - d
           /\ \A i \in 1 .. (c + s - d) :
                  Promise!Newest(Held(p) \o block)[i] = (Held(p) \o block)[d + i]
      <3> DEFINE whole == Held(p) \o block
      <3>1. whole \in Seq(Byte) /\ Len(whole) = c + s
        BY <1>4
      <3>2. d = IF Len(whole) <= N THEN 0 ELSE Len(whole) - N
        BY <1>5
      <3> HIDE DEF whole
      <3>3. /\ Promise!Newest(whole) \in Seq(Byte)
            /\ Len(Promise!Newest(whole)) = Len(whole) - d
            /\ \A i \in 1 .. (Len(whole) - d) : Promise!Newest(whole)[i] = whole[d + i]
        BY <1>d, <3>1, <3>2, NewestIs
      <3>4. Len(whole) - d = c + s - d
        BY <1>1, <1>d, <3>1
      <3> QED  BY <3>3, <3>4 DEF whole
    <2>16. Held(q) = Promise!Newest(Held(p) \o block)
      BY <2>count, <2>13, <2>14, <2>15, SeqEqual
    <2> QED  BY <2>12, <2>16 DEF q
  <1> QED  BY <1>1, <1>6, <1>7 DEF q

\* One block read: what it copies is the front of what the pipe held, which
\* loses it; if there is not enough for the block, nothing happens.
LEMMA ReadKeeps ==
    ASSUME NEW p, PipeOK(p), NEW size \in Nat \ {0}
    PROVE  LET one == read(p, size)
           IN  /\ PipeOK(one.pipe)
               /\ size > p.count => /\ one.pipe = p
                                    /\ one.bytes = [i \in 1 .. size |-> Untouched]
               /\ size <= p.count =>
                      /\ one.bytes = SubSeq(Held(p), 1, size)
                      /\ Held(one.pipe) = SubSeq(Held(p), size + 1, p.count)
PROOF
  <1> DEFINE c == p.count
             r == p.read
             w == p.write
             q == read(p, size).pipe
             bytes == read(p, size).bytes
             first == N - r
  <1> HIDE DEF c, r, w, q, bytes, first
  <1>1. /\ N \in Nat \ {0} /\ c \in 0 .. N /\ r \in 0 .. (N - 1) /\ w \in 0 .. N
        /\ (r + c = w \/ r + c = w + N \/ r + c = w - N)
        /\ Index = 0 .. (N - 1)
        /\ p.buffer \in [Index -> Byte]
    BY PipeAssumption DEF N, PipeOK, Fields, Index, Ring, c, r, w
  <1>2. /\ Held(p) \in Seq(Byte) /\ Len(Held(p)) = c
        /\ \A i \in 1 .. c : Held(p)[i] = p.buffer[(r + i - 1) % N]
    BY HeldIs DEF c, r
  <1>3. CASE size > c
    <2>1. read(p, size) = [pipe |-> p, bytes |-> [i \in 1 .. size |-> Untouched]]
      BY <1>3 DEF read, c
    <2>2. ~ (size <= p.count)
      BY <1>1, <1>3 DEF c
    <2> QED  BY <2>1, <2>2
  <1>4. CASE size <= c
    <2>0. /\ ~ (size > p.count)
          /\ p = [buffer |-> p.buffer, read |-> p.read, write |-> p.write, count |-> p.count]
      BY <1>1, <1>4 DEF c, PipeOK, Fields
    <2>1. /\ q.buffer = p.buffer /\ q.write = w /\ q.count = c - size
          /\ q \in [buffer : {p.buffer}, read : {q.read}, write : {w}, count : {c - size}]
      BY <2>0 DEF read, q, c, w
    <2>2. /\ r + size <= N => q.read = (r + size) % N
          /\ r + size > N => q.read = size - first
      BY <1>1, <1>4 DEF read, q, PipeOK, Fields, N, r, c, first
    <2>3. bytes = [i \in 1 .. size |-> p.buffer[IF i <= first THEN r + i - 1 ELSE i - first - 1]]
      BY <1>1, <1>4 DEF read, bytes, N, r, c, first
    <2>4. /\ q.read \in 0 .. (N - 1)
          /\ q.read = r + size \/ q.read = r + size - N
      <3> DEFINE z == r + size
      <3>1. z \in Nat /\ (z <= N => z <= 2 * N) /\ (z <= N => q.read = z % N) /\ (z > N => q.read = z - N)
        BY <1>1, <2>2 DEF first
      <3> HIDE DEF z
      <3>2. z <= N => z % N \in 0 .. (N - 1) /\ (z % N = z \/ z % N = z - N \/ (z % N = z - 2 * N /\ z = 2 * N))
        BY <3>1, WrapsOnce
      <3>3. z <= 2 * N - 1
        BY <1>1, <1>4 DEF z
      <3>4. q.read \in 0 .. (N - 1) /\ (q.read = z \/ q.read = z - N)
        BY <1>1, <3>1, <3>2, <3>3
      <3> QED  BY <1>1, <3>4 DEF z
    <2>5. q \in Fields
      BY <1>1, <1>4, <2>1, <2>4 DEF Fields
    <2>6. Ring(q)
      <3> DEFINE a == q.read
      <3>1. a \in 0 .. (N - 1) /\ (a = r + size \/ a = r + size - N)
        BY <2>4
      <3> HIDE DEF a
      <3>2. a + (c - size) = w \/ a + (c - size) = w + N \/ a + (c - size) = w - N
        BY <1>1, <1>4, <3>1
      <3> QED  BY <2>1, <3>2 DEF Ring, a
    <2>7. PipeOK(q)
      BY <2>5, <2>6 DEF PipeOK
    <2>8. ASSUME NEW i \in 1 .. c PROVE Held(p)[i] = p.buffer[IF i <= first THEN r + i - 1 ELSE i - first - 1]
      <3> DEFINE z == r + i - 1
      <3>1. z \in Nat /\ z <= 2 * N /\ z # 2 * N /\ z < 2 * N
        BY <1>1
      <3> HIDE DEF z
      <3>2. (z < N => z % N = z) /\ (z >= N => z % N = z - N)
        BY <1>1, <3>1, Remainder
      <3>3. z % N = IF i <= first THEN r + i - 1 ELSE i - first - 1
        BY <1>1, <3>2 DEF z, first
      <3> QED  BY <1>2, <3>3 DEF z
    <2>9. \A i \in 1 .. size : i \in 1 .. c
      BY <1>1, <1>4
    <2>10. bytes = SubSeq(Held(p), 1, size)
      <3>1. \A i \in 1 .. size : Held(p)[i] \in Byte
        BY <1>2, <2>9, ElementOfSeq
      <3>2. /\ SubSeq(Held(p), 1, size) \in Seq(Byte) /\ Len(SubSeq(Held(p), 1, size)) = size
            /\ \A i \in 1 .. size : SubSeq(Held(p), 1, size)[i] = Held(p)[i]
        BY <3>1, SubSeqProperties
      <3>3. \A i \in 1 .. size : bytes[i] = Held(p)[i]
        BY <2>3, <2>8, <2>9
      <3>4. bytes \in Seq(Byte) /\ Len(bytes) = size
        BY <2>3, <3>1, <3>3
      <3> QED  BY <3>2, <3>3, <3>4, SeqEqual
    <2>11. Held(q) = SubSeq(Held(p), size + 1, c)
      <3>1. \A i \in (size + 1) .. c : Held(p)[i] \in Byte
        BY <1>1, <1>2, ElementOfSeq
      <3>2. /\ SubSeq(Held(p), size + 1, c) \in Seq(Byte) /\ Len(SubSeq(Held(p), size + 1, c)) = c - size
            /\ \A i \in 1 .. (c - size) : SubSeq(Held(p), size + 1, c)[i] = Held(p)[size + i]
        <4>1. /\ SubSeq(Held(p), size + 1, c) \in Seq(Byte)
              /\ Len(SubSeq(Held(p), size + 1, c)) = IF size + 1 <= c THEN c - (size + 1) + 1 ELSE 0
              /\ \A i \in 1 .. (c - (size + 1) + 1) : SubSeq(Held(p), size + 1, c)[i] = Held(p)[size + 1 + i - 1]
          BY <1>1, <3>1, SubSeqProperties
        <4>2. c - (size + 1) + 1 = c - size /\ \A i \in 1 .. (c - size) : size + 1 + i - 1 = size + i
          BY <1>1
        <4> QED  BY <1>1, <1>4, <4>1, <4>2
      <3>3. Held(q) \in Seq(Byte) /\ Len(Held(q)) = c - size
        BY <2>1, <2>7, HeldIs
      <3>4. ASSUME NEW i \in 1 .. (c - size) PROVE Held(q)[i] = Held(p)[size + i]
        <4> DEFINE a == q.read
                   z == a + i - 1
                   y == r + (size + i) - 1
        <4>1. Held(q)[i] = p.buffer[z % N]
          BY <2>1, <2>7, HeldIs
        <4>2. size + i \in 1 .. c
          BY <1>1
        <4>3. Held(p)[size + i] = p.buffer[y % N]
          BY <1>2, <4>2
        <4>4. /\ z \in Nat /\ z <= 2 * N /\ z # 2 * N
              /\ y \in Nat /\ y <= 2 * N /\ y # 2 * N
              /\ z = y \/ z = y - N
          <5>1. a \in 0 .. (N - 1) /\ (a = r + size \/ a = r + size - N)
            BY <2>4
          <5> HIDE DEF a
          <5>2. i \in Nat /\ i >= 1 /\ i <= c - size
            BY <1>1, <1>4
          <5>3. z \in Nat /\ z <= 2 * N /\ z # 2 * N
            BY <1>1, <5>1, <5>2
          <5>4. y \in Nat /\ y <= 2 * N /\ y # 2 * N
            BY <1>1, <4>2
          <5>5. z = y \/ z = y - N
            BY <1>1, <5>1, <5>2
          <5> QED  BY <5>3, <5>4, <5>5
        <4> HIDE DEF z, y
        <4>5. /\ z % N \in 0 .. (N - 1) /\ (z % N = z \/ z % N = z - N)
              /\ y % N \in 0 .. (N - 1) /\ (y % N = y \/ y % N = y - N)
          BY <4>4, WrapsOnce
        <4> DEFINE m == z % N
                   n == y % N
        <4>6. m \in 0 .. (N - 1) /\ (m = z \/ m = z - N) /\ n \in 0 .. (N - 1) /\ (n = y \/ n = y - N)
          BY <4>5
        <4> HIDE DEF m, n
        <4>7. m = n
          BY <1>1, <4>4, <4>6
        <4> QED  BY <4>1, <4>3, <4>7 DEF m, n
      <3> QED  BY <3>2, <3>3, <3>4, SeqEqual
    <2> QED  BY <1>1, <1>4, <2>7, <2>10, <2>11 DEF q, bytes, c
  <1> QED  BY <1>1, <1>3, <1>4

\* Dropping in two rounds drops what dropping in one does.
LEMMA NewestNewest ==
    ASSUME NEW a \in Seq(Byte), NEW b \in Seq(Byte)
    PROVE  Promise!Newest(Promise!Newest(a) \o b) = Promise!Newest(a \o b)
PROOF
  <1> DEFINE l == Len(a)
             m == Len(b)
             d == IF l <= N THEN 0 ELSE l - N
             na == Promise!Newest(a)
             ab == a \o b
             nab == na \o b
             e == IF Len(nab) <= N THEN 0 ELSE Len(nab) - N
             g == IF Len(ab) <= N THEN 0 ELSE Len(ab) - N
  <1> HIDE DEF l, m, d, na, ab, nab, e, g
  <1>1. N \in Nat \ {0} /\ l \in Nat /\ m \in Nat
    BY PipeAssumption, LenProperties DEF N, l, m
  <1>2. d \in Nat /\ (l <= N => d = 0) /\ (l > N => d = l - N)
    BY <1>1 DEF d
  <1>3. /\ na \in Seq(Byte) /\ Len(na) = l - d
        /\ \A i \in 1 .. (l - d) : na[i] = a[d + i]
    <2>1. d = IF Len(a) <= N THEN 0 ELSE Len(a) - N
      BY DEF d, l
    <2> QED  BY <1>2, <2>1, NewestIs DEF na, l
  <1>4. /\ ab \in Seq(Byte) /\ Len(ab) = l + m
        /\ \A i \in 1 .. (l + m) : ab[i] = IF i <= l THEN a[i] ELSE b[i - l]
    BY ConcatProperties DEF ab, l, m
  <1>5. /\ nab \in Seq(Byte) /\ Len(nab) = l - d + m
        /\ \A i \in 1 .. (l - d + m) : nab[i] = IF i <= l - d THEN na[i] ELSE b[i - (l - d)]
    <2>1. /\ nab \in Seq(Byte) /\ Len(nab) = Len(na) + m
          /\ \A i \in 1 .. (Len(na) + m) : nab[i] = IF i <= Len(na) THEN na[i] ELSE b[i - Len(na)]
      BY <1>3, ConcatProperties DEF nab, m
    <2> QED  BY <1>3, <2>1
  <1>6. e \in Nat /\ g \in Nat /\ g = d + e /\ (l - d + m) - e = (l + m) - g
    BY <1>1, <1>2, <1>4, <1>5 DEF e, g
  <1>7. /\ Promise!Newest(nab) \in Seq(Byte) /\ Len(Promise!Newest(nab)) = Len(nab) - e
        /\ \A i \in 1 .. (Len(nab) - e) : Promise!Newest(nab)[i] = nab[e + i]
    BY <1>5, <1>6, NewestIs DEF e
  <1>8. /\ Promise!Newest(ab) \in Seq(Byte) /\ Len(Promise!Newest(ab)) = Len(ab) - g
        /\ \A i \in 1 .. (Len(ab) - g) : Promise!Newest(ab)[i] = ab[g + i]
    BY <1>4, <1>6, NewestIs DEF g
  <1>9. ASSUME NEW i \in 1 .. ((l + m) - g) PROVE nab[e + i] = ab[g + i]
    <2>1. e + i \in 1 .. (l - d + m) /\ g + i \in 1 .. (l + m) /\ g + i = d + (e + i)
      BY <1>1, <1>2, <1>6
    <2>2. CASE e + i <= l - d
      <3>1. g + i <= l /\ e + i \in 1 .. (l - d)
        BY <1>1, <1>2, <2>1, <2>2
      <3>2. nab[e + i] = na[e + i] /\ na[e + i] = a[d + (e + i)]
        BY <1>3, <1>5, <2>1, <2>2, <3>1
      <3>3. ab[g + i] = a[g + i]
        BY <1>4, <2>1, <3>1
      <3> QED  BY <2>1, <3>2, <3>3
    <2>3. CASE ~ (e + i <= l - d)
      <3>1. ~ (g + i <= l) /\ (g + i) - l = (e + i) - (l - d)
        BY <1>1, <1>2, <1>6, <2>1, <2>3
      <3>2. nab[e + i] = b[(e + i) - (l - d)]
        BY <1>5, <2>1, <2>3
      <3>3. ab[g + i] = b[(g + i) - l]
        BY <1>4, <2>1, <3>1
      <3> QED  BY <3>1, <3>2, <3>3
    <2> QED  BY <2>2, <2>3
  <1>10. Len(nab) - e = (l + m) - g /\ Len(ab) - g = (l + m) - g
    BY <1>4, <1>5, <1>6
  <1>11. Promise!Newest(nab) = Promise!Newest(ab)
    <2> DEFINE u == Promise!Newest(nab)
               v == Promise!Newest(ab)
               k == (l + m) - g
    <2>1. /\ u \in Seq(Byte) /\ v \in Seq(Byte) /\ Len(u) = k /\ Len(v) = k
          /\ \A i \in 1 .. k : u[i] = nab[e + i] /\ v[i] = ab[g + i] /\ nab[e + i] = ab[g + i]
      BY <1>7, <1>8, <1>9, <1>10
    <2> HIDE DEF u, v, k
    <2>2. u = v
      BY <2>1, SeqEqual
    <2> QED  BY <2>2 DEF u, v
  <1> QED  BY <1>11 DEF nab, na, ab

----------------------------------------------------------------------------
\* Calls of several blocks.  What the recursive functions of the model satisfy
\* their equations is shown for every length by the least one for which they
\* would not.

IsFlat(f, blocks, L) ==
    f = [n \in 1 .. L |-> IF n = 1 THEN blocks[n] ELSE f[n - 1] \o blocks[n]]

IsWritten(f, p, blocks, L) ==
    f = [n \in 0 .. L |-> IF n = 0 THEN p ELSE write(f[n - 1], blocks[n])]

IsReadIn(f, p, r, L) ==
    f = [n \in 0 .. L |-> IF n = 0 THEN [pipe |-> p, bytes |-> << >>]
                          ELSE ReadMore(f[n - 1], r.size)]

\* There is a sequence of the sums of blocks.
LEMMA FlatExists ==
    ASSUME NEW blocks, NEW L \in Nat
    PROVE  \E f : IsFlat(f, blocks, L)
PROOF
  <1> DEFINE Bad == {k \in 0 .. L : ~ \E f : IsFlat(f, blocks, k)}
  <1>1. SUFFICES ASSUME Bad # {} PROVE FALSE
    <2>1. L \in 0 .. L
      OBVIOUS
    <2> QED  BY <2>1
  <1>2. PICK k \in Bad : \A j \in Bad : k <= j
    <2>1. Bad \subseteq Nat
      OBVIOUS
    <2> QED  BY <1>1, <2>1, LeastExists
  <1>3. CASE k = 0
    <2>1. 1 .. 0 = {}
      OBVIOUS
    <2> DEFINE f == [n \in {} |-> 0]
    <2>2. f = [n \in 1 .. 0 |-> IF n = 1 THEN blocks[n] ELSE f[n - 1] \o blocks[n]]
      BY <2>1
    <2> QED  BY <1>2, <1>3, <2>2 DEF IsFlat
  <1>4. CASE k # 0
    <2>1. k - 1 \in 0 .. L /\ k - 1 \notin Bad /\ k \in 1 .. L
      BY <1>2, <1>4
    <2>2. PICK f : IsFlat(f, blocks, k - 1)
      BY <2>1
    <2> DEFINE g == [n \in 1 .. k |->
                        IF n = k THEN (IF k = 1 THEN blocks[k] ELSE f[k - 1] \o blocks[k])
                        ELSE f[n]]
    <2>3. ASSUME NEW n \in 1 .. k
          PROVE  g[n] = IF n = 1 THEN blocks[n] ELSE g[n - 1] \o blocks[n]
      <3>1. CASE n = k
        <4>1. n # 1 => n - 1 \in 1 .. k /\ n - 1 # k
          BY <2>1
        <4> QED  BY <3>1, <4>1
      <3>2. CASE n # k
        <4>1. n \in 1 .. (k - 1) /\ (n # 1 => n - 1 \in 1 .. k /\ n - 1 # k)
          BY <2>1, <3>2
        <4>2. f[n] = IF n = 1 THEN blocks[n] ELSE f[n - 1] \o blocks[n]
          BY <2>2, <4>1 DEF IsFlat
        <4> QED  BY <3>2, <4>1, <4>2
      <3> QED  BY <3>1, <3>2
    <2>4. g = [n \in 1 .. k |-> IF n = 1 THEN blocks[n] ELSE g[n - 1] \o blocks[n]]
      <3> HIDE DEF g
      <3>1. g = [n \in 1 .. k |-> g[n]]
        BY DEF g
      <3> QED  BY <2>3, <3>1
    <2> QED  BY <1>2, <2>4 DEF IsFlat
  <1> QED  BY <1>3, <1>4

\* There is a sequence of the pipes that a call of writes goes through.
LEMMA WrittenExists ==
    ASSUME NEW p, NEW blocks, NEW L \in Nat
    PROVE  \E f : IsWritten(f, p, blocks, L)
PROOF
  <1> DEFINE Bad == {k \in 0 .. L : ~ \E f : IsWritten(f, p, blocks, k)}
  <1>1. SUFFICES ASSUME Bad # {} PROVE FALSE
    <2>1. L \in 0 .. L
      OBVIOUS
    <2> QED  BY <2>1
  <1>2. PICK k \in Bad : \A j \in Bad : k <= j
    <2>1. Bad \subseteq Nat
      OBVIOUS
    <2> QED  BY <1>1, <2>1, LeastExists
  <1>3. CASE k = 0
    <2> DEFINE f == [n \in 0 .. 0 |-> p]
    <2>1. \A n \in 0 .. 0 : n = 0
      OBVIOUS
    <2>2. f = [n \in 0 .. 0 |-> IF n = 0 THEN p ELSE write(f[n - 1], blocks[n])]
      BY <2>1
    <2> QED  BY <1>2, <1>3, <2>2 DEF IsWritten
  <1>4. CASE k # 0
    <2>1. k - 1 \in 0 .. L /\ k - 1 \notin Bad /\ k \in 1 .. L
      BY <1>2, <1>4
    <2>2. PICK f : IsWritten(f, p, blocks, k - 1)
      BY <2>1
    <2> DEFINE g == [n \in 0 .. k |-> IF n = k THEN write(f[k - 1], blocks[k]) ELSE f[n]]
    <2>3. ASSUME NEW n \in 0 .. k
          PROVE  g[n] = IF n = 0 THEN p ELSE write(g[n - 1], blocks[n])
      <3>1. CASE n = k
        <4>1. n # 0 /\ n - 1 \in 0 .. k /\ n - 1 # k
          BY <2>1, <3>1
        <4> QED  BY <3>1, <4>1
      <3>2. CASE n # k
        <4>1. n \in 0 .. (k - 1) /\ (n # 0 => n - 1 \in 0 .. k /\ n - 1 # k)
          BY <2>1, <3>2
        <4>2. f[n] = IF n = 0 THEN p ELSE write(f[n - 1], blocks[n])
          BY <2>2, <4>1 DEF IsWritten
        <4> QED  BY <3>2, <4>1, <4>2
      <3> QED  BY <3>1, <3>2
    <2>4. g = [n \in 0 .. k |-> IF n = 0 THEN p ELSE write(g[n - 1], blocks[n])]
      <3> HIDE DEF g
      <3>1. g = [n \in 0 .. k |-> g[n]]
        BY DEF g
      <3> QED  BY <2>3, <3>1
    <2> QED  BY <1>2, <2>4 DEF IsWritten
  <1> QED  BY <1>3, <1>4

\* There is a sequence of the pipes and bytes that a call of reads goes through.
LEMMA ReadInExists ==
    ASSUME NEW p, NEW r, NEW L \in Nat
    PROVE  \E f : IsReadIn(f, p, r, L)
PROOF
  <1> DEFINE none == [pipe |-> p, bytes |-> << >>]
             Bad == {k \in 0 .. L : ~ \E f : IsReadIn(f, p, r, k)}
  <1>1. SUFFICES ASSUME Bad # {} PROVE FALSE
    <2>1. L \in 0 .. L
      OBVIOUS
    <2> QED  BY <2>1
  <1>2. PICK k \in Bad : \A j \in Bad : k <= j
    <2>1. Bad \subseteq Nat
      OBVIOUS
    <2> QED  BY <1>1, <2>1, LeastExists
  <1>3. CASE k = 0
    <2> DEFINE f == [n \in 0 .. 0 |-> none]
    <2>1. \A n \in 0 .. 0 : n = 0
      OBVIOUS
    <2>2. f = [n \in 0 .. 0 |-> IF n = 0 THEN none ELSE ReadMore(f[n - 1], r.size)]
      BY <2>1
    <2> QED  BY <1>2, <1>3, <2>2 DEF IsReadIn
  <1>4. CASE k # 0
    <2>1. k - 1 \in 0 .. L /\ k - 1 \notin Bad /\ k \in 1 .. L
      BY <1>2, <1>4
    <2>2. PICK f : IsReadIn(f, p, r, k - 1)
      BY <2>1
    <2> DEFINE g == [n \in 0 .. k |-> IF n = k THEN ReadMore(f[k - 1], r.size) ELSE f[n]]
    <2>3. ASSUME NEW n \in 0 .. k
          PROVE  g[n] = IF n = 0 THEN none ELSE ReadMore(g[n - 1], r.size)
      <3>1. CASE n = k
        <4>1. n # 0 /\ n - 1 \in 0 .. k /\ n - 1 # k
          BY <2>1, <3>1
        <4> QED  BY <3>1, <4>1
      <3>2. CASE n # k
        <4>1. n \in 0 .. (k - 1) /\ (n # 0 => n - 1 \in 0 .. k /\ n - 1 # k)
          BY <2>1, <3>2
        <4>2. f[n] = IF n = 0 THEN none ELSE ReadMore(f[n - 1], r.size)
          BY <2>2, <4>1 DEF IsReadIn
        <4> QED  BY <3>2, <4>1, <4>2
      <3> QED  BY <3>1, <3>2
    <2>4. g = [n \in 0 .. k |-> IF n = 0 THEN none ELSE ReadMore(g[n - 1], r.size)]
      <3> HIDE DEF g
      <3>1. g = [n \in 0 .. k |-> g[n]]
        BY DEF g
      <3>2. \A n \in 0 .. k : g[n] = IF n = 0 THEN none ELSE ReadMore(g[n - 1], r.size)
        BY <2>3, Zenon
      <3> HIDE DEF none
      <3> QED  BY <3>1, <3>2, SMTT(30)
    <2> QED  BY <1>2, <2>4 DEF IsReadIn
  <1> QED  BY <1>3, <1>4

\* Hence the three recursive functions are those sequences.
LEMMA FlattenIs ==
    ASSUME NEW blocks, Len(blocks) \in Nat \ {0}
    PROVE  \E f : /\ IsFlat(f, blocks, Len(blocks))
                  /\ Promise!FlattenSeq(blocks) = f[Len(blocks)]
PROOF
  <1> DEFINE F == CHOOSE f : f = [n \in 1 .. Len(blocks) |->
                                     IF n = 1 THEN blocks[n] ELSE f[n - 1] \o blocks[n]]
  <1>1. \E f : f = [n \in 1 .. Len(blocks) |->
                       IF n = 1 THEN blocks[n] ELSE f[n - 1] \o blocks[n]]
    BY FlatExists DEF IsFlat
  <1>2. F = [n \in 1 .. Len(blocks) |-> IF n = 1 THEN blocks[n] ELSE F[n - 1] \o blocks[n]]
    BY <1>1, Zenon
  <1>3. Promise!FlattenSeq(blocks) = F[Len(blocks)]
    BY Zenon DEF Promise!FlattenSeq
  <1> QED  BY <1>2, <1>3, Zenon DEF IsFlat

\* The pipes of Written.
LEMMA WrittenIs ==
    ASSUME NEW p, NEW blocks, Len(blocks) \in Nat
    PROVE  IsWritten(Written(p, blocks), p, blocks, Len(blocks))
PROOF
  <1> DEFINE F == CHOOSE f : f = [n \in 0 .. Len(blocks) |->
                                     IF n = 0 THEN p ELSE write(f[n - 1], blocks[n])]
  <1>1. \E f : f = [n \in 0 .. Len(blocks) |-> IF n = 0 THEN p ELSE write(f[n - 1], blocks[n])]
    <2>1. PICK f : IsWritten(f, p, blocks, Len(blocks))
      BY WrittenExists
    <2> QED  BY <2>1 DEF IsWritten
  <1>2. F = [n \in 0 .. Len(blocks) |-> IF n = 0 THEN p ELSE write(F[n - 1], blocks[n])]
    BY <1>1, Zenon
  <1>3. Written(p, blocks) = F
    BY Zenon DEF Written
  <1> QED  BY <1>2, <1>3 DEF IsWritten

\* The pipes and bytes of ReadIn.
LEMMA ReadInIs ==
    ASSUME NEW p, NEW r, r.nmemb \in Nat
    PROVE  IsReadIn(ReadIn(p, r), p, r, r.nmemb)
PROOF
  <1> DEFINE F == CHOOSE f : f = [n \in 0 .. r.nmemb |->
                                     IF n = 0 THEN [pipe |-> p, bytes |-> << >>]
                                     ELSE ReadMore(f[n - 1], r.size)]
  <1>1. \E f : f = [n \in 0 .. r.nmemb |-> IF n = 0 THEN [pipe |-> p, bytes |-> << >>]
                                           ELSE ReadMore(f[n - 1], r.size)]
    <2>1. PICK f : IsReadIn(f, p, r, r.nmemb)
      BY ReadInExists
    <2> QED  BY <2>1 DEF IsReadIn
  <1>2. F = [n \in 0 .. r.nmemb |-> IF n = 0 THEN [pipe |-> p, bytes |-> << >>]
                                    ELSE ReadMore(F[n - 1], r.size)]
    BY <1>1, Zenon
  <1>3. ReadIn(p, r) = F
    BY Zenon DEF ReadIn
  <1> QED  BY <1>2, <1>3 DEF IsReadIn

----------------------------------------------------------------------------
\* A whole call of PipeFS::write, of any number of blocks.
LEMMA WritesKeep ==
    ASSUME NEW p, PipeOK(p), NEW blocks \in Seq(Seq(Byte)),
           \A i \in DOMAIN blocks : ~Overruns(Written(p, blocks)[i - 1], blocks[i])
    PROVE  /\ PipeOK(Written(p, blocks)[Len(blocks)])
           /\ Held(Written(p, blocks)[Len(blocks)]) = Promise!Put(Held(p), blocks)
PROOF
  <1> DEFINE L == Len(blocks)
             h == Held(p)
             after == Written(p, blocks)
  <1>1. L \in Nat /\ DOMAIN blocks = 1 .. L /\ \A i \in 1 .. L : blocks[i] \in Seq(Byte)
    BY LenProperties, ElementOfSeq
  <1>2. h \in Seq(Byte) /\ Len(h) <= N
    <2>1. Len(h) = p.count /\ p.count \in 0 .. N /\ N \in Nat
      BY HeldIs, PipeAssumption DEF PipeOK, Fields, N
    <2> QED  BY <2>1, HeldIs
  <1>3. \A n \in 0 .. L : after[n] = IF n = 0 THEN p ELSE write(after[n - 1], blocks[n])
    <2>1. IsWritten(after, p, blocks, L)
      BY <1>1, WrittenIs
    <2> HIDE DEF after
    <2> QED  BY <2>1 DEF IsWritten
  <1>4. \A i \in 1 .. L : ~Overruns(after[i - 1], blocks[i])
    BY <1>1
  <1> HIDE DEF h, after
  <1>5. CASE L = 0
    <2>1. blocks = << >>
      BY <1>5, EmptySeq
    <2>2. Promise!FlattenSeq(blocks) = << >>
      BY <1>5, <2>1 DEF Promise!FlattenSeq
    <2>3. Promise!Put(h, blocks) = Promise!Newest(h)
      BY <1>2, <2>2, ConcatEmptySeq DEF Promise!Put
    <2>4. Promise!Newest(h) = h
      BY <1>2 DEF Promise!Newest, N
    <2>5. after[L] = p
      BY <1>3, <1>5
    <2> QED  BY <2>3, <2>4, <2>5 DEF h, after
  <1>6. CASE L # 0
    <2>1. PICK f : IsFlat(f, blocks, L) /\ Promise!FlattenSeq(blocks) = f[L]
      BY <1>1, <1>6, FlattenIs
    <2>2. \A n \in 1 .. L : f[n] = IF n = 1 THEN blocks[n] ELSE f[n - 1] \o blocks[n]
      BY <2>1 DEF IsFlat
    <2> HIDE DEF L
    <2> DEFINE Good(n) == /\ PipeOK(after[n])
                          /\ f[n] \in Seq(Byte)
                          /\ Held(after[n]) = Promise!Newest(h \o f[n])
               Bad == {n \in 1 .. L : ~Good(n)}
    <2>3. Good(1)
      <3>1. 1 \in 1 .. L /\ 1 \in 0 .. L /\ 0 \in 0 .. L /\ 1 - 1 = 0
        BY <1>1, <1>6
      <3>2. after[0] = p /\ after[1] = write(p, blocks[1])
        BY <1>3, <3>1
      <3>3. f[1] = blocks[1] /\ blocks[1] \in Seq(Byte) /\ ~Overruns(p, blocks[1])
        BY <1>1, <1>4, <2>2, <3>1, <3>2
      <3> QED  BY <3>2, <3>3, WriteKeeps DEF h
    <2>4. ASSUME NEW n \in 1 .. L, n # 1, Good(n - 1) PROVE Good(n)
      <3>1. n \in 0 .. L /\ n # 0 /\ n - 1 \in 1 .. L
        BY <1>1, <2>4
      <3>2. after[n] = write(after[n - 1], blocks[n]) /\ f[n] = f[n - 1] \o blocks[n]
        BY <1>3, <2>2, <2>4, <3>1
      <3>3. blocks[n] \in Seq(Byte) /\ ~Overruns(after[n - 1], blocks[n])
        BY <1>1, <1>4
      <3> DEFINE q == after[n - 1]
                 b == blocks[n]
                 a == f[n - 1]
      <3>4. PipeOK(q) /\ a \in Seq(Byte) /\ Held(q) = Promise!Newest(h \o a) /\ b \in Seq(Byte) /\ ~Overruns(q, b)
        BY <2>4, <3>3
      <3> HIDE DEF q, b, a
      <3>5. PipeOK(write(q, b)) /\ Held(write(q, b)) = Promise!Newest(Promise!Newest(h \o a) \o b)
        BY <3>4, WriteKeeps
      <3>6. h \o a \in Seq(Byte) /\ a \o b \in Seq(Byte) /\ (h \o a) \o b = h \o (a \o b)
        BY <1>2, <3>4, ConcatProperties, ConcatAssociative
      <3>7. Promise!Newest(Promise!Newest(h \o a) \o b) = Promise!Newest((h \o a) \o b)
        BY <3>4, <3>6, NewestNewest
      <3>8. Held(write(q, b)) = Promise!Newest(h \o (a \o b))
        BY <3>5, <3>6, <3>7
      <3>9. after[n] = write(q, b) /\ f[n] = a \o b
        BY <3>2 DEF q, a, b
      <3> QED  BY <3>5, <3>6, <3>8, <3>9
    <2> HIDE DEF Good
    <2>5. Bad = {}
      <3>1. SUFFICES ASSUME Bad # {} PROVE FALSE
        OBVIOUS
      <3>2. Bad \subseteq Nat
        BY <1>1
      <3>3. PICK n \in Bad : \A m \in Bad : n <= m
        BY <3>1, <3>2, LeastExists
      <3>4. n \in 1 .. L /\ ~Good(n) /\ n # 1
        BY <2>3, <3>3
      <3>5. n - 1 \in 1 .. L /\ n - 1 \notin Bad
        BY <1>1, <3>3, <3>4
      <3> QED  BY <2>4, <3>4, <3>5
    <2>6. Good(L)
      <3>1. L \in 1 .. L
        BY <1>1, <1>6
      <3> QED  BY <2>5, <3>1
    <2> QED  BY <2>1, <2>6 DEF Good, Promise!Put, L, h, after
  <1> QED  BY <1>5, <1>6

----------------------------------------------------------------------------
\* How many whole blocks there are in so many bytes.
LEMMA WholeBlocks ==
    ASSUME NEW c \in Nat, NEW size \in Nat \ {0}
    PROVE  /\ c \div size \in Nat
           /\ (c \div size) * size <= c
           /\ ((c \div size) + 1) * size > c
           /\ \A m \in Nat : m * size \in Nat /\ (m + 1) * size = m * size + size
           /\ \A m, n \in Nat : m <= n => m * size <= n * size
PROOF
  <1>1. c \div size \in Nat
    OBVIOUS
  <1>2. c = size * (c \div size) + (c % size) /\ c % size \in 0 .. (size - 1)
    OBVIOUS
  <1>3. \A m \in Nat : m * size \in Nat /\ (m + 1) * size = m * size + size /\ m * size = size * m
    OBVIOUS
  <1>4. \A m, n \in Nat : m <= n => m * size <= n * size
    OBVIOUS
  <1> DEFINE d == c \div size
             k == c % size
             T == d * size
             U == (d + 1) * size
  <1>5. d \in Nat /\ k \in 0 .. (size - 1) /\ c = T + k /\ U = T + size /\ T \in Nat
    BY <1>1, <1>2, <1>3
  <1> HIDE DEF d, k, T, U
  <1>6. T <= c /\ U > c
    BY <1>5
  <1> QED  BY <1>1, <1>3, <1>4, <1>6 DEF T, U, d

\* The part of the reader's buffer that no read fills.
Blank(k) == [i \in 1 .. k |-> Untouched]

\* What may be in the reader's buffer.
Bytes == Byte \cup {Untouched}

\* Two of them in a row are one.
LEMMA BlankIs ==
    ASSUME NEW j \in Nat, NEW k \in Nat
    PROVE  /\ Blank(j) \in Seq(Bytes) /\ Len(Blank(j)) = j
           /\ Blank(j) \o Blank(k) = Blank(j + k)
PROOF
  <1>1. \A n \in Nat : /\ Blank(n) \in Seq(Bytes) /\ Len(Blank(n)) = n
                       /\ \A i \in 1 .. n : Blank(n)[i] = Untouched
    BY DEF Blank, Bytes
  <1>2. /\ Blank(j) \o Blank(k) \in Seq(Bytes) /\ Len(Blank(j) \o Blank(k)) = j + k
        /\ \A i \in 1 .. (j + k) : (Blank(j) \o Blank(k))[i] =
                                      IF i <= j THEN Blank(j)[i] ELSE Blank(k)[i - j]
    <2> DEFINE u == Blank(j)
               v == Blank(k)
    <2>1. u \in Seq(Bytes) /\ v \in Seq(Bytes) /\ Len(u) = j /\ Len(v) = k
      BY <1>1
    <2> HIDE DEF u, v
    <2>2. /\ u \o v \in Seq(Bytes) /\ Len(u \o v) = j + k
          /\ \A i \in 1 .. (j + k) : (u \o v)[i] = IF i <= j THEN u[i] ELSE v[i - j]
      BY <2>1, ConcatProperties
    <2> QED  BY <2>2 DEF u, v
  <1>3. ASSUME NEW i \in 1 .. (j + k) PROVE (Blank(j) \o Blank(k))[i] = Untouched
    <2>1. i <= j => i \in 1 .. j
      OBVIOUS
    <2>2. ~ (i <= j) => i - j \in 1 .. k
      OBVIOUS
    <2> QED  BY <1>1, <1>2, <2>1, <2>2
  <1>4. j + k \in Nat
    OBVIOUS
  <1>5. Blank(j) \o Blank(k) = Blank(j + k)
    BY <1>1, <1>2, <1>3, <1>4, SeqEqual
  <1> QED  BY <1>1, <1>5

\* The front of a queue and what is behind it.
LEMMA FrontAndRest ==
    ASSUME NEW h \in Seq(Byte), NEW t \in Nat, t <= Len(h)
    PROVE  /\ SubSeq(h, 1, t) \in Seq(Byte) /\ Len(SubSeq(h, 1, t)) = t
           /\ SubSeq(h, t + 1, Len(h)) \in Seq(Byte) /\ Len(SubSeq(h, t + 1, Len(h))) = Len(h) - t
           /\ \A size \in 1 .. (Len(h) - t) :
                 /\ SubSeq(h, 1, t) \o SubSeq(SubSeq(h, t + 1, Len(h)), 1, size) = SubSeq(h, 1, t + size)
                 /\ SubSeq(SubSeq(h, t + 1, Len(h)), size + 1, Len(h) - t)
                        = SubSeq(h, t + size + 1, Len(h))
PROOF
  <1> DEFINE c == Len(h)
             rest == SubSeq(h, t + 1, c)
  <1>1. c \in Nat /\ \A i \in 1 .. c : h[i] \in Byte
    BY LenProperties, ElementOfSeq
  <1>2. t <= c
    OBVIOUS
  <1> HIDE DEF c
  <1>3. SubSeq(h, 1, t) \in Seq(Byte) /\ Len(SubSeq(h, 1, t)) = t
    <2>1. \A i \in 1 .. t : h[i] \in Byte
      BY <1>1, <1>2
    <2>2. /\ SubSeq(h, 1, t) \in Seq(Byte)
          /\ Len(SubSeq(h, 1, t)) = IF 1 <= t THEN t - 1 + 1 ELSE 0
      BY <2>1, SubSeqProperties
    <2> QED  BY <2>2
  <1>4. rest \in Seq(Byte) /\ Len(rest) = c - t
    <2>1. \A i \in (t + 1) .. c : h[i] \in Byte
      BY <1>1
    <2>2. /\ rest \in Seq(Byte)
          /\ Len(rest) = IF t + 1 <= c THEN c - (t + 1) + 1 ELSE 0
      BY <1>1, <2>1, SubSeqProperties
    <2> QED  BY <1>1, <1>2, <2>2
  <1>5. ASSUME NEW size \in 1 .. (c - t)
        PROVE  /\ SubSeq(h, 1, t) \o SubSeq(rest, 1, size) = SubSeq(h, 1, t + size)
               /\ SubSeq(rest, size + 1, c - t) = SubSeq(h, t + size + 1, c)
    <2>1. /\ t + 1 \in 1 .. c /\ c \in 1 .. c /\ 1 \in 1 .. (c - (t + 1) + 1)
          /\ size \in 1 .. (c - (t + 1) + 1)
      BY <1>1, <1>2
    <2>2. SubSeq(rest, 1, size) = SubSeq(h, t + 1, t + size)
      <3>1. SubSeq(rest, 1, size) = SubSeq(h, t + 1 + 1 - 1, t + 1 + size - 1)
        BY <2>1, SubSeqOfSubSeq DEF c
      <3>2. t + 1 + 1 - 1 = t + 1 /\ t + 1 + size - 1 = t + size
        OBVIOUS
      <3> QED  BY <3>1, <3>2
    <2>3. SubSeq(h, 1, t) \o SubSeq(h, t + 1, t + size) = SubSeq(h, 1, t + size)
      <3>1. 1 \in 1 .. (c + 1) /\ t \in (1 - 1) .. c /\ t + size \in t .. c
        BY <1>1, <1>2
      <3> QED  BY <3>1, ConcatAdjacentSubSeq DEF c
    <2>4. SubSeq(rest, size + 1, c - t) = SubSeq(h, t + size + 1, c)
      <3>1. CASE size = c - t
        <4>1. c - t < size + 1 /\ c < t + size + 1 /\ size + 1 \in Int /\ c - t \in Int
              /\ t + size + 1 \in Int
          BY <1>1, <3>1
        <4>2. SubSeq(rest, size + 1, c - t) = << >>
          BY <4>1, SubSeqEmpty
        <4>3. SubSeq(h, t + size + 1, c) = << >>
          BY <1>1, <4>1, SubSeqEmpty
        <4> QED  BY <4>2, <4>3
      <3>2. CASE size # c - t
        <4>1. size + 1 \in 1 .. (c - (t + 1) + 1) /\ c - t \in 1 .. (c - (t + 1) + 1)
          BY <1>1, <1>2, <3>2
        <4>2. SubSeq(rest, size + 1, c - t) = SubSeq(h, t + 1 + (size + 1) - 1, t + 1 + (c - t) - 1)
          BY <2>1, <4>1, SubSeqOfSubSeq DEF c
        <4>3. t + 1 + (size + 1) - 1 = t + size + 1 /\ t + 1 + (c - t) - 1 = c
          BY <1>1
        <4> QED  BY <4>2, <4>3
      <3> QED  BY <3>1, <3>2
    <2> QED  BY <2>2, <2>3, <2>4
  <1> QED  BY <1>3, <1>4, <1>5 DEF c

\* A whole call of PipeFS::read, of any number of blocks.
LEMMA ReadsKeep ==
    ASSUME NEW p, PipeOK(p), NEW r \in [size : Nat \ {0}, nmemb : Nat]
    PROVE  LET available == Len(Held(p)) \div r.size
               blocks == IF available < r.nmemb THEN available ELSE r.nmemb
               taken == blocks * r.size
               last == ReadIn(p, r)[r.nmemb]
           IN  /\ PipeOK(last.pipe)
               /\ last.bytes = SubSeq(Held(p), 1, taken) \o Blank(r.nmemb * r.size - taken)
               /\ Held(last.pipe) = SubSeq(Held(p), taken + 1, Len(Held(p)))
PROOF
  <1> DEFINE h == Held(p)
             c == Len(h)
             L == r.nmemb
             size == r.size
             after == ReadIn(p, r)
             available == c \div size
             T(k) == k * size
             m(n) == IF n <= available THEN n ELSE available
  <1>1. h \in Seq(Byte) /\ c \in Nat /\ h \in Seq(Bytes)
    BY HeldIs, LenProperties, SeqMonotonic DEF Bytes
  <1>2. L \in Nat /\ size \in Nat \ {0}
    OBVIOUS
  <1>3. /\ available \in Nat
        /\ T(available) <= c
        /\ T(available + 1) > c
        /\ \A k \in Nat : T(k) \in Nat /\ T(k + 1) = T(k) + size
        /\ \A k, n \in Nat : k <= n => T(k) <= T(n)
    BY <1>1, <1>2, WholeBlocks
  <1>4. \A n \in 0 .. L : after[n] = IF n = 0 THEN [pipe |-> p, bytes |-> << >>]
                                     ELSE ReadMore(after[n - 1], size)
    <2>1. IsReadIn(after, p, r, L)
      BY <1>2, ReadInIs
    <2> HIDE DEF after
    <2> QED  BY <2>1 DEF IsReadIn
  <1>assoc. \A x, y, z \in Seq(Bytes) : (x \o y) \o z = x \o (y \o z)
    <2> SUFFICES ASSUME NEW x \in Seq(Bytes), NEW y \in Seq(Bytes), NEW z \in Seq(Bytes)
                 PROVE  (x \o y) \o z = x \o (y \o z)
      OBVIOUS
    <2> HIDE DEF Bytes
    <2> QED  BY ONLY ConcatAssociative
  <1>5. T(0) = 0
    BY <1>2
  <1> HIDE DEF h, c, L, size, after, T, available
  <1>6. \A n \in Nat : /\ n <= available => m(n) = n
                       /\ n >= available => m(n) = available
                       /\ m(n) \in Nat /\ m(n) <= available /\ m(n) <= n
    <2>1. available \in Nat
      BY <1>3
    <2> QED  BY <2>1
  <1>least. m(L) = IF available < L THEN available ELSE L
    BY <1>2, <1>3
  <1> HIDE DEF m
  <1>7. \A n \in Nat : /\ T(m(n)) \in Nat /\ T(m(n)) <= c
                       /\ T(n) \in Nat /\ T(n) - T(m(n)) \in Nat
    <2>1. ASSUME NEW n \in Nat
          PROVE  /\ T(m(n)) <= T(available) /\ T(m(n)) <= T(n)
                 /\ T(m(n)) \in Nat /\ T(n) \in Nat /\ T(available) \in Nat
      BY <1>3, <1>6
    <2>2. ASSUME NEW n \in Nat PROVE T(m(n)) <= c /\ T(n) - T(m(n)) \in Nat
      <3> DEFINE a == T(n)
                 b == T(m(n))
                 d == T(available)
      <3>1. a \in Nat /\ b \in Nat /\ d \in Nat /\ b <= d /\ b <= a /\ d <= c
        BY <1>3, <2>1
      <3> HIDE DEF a, b, d
      <3>2. b <= c /\ a - b \in Nat
        BY <1>1, <3>1
      <3> QED  BY <3>2 DEF a, b
    <2> QED  BY <2>1, <2>2
  <1> DEFINE Good(n) == /\ PipeOK(after[n].pipe)
                        /\ Held(after[n].pipe) = SubSeq(h, T(m(n)) + 1, c)
                        /\ after[n].bytes = SubSeq(h, 1, T(m(n))) \o Blank(T(n) - T(m(n)))
             Bad == {n \in 0 .. L : ~Good(n)}
  <1>8. Good(0)
    <2>0. 0 \in 0 .. L /\ m(0) = 0
      BY <1>2, <1>3, <1>6
    <2>1. after[0] = [pipe |-> p, bytes |-> << >>] /\ m(0) = 0 /\ T(m(0)) = 0 /\ T(0) - T(m(0)) = 0 /\ T(m(0)) + 1 = 1
      BY <1>4, <1>5, <2>0
    <2>2. SubSeq(h, 1, c) = h
      BY <1>1, SubSeqFull DEF c
    <2>3. SubSeq(h, 1, 0) = << >>
      BY SubSeqEmpty
    <2>4. Blank(0) = << >>
      <3>1. Blank(0) \in Seq(Bytes) /\ Len(Blank(0)) = 0
        BY BlankIs
      <3> QED  BY <3>1, EmptySeq
    <2>5. << >> \o << >> = << >>
      BY EmptySeq, ConcatEmptySeq
    <2>6. after[0].pipe = p /\ after[0].bytes = << >>
      BY <2>1
    <2>7. SubSeq(h, T(m(0)) + 1, c) = h /\ SubSeq(h, 1, T(m(0))) = << >> /\ Blank(T(0) - T(m(0))) = << >>
      BY <2>1, <2>2, <2>3, <2>4
    <2> QED  BY <2>5, <2>6, <2>7 DEF h
  <1>9. ASSUME NEW n \in 1 .. L, Good(n - 1) PROVE Good(n)
    <2> DEFINE k == n - 1
               t == T(m(k))
               q == after[k].pipe
               one == read(q, size)
    <2>1. k \in Nat /\ n \in Nat /\ n = k + 1 /\ n \in 0 .. L /\ n # 0 /\ n - 1 = k
      BY <1>2
    <2>2. after[n].pipe = one.pipe /\ after[n].bytes = after[k].bytes \o one.bytes
      <3>1. after[n] = ReadMore(after[k], size)
        BY <1>4, <2>1
      <3> DEFINE b == after[k].bytes \o one.bytes
      <3>2. after[n] = [pipe |-> one.pipe, bytes |-> b]
        BY <3>1 DEF ReadMore
      <3> HIDE DEF k, one, b
      <3>3. after[n].pipe = one.pipe /\ after[n].bytes = b
        BY <3>2
      <3> QED  BY <3>3 DEF b
    <2>3. /\ PipeOK(q) /\ Held(q) = SubSeq(h, t + 1, c)
          /\ after[k].bytes = SubSeq(h, 1, t) \o Blank(T(k) - t)
      BY <1>9
    <2>4. t \in Nat /\ t <= c /\ T(k) \in Nat /\ T(k) - t \in Nat /\ T(n) = T(k) + size
      BY <1>3, <1>7, <2>1
    <2>5. /\ SubSeq(h, 1, t) \in Seq(Byte) /\ Len(SubSeq(h, 1, t)) = t
          /\ SubSeq(h, t + 1, c) \in Seq(Byte) /\ Len(SubSeq(h, t + 1, c)) = c - t
          /\ \A s \in 1 .. (c - t) :
                /\ SubSeq(h, 1, t) \o SubSeq(SubSeq(h, t + 1, c), 1, s) = SubSeq(h, 1, t + s)
                /\ SubSeq(SubSeq(h, t + 1, c), s + 1, c - t) = SubSeq(h, t + s + 1, c)
      <3> HIDE DEF t
      <3> QED  BY <1>1, <2>4, FrontAndRest DEF c
    <2>6. q.count = c - t
      BY <2>3, <2>5, HeldIs
    <2>7. /\ PipeOK(one.pipe)
          /\ size > q.count => one.pipe = q /\ one.bytes = Blank(size)
          /\ size <= q.count => /\ one.bytes = SubSeq(Held(q), 1, size)
                                /\ Held(one.pipe) = SubSeq(Held(q), size + 1, q.count)
      <3> HIDE DEF q
      <3> QED  BY <1>2, <2>3, ReadKeeps DEF Blank
    <2>8. CASE k < available
      <3>1. m(k) = k /\ m(n) = n /\ t = T(k) /\ T(m(n)) = t + size
        <4>1. k <= available /\ n <= available
          BY <1>3, <2>1, <2>8
        <4> QED  BY <1>6, <2>1, <2>4, <4>1
      <3>2. t + size <= c
        BY <1>7, <2>1, <3>1
      <3>3. size \in 1 .. (c - t) /\ size <= q.count
        BY <1>1, <1>2, <2>4, <2>6, <3>2
      <3> HIDE DEF one, q, t, k
      <3>4. T(k) - t = 0 /\ T(n) - T(m(n)) = 0
        BY <1>2, <2>4, <3>1
      <3>5. Blank(0) = << >>
        <4>1. Blank(0) \in Seq(Bytes) /\ Len(Blank(0)) = 0
          BY BlankIs
        <4> QED  BY <4>1, EmptySeq
      <3>6. after[k].bytes = SubSeq(h, 1, t)
        BY <2>3, <2>5, <3>4, <3>5, ConcatEmptySeq
      <3>7. one.bytes = SubSeq(SubSeq(h, t + 1, c), 1, size)
        BY <2>3, <2>7, <3>3
      <3>8. after[n].bytes = SubSeq(h, 1, t + size)
        BY <2>2, <2>5, <3>3, <3>6, <3>7
      <3>9. Held(one.pipe) = SubSeq(h, t + size + 1, c)
        BY <2>3, <2>5, <2>6, <2>7, <3>3
      <3>10. SubSeq(h, 1, t + size) \o << >> = SubSeq(h, 1, t + size)
        <4>1. SubSeq(h, 1, t + size) \in Seq(Byte)
          BY <1>1, <1>2, <2>4, <3>2, FrontAndRest DEF c
        <4> QED  BY <4>1, ConcatEmptySeq
      <3> QED  BY <2>2, <2>7, <3>1, <3>4, <3>5, <3>8, <3>9, <3>10
    <2>9. CASE ~ (k < available)
      <3>1. m(k) = available /\ m(n) = available /\ T(m(n)) = t
        <4>1. k >= available /\ n >= available
          BY <1>3, <2>1, <2>9
        <4> QED  BY <1>6, <2>1, <4>1
      <3>2. T(available + 1) = t + size /\ t + size > c
        BY <1>3, <3>1
      <3>3. size > q.count
        BY <1>1, <1>2, <2>4, <2>6, <3>2
      <3> HIDE DEF one, q, t, k
      <3>4. one.pipe = q /\ one.bytes = Blank(size)
        BY <2>7, <3>3
      <3>5. after[n].bytes = (SubSeq(h, 1, t) \o Blank(T(k) - t)) \o Blank(size)
        BY <2>2, <2>3, <3>4
      <3>6. /\ Blank(T(k) - t) \in Seq(Bytes) /\ Blank(size) \in Seq(Bytes)
            /\ Blank(T(k) - t) \o Blank(size) = Blank((T(k) - t) + size)
        BY <1>2, <2>4, BlankIs
      <3>7. SubSeq(h, 1, t) \in Seq(Bytes)
        BY <2>5, SeqMonotonic DEF Bytes
      <3>8. after[n].bytes = SubSeq(h, 1, t) \o (Blank(T(k) - t) \o Blank(size))
        <4> DEFINE x == SubSeq(h, 1, t)
                   y == Blank(T(k) - t)
                   z == Blank(size)
        <4>1. x \in Seq(Bytes) /\ y \in Seq(Bytes) /\ z \in Seq(Bytes) /\ after[n].bytes = (x \o y) \o z
          BY <3>5, <3>6, <3>7
        <4> HIDE DEF x, y, z
        <4>2. (x \o y) \o z = x \o (y \o z)
          BY <1>assoc, <4>1
        <4>3. after[n].bytes = x \o (y \o z)
          BY <4>1, <4>2
        <4> QED  BY <4>3 DEF x, y, z
      <3>9. (T(k) - t) + size = T(n) - t
        BY <1>2, <2>4
      <3> QED  BY <2>2, <2>3, <2>7, <3>1, <3>4, <3>6, <3>8, <3>9
    <2> QED  BY <2>8, <2>9
  <1> HIDE DEF Good
  <1>10. Bad = {}
    <2>1. SUFFICES ASSUME Bad # {} PROVE FALSE
      OBVIOUS
    <2>2. Bad \subseteq Nat
      BY <1>2
    <2>3. PICK n \in Bad : \A k \in Bad : n <= k
      BY <2>1, <2>2, LeastExists
    <2>4. n \in 0 .. L /\ ~Good(n) /\ n # 0
      BY <1>8, <2>3
    <2>5. n \in 1 .. L /\ n - 1 \in 0 .. L /\ n - 1 \notin Bad
      BY <1>2, <2>3, <2>4
    <2> QED  BY <1>9, <2>4, <2>5
  <1>11. Good(L)
    <2>1. L \in 0 .. L
      BY <1>2
    <2> QED  BY <1>10, <2>1
  <1> QED  BY <1>least, <1>11 DEF Good, h, c, L, after, size, available, T

----------------------------------------------------------------------------
\* The refinement mapping is what the object holds.
LEMMA ContentsIsHeld == Contents = Held(pipe)
PROOF
  BY DEF Contents, Held, N

\* The constructor makes an empty ring.
LEMMA InitInv == PipeFSInit => IInv
PROOF
  <1> SUFFICES ASSUME PipeFSInit PROVE IInv
    OBVIOUS
  <1>1. PICK zero \in Byte :
            pipe = [buffer |-> [i \in Index |-> zero], read |-> 0, write |-> 0, count |-> 0]
    BY DEF PipeFSInit
  <1>2. N \in Nat \ {0} /\ 0 \in Index
    BY PipeAssumption DEF N, Index
  <1> QED  BY <1>1, <1>2 DEF IInv, PipeOK, Fields, Ring

\* A write keeps the ring and is a write of the queue.
LEMMA WriteStep ==
    ASSUME IInv, NEW blocks \in Messages, pipe_write(blocks)
    PROVE  IInv' /\ Promise!Write(blocks)
PROOF
  <1>1. blocks \in Seq(Seq(Byte)) /\ Len(blocks) \in Nat
    BY PipeAssumption, LenProperties
  <1>2. /\ \A i \in DOMAIN blocks : ~Overruns(Written(pipe, blocks)[i - 1], blocks[i])
        /\ pipe' = Written(pipe, blocks)[Len(blocks)]
        /\ in' = blocks /\ out' = << >>
    BY DEF pipe_write
  <1>3. PICK p : p = pipe
    OBVIOUS
  <1>4. /\ PipeOK(pipe') /\ Held(pipe') = Promise!Put(Held(p), blocks)
    <2>1. /\ PipeOK(p)
          /\ \A i \in DOMAIN blocks : ~Overruns(Written(p, blocks)[i - 1], blocks[i])
          /\ pipe' = Written(p, blocks)[Len(blocks)]
      BY <1>2, <1>3 DEF IInv
    <2> QED  BY <1>1, <2>1, WritesKeep, Zenon
  <1>5. Contents = Held(p) /\ Contents' = Held(pipe')
    BY <1>3, ContentsIsHeld DEF Contents, Held, N
  <1> QED  BY <1>2, <1>4, <1>5 DEF IInv, Promise!Write

\* A read keeps the ring and is a read of the queue.
LEMMA ReadStep ==
    ASSUME IInv, NEW r \in Reads, pipe_read(r)
    PROVE  IInv' /\ Promise!Read(r)
PROOF
  <1>1. r \in [size : Nat \ {0}, nmemb : Nat]
    BY PipeAssumption
  <1>2. /\ pipe' = ReadIn(pipe, r)[r.nmemb].pipe
        /\ out' = ReadIn(pipe, r)[r.nmemb].bytes
        /\ in' = << >>
    BY Zenon DEF pipe_read
  <1>3. PICK p : p = pipe
    OBVIOUS
  <1> DEFINE available == Len(Held(p)) \div r.size
             blocks == IF available < r.nmemb THEN available ELSE r.nmemb
             taken == blocks * r.size
  <1>4. /\ PipeOK(pipe')
        /\ out' = SubSeq(Held(p), 1, taken) \o Blank(r.nmemb * r.size - taken)
        /\ Held(pipe') = SubSeq(Held(p), taken + 1, Len(Held(p)))
    BY <1>1, <1>2, <1>3, ReadsKeep, Zenon DEF IInv
  <1>5. Contents = Held(p) /\ Contents' = Held(pipe')
    BY <1>3, ContentsIsHeld DEF Contents, Held, N
  <1> QED  BY <1>2, <1>4, <1>5, Zenon DEF IInv, Promise!Read, Blank

\* Every step keeps the ring and is a step of the queue, or changes neither.
LEMMA StepRefines ==
    IInv /\ [PipeFSNext]_pipefs_vars => IInv' /\ [Promise!Next]_<<Contents, in, out>>
PROOF
  <1> SUFFICES ASSUME IInv, [PipeFSNext]_pipefs_vars
               PROVE  IInv' /\ [Promise!Next]_<<Contents, in, out>>
    OBVIOUS
  <1>1. CASE PipeFSNext
    <2>1. CASE \E blocks \in Messages : pipe_write(blocks)
      BY <2>1, WriteStep DEF Promise!Next
    <2>2. CASE \E r \in Reads : pipe_read(r)
      BY <2>2, ReadStep DEF Promise!Next
    <2> QED  BY <1>1, <2>1, <2>2 DEF PipeFSNext
  <1>2. CASE UNCHANGED pipefs_vars
    BY <1>2 DEF pipefs_vars, IInv, Contents
  <1> QED  BY <1>1, <1>2

\* The indexes and the count of a pipe always fit together: PipeFS::read and
\* PipeFS::write leave the buffer between them a ring.
THEOREM PipeFSInductive == PipeFSSpec => []IInv
PROOF
  <1> QED  BY InitInv, StepRefines, PTL DEF PipeFSSpec

\* PipeFS keeps the promise of Fifo, for every size of its buffer: whatever the
\* blocks of the writes and the reads, what is read are the newest bytes not
\* read yet, in the order of the writes, and whole blocks only.
THEOREM PipeFSImplementsFifo == PipeFSSpec => ImplementsFifo
PROOF
  <1>1. PipeFSInit => Promise!Init
    <2> SUFFICES ASSUME PipeFSInit PROVE Promise!Init
      OBVIOUS
    <2>1. in = << >> /\ out = << >> /\ pipe.count = 0
      BY DEF PipeFSInit
    <2>2. Held(pipe) \in Seq(Byte) /\ Len(Held(pipe)) = 0
      BY <2>1, InitInv, HeldIs DEF IInv
    <2>3. Held(pipe) = << >>
      BY <2>2, EmptySeq
    <2> QED  BY <2>1, <2>3, ContentsIsHeld DEF Promise!Init
  <1> QED  BY <1>1, InitInv, StepRefines, PTL DEF PipeFSSpec, ImplementsFifo, Promise!Spec
=============================================================================
