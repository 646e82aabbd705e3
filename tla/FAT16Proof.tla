------------------------------ MODULE FAT16Proof ------------------------------
(***************************************************************************)
(* Proofs about reading a FAT16 file, for every partition: the cluster     *)
(* that a descriptor caches is the one at the offset cached with it, a     *)
(* read inside the clusters of the file never trips the assertion of the   *)
(* walk, and blocks that do not straddle a cluster are read byte for byte. *)
(***************************************************************************)
EXTENDS FAT16, TLAPS

cs == size_of_cluster_bytes

Phase == {"cluster", "walk", "sector", "hung"}

TypeOK ==
    /\ desc \in [Descriptor -> FatDescriptor \cup {Closed}]
    /\ pc \in {"idle"} \cup Phase \cup Ended
    /\ fd \in Descriptor
    /\ nmemb \in Nat /\ size \in Nat /\ offset \in Nat /\ total \in Nat
    /\ cluster \in Nat /\ current_pos \in Nat
    /\ stream \in [pos : Int, total : Nat]
    /\ output \in Seq(Int)

\* Nobody gets anywhere in a file without clusters: its size refuses every seek.
EmptyAtStart ==
    \A d \in Open : ClustersOf(d) = << >> => desc[d].pos = 0

\* What the descriptor, the place and the block under way have to do with each
\* other, between the start of a read and its end.
BlockInv ==
    pc \in Phase =>
        /\ fd \in Open
        /\ ClustersOf(fd) = << >> => offset = 0 /\ pc # "sector"
        /\ size > 0 /\ total <= size /\ size - total <= offset
        /\ pc # "cluster" => total > 0
        /\ total > 0 /\ Start % cs = 0 => offset % cs = 0
        /\ total > 0 /\ size <= cs => total = size

\* Where the walk is: at entry current_pos of the chain, not past its target.
WalkInv ==
    pc = "walk" =>
        /\ current_pos <= target_cluster
        /\ IF ClustersOf(fd) = << >> THEN cluster = 0
           ELSE current_pos + 1 \in DOMAIN ClustersOf(fd) /\ cluster = ClustersOf(fd)[current_pos + 1]

\* How many bytes of the cluster are read.
Copied == total_to_read - stream.total

\* Where the stream is: as many bytes behind the place of the read as it copied.
StreamInv ==
    /\ pc \in {"sector", "hung"} =>
        /\ target_cluster + 1 \in DOMAIN ClustersOf(fd)
        /\ stream.total <= total_to_read
        /\ stream.pos = StartOf(ClustersOf(fd)[target_cluster + 1]) + (offset % cs) + Copied
        /\ Len(output) = size - total + Copied
    /\ pc \in {"cluster", "walk"} => Len(output) = size - total

IInv ==
    /\ TypeOK
    /\ CacheCoherent
    /\ PanicsPastEndOnly
    /\ EmptyAtStart
    /\ BlockInv
    /\ WalkInv
    /\ StreamInv
    /\ AlignedReads

----------------------------------------------------------------------------
\* Arithmetic.

LEMMA SizeFacts == cs \in Nat \ {0} /\ DISK_SECTOR_SIZE \in Nat \ {0} /\ DataStart \in Nat
PROOF
  BY FAT16Assumption DEF cs, size_of_cluster_bytes

LEMMA Divided ==
    ASSUME NEW o \in Nat
    PROVE  o = cs * (o \div cs) + (o % cs) /\ o \div cs \in Nat /\ o % cs \in 0 .. (cs - 1)
PROOF
  BY SizeFacts

LEMMA Multiple ==
    ASSUME NEW m \in Nat PROVE (m * cs) \div cs = m /\ m * cs \in Nat
PROOF
  BY SizeFacts

\* A few bytes further, in the same cluster.
LEMMA SameCluster ==
    ASSUME NEW o \in Nat, NEW k \in Nat, (o % cs) + k < cs
    PROVE  (o + k) \div cs = o \div cs /\ (o + k) % cs = (o % cs) + k
PROOF
  BY SizeFacts

\* A cluster further.
LEMMA NextCluster ==
    ASSUME NEW o \in Nat PROVE (o + cs) % cs = o % cs
PROOF
  <1>1. /\ cs \in Nat \ {0} /\ o \div cs \in Nat /\ o % cs \in 0 .. (cs - 1)
        /\ o = cs * (o \div cs) + (o % cs)
    BY SizeFacts, Divided
  <1> DEFINE q == o \div cs
             r == o % cs
  <1> HIDE DEF q, r
  <1>2. cs \in Nat \ {0} /\ q \in Nat /\ r \in 0 .. (cs - 1) /\ o = cs * q + r
    BY <1>1 DEF q, r
  <1>3. o + cs = cs * (q + 1) + r
    BY <1>2
  <1>4. (cs * (q + 1) + r) % cs = r
    BY <1>2
  <1> QED  BY <1>3, <1>4 DEF r

\* An offset in a cluster from number n on is not in front of it.
LEMMA FarOffset ==
    ASSUME NEW o \in Nat, NEW n \in Nat, o \div cs >= n PROVE o >= n * cs
PROOF
  BY SizeFacts

----------------------------------------------------------------------------
\* Descriptors and chains.

LEMMA ChainFacts ==
    ASSUME NEW f \in File
    PROVE  /\ Clusters[f] \in Seq(Nat \ {0}) /\ Len(Clusters[f]) \in Nat
           /\ DOMAIN Clusters[f] = 1 .. Len(Clusters[f])
           /\ \A i \in DOMAIN Clusters[f] : Clusters[f][i] \in Nat \ {0}
           /\ \A i, j \in DOMAIN Clusters[f] : Clusters[f][i] = Clusters[f][j] => i = j
           /\ Clusters[f] = << >> <=> Len(Clusters[f]) = 0
           /\ Clusters[f] = << >> => filesize[f] = 0
PROOF
  <1>1. Clusters[f] \in Seq(Nat \ {0}) /\ filesize[f] \in Nat
        /\ filesize[f] <= Len(Clusters[f]) * size_of_cluster_bytes
        /\ \A i, j \in DOMAIN Clusters[f] : Clusters[f][i] = Clusters[f][j] => i = j
    BY FAT16Assumption
  <1>2. /\ Len(Clusters[f]) \in Nat /\ DOMAIN Clusters[f] = 1 .. Len(Clusters[f])
        /\ \A i \in DOMAIN Clusters[f] : Clusters[f][i] \in Nat \ {0}
        /\ Clusters[f] = << >> <=> Len(Clusters[f]) = 0
    BY <1>1
  <1>3. Clusters[f] = << >> => filesize[f] = 0
    <2> SUFFICES ASSUME Len(Clusters[f]) = 0 PROVE filesize[f] = 0
      BY <1>2
    <2>1. 0 * cs = 0
      BY SizeFacts
    <2> QED  BY <1>1, <2>1 DEF cs
  <1> QED  BY <1>1, <1>2, <1>3

\* What the two invariants of descriptors say of one, by its value.
Coherent(v) ==
    v.cached_cluster # 0 =>
        LET n == v.cached_offset_bytes \div cs
        IN  /\ v.cached_offset_bytes = n * cs
            /\ n + 1 \in DOMAIN Clusters[v.file]
            /\ v.cached_cluster = Clusters[v.file][n + 1]
AtStart(v) == Clusters[v.file] = << >> => v.pos = 0
GoodDescriptor(v) == Coherent(v) /\ AtStart(v)

LEMMA DescriptorForm ==
    (CacheCoherent /\ EmptyAtStart) <=>
        \A d \in Descriptor : desc[d] # Closed => GoodDescriptor(desc[d])
PROOF
  BY DEF CacheCoherent, EmptyAtStart, Open, ClustersOf, Coherent, AtStart, GoodDescriptor, cs

LEMMA DescriptorFormPrimed ==
    (CacheCoherent' /\ EmptyAtStart') <=>
        \A d \in Descriptor : desc'[d] # Closed => GoodDescriptor(desc'[d])
PROOF
  BY DEF CacheCoherent, EmptyAtStart, Open, ClustersOf, Coherent, AtStart, GoodDescriptor, cs

LEMMA OpenFacts ==
    ASSUME TypeOK, NEW d \in Descriptor, desc[d] # Closed
    PROVE  /\ desc[d] \in FatDescriptor /\ desc[d].file \in File /\ desc[d].pos \in Nat
           /\ desc[d].cached_cluster \in Nat /\ desc[d].cached_offset_bytes \in Nat
PROOF
  BY DEF TypeOK, FatDescriptor

\* A step that leaves the descriptors alone.
LEMMA DescriptorsKept ==
    ASSUME CacheCoherent, EmptyAtStart, desc' = desc
    PROVE  CacheCoherent' /\ EmptyAtStart'
PROOF
  BY DescriptorForm, DescriptorFormPrimed

----------------------------------------------------------------------------
\* The calls.

\* Outside a read the invariants of the block under way say nothing.
LEMMA NothingUnderWay ==
    ASSUME pc' \in {"idle", "missing"}
    PROVE  PanicsPastEndOnly' /\ BlockInv' /\ WalkInv' /\ StreamInv' /\ AlignedReads'
PROOF
  BY DEF PanicsPastEndOnly, BlockInv, WalkInv, StreamInv, AlignedReads, Reading, Phase

LEMMA InitHolds == FAT16Init => IInv
PROOF
  <1> SUFFICES ASSUME FAT16Init PROVE IInv
    OBVIOUS
  <1>1. TypeOK
    BY DEF FAT16Init, TypeOK
  <1>2. CacheCoherent /\ EmptyAtStart
    BY DescriptorForm DEF FAT16Init
  <1>3. PanicsPastEndOnly /\ BlockInv /\ WalkInv /\ StreamInv /\ AlignedReads
    BY DEF FAT16Init, PanicsPastEndOnly, BlockInv, WalkInv, StreamInv, AlignedReads, Reading, Phase
  <1> QED  BY <1>1, <1>2, <1>3 DEF IInv

LEMMA OpenStep ==
    ASSUME IInv, NEW d \in Descriptor, NEW f \in File, fat16_open(d, f)
    PROVE  IInv'
PROOF
  <1> DEFINE v == [file |-> f, pos |-> 0, cached_cluster |-> 0, cached_offset_bytes |-> 0]
  <1>1. v \in FatDescriptor /\ GoodDescriptor(v)
    BY DEF FatDescriptor, GoodDescriptor, Coherent, AtStart
  <1> HIDE DEF v
  <1>2. /\ desc' = desc \/ desc' = [desc EXCEPT ![d] = v]
        /\ pc' \in {"idle", "missing"}
        /\ UNCHANGED <<call, offset, total, walking, stream, output>>
    BY DEF fat16_open, Idle, v
  <1>3. TypeOK'
    BY <1>1, <1>2 DEF IInv, TypeOK, Ended, call, walking
  <1>4. CacheCoherent' /\ EmptyAtStart'
    <2>1. \A e \in Descriptor : desc[e] # Closed => GoodDescriptor(desc[e])
      BY DescriptorForm DEF IInv
    <2>2. \A e \in Descriptor : desc'[e] # Closed => GoodDescriptor(desc'[e])
      BY <1>1, <1>2, <2>1 DEF IInv, TypeOK
    <2> QED  BY <2>2, DescriptorFormPrimed
  <1> QED  BY <1>2, <1>3, <1>4, NothingUnderWay DEF IInv

LEMMA CloseStep ==
    ASSUME IInv, NEW d \in Descriptor, fat16_close(d)
    PROVE  IInv'
PROOF
  <1>1. TypeOK'
    BY DEF fat16_close, IInv, TypeOK, call, walking
  <1>2. CacheCoherent' /\ EmptyAtStart'
    <2>1. \A e \in Descriptor : desc[e] # Closed => GoodDescriptor(desc[e])
      BY DescriptorForm DEF IInv
    <2>2. \A e \in Descriptor : desc'[e] # Closed => GoodDescriptor(desc'[e])
      BY <2>1 DEF fat16_close, IInv, TypeOK
    <2> QED  BY <2>2, DescriptorFormPrimed
  <1>3. pc' = "idle"
    BY DEF fat16_close, Idle
  <1> QED  BY <1>1, <1>2, <1>3, NothingUnderWay DEF IInv

\* A seek that is not refused leads to a place in the file; one in a file of no
\* bytes is refused.
LEMMA TargetFacts ==
    ASSUME TypeOK, NEW d \in Descriptor, desc[d] # Closed, NEW o \in Offsets,
           NEW m \in {"SEEK_SET", "SEEK_CUR", "SEEK_END"}, Target(d, o, m) # -EINVARG
    PROVE  Target(d, o, m) \in Nat /\ filesize[desc[d].file] # 0
PROOF
  <1>1. desc[d].pos \in Nat /\ filesize[desc[d].file] \in Nat /\ o \in Nat
    BY OpenFacts, FAT16Assumption
  <1>2. o < filesize[desc[d].file]
    BY <1>1 DEF Target
  <1>3. CASE m = "SEEK_SET"
    BY <1>1, <1>2, <1>3 DEF Target
  <1>4. CASE m = "SEEK_CUR"
    BY <1>1, <1>2, <1>4 DEF Target
  <1>5. CASE m = "SEEK_END"
    BY <1>1, <1>2, <1>5 DEF Target
  <1> QED  BY <1>3, <1>4, <1>5

LEMMA SeekStep ==
    ASSUME IInv, NEW d \in Descriptor, NEW o \in Offsets,
           NEW m \in {"SEEK_SET", "SEEK_CUR", "SEEK_END"}, fat16_seek(d, o, m)
    PROVE  IInv'
PROOF
  <1> DEFINE t == Target(d, o, m)
             v == [desc[d] EXCEPT !.pos = t]
  <1>1. /\ TypeOK /\ desc[d] # Closed /\ t # -EINVARG
        /\ desc' = [desc EXCEPT ![d] = v] /\ pc' = "idle"
        /\ UNCHANGED <<call, offset, total, walking, stream, output>>
    BY DEF fat16_seek, IInv, Idle
  <1>2. t \in Nat /\ Clusters[desc[d].file] # << >>
    BY <1>1, TargetFacts, OpenFacts, ChainFacts
  <1>3. /\ desc[d] \in FatDescriptor /\ v \in FatDescriptor
        /\ v.file = desc[d].file /\ v.cached_cluster = desc[d].cached_cluster
        /\ v.cached_offset_bytes = desc[d].cached_offset_bytes
    BY <1>1, <1>2, OpenFacts DEF FatDescriptor
  <1> HIDE DEF v, t
  <1>4. TypeOK'
    BY <1>1, <1>3 DEF TypeOK, call, walking
  <1>5. CacheCoherent' /\ EmptyAtStart'
    <2>1. \A e \in Descriptor : desc[e] # Closed => GoodDescriptor(desc[e])
      BY DescriptorForm DEF IInv
    <2>2. GoodDescriptor(v)
      BY <1>1, <1>2, <1>3, <2>1 DEF GoodDescriptor, Coherent, AtStart
    <2>3. \A e \in Descriptor : desc'[e] # Closed => GoodDescriptor(desc'[e])
      BY <1>1, <2>1, <2>2 DEF TypeOK
    <2> QED  BY <2>3, DescriptorFormPrimed
  <1> QED  BY <1>1, <1>4, <1>5, NothingUnderWay DEF IInv

LEMMA ReadStep ==
    ASSUME IInv, NEW d \in Descriptor, NEW s \in BlockSizes, NEW n \in Counts, fat16_read(d, s, n)
    PROVE  IInv'
PROOF
  <1>1. /\ TypeOK /\ desc[d] # Closed /\ fd' = d /\ size' = s /\ nmemb' = n - 1
        /\ offset' = desc[d].pos /\ total' = s /\ output' = << >> /\ pc' = "cluster"
        /\ UNCHANGED <<desc, walking, stream>>
    BY DEF fat16_read, IInv
  <1>2. s \in Nat \ {0} /\ n \in Nat \ {0} /\ desc[d].pos \in Nat
    BY <1>1, OpenFacts, FAT16Assumption
  <1>3. TypeOK'
    BY <1>1, <1>2 DEF TypeOK, walking, Phase
  <1>4. CacheCoherent' /\ EmptyAtStart'
    BY <1>1, DescriptorsKept DEF IInv
  <1>5. Start' = offset'
    BY <1>1, <1>2 DEF Start
  <1>6. BlockInv'
    <2>1. ClustersOf(d)' = << >> => offset' = 0
      BY <1>1 DEF IInv, EmptyAtStart, Open, ClustersOf
    <2> QED  BY <1>1, <1>2, <1>5, <2>1 DEF BlockInv, Open
  <1>7. PanicsPastEndOnly' /\ WalkInv' /\ StreamInv' /\ AlignedReads'
    BY <1>1, <1>2 DEF PanicsPastEndOnly, WalkInv, StreamInv, AlignedReads, Correct
  <1> QED  BY <1>3, <1>4, <1>6, <1>7 DEF IInv

----------------------------------------------------------------------------
\* The steps of a read.

LEMMA NextBlockStep ==
    ASSUME IInv, next_block
    PROVE  IInv'
PROOF
  <1>1. /\ TypeOK /\ pc = "cluster" /\ nmemb' = nmemb - 1 /\ nmemb > 0 /\ total' = size /\ output' = << >>
        /\ UNCHANGED <<desc, pc, fd, size, offset, walking, stream>>
    BY DEF next_block, IInv
  <1>2. TypeOK'
    BY <1>1 DEF TypeOK, walking
  <1>3. CacheCoherent' /\ EmptyAtStart'
    BY <1>1, DescriptorsKept DEF IInv
  <1>4. Start' = offset'
    BY <1>1 DEF Start, TypeOK
  <1>5. BlockInv'
    <2>1. fd \in Open /\ (ClustersOf(fd) = << >> => offset = 0) /\ size > 0
      BY <1>1 DEF IInv, BlockInv, Phase
    <2> QED  BY <1>1, <1>4, <2>1 DEF BlockInv, Open, ClustersOf, TypeOK
  <1>6. PanicsPastEndOnly' /\ WalkInv' /\ StreamInv' /\ AlignedReads'
    BY <1>1 DEF PanicsPastEndOnly, WalkInv, StreamInv, AlignedReads, Correct, TypeOK
  <1> QED  BY <1>2, <1>3, <1>5, <1>6 DEF IInv

LEMMA ReturnStep ==
    ASSUME IInv, read_returns
    PROVE  IInv'
PROOF
  <1> DEFINE v == [desc[fd] EXCEPT !.pos = offset]
  <1>1. /\ TypeOK /\ pc = "cluster" /\ pc' = "idle" /\ desc' = [desc EXCEPT ![fd] = v]
        /\ nmemb' = 0 /\ size' = 0 /\ offset' = 0 /\ total' = 0
        /\ cluster' = 0 /\ current_pos' = 0
        /\ stream' = [pos |-> 0, total |-> 0] /\ output' = << >> /\ fd' = fd
    BY DEF read_returns, IInv
  <1>2. fd \in Descriptor /\ desc[fd] # Closed /\ (ClustersOf(fd) = << >> => offset = 0) /\ offset \in Nat
    BY <1>1 DEF IInv, BlockInv, Phase, Open, TypeOK
  <1>3. /\ desc[fd] \in FatDescriptor /\ v \in FatDescriptor
        /\ v.file = desc[fd].file /\ v.cached_cluster = desc[fd].cached_cluster
        /\ v.cached_offset_bytes = desc[fd].cached_offset_bytes /\ v.pos = offset
    BY <1>1, <1>2, OpenFacts DEF FatDescriptor
  <1> HIDE DEF v
  <1>4. TypeOK'
    BY <1>1, <1>3 DEF TypeOK
  <1>5. CacheCoherent' /\ EmptyAtStart'
    <2>1. \A e \in Descriptor : desc[e] # Closed => GoodDescriptor(desc[e])
      BY DescriptorForm DEF IInv
    <2>2. GoodDescriptor(v)
      BY <1>2, <1>3, <2>1 DEF GoodDescriptor, Coherent, AtStart, ClustersOf
    <2>3. \A e \in Descriptor : desc'[e] # Closed => GoodDescriptor(desc'[e])
      BY <1>1, <2>1, <2>2 DEF TypeOK
    <2> QED  BY <2>3, DescriptorFormPrimed
  <1> QED  BY <1>1, <1>4, <1>5, NothingUnderWay DEF IInv

\* What is read of a block stays read while a step only looks for the next cluster.
LEMMA BlockKept ==
    ASSUME AlignedReads, pc \in Phase, UNCHANGED <<fd, size, offset, total, output>>,
           desc'[fd].file = desc[fd].file
    PROVE  AlignedReads'
PROOF
  <1>1. Reading
    BY DEF Reading, Phase
  <1>2. Start' = Start /\ (Correct' <=> Correct)
    BY DEF Start, Correct, AllocatedTo, ClustersOf, Where
  <1> QED  BY <1>1, <1>2 DEF AlignedReads

LEMMA AtClusterStep ==
    ASSUME IInv, at_cluster
    PROVE  IInv'
PROOF
  <1>1. /\ TypeOK /\ pc = "cluster" /\ total > 0 /\ pc' = "walk"
        /\ UNCHANGED <<desc, fd, nmemb, size, offset, total, stream, output>>
    BY DEF at_cluster, IInv, call
  <1>2. /\ fd \in Descriptor /\ desc[fd] # Closed /\ offset \in Nat
        /\ ClustersOf(fd) = << >> => offset = 0
    BY <1>1 DEF IInv, BlockInv, Phase, Open, TypeOK
  <1>3. desc[fd].file \in File /\ desc[fd].cached_cluster \in Nat /\ desc[fd].cached_offset_bytes \in Nat
    BY <1>1, <1>2, OpenFacts
  <1>4. target_cluster \in Nat /\ cached_cluster \in Nat /\ (offset = 0 => target_cluster = 0)
    <2>1. target_cluster = offset \div cs /\ cached_cluster = desc[fd].cached_offset_bytes \div cs
      BY DEF target_cluster, cached_cluster, cs
    <2>2. 0 \div cs = 0
      BY SizeFacts
    <2> QED  BY <1>2, <1>3, <2>1, <2>2, Divided
  <1>5. /\ cluster' \in Nat /\ current_pos' \in Nat /\ current_pos' <= target_cluster
        /\ IF ClustersOf(fd) = << >> THEN cluster' = 0
           ELSE current_pos' + 1 \in DOMAIN ClustersOf(fd) /\ cluster' = ClustersOf(fd)[current_pos' + 1]
    <2>1. CASE target_cluster > 0 /\ Cached
      <3>1. /\ cluster' = desc[fd].cached_cluster /\ current_pos' = cached_cluster
            /\ cached_cluster <= target_cluster /\ desc[fd].cached_cluster # 0
        BY <2>1 DEF at_cluster, Cached
      <3>2. /\ cached_cluster + 1 \in DOMAIN ClustersOf(fd)
            /\ desc[fd].cached_cluster = ClustersOf(fd)[cached_cluster + 1]
        BY <1>2, <3>1 DEF IInv, CacheCoherent, Open, cached_cluster
      <3>3. ClustersOf(fd) # << >>
        BY <1>2, <1>4, <2>1
      <3> QED  BY <1>3, <1>4, <3>1, <3>2, <3>3
    <2>2. CASE ~(target_cluster > 0 /\ Cached)
      <3>1. cluster' = fat16_get_first_cluster(desc[fd].file) /\ current_pos' = 0
        BY <2>2 DEF at_cluster
      <3>2. CASE ClustersOf(fd) = << >>
        BY <1>4, <3>1, <3>2 DEF fat16_get_first_cluster, ClustersOf
      <3>3. CASE ClustersOf(fd) # << >>
        <4>1. 1 \in DOMAIN ClustersOf(fd) /\ ClustersOf(fd)[1] \in Nat
          BY <1>3, <3>3, ChainFacts DEF ClustersOf
        <4> QED  BY <1>4, <3>1, <3>3, <4>1 DEF fat16_get_first_cluster, ClustersOf
      <3> QED  BY <3>2, <3>3
    <2> QED  BY <2>1, <2>2
  <1>6. TypeOK'
    BY <1>1, <1>5 DEF TypeOK, Phase
  <1>7. CacheCoherent' /\ EmptyAtStart'
    BY <1>1, DescriptorsKept DEF IInv
  <1>8. WalkInv'
    BY <1>1, <1>5 DEF WalkInv, ClustersOf, target_cluster
  <1>9. BlockInv' /\ StreamInv' /\ PanicsPastEndOnly'
    BY <1>1 DEF IInv, BlockInv, StreamInv, PanicsPastEndOnly, Phase, Open, ClustersOf, Start
  <1>10. AlignedReads'
    BY <1>1, BlockKept DEF IInv, Phase
  <1> QED  BY <1>6, <1>7, <1>8, <1>9, <1>10 DEF IInv

\* During a walk or a copy the descriptor is open, and its chain what it is.
LEMMA UnderWay ==
    ASSUME IInv, pc \in Phase
    PROVE  /\ fd \in Descriptor /\ desc[fd] # Closed /\ desc[fd] \in FatDescriptor
           /\ desc[fd].file \in File /\ offset \in Nat
           /\ target_cluster = offset \div cs /\ target_cluster \in Nat
           /\ ClustersOf(fd) = Clusters[desc[fd].file] /\ Len(ClustersOf(fd)) \in Nat
           /\ DOMAIN ClustersOf(fd) = 1 .. Len(ClustersOf(fd))
           /\ \A i \in DOMAIN ClustersOf(fd) : ClustersOf(fd)[i] \in Nat \ {0}
           /\ ClustersOf(fd) = << >> <=> Len(ClustersOf(fd)) = 0
           /\ ClustersOf(fd) = << >> => target_cluster = 0
           /\ AllocatedTo(fd) = Len(ClustersOf(fd)) * cs
PROOF
  <1>1. /\ TypeOK /\ fd \in Descriptor /\ desc[fd] # Closed /\ offset \in Nat
        /\ ClustersOf(fd) = << >> => offset = 0
    BY DEF IInv, BlockInv, Open, TypeOK
  <1>2. desc[fd] \in FatDescriptor /\ desc[fd].file \in File
    BY <1>1, OpenFacts
  <1>3. target_cluster = offset \div cs /\ ClustersOf(fd) = Clusters[desc[fd].file]
        /\ AllocatedTo(fd) = Len(ClustersOf(fd)) * cs
    BY DEF target_cluster, cs, ClustersOf, AllocatedTo
  <1>4. offset \div cs \in Nat
    BY <1>1, Divided
  <1>5. 0 \div cs = 0
    BY SizeFacts
  <1>6. ClustersOf(fd) = << >> => target_cluster = 0
    BY <1>1, <1>3, <1>5
  <1>7. /\ Len(ClustersOf(fd)) \in Nat /\ DOMAIN ClustersOf(fd) = 1 .. Len(ClustersOf(fd))
        /\ \A i \in DOMAIN ClustersOf(fd) : ClustersOf(fd)[i] \in Nat \ {0}
        /\ ClustersOf(fd) = << >> <=> Len(ClustersOf(fd)) = 0
    BY <1>2, <1>3, ChainFacts
  <1> QED  BY <1>1, <1>2, <1>3, <1>4, <1>6, <1>7

\* The entry of a cluster that is not the last of its chain is the next one.
LEMMA NextEntry ==
    ASSUME NEW f \in File, NEW i \in DOMAIN Clusters[f], ~IsLast(f, Clusters[f][i])
    PROVE  /\ i + 1 \in DOMAIN Clusters[f]
           /\ fat16_get_next_fat_entry(f, Clusters[f][i]) = Clusters[f][i + 1]
PROOF
  <1>1. /\ Len(Clusters[f]) \in Nat /\ DOMAIN Clusters[f] = 1 .. Len(Clusters[f])
        /\ \A j, k \in DOMAIN Clusters[f] : Clusters[f][j] = Clusters[f][k] => j = k
        /\ Clusters[f] = << >> <=> Len(Clusters[f]) = 0
    BY ChainFacts
  <1>2. i # Len(Clusters[f])
    BY <1>1 DEF IsLast
  <1>3. (CHOOSE j \in DOMAIN Clusters[f] : Clusters[f][j] = Clusters[f][i]) = i
    BY <1>1
  <1> QED  BY <1>1, <1>2, <1>3 DEF fat16_get_next_fat_entry

LEMMA WalkNextStep ==
    ASSUME IInv, walk_next
    PROVE  IInv'
PROOF
  <1> DEFINE f == desc[fd].file
  <1>1. /\ TypeOK /\ pc = "walk" /\ current_pos < target_cluster
        /\ UNCHANGED <<desc, fd, nmemb, size, offset, total, stream, output>>
    BY DEF walk_next, IInv, call
  <1>2. /\ fd \in Descriptor /\ f \in File /\ ClustersOf(fd) = Clusters[f] /\ target_cluster \in Nat
        /\ current_pos \in Nat /\ ClustersOf(fd) # << >>
        /\ current_pos + 1 \in DOMAIN ClustersOf(fd) /\ cluster = ClustersOf(fd)[current_pos + 1]
    BY <1>1, UnderWay DEF IInv, WalkInv, Phase, TypeOK
  <1>3. CacheCoherent' /\ EmptyAtStart'
    BY <1>1, DescriptorsKept DEF IInv
  <1>4. target_cluster' = target_cluster /\ ClustersOf(fd)' = ClustersOf(fd) /\ AllocatedTo(fd)' = AllocatedTo(fd)
    BY <1>1 DEF target_cluster, ClustersOf, AllocatedTo
  <1>5. CASE IsLast(f, cluster)
    <2>1. pc' \in {"panic", "wild"} /\ UNCHANGED walking
      BY <1>5 DEF walk_next
    <2>2. TypeOK'
      BY <1>1, <2>1 DEF TypeOK, Ended, walking
    <2>3. offset >= AllocatedTo(fd)
      <3>1. /\ Len(Clusters[f]) \in Nat /\ DOMAIN Clusters[f] = 1 .. Len(Clusters[f])
            /\ \A i, j \in DOMAIN Clusters[f] : Clusters[f][i] = Clusters[f][j] => i = j
            /\ Clusters[f] = << >> <=> Len(Clusters[f]) = 0
        BY <1>2, ChainFacts
      <3>2. current_pos + 1 = Len(Clusters[f])
        <4>1. Len(Clusters[f]) \in DOMAIN Clusters[f] /\ current_pos + 1 \in DOMAIN Clusters[f]
          BY <1>2, <3>1
        <4>2. Clusters[f][current_pos + 1] = Clusters[f][Len(Clusters[f])]
          BY <1>2, <1>5 DEF IsLast
        <4> QED  BY <3>1, <4>1, <4>2
      <3>3. target_cluster >= Len(Clusters[f]) /\ target_cluster = offset \div cs /\ offset \in Nat
            /\ AllocatedTo(fd) = Len(Clusters[f]) * cs
        BY <1>1, <1>2, <3>2, UnderWay DEF Phase
      <3> QED  BY <3>1, <3>3, FarOffset
    <2>4. PanicsPastEndOnly'
      BY <1>1, <1>4, <2>3 DEF PanicsPastEndOnly
    <2>5. BlockInv' /\ WalkInv' /\ StreamInv' /\ AlignedReads'
      BY <2>1 DEF BlockInv, WalkInv, StreamInv, AlignedReads, Reading, Phase
    <2> QED  BY <1>3, <2>2, <2>4, <2>5 DEF IInv
  <1>6. CASE ~IsLast(f, cluster)
    <2>1. /\ cluster' = fat16_get_next_fat_entry(f, cluster)
          /\ current_pos' = current_pos + 1 /\ pc' = pc
      BY <1>6 DEF walk_next
    <2>2. /\ current_pos' + 1 \in DOMAIN ClustersOf(fd)
          /\ cluster' = ClustersOf(fd)[current_pos' + 1]
      BY <1>2, <1>6, <2>1, NextEntry
    <2>3. TypeOK'
      <3>1. cluster' \in Nat
        BY <1>2, <2>2, ChainFacts
      <3> QED  BY <1>1, <2>1, <3>1 DEF TypeOK
    <2>4. WalkInv'
      <3>1. current_pos' <= target_cluster'
        BY <1>1, <1>2, <1>4, <2>1
      <3> QED  BY <1>1, <1>2, <1>4, <2>2, <3>1 DEF WalkInv
    <2>5. BlockInv' /\ StreamInv' /\ PanicsPastEndOnly'
      BY <1>1, <2>1 DEF IInv, BlockInv, StreamInv, PanicsPastEndOnly, Phase, Open, ClustersOf, Start
    <2>6. AlignedReads'
      BY <1>1, BlockKept DEF IInv, Phase
    <2> QED  BY <1>3, <2>3, <2>4, <2>5, <2>6 DEF IInv
  <1> QED  BY <1>5, <1>6

LEMMA WalkEndsStep ==
    ASSUME IInv, walk_ends
    PROVE  IInv'
PROOF
  <1>1. /\ TypeOK /\ pc = "walk" /\ current_pos >= target_cluster
        /\ UNCHANGED <<fd, nmemb, size, offset, total, walking, output>>
    BY DEF walk_ends, IInv, call
  <1>2. /\ fd \in Descriptor /\ desc[fd] # Closed /\ desc[fd] \in FatDescriptor
        /\ desc[fd].file \in File /\ target_cluster \in Nat /\ offset \in Nat
    BY <1>1, UnderWay DEF Phase
  <1>3. CASE cluster = 0
    <2>1. pc' = "panic" /\ UNCHANGED <<desc, stream>>
      BY <1>3 DEF walk_ends
    <2>2. TypeOK'
      BY <1>1, <2>1 DEF TypeOK, Ended, walking
    <2>3. CacheCoherent' /\ EmptyAtStart'
      BY <2>1, DescriptorsKept DEF IInv
    <2>4. Len(ClustersOf(fd)) = 0
      BY <1>1, <1>3, UnderWay DEF IInv, WalkInv, Phase
    <2>5. AllocatedTo(fd)' = 0
      <3>1. 0 * size_of_cluster_bytes = 0
        BY SizeFacts DEF cs
      <3> QED  BY <1>1, <2>1, <2>4, <3>1 DEF AllocatedTo, ClustersOf
    <2>6. PanicsPastEndOnly'
      BY <1>1, <1>2, <2>5 DEF PanicsPastEndOnly
    <2>7. BlockInv' /\ WalkInv' /\ StreamInv' /\ AlignedReads'
      BY <2>1 DEF BlockInv, WalkInv, StreamInv, AlignedReads, Reading, Phase
    <2> QED  BY <2>2, <2>3, <2>6, <2>7 DEF IInv
  <1>4. CASE cluster # 0
    <2> DEFINE v == [[desc[fd] EXCEPT !.cached_cluster = cluster]
                        EXCEPT !.cached_offset_bytes = current_pos * cs]
    <2>1. /\ pc' = "sector" /\ desc' = Updated
          /\ stream' = [pos |-> StartOf(cluster) + (offset % cs), total |-> total_to_read]
      BY <1>4 DEF walk_ends, cs
    <2>2. /\ ClustersOf(fd) # << >> /\ current_pos = target_cluster /\ cluster \in Nat
          /\ target_cluster + 1 \in DOMAIN ClustersOf(fd)
          /\ cluster = ClustersOf(fd)[target_cluster + 1]
      BY <1>1, <1>2, <1>4 DEF IInv, WalkInv, TypeOK
    <2>3. /\ target_cluster = offset \div cs /\ current_pos * cs \in Nat
          /\ (current_pos * cs) \div cs = current_pos
      BY <1>1, <1>2, <2>2, Multiple DEF target_cluster, cs
    <2>4. desc' = desc \/ desc' = [desc EXCEPT ![fd] = v]
      BY <2>1 DEF Updated, cs
    <2>5. /\ v \in FatDescriptor /\ v.file = desc[fd].file /\ v.pos = desc[fd].pos
          /\ v.cached_cluster = cluster /\ v.cached_offset_bytes = current_pos * cs
      BY <1>2, <2>2, <2>3 DEF FatDescriptor
    <2> HIDE DEF v
    <2>6. desc' \in [Descriptor -> FatDescriptor \cup {Closed}] /\ desc'[fd].file = desc[fd].file
          /\ desc'[fd] \in FatDescriptor
      BY <1>1, <1>2, <2>4, <2>5 DEF TypeOK
    <2>7. ClustersOf(fd)' = ClustersOf(fd) /\ target_cluster' = target_cluster /\ total_to_read' = total_to_read
      BY <1>1, <2>6 DEF ClustersOf, target_cluster, total_to_read
    <2>8. total \in Nat /\ total > 0 /\ total_to_read \in Nat
      BY <1>1, SizeFacts DEF IInv, BlockInv, TypeOK, Phase, total_to_read, cs
    <2>9. StartOf(cluster) + (offset % cs) \in Int
      <3>1. StartOf(cluster) = DataStart + (cluster - 2) * cs
        BY DEF StartOf, cs
      <3>2. (cluster - 2) * cs \in Int
        BY <2>2, SizeFacts
      <3>3. offset % cs \in Nat
        BY <1>2, Divided
      <3> QED  BY <3>1, <3>2, <3>3, SizeFacts
    <2>10. TypeOK'
      BY <1>1, <2>1, <2>6, <2>8, <2>9 DEF TypeOK, Phase, walking
    <2>11. CacheCoherent' /\ EmptyAtStart'
      <3>1. \A e \in Descriptor : desc[e] # Closed => GoodDescriptor(desc[e])
        BY DescriptorForm DEF IInv
      <3>2. GoodDescriptor(v)
        BY <1>2, <2>2, <2>3, <2>5, <3>1 DEF GoodDescriptor, Coherent, AtStart, ClustersOf
      <3>3. \A e \in Descriptor : desc'[e] # Closed => GoodDescriptor(desc'[e])
        BY <1>1, <2>4, <3>1, <3>2 DEF TypeOK
      <3> QED  BY <3>3, DescriptorFormPrimed
    <2>12. BlockInv'
      <3>1. fd \in Open' /\ desc'[fd] # Closed
        BY <1>2, <2>6, FAT16Assumption DEF Open, FatDescriptor
      <3> QED  BY <1>1, <2>1, <2>2, <2>7, <3>1 DEF IInv, BlockInv, Phase, Start
    <2>13. StreamInv'
      <3>1. Len(output) = size - total
        BY <1>1 DEF IInv, StreamInv
      <3>2. stream'.total = total_to_read /\ stream'.pos = StartOf(cluster) + (offset % cs)
        BY <2>1
      <3>3. Copied' = 0
        BY <2>7, <2>8, <3>2 DEF Copied
      <3>4. size - total + 0 = Len(output) /\ StartOf(cluster) + (offset % cs) + 0 = StartOf(cluster) + (offset % cs)
        BY <1>1, <2>9, <3>1 DEF TypeOK
      <3> QED  BY <1>1, <2>1, <2>2, <2>7, <2>8, <3>2, <3>3, <3>4 DEF StreamInv, StartOf
    <2>14. WalkInv' /\ PanicsPastEndOnly'
      BY <2>1 DEF WalkInv, PanicsPastEndOnly
    <2>15. AlignedReads'
      BY <1>1, <2>6, BlockKept DEF IInv, Phase
    <2> QED  BY <2>10, <2>11, <2>12, <2>13, <2>14, <2>15 DEF IInv
  <1> QED  BY <1>3, <1>4

----------------------------------------------------------------------------
\* The copy.

\* What is copied at once does not pass the end of what is left.
LEMMA FromSectorFacts ==
    ASSUME TypeOK
    PROVE  /\ FromSector \in Nat /\ FromSector <= stream.total
           /\ ~buf_overflow => FromSector = stream.total
PROOF
  <1> DEFINE w == stream.pos % DISK_SECTOR_SIZE
  <1>1. stream.pos \in Int /\ stream.total \in Nat
    BY DEF TypeOK
  <1>2. w \in 0 .. (DISK_SECTOR_SIZE - 1) /\ DISK_SECTOR_SIZE \in Nat
    BY <1>1, SizeFacts
  <1> HIDE DEF w
  <1>3. FromSector = IF w + stream.total >= DISK_SECTOR_SIZE THEN DISK_SECTOR_SIZE - w ELSE stream.total
    BY DEF FromSector, buf_overflow, w
  <1>4. buf_overflow <=> w + stream.total >= DISK_SECTOR_SIZE
    BY DEF buf_overflow, w
  <1> QED  BY <1>1, <1>2, <1>3, <1>4

\* A block that begins with a cluster, or ends in the one it begins in.
Aligned == Start % cs = 0 \/ (Start % cs) + size <= cs

\* Of such a block, what is copied now stays in the cluster.
LEMMA InCluster ==
    ASSUME IInv, pc = "sector", Aligned
    PROVE  (offset % cs) + total_to_read <= cs
PROOF
  <1>1. /\ size \in Nat /\ total \in Nat /\ offset \in Nat /\ total > 0 /\ total <= size
        /\ Start % cs = 0 => offset % cs = 0
        /\ size <= cs => total = size
    BY DEF IInv, BlockInv, Phase, TypeOK
  <1>2. cs \in Nat /\ total_to_read = (IF total > cs THEN cs ELSE total)
    BY SizeFacts DEF total_to_read, cs
  <1>3. CASE Start % cs = 0
    BY <1>1, <1>2, <1>3
  <1>4. CASE (Start % cs) + size <= cs
    <2>1. Start \in Nat
      BY <1>1 DEF IInv, BlockInv, Phase, Start
    <2>2. Start % cs \in Nat
      BY <2>1, Divided
    <2>3. size <= cs
      BY <1>1, <1>2, <1>4, <2>2
    <2>4. Start = offset /\ total_to_read = size
      BY <1>1, <1>2, <2>3 DEF Start
    <2> QED  BY <1>4, <2>4
  <1> QED  BY <1>3, <1>4 DEF Aligned

\* Bytes added behind others.
LEMMA Added ==
    ASSUME NEW s \in Seq(Int), NEW t \in Seq(Int)
    PROVE  /\ s \o t \in Seq(Int) /\ Len(s \o t) = Len(s) + Len(t) /\ Len(s) \in Nat
           /\ DOMAIN (s \o t) = 1 .. (Len(s) + Len(t))
           /\ \A i \in 1 .. Len(s) : (s \o t)[i] = s[i]
           /\ \A i \in 1 .. Len(t) : (s \o t)[Len(s) + i] = t[i]
PROOF
  OBVIOUS

\* The bytes that one turn of the loop over sectors adds.
LEMMA CopyCorrect ==
    ASSUME IInv, pc = "sector", Aligned, NEW k \in 1 .. FromSector
    PROVE  stream.pos + k - 1 = Where(desc[fd].file, offset + Copied + k - 1)
PROOF
  <1>1. /\ TypeOK /\ offset \in Nat /\ total_to_read \in Nat /\ stream.total \in Nat
        /\ stream.total <= total_to_read /\ Copied = total_to_read - stream.total
        /\ k \in Nat /\ k >= 1 /\ k <= stream.total
    <2>1. total_to_read \in Nat
      BY SizeFacts DEF IInv, TypeOK, total_to_read, cs
    <2>2. FromSector \in Nat /\ FromSector <= stream.total
      BY FromSectorFacts DEF IInv
    <2> QED  BY <2>1, <2>2 DEF IInv, StreamInv, TypeOK, Copied
  <1> DEFINE j == Copied + k - 1
             c == ClustersOf(fd)[target_cluster + 1]
  <1>2. j \in Nat /\ j < total_to_read /\ Copied \in Nat
    BY <1>1
  <1>3. (offset % cs) + j < cs
    <2>1. offset % cs \in Nat /\ cs \in Nat
      BY <1>1, Divided, SizeFacts
    <2>2. (offset % cs) + total_to_read <= cs
      BY InCluster
    <2> QED  BY <1>1, <1>2, <2>1, <2>2
  <1>4. (offset + j) \div cs = offset \div cs /\ (offset + j) % cs = (offset % cs) + j
    BY <1>1, <1>2, <1>3, SameCluster
  <1>5. Where(desc[fd].file, offset + j) = StartOf(c) + ((offset % cs) + j)
    BY <1>4 DEF Where, cs, target_cluster, ClustersOf
  <1>6. stream.pos = StartOf(c) + (offset % cs) + Copied
    BY DEF IInv, StreamInv
  <1>7. StartOf(c) \in Int /\ offset % cs \in Nat
    <2>1. c \in Nat
      BY UnderWay DEF Phase, IInv, StreamInv
    <2>2. StartOf(c) = DataStart + (c - 2) * cs
      BY DEF StartOf, cs
    <2>3. (c - 2) * cs \in Int
      BY <2>1, SizeFacts
    <2> QED  BY <1>1, <2>2, <2>3, SizeFacts, Divided
  <1>8. stream.pos + k - 1 = StartOf(c) + ((offset % cs) + j)
    BY <1>1, <1>2, <1>6, <1>7
  <1>9. offset + Copied + k - 1 = offset + j
    BY <1>1, <1>2
  <1> QED  BY <1>5, <1>8, <1>9

LEMMA AtSectorStep ==
    ASSUME IInv, at_sector
    PROVE  IInv'
PROOF
  <1> DEFINE n == FromSector
  <1>1. /\ TypeOK /\ pc = "sector"
        /\ UNCHANGED <<desc, fd, nmemb, size, cluster, current_pos>>
    BY DEF at_sector, IInv, call, walking
  <1>2. /\ size \in Nat /\ total \in Nat /\ offset \in Nat /\ size > 0 /\ total <= size
        /\ size - total <= offset /\ total > 0 /\ fd \in Open
        /\ total > 0 /\ Start % cs = 0 => offset % cs = 0
        /\ total > 0 /\ size <= cs => total = size
    BY <1>1 DEF IInv, BlockInv, Phase, TypeOK
  <1>3. /\ total_to_read \in Nat /\ total_to_read <= total /\ total_to_read > 0 /\ cs \in Nat
        /\ total_to_read = IF total > cs THEN cs ELSE total
    BY <1>2, SizeFacts DEF total_to_read, cs
  <1>4. /\ stream.total \in Nat /\ stream.pos \in Int /\ n \in Nat /\ n <= stream.total
        /\ ~buf_overflow => n = stream.total
    BY <1>1, FromSectorFacts DEF TypeOK
  <1>5. /\ target_cluster + 1 \in DOMAIN ClustersOf(fd)
        /\ stream.total <= total_to_read /\ Copied = total_to_read - stream.total
        /\ stream.pos = StartOf(ClustersOf(fd)[target_cluster + 1]) + (offset % cs) + Copied
        /\ Len(output) = size - total + Copied /\ output \in Seq(Int)
    BY <1>1 DEF IInv, StreamInv, Copied, TypeOK
  <1>6. ClustersOf(fd) # << >>
    BY <1>5
  <1>7. CacheCoherent' /\ EmptyAtStart'
    BY <1>1, DescriptorsKept DEF IInv
  <1>8. ClustersOf(fd)' = ClustersOf(fd) /\ AllocatedTo(fd)' = AllocatedTo(fd) /\ desc'[fd].file = desc[fd].file
        /\ fd' \in Open'
    BY <1>1, <1>2 DEF ClustersOf, AllocatedTo, Open
  <1>9. CASE sector * DISK_SECTOR_SIZE >= DiskEnd
    <2>1. pc' = "hung" /\ UNCHANGED <<stream, output, offset, total>>
      BY <1>9 DEF at_sector
    <2>2. TypeOK'
      BY <1>1, <2>1 DEF TypeOK, Phase
    <2>3. BlockInv' /\ WalkInv' /\ PanicsPastEndOnly'
      BY <1>1, <1>2, <1>6, <1>8, <2>1 DEF BlockInv, WalkInv, PanicsPastEndOnly, Start
    <2>4. StreamInv'
      BY <1>1, <1>5, <1>8, <2>1 DEF StreamInv, Copied, total_to_read, target_cluster
    <2>5. AlignedReads'
      BY <1>1, <2>1, BlockKept DEF IInv, Phase
    <2> QED  BY <1>7, <2>2, <2>3, <2>4, <2>5 DEF IInv
  <1>10. CASE ~(sector * DISK_SECTOR_SIZE >= DiskEnd)
    <2> DEFINE bytes == [i \in 1 .. n |-> stream.pos + i - 1]
    <2>1. /\ output' = output \o bytes
          /\ stream' = [pos |-> stream.pos + n, total |-> stream.total - n]
          /\ IF buf_overflow THEN UNCHANGED <<pc, offset, total>>
             ELSE pc' = "cluster" /\ offset' = offset + total_to_read /\ total' = total - total_to_read
      BY <1>10 DEF at_sector
    <2>2. bytes \in Seq(Int) /\ Len(bytes) = n /\ \A i \in 1 .. n : bytes[i] = stream.pos + i - 1
      BY <1>4
    <2> HIDE DEF bytes, n
    <2>3. /\ output' \in Seq(Int) /\ Len(output') = Len(output) + n /\ Len(output') \in Nat /\ Len(output) \in Nat
          /\ DOMAIN output' = 1 .. (Len(output) + n)
          /\ \A i \in 1 .. Len(output) : output'[i] = output[i]
          /\ \A i \in 1 .. n : output'[Len(output) + i] = bytes[i]
      BY <1>5, <2>1, <2>2, Added
    <2>4. stream'.pos = stream.pos + n /\ stream'.total = stream.total - n /\ stream' \in [pos : Int, total : Nat]
      BY <1>4, <2>1
    <2>5. offset' \in Nat /\ total' \in Nat /\ pc' \in {"sector", "cluster"} /\ Start' = Start
      BY <1>1, <1>2, <1>3, <2>1 DEF Start
    <2>6. TypeOK'
      BY <1>1, <2>3, <2>4, <2>5 DEF TypeOK, Phase
    <2>7. BlockInv'
      <3>1. CASE buf_overflow
        BY <1>1, <1>2, <1>6, <1>8, <2>1, <2>5, <3>1 DEF BlockInv
      <3>2. CASE ~buf_overflow
        <4>1. pc' = "cluster" /\ offset' = offset + total_to_read /\ total' = total - total_to_read
          BY <2>1, <3>2
        <4>2. total' <= size /\ size - total' <= offset'
          BY <1>2, <1>3, <4>1
        <4>3. ASSUME total' > 0, Start' % cs = 0 PROVE offset' % cs = 0
          <5>1. total_to_read = cs
            BY <1>2, <1>3, <4>1, <4>3
          <5>2. offset % cs = 0
            BY <1>2, <2>5, <4>3
          <5>3. (offset + cs) % cs = offset % cs
            BY <1>2, NextCluster
          <5> QED  BY <4>1, <5>1, <5>2, <5>3
        <4>4. ASSUME total' > 0, size <= cs PROVE FALSE
          BY <1>2, <1>3, <4>1, <4>4
        <4> QED  BY <1>1, <1>2, <1>6, <1>8, <4>1, <4>2, <4>3, <4>4 DEF BlockInv
      <3> QED  BY <3>1, <3>2
    <2>8. StreamInv'
      <3>1. CASE buf_overflow
        <4>1. UNCHANGED <<pc, offset, total>>
          BY <2>1, <3>1
        <4>2. total_to_read' = total_to_read /\ target_cluster' = target_cluster
          BY <4>1 DEF total_to_read, target_cluster
        <4>3. Copied' = Copied + n /\ stream'.total <= total_to_read /\ Copied \in Int
          <5>1. Copied' = total_to_read - (stream.total - n)
            BY <2>4, <4>2 DEF Copied
          <5>2. /\ total_to_read \in Nat /\ stream.total \in Nat /\ n \in Nat /\ n <= stream.total
                /\ stream.total <= total_to_read
            BY <1>3, <1>4, <1>5
          <5>3. stream'.total <= total_to_read
            BY <2>4, <5>2
          <5>4. Copied = total_to_read - stream.total
            BY <1>5
          <5> QED  BY <5>1, <5>2, <5>3, <5>4
        <4>4. stream'.pos = StartOf(ClustersOf(fd)[target_cluster + 1]) + (offset % cs) + (Copied + n)
          <5>1. StartOf(ClustersOf(fd)[target_cluster + 1]) \in Int /\ offset % cs \in Nat
            <6>1. ClustersOf(fd)[target_cluster + 1] \in Nat
              BY <1>1, <1>5, UnderWay DEF Phase
            <6>2. (ClustersOf(fd)[target_cluster + 1] - 2) * cs \in Int
              BY <6>1, SizeFacts
            <6> QED  BY <1>2, <6>2, SizeFacts, Divided DEF StartOf, cs
          <5> QED  BY <1>4, <1>5, <2>4, <4>3, <5>1
        <4>5. Len(output') = size - total + (Copied + n)
          BY <1>2, <1>4, <1>5, <2>3, <4>3
        <4> QED  BY <1>1, <1>5, <1>8, <4>1, <4>2, <4>3, <4>4, <4>5 DEF StreamInv
      <3>2. CASE ~buf_overflow
        <4>1. pc' = "cluster" /\ total' = total - total_to_read /\ n = stream.total
          BY <1>4, <2>1, <3>2
        <4>2. Len(output') = size - total'
          <5>1. Copied + n = total_to_read
            BY <1>3, <1>4, <1>5, <4>1
          <5>2. Len(output') = size - total + Copied + n
            BY <1>5, <2>3
          <5>3. Copied \in Int /\ n \in Int
            BY <1>3, <1>4, <1>5
          <5> QED  BY <1>2, <1>3, <4>1, <5>1, <5>2, <5>3
        <4> QED  BY <1>1, <4>1, <4>2 DEF StreamInv
      <3> QED  BY <3>1, <3>2
    <2>9. WalkInv' /\ PanicsPastEndOnly'
      BY <2>5 DEF WalkInv, PanicsPastEndOnly
    <2>10. AlignedReads'
      <3> SUFFICES ASSUME Aligned, NEW i \in DOMAIN output', Start + i - 1 < AllocatedTo(fd)
                   PROVE  output'[i] = Where(desc[fd].file, Start + i - 1)
        <4>1. Start' = Start /\ size' = size /\ desc' = desc /\ fd' = fd
          BY <1>1, <2>5
        <4> QED  BY <1>8, <4>1 DEF AlignedReads, Correct, Aligned, cs
      <3>1. Correct
        BY <1>1 DEF IInv, AlignedReads, Aligned, Reading, cs
      <3>2. CASE i \in 1 .. Len(output)
        BY <1>5, <2>3, <3>1, <3>2 DEF Correct
      <3>3. CASE i \notin 1 .. Len(output)
        <4> DEFINE k == i - Len(output)
        <4>1. k \in 1 .. n /\ i = Len(output) + k
          BY <1>4, <1>5, <2>3, <3>3
        <4>2. output'[i] = stream.pos + k - 1
          BY <2>2, <2>3, <4>1
        <4>3. stream.pos + k - 1 = Where(desc[fd].file, offset + Copied + k - 1)
          BY <1>1, <4>1, CopyCorrect DEF n
        <4>4. Start + i - 1 = offset + Copied + k - 1
          BY <1>2, <1>3, <1>4, <1>5, <4>1 DEF Start
        <4> QED  BY <4>2, <4>3, <4>4
      <3> QED  BY <3>2, <3>3
    <2> QED  BY <1>7, <2>6, <2>7, <2>8, <2>9, <2>10 DEF IInv
  <1> QED  BY <1>9, <1>10

----------------------------------------------------------------------------
\* The invariant, and what follows from it.

\* The cache, the walk and the copy depend on each other: the walk starts where
\* the cache says, and the cache is given what the walk found.
THEOREM FAT16Inductive == FAT16Spec => []IInv
PROOF
  <1>1. FAT16Init => IInv
    BY InitHolds
  <1>2. IInv /\ [FAT16Next]_fat16_vars => IInv'
    <2> SUFFICES ASSUME IInv, [FAT16Next]_fat16_vars PROVE IInv'
      OBVIOUS
    <2>1. CASE \E d \in Descriptor, f \in File : fat16_open(d, f)
      BY <2>1, OpenStep
    <2>2. CASE \E d \in Descriptor : fat16_close(d)
      BY <2>2, CloseStep
    <2>3. CASE \E d \in Descriptor, o \in Offsets, m \in {"SEEK_SET", "SEEK_CUR", "SEEK_END"} :
                  fat16_seek(d, o, m)
      BY <2>3, SeekStep
    <2>4. CASE \E d \in Descriptor, s \in BlockSizes, n \in Counts : fat16_read(d, s, n)
      BY <2>4, ReadStep
    <2>5. CASE Step
      BY <2>5, NextBlockStep, ReturnStep, AtClusterStep, WalkNextStep, WalkEndsStep, AtSectorStep
      DEF Step
    <2>6. CASE UNCHANGED fat16_vars
      BY <2>6 DEF fat16_vars, call, walking, IInv, TypeOK, CacheCoherent, PanicsPastEndOnly,
         EmptyAtStart, BlockInv, WalkInv, StreamInv, AlignedReads, Open, ClustersOf, AllocatedTo, Start,
         Correct, Reading, target_cluster, total_to_read, Copied
    <2> QED  BY <2>1, <2>2, <2>3, <2>4, <2>5, <2>6 DEF FAT16Next, Ends
  <1> QED  BY <1>1, <1>2, PTL DEF FAT16Spec

\* For every partition and every history of opens, seeks and reads, a descriptor
\* caches a cluster together with the offset at which it is (fat16.c:348-357
\* against 394-397).
THEOREM FAT16CacheCoherent == FAT16Spec => []CacheCoherent
PROOF
  <1>1. IInv => CacheCoherent
    BY DEF IInv
  <1> QED  BY <1>1, FAT16Inductive, PTL

\* The assertion on the cluster number (fat16.c:417) only stops a read that went
\* past the last cluster of its file.
THEOREM FAT16PanicsPastEndOnly == FAT16Spec => []PanicsPastEndOnly
PROOF
  <1>1. IInv => PanicsPastEndOnly
    BY DEF IInv
  <1> QED  BY <1>1, FAT16Inductive, PTL

\* A block that begins with a cluster, or ends in the one it began in, has the
\* bytes of the file, whatever the size of a sector and of a cluster, and
\* wherever on the disk the clusters lie.
THEOREM FAT16AlignedReads == FAT16Spec => []AlignedReads
PROOF
  <1>1. IInv => AlignedReads
    BY DEF IInv
  <1> QED  BY <1>1, FAT16Inductive, PTL
==============================================================================
