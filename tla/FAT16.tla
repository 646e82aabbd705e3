-------------------------------- MODULE FAT16 --------------------------------
(***************************************************************************)
(* Reading files of a FAT16 partition (fs/fat16/fat16.c) through the disk  *)
(* stream (drivers/disk/disk_streamer.c): look-up in the root directory,   *)
(* the walk along the cluster chain with the cluster cached in each        *)
(* descriptor, and the copy sector by sector.                              *)
(*                                                                         *)
(* The partition is constant: nothing writes to it.  A byte is named by    *)
(* its position on the disk.  A read runs with interrupts off; its three   *)
(* nested loops are the steps at_cluster, walk and at_sector, and while    *)
(* one is under way (pc) nothing else moves.                               *)
(***************************************************************************)
EXTENDS Integers, Sequences

CONSTANTS
    File,               \* the files of the root directory
    Clusters,           \* Clusters[f]: the clusters of f, in order
    EndMark,            \* EndMark[f]: the FAT entry of the last of them
    filesize,           \* filesize[f], from its directory entry
    RootDirectory,      \* the entries on the disk: files and Deleted (0xE5)
    Deleted,
    DISK_SECTOR_SIZE,
    sectors_per_cluster,
    DataStart,          \* the disk position of cluster 2
    DiskEnd,            \* the size of the disk in bytes
    Descriptor,         \* addresses of struct fat_file_descriptor
    Closed,
    BlockSizes,         \* the block sizes and
    Counts,             \* numbers of blocks that programs read
    Offsets             \* the offsets that programs seek to

size_of_cluster_bytes == sectors_per_cluster * DISK_SECTOR_SIZE

\* The table has one entry for each cluster, so a chain that ends has none twice.
ASSUME FAT16Assumption ==
    /\ DISK_SECTOR_SIZE \in Nat \ {0}
    /\ sectors_per_cluster \in Nat \ {0}
    /\ DataStart \in Nat
    /\ DiskEnd \in Nat
    /\ Clusters \in [File -> Seq(Nat \ {0})]
    /\ \A f \in File : \A i, j \in DOMAIN Clusters[f] : Clusters[f][i] = Clusters[f][j] => i = j
    /\ filesize \in [File -> Nat]
    /\ RootDirectory \in Seq(File \cup {Deleted})
    /\ Deleted \notin File
    /\ \A f \in File : filesize[f] <= Len(Clusters[f]) * size_of_cluster_bytes
    /\ Closed \notin [file : File, pos : Nat, cached_cluster : Nat, cached_offset_bytes : Nat]
    /\ BlockSizes \subseteq Nat \ {0}
    /\ Counts \subseteq Nat \ {0}
    /\ Offsets \subseteq Nat

VARIABLES
    desc,               \* the descriptors: file, position, cluster cache
    pc,                 \* where the kernel is in a read, or how it ended
    fd,                 \* the descriptor being read,
    nmemb, size,        \* the blocks left to read, the size of each,
    offset, total,      \* the place in the file, the bytes left of the block,
    cluster, current_pos, \* the walk: cluster_to_use and its number in the file,
    stream,             \* the disk stream: position and bytes left of its read,
    output              \* the bytes of the block read so far

call == <<fd, nmemb, size>>
walking == <<cluster, current_pos>>
fat16_vars == <<desc, pc, call, offset, total, walking, stream, output>>

FatDescriptor == [file : File, pos : Nat, cached_cluster : Nat, cached_offset_bytes : Nat]
Open == {d \in Descriptor : desc[d] # Closed}
Ended == {"missing", "panic", "hung", "wild"}

----------------------------------------------------------------------------
\* The partition.

fat16_get_first_cluster(f) == IF Clusters[f] = << >> THEN 0 ELSE Clusters[f][1]

\* The place of cluster c on the disk.
StartOf(c) == DataStart + (c - 2) * size_of_cluster_bytes

\* Where the byte at offset o of file f is.
Where(f, o) ==
    StartOf(Clusters[f][(o \div size_of_cluster_bytes) + 1]) + (o % size_of_cluster_bytes)

\* The end marks the walk knows; FFF9 to FFFE it takes for cluster numbers.
KnownEnd == {"FFF8", "FFFF"}

IsLast(f, c) == Clusters[f] # << >> /\ c = Clusters[f][Len(Clusters[f])]

fat16_get_next_fat_entry(f, c) ==
    IF IsLast(f, c) THEN EndMark[f]
    ELSE LET i == CHOOSE i \in DOMAIN Clusters[f] : Clusters[f][i] = c IN Clusters[f][i + 1]

\* The search covers as many entries as the directory has files, counting from
\* its first entry, deleted ones included.
fat16_get_total_items(dir) == Len(SelectSeq(dir, LAMBDA item : item # Deleted))

fat16_find_item_in_directory(dir, f) ==
    \E i \in 1 .. fat16_get_total_items(dir) : dir[i] = f

----------------------------------------------------------------------------
FAT16Init ==
    /\ desc = [d \in Descriptor |-> Closed]
    /\ pc = "idle"
    /\ fd \in Descriptor
    /\ nmemb = 0 /\ size = 0 /\ offset = 0 /\ total = 0
    /\ cluster = 0 /\ current_pos = 0
    /\ stream = [pos |-> 0, total |-> 0]
    /\ output = << >>

Idle == pc = "idle"

\* A file that the search does not find gives a null descriptor, on which the
\* caller panics (file.c:229).
fat16_open(d, f) ==
    /\ Idle
    /\ desc[d] = Closed
    /\ IF fat16_find_item_in_directory(RootDirectory, f)
       THEN /\ desc' = [desc EXCEPT ![d] =
                          [file |-> f, pos |-> 0, cached_cluster |-> 0, cached_offset_bytes |-> 0]]
            /\ UNCHANGED pc
       ELSE /\ pc' = "missing"
            /\ UNCHANGED desc
    /\ UNCHANGED <<call, offset, total, walking, stream, output>>

fat16_close(d) ==
    /\ Idle
    /\ desc[d] # Closed
    /\ desc' = [desc EXCEPT ![d] = Closed]
    /\ UNCHANGED <<pc, call, offset, total, walking, stream, output>>

\* Where a seek to o leads, -EINVARG when it is refused.  A negative offset
\* arrives as one beyond the end of any file.
EINVARG == 2
Target(d, o, seek_mode) ==
    LET length == filesize[desc[d].file]
        pos == desc[d].pos
    IN  CASE o >= length -> -EINVARG
          [] seek_mode = "SEEK_SET" /\ o < length -> o
          [] seek_mode = "SEEK_CUR" /\ o < length -> IF pos + o > length THEN -EINVARG ELSE pos + o
          [] seek_mode = "SEEK_END" /\ o < length -> length - o

fat16_seek(d, o, seek_mode) ==
    /\ Idle
    /\ desc[d] # Closed
    /\ Target(d, o, seek_mode) # -EINVARG
    /\ desc' = [desc EXCEPT ![d].pos = Target(d, o, seek_mode)]
    /\ UNCHANGED <<pc, call, offset, total, walking, stream, output>>

\* The call: n blocks of s bytes from the descriptor's position.
fat16_read(d, s, n) ==
    /\ Idle
    /\ desc[d] # Closed
    /\ fd' = d
    /\ size' = s
    /\ nmemb' = n - 1
    /\ offset' = desc[d].pos
    /\ total' = s
    /\ output' = << >>
    /\ pc' = "cluster"
    /\ UNCHANGED <<desc, walking, stream>>

----------------------------------------------------------------------------
\* The steps of a read.

\* After a block, the next one.
next_block ==
    /\ pc = "cluster"
    /\ total = 0
    /\ nmemb > 0
    /\ nmemb' = nmemb - 1
    /\ total' = size
    /\ output' = << >>
    /\ UNCHANGED <<desc, pc, fd, size, offset, walking, stream>>

\* After the last block the position is stored, and the locals are gone.
read_returns ==
    /\ pc = "cluster"
    /\ total = 0
    /\ nmemb = 0
    /\ pc' = "idle"
    /\ desc' = [desc EXCEPT ![fd].pos = offset]
    /\ nmemb' = 0 /\ size' = 0 /\ offset' = 0 /\ total' = 0
    /\ cluster' = 0 /\ current_pos' = 0
    /\ stream' = [pos |-> 0, total |-> 0]
    /\ output' = << >>
    /\ UNCHANGED fd

\* Mutated: a place inside a cluster counts for the next one.
RoundedUp == (offset + size_of_cluster_bytes - 1) \div size_of_cluster_bytes

target_cluster == offset \div size_of_cluster_bytes
cached_cluster == desc[fd].cached_offset_bytes \div size_of_cluster_bytes

\* Mutated: an overtaken cluster is still used as the start of the walk.
CacheAlways == desc[fd].cached_cluster # 0

\* The cached cluster serves the targets that are not in front of it.
Cached == desc[fd].cached_cluster # 0 /\ cached_cluster <= target_cluster

\* One turn of the loop over clusters: where its walk starts.
at_cluster ==
    /\ pc = "cluster"
    /\ total > 0
    /\ IF target_cluster > 0 /\ Cached
       THEN /\ cluster' = desc[fd].cached_cluster
            /\ current_pos' = cached_cluster
       ELSE /\ cluster' = fat16_get_first_cluster(desc[fd].file)
            /\ current_pos' = 0
    /\ pc' = "walk"
    /\ UNCHANGED <<desc, call, offset, total, stream, output>>

\* One entry further along the chain.  Its end is an error, which the assertion
\* on the cluster number turns into a panic.
walk_next ==
    /\ pc = "walk"
    /\ current_pos < target_cluster
    /\ LET entry == fat16_get_next_fat_entry(desc[fd].file, cluster)
       IN  IF IsLast(desc[fd].file, cluster)
           THEN /\ pc' = IF entry \in KnownEnd THEN "panic" ELSE "wild"
                /\ UNCHANGED walking
           ELSE /\ cluster' = entry
                /\ current_pos' = current_pos + 1
                /\ UNCHANGED pc
    /\ UNCHANGED <<desc, call, offset, total, stream, output>>

\* Mutated: what does not fill clusters is copied first.
RestFirst == total % size_of_cluster_bytes

\* What is copied in one go, at most a cluster, wherever in it the read starts.
total_to_read == IF total > size_of_cluster_bytes THEN size_of_cluster_bytes ELSE total

\* Mutated: the cache is given the cluster, and not its offset.
HalfUpdate == [desc EXCEPT ![fd].cached_cluster = cluster]

\* The cache after a walk; a read in the first cluster returns before it.
Updated ==
    IF target_cluster = 0 THEN desc
    ELSE [desc EXCEPT ![fd].cached_cluster = cluster,
                      ![fd].cached_offset_bytes = current_pos * size_of_cluster_bytes]

\* The walk is over: the stream is set on the byte in the cluster found.
walk_ends ==
    /\ pc = "walk"
    /\ current_pos >= target_cluster
    /\ IF cluster = 0
       THEN /\ pc' = "panic"
            /\ UNCHANGED <<desc, stream>>
       ELSE /\ pc' = "sector"
            /\ desc' = Updated
            /\ stream' = [pos |-> StartOf(cluster) + (offset % size_of_cluster_bytes),
                          total |-> total_to_read]
    /\ UNCHANGED <<call, offset, total, walking, output>>

\* The last sector of the disk is followed by nothing: the drive never offers
\* the data that the kernel waits for.
sector == stream.pos \div DISK_SECTOR_SIZE
buf_overflow == (stream.pos % DISK_SECTOR_SIZE) + stream.total >= DISK_SECTOR_SIZE

FromSector ==
    IF buf_overflow THEN DISK_SECTOR_SIZE - (stream.pos % DISK_SECTOR_SIZE) ELSE stream.total

\* One turn of the loop over sectors; another follows a read that reaches the
\* end of its sector, be it for nothing.
at_sector ==
    /\ pc = "sector"
    /\ IF sector * DISK_SECTOR_SIZE >= DiskEnd
       THEN /\ pc' = "hung"
            /\ UNCHANGED <<stream, output, offset, total>>
       ELSE /\ output' = output \o [i \in 1 .. FromSector |-> stream.pos + i - 1]
            /\ stream' = [pos |-> stream.pos + FromSector, total |-> stream.total - FromSector]
            /\ IF buf_overflow
               THEN UNCHANGED <<pc, offset, total>>
               ELSE /\ pc' = "cluster"
                    /\ offset' = offset + total_to_read
                    /\ total' = total - total_to_read
    /\ UNCHANGED <<desc, call, walking>>

Ends == pc \in Ended /\ UNCHANGED fat16_vars

Step == next_block \/ read_returns \/ at_cluster \/ walk_next \/ walk_ends \/ at_sector

FAT16Next ==
    \/ \E d \in Descriptor, f \in File : fat16_open(d, f)
    \/ \E d \in Descriptor : fat16_close(d)
    \/ \E d \in Descriptor, o \in Offsets, m \in {"SEEK_SET", "SEEK_CUR", "SEEK_END"} :
          fat16_seek(d, o, m)
    \/ \E d \in Descriptor, s \in BlockSizes, n \in Counts : fat16_read(d, s, n)
    \/ Step
    \/ Ends

\* A read that has begun goes on: its handler is not interrupted.
FAT16Spec == FAT16Init /\ [][FAT16Next]_fat16_vars /\ WF_fat16_vars(Step)

----------------------------------------------------------------------------
ClustersOf(d) == Clusters[desc[d].file]
AllocatedTo(d) == Len(ClustersOf(d)) * size_of_cluster_bytes

\* Whatever was read and sought before, through however many descriptors, the
\* cluster a descriptor caches is the one at the offset it caches with it
\* (fat16.c:348-357 against 394-397): a later walk starts on the right cluster.
CacheCoherent ==
    \A d \in Open : desc[d].cached_cluster # 0 =>
        LET n == desc[d].cached_offset_bytes \div size_of_cluster_bytes
        IN  /\ desc[d].cached_offset_bytes = n * size_of_cluster_bytes
            /\ n + 1 \in DOMAIN ClustersOf(d)
            /\ desc[d].cached_cluster = ClustersOf(d)[n + 1]

\* A read that stays in the file's clusters never trips the assertion of
\* fat16.c:417, nor follows an end mark into nowhere.
PanicsPastEndOnly == pc \in {"panic", "wild"} => offset >= AllocatedTo(fd)

\* Where the block being read began, and whether its bytes are the file's.
Start == offset - (size - total)
Correct ==
    \A i \in DOMAIN output :
        Start + i - 1 < AllocatedTo(fd) => output[i] = Where(desc[fd].file, Start + i - 1)
Reading == pc \in {"cluster", "walk", "sector", "hung"}

\* A block that begins with a cluster, or ends in the one it began in, is read
\* byte for byte from the file, wherever its clusters lie on the disk.
AlignedReads ==
    LET within == Start % size_of_cluster_bytes
    IN  Reading /\ (within = 0 \/ within + size <= size_of_cluster_bytes) => Correct

\* No read goes round its loops for ever: it returns or ends the kernel.
ReadReturns == Reading ~> pc \in {"idle"} \cup Ended

\* file.c:255 "Reads from file": every block holds the bytes of the file.  The
\* code does not keep this.
ReadsFile == Reading => Correct
==============================================================================
