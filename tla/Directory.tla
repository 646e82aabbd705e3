------------------------------ MODULE Directory ------------------------------
(***************************************************************************)
(* Names and directories of a FAT16 partition (fs/fat16/fat16.c): mounting *)
(* it, the walk of an open along the parts of a path, and the objects that *)
(* both take from the kernel heap.                                         *)
(*                                                                         *)
(* A partition is a record: whether its two signatures are right, the      *)
(* slots of the root directory, those of every cluster and the chains.  A  *)
(* slot is an entry, deleted, the first with a zero byte, or what is not a *)
(* directory at all.                                                       *)
(***************************************************************************)
EXTENDS Path, FiniteSets

CONSTANTS
    Partitions,
    LastCluster,        \* clusters are 2 .. LastCluster
    PerCluster,         \* slots of a cluster
    NameLen, ExtLen,    \* 8 and 3
    Object,             \* addresses of objects, numbers
    Descriptor,         \* numbers of open files
    Requests,           \* what is opened: the parts behind the drive
    ModeString          \* and the mode it is opened with, as the program writes it

Cluster == 2 .. LastCluster
EndOfChain == 0

VARIABLES
    image,              \* the partition
    heap,               \* what is at each address
    fs_private,         \* the mount: its objects and the items of the root directory
    opened,             \* the open files: their objects and, as a history, their paths
    status,             \* how the last call ended
    asked,              \* history: the path and mode of the last open
    shadowed,           \* history: an open found a name twice in a directory
    exhausted           \* history: an open found the heap full

directory == <<image, heap, fs_private, opened, status, asked, shadowed, exhausted>>

Null == [kind |-> "null"]
Dot == 46
Buffer == NameLen + ExtLen      \* the array a name is put together in

----------------------------------------------------------------------------
\* Objects.  What is not there is "free".

Room(mem) == {o \in Object : mem[o] = "free"}
Lowest(mem) == CHOOSE o \in Room(mem) : \A p \in Room(mem) : o <= p
kzalloc(mem, kind) == [mem EXCEPT ![Lowest(mem)] = kind]
kfree(mem, objects) == [o \in Object |-> IF o \in objects THEN "free" ELSE mem[o]]

----------------------------------------------------------------------------
\* Slots and names.

IsZero(slot) == slot.kind = "zero"
IsSubdirectory(slot) == slot.kind = "directory"

\* Twelve characters at most: one more than the array has.
full_relative_filename(e) == e.name \o (IF e.ext = << >> THEN << >> ELSE <<Dot>> \o e.ext)
Matches(e, part) ==
    /\ e.kind # "zero" /\ e.kind # "deleted"
    /\ istrncmp(full_relative_filename(e), part, Buffer) = 0

\* A root directory that is full is not looked at here: it would be counted on into
\* the data.  Nor is what is above a directory of the root, which says cluster 0.
Slots(p) == Range(p.root) \cup UNION {Range(p.slots[c]) : c \in Cluster}

ASSUME DirectoryAssumption ==
    /\ LastCluster \in Nat \ {0, 1} /\ PerCluster \in Nat \ {0}
    /\ NameLen \in Nat \ {0} /\ ExtLen \in Nat
    /\ Object \subseteq Nat /\ IsFiniteSet(Object) /\ Cardinality(Object) >= 5
    /\ \A p \in Partitions :
          /\ \A e \in Slots(p) :
                /\ e.kind \in {"zero", "deleted", "file", "directory", "junk"}
                /\ e.kind \notin {"zero", "deleted"} =>
                      e.name \in Seq(Nat \ {NUL}) /\ e.ext \in Seq(Nat \ {NUL})
          /\ p.root \in Seq(Slots(p)) /\ \E i \in DOMAIN p.root : p.root[i].kind = "zero"
          /\ p.slots \in [Cluster -> Seq(Slots(p))]
          /\ \A c \in Cluster : Len(p.slots[c]) = PerCluster
          /\ p.next \in [Cluster -> Cluster \cup {EndOfChain}]
          /\ \A e \in Slots(p), parts \in Requests : \A n \in 1 .. Len(parts) :
                IsSubdirectory(e) /\ Matches(e, parts[n]) => e.first \in Cluster
    /\ \A parts \in Requests : parts \in Seq(Seq(Nat \ {NUL})) /\ Len(parts) > 0

\* The slots of the disk from a cluster on, and those of a chain, with what follows
\* each of its clusters put behind it.
OnDisk(cluster) ==
    LET disk[n \in 0 .. (LastCluster - cluster + 1)] ==
            IF n = 0 THEN << >> ELSE disk[n - 1] \o image.slots[cluster + n - 1]
    IN  disk[LastCluster - cluster + 1]
Followed(after) ==
    [c \in Cluster \cup {EndOfChain} |->
        IF c = EndOfChain THEN << >> ELSE image.slots[c] \o after[image.next[c]]]
OnChain(cluster) ==
    LET chain[n \in 0 .. LastCluster] ==
            IF n = 0 THEN [c \in Cluster \cup {EndOfChain} |-> << >>] ELSE Followed(chain[n - 1])
    IN  chain[LastCluster][cluster]

Ends(slots) == \E i \in DOMAIN slots : IsZero(slots[i])
FirstZero(slots) == CHOOSE i \in DOMAIN slots : IsZero(slots[i]) /\ \A j \in 1 .. (i - 1) : ~IsZero(slots[j])

\* Entries before the first zero; deleted ones are read but not counted.
total_items(slots) == Cardinality({i \in 1 .. (FirstZero(slots) - 1) : slots[i].kind # "deleted"})

----------------------------------------------------------------------------
(* A walk is a record of the memory, the item it has come to, how it ended  *)
(* if it did, and whether a name was there twice or the memory was full.    *)

Walk(mem) == [heap |-> mem, item |-> Null, end |-> "running", twice |-> FALSE, full |-> FALSE]

\* A subdirectory is counted along the disk, whatever cluster comes next there, and
\* read along its chain.  A count that the chain does not have stops the kernel,
\* and so does a disk without a zero; without memory it goes on with pointers to nothing.
load_fat_directory(w, e) ==
    LET counted == OnDisk(e.first)
        read == OnChain(e.first)
        at == Lowest(w.heap)
        allocated == kzalloc(w.heap, "directory")
    IN  IF ~Ends(counted) THEN [w EXCEPT !.end = "hung"]
        ELSE IF Cardinality(Room(w.heap)) < 2 THEN [w EXCEPT !.end = "wild", !.full = TRUE]
        ELSE IF total_items(counted) > Len(read) THEN [w EXCEPT !.end = "panic"]
        ELSE [w EXCEPT !.heap = kzalloc(allocated, "entries"),
                       !.item = [kind |-> "directory", entry |-> e,
                                 objects |-> {at, Lowest(allocated)},
                                 list |-> SubSeq(read, 1, total_items(counted))]]

clone_directory_item(w, e) ==
    IF Room(w.heap) = {} THEN [w EXCEPT !.end = "wild", !.full = TRUE]
    ELSE [w EXCEPT !.heap = kzalloc(w.heap, "file"),
                   !.item = [kind |-> "file", entry |-> e, objects |-> {Lowest(w.heap)}]]

\* The struct of the item is an object of its own, which nothing frees.
new_fat_item(w, e) ==
    LET taken == [w EXCEPT !.heap = kzalloc(w.heap, "item"),
                           !.twice = @ \/ w.item.kind # "null"]
    IN  IF Room(w.heap) = {} THEN [w EXCEPT !.item = Null, !.full = TRUE]
        ELSE IF IsSubdirectory(e) THEN load_fat_directory(taken, e)
        ELSE clone_directory_item(taken, e)

\* The walk after an entry, and after each of a list.
Looked(w, e, name) == IF w.end = "running" /\ Matches(e, name) THEN new_fat_item(w, e) ELSE w

Search(w, list, name) ==
    LET after[n \in 0 .. Len(list)] ==
            IF n = 0 THEN [w EXCEPT !.item = Null] ELSE Looked(after[n - 1], list[n], name)
    IN  after[Len(list)]

\* Mutated: the search ends before the last entry.
FindEarlier(w, list, name) == Search(w, SubSeq(list, 1, Len(list) - 1), name)

\* The last entry of that name; the items of earlier ones are dropped.
find_item_in_directory(w, list, name) == Search(w, list, name)

\* Mutated: the array of a directory's entries stays.
FreeStructOnly(item) == IF item.kind = "directory" THEN {CHOOSE o \in item.objects : \A p \in item.objects : o <= p}
                        ELSE item.objects

free_fat_item(item) == item.objects

\* One part further.  Below a file there is nothing, and nothing below what was not
\* found: address 0 does not hold an item that says it is a directory.
NextPart(w, part) ==
    IF w.item.kind # "directory" THEN [w EXCEPT !.item = Null]
    ELSE LET found == find_item_in_directory(w, w.item.list, part)
         IN  IF found.end = "running"
             THEN [found EXCEPT !.heap = kfree(@, free_fat_item(w.item))] ELSE found

get_directory_entry(mem, parts) ==
    LET after[n \in 0 .. (Len(parts) - 1)] ==
            IF n = 0 THEN find_item_in_directory(Walk(mem), fs_private.list, parts[1])
            ELSE NextPart(after[n - 1], parts[n + 1])
    IN  after[Len(parts) - 1]

----------------------------------------------------------------------------
DirectoryInit ==
    /\ image \in Partitions
    /\ heap = [o \in Object |-> "free"]
    /\ fs_private = Null
    /\ opened = [d \in Descriptor |-> Null]
    /\ status = "unmounted"
    /\ asked = [parts |-> << >>, mode |-> "FILE_MODE_READ"]
    /\ shadowed = FALSE
    /\ exhausted = FALSE

\* What a mount takes: its struct and three streams, then the root directory.
init_private(mem) ==
    kzalloc(kzalloc(kzalloc(kzalloc(mem, "private"), "stream"), "stream"), "stream")

free_private(mem) == [o \in Object |-> IF mem[o] \in {"private", "stream"} THEN "free" ELSE mem[o]]

\* The first sector must be signed, and so must be the header.
fat16_resolve ==
    /\ status = "unmounted"
    /\ image.mbr /\ image.header
    /\ heap' = kzalloc(init_private(heap), "root")
    /\ fs_private' = [kind |-> "private", list |-> SubSeq(image.root, 1, total_items(image.root))]
    /\ status' = "running"
    /\ UNCHANGED <<image, opened, asked, shadowed, exhausted>>

fat16_resolve_refuses ==
    /\ status = "unmounted"
    /\ ~image.mbr \/ ~image.header
    /\ heap' = free_private(init_private(heap))
    /\ status' = "refused"
    /\ UNCHANGED <<image, fs_private, opened, asked, shadowed, exhausted>>

\* Opened for anything but reading, or when there is nothing of that name, fopen
\* asserts in vain that there is a descriptor.
fat16_open(d, parts, mode) ==
    /\ status = "running"
    /\ opened[d] = Null
    /\ asked' = [parts |-> parts, mode |-> mode]
    /\ IF mode # "FILE_MODE_READ" \/ Room(heap) = {}
       THEN /\ status' = "panic"
            /\ exhausted' = (Room(heap) = {})
            /\ UNCHANGED <<heap, opened, shadowed>>
       ELSE LET w == get_directory_entry(kzalloc(heap, "descriptor"), parts)
            IN  /\ heap' = w.heap
                /\ shadowed' = (shadowed \/ w.twice)
                /\ exhausted' = (exhausted \/ w.full)
                /\ IF w.end = "running" /\ w.item # Null
                   THEN /\ opened' = [opened EXCEPT ![d] =
                                        [kind |-> "descriptor", at |-> Lowest(heap),
                                         item |-> w.item, path |-> parts]]
                        /\ UNCHANGED status
                   ELSE /\ status' = IF w.end = "running" THEN "panic" ELSE w.end
                        /\ UNCHANGED opened
    /\ UNCHANGED <<image, fs_private>>

\* Of a directory nothing but that it is one.
fat16_stat(item) ==
    IF item.kind = "file" THEN [filesize |-> item.entry.filesize, folder |-> FALSE]
    ELSE [filesize |-> 0, folder |-> TRUE]

fat16_close(d) ==
    /\ status = "running"
    /\ opened[d] # Null
    /\ heap' = kfree(heap, free_fat_item(opened[d].item) \cup {opened[d].at})
    /\ opened' = [opened EXCEPT ![d] = Null]
    /\ UNCHANGED <<image, fs_private, status, asked, shadowed, exhausted>>

DirectoryStopped ==
    /\ status \in {"refused", "panic", "wild", "hung"}
    /\ UNCHANGED directory

DirectoryNext ==
    \/ fat16_resolve
    \/ fat16_resolve_refuses
    \/ \E d \in Descriptor, parts \in Requests, str_mode \in ModeString :
          /\ file_get_mode_by_string(str_mode) # "FILE_MODE_INVALID"
          /\ fat16_open(d, parts, file_get_mode_by_string(str_mode))
    \/ \E d \in Descriptor : fat16_close(d)
    \/ DirectoryStopped

DirectorySpec == DirectoryInit /\ [][DirectoryNext]_directory

----------------------------------------------------------------------------
\* The directories as they are meant: the live entries of a chain up to its zero.

UpToZero(slots) == IF Ends(slots) THEN SubSeq(slots, 1, FirstZero(slots) - 1) ELSE slots
SlotsOf(e) == IF e.kind = "root" THEN image.root ELSE OnChain(e.first)
EntriesOf(e) == {s \in Range(UpToZero(SlotsOf(e))) : s.kind # "deleted"}
Lowercase(s) == [i \in DOMAIN s |-> tolower(s[i])]
Named(e, part) == Lowercase(full_relative_filename(e)) = Lowercase(part)

\* What the first n parts of a path denote.
Denoted(parts) ==
    LET level[n \in 0 .. Len(parts)] ==
            IF n = 0 THEN {[kind |-> "root"]}
            ELSE UNION {{e \in EntriesOf(dir) : Named(e, parts[n])} :
                          dir \in {e \in level[n - 1] : e.kind \in {"root", "directory"}}}
    IN  level

\* The directories that the kernel reads as they are meant: none of their entries
\* was deleted, there is a zero after them, on the disk where it is in the chain, and
\* no two names agree in as many characters as are compared.
Regular(dir) ==
    LET live == UpToZero(SlotsOf(dir))
    IN  /\ \A i \in DOMAIN live : live[i].kind # "deleted"
        /\ Ends(SlotsOf(dir))
        /\ dir.kind = "directory" => Ends(OnDisk(dir.first)) /\ UpToZero(OnDisk(dir.first)) = live
        /\ \A i, j \in DOMAIN live :
              i # j => istrncmp(full_relative_filename(live[i]), full_relative_filename(live[j]), Buffer) # 0

\* A part that is compared to its end with a name: one of all the characters that are
\* compared is also found when the name goes on.
Compared(part, e) ==
    /\ Len(part) <= Buffer
    /\ Len(part) = Buffer => Len(full_relative_filename(e)) <= Buffer

\* All directories on the way are regular, and so is the one where it ends: it is
\* loaded too.
Straight(parts) ==
    \A n \in 0 .. Len(parts) :
        \A dir \in Denoted(parts)[n] :
            dir.kind \in {"root", "directory"} =>
                /\ Regular(dir)
                /\ n < Len(parts) => \A e \in EntriesOf(dir) : Compared(parts[n + 1], e)

\* Along directories that are regular an open arrives at what the path denotes, in
\* whatever case its names are written, and fstat tells its size; only a path that
\* denotes nothing, or an open for writing, stops the kernel.
WalkFinds ==
    /\ \A d \in Descriptor :
          opened[d] # Null /\ Straight(opened[d].path) =>
              /\ opened[d].item.entry \in Denoted(opened[d].path)[Len(opened[d].path)]
              /\ fat16_stat(opened[d].item).folder = (opened[d].item.entry.kind = "directory")
    /\ status \in {"panic", "hung", "wild"} /\ Straight(asked.parts) /\ ~exhausted =>
          \/ asked.mode # "FILE_MODE_READ"
          \/ Denoted(asked.parts)[Len(asked.parts)] = {}

\* However files are opened and closed, the objects of descriptors, directories and
\* files are those of the files that are open, each of one of them, unless a
\* directory had a name twice; a mount that was refused has left nothing.  The items
\* themselves are never given back.
ObjectsOwned ==
    /\ status = "refused" => Room(heap) = Object
    /\ status = "running" /\ ~shadowed =>
          LET files == {d \in Descriptor : opened[d] # Null}
              Owned(d) == opened[d].item.objects \cup {opened[d].at}
          IN  /\ UNION {Owned(d) : d \in files}
                    = {o \in Object : heap[o] \in {"descriptor", "file", "directory", "entries"}}
              /\ \A c, d \in files : c # d => Owned(c) \cap Owned(d) = {}
=============================================================================
