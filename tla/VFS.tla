--------------------------------- MODULE VFS ---------------------------------
(***************************************************************************)
(* The virtual file system (fs/file.c): the mount table, the descriptors,  *)
(* which all programs share, and what happens to them when a program is    *)
(* loaded (elf_load, task/process.cpp).  Of the file systems behind it,    *)
(* FAT16, PipeFS and MemoryFS, it has what open and close do.              *)
(*                                                                         *)
(* A path is the sequence of its parts.  Programs close, read, write and   *)
(* seek the descriptors they hold.  `held', `leaked' and `hijacked' are    *)
(* history variables; the kernel does not know who opened what.            *)
(***************************************************************************)
EXTENDS Naturals, Sequences, FiniteSets

CONSTANTS
    Program,
    Path,                   \* the paths that programs use
    Part,                   \* what they consist of
    DiskFile,               \* those of files on the disk
    EmptyFile,              \* and of the files of no bytes
    IpcPath,                \* those of the pipes that programs open
    BootMounts,             \* what kernel_main mounts, in order
    Private,                \* addresses of struct fat_file_descriptor
    None,
    MAX_FILEDESCRIPTORS,
    MAX_MOUNTED

Number == 1 .. MAX_FILEDESCRIPTORS
Kind == {"fat16", "pipe", "memory"}
Mount == [filename : Seq(Part), kind : Kind]
File == [kind : Kind, data : Private \cup (1 .. MAX_MOUNTED)]
Descriptor == [index : Number, kind : Kind, data : Private \cup (1 .. MAX_MOUNTED)]

ASSUME VFSAssumption ==
    /\ MAX_FILEDESCRIPTORS \in Nat \ {0, 1}
    /\ MAX_MOUNTED \in Nat
    /\ BootMounts \in Seq(Mount)
    /\ Len(BootMounts) <= MAX_MOUNTED
    /\ Path \subseteq Seq(Part)
    /\ EmptyFile \subseteq DiskFile
    /\ DiskFile \cup IpcPath \subseteq Path
    /\ Private \cap (1 .. MAX_MOUNTED) = {}
    /\ None \notin File /\ None \notin Descriptor

VARIABLES
    mounted,            \* the mount table up to its first free slot
    file_descriptors,   \* the descriptor of each number, or None
    live,               \* the private descriptors of FAT16 allocated
    status,             \* "run", or how the kernel ended
    held,               \* history: <<program, descriptor>> of every fopen
    leaked,             \* history: the numbers that loads left open
    hijacked            \* history: a load closed a descriptor not its own

vfs_vars == <<mounted, file_descriptors, live, status, held, leaked, hijacked>>

Running == status = "run"

----------------------------------------------------------------------------
\* Resolution: the longest prefix of the path that is mounted, in the first
\* slot that has it.

Mounts(path, n) == {i \in DOMAIN mounted : mounted[i].filename = SubSeq(path, 1, n)}
PrefixMounts(path) == {n \in 1 .. Len(path) : Mounts(path, n) # {}}

Longest(path) == CHOOSE n \in PrefixMounts(path) : \A m \in PrefixMounts(path) : m <= n

\* Mutated: a later mount of a path hides an earlier one.
LastMount(path) ==
    LET S == Mounts(path, Longest(path)) IN CHOOSE i \in S : \A j \in S : j <= i

MountOf(path) ==
    LET S == Mounts(path, Longest(path)) IN CHOOSE i \in S : \A j \in S : i <= j

FreeNumbers == {n \in Number : file_descriptors[n] = None}

\* Mutated: the first number, taken or not.
FirstNumber == 1

LowestFree == CHOOSE n \in FreeNumbers : \A m \in FreeNumbers : n <= m

\* Mutated: the look-up forgets that numbers start at one.
OffByOne(fd) == IF fd + 1 \in Number THEN file_descriptors[fd + 1] ELSE None

\* Mutated: one number more is out of reach.
ShortTable(fd) ==
    IF fd \in Number /\ fd < MAX_FILEDESCRIPTORS - 1 THEN file_descriptors[fd] ELSE None

\* The last number is never looked up, although fopen hands it out.
file_get_descriptor(fd) ==
    IF fd \in Number /\ fd < MAX_FILEDESCRIPTORS THEN file_descriptors[fd] ELSE None

\* What the file system that serves the path may return: null for a file that
\* is not on the disk or not opened to be read, a fresh descriptor on FAT16,
\* itself elsewhere.
Opened(path, mode) ==
    LET m == MountOf(path)
        kind == mounted[m].kind
    IN  IF kind # "fat16" THEN {[kind |-> kind, data |-> m]}
        ELSE IF mode = "r" /\ path \in DiskFile
        THEN {[kind |-> kind, data |-> priv] : priv \in Private \ live}
        ELSE {None}

----------------------------------------------------------------------------
\* Mutated: the private descriptor stays allocated.
CloseKeeps(privates, f) == privates

\* What a close and an open leave of the private descriptors.
AfterClose(privates, f) == IF f.kind = "fat16" THEN privates \ {f.data} ELSE privates
AfterOpen(f) == IF f.kind = "fat16" THEN live \cup {f.data} ELSE live

\* The descriptors that an fopen may come to fill.
Opens(path, mode) ==
    IF PrefixMounts(path) = {} \/ FreeNumbers = {} THEN {} ELSE Opened(path, mode) \ {None}

New(f) == [index |-> LowestFree, kind |-> f.kind, data |-> f.data]
WithOpened(f) == [file_descriptors EXCEPT ![LowestFree] = New(f)]

\* file_free_descriptor: the slot is the one of the descriptor's own number.
Freed(table, d) == [table EXCEPT ![d.index] = None]

----------------------------------------------------------------------------
VFSInit ==
    /\ mounted = BootMounts
    /\ file_descriptors = [n \in Number |-> None]
    /\ live = {}
    /\ status = "run"
    /\ held = {}
    /\ leaked = {}
    /\ hijacked = FALSE

sys_fopen(p, path, mode) ==
    /\ Running
    /\ \E f \in Opens(path, mode) :
          /\ file_descriptors' = WithOpened(f)
          /\ live' = AfterOpen(f)
          /\ held' = held \cup {<<p, New(f)>>}
    /\ UNCHANGED <<mounted, status, leaked, hijacked>>

\* An open, of a file or of a program to load, that runs into an assertion: a
\* file system returns null, or all numbers are taken.
fopen_panics(path, mode) ==
    /\ Running
    /\ PrefixMounts(path) # {}
    /\ \E f \in Opened(path, mode) :
          \/ f = None /\ status' = "missing" /\ UNCHANGED live
          \/ f # None /\ FreeNumbers = {} /\ status' = "full" /\ live' = AfterOpen(f)
    /\ UNCHANGED <<mounted, file_descriptors, held, leaked, hijacked>>

\* A path under no mount is refused, as are a wrong one and a wrong mode.
fopen_refused(path) == Running /\ PrefixMounts(path) = {} /\ UNCHANGED vfs_vars

\* -EIO for a number that is not open, and for the last one.  The close of a
\* MemoryFS is an assertion that it is never reached.
sys_fclose(h) ==
    LET f == file_get_descriptor(h[2].index)
    IN  /\ Running
        /\ IF f = None THEN UNCHANGED <<file_descriptors, live, status, held>>
           ELSE IF f.kind = "memory"
           THEN /\ status' = "memory_close"
                /\ UNCHANGED <<file_descriptors, live, held>>
           ELSE /\ file_descriptors' = Freed(file_descriptors, f)
                /\ live' = AfterClose(live, f)
                /\ held' = held \ {h}
                /\ UNCHANGED status
        /\ UNCHANGED <<mounted, leaked, hijacked>>

\* A read or a write: nobody checks what the look-up returns.
sys_fread(h) ==
    /\ Running
    /\ status' = IF file_get_descriptor(h[2].index) = None THEN "null" ELSE status
    /\ UNCHANGED <<mounted, file_descriptors, live, held, leaked, hijacked>>

\* A seek checks, but no pipe can be sought.
sys_fseek(h) ==
    LET f == file_get_descriptor(h[2].index)
    IN  /\ Running
        /\ status' = IF f # None /\ f.kind = "pipe" THEN "pipe_seek" ELSE status
        /\ UNCHANGED <<mounted, file_descriptors, live, held, leaked, hijacked>>

\* Loading a program: its file is opened, asked for its size and read as one block
\* of all its bytes, and what is closed is the number that the read returned, of
\* blocks.
Loaded == 1
Statted == LowestFree < MAX_FILEDESCRIPTORS

sys_execprocess(path) ==
    /\ Running
    /\ \E f \in Opens(path, "r") :
          /\ path \notin EmptyFile
          /\ Statted
          /\ LET victim == WithOpened(f)[Loaded]
             IN  IF victim.kind = "memory"
                 THEN /\ status' = "memory_close"
                      /\ file_descriptors' = WithOpened(f)
                      /\ live' = AfterOpen(f)
                      /\ leaked' = leaked \cup {LowestFree}
                      /\ UNCHANGED hijacked
                 ELSE /\ file_descriptors' = Freed(WithOpened(f), victim)
                      /\ live' = AfterClose(AfterOpen(f), victim)
                      /\ leaked' = (leaked \cup {LowestFree}) \ {Loaded}
                      /\ hijacked' = (hijacked \/ Loaded \notin leaked \cup {LowestFree})
                      /\ UNCHANGED status
    /\ UNCHANGED <<mounted, held>>

\* A load that has nothing read: the last number is refused when it is asked for
\* its size, and a file or a pipe of no bytes when it is read.  The refusal's
\* status is closed, and so nothing is.
sys_execprocess_fails(path) ==
    /\ Running
    /\ \E f \in Opens(path, "r") :
          /\ ~Statted \/ path \in EmptyFile \/ f.kind = "pipe"
          /\ file_descriptors' = WithOpened(f)
          /\ live' = AfterOpen(f)
          /\ leaked' = leaked \cup {LowestFree}
    /\ UNCHANGED <<mounted, status, held, hijacked>>

\* A new pipe, behind the other mounts, even when the name is taken.
sys_open_ipc(path) ==
    /\ Running
    /\ IF Len(mounted) < MAX_MOUNTED
       THEN /\ mounted' = Append(mounted, [filename |-> path, kind |-> "pipe"])
            /\ UNCHANGED status
       ELSE /\ status' = "mounts"
            /\ UNCHANGED mounted
    /\ UNCHANGED <<file_descriptors, live, held, leaked, hijacked>>

\* A panic halts the machine; what a call through null does is not modelled.
Stopped == ~Running /\ UNCHANGED vfs_vars

VFSNext ==
    \/ \E p \in Program, path \in Path, mode \in {"r", "w"} : sys_fopen(p, path, mode)
    \/ \E path \in Path, mode \in {"r", "w"} : fopen_panics(path, mode)
    \/ \E path \in Path : fopen_refused(path)
    \/ \E h \in held : sys_fclose(h)
    \/ \E h \in held : sys_fread(h)
    \/ \E h \in held : sys_fseek(h)
    \/ \E path \in Path : sys_execprocess(path)
    \/ \E path \in Path : sys_execprocess_fails(path)
    \/ \E path \in IpcPath : sys_open_ipc(path)
    \/ Stopped

VFSSpec == VFSInit /\ [][VFSNext]_vfs_vars

----------------------------------------------------------------------------
Ended == {"missing", "full", "memory_close", "pipe_seek", "null", "mounts"}

\* The types of the tables and the histories.
TypeOK ==
    /\ mounted \in Seq(Mount) /\ Len(mounted) <= MAX_MOUNTED
    /\ file_descriptors \in [Number -> Descriptor \cup {None}]
    /\ live \subseteq Private
    /\ status \in {"run"} \cup Ended
    /\ held \subseteq Program \X Descriptor
    /\ leaked \subseteq Number
    /\ hijacked \in BOOLEAN

\* Until a load has closed a number that a program held (process.cpp:61), every
\* number a program got from fopen and did not close denotes what it opened,
\* whoever else opened and closed files in between.
HeldIsOpen == ~hijacked => \A h \in held : file_descriptors[h[2].index] = h[2]

\* And no number is lost: what is open is held by exactly one program or was
\* left open by a load, which nobody can close again.
NumbersAccounted ==
    ~hijacked =>
        /\ Number \ FreeNumbers = {h[2].index : h \in held} \cup leaked
        /\ \A h \in held : h[2].index \notin leaked
        /\ \A h, k \in held : h[2].index = k[2].index => h = k

\* A private descriptor of FAT16 is freed with the one descriptor that points
\* to it and not before, even when a load closes somebody else's; only the
\* assertion over a full table comes between the two (file.c:227-233).
PrivatesOwned ==
    LET fat == {n \in Number : file_descriptors[n] # None /\ file_descriptors[n].kind = "fat16"}
    IN  /\ \A n, m \in fat : file_descriptors[n].data = file_descriptors[m].data => n = m
        /\ status # "full" => live = {file_descriptors[n].data : n \in fat}

\* A program that uses only numbers it holds makes the kernel follow a null
\* descriptor (file.c:268-270) only with one that a load closed under it, or with
\* the last number, which the look-up of file.c:76 rejects.
NullHasCause ==
    status = "null" =>
        \E h \in held :
            LET n == h[2].index
            IN  n = MAX_FILEDESCRIPTORS \/ (hijacked /\ file_descriptors[n] = None)

\* A path keeps its meaning: a mount may put a longer prefix in front of it,
\* never another file system behind the same one.
BindingsStable ==
    [][\A path \in Path : PrefixMounts(path) # {} =>
          MountOf(path)' = MountOf(path) \/ Longest(path)' > Longest(path)]_vfs_vars
==============================================================================
