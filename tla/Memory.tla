------------------------------- MODULE Memory -------------------------------
(***************************************************************************)
(* The memory of processes (task/process.cpp, memory/paging/paging.c) on   *)
(* the kernel heap: loading a program, its arguments, which crt0 asks for  *)
(* before it calls main, its malloc and free, and its end.                 *)
(* Each step makes one call to the heap; a handler is several steps, and   *)
(* while one is under way (pc) nothing else moves.                         *)
(*                                                                         *)
(* A pointer into the heap is the number of its block, and a page of the   *)
(* identity map has the size of a block.  Every page is mapped readable    *)
(* for everybody; `writable' is what a process has been given to write,    *)
(* at whatever address.  A file may be anything, its program headers too.  *)
(* The kernel's own objects (task, directory, paths) use the same heap in  *)
(* pairs of calls and are left out.                                        *)
(***************************************************************************)
EXTENDS Heap

CONSTANTS
    Process,            \* addresses of struct process
    Index,              \* 0 .. PROCESS_MAX_ALLOCATIONS - 1
    Base,               \* the pages below the heap
    ImageSize, StackSize, FramebufferSize,
    Segments,           \* program headers: p_offset, p_filesz, p_memsz, PF_W
    MaxSegments,        \* how many a file may have
    Argc, ArgumentSize, \* argc of the first program, and what a string takes
    MaxLoads            \* how many programs are loaded in all

ASSUME MemoryAssumption ==
    /\ Index \subseteq Nat
    /\ Base \in Nat \ {0}
    \* A file of FAT16 has less than 2^16 - 11 clusters of at most 64 KiB, and a
    \* stack is 16 KiB: rounding them up to blocks does not wrap.
    /\ {ImageSize, StackSize} \subseteq 1 .. (Word - BlockSize)
    /\ {FramebufferSize, ArgumentSize} \subseteq 1 .. (Word - 1)
    /\ Segments \subseteq [offset : 0 .. (Word - 1), filesz : 0 .. (Word - 1),
                          memsz : 0 .. (Word - 1), write : BOOLEAN]
    /\ MaxSegments \in Nat
    /\ Argc \in 0 .. (Word - 1) /\ MaxLoads \in Nat
    /\ (Base + Total) * BlockSize <= Word

VARIABLES
    alive,          \* the processes in the table
    allocations,    \* process->allocations
    image, stack,   \* the ELF file in memory, process->stack
    writable,       \* the pages that the page directory lets a process write
    loads,          \* the loads so far
    pc, who, index, \* the step of the handler, its process, its loop counter
    argc,           \* process->argc
    started,        \* the programs that are in their main
    hollow,         \* history: the places whose pointer reserves nothing (any more)
    leaked,         \* history: what failed loads left allocated
    beyond          \* history: who was given to write what it never allocated

heap == <<entries, live, spilled>>
process == <<alive, allocations, image, stack, writable, argc, started, loads>>
histories == <<hollow, leaked, beyond>>
memory_vars == <<heap, process, pc, who, index, histories>>

Null == -1
Pointer == Block \cup {Null}
LowestIndex(S) == CHOOSE i \in S : \A j \in S : i <= j

\* The places that hold pointers to memory of a process.
ImagePlace == -1
StackPlace == -2
Places == Process \X (Index \cup {ImagePlace, StackPlace})
Held(place) ==
    CASE place[2] = ImagePlace -> image[place[1]]
      [] place[2] = StackPlace -> stack[place[1]]
      [] OTHER -> allocations[place[1]][place[2]]

Owners(a) == {place \in Places \ hollow : Held(place) = a.start}
Has(p, a) == \E place \in Owners(a) : place[1] = p
PagesOf(a) == {Base + b : b \in Blocks(a)}

----------------------------------------------------------------------------
\* Calls to the heap.

Pointed(size) ==
    LET s == heap_get_start_block(total_blocks(size)) IN IF s = -ENOMEM THEN Null ELSE s

kmalloc(size) == heap_malloc(size) \/ heap_malloc_fails(size)

\* A free of any pointer; what its walk runs over is allocated no more.
Hit(pointer) == {a \in live : Blocks(a) \cap Chain(pointer) # {}}

kfree(pointer) ==
    /\ heap_mark_blocks_free(pointer)
    /\ live' = live \ Hit(pointer)
    /\ UNCHANGED spilled

\* The history of a free of what a place holds: through a pointer that reserves
\* nothing it takes from others, who are left with such pointers.
Hollowed(place) ==
    (hollow \ {place}) \cup
        (IF place \in hollow THEN UNION {Owners(a) : a \in Hit(Held(place))} ELSE {})

Released(place) ==
    /\ hollow' = Hollowed(place)
    /\ leaked' = leaked \ Hit(Held(place))

----------------------------------------------------------------------------
\* Pages: null is address 0.

Address(p) == IF p = Null THEN 0 ELSE (Base + p) * BlockSize

paging_align_address(address) ==
    IF address % BlockSize = 0 THEN address
    ELSE (address + BlockSize - (address % BlockSize)) % Word

\* The end of what is mapped for size bytes from an address, and the pages up to
\* it; none, and an error, when the end wraps round to in front of the first.
MapEnd(at, size) == paging_align_address((at + size) % Word)
MapFails(at, size) == MapEnd(at, size) < at - (at % BlockSize)

\* Mutated: one page more than the block has.
OneMore(at, size) == (at \div BlockSize) .. (MapEnd(at, size) \div BlockSize)

Mapped(at, size) == (at \div BlockSize) .. ((MapEnd(at, size) \div BlockSize) - 1)

\* What a process is given to write: memory of its own, or what never was.
Writes(p, pages, own) ==
    /\ writable' = [writable EXCEPT ![p] = @ \cup pages]
    /\ beyond' = IF own \/ pages = {} THEN beyond ELSE beyond \cup {p}

----------------------------------------------------------------------------
\* The allocations of a process.

FreeIndexes(p) == {i \in Index : allocations[p][i] = Null}

process_get_next_allocation_index(p) == LowestIndex(FreeIndexes(p))

\* The mapping fails, on a size that no heap has room for: what the heap could
\* give is freed again, and its pointer stays in the table.
MappingRefused(p, size) ==
    /\ MapFails(Address(Pointed(size)), size)
    /\ spilled' = spilled \cup {b \in Pointed(size) .. (Pointed(size) + total_blocks(size) - 1) :
                                 b >= Total}
    /\ allocations' = [allocations EXCEPT
                         ![p][process_get_next_allocation_index(p)] = Pointed(size)]
    /\ hollow' = hollow \cup {<<p, process_get_next_allocation_index(p)>>}
    /\ UNCHANGED <<entries, live, leaked>>

\* A null pointer is mapped like any other: the pages from address 0 on.
MappedAt(p, size) ==
    /\ ~MapFails(Address(Pointed(size)), size)
    /\ kmalloc(size)
    /\ allocations' = [allocations EXCEPT
                         ![p][process_get_next_allocation_index(p)] = Pointed(size)]
    /\ hollow' = IF total_blocks(size) = 0 /\ Pointed(size) # Null
                 THEN hollow \cup {<<p, process_get_next_allocation_index(p)>>} ELSE hollow
    /\ UNCHANGED leaked

\* What process_malloc_flags does but for the pages, which its flags decide.
process_malloc_flags(p, size) ==
    IF FreeIndexes(p) = {} THEN UNCHANGED <<heap, allocations, hollow, leaked>>
    ELSE MappingRefused(p, size) \/ MappedAt(p, size)

Refused(p, size) == FreeIndexes(p) = {} \/ MapFails(Address(Pointed(size)), size)

\* The pointer that it returns.
Given(p, size) == IF Refused(p, size) THEN Null ELSE Pointed(size)

process_malloc(p, size) ==
    /\ process_malloc_flags(p, size)
    /\ Writes(p, IF Refused(p, size) THEN {} ELSE Mapped(Address(Pointed(size)), size),
              Pointed(size) # Null)

----------------------------------------------------------------------------
MemoryInit ==
    /\ HeapInit
    /\ alive = {}
    /\ allocations = [p \in Process |-> [i \in Index |-> Null]]
    /\ image = [p \in Process |-> Null]
    /\ stack = [p \in Process |-> Null]
    /\ writable = [p \in Process |-> {}]
    /\ pc = "user" /\ who = Null /\ index = 0
    /\ argc = [p \in Process |-> 0]
    /\ started = {} /\ loads = 0
    /\ hollow = {} /\ leaked = {} /\ beyond = {}

\* Loading a program: its file is read into the heap.  Without memory for it, or
\* when it is no program, the load fails.  Only kernel_main gives the program
\* that it loads arguments.
exec(p) ==
    /\ pc = "user"
    /\ p \notin alive
    /\ loads < MaxLoads
    /\ kmalloc(ImageSize)
    /\ loads' = loads + 1
    /\ argc' = [argc EXCEPT ![p] = IF loads = 0 THEN Argc ELSE 0]
    /\ image' = [image EXCEPT ![p] = Pointed(ImageSize)]
    /\ pc' \in IF Pointed(ImageSize) = Null THEN {"unload"} ELSE {"stack", "unload"}
    /\ who' = p
    /\ UNCHANGED <<alive, allocations, stack, writable, index, started, histories>>

\* With the stack there is a task, and a page directory; all is mapped as it
\* is, and nothing for writing.
load_stack ==
    /\ pc = "stack"
    /\ kmalloc(StackSize)
    /\ stack' = [stack EXCEPT ![who] = Pointed(StackSize)]
    /\ pc' = IF Pointed(StackSize) = Null THEN "unload" ELSE "segment"
    /\ UNCHANGED <<alive, allocations, image, writable, who, index, histories, argc, started, loads>>

\* A segment with zeroes behind it gets memory of its own, and p_vaddr is mapped
\* onto it.  Where there was none to have, that is what lies at address 0.
ZeroedSegment(segment) ==
    LET given == Given(who, segment.memsz)
    IN  /\ segment.memsz > segment.filesz
        /\ process_malloc_flags(who, segment.memsz)
        /\ Writes(who, IF segment.write THEN Mapped(Address(given), segment.memsz) ELSE {},
                  given # Null)
        /\ UNCHANGED pc

\* The other segments are mapped where they are in the image, or where the file
\* says that they are; the load fails when the end wraps.
FileSegment(segment) ==
    LET at == (Address(image[who]) + segment.offset) % Word
    IN  /\ segment.memsz <= segment.filesz
        /\ IF MapFails(at, segment.memsz) THEN pc' = "unload" /\ UNCHANGED <<writable, beyond>>
           ELSE /\ pc' = "segment"
                /\ Writes(who, IF segment.write THEN Mapped(at, segment.memsz) ELSE {},
                          /\ segment.offset + segment.memsz <= ImageSize
                          /\ Address(image[who]) + segment.offset + segment.memsz <= Word)
        /\ UNCHANGED <<heap, allocations, hollow, leaked>>

load_segment(segment) ==
    /\ pc = "segment"
    /\ index < MaxSegments
    /\ index' = index + 1
    /\ ZeroedSegment(segment) \/ FileSegment(segment)
    /\ UNCHANGED <<alive, image, stack, who, argc, started, loads>>

\* After the last segment, the stack; and then there is a process.
load_map ==
    /\ pc = "segment"
    /\ index' = 0
    /\ IF MapFails(Address(stack[who]), StackSize)
       THEN pc' = "unload" /\ UNCHANGED <<alive, writable, beyond>>
       ELSE /\ pc' = "framebuffer"
            /\ alive' = alive \cup {who}
            /\ Writes(who, Mapped(Address(stack[who]), StackSize), TRUE)
    /\ UNCHANGED <<heap, allocations, image, stack, who, hollow, leaked, argc, started, loads>>

\* A load that fails frees the task with its page directory, if there is one, and
\* the image, and then what there was in place of a process: the stack and the
\* allocations stay taken, and nobody has a pointer to them.  Without the first
\* program the kernel panics.
load_fails ==
    /\ pc = "unload"
    /\ writable' = [writable EXCEPT ![who] = {}]
    /\ beyond' = beyond \ {who}
    /\ kfree(image[who])
    /\ image' = [image EXCEPT ![who] = Null]
    /\ stack' = [stack EXCEPT ![who] = Null]
    /\ allocations' = [allocations EXCEPT ![who] = [i \in Index |-> Null]]
    /\ hollow' = {place \in Hollowed(<<who, ImagePlace>>) : place[1] # who}
    /\ leaked' = (leaked \cup {a \in live : Has(who, a)}) \ Hit(image[who])
    /\ index' = 0
    /\ pc' = IF loads = 1 THEN "panic" ELSE "user"
    /\ who' = Null
    /\ UNCHANGED <<alive, argc, started, loads>>

load_framebuffer ==
    /\ pc = "framebuffer"
    /\ process_malloc(who, FramebufferSize)
    /\ pc' = "user" /\ who' = Null
    /\ UNCHANGED <<alive, image, stack, index, argc, started, loads>>

sys_malloc(p, size) ==
    /\ pc = "user"
    /\ p \in started
    /\ process_malloc(p, size)
    /\ UNCHANGED <<alive, image, stack, pc, who, index, argc, started, loads>>

\* What crt0 calls before main: an array of argc pointers, which is of no bytes
\* but for the first program, and then the strings.
sys_get_process_arguments(p) ==
    /\ pc = "user"
    /\ p \in alive \ started
    /\ started' = started \cup {p}
    /\ process_malloc(p, argc[p])
    /\ IF argc[p] = 0 THEN pc' = "user" /\ who' = Null ELSE pc' = "strings" /\ who' = p
    /\ index' = argc[p]
    /\ UNCHANGED <<alive, image, stack, argc, loads>>

next_argument ==
    /\ pc = "strings"
    /\ process_malloc(who, ArgumentSize)
    /\ IF index = 1 THEN pc' = "user" /\ who' = Null ELSE UNCHANGED <<pc, who>>
    /\ index' = index - 1
    /\ UNCHANGED <<alive, image, stack, argc, started, loads>>

\* Mutated: the slot keeps the pointer.
SlotKept(p, pointer) ==
    LET slots == {i \in Index : allocations[p][i] = pointer}
    IN  IF slots = {} \/ pointer = Null THEN UNCHANGED <<heap, allocations, hollow, leaked>>
        ELSE /\ kfree(pointer)
             /\ Released(<<p, LowestIndex(slots)>>)
             /\ UNCHANGED allocations

\* Mutated: the pointer need not be one of the process.
FreeAnything(p, pointer) ==
    /\ kfree(pointer)
    /\ allocations' = [allocations EXCEPT
           ![p] = [i \in Index |-> IF @[i] = pointer THEN Null ELSE @[i]]]
    /\ UNCHANGED <<hollow, leaked>>

\* The first slot with the pointer; the mapping stays.
process_free(p, pointer) ==
    LET slots == {i \in Index : allocations[p][i] = pointer}
    IN  IF slots = {} THEN UNCHANGED <<heap, allocations, hollow, leaked>>
        ELSE /\ kfree(pointer)
             /\ allocations' = [allocations EXCEPT ![p][LowestIndex(slots)] = Null]
             /\ Released(<<p, LowestIndex(slots)>>)

sys_free(p, pointer) ==
    /\ pc = "user"
    /\ p \in started
    /\ process_free(p, pointer)
    /\ UNCHANGED <<alive, image, stack, writable, pc, who, index, argc, beyond, started, loads>>

\* The end of a process: it leaves the table, and unless it was the last one,
\* over which the kernel panics, its memory is freed, pointer by pointer.
process_terminate(p) ==
    /\ pc = "user"
    /\ p \in alive
    /\ alive' = alive \ {p}
    /\ started' = started \ {p}
    /\ pc' = IF alive = {p} THEN "panic" ELSE "free"
    /\ who' = p
    /\ index' = 0
    /\ UNCHANGED <<heap, allocations, image, stack, writable, histories, argc, loads>>

free_allocation ==
    /\ pc = "free"
    /\ index \in Index
    /\ kfree(allocations[who][index])
    /\ Released(<<who, index>>)
    /\ allocations' = [allocations EXCEPT ![who][index] = Null]
    /\ index' = index + 1
    /\ UNCHANGED <<alive, image, stack, writable, pc, who, argc, beyond, started, loads>>

\* The task and its page directory, then the image.
free_image ==
    /\ pc = "free"
    /\ index \notin Index
    /\ writable' = [writable EXCEPT ![who] = {}]
    /\ beyond' = beyond \ {who}
    /\ kfree(image[who])
    /\ Released(<<who, ImagePlace>>)
    /\ image' = [image EXCEPT ![who] = Null]
    /\ pc' = "free_stack"
    /\ UNCHANGED <<alive, allocations, stack, who, index, argc, started, loads>>

\* The stack; process->bss is always null.
free_stack ==
    /\ pc = "free_stack"
    /\ kfree(stack[who])
    /\ Released(<<who, StackPlace>>)
    /\ stack' = [stack EXCEPT ![who] = Null]
    /\ index' = 0
    /\ pc' = "user" /\ who' = Null
    /\ UNCHANGED <<alive, allocations, image, writable, argc, beyond, started, loads>>

Panicked == pc = "panic" /\ UNCHANGED memory_vars

MemoryNext ==
    \/ \E p \in Process : exec(p)
    \/ load_stack
    \/ load_fails
    \/ \E segment \in Segments : load_segment(segment)
    \/ load_map
    \/ load_framebuffer
    \/ \E p \in Process : sys_get_process_arguments(p)
    \/ next_argument
    \/ \E p \in Process, size \in Sizes : sys_malloc(p, size)
    \/ \E p \in Process, pointer \in Pointer : sys_free(p, pointer)
    \/ \E p \in Process : process_terminate(p)
    \/ free_allocation
    \/ free_image
    \/ free_stack
    \/ Panicked

MemorySpec == MemoryInit /\ [][MemoryNext]_memory_vars

----------------------------------------------------------------------------
\* Every block of the heap that is taken belongs to one place of one process, or,
\* left behind by a failed load (process.cpp:202-216), to nobody for ever; and
\* every pointer of a process to a block that is taken, unless it is one that
\* never reserved any (a size of nothing: the arguments of every program but the
\* first) or whose blocks were freed through such a pointer.  Nothing else is
\* leaked, nothing freed twice or shared, through loads that fail at any of their
\* steps and processes that end.
OwnedOnce ==
    /\ \A a \in live \ leaked : \E place \in Owners(a) : Owners(a) = {place}
    /\ \A a \in leaked : a \in live /\ Owners(a) = {}
    /\ \A place \in Places \ hollow :
          Held(place) # Null => \E a \in live : a.start = Held(place)
    /\ hollow \subseteq {place \in Places : Held(place) # Null}

OwnPages(p) == UNION {PagesOf(a) : a \in {x \in live : Has(p, x)}}

\* What a process comes to write is memory that it has at that moment, be it the
\* image, the stack or an allocation, unless it was given what is nobody's to
\* give: the pages from address 0, for a pointer that came back null
\* (process.cpp:101-115, 278-283), or what a file has no bytes for.  The mapping
\* of a freed block outlives it (process.cpp:293-301); that of a block never
\* reaches somebody else's.
MapsOnlyOwn ==
    [][\A p \in Process \ beyond' :
          writable'[p] \ writable[p] \subseteq OwnPages(p)']_memory_vars

\* No end of a process, no free and no failed load takes a block from a process
\* that keeps the pointer to it, except through a pointer that reserves nothing.
OthersKeepTheirs ==
    [][\A p \in alive : \A i \in Index :
          LET kept == allocations[p][i]
          IN  kept # Null /\ allocations'[p][i] = kept /\ <<p, i>> \notin hollow' =>
                 \A a \in live : a.start = kept => a \in live']_memory_vars
=============================================================================
