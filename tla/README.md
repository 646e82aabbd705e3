# GitOS in TLA+

A verification development for the kernel and the graphical shell of GitOS
(`src/kernel`, `src/userland`). Paths below are relative to the repository, and
`task.c:72` abbreviates `src/kernel/task/task.c` line 72.

## 1. Inventory of the system

GitOS is a 32-bit, single-processor, monolithic kernel. Two facts shape every
model:

* every gate is an *interrupt gate* (`idt.c:73`, type 0xE) and nothing executes
  `sti`, so the kernel never runs two handlers at once: **a system call, an
  exception or an IRQ handler is one atomic step**, and the interleaving that
  remains is that of user programs between system calls, cut by the timer (1000 Hz,
  `kernel.cpp:101`), the keyboard and the mouse;
* a handler ends either by returning to the interrupted task or by
  `task_switch(t); task_return(&t->registers)`, which abandons the kernel stack.

| Component | Source | State | Operations |
|---|---|---|---|
| Kernel heap | `memory/heap/*` | one byte per 4 KiB block: TAKEN, HAS_NEXT | `heap_create`, `heap_malloc`, `heap_free`, `kmalloc`, `kzalloc`, `kfree` |
| Paging | `memory/paging/*` | page directories, `current_directory`, cr3 | new/free directory, switch, get/set page, map ranges |
| Tasks | `task/task.c`, `task.asm` | doubly linked list `task_head`..`task_tail`, `current_task`, saved registers | `task_new`, `task_free`, `task_list_remove`, `task_get_next`, `task_switch`, copy-in helpers |
| Processes | `task/process.cpp` | `processes[12]`, `current_process`, per process 1024 allocations, keyboard ring, stack, ELF | load, terminate, malloc/free, pushkey/popkey |
| System calls | `syscall/*` | handler table | 17 handlers; exec, exit, malloc, files, IPC |
| Interrupts | `idt/*`, `kernel.cpp` | handler table | timer, exceptions, keyboard (0x21), mouse (0x2C) |
| VFS | `fs/file.c`, `fs/Path.cpp` | 1024 global descriptors, mount table | fopen/fread/fwrite/fseek/fstat/fclose, mount |
| FAT16 | `fs/fat16/*`, `drivers/disk/*` | partition header, root directory, per file position and cluster cache, stream position | resolve, open, read, seek, stat, close |
| PipeFS | `fs/pipe/*` | byte ring: read index, write index, count | read, write, stat |
| MemoryFS | `fs/memory/*` | buffer index shared by every descriptor | read, write, seek, stat |
| PS/2 keyboard | `drivers/ps2keyboard/*` | shift, caps lock | IRQ 1 handler |
| PS/2 mouse | `drivers/ps2mouse/*` | 3-byte packet assembler | IRQ 12 handler |
| PIC | `drivers/pic/*` | in-service bits (hardware) | remap, EOI |
| ELF loader | `formats/elf/*` | file image | validity, program headers |
| Shell / window server | `userland/shell`, `wintest`, `window.h` | windows[32], IPC pipe, its own frame buffer, the pixels under the cursor | message loop, drag and drop, cursor |
| Command line | `userland/zofia` | the line | keys, commands |
| User library | `userland/stdlib` | text cursor, canvas | strings, formats, frame buffer, BMP |
| Kernel strings | `common/string.c`, `memory/memory.c` | none | copies, comparisons, numbers, `kvsprintf` |
| Graphics | `drivers/graphics/*` | video memory, text cursor, colour | print, scroll, clear, pixels |
| Boot loaders | `bootloaders/*`, `kernel.cpp` | the longest region of memory | parse the map, place the heap |
| GDT, TSS, serial | rest | straight-line set-up | |

### How the components interact

User programs reach the kernel through `int 0x80`; `syscall.cpp` dispatches to the
handlers, which call the process layer (`exec`, `exit`, `malloc`, `free`,
`popkey`), the VFS (`fopen` ... `fclose`) and, for `open_ipc`, mount a new PipeFS.
The VFS picks a file system by the longest mounted prefix and calls it through the
table of its function pointers; FAT16 reads the disk by polling, with interrupts off.
Every object (task, process, descriptor, private descriptor, path, pipe buffer,
program image) lives on the one kernel heap. The timer interrupt changes
`current_task`; the mouse interrupt writes a packet to a PipeFS mounted at boot; the
keyboard interrupt pushes a key to the ring of the *current process*. Window clients
and the shell talk through one pipe, whose bytes are messages with a header.

### What is hard, and what makes each component correct

| Component | Hard behaviour | Correct when |
|---|---|---|
| Heap | a byte table without lengths; repeated frees; a scan with a fall-through at the end | nothing is handed out twice, a free undoes exactly its malloc |
| Tasks, processes | removal while another task is current; two notions of "current"; addresses reused | the list is the allocated tasks, the table agrees with it, every task runs again |
| PipeFS | wrap, drop of the oldest, blocks larger than the ring | it is a queue of the newest bytes |
| VFS | one number space for all programs; a load that closes a number not its own | a held number denotes what was opened; nothing leaks |
| FAT16 | a walk with a cache per descriptor, three nested loops with carry-over | a read returns the file's bytes and ends |
| Keyboard, mouse, PIC | a stream assembled byte by byte over interrupts; a ring at its limit; EOI on every path | no byte is attributed to the wrong field; no interrupt line stays blocked |
| Process memory, paging | an allocation shared by heap, page tables and a table of 1024 slots; error paths | a page is mapped for the process that owns it and for nobody else |
| Window protocol | messages written in several calls to a pipe that drops bytes | the reader's frame boundaries are the writers' |
| Shell drawing, MemoryFS | two buffers kept alike by rows, through one position that every program moves and a seek that may be refused | the screen shows what was drawn, the cursor leaves no trail |
| Directories of FAT16 | counted along the disk, read along the chain, names put together in a short array; objects allocated at every level | an open arrives at what the path denotes and gives back what it took |
| Text output | wrap, return, line feed, scroll and clear in three copies | the screen is the end of the text |
| Strings, paths, pictures | two libraries that differ, prefixes taken for matches, padded rows stored upside down | they agree with what their callers go by |

Nothing is persisted (the disk is only read) and there is one processor, so crash
recovery and lock-order deadlocks do not occur; `PROJECT.json` lists the hazards
line by line.

## 2. Plan

Modules in the order in which they are (or will be) written: first what every other
component stands on, then what programs see.

| # | Module | Models | Composes | Proofs | Status |
|---|---|---|---|---|---|
| 1 | `Heap` | the kernel heap | | `MemoryProof` | done |
| 2 | `Tasks` | task list, process table, timer, exec, exit, crash | | `TasksProof` | done |
| 3 | `PipeFS`, `Fifo`, `Queue` | the byte ring and what it promises | `PipeFS` implements `Fifo`, which is a `Queue` | `PipeFSProof` | done |
| 4 | `FAT16` | a read through the cluster chain down to the sectors | | `FAT16Proof` | done |
| 5 | `VFS` | mounts, descriptors, the descriptors of a load | | `VFSProof` | done |
| 6 | `Input` | keyboard, mouse, PIC, key ring | | `DevicesProof` | done |
| 7 | `Memory` | memory of processes: load, arguments, malloc, free, end | extends `Heap` | `MemoryProof` | done |
| 8 | `Window` | shell and window clients over the IPC pipe | extends `Queue`, the abstract pipe | `WindowProof` | done (no CLOSE) |
| 9 | `Strings`, `Calls`, `Path`, `Lookup` | the string routines of kernel and programs, and calls of them; splitting a path; how `fopen` finds the mount that serves it | `Lookup` extends `Path`, which extends `Strings`, as does `Calls` | `LibraryProof` | done |
| 10 | `Directory` | mounting a partition, walks along subdirectories, the objects they take | extends `Path` | `LibraryProof` | done |
| 11 | `MemoryFS` | the shared position, seek and bounds of the frame buffer file | | `LibraryProof` | done |
| 12 | `Desktop` | what the shell draws, drags and drops | extends `MemoryFS` | `LibraryProof` | done |
| 13 | `Console`, `Canvas` | text and pixels in all variants, pictures | | `DevicesProof` | done |
| 14 | `Boot`, `Zofia` | from the loader's map to the heap; the command line | `Zofia` extends `Path` | `LibraryProof` | done |

`VFS`, `Input`, `Memory` and `Window` have an MC module of their own name. `MCKernel` puts 1 to 4 together and
`MCLibrary` 9 to 14, because they share no state: in a behaviour one of them is at work, which `unit` says. The partition
of `FAT16` is in `MCFAT16`.

Abstract specifications: `Fifo` (the pipe), whose queue `Queue` is what `Window` is written
on; the directories as they are meant (`Denoted` in `Directory`), the paper that a text is
written on (`paper` in `Console`), the line that was meant (`Edited` in `Zofia`), the mount that
serves a path, told without a loop (`MountsMatch` in `Lookup`), a picture's format (`Stored` in `Canvas`), and the
value of digits, dictionary order and expected output against which `Calls` holds the
string routines.

Theorems worth proving, in order of weight: the heap's byte table, the task list and the
process table, the descriptors, the key ring and the lines in service (`Input`), the
ownership of process memory (`Memory`), the message boundaries (`Window`), the sectors of a
read (`FAT16`), that the ring is a queue (`PipeFS`), the text on the screen (`Console`), the shared
position (`MemoryFS`), the shell's rows and its cursor (`Desktop`), the heap objects of a walk and where
it ends (`Directory`), the mount of a path (`Lookup`), the place of the heap (`Boot`), the line that is
run (`Zofia`), the picture (`Canvas`) and what the string routines answer (`Calls`): all done. What is left to
the runs alone are the liveness properties.

## 3. The modules and the code

Every definition that models code is mapped to its lines in `PROJECT.json`. Definitions
under a comment "Mutated: ..." are plausible bugs, each used by one mutant to show that
a property would notice it. Variables marked "history" are no state of the program: they
record what happened, so that a property can speak of it.

### Heap

`entries[b]` is the table byte of block `b` as a set of flags. `heap_malloc` is size
rounding (modulo `Word`, 2^32 in the code), the scan and the marks; `heap_free` is the
walk along HAS_NEXT. `live` (history) is what was handed out. The scan
(`heap_get_start_block`) is the loop of the code, turn by turn (`Iterate`, `Turns`); `FirstFit` says that it
finds the first run that is long enough, when there is one. `spilled` are the table
entries past the end that an over-long allocation marks.

The contract of a free is the kernel's: a pointer is freed once, or is null, or is
freed again while nothing was allocated in between (`heap_free_stale`; `Path.cpp:79` does
so with its first part).

Two edges are in the model because they are in the code. A size in the last block of the
address space rounds to 0, and a request of no blocks returns a pointer that reserves
nothing. And when no run is long enough, the free tail of the table is returned
(`heap.c:113`), which the run `heap_tail` shows: see section 5.

### Tasks, processes

`next` and `prev` are fields of structs that may have been freed: a freed struct keeps
its contents until its address is allocated again, and the list code does read it. One
address names a process and its task, which are created and freed together. The actions
are the handlers: `timer_interrupt`, `sys_execprocess` (with `_fails` for a load that
fails after `task_new`, `_full` for a full table), `sys_exit` (which ends
`current_process`), `kernel_exception` (which ends `current_task`). `status` is
`"wild"` once the kernel runs a freed task; what follows is not modelled. `stale`
(history) records that a task was removed through a `prev` that was not its predecessor.

### PipeFS, Fifo and Queue

`Queue` has the operators of a bounded queue that drops its oldest bytes, `Fifo` the
specification of a pipe written with them.
`pipe` is the object with its four fields; `read` and `write` of one block are operators,
a call of `nmemb` blocks goes through the pipe as it is after each block (the recursive functions in
`Written` and `ReadIn`). `in` and `out` hold what the last call handed
over and got, so that the refinement speaks of the data and not only of the queue.
A block that would overrun the buffer in its second copy (more than twice the size less
the write index) is outside the model.

### FAT16

A byte is named by its position on the disk, so that `out` says where each byte came
from. A read is a sequence of steps: `fat16_read` (the call), `at_cluster` (choice of
the start of the walk, with the cache), `walk_next`, `walk_ends` (cache update, stream
position), `at_sector` (one turn of the disk stream), `next_block`, `read_returns`. The
ends of the kernel are values of `pc`: `"panic"` (an assertion), `"hung"` (a read past the
end of the disk waits for ever; the drive is external), `"wild"` (an end mark other than
FFF8 and FFFF is followed as a cluster), `"missing"` (null descriptor). Negative seeks
arrive as huge ones and are refused. How a file is found is `Directory`'s.

### VFS

`mounted` is the mount table, `file_descriptors` the global table, `live` the private
descriptors of FAT16. A path is its sequence of parts. `sys_execprocess` contains what a
load does to descriptors: it opens the program, reads it as one block, and closes *the
number the read returned*, 1. `held` (history) pairs every program with what its `fopen`s
returned, `leaked` are the numbers left open by loads, `hijacked` says that a load closed
a number that a program held. The last number is refused by `fstat`: a load that is given it fails, leaves it
open and closes nothing. Programs are assumed to use only numbers they hold: the
question is whether the kernel keeps faith with those.

### Input

The two devices share the controller's one output buffer (`output`); the controller asks
for IRQ 1 or IRQ 12 while a byte of that device is in it. That buffer, the lines of the
PICs and the devices are external and modelled from how the handlers use them. A handler
is not interrupted, but the buffer may be filled again between its two reads: hence
`keyboard_interrupt` (acknowledge, first read) and `keyboard_handler` (second read and
the rest), and one step per turn of the loop of the mouse handler.
`pic_EOI` is a non-specific end of interrupt, to both PICs for lines from 8 on.
The ring's counters are kept modulo its size, which is exact because 1024 divides 2^32.
Of a mouse byte the model keeps its place in the packet and the bits the code tests; of
the keys one of each kind the code tells apart. Scan codes with a prefix byte and the
set-up of the mouse are not modelled. `MCInput` runs two scenarios: in `"race"` both
devices send, in `"keys"` the keyboard alone, with more keys.

### Memory

`Memory` extends `Heap` and adds what processes do with it: a load (`exec` reads the file, then `load_stack`,
a `load_segment` per program header, `load_map` of the stack, `load_framebuffer`), `sys_get_process_arguments`,
which crt0 calls before `main`, `sys_malloc`, `sys_free` of any pointer, and the end of a
process as one step per kfree. `pc` is the place in the
handler; while one is under way nothing else moves. A file may have any program headers: a segment with
zeroes behind it (`ZeroedSegment`) gets memory of its own, any other (`FileSegment`) is mapped where the file
says. A load fails for want of memory, over the file's header, over a mapping of a segment or of the stack that
wraps, and each time `load_fails` frees the task's directory and the image only: what else the load had
is `leaked` (history), allocated to nobody. `writable[p]` are the physical pages
that the page directory of `p` maps for writing, at whatever address; a null pointer is mapped like
any other, so that a segment for which there was no memory, or whose own mapping was refused, makes the pages
from address 0 on writable, and a segment beyond the end of its file what lies there (`beyond`, history, is who
was given either); the mapping of a freed block stays. `hollow` (history) are the places whose
pointer reserves nothing: what a request of no blocks returns (the argument array of a program
without arguments is one), what a refused mapping leaves behind, and, once
something was freed through such a pointer, the pointers of those it was taken from. Everything
else is claimed to be owned exactly once, also after that. The kernel's own
objects, what a copy to address 0 does to the memory there, and a `task_new` without memory are not modelled.

### Window

The shell (`shell.cpp:108-191`) and its clients (`wintest.cpp:20-57`); every system call is a
step, because the timer may come between any two. `write(c)` is the next `fwrite` of a client:
a frame goes in one, REGISTER and SET_SIZE each in two (header, body). The shell's place
in its loop is `pc`: `poll` (`fstat`), `read_preamble`, then `read_char`, `read_size` or
`read_frame` by the type of the message, and `draw`. It does not look at what `fread` returns: a
read that finds too little leaves the buffer as it was, and the shell goes on with the
old contents. The unit of the stream is four bytes, since all messages but names are
multiples of that; a unit says who wrote it and as what. When the shell takes a unit for
something else *and what it does next depends on it*, it is `"lost"`, and the model ends.
`new` clears nothing, so `dirty` and the first `char` are any value at the start. `early`, `mixed`
and `dropped` (history) are the three disturbances of section 5. CLOSE, which no
program sends, is not modelled; the layout of the screen and the mouse are `Desktop`'s.

### Strings, Calls, Path

Operators without state. A string is the sequence of its codes up to its NUL. Where the
kernel and the programs have different copies, both are there (`strncpy` and
`user_strncpy`, `kvsprintf` and `vsprintf`). What a format prints is a sequence of pieces, each
a character or an argument and the conversion it goes through; an argument is the place of its first word in the
argument list, so that a directive that takes too few or too many words shows. `Turn` is one turn of the
loop over a format. A number is a `Long`, which wraps. `Calls` calls the routines one after another and keeps
what the last call was given and answered; its formats are made of all directives that either library
knows (`Known`, `KernelOnly`) and of plain characters. `parse` splits a path and `reconstructed_path` joins its first parts again. The
buffers of `MAX_PATH` characters are taken to have room.

### Lookup

`fopen` from its path to the mount: `opening` says how far it is. `fopen` splits the path or refuses it; each
turn of the loop is a step, `mount_found` or `one_part_less`, by whether the first `n` parts joined are the
name of a mount (`IsMounted`, by length and contents). `mount` adds a name to the table between two opens. What
the file system then does with the rest of the parts is `Directory`'s, and the descriptor is `VFS`'s.

### Boot, Zofia

In `Boot` the machine is switched on with a magic number and a map (`power_on`); the loaders go over the map and
`kernel_main` places the heap in what they found, cut to the width of a pointer. In `Zofia`, `getc` is one key
of the command line and `run` what a line does (`process_command`); `typed` (history) are the keys of
the line, backspaces included, and `ran` (history) the line before with what it did.

### Canvas

A buffer is its bytes, so that a pixel which writes more than its own shows. `draw_background` is one turn of
the shell's two loops, a pixel or the end of a row. What a picture shows is given with its
file (`shows`), and the assumption says how the format stores it (`Stored`): rows from the bottom, each
padded to a multiple of four bytes. The kernel draws characters and no pictures; its `draw_pixel` is put
to the same test, since the difference of the two is what matters. A row is drawn `pitch` bytes behind the
one before, which `setup` computes from the width; where the card shows it is `line`, which belongs to the
hardware (external) and which the kernel never asks for.

### Console

One module for the three copies of the code (`device`). The cells of the screen are what was
drawn there, one glyph over the other in the graphical variants, which do not erase. `paper`
(history) is the text as a reader would have it; what the three do when they are cleared differs.

### Directory

An image is a record of slots and chains. `fat16_resolve` mounts it; `fat16_open` is a whole
walk: at each level the directory is allocated, counted (`OnDisk`), read (`OnChain`) and
searched (`find_item_in_directory`, which goes on after a match and drops it for a later
one). `heap` holds what is at each address, `opened` the descriptors with the objects of
their items. Ends of the kernel are values of `status`. `shadowed` and `exhausted` (history)
say that a name was found twice and that the heap was full. `Denoted` is the file that a path
denotes in the tree as it is meant, against which `WalkFinds` holds each open. The assumption on
partitions is that the root has an entry of kind zero, that names have no NUL, and that the subdirectories
which the requests name begin at a cluster: the entry `..` below the root, which says cluster 0, is not opened.

### MemoryFS, Desktop

`fb` is the file with its one index. In `MemoryFS` any programs use it, and `expected`
(history) is where each takes the position to be. `Desktop` is the shell over it: `set_up`,
and one round of its loop per step, with a frame of the client (`frame`) or a packet of the
mouse (`packet`), each drawing into `buffer` and copying rows to `fb`. The window may move off the
screen, as its coordinates are unsigned. `content_row` draws a row of the client's frame. `strayed` (history) says that a row
ended behind the last pixel.

## 4. Runs

| Run | Instance | Distinct states | Shows |
|---|---|---|---|
| `kernel` | four parts | 170,371 | the four of the next rows, each for itself |
| – heap | 6 blocks of 4 bytes, word 32, sizes 0, 1, 4, 6, 12, 31 | 960 | the byte table is exact, allocations are disjoint, frees and mallocs leave neighbours alone; the scan finds the first run that fits |
| – tasks | 3 addresses, 3 slots | 19,143 | table, tasks and current process agree in every order of events; the list is intact until a removal goes through a stale `prev`; round robin |
| – pipe | 4 bytes, blocks up to 6 bytes, 1 or 2 to a call | 3,714 | `PipeFS` implements `Fifo` |
| – fat16 | 4 clusters of 2 sectors of 2 bytes, 4 files, 2 descriptors | 146,554 | caches coherent, aligned blocks are the file's bytes, every read ends, the kernel panics past the end only |
| `vfs` | 3 descriptors, 5 mounts, 2 programs, 5 paths | 15,966 | held numbers denote what was opened, none is lost, private descriptors are freed exactly once, a null descriptor has one of two causes, paths keep their meaning |
| `input` | race: one key, three packets, both devices; keys: 3 keys, ring of 3 | 593,854 | no packet is torn, no line stays in service, the shared buffer is always emptied, unless a mouse byte was swallowed; the ring is a queue until lapped; shift does not stick |
| `memory` | 5 blocks, 2 processes, 2 allocation slots, 3 loads of up to 2 segments of five kinds, the first program with an argument | 478,474 | but for pointers that reserve nothing and what failed loads leave, no block leaks, is freed twice or is shared; a process comes to write only what it has, or what a null pointer or its file names; nobody's end takes from others |
| `window` | 2 clients, windows of 1 and 2 pixels, pipe of 5 units | 3,636,384 | message boundaries, names and frames stay whole unless a message is read before it is complete, two clients' messages mix, or the pipe overruns |
| `library` | below | 476,652 | the eleven properties of the sequential parts |

Why these bounds are enough. The heap's marks relate neighbouring blocks only, and six
blocks hold three neighbours of two blocks; one size wraps. Three tasks are the least
for head, middle and tail of a list, a full table and a reused address. The pipe's ring of four
bytes with blocks up to six has every wrap, an exact fit, partial drops and a block
larger than the ring. FAT16 has a file of three clusters out of order (a walk
forward, back and from the cache, so a chain in which no cluster is twice), offsets on, inside and past clusters, a block of more
than a cluster and one that ends on a sector. Three descriptors leave one number that
the look-up rejects, one that loads close and one between. In `Input` each handler can
meet a byte of the other device in every place; the ring of three keys can be filled,
lapped and drained. In `Memory` the heap is exhausted at each step of a second load, and a load fails at every step, with
one segment done or none; the table of allocations is full at the frame buffer of a program whose two
segments had zeroes, and one kind of segment asks for so much that its mapping is refused after the malloc.
The third load of `memory` finds what the first two left, and a pointer that reserves nothing
is given out, shared and freed. The pipe of `window` holds a message and a part of another, of
one client or of both, and is smaller than the four writes of a registration: the shell is met
by every split of a message and by overruns, while a client that is read
in time gets through registration to its frames.

`library` runs each of its parts over everything small: words of up to three of three letters, formats of up to
three of the twenty-one directives and two plain characters, one of them a letter of directives, all numbers of a 5-bit long, paths of up to four characters behind the drive against tables of up to
two of five mounts, one of them the beginning of another and one of two parts; maps of two regions
in and across a 16-byte address space, one of them just the kernel's own megabyte at the top of it; lines of up to
seven keys with backspaces and returns, up to and over the length of the array; pictures up to 4 by 3 on
canvases of 2 and 3 by 2, so that rows are padded by every amount and cut, on cards with and without room between rows; a console of 2 by 2
cells and two colours; a partition with three levels, one with a deleted entry, a full first cluster,
a subdirectory that is counted beyond its chain's first cluster and names that agree in all that is compared, one
with a regular root above such directories, and fifteen objects of
heap, which two open files and their lost items exhaust; a frame buffer of 20
pixels for two programs with every seek and block; and a screen of 4 by 5 with a window of
2 by 3 and a cursor of 2 by 2, eight rounds long: enough to drag it off the screen, drop it, and
move the cursor along two edges.

Deadlock is checked in every run: a kernel that panicked or ran wild stutters
explicitly (`Stopped`, `Panicked`). Symmetry is used where no definition tells the values
apart and no liveness is checked (`vfs`, `memory`).

### Fairness

* `Tasks`: weak fairness of `timer_interrupt` only: the timer chip ticks whatever programs
  do. `RoundRobin` is conditional on programs no longer starting and ending, because each of
  those moves `current_task` and can keep a task from its turn for ever.
* `FAT16`: weak fairness of the steps of a read: the handler runs with interrupts off, to
  its end.
* `Input`: weak fairness of the handlers: an interrupt that the PICs let through is taken,
  and its handler goes on. Nothing is assumed of devices and programs.
* Nowhere else: the sequential parts promise nothing that has to happen.

## 5. What the code does not keep

Six runs state what the repository says of the program and end in a counterexample.

* `heap_tail` / `InsideHeap`: when no run of free blocks is long enough, malloc returns the free blocks
  at the end of the table and marks bytes behind it (`heap.c:113`), where `heap.c:208` promises 0.
* `tasks_next` / `NextIsAllocated`: programs that end in the order of their start lead the
  timer to a freed task (`task.c:74`).
* `tasks_exit` / `ExitEndsCaller`: after a tick, `exit` ends the process started last, not
  its caller (`syscall.cpp:175`).
* `fat16_fragmented` / `ReadsFile`: a block that begins inside a cluster and crosses its end is
  read on from the next cluster of the disk (`fat16.c:422`).
* `library_strcmp` / `ZeroMeansEqual`: `strcmp` is zero also when the second string goes on where the first
  one ends (`string.c:518` of the kernel, and its copy for programs). `StringsAgree` says nothing of that case,
  and the order of a dictionary of all others; that mounts and commands are not taken in is `MountsMatch` and `LineEdited`.
* `library_pitch` / `ShownWhereDrawn`: on a card that leaves room between its rows the kernel draws skewed,
  since it computes the pitch itself (`vbe_graphics.cpp:171`).

Seen while modelling, and stated as the conditions under which the other properties
hold: a load closes descriptor 1 whoever has it, and leaks its own (`process.cpp:61`, `hijacked` and
`leaked`); the second read of the keyboard handler may swallow a byte of the mouse, after
which packets are torn and the early return of `PS2Mouse.cpp:30` leaves IRQ 12 in service (`lost`);
one packet with an overflow bit silences the mouse for good (`overflow`); a lapped key ring
shows an empty slot while newer keys wait (`overrun`); `malloc(0)` returns a pointer that
somebody else gets too, and every program but the first asks for one before its `main` (`hollow`); a refused mapping leaves
its freed pointer in the table (`hollow`), a segment whose pointer came back null is copied to address 0 and its
address mapped onto the pages there (`process.cpp:101-115`, `beyond`), and a load that fails with its stack or a
segment taken leaves them taken (`process.cpp:202-216`, `leaked`); the shell reads a body that is not there yet and goes
on with its old buffer (`early`), two clients' headers and bodies interleave (`mixed`), and a slow
shell loses the front of a message to the ring (`dropped`); the close of a MemoryFS, the open of a missing file and
a seek in a pipe panic the kernel (ends of `VFS`); a directory with a deleted entry hides as many
of its last files, one that fills its first cluster is counted on into other data, and names are told apart by 11 of
their 12 characters (`Regular`, `Straight`), so that a part of exactly those characters also opens a longer
name, and a directory is loaded even when it is the last part, so that an irregular one stops the kernel there
too (both met in the proof of `WalkFinds`); a longest region of exactly the kernel's megabyte gives an empty heap
behind it, which at the top of the addresses begins at address 0 (`HeapInLongestRegion`, met in its proof); every open loses one struct per level (`ObjectsOwned`
excepts items); formats of programs ignore `%u` and `%ll`, the kernel prints a `%u` from half of a long on with a sign
(`Conversion`; no caller has one); at 24 bits the kernel's `draw_pixel` writes a byte of the next pixel
(`vbe_graphics.cpp:39`, excepted by `PictureShown` where nothing is drawn over it); the least number prints wrong (`NumbersReadBack`); `MemoryFS` has one position for all and refuses relative seeks forwards
(`PositionKept`); a cursor at the lower edge writes rows wherever the last one ended (`strayed`); after a drop the pixels
under the cursor are those from where the window was (`Desktop`, `Saved`); a full command line writes its terminator
behind its array (`Zofia`).

## 6. What is proved

The theorems hold for every value of the constants that the assumptions allow.

Each module has an inductive invariant, which TLC found to hold on the run's instance before it
was proved; the properties follow from it, the action properties from it and one step.

* **MemoryProof**, about the heap by itself, from `HeapAssumption`: `HeapTypeOK`, `Disjoint`, `ChainIntegrity`, `NeighboursUntouched`
  and `FirstFit`. The inductive invariant `IInv` is `HeapTypeOK /\ Disjoint /\ ChainIntegrity`.
  `Disjoint` alone is not inductive: that the scan finds only blocks of nobody follows
  from the byte table being exact (`FreeIsUncovered`); the table being exact after a free needs that
  the walk stops where the allocation ends (`ChainIsAllocation`), for which the marks of one
  allocation must not be mixed with another's, which is `Disjoint`. `FirstFit` needs no invariant of the
  heap but one of the loop (`LoopInv`: the run it is in is as long as it can be, and nothing
  before it fits), kept by a turn (`TurnKeeps`); it holds for any table. `ScanIsStart` says what the loop
  finds when nothing fits, too; the other proofs use the scan through it.
* **TasksProof**, from `TasksAssumption`: `TasksTypeOK`, `CurrentRegistered`, `TableMatchesTasks`,
  `PanicKeepsLast`, `ListIntact`. Its invariant adds that no task is twice in `order` and that
  the current task is allocated while the kernel runs. The main lemma is `FreeKeepsOrder`: unlinking
  through a right `prev` keeps the list in order.
* **PipeFSProof**, from `PipeAssumption`: the refinement `ImplementsFifo`. The invariant is that of the ring:
  the write index is `count` ahead of the read index, around the ring (`Ring`); it may also stand at
  the end of the array, where a block that ends there leaves it. One block written or
  read is one operation of the queue (`WriteKeeps`, `ReadKeeps`), that the newest bytes of what was
  already cut to the newest are the newest of all (`NewestNewest`) joins the blocks of one call, and
  `WritesKeep` and `ReadsKeep` extend this to the whole call: the first block at which it
  failed would follow one at which it held.
* **FAT16Proof**, from `FAT16Assumption` (in which no cluster is twice in a chain, and a file is no longer
  than its chain): `CacheCoherent`, `PanicsPastEndOnly`, `AlignedReads`. The invariant adds what each of the nested
  loops has done: how much of the block is read and what is left (`BlockInv`), where in the
  chain the walk is (`WalkInv`), where the stream stands in the cluster (`StreamInv`), and that a file
  without clusters is never left at another place than its start (`EmptyAtStart`). The bytes that a read appends are those of the file only
  together with all three.
* **VFSProof**, from `VFSAssumption`: `TypeOK`, `HeldIsOpen`, `NumbersAccounted`, `PrivatesOwned`,
  `NullHasCause`, `BindingsStable`. Its invariant adds `IndexIsSlot` (a descriptor's number is its slot), which a
  close relies on: it frees the slot of the number in the struct. `BindingsStable` is about
  the mount table alone (`GrowthKeeps`): the longest prefix and, among equal ones, the first to
  be mounted keep their places when one is added.
* **DevicesProof**, about what a user types on and looks at, each part by its own specification:
  * keyboard and mouse (`Spec` of `Input`, from `InputAssumption`), of which `MCInput` runs two scenarios: `KeysInOrder`,
    `PacketsWhole`, `LinesReleased`, `ShiftLetGo`. The invariant relates the whole way of a byte: as long as no mouse
    byte was swallowed, the bytes in the device, in the output buffer and in the
    assembler continue each other (`MouseInv`, with which lines may be in service); the last code of a shift
    anywhere between the keyboard and the flag says whether one is held (`ShiftInv`).
  * the console (`ConsoleSpec`, from `ConsoleAssumption`: a line feed and a return are no printable characters):
    `ScreenShowsTail`. The invariant adds that the text fits the screen and that the column is not beyond the end of
    its line. That a row fed and then drawn on is a row with one character is `FedAndDrawn`; that cells do not
    overlap, for every width, is `PlacesApart`.
  * the background (`PaintSpec`, from `CanvasAssumption`): `PictureShown`. The invariant says it of each byte. The bytes of a pixel lie
    in front of those of all that are drawn later (`PixelsApart`), whatever the card's own distance of rows, so that a pixel
    spills only into one that is not drawn yet; `ColourRead` and `StrideOf` say that what is read are the
    channels that the format stores.
* **MemoryProof**, about processes, from `HeapAssumption` and `MemoryAssumption`: `OwnedOnce`, `MapsOnlyOwn`, `OthersKeepTheirs`. The heap's
  own invariant does not hold here: a free through a pointer that reserves nothing takes blocks from
  somebody's allocation. `HeapInv` is what remains (a table byte is free or taken, and what
  is live is marked as it was allotted), and `Apart` that live allocations share no block of the
  table. `PlacesInv` says what the handler under way has in hand: a load owns its image and stack, of
  the sizes that it maps. That a mapping stays inside its allocation is `MappedInBlocks`: heap and page tables
  round a size alike, also when it wraps; that a segment inside its file stays inside the image, wherever in a page it
  begins, is `SegmentInImage`. What is given from a null pointer or from beyond the file is exempt by `beyond`, and only that.
* **WindowProof**, from `WindowAssumption`: `SyncKept`, `ShownWhole`, `NamesWhole`. The invariant `InStep` holds as long as none of the
  three disturbances has occurred, and speaks of the *stream*: what the shell has taken of the message it is at,
  followed by the pipe. Each unit is continued by the next one of its message or followed
  by the start of another (`Chained`), a client's messages come in its order
  (`Ordered`), the last unit says what its writer writes next (`LastInv`, `ClientInv`), the first what the shell
  expects (`FirstInv`); `NameInv` and `FramesInv` relate what was taken to the shell's windows and screen.

* **LibraryProof**, about the other parts of the run `library`, each by its own specification, of which
  that run takes the steps:
  * the file over the frame buffer (`MemoryFSSpec`): `PositionKept`. `BlocksMove` says that a call moves
    the position by all its blocks, and `SeekArrives` that the only indexes that wrap are in front of the buffer.
  * the shell's drawing (`DesktopSpec`): `ScreenShowsBuffer` and `OneCursor`. The invariant `DesktopInv` says
    also that what lies under the cursor never looks like it, that the cursor is a whole square, and that the
    file is at its start before anything is drawn. `RowsShown` is the copy of all rows of a rectangle,
    `RectangleInRows` that what is drawn lies in rows that are copied, `OffsetsApart` that two pixels of the
    screen never share a place.
  * the directories (`DirectorySpec`, from `DirectoryAssumption`): `ObjectsOwned` and `WalkFinds`. For the first, what is
    on the heap is followed along the walk (`PartFollowed`, `PathWalked`). For the second, the invariant adds that the list of the
    root stays what was read of it. Where nothing was deleted, the count is the entries in front of the zero
    (`LiveRead`), so that a regular directory is read whole (`RegularLoaded`); the comparison matches names as
    they are meant wherever they differ in what is compared (`MatchNames`, `BothMatch`), hence a search comes to
    at most one entry (`OneFound`), and a walk stays on the way that the path denotes (`WayWalked`).
  * the boot (`BootSpec`, from `BootAssumption`): `HeapInLongestRegion`. `LongerFound` and `LongestFound` are about the
    loaders' pass over the map, `HeapPlaced` about the addresses that wrap.
  * the command line (`ZofiaSpec`, from `ZofiaAssumption`): `LineEdited`. `ZofiaInv` says where each character of the line
    was typed: the k-th from the end is at the key from which on the characters outnumber the backspaces by k
    (`CharacterPlaced`, `BackspacePlaced`). `EqualPrefix` is what `strcmp` says of two strings.
  * the search for a mount (`LookupSpec`, from `LookupAssumption`): `MountsMatch`. The invariant says that no mount has the
    name of more parts than are tried. The parts joined are the path again (`Whole`), and fewer parts are what is in
    front of one of its slashes.
  * the string routines (`CallsSpec`, from `CallsAssumption`: texts without NUL, bounds less than a long, bases from 2 to
    36, formats of the directives in the tables and of characters other than the percent sign): `StringsAgree`. The order of two
    texts is told by the least place at which they differ. The digits recur over a quotient, which gets smaller, so
    that the least number for which they would not read back has a smaller one for which they do not. A
    format is followed turn by turn: after as many turns as there are directives that the loop understands, it
    stands behind their text, with their words taken and their pieces printed, and later turns only append. That is all of a
    format in the kernel, and in a program what is in front of the first directive that only the kernel knows.

`HeapTypeOK`, `TasksTypeOK`, `TypeOK` of `VFS`, `PanicKeepsLast` of `Tasks` and the inductive invariants
(`...Inductive`) are proved and not checked by a run. Recursive functions (the turns of a scan, the blocks of a
call, the rows of a rectangle, the slots of a chain, a search, the levels of a path, the parts joined, the digits of a number, the turns over a format) are shown to
exist before anything is said of them (`...Exist`), and what is said of every element is said of the
least for which it failed (`LeastExists`), as no induction rule can be instantiated.

Model-checked only: `RoundRobin`, `ReadReturns` and `BufferDrained`, as liveness is beyond the prover. Every
invariant and every action property of a passing run is proved.

## 7. What is not modelled

* GDT, TSS, serial line, the remap of the PICs, fonts, `idt_init`: straight-line set-up without a state
  that anything later depends on.
* The set-up of the mouse (`PS2Mouse.cpp:65-115`): a sequence of commands and answers with the controller, of which
  two answers stay unread. What becomes of them depends on the device, which is external.
* The system calls that only pass a value on (`getpid`, `putchar`, `putstring`, the frame buffer's information), and the
  table of handlers, which is filled once.
* Exact contents of ELF headers and partition headers: whether they are right is one bit. Program headers are
  modelled but for the address at which a segment is to be.
* Registers, stacks, and copying between address spaces: data the properties do not
  tell apart. Exceptions raised inside the kernel are ends, not steps.
* Several windows on one screen, and what a client draws into its own.
* Hazards that the modules assume away: `task_new` reports failure in a way that its caller does not look for
  (`process.cpp:183`), and what follows is a walk through address 0; scan code 0x54 reads behind the table of characters
  (`ps2keyboard.c:80`; `Input` has four kinds of keys); a pipe opened with a size of zero divides by it
  (`PipeFS.cpp:95`; no caller does); `fopen` does not free its path when it refuses a mode or a path without a
  file (`file.c:190`, `file.c:194`; the kernel's own small objects are not in `Memory`).
