-------------------------------- MODULE Boot --------------------------------
(***************************************************************************)
(* From the boot loader's memory map to the kernel heap                    *)
(* (bootloaders, kernel.cpp:241-259, hkeap.c, heap.c).                    *)
(*                                                                         *)
(* A map is a sequence of regions; addresses and lengths in it are of any  *)
(* width, those of the kernel are modulo Address.                          *)
(***************************************************************************)
EXTENDS Integers, Sequences

CONSTANTS
    Address,            \* 2^32
    HEAP_BLOCK_SIZE,
    kernel_size,        \* what is kept free at the beginning of the region
    Magic,              \* what the kernel is started with: the magic number
    MemoryMap           \* and the map

ASSUME BootAssumption ==
    /\ Address \in Nat \ {0} /\ HEAP_BLOCK_SIZE \in Nat \ {0} /\ kernel_size \in Nat \ {0}
    /\ Address % HEAP_BLOCK_SIZE = 0
    /\ \A map \in MemoryMap : map \in Seq([type : Nat, base : Nat, len : Nat])

VARIABLE machine        \* the magic number, the map and how kernel_main ended, once started

Off == [end |-> "off"]
None == [base |-> 0, len |-> 0]
Available(region) == region.type = 1

\* Mutated: a later region of the same or any smaller length wins.
LastRegion(best, region) ==
    IF Available(region) THEN [base |-> region.base, len |-> region.len] ELSE best

\* The first of the longest regions.
Longer(best, region) ==
    IF Available(region) /\ region.len > best.len
    THEN [base |-> region.base, len |-> region.len] ELSE best

Longest(map) ==
    LET best[n \in 0 .. Len(map)] == IF n = 0 THEN None ELSE Longer(best[n - 1], map[n])
    IN  best[Len(map)]

\* What the loaders found; the tags of GRUB say how many regions there are, the
\* map of GitBoot ends with the first of no length.
parse_tags(map) == Longest(map)

Empty(map) == {i \in DOMAIN map : map[i].len = 0}
FirstEmpty(map) == CHOOSE i \in Empty(map) : \A j \in Empty(map) : i <= j
gitboot_init(map) ==
    Longest(IF Empty(map) = {} THEN map ELSE SubSeq(map, 1, FirstEmpty(map) - 1))

\* The loader whose magic number the kernel is started with, or none.
m_bootloader(magic) ==
    CASE magic = "MULTIBOOT2_BOOTLOADER_MAGIC" -> "Multiboot"
      [] magic = "1337"                        -> "GitBoot"
      [] OTHER                                 -> "nullptr"

Region(magic, map) ==
    IF m_bootloader(magic) = "Multiboot" THEN parse_tags(map) ELSE gitboot_init(map)

\* The heap in a region: how kernel_main ends, and where the heap begins, as a
\* pointer, how many blocks its table has, and where it ends.
heap_validate(start, end, total) ==
    /\ start % HEAP_BLOCK_SIZE = 0 /\ end % HEAP_BLOCK_SIZE = 0
    /\ total = ((end - start) % Address) \div HEAP_BLOCK_SIZE

kheap_init(base, size) ==
    LET start == base % Address
        end == (start + (size % Address)) % Address
        total == (size % Address) \div HEAP_BLOCK_SIZE
    IN  [ok |-> heap_validate(start, end, total), start |-> start, total |-> total]

kernel_main(magic, map) ==
    LET region == Region(magic, map)
    IN  CASE m_bootloader(magic) = "nullptr" -> [end |-> "wild"]
          [] m_bootloader(magic) # "nullptr" /\ region.len < kernel_size ->
                [end |-> "Not enough memory to place kernel heap!"]
          [] OTHER ->
                LET heap == kheap_init(region.base + kernel_size, region.len - kernel_size)
                IN  IF heap.ok
                    THEN [end |-> "heap", start |-> heap.start, total |-> heap.total,
                          magic |-> magic, map |-> map]
                    ELSE [end |-> "Failed to create heap!"]

----------------------------------------------------------------------------
BootInit == machine = Off

power_on ==
    /\ machine = Off
    /\ \E magic \in Magic, map \in MemoryMap : machine' = kernel_main(magic, map)

\* It stays in one of these ways until it is switched off.
reset == machine # Off /\ machine' = Off

BootNext == power_on \/ reset
BootSpec == BootInit /\ [][BootNext]_machine

----------------------------------------------------------------------------
\* The heap begins behind the kernel's megabyte in one of the longest available
\* regions that the loader reports and ends with it, unless the region has no more
\* than that megabyte or reaches above the addresses of a pointer.
HeapInLongestRegion ==
    machine.end = "heap" =>
        \E i \in DOMAIN machine.map :
            LET region == machine.map[i]
            IN  /\ Available(region)
                /\ \A j \in DOMAIN machine.map :
                      Available(machine.map[j]) /\ machine.map[j].len > region.len =>
                          machine.magic = "1337" /\ \E k \in 1 .. j : machine.map[k].len = 0
                /\ region.len > kernel_size /\ region.base + region.len <= Address =>
                      /\ machine.start = region.base + kernel_size
                      /\ machine.start + machine.total * HEAP_BLOCK_SIZE
                            = region.base + region.len
=============================================================================
