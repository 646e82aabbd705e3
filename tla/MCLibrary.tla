------------------------------ MODULE MCLibrary ------------------------------
(***************************************************************************)
(* The sequential parts, each for itself: `unit' says which one is at work *)
(* in a behaviour, and the variables of the others stay as they are.       *)
(***************************************************************************)
EXTENDS Calls, Lookup, Zofia, Boot, Canvas, Console, Directory, Desktop, TLC

VARIABLES
    unit                \* the part that is at work

----------------------------------------------------------------------------
MCSample == BoundedSeq({65, 97, 98}, 3)
MCNumber == -(Long \div 2) .. (Long - 1)
MCFormats == BoundedSeq(Known \cup KernelOnly, 3)

----------------------------------------------------------------------------
\* The drive, names of two lengths below it, one that is the beginning of another and
\* one of two parts; and one without a drive, which no path that is valid can have.
MCMountName == {<<48, 58>>, <<48, 58, Slash, 97>>, <<48, 58, Slash, 97, 97, 97>>,
                <<48, 58, Slash, 97, Slash, 98>>, <<97>>}
MCFilename == {Drive \o s : s \in BoundedSeq({Slash, 97, 98}, 4)} \cup BoundedSeq({48, 58, Slash, 97}, 3)

\* "r" and "x".
MCOpenmode == {<<114>>, <<120>>}

----------------------------------------------------------------------------
Regions ==
    [type : {1, 2}, base : {0, 4}, len : {0, 4}]
        \cup [type : {1}, base : {3, 6, 12, 14, 18}, len : {2, 4, 5, 6, 8}]
MCMagic == {"MULTIBOOT2_BOOTLOADER_MAGIC", "1337", "other"}
MCMemoryMap == BoundedSeq(Regions, 2)

----------------------------------------------------------------------------
\* The keys of a line; its commands are spelled with two letters.
MCInt3 == <<97, 97>>
MCPing == <<97, 98>>
MCRed == <<98, 97>>
MCClear == <<98, 98, 97>>
MCCat == <<98, 98, 98>>
MCKey == {97, 98, Backspace, Return_key}

----------------------------------------------------------------------------
(* Pictures.  A byte of a picture tells its pixel and channel; none is 0.   *)

Byte(width, x, y, channel) == channel + 4 * (x + width * y)

\* As the format has it: from the bottom, each row filled up to a multiple of four.
Stored_row(width, bits, y) ==
    LET bytes == FlattenSeq([n \in 1 .. width |-> [channel \in 1 .. (bits \div 8) |-> Byte(width, n - 1, y, channel)]])
    IN  bytes \o [i \in 1 .. ((-Len(bytes)) % 4) |-> 0]
Bitmap(width, height, bits) ==
    LET rows == FlattenSeq([n \in 1 .. height |-> Stored_row(width, bits, height - n)])
    IN  [width |-> width, height |-> height, bit_count |-> bits, offset |-> 2,
         bytes |-> <<0, 0>> \o rows,
         stride |-> Len(rows) \div height,
         shows |-> [x \in 0 .. (width - 1) |-> [y \in 0 .. (height - 1) |->
                       [channel \in 1 .. (bits \div 8) |-> Byte(width, x, y, channel)]]]]
MCPicture == {Bitmap(width, height, bits) : width \in 1 .. 4, height \in 1 .. 3, bits \in {24, 32}}

ScreenSize(kind, w, bpp, room) ==
    [kind |-> kind, w |-> w, h |-> 2, bpp |-> bpp, line |-> w * (bpp \div 8) + room]
MCScreen ==
    {ScreenSize("framebuffer", w, bpp, 0) : w \in {2, 3}, bpp \in {24, 32}}
        \cup {ScreenSize("vbe", w, bpp, room) : w \in {2, 3}, bpp \in {24, 32}, room \in {0, 1}}

----------------------------------------------------------------------------
(* The partitions: one that the kernel reads as it is meant, and one with a *)
(* deleted entry, names too long to tell apart and full directories.        *)

Slot(kind, name, ext, first) ==
    [kind |-> kind, name |-> name, ext |-> ext, first |-> first, filesize |-> Len(name)]
File(name, ext) == Slot("file", name, ext, 0)
Dir(name, first) == Slot("directory", name, << >>, first)
Zero == [kind |-> "zero"]
Deleted == [kind |-> "deleted"]
Junk == Slot("junk", << >>, << >>, 0)
A == 65
B == 66
C == 67
D == 68
X == 88

Dots(self, parent) == <<Dir(<<Dot>>, self), Dir(<<Dot, Dot>>, parent)>>
Contents == <<Junk, Junk, Zero, Zero>>

Partition(root, slots, next) ==
    [mbr |-> TRUE, header |-> TRUE, root |-> root, slots |-> slots, next |-> next]
NoChain == [c \in Cluster |-> EndOfChain]

Sound == Partition(
    <<File(<<A>>, <<C>>), Dir(<<D>>, 3), File(<<B, C>>, << >>), Zero>>,
    [c \in Cluster |->
        CASE c = 3 -> Dots(3, 0) \o <<Dir(<<B>>, 5), Zero>>
          [] c = 5 -> Dots(5, 3) \o <<File(<<A>>, <<C>>), Zero>>
          [] OTHER -> Contents],
    NoChain)

Crowded == Partition(
    <<Deleted, File(<<A, B>>, <<C>>), File(<<A, B>>, <<X>>), Dir(<<D>>, 3), Dir(<<C>>, 5), Zero>>,
    [c \in Cluster |->
        CASE c = 3 -> Dots(3, 0) \o <<File(<<A>>, <<C>>), File(<<B>>, << >>)>>
          [] c = 5 -> Dots(5, 0) \o <<File(<<A>>, <<C>>), File(<<B>>, << >>)>>
          [] c = 2 -> <<File(<<X>>, << >>), Zero, Zero, Zero>>
          [] OTHER -> Contents],
    [c \in Cluster |-> IF c = 3 THEN 2 ELSE EndOfChain])

\* Below a root that is regular, directories that are not.
Overfull == [Crowded EXCEPT !.root =
    <<File(<<A, B>>, <<C>>), Dir(<<D>>, 3), Dir(<<C>>, 5), Zero>>]

MCPartitions == {Sound, Crowded, Overfull, [Sound EXCEPT !.mbr = FALSE], [Sound EXCEPT !.header = FALSE]}
MCRequests ==
    {<<<<A, Dot, C>>>>, <<<<97, Dot, 99>>>>, <<<<D>>>>, <<<<D>>, <<B>>>>, <<<<C>>, <<B>>>>,
     <<<<D>>, <<B>>, <<A, Dot, C>>>>, <<<<D>>, <<X>>>>, <<<<B, C>>, <<A>>>>,
     <<<<A, B, Dot, C>>>>, <<<<A, B, Dot>>>>, <<<<C>>>>, <<<<X>>, <<B>>, <<C>>>>}

\* "r", "wb" and "x".
MCModeString == {<<114>>, <<119, 98>>, <<120>>}

----------------------------------------------------------------------------
MCColor == <<"grey", "red">>
MCTransparent == {<<1, 1>>}
MCPlace == {<<0, 0>>, <<1, 1>>}
MCMotion == {<<-1, 0>>, <<0, -1>>, <<1, 2>>, <<3, 0>>}

\* What is idle begins at one of its initial states.
Init ==
    /\ unit \in {"calls", "paint", "lookup", "boot", "zofia", "console", "directory", "memoryfs",
                  "desktop"}
    /\ CallsInit
    /\ PaintInit /\ (unit # "paint" => canvas = VBEGraphics(2, 2, 24, 6) /\ bmp = Bitmap(1, 1, 24))
    /\ LookupInit
    /\ BootInit
    /\ ZofiaInit
    /\ ConsoleInit /\ (unit # "console" => device = "text_mode")
    /\ DirectoryInit /\ (unit # "directory" => image = Sound)
    /\ DesktopInit /\ (unit # "desktop" => <<window.x, window.y>> = <<0, 0>> /\ ~window.dirty)

DesktopDone == rounds = Rounds /\ UNCHANGED desktop_vars

CallsStep ==
    /\ unit = "calls" /\ CallsNext
    /\ UNCHANGED <<painting, lookup, machine, zofia, console, directory, desktop_vars>>
PaintStep ==
    /\ unit = "paint" /\ (draw_background \/ (py >= bmp.height /\ UNCHANGED painting))
    /\ UNCHANGED <<call, lookup, machine, zofia, console, directory, desktop_vars>>
LookupStep ==
    /\ unit = "lookup" /\ LookupNext
    /\ UNCHANGED <<call, painting, machine, zofia, console, directory, desktop_vars>>
BootStep ==
    /\ unit = "boot" /\ BootNext
    /\ UNCHANGED <<call, painting, lookup, zofia, console, directory, desktop_vars>>
ZofiaStep ==
    /\ unit = "zofia" /\ ZofiaNext
    /\ UNCHANGED <<call, painting, lookup, machine, console, directory, desktop_vars>>
ConsoleStep ==
    /\ unit = "console" /\ ConsoleNext
    /\ UNCHANGED <<call, painting, lookup, machine, zofia, directory, desktop_vars>>
DirectoryStep ==
    /\ unit = "directory" /\ DirectoryNext
    /\ UNCHANGED <<call, painting, lookup, machine, zofia, console, desktop_vars>>
MemoryFSStep ==
    /\ unit = "memoryfs" /\ MemoryFSNext
    /\ UNCHANGED <<call, painting, lookup, machine, zofia, console, directory>>
    /\ UNCHANGED <<buffer, mouse, under, window, rounds, strayed>>
DesktopStep ==
    /\ unit = "desktop" /\ (DesktopNext \/ DesktopDone)
    /\ UNCHANGED <<call, painting, lookup, machine, zofia, console, directory>>

Next ==
    /\ UNCHANGED unit
    /\ \/ CallsStep \/ PaintStep \/ LookupStep \/ BootStep \/ ZofiaStep
       \/ ConsoleStep \/ DirectoryStep \/ MemoryFSStep \/ DesktopStep

=============================================================================
