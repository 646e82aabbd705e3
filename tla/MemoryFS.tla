------------------------------- MODULE MemoryFS -------------------------------
(***************************************************************************)
(* The file over the frame buffer (fs/memory/MemoryFS.cpp).  There is one  *)
(* position, in the file system and not in the descriptors: `fb' is the    *)
(* buffer with its index.  Indexes are counted modulo Wide, as in 32 bits. *)
(* A block is shorter than what is left of that range behind the buffer,   *)
(* as all memory of a program is.                                          *)
(*                                                                         *)
(* `expected' is a history: the position a program goes by, from what its  *)
(* own calls returned, Lost when somebody else had the file in between.    *)
(***************************************************************************)
EXTENDS Integers, Sequences

CONSTANTS
    Holder,             \* programs with a descriptor of the file
    BufferSize, Wide,
    Lost

ASSUME MemoryFSAssumption ==
    /\ BufferSize \in Nat \ {0}
    /\ Wide \in Nat /\ 2 * BufferSize <= Wide \div 2

VARIABLES fb, expected

memoryfs_vars == <<fb, expected>>

Whence == {"SEEK_SET", "SEEK_CUR", "SEEK_END"}
Refused == -1
Negative(index) == index >= Wide \div 2

----------------------------------------------------------------------------
\* A block is refused as a whole; that it was is lost on the way back.
Refuses(f, size) == (f.idx + size) % Wide > BufferSize

write(f, block) ==
    IF Refuses(f, Len(block)) THEN f
    ELSE [data |-> [i \in DOMAIN f.data |->
                      IF i \in f.idx .. (f.idx + Len(block) - 1) THEN block[i - f.idx + 1]
                      ELSE f.data[i]],
          idx |-> f.idx + Len(block)]

read(f, size) == IF Refuses(f, size) THEN f ELSE [f EXCEPT !.idx = @ + size]

\* The file after the blocks of a call, one by one.
memory_write(f, blocks) ==
    LET after[n \in 0 .. Len(blocks)] == IF n = 0 THEN f ELSE write(after[n - 1], blocks[n])
    IN  after[Len(blocks)]

memory_read(f, size, nmemb) ==
    LET after[n \in 0 .. nmemb] == IF n = 0 THEN f ELSE read(after[n - 1], size)
    IN  after[nmemb]

\* Mutated: nothing is in front of the buffer.
EndUnchecked(f, offset, whence) ==
    IF offset >= BufferSize THEN Refused
    ELSE IF whence = "SEEK_SET" THEN offset
    ELSE IF whence = "SEEK_CUR" THEN f.idx
    ELSE (f.idx - offset) % Wide

\* Where a seek goes to.  Forwards from the position there is no way, and the
\* end is not the file's but the position.
seek(f, offset, whence) ==
    LET forward == (f.idx + offset) % Wide
        backward == (f.idx - offset) % Wide
    IN  CASE offset >= BufferSize -> Refused
          [] offset < BufferSize /\ whence = "SEEK_SET" -> offset
          [] offset < BufferSize /\ whence = "SEEK_CUR" ->
               IF forward > f.idx \/ Negative(forward) THEN Refused ELSE forward
          [] offset < BufferSize /\ whence = "SEEK_END" ->
               IF Negative(backward) THEN Refused ELSE backward

----------------------------------------------------------------------------
MemoryFSInit ==
    /\ fb = [data |-> [i \in 0 .. (BufferSize - 1) |-> Lost], idx |-> 0]
    /\ expected = [p \in Holder |-> Lost]

\* Of the programs p goes by the position, until the others find it moved.
Expects(p, position) ==
    expected' = [q \in Holder |-> IF q = p THEN position
                                  ELSE IF fb'.idx = fb.idx THEN expected[q] ELSE Lost]

\* file.h names SEEK_END a position from the end of the file, which it is not.
memory_seek(p, offset, whence) ==
    LET to == seek(fb, offset, whence)
    IN  IF to = Refused THEN UNCHANGED memoryfs_vars
        ELSE /\ fb' = [fb EXCEPT !.idx = to]
             /\ Expects(p, IF whence = "SEEK_SET" THEN offset
                           ELSE IF whence = "SEEK_END" \/ expected[p] = Lost THEN Lost
                           ELSE expected[p] + offset)

\* The call returns nmemb whatever happened.
Moved(p, size, nmemb) ==
    Expects(p, IF expected[p] = Lost \/ fb.idx + size * nmemb > BufferSize THEN Lost
               ELSE expected[p] + size * nmemb)

\* What these programs write is not told apart from what is there.
fwrite(p, size, nmemb) ==
    /\ fb' = memory_write(fb, [n \in 1 .. nmemb |-> [i \in 1 .. size |-> Lost]])
    /\ Moved(p, size, nmemb)

fread(p, size, nmemb) ==
    /\ fb' = memory_read(fb, size, nmemb)
    /\ Moved(p, size, nmemb)

MemoryFSNext ==
    \/ \E p \in Holder, offset \in 0 .. (Wide - 1), whence \in Whence :
          memory_seek(p, offset, whence)
    \/ \E p \in Holder, size \in 1 .. (BufferSize + 1), nmemb \in 1 .. 2 :
          fwrite(p, size, nmemb)
    \/ \E p \in Holder, size \in 1 .. (BufferSize + 1), nmemb \in 1 .. 2 :
          fread(p, size, nmemb)

MemoryFSSpec == MemoryFSInit /\ [][MemoryFSNext]_memoryfs_vars

----------------------------------------------------------------------------
\* The position stays inside the buffer, and a program that sought (from the
\* start, or relatively) and then read or wrote what there was room for is where
\* it takes itself to be, until another program uses the one position of
\* MemoryFS.cpp:87-132.
PositionKept ==
    /\ fb.idx \in 0 .. BufferSize
    /\ \A p \in Holder : expected[p] \in {Lost, fb.idx}
=============================================================================
