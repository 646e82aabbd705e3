------------------------------- MODULE PipeFS -------------------------------
(***************************************************************************)
(* A pipe (fs/pipe/PipeFS.cpp): a byte ring with a read index, a write     *)
(* index and a count.  It is shared by every process that opened its path; *)
(* one system call, of nmemb blocks, is one step.                          *)
(***************************************************************************)
EXTENDS Integers, Sequences

CONSTANTS
    m_buffer_size,
    Byte,
    Messages,       \* what a write may hand over: sequences of blocks of bytes
    Reads,          \* what a read may ask for: [size, nmemb] records
    Untouched       \* a byte of the reader's buffer that no read filled

ASSUME PipeAssumption ==
    /\ m_buffer_size \in Nat \ {0}
    /\ Untouched \notin Byte
    /\ Messages \subseteq Seq(Seq(Byte))
    /\ Reads \subseteq [size : Nat \ {0}, nmemb : Nat]

VARIABLES
    pipe,   \* the object: buffer, read, write, count (the m_ fields)
    in,     \* the blocks of the last write
    out     \* the reader's buffer after the last read

pipefs_vars == <<pipe, in, out>>

Index == 0 .. (m_buffer_size - 1)

Smaller(a, b) == IF a < b THEN a ELSE b

----------------------------------------------------------------------------
\* PipeFS::read of one block: the pipe afterwards and the bytes it copied; a
\* block that is not there whole is not read at all.  The copy is made in two
\* chunks when the block wraps.
read(p, size) ==
    LET first == m_buffer_size - p.read
    IN  IF size > p.count THEN [pipe |-> p, bytes |-> [i \in 1 .. size |-> Untouched]]
        ELSE [pipe |-> [p EXCEPT
                 !.read = IF p.read + size <= m_buffer_size
                          THEN (p.read + size) % m_buffer_size ELSE size - first,
                 !.count = p.count - size],
              bytes |-> [i \in 1 .. size |->
                 p.buffer[IF i <= first THEN p.read + i - 1 ELSE i - first - 1]]]

\* Making room by dropping the oldest bytes.  A block larger than the buffer
\* discards more than there is; the count wraps below 0 and comes back to
\* m_buffer_size when the block is added.
MakeRoom(p, size) ==
    LET discard == size + p.count - m_buffer_size
    IN  IF size + p.count > m_buffer_size
        THEN [p EXCEPT !.read = (p.read + discard) % m_buffer_size,
                       !.count = p.count - discard]
        ELSE p

\* Mutated: the second chunk is taken from the start of the block again.
CopyRestarts(p, block) ==
    LET size == Len(block)
        first == Smaller(size, m_buffer_size - p.write)
    IN  [i \in Index |->
            IF i < size - first THEN block[i + 1]
            ELSE IF i \in p.write .. (p.write + first - 1) THEN block[i - p.write + 1]
            ELSE p.buffer[i]]

\* The buffer after the two copies; the second one may overwrite the first.
Copy(p, block) ==
    LET size == Len(block)
        first == Smaller(size, m_buffer_size - p.write)
    IN  [i \in Index |->
            IF i < size - first THEN block[first + i + 1]
            ELSE IF i \in p.write .. (p.write + first - 1) THEN block[i - p.write + 1]
            ELSE p.buffer[i]]

\* PipeFS::write of one block.
write(p, block) ==
    LET size == Len(block)
        q == MakeRoom(p, size)
    IN  IF size = 0 THEN p
        ELSE [buffer |-> Copy(p, block),
              read   |-> q.read,
              write  |-> IF p.write + size <= m_buffer_size
                         THEN (p.write + size) % m_buffer_size
                         ELSE size - (m_buffer_size - p.write),
              count  |-> q.count + size]

\* A block so large that the second copy runs past the end of the buffer; what
\* it overwrites there is not part of the model.
Overruns(p, block) == Len(block) - (m_buffer_size - p.write) > m_buffer_size

\* The pipe after each of the blocks.
Written(p, blocks) ==
    LET after[n \in 0 .. Len(blocks)] ==
            IF n = 0 THEN p ELSE write(after[n - 1], blocks[n])
    IN  after

\* One more block behind what was read.
ReadMore(last, size) ==
    LET one == read(last.pipe, size)
    IN  [pipe |-> one.pipe, bytes |-> last.bytes \o one.bytes]

\* nmemb reads in a row: the pipe and the bytes after each.  The output pointer
\* moves on past a block that could not be read, and the call answers nmemb all
\* the same (PipeFS.cpp:27-32).
ReadIn(p, r) ==
    LET after[n \in 0 .. r.nmemb] ==
            IF n = 0 THEN [pipe |-> p, bytes |-> << >>]
            ELSE ReadMore(after[n - 1], r.size)
    IN  after

----------------------------------------------------------------------------
\* The constructor, called by sys$open_ipc; kzalloc zeroes the buffer.
PipeFSInit ==
    \E zero \in Byte :
        /\ pipe = [buffer |-> [i \in Index |-> zero], read |-> 0, write |-> 0, count |-> 0]
        /\ in = << >>
        /\ out = << >>

pipe_write(blocks) ==
    LET after == Written(pipe, blocks)
    IN  /\ \A i \in DOMAIN blocks : ~Overruns(after[i - 1], blocks[i])
        /\ pipe' = after[Len(blocks)]
        /\ in' = blocks
        /\ out' = << >>

pipe_read(r) ==
    LET after == ReadIn(pipe, r)
    IN  /\ pipe' = after[r.nmemb].pipe
        /\ out' = after[r.nmemb].bytes
        /\ in' = << >>

PipeFSNext ==
    \/ \E blocks \in Messages : pipe_write(blocks)
    \/ \E r \in Reads : pipe_read(r)

PipeFSSpec == PipeFSInit /\ [][PipeFSNext]_pipefs_vars

----------------------------------------------------------------------------
\* The bytes a pipe holds, oldest first.
Contents == [i \in 1 .. pipe.count |-> pipe.buffer[(pipe.read + i - 1) % m_buffer_size]]

Promise == INSTANCE Fifo WITH
    Capacity <- m_buffer_size, queue <- Contents

\* The ring is a queue of the newest bytes: no byte is lost while there is
\* room, none is read twice or out of order, and a read fills whole blocks
\* only.
ImplementsFifo == Promise!Spec
=============================================================================
