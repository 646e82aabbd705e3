-------------------------------- MODULE Fifo --------------------------------
(***************************************************************************)
(* What a pipe promises: the last Capacity bytes written and not yet read, *)
(* in the order of the writes.  A write that finds no room drops the       *)
(* oldest bytes.  A read takes whole blocks as long as there are enough    *)
(* bytes for one; the rest of the reader's buffer stays as it was.         *)
(***************************************************************************)
EXTENDS Queue

CONSTANTS
    Messages,       \* what a write may hand over: sequences of blocks of bytes
    Reads,          \* what a read may ask for: [size, nmemb] records
    Untouched       \* a byte of the reader's buffer that no read filled

VARIABLES
    queue,
    in,     \* the blocks of the last write, so that it matters what was written
    out     \* the reader's buffer after the last read

Init ==
    /\ queue = << >>
    /\ in = << >>
    /\ out = << >>

Write(blocks) ==
    /\ queue' = Put(queue, blocks)
    /\ in' = blocks
    /\ out' = << >>

Read(r) ==
    LET available == Len(queue) \div r.size
        blocks == IF available < r.nmemb THEN available ELSE r.nmemb
        taken == blocks * r.size
    IN  /\ out' = SubSeq(queue, 1, taken)
                  \o [i \in 1 .. (r.nmemb * r.size - taken) |-> Untouched]
        /\ queue' = SubSeq(queue, taken + 1, Len(queue))
        /\ in' = << >>

Next ==
    \/ \E blocks \in Messages : Write(blocks)
    \/ \E r \in Reads : Read(r)

Spec == Init /\ [][Next]_<<queue, in, out>>
=============================================================================
