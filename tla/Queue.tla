-------------------------------- MODULE Queue --------------------------------
(* A queue of bounded length to which bytes are added in blocks.             *)
EXTENDS Naturals, Sequences, SequencesExt

CONSTANT Capacity

Newest(s) == IF Len(s) <= Capacity THEN s ELSE SubSeq(s, Len(s) - Capacity + 1, Len(s))

\* The blocks behind what was there; what there is no room for is dropped from
\* the front.
Put(q, blocks) == Newest(q \o FlattenSeq(blocks))
==============================================================================
