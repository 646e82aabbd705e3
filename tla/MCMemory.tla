------------------------------ MODULE MCMemory ------------------------------
(***************************************************************************)
(* Two processes on a heap of five blocks in an address space of ten       *)
(* pages, with three loads.  A loaded program takes three blocks and what  *)
(* its segments ask for, so a later load may find the heap exhausted at    *)
(* each of its steps; with two slots in the table of allocations a segment *)
(* or a malloc may find the table full.                                    *)
(***************************************************************************)
EXTENDS Memory, TLC

\* No definition tells processes apart.
Symmetry == Permutations(Process)

Header(filesz, memsz, write) ==
    [offset |-> 0, filesz |-> filesz, memsz |-> memsz, write |-> write]

\* The data of a program; its zeroes; zeroes for which no heap has room, so that
\* their mapping is refused; what reaches past the end of the file; and what ends
\* in front of its own start, over which a load fails.
MCSegments ==
    {Header(4, 4, TRUE), Header(0, 4, TRUE), Header(0, 36, TRUE),
     Header(8, 8, TRUE), Header(36, 36, FALSE)}
=============================================================================
