------------------------------ MODULE MCKernel ------------------------------
(***************************************************************************)
(* Parts of the kernel that share no state, each for itself: `unit' says   *)
(* which one is at work in a behaviour; the others stay as they are.       *)
(*                                                                         *)
(* The heap has a small table; sizes are of no block, a part of one, one,  *)
(* two, three, and one that wraps.  Tasks have three addresses and three   *)
(* slots: enough for the table to be full, for a freed address to stay     *)
(* free or to be reused, and for a successor to be removed after its       *)
(* predecessor.  The pipe has four bytes, so that every wrap, an exact     *)
(* fit, a drop of part of a block and a block larger than it all happen.   *)
(* The partition is that of MCFAT16.                                       *)
(***************************************************************************)
EXTENDS Heap, Tasks, PipeFS, MCFAT16

VARIABLES
    unit                \* the one that is at work

MCSizes == {0, 1, 4, 6, 12, 31}

\* Blocks of up to six bytes, one or two to a call.
MCMessages ==
    LET BlocksOf(n) == [1 .. n -> Byte]
    IN  {<<block>> : block \in UNION {BlocksOf(n) : n \in 0 .. 6}}
        \cup {<<x, y>> : x \in BlocksOf(1), y \in BlocksOf(1)}
        \cup {<<x, y>> : x \in BlocksOf(2), y \in BlocksOf(2)}

\* Reads of whole messages, byte by byte, and of more than there can be.
MCReads == {[size |-> 1, nmemb |-> 1], [size |-> 2, nmemb |-> 1], [size |-> 3, nmemb |-> 1],
            [size |-> 1, nmemb |-> 2], [size |-> 2, nmemb |-> 2], [size |-> 5, nmemb |-> 1]}

Init ==
    /\ unit \in {"heap", "tasks", "pipe", "fat16"}
    /\ HeapInit
    /\ TasksInit /\ (unit # "tasks" => current_task = CHOOSE t \in Addr : TRUE)
    /\ PipeFSInit /\ (unit # "pipe" => pipe.buffer[0] = CHOOSE zero \in Byte : TRUE)
    /\ FAT16Init /\ (unit # "fat16" => fd = CHOOSE d \in Descriptor : TRUE)

HeapStep == unit = "heap" /\ HeapNext /\ UNCHANGED <<tasks_vars, pipefs_vars, fat16_vars>>
TasksStep == unit = "tasks" /\ TasksNext /\ UNCHANGED <<heap_vars, pipefs_vars, fat16_vars>>
PipeStep == unit = "pipe" /\ PipeFSNext /\ UNCHANGED <<heap_vars, tasks_vars, fat16_vars>>
FAT16Step == unit = "fat16" /\ FAT16Next /\ UNCHANGED <<heap_vars, tasks_vars, pipefs_vars>>

Next == (HeapStep \/ TasksStep \/ PipeStep \/ FAT16Step) /\ UNCHANGED unit

\* Where tasks are at work the timer ticks, and a read goes on to its end.
Tick == unit = "tasks" /\ timer_interrupt /\ UNCHANGED <<unit, heap_vars, pipefs_vars, fat16_vars>>
Read == unit = "fat16" /\ Step /\ UNCHANGED <<unit, heap_vars, tasks_vars, pipefs_vars>>

Spec ==
    /\ Init
    /\ [][Next]_<<unit, heap_vars, tasks_vars, pipefs_vars, fat16_vars>>
    /\ WF_tasks_vars(Tick)
    /\ WF_fat16_vars(Read)
=============================================================================
