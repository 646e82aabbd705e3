-------------------------------- MODULE Tasks --------------------------------
(***************************************************************************)
(* Tasks and processes: the doubly linked task list and the round-robin    *)
(* pick (task/task.c), the process table and the current process           *)
(* (task/process.cpp), and the handlers that use them: the timer and the   *)
(* crash of a task (kernel.cpp), exec and exit (syscall/syscall.cpp).      *)
(* A handler runs with interrupts off, so each of them is one step.        *)
(*                                                                         *)
(* A process and its task are created and freed together and point at each *)
(* other, so one address names the pair.  A freed struct keeps its last    *)
(* contents until its address is allocated again; the heap may give any    *)
(* address that is free.                                                   *)
(***************************************************************************)
EXTENDS Naturals, Sequences, SequencesExt

CONSTANTS
    Addr,           \* addresses the heap can give a task struct
    Null,           \* the null pointer
    MAX_PROCESSES

ASSUME TasksAssumption ==
    /\ Null \notin Addr
    /\ Addr # {}
    /\ MAX_PROCESSES \in Nat \ {0}

VARIABLES
    next, prev,         \* task->next and task->prev, of freed structs too
    task_head, task_tail, current_task,
    processes,          \* the process table
    current_process,
    status,             \* "run", "panic" (halted) or "wild" (runs a freed task)
    order,              \* history: the allocated tasks, oldest first
    stale               \* history: a task was removed through a stale prev

list == <<next, prev, task_head, task_tail>>
tasks_vars == <<list, current_task, processes, current_process, status, order, stale>>

Slot == 0 .. (MAX_PROCESSES - 1)
Pointer == Addr \cup {Null}

Allocated == {order[i] : i \in DOMAIN order}
Registered == {processes[s] : s \in Slot} \ {Null}
FreeSlots == {s \in Slot : processes[s] = Null}
Lowest(S) == CHOOSE s \in S : \A t \in S : s <= t

Running == status = "run"

----------------------------------------------------------------------------
\* Mutated: the last task of the list is followed by itself.
NoWrap == IF next[current_task] = Null THEN current_task ELSE next[current_task]

\* The pick of the scheduler.  The field is read even when current_task was
\* itself freed: its last contents are still there.
task_get_next ==
    IF next[current_task] = Null THEN task_head ELSE next[current_task]

\* Switching to t; the kernel goes on with a page directory and registers
\* that are no longer there when t is not an allocated task.
task_switch(t, allocated) ==
    /\ current_task' = t
    /\ status' = IF t \in allocated THEN "run" ELSE "wild"

\* Linking a new task, zeroed but for its process, behind the tail.  The tail
\* may be the address of a freed task, the new one's own, or (the write then
\* goes to low memory) null.
Linked(t) == [a \in Addr |-> IF a = task_tail THEN t ELSE IF a = t THEN Null ELSE next[a]]

task_new(t) ==
    IF task_head = Null
    THEN /\ next' = [next EXCEPT ![t] = Null]
         /\ prev' = [prev EXCEPT ![t] = Null]
         /\ task_head' = t
         /\ task_tail' = t
    ELSE /\ next' = Linked(t)
         /\ prev' = [prev EXCEPT ![t] = task_tail]
         /\ task_tail' = t
         /\ UNCHANGED task_head

\* Mutated: the tail is forgotten.
RemoveKeepsTail(t) ==
    /\ next' = IF prev[t] = Null THEN next ELSE [next EXCEPT ![prev[t]] = next[t]]
    /\ task_head' = IF t = task_head THEN next[t] ELSE task_head
    /\ UNCHANGED <<prev, task_tail>>

\* Unlinking t.  Nothing is ever written to the prev of t's successor.
task_list_remove(t) ==
    /\ next' = IF prev[t] = Null THEN next ELSE [next EXCEPT ![prev[t]] = next[t]]
    /\ task_head' = IF t = task_head THEN next[t] ELSE task_head
    /\ task_tail' = IF t = task_tail THEN prev[t] ELSE task_tail
    /\ UNCHANGED prev

\* Where t is in the history of allocated tasks, and the task in front of it:
\* what prev[t] ought to be.
Position(t) == CHOOSE i \in DOMAIN order : order[i] = t
Predecessor(t) == IF Position(t) = 1 THEN Null ELSE order[Position(t) - 1]

task_free(t) ==
    /\ task_list_remove(t)
    /\ order' = RemoveAt(order, Position(t))
    /\ stale' = (stale \/ prev[t] # Predecessor(t))

----------------------------------------------------------------------------
\* Mutated: the slot is not cleared.
SlotKept(p) == processes

\* The table without p, and the process that is current from then on.
Without(p) == [s \in Slot |-> IF processes[s] = p THEN Null ELSE processes[s]]

NextProcess(p) ==
    LET left == {s \in Slot : Without(p)[s] # Null}
    IN  IF current_process = p /\ left # {} THEN Without(p)[Lowest(left)]
        ELSE current_process

\* Mutated: the current process is not replaced.
CurrentKept(p) ==
    /\ processes' = Without(p)
    /\ UNCHANGED current_process
    /\ IF \A s \in Slot : Without(p)[s] = Null
       THEN /\ status' = "panic"
            /\ UNCHANGED <<list, current_task, order, stale>>
       ELSE /\ task_free(p)
            /\ task_switch(CHOOSE t \in Allocated : t # p, Allocated \ {p})

\* process_terminate, then the switch to the current process that both of its
\* callers make.  The panic comes before anything is freed.
TerminateAndSwitch(p) ==
    /\ processes' = Without(p)
    /\ current_process' = NextProcess(p)
    /\ IF NextProcess(p) = p
       THEN /\ status' = "panic"
            /\ UNCHANGED <<list, current_task, order, stale>>
       ELSE /\ task_free(p)
            /\ task_switch(NextProcess(p), Allocated \ {p})

----------------------------------------------------------------------------
\* kernel_main has loaded the shell and started its task.
TasksInit ==
    \E t \in Addr :
        /\ next = [a \in Addr |-> Null]
        /\ prev = [a \in Addr |-> Null]
        /\ task_head = t
        /\ task_tail = t
        /\ current_task = t
        /\ processes = [s \in Slot |-> IF s = 0 THEN t ELSE Null]
        /\ current_process = t
        /\ status = "run"
        /\ order = <<t>>
        /\ stale = FALSE

\* The tick: the next task runs.  The current process stays what it was.
timer_interrupt ==
    /\ Running
    /\ task_switch(task_get_next, Allocated)
    /\ UNCHANGED <<list, processes, current_process, order, stale>>

\* A program starts another, which becomes current in both senses.
sys_execprocess(t) ==
    /\ Running
    /\ FreeSlots # {}
    /\ t \notin Allocated
    /\ task_new(t)
    /\ order' = Append(order, t)
    /\ processes' = [processes EXCEPT ![Lowest(FreeSlots)] = t]
    /\ current_process' = t
    /\ task_switch(t, Allocated \cup {t})
    /\ UNCHANGED stale

\* A load that fails after task_new: the task is linked behind the tail and
\* unlinked again, its successor field going back to the tail's.  In a list
\* whose head was lost it is made the only task, and current, first; the
\* return from the call then switches to the null pointer it leaves behind.
sys_execprocess_fails(t) ==
    /\ Running
    /\ FreeSlots # {}
    /\ t \notin Allocated
    /\ IF task_head = Null
       THEN /\ next' = [next EXCEPT ![t] = Null]
            /\ prev' = [prev EXCEPT ![t] = Null]
            /\ task_tail' = Null
            /\ task_switch(Null, Allocated)
            /\ UNCHANGED task_head
       ELSE /\ next' = [a \in Addr |-> Linked(t)[IF a = task_tail THEN t ELSE a]]
            /\ prev' = [prev EXCEPT ![t] = task_tail]
            /\ task_head' = IF t = task_head THEN Linked(t)[t] ELSE task_head
            /\ UNCHANGED <<task_tail, current_task, status>>
    /\ UNCHANGED <<processes, current_process, order, stale>>

\* A full table refuses the program before anything is built.
sys_execprocess_full ==
    /\ Running
    /\ FreeSlots = {}
    /\ UNCHANGED tasks_vars

\* Exit ends the current process, whichever task made the call.
sys_exit ==
    /\ Running
    /\ TerminateAndSwitch(current_process)

\* An exception in user mode ends the task that raised it.
kernel_exception ==
    /\ Running
    /\ TerminateAndSwitch(current_task)

\* A panic halts the machine; a kernel on a freed task is beyond the model.
Stopped == ~Running /\ UNCHANGED tasks_vars

TasksNext ==
    \/ timer_interrupt
    \/ \E t \in Addr : sys_execprocess(t)
    \/ \E t \in Addr : sys_execprocess_fails(t)
    \/ sys_execprocess_full
    \/ sys_exit
    \/ kernel_exception
    \/ Stopped

\* The timer chip ticks whatever the programs do.
Fairness == WF_tasks_vars(timer_interrupt)

TasksSpec == TasksInit /\ [][TasksNext]_tasks_vars /\ Fairness

----------------------------------------------------------------------------
\* The types of the list, the table and the histories.
TasksTypeOK ==
    /\ next \in [Addr -> Pointer]
    /\ prev \in [Addr -> Pointer]
    /\ task_head \in Pointer
    /\ task_tail \in Pointer
    /\ current_task \in Pointer
    /\ processes \in [Slot -> Pointer]
    /\ current_process \in Pointer
    /\ status \in {"run", "panic", "wild"}
    /\ order \in Seq(Addr)
    /\ stale \in BOOLEAN

\* The current process is never a freed one: whoever ends, by exit or by a
\* crash, the process that exit would end next is still in the table
\* (process.cpp:310-319).
CurrentRegistered == status # "panic" => current_process \in Registered

\* The table and the heap agree: every registered process has its task, every
\* task a slot of its own, through every exec, failed exec, exit and crash.
TableMatchesTasks ==
    status # "panic" =>
        /\ Registered = Allocated
        /\ \A s, u \in Slot : s # u /\ processes[s] = processes[u] => processes[s] = Null

\* The kernel panics over a process only when that is the last one, and then
\* it has freed nothing (process.cpp:318 comes before 322-335).
PanicKeepsLast ==
    status = "panic" => Registered = {} /\ Allocated = {current_process}

\* The order in which next leads through the list, from head to tail.
InOrder ==
    /\ order # << >>
    /\ task_head = order[1]
    /\ task_tail = order[Len(order)]
    /\ \A i \in DOMAIN order : next[order[i]] = IF i < Len(order) THEN order[i + 1] ELSE Null

\* As long as no task was removed through a stale prev, the list is exactly the
\* allocated tasks in the order of their creation, and the scheduler never runs
\* a freed task: this is how far task_list_remove (task.c:72-91), which leaves
\* the successor's prev alone, can be trusted.
ListIntact == ~stale => InOrder /\ status # "wild"

\* Once programs stop starting and ending, every task runs again and again.
RoundRobin ==
    (<>[][timer_interrupt]_tasks_vars) =>
        \A t \in Addr : []<>(t \notin Allocated \/ current_task = t \/ stale \/ ~Running)

\* task.c:61 "Returns next task in list (or first if there is no next task in
\* current_task)": the pick is an allocated task.  The code does not keep this.
NextIsAllocated == Running => task_get_next \in Allocated

\* Exit ends the program that called it, which syscall.cpp:173 reports as
\* "Process %s exited".  The code does not keep this.
ExitEndsCaller == [][Running /\ sys_exit => current_task \notin Registered']_tasks_vars
=============================================================================
