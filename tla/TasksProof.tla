------------------------------ MODULE TasksProof ------------------------------
(***************************************************************************)
(* The safety properties of Tasks, for any number of addresses and slots.  *)
(***************************************************************************)
EXTENDS Tasks, TLAPS, WellFoundedInduction

\* A set of natural numbers that is not empty has a least element:
\* the first free slot is one.
LEMMA LeastExists ==
    ASSUME NEW S, S \subseteq Nat, S # {}
    PROVE  \E s \in S : \A t \in S : s <= t
PROOF
  <1>1. PICK x \in S : \A y \in S : ~ (<<y, x>> \in OpToRel(<, Nat))
    BY NatLessThanWellFounded, WFMin
  <1>2. \A y \in S : ~ (y < x)
    BY <1>1 DEF OpToRel
  <1> QED  BY <1>2

\* No task is twice in the history of allocated tasks.
Distinct == \A i, j \in DOMAIN order : order[i] = order[j] => i = j

\* A kernel that runs, runs an allocated task.
CurrentAllocated == Running => current_task \in Allocated

IInv ==
    /\ TasksTypeOK
    /\ Distinct
    /\ CurrentAllocated
    /\ CurrentRegistered
    /\ TableMatchesTasks
    /\ PanicKeepsLast
    /\ ListIntact

LEMMA InitInv == TasksInit => IInv
PROOF
  <1> SUFFICES ASSUME TasksInit PROVE IInv
    OBVIOUS
  <1> USE TasksAssumption
  <1>1. PICK t \in Addr :
        /\ next = [a \in Addr |-> Null]
        /\ prev = [a \in Addr |-> Null]
        /\ task_head = t
        /\ task_tail = t
        /\ current_task = t
        /\ processes = [s \in Slot |-> IF s = 0 THEN t ELSE Null]
        /\ current_process = t
        /\ status = "run"
        /\ order = <<t>>
        /\ stale = FALSE
    BY DEF TasksInit
  <1>2. 0 \in Slot
    BY DEF Slot
  <1>3. TasksTypeOK
    <2>1. order \in Seq(Addr)
      BY <1>1
    <2> QED  BY <1>1, <2>1 DEF TasksTypeOK, Pointer
  <1>4. Distinct
    BY <1>1 DEF Distinct
  <1>5. Allocated = {t}
    BY <1>1 DEF Allocated
  <1>6. Registered = {t}
    BY <1>1, <1>2 DEF Registered
  <1>7. CurrentAllocated /\ CurrentRegistered /\ TableMatchesTasks /\ PanicKeepsLast
    BY <1>1, <1>5, <1>6 DEF CurrentAllocated, CurrentRegistered, TableMatchesTasks, PanicKeepsLast, Running
  <1>8. ListIntact
    BY <1>1 DEF ListIntact, InOrder
  <1> QED  BY <1>3, <1>4, <1>7, <1>8 DEF IInv

----------------------------------------------------------------------------
\* RemoveAt takes one element out and closes the gap.
LEMMA RemoveAtFacts ==
    ASSUME NEW S, NEW s \in Seq(S), NEW i \in 1 .. Len(s)
    PROVE  /\ RemoveAt(s, i) \in Seq(S)
           /\ Len(RemoveAt(s, i)) = Len(s) - 1
           /\ \A j \in 1 .. (Len(s) - 1) :
                RemoveAt(s, i)[j] = IF j < i THEN s[j] ELSE s[j + 1]
PROOF
  <1> DEFINE front == SubSeq(s, 1, i - 1)
             back == SubSeq(s, i + 1, Len(s))
  <1>1. front \in Seq(S) /\ Len(front) = i - 1
        /\ \A j \in 1 .. (i - 1) : front[j] = s[j]
    OBVIOUS
  <1>2. back \in Seq(S) /\ Len(back) = Len(s) - i
        /\ \A j \in 1 .. (Len(s) - i) : back[j] = s[i + j]
    OBVIOUS
  <1>3. RemoveAt(s, i) = front \o back
    BY DEF RemoveAt
  <1> HIDE DEF front, back
  <1>4. Len(front \o back) = Len(s) - 1 /\ front \o back \in Seq(S)
    BY <1>1, <1>2
  <1>5. ASSUME NEW j \in 1 .. (Len(s) - 1)
        PROVE  (front \o back)[j] = IF j < i THEN s[j] ELSE s[j + 1]
    <2>1. CASE j < i
      BY <1>1, <1>2, <2>1
    <2>2. CASE j >= i
      <3>1. (front \o back)[j] = back[j - (i - 1)]
        BY <1>1, <1>2, <2>2
      <3>2. j - (i - 1) \in 1 .. (Len(s) - i) /\ i + (j - (i - 1)) = j + 1
        BY <2>2
      <3> QED  BY <1>2, <2>2, <3>1, <3>2
    <2>3. i \in Int /\ j \in Int
      OBVIOUS
    <2>4. j < i \/ j >= i
      BY <2>3
    <2> QED  BY <2>1, <2>2, <2>4
  <1> QED  BY <1>3, <1>4, <1>5

LEMMA PositionFacts ==
    ASSUME NEW t \in Allocated
    PROVE  Position(t) \in DOMAIN order /\ order[Position(t)] = t
PROOF
  BY DEF Allocated, Position

\* Lowest chooses a member of a set of slots.
LEMMA LowestIn ==
    ASSUME NEW S \in SUBSET Slot, S # {}
    PROVE  Lowest(S) \in S
PROOF
  <1>1. S \subseteq Nat
    BY TasksAssumption DEF Slot
  <1> QED  BY <1>1, LeastExists DEF Lowest

\* What freeing a task does to the history and, when its prev is right, to the
\* list.
LEMMA FreeFacts ==
    ASSUME TasksTypeOK, Distinct, NEW t \in Allocated, task_free(t)
    PROVE  /\ next' \in [Addr -> Pointer]
           /\ prev' \in [Addr -> Pointer]
           /\ task_head' \in Pointer
           /\ task_tail' \in Pointer
           /\ order' \in Seq(Addr)
           /\ stale' \in BOOLEAN
           /\ Distinct'
           /\ Allocated' = Allocated \ {t}
PROOF
  <1> DEFINE i == Position(t)
             n == Len(order)
  <1>1. order \in Seq(Addr) /\ n \in Nat /\ DOMAIN order = 1 .. n
    BY DEF TasksTypeOK
  <1>2. i \in 1 .. n /\ order[i] = t /\ t \in Addr
    BY <1>1, PositionFacts
  <1> HIDE DEF i, n
  <1>3. order' = RemoveAt(order, i)
    BY DEF task_free, i
  <1>4. /\ order' \in Seq(Addr) /\ Len(order') = n - 1
        /\ \A j \in 1 .. (n - 1) : order'[j] = IF j < i THEN order[j] ELSE order[j + 1]
    BY <1>1, <1>2, <1>3, RemoveAtFacts DEF n
  <1>5. DOMAIN order' = 1 .. (n - 1)
    BY <1>4
  <1>6. Distinct'
    <2> SUFFICES ASSUME NEW j \in 1 .. (n - 1), NEW k \in 1 .. (n - 1), order'[j] = order'[k]
                 PROVE  j = k
      BY <1>5 DEF Distinct
    <2> DEFINE old(x) == IF x < i THEN x ELSE x + 1
    <2>1. order'[j] = order[old(j)] /\ order'[k] = order[old(k)]
      BY <1>4
    <2>2. old(j) \in 1 .. n /\ old(k) \in 1 .. n
      BY <1>1, <1>2
    <2>3. old(j) = old(k)
      BY <1>1, <2>1, <2>2 DEF Distinct
    <2> QED  BY <1>2, <2>3
  <1>7. Allocated' = Allocated \ {t}
    <2>1. ASSUME NEW x \in Allocated' PROVE x \in Allocated \ {t}
      <3>1. PICK j \in 1 .. (n - 1) : order'[j] = x
        BY <1>5 DEF Allocated
      <3>2. CASE j < i
        <4>1. x = order[j] /\ j \in 1 .. n /\ j # i
          BY <1>1, <1>2, <1>4, <3>1, <3>2
        <4> QED  BY <1>1, <1>2, <4>1 DEF Allocated, Distinct
      <3>3. CASE j >= i
        <4>1. x = order[j + 1] /\ j + 1 \in 1 .. n /\ j + 1 # i
          BY <1>1, <1>2, <1>4, <3>1, <3>3
        <4> QED  BY <1>1, <1>2, <4>1 DEF Allocated, Distinct
      <3> QED  BY <1>2, <3>2, <3>3
    <2>2. ASSUME NEW x \in Allocated \ {t} PROVE x \in Allocated'
      <3>1. PICK k \in 1 .. n : order[k] = x
        BY <1>1 DEF Allocated
      <3>2. k # i
        BY <1>2, <3>1
      <3>3. CASE k < i
        <4>1. k \in 1 .. (n - 1) /\ order'[k] = x
          BY <1>1, <1>2, <1>4, <3>1, <3>3
        <4> QED  BY <1>5, <4>1 DEF Allocated
      <3>4. CASE k > i
        <4>1. k - 1 \in 1 .. (n - 1) /\ order'[k - 1] = x
          BY <1>1, <1>2, <1>4, <3>1, <3>4
        <4> QED  BY <1>5, <4>1 DEF Allocated
      <3> QED  BY <1>2, <3>2, <3>3, <3>4
    <2> QED  BY <2>1, <2>2
  <1>8. next' \in [Addr -> Pointer] /\ prev' \in [Addr -> Pointer]
        /\ task_head' \in Pointer /\ task_tail' \in Pointer
    BY <1>2 DEF TasksTypeOK, task_free, task_list_remove
  <1>9. stale' \in BOOLEAN
    BY DEF task_free
  <1> QED  BY <1>4, <1>6, <1>7, <1>8, <1>9

\* A list in order stays in order when the freed task's prev was right.
LEMMA FreeKeepsOrder ==
    ASSUME TasksTypeOK, Distinct, InOrder, Len(order) > 1,
           NEW t \in Allocated, task_free(t), prev[t] = Predecessor(t)
    PROVE  InOrder'
PROOF
  <1> DEFINE i == Position(t)
             n == Len(order)
  <1>1. order \in Seq(Addr) /\ n \in Nat /\ n > 1 /\ DOMAIN order = 1 .. n
    BY DEF TasksTypeOK
  <1>2. i \in 1 .. n /\ order[i] = t /\ t \in Addr
    BY <1>1, PositionFacts
  <1>3. prev[t] = IF i = 1 THEN Null ELSE order[i - 1]
    BY DEF Predecessor
  <1>4. order' = RemoveAt(order, i)
    BY DEF task_free
  <1> HIDE DEF i, n
  <1>5. /\ order' \in Seq(Addr) /\ Len(order') = n - 1
        /\ \A j \in 1 .. (n - 1) : order'[j] = IF j < i THEN order[j] ELSE order[j + 1]
    BY <1>1, <1>2, <1>4, RemoveAtFacts DEF n
  <1>6. /\ task_head = order[1]
        /\ task_tail = order[n]
        /\ \A j \in 1 .. n : next[order[j]] = IF j < n THEN order[j + 1] ELSE Null
    BY <1>1 DEF InOrder, n
  <1>7. \A j, k \in 1 .. n : order[j] = order[k] => j = k
    BY <1>1 DEF Distinct
  <1>8. \A j \in 1 .. n : order[j] \in Addr
    BY <1>1 DEF n
  <1>9. next \in [Addr -> Pointer]
    BY DEF TasksTypeOK
  <1>10. /\ next' = IF prev[t] = Null THEN next ELSE [next EXCEPT ![prev[t]] = next[t]]
         /\ task_head' = IF t = task_head THEN next[t] ELSE task_head
         /\ task_tail' = IF t = task_tail THEN prev[t] ELSE task_tail
    BY DEF task_free, task_list_remove
  <1>11. order' # << >>
    BY <1>1, <1>5
  <1>12. /\ task_head' = order'[1]
         /\ task_tail' = order'[n - 1]
         /\ \A j \in 1 .. (n - 1) : next'[order'[j]] = IF j < n - 1 THEN order'[j + 1] ELSE Null
    <2>1. CASE i = 1
      <3>1. next' = next
        BY <1>3, <1>10, <2>1
      <3>2. \A j \in 1 .. (n - 1) : order'[j] = order[j + 1]
        BY <1>5, <2>1
      <3>3. task_head' = order'[1]
        BY <1>1, <1>2, <1>6, <1>10, <2>1, <3>2
      <3>4. task_tail' = order'[n - 1]
        BY <1>1, <1>2, <1>6, <1>7, <1>10, <2>1, <3>2
      <3>5. ASSUME NEW j \in 1 .. (n - 1)
            PROVE  next'[order'[j]] = IF j < n - 1 THEN order'[j + 1] ELSE Null
        <4>1. next'[order'[j]] = next[order[j + 1]] /\ j + 1 \in 1 .. n
          BY <1>1, <3>1, <3>2
        <4>2. j < n - 1 => order'[j + 1] = order[(j + 1) + 1]
          BY <1>1, <3>2
        <4> QED  BY <1>1, <1>6, <4>1, <4>2
      <3> QED  BY <3>3, <3>4, <3>5
    <2>2. CASE i > 1
      <3> DEFINE q == order[i - 1]
      <3>1. i - 1 \in 1 .. n /\ q \in Addr /\ prev[t] = q /\ q # Null
        BY <1>1, <1>2, <1>3, <1>8, <2>2, TasksAssumption
      <3> HIDE DEF q
      <3>2. next' = [next EXCEPT ![q] = next[t]]
        BY <1>10, <3>1
      <3>3. task_head' = order'[1]
        <4>1. t # task_head
          BY <1>1, <1>2, <1>6, <1>7, <2>2
        <4>2. order'[1] = order[1]
          BY <1>1, <1>5, <2>2
        <4> QED  BY <1>6, <1>10, <4>1, <4>2
      <3>4. task_tail' = order'[n - 1]
        <4>1. CASE i = n
          <5>1. order'[n - 1] = order[n - 1]
            BY <1>1, <1>5, <4>1
          <5> QED  BY <1>2, <1>6, <1>10, <3>1, <4>1, <5>1 DEF q
        <4>2. CASE i < n
          <5>1. order'[n - 1] = order[n]
            BY <1>1, <1>2, <1>5, <4>2
          <5>2. t # task_tail
            BY <1>1, <1>2, <1>6, <1>7, <4>2
          <5> QED  BY <1>6, <1>10, <5>1, <5>2
        <4> QED  BY <1>1, <1>2, <4>1, <4>2
      <3>5. ASSUME NEW j \in 1 .. (n - 1)
            PROVE  next'[order'[j]] = IF j < n - 1 THEN order'[j + 1] ELSE Null
        \* The predecessor now leads where the freed task led.
        <4>1. CASE j = i - 1
          <5>1. order'[j] = q
            BY <1>1, <1>2, <1>5, <4>1 DEF q
          <5>2. next'[order'[j]] = next[order[i]]
            BY <1>2, <1>9, <3>1, <3>2, <5>1
          <5>3. i < n => order'[j + 1] = order[i + 1]
            BY <1>1, <1>2, <1>5, <4>1
          <5> QED  BY <1>1, <1>2, <1>6, <4>1, <5>2, <5>3
        <4>2. CASE j < i - 1
          <5>1. order'[j] = order[j] /\ order'[j + 1] = order[j + 1] /\ j < n - 1 /\ j \in 1 .. n
            BY <1>1, <1>2, <1>5, <4>2
          <5>2. order[j] # q /\ order[j] \in Addr
            BY <1>1, <1>2, <1>7, <1>8, <3>1, <4>2, <5>1 DEF q
          <5> QED  BY <1>1, <1>2, <1>6, <1>9, <3>2, <5>1, <5>2
        <4>3. CASE j > i - 1
          <5>1. order'[j] = order[j + 1] /\ j + 1 \in 1 .. n /\ j + 1 # i - 1
            BY <1>1, <1>2, <1>5, <4>3
          <5>2. order[j + 1] # q /\ order[j + 1] \in Addr
            BY <1>7, <1>8, <3>1, <5>1 DEF q
          <5>3. next'[order'[j]] = next[order[j + 1]]
            BY <1>9, <3>2, <5>1, <5>2
          <5>4. j < n - 1 => order'[j + 1] = order[(j + 1) + 1]
            BY <1>1, <1>2, <1>5, <4>3
          <5> QED  BY <1>1, <1>6, <5>1, <5>3, <5>4
        <4> QED  BY <1>1, <1>2, <4>1, <4>2, <4>3
      <3> QED  BY <3>3, <3>4, <3>5
    <2> QED  BY <1>2, <2>1, <2>2
  <1> QED  BY <1>1, <1>5, <1>11, <1>12 DEF InOrder

----------------------------------------------------------------------------
\* Clearing p's slot takes exactly p out of the table.
LEMMA WithoutFacts ==
    ASSUME TasksTypeOK, NEW p \in Addr
    PROVE  /\ Without(p) \in [Slot -> Pointer]
           /\ {Without(p)[s] : s \in Slot} \ {Null} = Registered \ {p}
           /\ \A s \in Slot : Without(p)[s] # Null => Without(p)[s] = processes[s]
PROOF
  BY TasksAssumption DEF TasksTypeOK, Without, Registered, Pointer

\* The process that is current afterwards is a registered one other than p, or
\* p itself when the table has nothing else.
LEMMA NextProcessFacts ==
    ASSUME TasksTypeOK, NEW p \in Registered, current_process \in Registered
    PROVE  \/ NextProcess(p) \in Registered \ {p}
           \/ NextProcess(p) = p /\ Registered = {p}
PROOF
  <1> DEFINE left == {s \in Slot : Without(p)[s] # Null}
  <1>1. p \in Addr /\ current_process \in Addr
    BY TasksAssumption DEF TasksTypeOK, Registered, Pointer
  <1>2. {Without(p)[s] : s \in Slot} \ {Null} = Registered \ {p}
    BY <1>1, WithoutFacts
  <1>3. CASE current_process = p /\ left # {}
    <2>1. NextProcess(p) = Without(p)[Lowest(left)]
      BY <1>3 DEF NextProcess
    <2>2. Lowest(left) \in left
      BY <1>3, LowestIn
    <2> QED  BY <1>2, <2>1, <2>2
  <1>4. CASE current_process = p /\ left = {}
    <2>1. NextProcess(p) = p
      BY <1>4 DEF NextProcess
    <2>2. Registered \ {p} = {}
      BY <1>2, <1>4
    <2> QED  BY <2>1, <2>2
  <1>5. CASE current_process # p
    BY <1>5 DEF NextProcess
  <1> QED  BY <1>3, <1>4, <1>5

\* Exit and crash, whichever registered process they end.
LEMMA TerminateInv ==
    ASSUME IInv, Running, NEW p \in Registered, TerminateAndSwitch(p)
    PROVE  IInv'
PROOF
  <1>1. /\ TasksTypeOK /\ Distinct /\ status = "run"
        /\ current_process \in Registered
        /\ Registered = Allocated
        /\ \A s, u \in Slot : s # u /\ processes[s] = processes[u] => processes[s] = Null
        /\ ListIntact
    BY DEF IInv, Running, CurrentRegistered, TableMatchesTasks
  <1>2. p \in Addr
    BY <1>1, TasksAssumption DEF TasksTypeOK, Registered, Pointer
  <1>3. /\ processes' = Without(p)
        /\ current_process' = NextProcess(p)
    BY DEF TerminateAndSwitch
  <1>4. /\ processes' \in [Slot -> Pointer]
        /\ Registered' = Registered \ {p}
        /\ \A s \in Slot : processes'[s] # Null => processes'[s] = processes[s]
    BY <1>1, <1>2, <1>3, WithoutFacts DEF Registered
  <1>5. CASE NextProcess(p) = p
    <2>1. Registered = {p}
      BY <1>1, <1>5, NextProcessFacts
    <2>2. /\ status' = "panic" /\ current_process' = p
          /\ UNCHANGED <<list, current_task, order, stale>>
      BY <1>3, <1>5 DEF TerminateAndSwitch
    <2>3. Allocated' = {p}
      BY <1>1, <2>1, <2>2 DEF Allocated
    <2>4. TasksTypeOK'
      BY <1>1, <1>2, <1>4, <2>2 DEF TasksTypeOK, list, Pointer
    <2>5. Distinct'
      BY <1>1, <2>2 DEF Distinct
    <2>6. CurrentAllocated' /\ CurrentRegistered' /\ TableMatchesTasks'
      BY <2>2 DEF CurrentAllocated, CurrentRegistered, TableMatchesTasks, Running
    <2>7. PanicKeepsLast'
      BY <1>4, <2>1, <2>2, <2>3 DEF PanicKeepsLast
    <2>8. ListIntact'
      BY <1>1, <2>2 DEF ListIntact, InOrder, list
    <2> QED  BY <2>4, <2>5, <2>6, <2>7, <2>8 DEF IInv
  <1>6. CASE NextProcess(p) # p
    <2>1. NextProcess(p) \in Allocated \ {p}
      BY <1>1, <1>6, NextProcessFacts
    <2>2. /\ task_free(p) /\ current_task' = NextProcess(p) /\ status' = "run"
      BY <1>6, <2>1 DEF TerminateAndSwitch, task_switch
    <2>3. /\ next' \in [Addr -> Pointer]
          /\ prev' \in [Addr -> Pointer]
          /\ task_head' \in Pointer
          /\ task_tail' \in Pointer
          /\ order' \in Seq(Addr)
          /\ stale' \in BOOLEAN
          /\ Distinct'
          /\ Allocated' = Allocated \ {p}
      BY <1>1, <2>2, FreeFacts
    <2>4. NextProcess(p) \in Addr
      BY <1>1, <2>1, TasksAssumption DEF TasksTypeOK, Registered, Pointer
    <2>5. TasksTypeOK'
      BY <1>3, <1>4, <2>2, <2>3, <2>4 DEF TasksTypeOK, Pointer
    <2>6. CurrentAllocated' /\ CurrentRegistered' /\ PanicKeepsLast'
      BY <1>1, <1>3, <1>4, <2>1, <2>2, <2>3
      DEF CurrentAllocated, CurrentRegistered, PanicKeepsLast, Running
    <2>7. TableMatchesTasks'
      <3>1. Registered' = Allocated'
        BY <1>1, <1>4, <2>3
      <3>2. \A s, u \in Slot : s # u /\ processes'[s] = processes'[u] => processes'[s] = Null
        BY <1>1, <1>4
      <3> QED  BY <3>1, <3>2 DEF TableMatchesTasks
    <2>8. ListIntact'
      <3> SUFFICES ASSUME ~stale' PROVE InOrder'
        BY <2>2 DEF ListIntact
      <3>1. ~stale /\ prev[p] = Predecessor(p)
        BY <2>2 DEF task_free
      <3>2. InOrder
        BY <1>1, <3>1 DEF ListIntact
      <3>3. Len(order) > 1
        <4>1. order \in Seq(Addr) /\ Len(order) \in Nat /\ DOMAIN order = 1 .. Len(order)
          BY <1>1 DEF TasksTypeOK
        <4>2. PICK j \in 1 .. Len(order), k \in 1 .. Len(order) :
                order[j] = p /\ order[k] = NextProcess(p)
          BY <1>1, <2>1, <4>1 DEF Allocated
        <4>3. j # k
          BY <1>6, <4>2
        <4> QED  BY <4>1, <4>2, <4>3
      <3> QED  BY <1>1, <2>2, <3>1, <3>2, <3>3, FreeKeepsOrder
    <2> QED  BY <2>3, <2>5, <2>6, <2>7, <2>8 DEF IInv
  <1> QED  BY <1>5, <1>6

----------------------------------------------------------------------------
\* The tick leaves list and table alone; in a list in order the pick is an
\* allocated task.
LEMMA TimerInv ==
    ASSUME IInv, timer_interrupt
    PROVE  IInv'
PROOF
  <1>1. /\ TasksTypeOK /\ Distinct /\ status = "run" /\ ListIntact
        /\ current_task \in Allocated
        /\ current_process \in Registered
        /\ TableMatchesTasks
    BY DEF IInv, timer_interrupt, Running, CurrentAllocated, CurrentRegistered
  <1>2. /\ UNCHANGED <<list, processes, current_process, order, stale>>
        /\ current_task' = task_get_next
        /\ status' = IF task_get_next \in Allocated THEN "run" ELSE "wild"
    BY DEF timer_interrupt, task_switch
  <1>3. current_task \in Addr
    BY <1>1 DEF TasksTypeOK, Allocated
  <1>4. task_get_next \in Pointer
    BY <1>1, <1>3 DEF TasksTypeOK, task_get_next
  <1>5. InOrder => task_get_next \in Allocated
    <2> SUFFICES ASSUME InOrder PROVE task_get_next \in Allocated
      OBVIOUS
    <2> DEFINE n == Len(order)
    <2>1. /\ n \in Nat /\ n # 0 /\ DOMAIN order = 1 .. n
          /\ \A k \in 1 .. n : order[k] \in Addr
      BY <1>1 DEF TasksTypeOK, InOrder
    <2>2. /\ task_head = order[1]
          /\ \A k \in 1 .. n : next[order[k]] = IF k < n THEN order[k + 1] ELSE Null
      BY <2>1 DEF InOrder
    <2> HIDE DEF n
    <2>3. PICK k \in 1 .. n : order[k] = current_task
      BY <1>1, <2>1 DEF Allocated
    <2>4. CASE k < n
      <3>1. next[current_task] = order[k + 1] /\ k + 1 \in 1 .. n
        BY <2>1, <2>2, <2>3, <2>4
      <3> QED  BY <2>1, <3>1, TasksAssumption DEF task_get_next, Allocated
    <2>5. CASE k = n
      <3>1. next[current_task] = Null /\ 1 \in 1 .. n
        BY <2>1, <2>2, <2>3, <2>5
      <3> QED  BY <2>1, <2>2, <3>1 DEF task_get_next, Allocated
    <2> QED  BY <2>1, <2>4, <2>5
  <1>6. /\ TasksTypeOK' /\ Distinct' /\ Allocated' = Allocated /\ Registered' = Registered
    BY <1>1, <1>2, <1>4 DEF TasksTypeOK, Distinct, Allocated, Registered, list
  <1>7. CurrentAllocated'
    BY <1>2, <1>6 DEF CurrentAllocated, Running
  <1>8. CurrentRegistered' /\ PanicKeepsLast'
    BY <1>1, <1>2, <1>6 DEF CurrentRegistered, PanicKeepsLast
  <1>9. TableMatchesTasks'
    BY <1>1, <1>2, <1>6 DEF TableMatchesTasks
  <1>10. ListIntact'
    <2>1. InOrder' <=> InOrder
      BY <1>2 DEF InOrder, list
    <2> QED  BY <1>1, <1>2, <1>5, <2>1 DEF ListIntact
  <1> QED  BY <1>6, <1>7, <1>8, <1>9, <1>10 DEF IInv

----------------------------------------------------------------------------
\* A program that starts gets a slot and an address that were free, and goes
\* to the end of the list.
LEMMA ExecInv ==
    ASSUME IInv, NEW t \in Addr, sys_execprocess(t)
    PROVE  IInv'
PROOF
  <1> DEFINE n == Len(order)
             slot == Lowest(FreeSlots)
  <1>1. /\ TasksTypeOK /\ Distinct /\ status = "run" /\ ListIntact
        /\ Registered = Allocated
        /\ \A s, u \in Slot : s # u /\ processes[s] = processes[u] => processes[s] = Null
    BY DEF IInv, sys_execprocess, Running, TableMatchesTasks
  <1>2. /\ t \notin Allocated /\ t # Null
        /\ task_new(t)
        /\ order' = Append(order, t)
        /\ processes' = [processes EXCEPT ![slot] = t]
        /\ current_process' = t
        /\ current_task' = t
        /\ status' = "run"
        /\ UNCHANGED stale
    BY TasksAssumption DEF sys_execprocess, task_switch
  <1>3. slot \in Slot /\ processes[slot] = Null
    <2>1. FreeSlots \in SUBSET Slot /\ FreeSlots # {}
      BY DEF sys_execprocess, FreeSlots
    <2> QED  BY <2>1, LowestIn DEF FreeSlots
  <1> HIDE DEF slot, n
  <1>4. order \in Seq(Addr) /\ n \in Nat /\ DOMAIN order = 1 .. n
    BY <1>1 DEF TasksTypeOK, n
  <1>5. /\ order' \in Seq(Addr) /\ Len(order') = n + 1 /\ DOMAIN order' = 1 .. (n + 1)
        /\ order'[n + 1] = t
        /\ \A j \in 1 .. n : order'[j] = order[j]
    BY <1>2, <1>4 DEF n
  <1>6. Allocated' = Allocated \cup {t}
    <2>1. Allocated' = {order'[j] : j \in 1 .. (n + 1)} /\ Allocated = {order[j] : j \in 1 .. n}
      BY <1>4, <1>5 DEF Allocated
    <2>2. \A j \in 1 .. (n + 1) : j \in 1 .. n \/ j = n + 1
      BY <1>4
    <2>3. n + 1 \in 1 .. (n + 1) /\ \A j \in 1 .. n : j \in 1 .. (n + 1)
      BY <1>4
    <2> QED  BY <1>5, <2>1, <2>2, <2>3
  <1>7. Registered' = Registered \cup {t}
    BY <1>1, <1>2, <1>3 DEF TasksTypeOK, Registered
  <1>8. next' \in [Addr -> Pointer] /\ prev' \in [Addr -> Pointer]
        /\ task_head' \in Pointer /\ task_tail' \in Pointer
    BY <1>1, <1>2 DEF TasksTypeOK, task_new, Linked, Pointer
  <1>9. TasksTypeOK'
    BY <1>1, <1>2, <1>3, <1>5, <1>8 DEF TasksTypeOK, Pointer
  <1>10. Distinct'
    <2> SUFFICES ASSUME NEW j \in 1 .. (n + 1), NEW k \in 1 .. (n + 1), order'[j] = order'[k]
                 PROVE  j = k
      BY <1>5 DEF Distinct
    <2>1. \A i \in 1 .. n : order[i] # t
      BY <1>2, <1>4 DEF Allocated
    <2>2. (j \in 1 .. n \/ j = n + 1) /\ (k \in 1 .. n \/ k = n + 1)
      BY <1>4
    <2> QED  BY <1>1, <1>4, <1>5, <2>1, <2>2 DEF Distinct
  <1>11. CurrentAllocated' /\ CurrentRegistered' /\ PanicKeepsLast'
    BY <1>2, <1>6, <1>7 DEF CurrentAllocated, CurrentRegistered, PanicKeepsLast, Running
  <1>12. TableMatchesTasks'
    <2>1. \A s \in Slot : processes[s] # t
      BY <1>1, <1>2 DEF Registered
    <2>2. \A s, u \in Slot : s # u /\ processes'[s] = processes'[u] => processes'[s] = Null
      BY <1>1, <1>2, <1>3, <2>1 DEF TasksTypeOK
    <2> QED  BY <1>1, <1>6, <1>7, <2>2 DEF TableMatchesTasks
  <1>13. ListIntact'
    <2> SUFFICES ASSUME ~stale PROVE InOrder'
      BY <1>2 DEF ListIntact
    <2>1. /\ n > 0 /\ task_head = order[1] /\ task_tail = order[n]
          /\ \A j \in 1 .. n : next[order[j]] = IF j < n THEN order[j + 1] ELSE Null
      BY <1>1, <1>4 DEF ListIntact, InOrder, n
    <2>2. \A j \in 1 .. n : order[j] \in Addr /\ order[j] # t
      BY <1>2, <1>4 DEF Allocated, n
    <2>3. task_head # Null
      BY <1>4, <2>1, <2>2, TasksAssumption
    <2>4. /\ next' = [a \in Addr |-> IF a = task_tail THEN t ELSE IF a = t THEN Null ELSE next[a]]
          /\ task_tail' = t /\ task_head' = task_head
      BY <1>2, <2>3 DEF task_new, Linked
    <2>5. ASSUME NEW j \in 1 .. (n + 1)
          PROVE  next'[order'[j]] = IF j < n + 1 THEN order'[j + 1] ELSE Null
      <3>1. CASE j = n + 1
        <4>1. t # task_tail
          BY <1>4, <2>1, <2>2
        <4> QED  BY <1>4, <1>5, <2>4, <3>1, <4>1
      <3>2. CASE j = n
        BY <1>4, <1>5, <2>1, <2>2, <2>4, <3>2
      <3>3. CASE j < n
        <4>1. j \in 1 .. n /\ n \in 1 .. n /\ j + 1 \in 1 .. n
          BY <1>4, <3>3
        <4>2. order[j] # order[n]
          BY <1>1, <1>4, <3>3, <4>1 DEF Distinct
        <4>3. order'[j] = order[j] /\ order'[j + 1] = order[j + 1]
          BY <1>5, <4>1
        <4>4. next'[order[j]] = next[order[j]]
          BY <2>1, <2>2, <2>4, <4>1, <4>2
        <4>5. next[order[j]] = order[j + 1]
          BY <2>1, <3>3, <4>1
        <4>6. j < n + 1
          BY <1>4, <3>3
        <4> QED  BY <4>3, <4>4, <4>5, <4>6
      <3>4. j = n + 1 \/ j = n \/ j < n
        BY <1>4
      <3> QED  BY <3>1, <3>2, <3>3, <3>4
    <2>6. order' # << >> /\ task_head' = order'[1] /\ task_tail' = order'[Len(order')]
      BY <1>4, <1>5, <2>1, <2>4
    <2> QED  BY <1>5, <2>5, <2>6 DEF InOrder
  <1> QED  BY <1>9, <1>10, <1>11, <1>12, <1>13 DEF IInv

\* A load that fails late leaves a list in order as it was.
LEMMA ExecFailsInv ==
    ASSUME IInv, NEW t \in Addr, sys_execprocess_fails(t)
    PROVE  IInv'
PROOF
  <1>1. /\ TasksTypeOK /\ Distinct /\ status = "run" /\ ListIntact
        /\ current_task \in Allocated
        /\ current_process \in Registered
        /\ TableMatchesTasks
        /\ t \notin Allocated
    BY DEF IInv, sys_execprocess_fails, Running, CurrentAllocated, CurrentRegistered
  <1>2. UNCHANGED <<processes, current_process, order, stale>>
    BY DEF sys_execprocess_fails
  <1>3. Linked(t) \in [Addr -> Pointer]
    BY <1>1 DEF Linked, TasksTypeOK, Pointer
  <1>4. Null \notin Allocated
    BY <1>1, TasksAssumption DEF TasksTypeOK, Allocated
  <1>5. CASE task_head = Null
    <2>1. /\ next' = [next EXCEPT ![t] = Null]
          /\ prev' = [prev EXCEPT ![t] = Null]
          /\ task_tail' = Null /\ task_head' = task_head
          /\ current_task' = Null
          /\ status' = "wild"
      BY <1>4, <1>5 DEF sys_execprocess_fails, task_switch
    <2>2. TasksTypeOK'
      BY <1>1, <1>2, <2>1 DEF TasksTypeOK, Pointer
    <2>3. Distinct' /\ Allocated' = Allocated /\ Registered' = Registered
      BY <1>1, <1>2 DEF Distinct, Allocated, Registered
    <2>4. CurrentAllocated' /\ CurrentRegistered' /\ PanicKeepsLast' /\ TableMatchesTasks'
      BY <1>1, <1>2, <2>1, <2>3
      DEF CurrentAllocated, CurrentRegistered, PanicKeepsLast, TableMatchesTasks, Running
    <2>5. stale
      <3> SUFFICES ASSUME InOrder PROVE FALSE
        BY <1>1 DEF ListIntact, TasksTypeOK
      <3>1. order[1] \in Addr
        BY <1>1 DEF TasksTypeOK, InOrder
      <3> QED  BY <1>5, <3>1, TasksAssumption DEF InOrder
    <2>6. ListIntact'
      BY <1>2, <2>5 DEF ListIntact
    <2> QED  BY <2>2, <2>3, <2>4, <2>6 DEF IInv
  <1>6. CASE task_head # Null
    <2>1. /\ next' = [a \in Addr |-> Linked(t)[IF a = task_tail THEN t ELSE a]]
          /\ prev' = [prev EXCEPT ![t] = task_tail]
          /\ task_head' = IF t = task_head THEN Linked(t)[t] ELSE task_head
          /\ UNCHANGED <<task_tail, current_task, status>>
      BY <1>6 DEF sys_execprocess_fails
    <2>2. TasksTypeOK'
      BY <1>1, <1>2, <1>3, <2>1 DEF TasksTypeOK, Pointer
    <2>3. Distinct' /\ Allocated' = Allocated /\ Registered' = Registered
      BY <1>1, <1>2 DEF Distinct, Allocated, Registered
    <2>4. CurrentAllocated' /\ CurrentRegistered' /\ PanicKeepsLast' /\ TableMatchesTasks'
      BY <1>1, <1>2, <2>1, <2>3
      DEF CurrentAllocated, CurrentRegistered, PanicKeepsLast, TableMatchesTasks, Running
    <2>5. ListIntact'
      <3> DEFINE n == Len(order)
      <3> SUFFICES ASSUME ~stale PROVE InOrder'
        BY <1>1, <1>2, <2>1 DEF ListIntact
      <3>1. order \in Seq(Addr) /\ n \in Nat /\ DOMAIN order = 1 .. n
        BY <1>1 DEF TasksTypeOK
      <3> HIDE DEF n
      <3>2. /\ n > 0 /\ task_head = order[1] /\ task_tail = order[n] /\ order # << >>
            /\ \A j \in 1 .. n : next[order[j]] = IF j < n THEN order[j + 1] ELSE Null
        BY <1>1, <3>1 DEF ListIntact, InOrder, n
      <3>3. \A j \in 1 .. n : order[j] \in Addr /\ order[j] # t
        BY <1>1, <3>1 DEF Allocated, n
      <3>4. task_head' = task_head /\ task_tail # t
        BY <2>1, <3>1, <3>2, <3>3
      <3>5. Linked(t)[t] = Null /\ \A a \in Addr : a # t /\ a # task_tail => Linked(t)[a] = next[a]
        BY <3>4 DEF Linked
      <3>6. \A j \in 1 .. n : next'[order[j]] = next[order[j]]
        <4> SUFFICES ASSUME NEW j \in 1 .. n PROVE next'[order[j]] = next[order[j]]
          OBVIOUS
        <4>1. CASE order[j] = task_tail
          <5>1. next'[order[j]] = Null
            BY <2>1, <3>3, <3>5, <4>1
          <5>2. j = n
            BY <1>1, <3>1, <3>2, <4>1 DEF Distinct
          <5> QED  BY <3>1, <3>2, <5>1, <5>2
        <4>2. CASE order[j] # task_tail
          BY <2>1, <3>3, <3>5, <4>2
        <4> QED  BY <4>1, <4>2
      <3> QED  BY <1>2, <2>1, <3>1, <3>2, <3>4, <3>6 DEF InOrder, n
    <2> QED  BY <2>2, <2>3, <2>4, <2>5 DEF IInv
  <1> QED  BY <1>5, <1>6

LEMMA NextInv == IInv /\ [TasksNext]_tasks_vars => IInv'
PROOF
  <1> SUFFICES ASSUME IInv, [TasksNext]_tasks_vars
               PROVE  IInv'
    OBVIOUS
  <1>1. CASE timer_interrupt
    BY <1>1, TimerInv
  <1>2. ASSUME NEW t \in Addr, sys_execprocess(t) PROVE IInv'
    BY <1>2, ExecInv
  <1>3. ASSUME NEW t \in Addr, sys_execprocess_fails(t) PROVE IInv'
    BY <1>3, ExecFailsInv
  <1>4. CASE UNCHANGED tasks_vars
    <2>1. /\ UNCHANGED <<next, prev, task_head, task_tail>>
          /\ UNCHANGED <<current_task, processes, current_process, status, order, stale>>
      BY <1>4 DEF tasks_vars, list
    <2>2. TasksTypeOK' /\ Distinct' /\ Allocated' = Allocated /\ Registered' = Registered
      BY <2>1 DEF IInv, TasksTypeOK, Distinct, Allocated, Registered
    <2>3. CurrentAllocated' /\ CurrentRegistered' /\ TableMatchesTasks' /\ PanicKeepsLast'
      BY <2>1, <2>2 DEF IInv, CurrentAllocated, CurrentRegistered, TableMatchesTasks,
                        PanicKeepsLast, Running
    <2>4. ListIntact'
      BY <2>1 DEF IInv, ListIntact, InOrder
    <2> QED  BY <2>2, <2>3, <2>4 DEF IInv
  <1>5. CASE sys_exit
    <2>1. Running /\ TerminateAndSwitch(current_process) /\ current_process \in Registered
      BY <1>5 DEF sys_exit, Running, IInv, CurrentRegistered
    <2> QED  BY <2>1, TerminateInv
  <1>6. CASE kernel_exception
    <2>1. Running /\ TerminateAndSwitch(current_task) /\ current_task \in Registered
      BY <1>6 DEF kernel_exception, Running, IInv, CurrentAllocated, TableMatchesTasks
    <2> QED  BY <2>1, TerminateInv
  <1> QED  BY <1>1, <1>2, <1>3, <1>4, <1>5, <1>6 DEF TasksNext, sys_execprocess_full, Stopped

\* The list, the table and the histories keep their types.
THEOREM TasksTypeCorrect == TasksSpec => []TasksTypeOK
PROOF
  <1>1. IInv => TasksTypeOK
    BY DEF IInv
  <1> QED  BY <1>1, InitInv, NextInv, PTL DEF TasksSpec

\* The current process is never a freed one.
THEOREM TasksCurrentRegistered == TasksSpec => []CurrentRegistered
PROOF
  <1>1. IInv => CurrentRegistered
    BY DEF IInv
  <1> QED  BY <1>1, InitInv, NextInv, PTL DEF TasksSpec

\* The process table and the allocated tasks agree, one slot each.
THEOREM TasksTableMatches == TasksSpec => []TableMatchesTasks
PROOF
  <1>1. IInv => TableMatchesTasks
    BY DEF IInv
  <1> QED  BY <1>1, InitInv, NextInv, PTL DEF TasksSpec

\* A panic over the last process has freed nothing.
THEOREM TasksPanicKeepsLast == TasksSpec => []PanicKeepsLast
PROOF
  <1>1. IInv => PanicKeepsLast
    BY DEF IInv
  <1> QED  BY <1>1, InitInv, NextInv, PTL DEF TasksSpec

\* Until a task is removed through a stale prev, the list is exactly the
\* allocated tasks in order and no freed task runs.
THEOREM TasksListIntact == TasksSpec => []ListIntact
PROOF
  <1>1. IInv => ListIntact
    BY DEF IInv
  <1> QED  BY <1>1, InitInv, NextInv, PTL DEF TasksSpec
=============================================================================
