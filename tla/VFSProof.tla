------------------------------- MODULE VFSProof -------------------------------
(***************************************************************************)
(* Proofs about the descriptors: what a program holds is open, nothing is  *)
(* lost, private descriptors are owned, and a path keeps its meaning.      *)
(***************************************************************************)
EXTENDS VFS, TLAPS, WellFoundedInduction

\* A set of natural numbers that is not empty has a least element: the
\* first free number is one, and the mount that was made first.
LEMMA LeastExists ==
    ASSUME NEW S, S \subseteq Nat, S # {}
    PROVE  \E s \in S : \A t \in S : s <= t
PROOF
  <1>1. PICK x \in S : \A y \in S : ~ (<<y, x>> \in OpToRel(<, Nat))
    BY NatLessThanWellFounded, WFMin
  <1>2. \A y \in S : ~ (y < x)
    BY <1>1 DEF OpToRel
  <1> QED  BY <1>2

\* A table in which every descriptor sits in the slot of its own number.
IndexIsSlot(table) == \A n \in Number : table[n] # None => table[n].index = n

\* A table whose FAT16 descriptors own the private ones, one each.
Fat(table) == {n \in Number : table[n] # None /\ table[n].kind = "fat16"}
Owned(table, privates) ==
    /\ \A n, m \in Fat(table) : table[n].data = table[m].data => n = m
    /\ privates = {table[n].data : n \in Fat(table)}

Table == [Number -> Descriptor \cup {None}]

\* The inductive invariant: IndexIsSlot makes a close free the slot it looked
\* up, and without it nothing else survives a close.
IInv ==
    /\ TypeOK
    /\ IndexIsSlot(file_descriptors)
    /\ HeldIsOpen
    /\ NumbersAccounted
    /\ PrivatesOwned
    /\ NullHasCause

LEMMA NumberFacts == Number \subseteq Nat /\ 1 \in Number
PROOF
  BY VFSAssumption DEF Number

\* The first free number is a free number, and none before it is.
LEMMA LowestFreeIn ==
    FreeNumbers # {} => LowestFree \in FreeNumbers /\ \A n \in FreeNumbers : LowestFree <= n
PROOF
  <1> SUFFICES ASSUME FreeNumbers # {}
               PROVE  LowestFree \in FreeNumbers /\ \A n \in FreeNumbers : LowestFree <= n
    OBVIOUS
  <1>1. FreeNumbers \subseteq Nat
    BY NumberFacts DEF FreeNumbers
  <1>2. \E n \in FreeNumbers : \A m \in FreeNumbers : n <= m
    BY <1>1, LeastExists
  <1> QED  BY <1>2 DEF LowestFree

\* A set of numbers up to n that is not empty has a greatest element: the least
\* distance from n is that of the greatest.
LEMMA GreatestExists ==
    ASSUME NEW n \in Nat, NEW S, S \subseteq 1 .. n, S # {}
    PROVE  \E s \in S : \A t \in S : t <= s
PROOF
  <1> DEFINE D == {d \in Nat : n - d \in S}
  <1>1. D # {}
    <2>1. PICK s \in S : TRUE
      OBVIOUS
    <2>2. n - s \in Nat /\ n - (n - s) = s
      BY <2>1
    <2> QED  BY <2>1, <2>2
  <1>2. PICK d \in D : \A e \in D : d <= e
    BY <1>1, LeastExists
  <1>3. ASSUME NEW t \in S PROVE t <= n - d
    <2>1. n - t \in Nat /\ n - (n - t) = t
      BY <1>3
    <2>2. d <= n - t
      BY <2>1, <1>2, <1>3
    <2> QED  BY <2>1, <2>2, <1>2, <1>3
  <1> QED  BY <1>2, <1>3

\* A path under a mount resolves to its longest mounted prefix, and there to
\* the first mount.
LEMMA Resolution ==
    ASSUME TypeOK, NEW path \in Path, PrefixMounts(path) # {}
    PROVE  /\ Longest(path) \in PrefixMounts(path)
           /\ \A m \in PrefixMounts(path) : m <= Longest(path)
           /\ MountOf(path) \in Mounts(path, Longest(path))
           /\ \A i \in Mounts(path, Longest(path)) : MountOf(path) <= i
           /\ MountOf(path) \in 1 .. MAX_MOUNTED
           /\ mounted[MountOf(path)].kind \in Kind
PROOF
  <1>1. Len(path) \in Nat
    BY VFSAssumption
  <1>2. PrefixMounts(path) \subseteq 1 .. Len(path)
    BY DEF PrefixMounts
  <1>3. \E n \in PrefixMounts(path) : \A m \in PrefixMounts(path) : m <= n
    BY <1>1, <1>2, GreatestExists
  <1>4. Longest(path) \in PrefixMounts(path) /\ \A m \in PrefixMounts(path) : m <= Longest(path)
    BY <1>3 DEF Longest
  <1> DEFINE S == Mounts(path, Longest(path))
  <1>5. S # {}
    BY <1>4 DEF PrefixMounts
  <1>6. mounted \in Seq(Mount) /\ DOMAIN mounted = 1 .. Len(mounted) /\ Len(mounted) \in Nat
    BY DEF TypeOK
  <1>7. S \subseteq Nat /\ S \subseteq DOMAIN mounted
    BY <1>6 DEF Mounts
  <1>8. \E i \in S : \A j \in S : i <= j
    BY <1>5, <1>7, LeastExists
  <1>9. MountOf(path) \in S /\ \A i \in S : MountOf(path) <= i
    BY <1>8 DEF MountOf
  <1>10. MountOf(path) \in 1 .. MAX_MOUNTED
    BY <1>6, <1>7, <1>9, VFSAssumption DEF TypeOK
  <1>11. mounted[MountOf(path)] \in Mount
    <2>1. MountOf(path) \in 1 .. Len(mounted)
      BY <1>6, <1>7, <1>9
    <2> QED  BY <1>6, <2>1
  <1>12. mounted[MountOf(path)].kind \in Kind
    BY <1>11 DEF Mount
  <1> QED  BY <1>4, <1>9, <1>10, <1>12

\* What an fopen may come to hold, and the number it gets.
LEMMA OpensFacts ==
    ASSUME TypeOK, NEW path \in Path, NEW mode, NEW f \in Opens(path, mode)
    PROVE  /\ f \in File
           /\ f.kind = "fat16" => f.data \in Private \ live
           /\ LowestFree \in Number
           /\ file_descriptors[LowestFree] = None
           /\ New(f) \in Descriptor
           /\ New(f) # None
           /\ New(f).index = LowestFree /\ New(f).kind = f.kind /\ New(f).data = f.data
PROOF
  <1>1. PrefixMounts(path) # {} /\ FreeNumbers # {} /\ f \in Opened(path, mode) /\ f # None
    BY DEF Opens
  <1>2. MountOf(path) \in 1 .. MAX_MOUNTED /\ mounted[MountOf(path)].kind \in Kind
    BY <1>1, Resolution
  <1>3. f \in File /\ (f.kind = "fat16" => f.data \in Private \ live)
    <2>1. CASE mounted[MountOf(path)].kind # "fat16"
      BY <1>1, <1>2, <2>1 DEF Opened, File
    <2>2. CASE mounted[MountOf(path)].kind = "fat16"
      BY <1>1, <1>2, <2>2 DEF Opened, File
    <2> QED  BY <2>1, <2>2
  <1>4. LowestFree \in Number /\ file_descriptors[LowestFree] = None
    BY <1>1, LowestFreeIn DEF FreeNumbers
  <1>5. New(f) \in Descriptor /\ New(f).index = LowestFree
        /\ New(f).kind = f.kind /\ New(f).data = f.data
    BY <1>3, <1>4 DEF New, Descriptor, File
  <1>6. New(f) # None
    BY <1>5, VFSAssumption
  <1> QED  BY <1>3, <1>4, <1>5, <1>6

\* An open leaves a table that owns its private descriptors.
LEMMA OpenTable ==
    ASSUME TypeOK, IndexIsSlot(file_descriptors), Owned(file_descriptors, live),
           NEW path \in Path, NEW mode, NEW f \in Opens(path, mode)
    PROVE  /\ WithOpened(f) \in Table
           /\ WithOpened(f)[LowestFree] = New(f)
           /\ \A n \in Number : n # LowestFree => WithOpened(f)[n] = file_descriptors[n]
           /\ IndexIsSlot(WithOpened(f))
           /\ Owned(WithOpened(f), AfterOpen(f))
           /\ AfterOpen(f) \subseteq Private
PROOF
  <1> DEFINE T == WithOpened(f)
  <1>1. /\ LowestFree \in Number /\ file_descriptors[LowestFree] = None
        /\ New(f) \in Descriptor /\ New(f) # None
        /\ New(f).index = LowestFree /\ New(f).kind = f.kind /\ New(f).data = f.data
        /\ f.kind = "fat16" => f.data \in Private \ live
    BY OpensFacts
  <1>2. file_descriptors \in Table
    BY DEF TypeOK, Table
  <1>3. /\ T \in Table
        /\ T[LowestFree] = New(f)
        /\ \A n \in Number : n # LowestFree => T[n] = file_descriptors[n]
    BY <1>1, <1>2 DEF WithOpened, Table
  <1>4. IndexIsSlot(T)
    BY <1>1, <1>3 DEF IndexIsSlot
  <1>5. Owned(T, AfterOpen(f))
    <2>1. CASE f.kind = "fat16"
      <3>1. Fat(T) = Fat(file_descriptors) \cup {LowestFree}
        BY <1>1, <1>3, <2>1 DEF Fat
      <3>2. LowestFree \notin Fat(file_descriptors)
        BY <1>1 DEF Fat
      <3>3. \A n \in Fat(file_descriptors) :
               T[n] = file_descriptors[n] /\ T[n].data \in live
        BY <1>3, <3>2 DEF Owned, Fat
      <3>4. T[LowestFree].data = f.data /\ f.data \notin live
        BY <1>1, <1>3, <2>1
      <3>5. AfterOpen(f) = live \cup {f.data}
        BY <2>1 DEF AfterOpen
      <3>6. \A n, m \in Fat(T) : T[n].data = T[m].data => n = m
        BY <3>1, <3>3, <3>4 DEF Owned
      <3>7. {T[n].data : n \in Fat(T)} = {file_descriptors[n].data : n \in Fat(file_descriptors)} \cup {f.data}
        BY <3>1, <3>3, <3>4
      <3> QED  BY <3>5, <3>6, <3>7 DEF Owned
    <2>2. CASE f.kind # "fat16"
      <3>1. Fat(T) = Fat(file_descriptors)
        BY <1>1, <1>3, <2>2 DEF Fat
      <3>2. \A n \in Fat(T) : T[n] = file_descriptors[n]
        BY <1>1, <1>3, <3>1 DEF Fat
      <3>3. AfterOpen(f) = live
        BY <2>2 DEF AfterOpen
      <3> QED  BY <3>1, <3>2, <3>3 DEF Owned
    <2> QED  BY <2>1, <2>2
  <1>6. AfterOpen(f) \subseteq Private
    BY <1>1 DEF AfterOpen, TypeOK
  <1> QED  BY <1>3, <1>4, <1>5, <1>6

\* Closing the descriptor in a slot empties that slot and gives up exactly its
\* private descriptor.
LEMMA CloseTable ==
    ASSUME NEW T \in Table, NEW L, L \subseteq Private, IndexIsSlot(T), Owned(T, L),
           NEW k \in Number, T[k] # None
    PROVE  /\ Freed(T, T[k]) \in Table
           /\ Freed(T, T[k])[k] = None
           /\ \A n \in Number : n # k => Freed(T, T[k])[n] = T[n]
           /\ IndexIsSlot(Freed(T, T[k]))
           /\ Owned(Freed(T, T[k]), AfterClose(L, T[k]))
           /\ AfterClose(L, T[k]) \subseteq Private
PROOF
  <1> DEFINE U == Freed(T, T[k])
  <1>1. T[k].index = k
    BY DEF IndexIsSlot
  <1>2. /\ U \in Table
        /\ U[k] = None
        /\ \A n \in Number : n # k => U[n] = T[n]
    BY <1>1 DEF Freed, Table
  <1>3. IndexIsSlot(U)
    BY <1>2 DEF IndexIsSlot
  <1>4. Fat(U) = Fat(T) \ {k}
    BY <1>2 DEF Fat
  <1>5. \A n \in Fat(U) : U[n] = T[n] /\ n \in Fat(T) /\ n # k
    BY <1>2, <1>4 DEF Fat
  <1>6. \A n, m \in Fat(U) : U[n].data = U[m].data => n = m
    BY <1>5 DEF Owned
  <1>7. AfterClose(L, T[k]) = {U[n].data : n \in Fat(U)}
    <2>1. CASE T[k].kind = "fat16"
      <3>1. k \in Fat(T)
        BY <2>1 DEF Fat
      <3>2. \A n \in Fat(U) : T[n].data # T[k].data
        BY <3>1, <1>5 DEF Owned
      <3>3. L \ {T[k].data} = {T[n].data : n \in Fat(T) \ {k}}
        BY <3>1, <3>2, <1>4 DEF Owned
      <3>4. {U[n].data : n \in Fat(U)} = {T[n].data : n \in Fat(T) \ {k}}
        BY <1>4, <1>5
      <3> QED  BY <2>1, <3>3, <3>4 DEF AfterClose
    <2>2. CASE T[k].kind # "fat16"
      <3>1. Fat(U) = Fat(T)
        BY <2>2, <1>4 DEF Fat
      <3> QED  BY <2>2, <3>1, <1>5 DEF AfterClose, Owned
    <2> QED  BY <2>1, <2>2
  <1>8. Owned(U, AfterClose(L, T[k]))
    BY <1>6, <1>7 DEF Owned
  <1>9. AfterClose(L, T[k]) \subseteq Private
    BY DEF AfterClose
  <1> QED  BY <1>2, <1>3, <1>8, <1>9

\* What a null descriptor may come from.
Cause(h) ==
    \/ h[2].index = MAX_FILEDESCRIPTORS
    \/ hijacked /\ file_descriptors[h[2].index] = None

\* Stuttering, and the steps that only end the kernel.
LEMMA QuietInv ==
    ASSUME IInv, UNCHANGED <<mounted, file_descriptors, live, held, leaked, hijacked>>,
           status' = status \/ (Running /\ status' \in Ended \ {"full"}),
           status' = "null" =>
               status = "null" \/ \E h \in held : Cause(h)
    PROVE  IInv'
PROOF
  <1>1. TypeOK' /\ IndexIsSlot(file_descriptors)'
    BY DEF IInv, TypeOK, IndexIsSlot
  <1>2. HeldIsOpen' /\ NumbersAccounted'
    BY DEF IInv, HeldIsOpen, NumbersAccounted, FreeNumbers
  <1>3. PrivatesOwned'
    BY DEF IInv, PrivatesOwned, Running
  <1>4. NullHasCause'
    BY DEF IInv, NullHasCause, Cause
  <1> QED  BY <1>1, <1>2, <1>3, <1>4 DEF IInv

LEMMA RunningOwned ==
    ASSUME IInv, Running
    PROVE  Owned(file_descriptors, live)
PROOF
  BY DEF IInv, PrivatesOwned, Owned, Fat, Running

LEMMA OwnedIsProperty ==
    Owned(file_descriptors, live)' => PrivatesOwned'
PROOF
  BY DEF PrivatesOwned, Owned, Fat

LEMMA FopenInv ==
    ASSUME IInv, NEW p \in Program, NEW path \in Path, NEW mode, sys_fopen(p, path, mode)
    PROVE  IInv'
PROOF
  <1>1. PICK f \in Opens(path, mode) :
           /\ file_descriptors' = WithOpened(f)
           /\ live' = AfterOpen(f)
           /\ held' = held \cup {<<p, New(f)>>}
    BY DEF sys_fopen
  <1>2. Running /\ UNCHANGED <<mounted, status, leaked, hijacked>>
    BY DEF sys_fopen
  <1>3. Owned(file_descriptors, live) /\ TypeOK /\ IndexIsSlot(file_descriptors)
    BY <1>2, RunningOwned DEF IInv
  <1>4. /\ LowestFree \in Number /\ file_descriptors[LowestFree] = None
        /\ New(f) \in Descriptor /\ New(f) # None /\ New(f).index = LowestFree
    BY <1>1, <1>3, OpensFacts
  <1>5. /\ WithOpened(f) \in Table
        /\ WithOpened(f)[LowestFree] = New(f)
        /\ \A n \in Number : n # LowestFree => WithOpened(f)[n] = file_descriptors[n]
        /\ IndexIsSlot(WithOpened(f))
        /\ Owned(WithOpened(f), AfterOpen(f))
        /\ AfterOpen(f) \subseteq Private
    BY <1>1, <1>3, OpenTable
  <1>6. TypeOK'
    BY <1>1, <1>2, <1>3, <1>4, <1>5 DEF TypeOK, Table
  <1>7. IndexIsSlot(file_descriptors)' /\ PrivatesOwned'
    BY <1>1, <1>5, OwnedIsProperty
  <1>8. \A h \in held : h[2].index \in Number
    BY <1>3 DEF TypeOK, Descriptor
  <1>9. ASSUME ~hijacked, NEW h \in held
        PROVE  h[2].index # LowestFree
    <2>1. h[2].index \in Number \ FreeNumbers
      BY <1>9 DEF IInv, NumbersAccounted
    <2> QED  BY <2>1, <1>4 DEF FreeNumbers
  <1>10. HeldIsOpen'
    <2> SUFFICES ASSUME ~hijacked', NEW h \in held'
                 PROVE  file_descriptors'[h[2].index] = h[2]
      BY DEF HeldIsOpen
    <2>1. CASE h \in held
      BY <2>1, <1>1, <1>2, <1>5, <1>8, <1>9 DEF IInv, HeldIsOpen
    <2>2. CASE h = <<p, New(f)>>
      BY <2>2, <1>1, <1>4, <1>5
    <2> QED  BY <2>1, <2>2, <1>1
  <1>11. NumbersAccounted'
    <2> SUFFICES ASSUME ~hijacked
                 PROVE  /\ Number \ FreeNumbers' = {h[2].index : h \in held'} \cup leaked
                        /\ \A h \in held' : h[2].index \notin leaked
                        /\ \A h, k \in held' : h[2].index = k[2].index => h = k
      BY <1>2 DEF NumbersAccounted
    <2>1. /\ Number \ FreeNumbers = {h[2].index : h \in held} \cup leaked
          /\ \A h \in held : h[2].index \notin leaked
          /\ \A h, k \in held : h[2].index = k[2].index => h = k
      BY DEF IInv, NumbersAccounted
    <2>2. Number \ FreeNumbers' = (Number \ FreeNumbers) \cup {LowestFree}
      BY <1>1, <1>4, <1>5 DEF FreeNumbers
    <2>3. <<p, New(f)>>[2].index = LowestFree
      BY <1>4
    <2>4. {h[2].index : h \in held'} = {h[2].index : h \in held} \cup {LowestFree}
      BY <1>1, <2>3
    <2>5. LowestFree \notin leaked
      BY <2>1, <1>4 DEF FreeNumbers
    <2>6. \A h \in held' : h[2].index \notin leaked
      BY <1>1, <2>1, <2>3, <2>5
    <2>7. \A h, k \in held' : h[2].index = k[2].index => h = k
      BY <1>1, <2>1, <2>3, <1>9
    <2> QED  BY <2>1, <2>2, <2>4, <2>6, <2>7
  <1>12. NullHasCause'
    BY <1>2 DEF NullHasCause, Running
  <1> QED  BY <1>6, <1>7, <1>10, <1>11, <1>12 DEF IInv

LEMMA FopenPanicsInv ==
    ASSUME IInv, NEW path \in Path, NEW mode, fopen_panics(path, mode)
    PROVE  IInv'
PROOF
  <1>1. /\ Running /\ PrefixMounts(path) # {}
        /\ UNCHANGED <<mounted, file_descriptors, held, leaked, hijacked>>
    BY DEF fopen_panics
  <1>2. PICK f \in Opened(path, mode) :
           \/ f = None /\ status' = "missing" /\ UNCHANGED live
           \/ f # None /\ FreeNumbers = {} /\ status' = "full" /\ live' = AfterOpen(f)
    BY DEF fopen_panics
  <1>3. CASE f = None /\ status' = "missing" /\ UNCHANGED live
    BY <1>1, <1>3, QuietInv DEF Ended
  <1>4. CASE f # None /\ status' = "full" /\ live' = AfterOpen(f)
    <2>1. AfterOpen(f) \subseteq Private
      <3>1. live \subseteq Private
        BY DEF IInv, TypeOK
      <3>2. CASE mounted[MountOf(path)].kind # "fat16"
        BY <3>1, <3>2, <1>2 DEF Opened, AfterOpen
      <3>3. CASE mounted[MountOf(path)].kind = "fat16"
        BY <3>1, <3>3, <1>2, <1>4 DEF Opened, AfterOpen
      <3> QED  BY <3>2, <3>3
    <2>2. TypeOK' /\ IndexIsSlot(file_descriptors)'
      BY <1>1, <1>4, <2>1 DEF IInv, TypeOK, Ended, IndexIsSlot
    <2>3. HeldIsOpen' /\ NumbersAccounted'
      BY <1>1 DEF IInv, HeldIsOpen, NumbersAccounted, FreeNumbers
    <2>4. PrivatesOwned' /\ NullHasCause'
      BY <1>1, <1>4 DEF IInv, PrivatesOwned, NullHasCause
    <2> QED  BY <2>2, <2>3, <2>4 DEF IInv
  <1> QED  BY <1>2, <1>3, <1>4

\* The look-up finds nothing for a held number only when there is a cause.
LEMMA LookupFacts ==
    ASSUME IInv, NEW h \in held
    PROVE  /\ h[2].index \in Number
           /\ \/ file_get_descriptor(h[2].index) = None
              \/ file_get_descriptor(h[2].index) = file_descriptors[h[2].index]
           /\ file_get_descriptor(h[2].index) = None => Cause(h)
PROOF
  <1>1. h[2].index \in Number /\ h[2] \in Descriptor
    BY DEF IInv, TypeOK, Descriptor
  <1>2. ~hijacked => file_descriptors[h[2].index] = h[2] /\ h[2] # None
    BY <1>1, VFSAssumption DEF IInv, HeldIsOpen
  <1>3. h[2].index = MAX_FILEDESCRIPTORS \/ h[2].index < MAX_FILEDESCRIPTORS
    BY <1>1, VFSAssumption DEF Number
  <1> QED  BY <1>1, <1>2, <1>3 DEF file_get_descriptor, Cause

LEMMA FreadInv ==
    ASSUME IInv, NEW h \in held, sys_fread(h)
    PROVE  IInv'
PROOF
  <1>1. /\ Running
        /\ UNCHANGED <<mounted, file_descriptors, live, held, leaked, hijacked>>
        /\ status' = IF file_get_descriptor(h[2].index) = None THEN "null" ELSE status
    BY DEF sys_fread
  <1>2. status' = status \/ status' \in Ended \ {"full"}
    BY <1>1 DEF Ended
  <1>3. status' = "null" => \E k \in held : Cause(k)
    BY <1>1, LookupFacts DEF Running
  <1> QED  BY <1>1, <1>2, <1>3, QuietInv

LEMMA FseekInv ==
    ASSUME IInv, NEW h \in held, sys_fseek(h)
    PROVE  IInv'
PROOF
  <1>1. /\ Running
        /\ UNCHANGED <<mounted, file_descriptors, live, held, leaked, hijacked>>
        /\ status' \in {"pipe_seek", status}
    BY DEF sys_fseek
  <1> QED  BY <1>1, QuietInv DEF Ended, Running

LEMMA FcloseInv ==
    ASSUME IInv, NEW h \in held, sys_fclose(h)
    PROVE  IInv'
PROOF
  <1> DEFINE f == file_get_descriptor(h[2].index)
             i == h[2].index
  <1>1. Running /\ UNCHANGED <<mounted, leaked, hijacked>>
    BY DEF sys_fclose
  <1>2. CASE f = None
    <2>1. UNCHANGED <<file_descriptors, live, status, held>>
      BY <1>2 DEF sys_fclose
    <2> QED  BY <1>1, <2>1, QuietInv DEF Running
  <1>3. CASE f # None /\ f.kind = "memory"
    <2>1. status' = "memory_close" /\ UNCHANGED <<file_descriptors, live, held>>
      BY <1>3 DEF sys_fclose
    <2> QED  BY <1>1, <2>1, QuietInv DEF Ended
  <1>4. CASE f # None /\ f.kind # "memory"
    <2>1. /\ file_descriptors' = Freed(file_descriptors, f)
          /\ live' = AfterClose(live, f)
          /\ held' = held \ {h}
          /\ UNCHANGED status
      BY <1>4 DEF sys_fclose
    <2>2. i \in Number /\ f = file_descriptors[i] /\ file_descriptors[i] # None
      BY <1>4, LookupFacts
    <2>3. /\ file_descriptors \in Table /\ live \subseteq Private
          /\ IndexIsSlot(file_descriptors) /\ Owned(file_descriptors, live)
      BY <1>1, RunningOwned DEF IInv, TypeOK, Table
    <2>4. /\ file_descriptors' \in Table
          /\ file_descriptors'[i] = None
          /\ \A n \in Number : n # i => file_descriptors'[n] = file_descriptors[n]
          /\ IndexIsSlot(file_descriptors')
          /\ Owned(file_descriptors', live')
          /\ live' \subseteq Private
      BY <2>1, <2>2, <2>3, CloseTable
    <2>5. TypeOK'
      BY <1>1, <2>1, <2>4 DEF IInv, TypeOK, Table
    <2>6. IndexIsSlot(file_descriptors)' /\ PrivatesOwned'
      BY <2>4, OwnedIsProperty
    <2>7. ASSUME ~hijacked
          PROVE  /\ \A k \in held : file_descriptors[k[2].index] = k[2]
                 /\ Number \ FreeNumbers = {k[2].index : k \in held} \cup leaked
                 /\ \A k \in held : k[2].index \notin leaked
                 /\ \A k, l \in held : k[2].index = l[2].index => k = l
      BY <2>7 DEF IInv, HeldIsOpen, NumbersAccounted
    <2>8. \A k \in held : k[2].index \in Number
      BY DEF IInv, TypeOK, Descriptor
    <2>9. HeldIsOpen'
      <3> SUFFICES ASSUME ~hijacked', NEW k \in held'
                   PROVE  file_descriptors'[k[2].index] = k[2]
        BY DEF HeldIsOpen
      <3>1. ~hijacked /\ k \in held /\ k # h
        BY <1>1, <2>1
      <3>2. k[2].index # i
        BY <2>7, <3>1
      <3> QED  BY <2>4, <2>7, <2>8, <3>1, <3>2
    <2>10. NumbersAccounted'
      <3> SUFFICES ASSUME ~hijacked
                   PROVE  /\ Number \ FreeNumbers' = {k[2].index : k \in held'} \cup leaked
                          /\ \A k \in held' : k[2].index \notin leaked
                          /\ \A k, l \in held' : k[2].index = l[2].index => k = l
        BY <1>1 DEF NumbersAccounted
      <3>1. Number \ FreeNumbers' = (Number \ FreeNumbers) \ {i}
        BY <2>2, <2>4 DEF FreeNumbers
      <3>2. {k[2].index : k \in held'} = {k[2].index : k \in held} \ {i}
        BY <2>1, <2>7
      <3>3. i \notin leaked
        BY <2>7
      <3> QED  BY <2>1, <2>7, <3>1, <3>2, <3>3
    <2>11. NullHasCause'
      BY <1>1, <2>1 DEF NullHasCause, Running
    <2> QED  BY <2>5, <2>6, <2>9, <2>10, <2>11 DEF IInv
  <1> QED  BY <1>2, <1>3, <1>4

\* What a load works on: the table with its file opened, in which number one is
\* open, and who holds what of it.
LEMMA LoadFacts ==
    ASSUME IInv, Running, NEW path \in Path, NEW f \in Opens(path, "r")
    PROVE  /\ LowestFree \in Number
           /\ WithOpened(f) \in Table
           /\ IndexIsSlot(WithOpened(f))
           /\ Owned(WithOpened(f), AfterOpen(f))
           /\ AfterOpen(f) \subseteq Private
           /\ WithOpened(f)[1] # None
           /\ \A n \in Number : WithOpened(f)[n] = None <=> n \in FreeNumbers \ {LowestFree}
           /\ ~hijacked => \A h \in held : /\ h[2].index \in Number \ {LowestFree}
                                          /\ WithOpened(f)[h[2].index] = h[2]
                                          /\ h[2].index \notin leaked
PROOF
  <1> DEFINE T == WithOpened(f)
  <1>1. TypeOK /\ IndexIsSlot(file_descriptors) /\ Owned(file_descriptors, live)
    BY RunningOwned DEF IInv
  <1>2. /\ LowestFree \in Number /\ file_descriptors[LowestFree] = None /\ New(f) # None
    BY <1>1, OpensFacts
  <1>3. /\ T \in Table
        /\ T[LowestFree] = New(f)
        /\ \A n \in Number : n # LowestFree => T[n] = file_descriptors[n]
        /\ IndexIsSlot(T)
        /\ Owned(T, AfterOpen(f))
        /\ AfterOpen(f) \subseteq Private
    BY <1>1, OpenTable
  <1>4. \A n \in Number : T[n] = None <=> n \in FreeNumbers \ {LowestFree}
    BY <1>2, <1>3 DEF FreeNumbers
  <1>5. T[1] # None
    <2>1. FreeNumbers # {}
      BY DEF Opens
    <2>2. 1 \in FreeNumbers => LowestFree = 1
      <3>1. SUFFICES ASSUME 1 \in FreeNumbers PROVE LowestFree = 1
        OBVIOUS
      <3>2. LowestFree <= 1
        BY <2>1, <3>1, LowestFreeIn
      <3> QED  BY <1>2, <3>2 DEF Number
    <2> QED  BY <1>4, <2>2, NumberFacts
  <1>6. ASSUME ~hijacked, NEW h \in held
        PROVE  h[2].index \in Number \ {LowestFree} /\ T[h[2].index] = h[2]
               /\ h[2].index \notin leaked
    <2>1. h[2].index \in Number \ FreeNumbers /\ file_descriptors[h[2].index] = h[2]
          /\ h[2].index \notin leaked
      BY <1>6 DEF IInv, NumbersAccounted, HeldIsOpen
    <2>2. h[2].index # LowestFree
      BY <1>2, <2>1 DEF FreeNumbers
    <2> QED  BY <1>3, <2>1, <2>2
  <1> QED  BY <1>2, <1>3, <1>4, <1>5, <1>6

\* A load that leaves its number open: the ones that fail, and the one that panics.
LEMMA LeakInv ==
    ASSUME IInv, Running, NEW path \in Path, NEW f \in Opens(path, "r"),
           file_descriptors' = WithOpened(f), live' = AfterOpen(f),
           leaked' = leaked \cup {LowestFree},
           status' \in {"run", "memory_close"}, UNCHANGED <<mounted, held, hijacked>>
    PROVE  IInv'
PROOF
  <1>1. /\ LowestFree \in Number
        /\ WithOpened(f) \in Table
        /\ IndexIsSlot(WithOpened(f))
        /\ Owned(WithOpened(f), AfterOpen(f))
        /\ AfterOpen(f) \subseteq Private
        /\ \A n \in Number : WithOpened(f)[n] = None <=> n \in FreeNumbers \ {LowestFree}
        /\ ~hijacked => \A h \in held : /\ h[2].index \in Number \ {LowestFree}
                                       /\ WithOpened(f)[h[2].index] = h[2]
                                       /\ h[2].index \notin leaked
    BY LoadFacts
  <1>2. TypeOK'
    BY <1>1 DEF IInv, TypeOK, Table, Ended
  <1>3. IndexIsSlot(file_descriptors)' /\ PrivatesOwned'
    BY <1>1, OwnedIsProperty
  <1>4. HeldIsOpen'
    BY <1>1 DEF HeldIsOpen
  <1>5. NumbersAccounted'
    <2> SUFFICES ASSUME ~hijacked
                 PROVE  /\ Number \ FreeNumbers' = {h[2].index : h \in held} \cup leaked'
                        /\ \A h \in held : h[2].index \notin leaked'
                        /\ \A h, k \in held : h[2].index = k[2].index => h = k
      BY DEF NumbersAccounted
    <2>1. /\ Number \ FreeNumbers = {h[2].index : h \in held} \cup leaked
          /\ \A h, k \in held : h[2].index = k[2].index => h = k
      BY DEF IInv, NumbersAccounted
    <2>2. Number \ FreeNumbers' = (Number \ FreeNumbers) \cup {LowestFree}
      BY <1>1 DEF FreeNumbers
    <2> QED  BY <1>1, <2>1, <2>2
  <1>6. NullHasCause'
    BY DEF NullHasCause
  <1> QED  BY <1>2, <1>3, <1>4, <1>5, <1>6 DEF IInv

LEMMA ExecFailsInv ==
    ASSUME IInv, NEW path \in Path, sys_execprocess_fails(path)
    PROVE  IInv'
PROOF
  <1>1. PICK f \in Opens(path, "r") :
           /\ file_descriptors' = WithOpened(f)
           /\ live' = AfterOpen(f)
           /\ leaked' = leaked \cup {LowestFree}
    BY DEF sys_execprocess_fails
  <1>2. Running /\ UNCHANGED <<mounted, status, held, hijacked>>
    BY DEF sys_execprocess_fails
  <1> QED  BY <1>1, <1>2, LeakInv DEF Running

\* A load that closes number one; when that is neither its own number nor one
\* that an earlier load left behind, hijacked says so.
LEMMA ExecInv ==
    ASSUME IInv, NEW path \in Path, sys_execprocess(path)
    PROVE  IInv'
PROOF
  <1>1. PICK f \in Opens(path, "r") :
           LET victim == WithOpened(f)[Loaded]
           IN  IF victim.kind = "memory"
               THEN /\ status' = "memory_close"
                    /\ file_descriptors' = WithOpened(f)
                    /\ live' = AfterOpen(f)
                    /\ leaked' = leaked \cup {LowestFree}
                    /\ UNCHANGED hijacked
               ELSE /\ file_descriptors' = Freed(WithOpened(f), victim)
                    /\ live' = AfterClose(AfterOpen(f), victim)
                    /\ leaked' = (leaked \cup {LowestFree}) \ {Loaded}
                    /\ hijacked' = (hijacked \/ Loaded \notin leaked \cup {LowestFree})
                    /\ UNCHANGED status
    BY DEF sys_execprocess
  <1>2. Running /\ UNCHANGED <<mounted, held>>
    BY DEF sys_execprocess
  <1> DEFINE T == WithOpened(f)
  <1>3. CASE T[1].kind = "memory"
    BY <1>1, <1>2, <1>3, LeakInv DEF Loaded
  <1>4. CASE T[1].kind # "memory"
    <2>1. /\ file_descriptors' = Freed(T, T[1])
          /\ live' = AfterClose(AfterOpen(f), T[1])
          /\ leaked' = (leaked \cup {LowestFree}) \ {1}
          /\ hijacked' = (hijacked \/ 1 \notin leaked \cup {LowestFree})
          /\ UNCHANGED status
      BY <1>1, <1>4 DEF Loaded
    <2>2. /\ LowestFree \in Number
          /\ T \in Table
          /\ IndexIsSlot(T)
          /\ Owned(T, AfterOpen(f))
          /\ AfterOpen(f) \subseteq Private
          /\ T[1] # None
          /\ \A n \in Number : T[n] = None <=> n \in FreeNumbers \ {LowestFree}
          /\ ~hijacked => \A h \in held : /\ h[2].index \in Number \ {LowestFree}
                                         /\ T[h[2].index] = h[2]
                                         /\ h[2].index \notin leaked
      BY <1>2, LoadFacts
    <2>3. /\ file_descriptors' \in Table
          /\ file_descriptors'[1] = None
          /\ \A n \in Number : n # 1 => file_descriptors'[n] = T[n]
          /\ IndexIsSlot(file_descriptors')
          /\ Owned(file_descriptors', live')
          /\ live' \subseteq Private
      BY <2>1, <2>2, NumberFacts, CloseTable
    <2>4. TypeOK'
      BY <1>2, <2>1, <2>2, <2>3 DEF IInv, TypeOK, Table
    <2>5. IndexIsSlot(file_descriptors)' /\ PrivatesOwned'
      BY <2>3, OwnedIsProperty
    <2>6. ASSUME ~hijacked'
          PROVE  ~hijacked /\ 1 \in leaked \cup {LowestFree} /\ \A h \in held : h[2].index # 1
      <3>1. ~hijacked /\ 1 \in leaked \cup {LowestFree}
        BY <2>1, <2>6
      <3> QED  BY <2>2, <3>1
    <2>7. HeldIsOpen'
      BY <1>2, <2>2, <2>3, <2>6 DEF HeldIsOpen
    <2>8. NumbersAccounted'
      <3> SUFFICES ASSUME ~hijacked'
                   PROVE  /\ Number \ FreeNumbers' = {h[2].index : h \in held} \cup leaked'
                          /\ \A h \in held : h[2].index \notin leaked'
                          /\ \A h, k \in held : h[2].index = k[2].index => h = k
        BY <1>2 DEF NumbersAccounted
      <3>1. /\ Number \ FreeNumbers = {h[2].index : h \in held} \cup leaked
            /\ \A h, k \in held : h[2].index = k[2].index => h = k
        BY <2>6 DEF IInv, NumbersAccounted
      <3>2. Number \ FreeNumbers' = ((Number \ FreeNumbers) \cup {LowestFree}) \ {1}
        BY <2>2, <2>3 DEF FreeNumbers
      <3> QED  BY <2>1, <2>2, <2>6, <3>1, <3>2
    <2>9. NullHasCause'
      BY <1>2, <2>1 DEF NullHasCause, Running
    <2> QED  BY <2>4, <2>5, <2>7, <2>8, <2>9 DEF IInv
  <1> QED  BY <1>3, <1>4

LEMMA OpenIpcInv ==
    ASSUME IInv, NEW path \in IpcPath, sys_open_ipc(path)
    PROVE  IInv'
PROOF
  <1>1. Running /\ UNCHANGED <<file_descriptors, live, held, leaked, hijacked>>
    BY DEF sys_open_ipc
  <1>2. CASE Len(mounted) < MAX_MOUNTED
    <2>1. mounted' = Append(mounted, [filename |-> path, kind |-> "pipe"]) /\ UNCHANGED status
      BY <1>2 DEF sys_open_ipc
    <2>2. [filename |-> path, kind |-> "pipe"] \in Mount
      BY VFSAssumption DEF Mount, Kind
    <2>3. mounted \in Seq(Mount)
      BY DEF IInv, TypeOK
    <2>4. mounted' \in Seq(Mount) /\ Len(mounted') = Len(mounted) + 1
      BY <2>1, <2>2, <2>3
    <2>5. Len(mounted') <= MAX_MOUNTED
      BY <1>2, <2>3, <2>4, VFSAssumption
    <2>6. TypeOK'
      BY <1>1, <2>1, <2>4, <2>5 DEF IInv, TypeOK
    <2>7. IndexIsSlot(file_descriptors)' /\ HeldIsOpen' /\ NumbersAccounted'
      BY <1>1 DEF IInv, IndexIsSlot, HeldIsOpen, NumbersAccounted, FreeNumbers
    <2>8. PrivatesOwned' /\ NullHasCause'
      BY <1>1, <2>1 DEF IInv, PrivatesOwned, NullHasCause
    <2> QED  BY <2>6, <2>7, <2>8 DEF IInv
  <1>3. CASE ~(Len(mounted) < MAX_MOUNTED)
    <2>1. status' = "mounts" /\ UNCHANGED mounted
      BY <1>3 DEF sys_open_ipc
    <2> QED  BY <1>1, <2>1, QuietInv DEF Ended
  <1> QED  BY <1>2, <1>3

LEMMA InitInv == VFSInit => IInv
PROOF
  <1> SUFFICES ASSUME VFSInit PROVE IInv
    OBVIOUS
  <1>1. TypeOK
    BY VFSAssumption DEF VFSInit, TypeOK
  <1>2. IndexIsSlot(file_descriptors) /\ HeldIsOpen /\ NumbersAccounted
    BY DEF VFSInit, IndexIsSlot, HeldIsOpen, NumbersAccounted, FreeNumbers
  <1>3. PrivatesOwned /\ NullHasCause
    BY DEF VFSInit, PrivatesOwned, NullHasCause
  <1> QED  BY <1>1, <1>2, <1>3 DEF IInv

LEMMA NextInv == IInv /\ [VFSNext]_vfs_vars => IInv'
PROOF
  <1> SUFFICES ASSUME IInv, [VFSNext]_vfs_vars
               PROVE  IInv'
    OBVIOUS
  <1>1. ASSUME NEW p \in Program, NEW path \in Path, NEW mode \in {"r", "w"},
               sys_fopen(p, path, mode)
        PROVE  IInv'
    BY <1>1, FopenInv
  <1>2. ASSUME NEW path \in Path, NEW mode \in {"r", "w"}, fopen_panics(path, mode) PROVE IInv'
    BY <1>2, FopenPanicsInv
  <1>3. ASSUME NEW h \in held, sys_fclose(h) PROVE IInv'
    BY <1>3, FcloseInv
  <1>4. ASSUME NEW h \in held, sys_fread(h) PROVE IInv'
    BY <1>4, FreadInv
  <1>5. ASSUME NEW h \in held, sys_fseek(h) PROVE IInv'
    BY <1>5, FseekInv
  <1>6. ASSUME NEW path \in Path, sys_execprocess(path) PROVE IInv'
    BY <1>6, ExecInv
  <1>7. ASSUME NEW path \in Path, sys_execprocess_fails(path) PROVE IInv'
    BY <1>7, ExecFailsInv
  <1>8. ASSUME NEW path \in IpcPath, sys_open_ipc(path) PROVE IInv'
    BY <1>8, OpenIpcInv
  <1>9. CASE UNCHANGED vfs_vars
    <2>1. /\ UNCHANGED <<mounted, file_descriptors, live, held, leaked, hijacked>>
          /\ status' = status
      BY <1>9 DEF vfs_vars
    <2>2. status' = "null" => \E h \in held : Cause(h)
      BY <2>1 DEF IInv, NullHasCause, Cause
    <2> QED  BY <2>1, <2>2, QuietInv
  <1> QED  BY <1>1, <1>2, <1>3, <1>4, <1>5, <1>6, <1>7, <1>8, <1>9
           DEF VFSNext, fopen_refused, Stopped

\* The tables and the histories keep their types.
THEOREM VFSTypeCorrect == VFSSpec => []TypeOK
PROOF
  <1>1. IInv => TypeOK
    BY DEF IInv
  <1> QED  BY <1>1, InitInv, NextInv, PTL DEF VFSSpec

\* Until a load closes a number that a program holds, every held number denotes
\* what it opened.
THEOREM VFSHeldIsOpen == VFSSpec => []HeldIsOpen
PROOF
  <1>1. IInv => HeldIsOpen
    BY DEF IInv
  <1> QED  BY <1>1, InitInv, NextInv, PTL DEF VFSSpec

\* Every open number is held by one program or was left open by a load.
THEOREM VFSNumbersAccounted == VFSSpec => []NumbersAccounted
PROOF
  <1>1. IInv => NumbersAccounted
    BY DEF IInv
  <1> QED  BY <1>1, InitInv, NextInv, PTL DEF VFSSpec

\* Private descriptors are allocated as long as one descriptor points to them.
THEOREM VFSPrivatesOwned == VFSSpec => []PrivatesOwned
PROOF
  <1>1. IInv => PrivatesOwned
    BY DEF IInv
  <1> QED  BY <1>1, InitInv, NextInv, PTL DEF VFSSpec

\* A null descriptor is followed only with a number that a load closed under its
\* program, or with the last one.
THEOREM VFSNullHasCause == VFSSpec => []NullHasCause
PROOF
  <1>1. IInv => NullHasCause
    BY DEF IInv
  <1> QED  BY <1>1, InitInv, NextInv, PTL DEF VFSSpec

\* The only change of the mount table is a pipe behind the other mounts.
LEMMA MountsGrow ==
    ASSUME IInv, [VFSNext]_vfs_vars
    PROVE  \/ mounted' = mounted
           \/ \E m \in Mount : mounted' = Append(mounted, m)
PROOF
  <1>1. ASSUME NEW path \in IpcPath, sys_open_ipc(path)
        PROVE  mounted' = mounted \/ \E m \in Mount : mounted' = Append(mounted, m)
    <2>1. [filename |-> path, kind |-> "pipe"] \in Mount
      BY VFSAssumption DEF Mount, Kind
    <2> QED  BY <1>1, <2>1 DEF sys_open_ipc
  <1> QED  BY <1>1 DEF VFSNext, vfs_vars, sys_fopen, fopen_panics, fopen_refused, sys_fclose, sys_fread,
                       sys_fseek, sys_execprocess, sys_execprocess_fails, Stopped

\* What the two choices of the resolution choose.
LEMMA Least ==
    ASSUME NEW S, S \subseteq Nat, S # {}
    PROVE  /\ (CHOOSE i \in S : \A j \in S : i <= j) \in S
           /\ \A k \in S : (CHOOSE i \in S : \A j \in S : i <= j) <= k
PROOF
  BY LeastExists

LEMMA Greatest ==
    ASSUME NEW n \in Nat, NEW S, S \subseteq 1 .. n, S # {}
    PROVE  /\ (CHOOSE i \in S : \A j \in S : j <= i) \in S
           /\ \A k \in S : k <= (CHOOSE i \in S : \A j \in S : j <= i)
PROOF
  BY GreatestExists

\* A mount behind the others leaves a path where it was, or takes it by a longer
\* prefix.
LEMMA GrowthKeeps ==
    ASSUME TypeOK, NEW m \in Mount, mounted' = Append(mounted, m),
           NEW path \in Path, PrefixMounts(path) # {}
    PROVE  MountOf(path)' = MountOf(path) \/ Longest(path)' > Longest(path)
PROOF
  <1>1. /\ mounted \in Seq(Mount) /\ Len(mounted) \in Nat
        /\ DOMAIN mounted = 1 .. Len(mounted)
        /\ Len(path) \in Nat
    BY VFSAssumption DEF TypeOK
  <1>2. /\ DOMAIN mounted' = DOMAIN mounted \cup {Len(mounted) + 1}
        /\ \A i \in DOMAIN mounted : mounted'[i] = mounted[i]
    BY <1>1
  <1>3. \A n : /\ Mounts(path, n) \subseteq 1 .. Len(mounted)
               /\ Mounts(path, n) \subseteq Mounts(path, n)'
               /\ Mounts(path, n)' \subseteq Mounts(path, n) \cup {Len(mounted) + 1}
    BY <1>1, <1>2 DEF Mounts
  <1>4. PrefixMounts(path) \subseteq PrefixMounts(path)' /\ PrefixMounts(path)' \subseteq 1 .. Len(path)
    BY <1>3 DEF PrefixMounts
  <1>5. /\ Longest(path) \in PrefixMounts(path)
        /\ MountOf(path) \in Mounts(path, Longest(path))
        /\ \A i \in Mounts(path, Longest(path)) : MountOf(path) <= i
    BY Resolution
  <1>6. /\ Longest(path)' \in PrefixMounts(path)'
        /\ \A n \in PrefixMounts(path)' : n <= Longest(path)'
    BY <1>1, <1>4, Greatest DEF Longest
  <1>7. SUFFICES ASSUME ~(Longest(path)' > Longest(path))
                 PROVE  MountOf(path)' = MountOf(path)
    OBVIOUS
  <1>8. PICK L \in 1 .. Len(path) : L = Longest(path) /\ L = Longest(path)'
    <2>1. Longest(path) <= Longest(path)' /\ Longest(path)' \in Nat /\ Longest(path) \in Nat
      BY <1>1, <1>4, <1>5, <1>6
    <2>2. Longest(path)' = Longest(path)
      BY <1>7, <2>1
    <2> QED  BY <1>4, <1>6, <2>2
  <1> DEFINE S == Mounts(path, L)
             T == Mounts(path, L)'
  <1>9. T \subseteq Nat /\ T # {}
    BY <1>1, <1>3, <1>5, <1>8
  <1>10. MountOf(path)' = CHOOSE i \in T : \A j \in T : i <= j
    BY <1>8 DEF MountOf
  <1>11. MountOf(path)' \in T /\ \A j \in T : MountOf(path)' <= j
    BY <1>9, <1>10, Least
  <1>12. MountOf(path) \in S /\ MountOf(path) \in T /\ \A i \in S : MountOf(path) <= i
    BY <1>3, <1>5, <1>8
  <1>13. \A j \in T : MountOf(path) <= j
    BY <1>1, <1>3, <1>12
  <1> QED  BY <1>9, <1>11, <1>12, <1>13

\* A path keeps its meaning: of the pipes that programs mount (file.c:343-355,
\* syscall.cpp:287-307), none comes in front of what is mounted at the same place.
THEOREM VFSBindingsStable == VFSSpec => BindingsStable
PROOF
  <1> DEFINE Stable ==
        \A path \in Path : PrefixMounts(path) # {} =>
            MountOf(path)' = MountOf(path) \/ Longest(path)' > Longest(path)
  <1>1. IInv /\ [VFSNext]_vfs_vars => Stable
    <2> SUFFICES ASSUME IInv, [VFSNext]_vfs_vars, NEW path \in Path, PrefixMounts(path) # {}
                 PROVE  MountOf(path)' = MountOf(path) \/ Longest(path)' > Longest(path)
      OBVIOUS
    <2>1. CASE mounted' = mounted
      BY <2>1 DEF MountOf, Longest, Mounts, PrefixMounts
    <2>2. CASE \E m \in Mount : mounted' = Append(mounted, m)
      BY <2>2, GrowthKeeps DEF IInv
    <2> QED  BY <2>1, <2>2, MountsGrow
  <1>2. IInv /\ [VFSNext]_vfs_vars => [Stable]_vfs_vars
    BY <1>1
  <1> QED  BY <1>2, InitInv, NextInv, PTL DEF VFSSpec, BindingsStable
=============================================================================
