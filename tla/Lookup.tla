-------------------------------- MODULE Lookup --------------------------------
(***************************************************************************)
(* How fopen finds the mount that serves a path (fs/file.c:181-252): the   *)
(* parts of the path are joined again, all of them first and then fewer    *)
(* and fewer, until the result is the name of a mount.                     *)
(***************************************************************************)
EXTENDS Path

CONSTANTS
    Filename,           \* what is opened
    Openmode,           \* how, as the program writes it
    MountName,          \* what file systems are mounted as
    MAX_MOUNTED

ASSUME LookupAssumption ==
    /\ Filename \subseteq Seq(Nat \ {NUL})
    /\ MountName \subseteq Seq(Nat \ {NUL}) \ {<< >>}
    /\ MAX_MOUNTED \in Nat

VARIABLES
    mounted,            \* the names in the mount table, up to its first free slot
    opening             \* the fopen: how far it is, its path, parts, how many of
                        \* them are tried, and the slot it found

lookup == <<mounted, opening>>

Closed == [end |-> "none", filename |-> << >>, parts |-> << >>, n |-> 0, slot |-> 0]

\* The slots whose name is that of the first n parts.
Slots_of(parts, n) == {idx \in DOMAIN mounted : IsMounted(reconstructed_path(parts, n), mounted[idx])}
FirstSlot(parts, n) ==
    CHOOSE idx \in Slots_of(parts, n) : \A other \in Slots_of(parts, n) : idx <= other

----------------------------------------------------------------------------
LookupInit == mounted = << >> /\ opening = Closed

\* What happens when the table is full is in VFS.
mount(filename) ==
    /\ opening = Closed /\ Len(mounted) < MAX_MOUNTED
    /\ mounted' = Append(mounted, filename)
    /\ UNCHANGED opening

\* A path that is not valid has no parts, and one part is not enough.
fopen(filename, str_mode) ==
    /\ opening = Closed
    /\ LET parts == parse(filename)
           refused == Len(parts) < 2 \/ file_get_mode_by_string(str_mode) = "FILE_MODE_INVALID"
       IN  opening' = [end |-> IF refused THEN "refused" ELSE "trying", filename |-> filename,
                       parts |-> parts, n |-> Len(parts), slot |-> 0]
    /\ UNCHANGED mounted

\* The first n parts name a mount: its file system is given the parts behind them.
mount_found ==
    /\ opening.end = "trying" /\ Slots_of(opening.parts, opening.n) # {}
    /\ opening' = [opening EXCEPT !.end = "found", !.slot = FirstSlot(opening.parts, opening.n)]
    /\ UNCHANGED mounted

one_part_less ==
    /\ opening.end = "trying" /\ Slots_of(opening.parts, opening.n) = {}
    /\ opening' = IF opening.n = 0 THEN [opening EXCEPT !.end = "unmounted"]
                  ELSE [opening EXCEPT !.n = @ - 1]
    /\ UNCHANGED mounted

fopen_returns ==
    /\ opening.end \in {"refused", "found", "unmounted"}
    /\ opening' = Closed
    /\ UNCHANGED mounted

LookupNext ==
    \/ \E filename \in MountName : mount(filename)
    \/ \E filename \in Filename, str_mode \in Openmode : fopen(filename, str_mode)
    \/ mount_found
    \/ one_part_less
    \/ fopen_returns

LookupSpec == LookupInit /\ [][LookupNext]_lookup

----------------------------------------------------------------------------
\* A mount serves its own name, and what goes on from it with a slash.
Serves(name, path) == path = name \/ IsPrefix(Append(name, Slash), path)

\* The slot that is found serves the path; of all that do it has the longest name and,
\* among equal names, comes first.  When none is found, none serves it.
MountsMatch ==
    /\ opening.end = "found" =>
          /\ Serves(mounted[opening.slot], opening.filename)
          /\ \A idx \in DOMAIN mounted :
                Serves(mounted[idx], opening.filename) =>
                    \/ Len(mounted[idx]) < Len(mounted[opening.slot])
                    \/ mounted[idx] = mounted[opening.slot] /\ opening.slot <= idx
    /\ opening.end = "unmounted" =>
          \A idx \in DOMAIN mounted : ~Serves(mounted[idx], opening.filename)
=============================================================================
