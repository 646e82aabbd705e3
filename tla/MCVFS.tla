-------------------------------- MODULE MCVFS --------------------------------
(***************************************************************************)
(* The mounts of kernel_main, a disk with a program and an empty file, and *)
(* room for one pipe name, mounted up to twice.  A file that is on no disk *)
(* is opened as a pipe that is not mounted yet; one path has no drive.     *)
(***************************************************************************)
EXTENDS VFS, TLC

CONSTANTS Drive, Ipc, prog, empty, fb, mouse, ws

MCPart == {Drive, Ipc, prog, empty, fb, mouse, ws}
MCPath == {<<Drive, prog>>, <<Drive, empty>>, <<Drive, fb>>, <<Drive, Ipc, ws>>, <<ws>>}
MCDiskFile == {<<Drive, prog>>, <<Drive, empty>>}
MCEmptyFile == {<<Drive, empty>>}
MCIpcPath == {<<Drive, Ipc, ws>>}
Boot == << [filename |-> <<Drive>>, kind |-> "fat16"],
           [filename |-> <<Drive, fb>>, kind |-> "memory"],
           [filename |-> <<Drive, mouse>>, kind |-> "pipe"] >>

\* No definition tells programs, or addresses of private descriptors, apart.
Symmetry == Permutations(Program) \cup Permutations(Private)
=============================================================================
