------------------------------- MODULE MCFAT16 -------------------------------
(***************************************************************************)
(* A partition of four clusters of two sectors of two bytes: `a' is        *)
(* fragmented, `b' ends where the disk ends, `c' and `e' are empty, and    *)
(* `e' comes after a deleted entry.                                        *)
(***************************************************************************)
EXTENDS FAT16, TLC

CONSTANTS a, b, c, e, d1, d2

MCFile == {a, b, c, e}
MCClusters == a :> <<2, 4, 3>> @@ b :> <<5>> @@ c :> << >> @@ e :> << >>
MCEndMark == a :> "FFF8" @@ b :> "FFF9" @@ c :> "FFFF" @@ e :> "FFFF"
Mfilesize == a :> 11 @@ b :> 4 @@ c :> 0 @@ e :> 0
MCDescriptor == {d1, d2}

Whole == <<a, b, c, Deleted, e>>
=============================================================================
