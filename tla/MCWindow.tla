------------------------------ MODULE MCWindow ------------------------------
(***************************************************************************)
(* Two clients with windows of different sizes, and a pipe that holds five *)
(* units: two messages of one client or parts of both, and less than the   *)
(* four messages of a registration, so that a slow shell sees it overrun.  *)
(***************************************************************************)
EXTENDS Window, TLC

CONSTANTS p1, p2

MCClient == {p1, p2}
MCHeight == p1 :> 1 @@ p2 :> 1
MCWidth == p1 :> 1 @@ p2 :> 2
=============================================================================
