------------------------------- MODULE MCInput -------------------------------
(***************************************************************************)
(* Two scenarios, of which a behaviour is one.                             *)
(* "race": both devices, with a key that is never pushed to the ring (a    *)
(* shift) and packets that differ in what their bytes would be taken for   *)
(* as a first one: the races of the two handlers for the shared buffer.    *)
(* "keys": the keyboard alone, with both shifts and a character, and a     *)
(* ring of three keys that can be filled, lapped and drained.              *)
(* One scan code waits in the keyboard besides the one in the controller.  *)
(***************************************************************************)
EXTENDS Input

VARIABLE scenario

Packet(over, second, third) ==
    << [field |-> 0, valid |-> TRUE, overflow |-> over],
       [field |-> 1, valid |-> second, overflow |-> FALSE],
       [field |-> 2, valid |-> third, overflow |-> FALSE] >>

MCPackets == {Packet(FALSE, TRUE, FALSE), Packet(FALSE, FALSE, TRUE), Packet(TRUE, FALSE, FALSE)}

MCInit == scenario \in {"race", "keys"} /\ Init

MCNext ==
    /\ Next
    /\ scenario = "race" => \A i \in DOMAIN keys' : keys'[i].key = "LeftShift"
    /\ scenario = "keys" => motion' = << >>
    /\ UNCHANGED scenario

MCSpec ==
    /\ MCInit
    /\ [][MCNext]_<<vars, scenario>>
    /\ WF_vars(Handlers)
==============================================================================
