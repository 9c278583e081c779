------------------------------ MODULE MCRooms ------------------------------
(***************************************************************************)
(* Small instances of Rooms for TLC.                                       *)
(***************************************************************************)
EXTENDS Rooms, TLC

CONSTANTS c1, c2, u1, u2

AllOps == {"join", "leave", "get", "ban"}
CallersAlike == Permutations(Callers)
============================================================================
