----------------------------- MODULE MCDelivery -----------------------------
(***************************************************************************)
(* A small instance of Delivery for TLC.                                   *)
(***************************************************************************)
EXTENDS Delivery

CONSTANTS p1, c1, m1, u1

OnPod1 == [c \in Conns |-> p1]
=============================================================================
