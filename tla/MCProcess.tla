------------------------------ MODULE MCProcess ------------------------------
(***************************************************************************)
(* A small instance of Process for TLC.                                    *)
(***************************************************************************)
EXTENDS Process

CONSTANTS c1, c2, a1
==============================================================================
