----------------------------- MODULE MCMessages -----------------------------
(***************************************************************************)
(* Small instances of Messages for TLC.                                    *)
(***************************************************************************)
EXTENDS Messages, TLC

CONSTANTS a1, a2, b1, u1, u2, k1

(* a1 and a2 are two connections of one user, b1 belongs to another one.   *)
Owner == [c \in Callers |-> IF c = b1 THEN u2 ELSE u1]
AllOps == {"send", "edit", "delete", "add", "remove"}
SameUser == Permutations(Callers \ {b1})
=============================================================================
