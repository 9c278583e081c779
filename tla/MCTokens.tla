------------------------------ MODULE MCTokens ------------------------------
(***************************************************************************)
(* Small instances of Tokens for TLC.                                      *)
(***************************************************************************)
EXTENDS Tokens, TLC

CONSTANTS k1, k2

CallSymmetry == Permutations(Calls)
=============================================================================
