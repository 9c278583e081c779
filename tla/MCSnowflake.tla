----------------------------- MODULE MCSnowflake -----------------------------
(***************************************************************************)
(* Small instances of Snowflake for TLC.                                   *)
(***************************************************************************)
EXTENDS Snowflake, TLC

CONSTANTS t1, t2, t3, p1, p2

(* t1 and t2 share the generator of p1, t3 has that of p2 for itself.      *)
SharedPod == [t \in Threads |-> IF t = t3 THEN p2 ELSE p1]
Nodes     == [p \in Pods |-> IF p = p1 THEN 0 ELSE 1]
=============================================================================
