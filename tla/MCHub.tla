-------------------------------- MODULE MCHub --------------------------------
(***************************************************************************)
(* Small instances of Hub for TLC.                                         *)
(***************************************************************************)
EXTENDS Hub, TLC

CONSTANTS c1, c2, u1, r1, ip1

(* Both connections are two tabs of one user behind one address.           *)
OneUser == [c \in Conns |-> u1]
OneIp   == [c \in Conns |-> ip1]

Sub(R)   == [op |-> "subscribe", rooms |-> R]
Unsub(R) == [op |-> "unsubscribe", rooms |-> R]
Typing(r) == [op |-> "typing", rooms |-> {r}]
Reply1   == [op |-> "reply", rooms |-> {}]

SubscribeOnly == {Sub({r1})}
RoomRequests  == {Sub({r1}), Unsub({r1})}
AllRequests   == {Sub({r1}), Unsub({r1}), Typing(r1), Reply1}
ConnSymmetry  == Permutations(Conns)
=============================================================================
