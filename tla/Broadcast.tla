------------------------------ MODULE Broadcast ------------------------------
(***************************************************************************)
(* What the cross-pod fan-out promises, whatever is lost on the way: there *)
(* is one order of publications; a connection is given a part of it, in    *)
(* that order and nothing twice, topic by topic; and it is given events of *)
(* the room only after a membership check that its user passed.  Nothing   *)
(* is promised about which publications arrive.                            *)
(***************************************************************************)
EXTENDS Naturals, Sequences

CONSTANTS Conns, Topics

VARIABLES
    published,   \* topics of the publications so far, in order
    last,        \* per connection and topic: the publication delivered last
    members,     \* connections whose user is a member of the room
    audience     \* per topic: the connections that may be given its events

vars == <<published, last, members, audience>>

Init ==
    /\ published = <<>>
    /\ last = [c \in Conns |-> [t \in Topics |-> 0]]
    /\ members = Conns
    /\ audience = [t \in Topics |-> {}]

Publish(t) ==
    /\ published' = Append(published, t)
    /\ UNCHANGED <<last, members, audience>>

Deliver(t, i, S) ==
    /\ published[i] = t /\ S \subseteq audience[t]
    /\ \A c \in S : last[c][t] < i
    /\ last' = [c \in Conns |-> IF c \in S THEN [last[c] EXCEPT ![t] = i] ELSE last[c]]
    /\ UNCHANGED <<published, members>>
    /\ \A s \in Topics : audience'[s] \subseteq audience[s]

Connect(c) ==
    /\ audience' = [audience EXCEPT !["presence"] = @ \cup {c}]
    /\ UNCHANGED <<published, last, members>>

Admit(c) ==
    /\ c \in members
    /\ audience' = [audience EXCEPT !["room"] = @ \cup {c}]
    /\ UNCHANGED <<published, last, members>>

Part(c) ==
    /\ \/ audience' = [audience EXCEPT !["room"] = @ \ {c}]
       \/ audience' = [t \in Topics |-> audience[t] \ {c}]
    /\ UNCHANGED <<published, last, members>>

Join(c) ==
    /\ members' = members \cup {c}
    /\ UNCHANGED <<published, last, audience>>

(* Leaving the room ends the membership and not the audience.              *)
Leave(c) ==
    /\ members' = members \ {c}
    /\ UNCHANGED <<published, last, audience>>

Next ==
    \/ \E t \in Topics : Publish(t)
    \/ \E t \in Topics, i \in 1..Len(published), S \in SUBSET Conns : Deliver(t, i, S)
    \/ \E c \in Conns : Connect(c) \/ Admit(c) \/ Part(c) \/ Join(c) \/ Leave(c)

Spec == Init /\ [][Next]_vars
=============================================================================
