------------------------------ MODULE HubProofs ------------------------------
(***************************************************************************)
(* Proofs about Hub, for any number of connections, rooms and users and    *)
(* for every capacity of the channels.                                     *)
(***************************************************************************)
EXTENDS Hub, FiniteSetTheorems, TLAPS

(* What the elements of a queue are after a send and after a receive.      *)
LEMMA ElemsAppend ==
    ASSUME NEW S, NEW q \in Seq(S), NEW x \in S
    PROVE  /\ Append(q, x) \in Seq(S)
           /\ Len(Append(q, x)) = Len(q) + 1
           /\ Elems(Append(q, x)) = Elems(q) \cup {x}
  <1>1. /\ Append(q, x) \in Seq(S)
        /\ Len(Append(q, x)) = Len(q) + 1
    OBVIOUS
  <1>2. \A i \in 1..Len(q)+1 : Append(q, x)[i] = IF i = Len(q)+1 THEN x ELSE q[i]
    OBVIOUS
  <1>3. Elems(Append(q, x)) = Elems(q) \cup {x}
    BY <1>1, <1>2 DEF Elems
  <1> QED BY <1>1, <1>3

LEMMA ElemsTail ==
    ASSUME NEW S, NEW q \in Seq(S), q # <<>>
    PROVE  /\ Head(q) \in S
           /\ Head(q) \in Elems(q)
           /\ Tail(q) \in Seq(S)
           /\ Len(Tail(q)) = Len(q) - 1
           /\ Elems(Tail(q)) \subseteq Elems(q)
           /\ Elems(q) \subseteq Elems(Tail(q)) \cup {Head(q)}
  <1>1. /\ Head(q) \in S /\ Head(q) = q[1] /\ Len(q) \in Nat \ {0}
        /\ Tail(q) \in Seq(S) /\ Len(Tail(q)) = Len(q) - 1
        /\ \A i \in 1..Len(q)-1 : Tail(q)[i] = q[i+1]
    OBVIOUS
  <1>2. Head(q) \in Elems(q)
    BY <1>1 DEF Elems
  <1>3. Elems(Tail(q)) \subseteq Elems(q)
    BY <1>1 DEF Elems
  <1>4. ASSUME NEW i \in 1..Len(q)
        PROVE  q[i] \in Elems(Tail(q)) \cup {Head(q)}
    <2>1. CASE i = 1
      BY <1>1, <2>1
    <2>2. CASE i # 1
      <3>1. i - 1 \in 1..Len(Tail(q)) /\ Tail(q)[i - 1] = q[i]
        BY <1>1, <2>2
      <3> QED BY <3>1 DEF Elems
    <2> QED BY <2>1, <2>2
  <1>5. Elems(q) \subseteq Elems(Tail(q)) \cup {Head(q)}
    BY <1>4 DEF Elems
  <1> QED BY <1>1, <1>2, <1>3, <1>5

-----------------------------------------------------------------------------
(* Type correctness.  TypeOK is taken apart along the groups of variables  *)
(* that the actions leave unchanged together.                              *)
AdmissionOK ==
    /\ phase \in [Conns -> {"idle", "over", "counted", "upgraded", "registered", "live", "refused"}]
    /\ ipCount \in [IPs -> Int]
PumpsOK ==
    /\ reader \in [Conns -> {"off", "reading", "subscribing", "unsubscribing", "typing",
                              "replying", "unregistering", "closing", "done"}]
    /\ reqRooms \in [Conns -> SUBSET Rooms]
    /\ writer \in [Conns -> {"off", "running", "closing", "done"}]
    /\ connOpen \in [Conns -> BOOLEAN]
    /\ received \in [Conns -> Nat]
FlagsOK ==
    /\ cancelled \in [Conns -> BOOLEAN]
    /\ closed \in [Conns -> BOOLEAN]
    /\ sendClosed \in [Conns -> BOOLEAN]
SendOK ==
    sendQ \in [Conns -> Seq(Nat)] /\ \A c \in Conns : Len(sendQ[c]) <= SendCap
MapsOK ==
    /\ memberOf \in [Conns -> SUBSET Rooms]
    /\ clients \subseteq Conns
    /\ users \in [Users -> SUBSET Conns]
    /\ rooms \in [Rooms -> SUBSET Conns]
    /\ activeGauge \in Int /\ subsGauge \in Int /\ overtook \subseteq Conns
RegisterOK == registerQ \in Seq(Conns) /\ Len(registerQ) <= RegisterCap
UnregisterOK == unregisterQ \in Seq(Conns) /\ Len(unregisterQ) <= UnregisterCap
BroadcastOK == broadcastQ \in Seq(Event) /\ Len(broadcastQ) <= BroadcastCap
LoopOK ==
    /\ hub \in {"select", "fanout", "sending", "evicting", "stopped"}
    /\ hubMsg \in Event \cup {NoEvent}
    /\ hubTodo \subseteq Conns /\ hubCur \subseteq Conns
RedisOK ==
    /\ roomSub \in {"running", "stopped"}
    /\ presSub \in {"receiving", "sending", "stopped"} /\ presTodo \subseteq Conns
    /\ nextEvent \in Nat \ {0} /\ nextPresence \in Nat \ {0}
ProcessOK ==
    /\ hubClosed \in BOOLEAN
    /\ shutdown \in {"no", "cancelled", "closedAll", "done"}
    /\ crashed \in BOOLEAN

LEMMA TypeParts ==
    TypeOK <=> /\ AdmissionOK /\ PumpsOK /\ FlagsOK /\ SendOK /\ MapsOK /\ RegisterOK
               /\ UnregisterOK /\ BroadcastOK /\ LoopOK /\ RedisOK /\ ProcessOK
  BY Zenon DEF TypeOK, AdmissionOK, PumpsOK, FlagsOK, SendOK, MapsOK, RegisterOK,
               UnregisterOK, BroadcastOK, LoopOK, RedisOK, ProcessOK

(* A step that keeps each group, or retypes it, keeps TypeOK.              *)
LEMMA TypeStep ==
    ASSUME TypeOK,
           AdmissionOK' \/ UNCHANGED admission, PumpsOK' \/ UNCHANGED pumps,
           FlagsOK' \/ UNCHANGED flags, SendOK' \/ UNCHANGED sendQ,
           MapsOK' \/ UNCHANGED maps, RegisterOK' \/ UNCHANGED registerQ,
           UnregisterOK' \/ UNCHANGED unregisterQ, BroadcastOK' \/ UNCHANGED broadcastQ,
           LoopOK' \/ UNCHANGED hubLoop, RedisOK' \/ UNCHANGED redis,
           ProcessOK' \/ UNCHANGED <<hubClosed, shutdown, crashed>>
    PROVE  TypeOK'
  <1> USE TypeParts
  <1>1. AdmissionOK'
    BY DEF AdmissionOK, admission
  <1>2. PumpsOK'
    BY DEF PumpsOK, pumps
  <1>3. FlagsOK'
    BY DEF FlagsOK, flags
  <1>4. SendOK'
    BY DEF SendOK
  <1>5. MapsOK'
    BY DEF MapsOK, maps
  <1>6. RegisterOK' /\ UnregisterOK' /\ BroadcastOK'
    BY DEF RegisterOK, UnregisterOK, BroadcastOK
  <1>7. LoopOK' /\ RedisOK'
    BY DEF LoopOK, RedisOK, hubLoop, redis
  <1>8. ProcessOK'
    BY DEF ProcessOK
  <1> QED
    BY <1>1, <1>2, <1>3, <1>4, <1>5, <1>6, <1>7, <1>8, Zenon
    DEF TypeOK, AdmissionOK, PumpsOK, FlagsOK, SendOK, MapsOK, RegisterOK,
        UnregisterOK, BroadcastOK, LoopOK, RedisOK, ProcessOK

LEMMA AdmissionType ==
    ASSUME TypeOK, NEW c \in Conns, Admission(c)
    PROVE  TypeOK'
  <1> USE TypeParts, ConfigAssumption
  <1>1. CASE Accept(c)
    <2>1. AdmissionOK'
      BY <1>1 DEF Accept, AdmissionOK
    <2> QED BY <1>1, <2>1, TypeStep, Zenon DEF Accept
  <1>2. CASE Refuse(c)
    <2>1. AdmissionOK'
      BY <1>2 DEF Refuse, AdmissionOK
    <2> QED BY <1>2, <2>1, TypeStep, Zenon DEF Refuse
  <1>3. CASE Upgrade(c)
    <2>1. AdmissionOK' /\ PumpsOK'
      BY <1>3 DEF Upgrade, AdmissionOK, PumpsOK
    <2> QED BY <1>3, <2>1, TypeStep, Zenon DEF Upgrade
  <1>4. CASE Register(c)
    <2>1. AdmissionOK'
      BY <1>4 DEF Register, AdmissionOK
    <2>2. RegisterOK'
      BY <1>4, ElemsAppend DEF Register, RegisterOK
    <2> QED BY <1>4, <2>1, <2>2, TypeStep, Zenon DEF Register
  <1>5. CASE StartPumps(c)
    <2>1. AdmissionOK' /\ PumpsOK'
      BY <1>5 DEF StartPumps, AdmissionOK, PumpsOK
    <2> QED BY <1>5, <2>1, TypeStep, Zenon DEF StartPumps
  <1> QED BY <1>1, <1>2, <1>3, <1>4, <1>5 DEF Admission

LEMMA SubsRemovedType ==
    ASSUME TypeOK, NEW c \in Conns
    PROVE  SubsRemoved(c) \in Nat
  <1>1. {r \in memberOf[c] : rooms[r] # {}} \subseteq Rooms
    BY TypeParts DEF MapsOK
  <1> QED BY <1>1, ConfigAssumption, FS_Subset, FS_CardinalityType DEF SubsRemoved

LEMMA RemoveFromMapsType ==
    ASSUME TypeOK, NEW c \in Conns, RemoveFromMaps(c)
    PROVE  /\ clients' \subseteq Conns
           /\ users' \in [Users -> SUBSET Conns]
           /\ rooms' \in [Rooms -> SUBSET Conns]
           /\ memberOf' \in [Conns -> SUBSET Rooms]
  <1> USE TypeParts, ConfigAssumption DEF MapsOK
  <1>1. clients' \subseteq Conns /\ memberOf' \in [Conns -> SUBSET Rooms]
    BY DEF RemoveFromMaps
  <1>2. users' \in [Users -> SUBSET Conns]
    BY DEF RemoveFromMaps
  <1>3. rooms' \in [Rooms -> SUBSET Conns]
    BY DEF RemoveFromMaps
  <1> QED BY <1>1, <1>2, <1>3

LEMMA cleanupClientType ==
    ASSUME TypeOK, NEW c \in Conns, cleanupClient(c)
    PROVE  MapsOK' /\ closed' \in [Conns -> BOOLEAN]
  <1> USE TypeParts
  <1>1. SubsRemoved(c) \in Nat
    BY SubsRemovedType
  <1>2. activeGauge' \in Int /\ subsGauge' \in Int /\ overtook' \subseteq Conns
    BY <1>1 DEF MapsOK, cleanupClient
  <1>3. CASE c \in clients
    <2>1. RemoveFromMaps(c) /\ closed' = [closed EXCEPT ![c] = TRUE]
      BY <1>3 DEF cleanupClient
    <2>2. closed' \in [Conns -> BOOLEAN]
      BY <2>1 DEF FlagsOK
    <2> QED BY <1>2, <2>1, <2>2, RemoveFromMapsType DEF MapsOK
  <1>4. CASE c \notin clients
    <2>1. UNCHANGED <<clients, users, rooms, memberOf, closed>>
      BY <1>4 DEF cleanupClient
    <2> QED BY <1>2, <2>1 DEF MapsOK, FlagsOK
  <1> QED BY <1>3, <1>4

LEMMA TrySendType ==
    ASSUME TypeOK, NEW c \in Conns, NEW m \in Nat, TrySend(c, m)
    PROVE  SendOK' /\ crashed' \in BOOLEAN
  <1> USE TypeParts, ConfigAssumption
  <1>1. crashed' \in BOOLEAN
    BY DEF FlagsOK, TrySend
  <1>2. SendOK'
    BY ElemsAppend DEF SendOK, TrySend, SendHasRoom
  <1> QED BY <1>1, <1>2

LEMMA TryBroadcastType ==
    ASSUME TypeOK, NEW r \in Rooms, TryBroadcast(r)
    PROVE  nextEvent' \in Nat \ {0} /\ BroadcastOK'
  <1> USE TypeParts, ConfigAssumption
  <1>1. nextEvent \in Nat \ {0}
    BY DEF RedisOK
  <1>2. [room |-> r, id |-> nextEvent] \in Event
    BY <1>1 DEF Event
  <1>3. BroadcastOK'
    BY <1>2, ElemsAppend DEF BroadcastOK, TryBroadcast
  <1> QED BY <1>1, <1>3 DEF TryBroadcast

LEMMA HandlersType ==
    ASSUME TypeOK, NEW c \in Conns, Handlers(c)
    PROVE  TypeOK'
  <1> USE TypeParts, ConfigAssumption
  <1>1. ASSUME NEW q \in Requests, ReadMessage(c, q)
        PROVE  TypeOK'
    <2>1. q.op \in {"subscribe", "unsubscribe", "typing", "reply"} /\ q.rooms \subseteq Rooms
      BY DEF Request
    <2>2. PumpsOK'
      BY <1>1, <2>1 DEF ReadMessage, PumpsOK
    <2> QED BY <1>1, <2>2, TypeStep, Zenon DEF ReadMessage
  <1>2. ASSUME NEW r \in Rooms, handleSubscribe(c, r)
        PROVE  TypeOK'
    <2>1. PumpsOK'
      BY <1>2 DEF handleSubscribe, PumpsOK
    <2>2. MapsOK' \/ UNCHANGED maps
      BY <1>2 DEF handleSubscribe, SubscribeToRoom, MapsOK
    <2> QED BY <1>2, <2>1, <2>2, TypeStep, Zenon DEF handleSubscribe
  <1>3. ASSUME NEW r \in Rooms, handleUnsubscribe(c, r)
        PROVE  TypeOK'
    <2>1. PumpsOK'
      BY <1>3 DEF handleUnsubscribe, PumpsOK
    <2>2. MapsOK'
      BY <1>3 DEF handleUnsubscribe, UnsubscribeFromRoom, MapsOK
    <2> QED BY <1>3, <2>1, <2>2, TypeStep, Zenon DEF handleUnsubscribe
  <1>4. ASSUME NEW r \in Rooms, handleTyping(c, r)
        PROVE  TypeOK'
    <2>1. PumpsOK'
      BY <1>4 DEF handleTyping, PumpsOK
    <2>2. nextEvent' \in Nat \ {0} /\ BroadcastOK'
      <3>1. CASE TryBroadcast(r)
        BY <3>1, TryBroadcastType
      <3>2. CASE UNCHANGED <<nextEvent, broadcastQ>>
        BY <3>2 DEF RedisOK, BroadcastOK
      <3> QED BY <1>4, <3>1, <3>2 DEF handleTyping
    <2>3. RedisOK'
      BY <1>4, <2>2 DEF handleTyping, RedisOK
    <2> QED BY <1>4, <2>1, <2>2, <2>3, TypeStep, Zenon DEF handleTyping
  <1>5. CASE Reply(c)
    <2>1. PumpsOK'
      BY <1>5 DEF Reply, PumpsOK
    <2>2. SendOK' /\ crashed' \in BOOLEAN
      BY <1>5, TrySendType DEF Reply, Other
    <2>3. ProcessOK'
      BY <1>5, <2>2 DEF Reply, ProcessOK
    <2> QED BY <1>5, <2>1, <2>2, <2>3, TypeStep, Zenon DEF Reply
  <1> QED BY <1>1, <1>2, <1>3, <1>4, <1>5 DEF Handlers

LEMMA ReadPumpExitType ==
    ASSUME TypeOK, NEW c \in Conns, ReadPumpExit(c)
    PROVE  TypeOK'
  <1> USE TypeParts, ConfigAssumption
  <1>1. CASE ReadError(c)
    <2>1. PumpsOK' /\ FlagsOK'
      BY <1>1 DEF ReadError, PumpsOK, FlagsOK
    <2> QED BY <1>1, <2>1, TypeStep, Zenon DEF ReadError
  <1>2. CASE Unregister(c)
    <2>1. PumpsOK'
      BY <1>2 DEF Unregister, PumpsOK
    <2>2. CASE Len(unregisterQ) < UnregisterCap
      <3>1. unregisterQ' = Append(unregisterQ, c) /\ UNCHANGED <<maps, closed>>
        BY <1>2, <2>2 DEF Unregister
      <3>2. UnregisterOK'
        BY <2>2, <3>1, ElemsAppend DEF UnregisterOK
      <3>3. UNCHANGED flags
        BY <1>2, <3>1 DEF Unregister, flags
      <3> QED BY <1>2, <2>1, <3>1, <3>2, <3>3, TypeStep, Zenon DEF Unregister
    <2>3. CASE ~(Len(unregisterQ) < UnregisterCap)
      <3>1. cleanupClient(c) /\ UNCHANGED unregisterQ
        BY <1>2, <2>3 DEF Unregister
      <3>2. MapsOK' /\ closed' \in [Conns -> BOOLEAN]
        BY <3>1, cleanupClientType
      <3>3. FlagsOK'
        BY <1>2, <3>2 DEF Unregister, FlagsOK
      <3> QED BY <1>2, <2>1, <3>1, <3>2, <3>3, TypeStep, Zenon DEF Unregister
    <2> QED BY <2>2, <2>3
  <1>3. CASE ReaderExit(c)
    <2>1. AdmissionOK' /\ PumpsOK'
      BY <1>3 DEF ReaderExit, AdmissionOK, PumpsOK
    <2> QED BY <1>3, <2>1, TypeStep, Zenon DEF ReaderExit
  <1> QED BY <1>1, <1>2, <1>3 DEF ReadPumpExit

LEMMA WritePumpType ==
    ASSUME TypeOK, NEW c \in Conns, WritePump(c)
    PROVE  TypeOK'
  <1> USE TypeParts, ConfigAssumption
  <1>1. CASE WriteMessage(c)
    <2>1. sendQ[c] \in Seq(Nat) /\ sendQ[c] # <<>> /\ Len(sendQ[c]) <= SendCap
      BY <1>1 DEF WriteMessage, SendOK
    <2>2. /\ Head(sendQ[c]) \in Nat /\ Tail(sendQ[c]) \in Seq(Nat)
          /\ Len(Tail(sendQ[c])) <= SendCap
      BY <2>1, ElemsTail
    <2>3. SendOK'
      BY <1>1, <2>2 DEF WriteMessage, SendOK
    <2>4. PumpsOK'
      BY <1>1, <2>2 DEF WriteMessage, PumpsOK
    <2> QED BY <1>1, <2>3, <2>4, TypeStep, Zenon DEF WriteMessage
  <1>2. CASE WriteError(c)
    <2>1. ASSUME sendQ[c] # <<>>
          PROVE  Tail(sendQ[c]) \in Seq(Nat) /\ Len(Tail(sendQ[c])) <= SendCap
      BY <2>1, ElemsTail DEF SendOK
    <2>2. SendOK'
      <3>1. CASE UNCHANGED sendQ
        BY <3>1 DEF SendOK
      <3>2. CASE sendQ[c] # <<>> /\ sendQ' = [sendQ EXCEPT ![c] = Tail(@)]
        BY <2>1, <3>2 DEF SendOK
      <3> QED BY <1>2, <3>1, <3>2 DEF WriteError
    <2>3. PumpsOK'
      BY <1>2 DEF WriteError, PumpsOK
    <2> QED BY <1>2, <2>2, <2>3, TypeStep, Zenon DEF WriteError
  <1>3. CASE drainAndClose(c)
    <2>1. PumpsOK' /\ FlagsOK'
      BY <1>3 DEF drainAndClose, PumpsOK, FlagsOK
    <2> QED BY <1>3, <2>1, TypeStep, Zenon DEF drainAndClose
  <1>4. CASE WriterExit(c)
    <2>1. PumpsOK'
      BY <1>4 DEF WriterExit, PumpsOK
    <2> QED BY <1>4, <2>1, TypeStep, Zenon DEF WriterExit
  <1> QED BY <1>1, <1>2, <1>3, <1>4 DEF WritePump

LEMMA broadcastMessageType ==
    ASSUME TypeOK, broadcastMessage
    PROVE  TypeOK'
  <1> USE TypeParts, ConfigAssumption
  <1>1. CASE HubBroadcast
    <2>1. /\ Head(broadcastQ) \in Event /\ Tail(broadcastQ) \in Seq(Event)
          /\ Len(Tail(broadcastQ)) <= BroadcastCap
      BY <1>1, ElemsTail DEF HubBroadcast, BroadcastOK
    <2>2. Head(broadcastQ).room \in Rooms
      BY <2>1 DEF Event
    <2>3. BroadcastOK'
      BY <1>1, <2>1 DEF HubBroadcast, BroadcastOK
    <2>4. LoopOK'
      BY <1>1, <2>1, <2>2 DEF HubBroadcast, LoopOK, MapsOK
    <2> QED BY <1>1, <2>3, <2>4, TypeStep, Zenon DEF HubBroadcast
  <1>2. CASE HubBroadcastDone
    <2>1. LoopOK'
      BY <1>2 DEF HubBroadcastDone, LoopOK
    <2> QED BY <1>2, <2>1, TypeStep, Zenon DEF HubBroadcastDone
  <1>3. ASSUME NEW c \in Conns, HubLookup(c)
        PROVE  TypeOK'
    <2>1. LoopOK'
      BY <1>3 DEF HubLookup, LoopOK
    <2> QED BY <1>3, <2>1, TypeStep, Zenon DEF HubLookup
  <1>4. ASSUME NEW c \in Conns, HubSend(c)
        PROVE  TypeOK'
    <2>1. hubMsg.id \in Nat
      BY DEF LoopOK, Event, NoEvent
    <2>2. SendOK' /\ crashed' \in BOOLEAN
      BY <1>4, <2>1, TrySendType DEF HubSend
    <2>3. LoopOK'
      BY <1>4 DEF HubSend, LoopOK
    <2>4. ProcessOK'
      BY <1>4, <2>2 DEF HubSend, ProcessOK
    <2> QED BY <1>4, <2>2, <2>3, <2>4, TypeStep, Zenon DEF HubSend
  <1>5. ASSUME NEW c \in Conns, HubEvict(c)
        PROVE  TypeOK'
    <2>1. LoopOK'
      BY <1>5 DEF HubEvict, LoopOK
    <2>2. CASE c \in clients
      <3>1. /\ RemoveFromMaps(c)
            /\ closed' = [closed EXCEPT ![c] = TRUE]
            /\ cancelled' = [cancelled EXCEPT ![c] = EvictCancels(c)]
            /\ activeGauge' = activeGauge - 1
            /\ subsGauge' = subsGauge - SubsRemoved(c)
            /\ UNCHANGED <<overtook, sendClosed>>
        BY <1>5, <2>2 DEF HubEvict
      <3>2. MapsOK'
        BY <3>1, RemoveFromMapsType, SubsRemovedType DEF MapsOK
      <3>3. FlagsOK'
        BY <3>1 DEF FlagsOK, EvictCancels
      <3> QED BY <1>5, <2>1, <3>2, <3>3, TypeStep, Zenon DEF HubEvict
    <2>3. CASE c \notin clients
      <3>1. UNCHANGED maps /\ UNCHANGED flags
        BY <1>5, <2>3 DEF HubEvict, flags
      <3> QED BY <1>5, <2>1, <3>1, TypeStep, Zenon DEF HubEvict
    <2> QED BY <2>2, <2>3
  <1> QED BY <1>1, <1>2, <1>3, <1>4, <1>5 DEF broadcastMessage

LEMMA RunType ==
    ASSUME TypeOK, Run
    PROVE  TypeOK'
  <1> USE TypeParts, ConfigAssumption
  <1>1. CASE HubRegister
    <2>1. /\ Head(registerQ) \in Conns /\ Tail(registerQ) \in Seq(Conns)
          /\ Len(Tail(registerQ)) <= RegisterCap
      BY <1>1, ElemsTail DEF HubRegister, RegisterOK
    <2>2. RegisterOK'
      BY <1>1, <2>1 DEF HubRegister, RegisterOK
    <2>3. MapsOK'
      BY <1>1, <2>1 DEF HubRegister, MapsOK
    <2> QED BY <1>1, <2>2, <2>3, TypeStep, Zenon DEF HubRegister
  <1>2. CASE HubUnregister
    <2>1. /\ Head(unregisterQ) \in Conns /\ Tail(unregisterQ) \in Seq(Conns)
          /\ Len(Tail(unregisterQ)) <= UnregisterCap
      BY <1>2, ElemsTail DEF HubUnregister, UnregisterOK
    <2>2. MapsOK' /\ closed' \in [Conns -> BOOLEAN]
      BY <1>2, <2>1, cleanupClientType DEF HubUnregister
    <2>3. FlagsOK'
      BY <1>2, <2>2 DEF HubUnregister, FlagsOK
    <2>4. UnregisterOK'
      BY <1>2, <2>1 DEF HubUnregister, UnregisterOK
    <2> QED BY <1>2, <2>2, <2>3, <2>4, TypeStep, Zenon DEF HubUnregister
  <1>3. CASE broadcastMessage
    BY <1>3, broadcastMessageType
  <1>4. CASE HubQuit
    <2>1. LoopOK'
      BY <1>4 DEF HubQuit, LoopOK
    <2> QED BY <1>4, <2>1, TypeStep, Zenon DEF HubQuit
  <1> QED BY <1>1, <1>2, <1>3, <1>4 DEF Run

LEMMA SubscribersType ==
    ASSUME TypeOK, Subscribers
    PROVE  TypeOK'
  <1> USE TypeParts, ConfigAssumption
  <1>1. ASSUME NEW r \in Rooms, RoomEvent(r)
        PROVE  TypeOK'
    <2>1. nextEvent' \in Nat \ {0} /\ BroadcastOK'
      BY <1>1, TryBroadcastType DEF RoomEvent
    <2>2. RedisOK'
      BY <1>1, <2>1 DEF RoomEvent, RedisOK
    <2> QED BY <1>1, <2>1, <2>2, TypeStep, Zenon DEF RoomEvent
  <1>2. CASE RoomSubStop
    <2>1. RedisOK'
      BY <1>2 DEF RoomSubStop, RedisOK
    <2> QED BY <1>2, <2>1, TypeStep, Zenon DEF RoomSubStop
  <1>3. CASE PresenceEvent
    <2>1. RedisOK'
      BY <1>3 DEF PresenceEvent, RedisOK, MapsOK
    <2> QED BY <1>3, <2>1, TypeStep, Zenon DEF PresenceEvent
  <1>4. CASE PresenceDone
    <2>1. RedisOK'
      BY <1>4 DEF PresenceDone, RedisOK
    <2> QED BY <1>4, <2>1, TypeStep, Zenon DEF PresenceDone
  <1>5. CASE PresenceStop
    <2>1. RedisOK'
      BY <1>5 DEF PresenceStop, RedisOK
    <2> QED BY <1>5, <2>1, TypeStep, Zenon DEF PresenceStop
  <1>6. ASSUME NEW c \in Conns, PresenceSend(c)
        PROVE  TypeOK'
    <2>1. SendOK' /\ crashed' \in BOOLEAN
      BY <1>6, TrySendType DEF PresenceSend, Other
    <2>2. RedisOK' /\ ProcessOK'
      BY <1>6, <2>1 DEF PresenceSend, RedisOK, ProcessOK
    <2> QED BY <1>6, <2>1, <2>2, TypeStep, Zenon DEF PresenceSend
  <1> QED BY <1>1, <1>2, <1>3, <1>4, <1>5, <1>6 DEF Subscribers

LEMMA ShutdownType ==
    ASSUME TypeOK, Shutdown
    PROVE  TypeOK'
  <1> USE TypeParts, ConfigAssumption
  <1>1. CASE ShutdownCancel
    <2>1. ProcessOK'
      BY <1>1 DEF ShutdownCancel, ProcessOK
    <2> QED BY <1>1, <2>1, TypeStep, Zenon DEF ShutdownCancel
  <1>2. CASE CloseAll
    <2>1. ProcessOK'
      BY <1>2 DEF CloseAll, ProcessOK
    <2>2. FlagsOK'
      BY <1>2 DEF CloseAll, FlagsOK
    <2> QED BY <1>2, <2>1, <2>2, TypeStep, Zenon DEF CloseAll
  <1>3. CASE ShutdownHTTP
    <2>1. ProcessOK'
      BY <1>3 DEF ShutdownHTTP, ProcessOK
    <2> QED BY <1>3, <2>1, TypeStep, Zenon DEF ShutdownHTTP
  <1> QED BY <1>1, <1>2, <1>3 DEF Shutdown

(* Every variable keeps its type and no channel ever holds more than its   *)
(* capacity, whatever the interleaving of pumps, hub and subscribers.      *)
THEOREM TypeCorrect == Spec => []TypeOK
  <1>1. Init => TypeOK
    <2> SUFFICES ASSUME Init PROVE TypeOK
      OBVIOUS
    <2>1. /\ sendQ \in [Conns -> Seq(Nat)] /\ \A c \in Conns : Len(sendQ[c]) <= SendCap
          /\ registerQ \in Seq(Conns) /\ Len(registerQ) <= RegisterCap
          /\ unregisterQ \in Seq(Conns) /\ Len(unregisterQ) <= UnregisterCap
          /\ broadcastQ \in Seq(Event) /\ Len(broadcastQ) <= BroadcastCap
      BY ConfigAssumption DEF Init
    <2>2. /\ connOpen \in [Conns -> BOOLEAN] /\ cancelled \in [Conns -> BOOLEAN]
          /\ closed \in [Conns -> BOOLEAN] /\ sendClosed \in [Conns -> BOOLEAN]
          /\ hubClosed \in BOOLEAN /\ crashed \in BOOLEAN
      BY DEF Init
    <2>3. /\ ipCount \in [IPs -> Int] /\ received \in [Conns -> Nat]
          /\ activeGauge \in Int /\ subsGauge \in Int
          /\ nextEvent \in Nat \ {0} /\ nextPresence \in Nat \ {0}
      BY DEF Init
    <2>4. /\ reqRooms \in [Conns -> SUBSET Rooms] /\ memberOf \in [Conns -> SUBSET Rooms]
          /\ users \in [Users -> SUBSET Conns] /\ rooms \in [Rooms -> SUBSET Conns]
          /\ clients \subseteq Conns /\ overtook \subseteq Conns
          /\ hubTodo \subseteq Conns /\ hubCur \subseteq Conns /\ presTodo \subseteq Conns
          /\ hubMsg \in Event \cup {NoEvent}
      BY DEF Init
    <2> QED BY <2>1, <2>2, <2>3, <2>4 DEF Init, TypeOK
  <1>2. TypeOK /\ [Next]_vars => TypeOK'
    <2> SUFFICES ASSUME TypeOK, [Next]_vars PROVE TypeOK'
      OBVIOUS
    <2>1. ASSUME NEW c \in Conns,
                 Admission(c) \/ Handlers(c) \/ ReadPumpExit(c) \/ WritePump(c)
          PROVE  TypeOK'
      BY <2>1, AdmissionType, HandlersType, ReadPumpExitType, WritePumpType
    <2>2. CASE Run \/ Subscribers \/ Shutdown
      BY <2>2, RunType, SubscribersType, ShutdownType
    <2>3. CASE UNCHANGED vars
      BY <2>3, TypeStep, Zenon DEF vars
    <2> QED BY <2>1, <2>2, <2>3 DEF Next, Step, Finished
  <1> QED BY <1>1, <1>2, PTL DEF Spec

-----------------------------------------------------------------------------
(* The maps of the hub.                                                    *)

(* Pumps run only for connections whose handler has started them.          *)
ReadersLive == \A c \in Conns : phase[c] # "live" => reader[c] = "off"

(* Steps that leave the maps, the register channel and closed alone.       *)
LEMMA MapsFrame ==
    ASSUME TypeOK, MapsInv,
           UNCHANGED <<clients, users, rooms, memberOf, registerQ, closed, hubClosed>>,
           \A c \in Conns : \/ phase'[c] = phase[c]
                            \/ phase[c] \notin {"registered", "live"} /\ phase'[c] \notin {"registered", "live"}
                            \/ phase[c] = "registered" /\ phase'[c] = "live",
           ReadersLive'
    PROVE  MapsInv'
  <1>1. IndexesAgree'
    BY DEF MapsInv, IndexesAgree
  <1>2. ClosedMeansGone'
    BY DEF MapsInv, ClosedMeansGone, Elems
  <1>3. Elems(registerQ)' = Elems(registerQ)
    BY DEF Elems
  <1>4. RegistrationOnce'
    BY <1>3 DEF MapsInv, RegistrationOnce, ReadersLive
  <1> QED BY <1>1, <1>2, <1>4 DEF MapsInv

(* The removal done by cleanupClient and by the eviction.                  *)
LEMMA MapsRemove ==
    ASSUME TypeOK, MapsInv, NEW c \in clients, RemoveFromMaps(c),
           closed' = [closed EXCEPT ![c] = TRUE],
           UNCHANGED <<phase, registerQ, hubClosed>>, ReadersLive'
    PROVE  MapsInv'
  <1>1. /\ c \in Conns /\ clients' = clients \ {c} /\ memberOf' = memberOf
        /\ users' = [users EXCEPT ![UserOf[c]] = @ \ {c}]
    BY DEF TypeOK, RemoveFromMaps
  <1>2. \A r \in Rooms, d \in Conns : d \in rooms'[r] <=> d \in rooms[r] /\ d # c
    BY <1>1 DEF MapsInv, IndexesAgree, RemoveFromMaps, TypeOK
  <1>3. IndexesAgree'
    <2>1. ASSUME NEW u \in Users
          PROVE  users'[u] = {d \in clients' : UserOf[d] = u}
      BY <1>1, ConfigAssumption DEF MapsInv, IndexesAgree, TypeOK
    <2>2. ASSUME NEW r \in Rooms, NEW d \in Conns
          PROVE  /\ d \in rooms'[r] => r \in memberOf'[d]
                 /\ d \in clients' /\ r \in memberOf'[d] => d \in rooms'[r]
      BY <1>1, <1>2 DEF MapsInv, IndexesAgree
    <2> QED BY <2>1, <2>2 DEF IndexesAgree
  <1>4. Elems(registerQ)' = Elems(registerQ)
    BY DEF Elems
  <1>5. \A d \in Conns : closed'[d] <=> closed[d] \/ d = c
    BY <1>1 DEF TypeOK
  <1>6. c \notin Elems(registerQ)
    BY <1>1 DEF MapsInv, RegistrationOnce
  <1>7. ClosedMeansGone'
    BY <1>1, <1>2, <1>4, <1>5, <1>6 DEF MapsInv, ClosedMeansGone
  <1>8. RegistrationOnce'
    BY <1>1, <1>2, <1>4, <1>5, <1>6 DEF MapsInv, RegistrationOnce, ReadersLive, TypeOK
  <1> QED BY <1>3, <1>7, <1>8 DEF MapsInv

LEMMA MapsCleanup ==
    ASSUME TypeOK, MapsInv, NEW c \in Conns, cleanupClient(c),
           UNCHANGED <<phase, registerQ, hubClosed>>, ReadersLive'
    PROVE  MapsInv'
  <1>1. CASE c \in clients
    BY <1>1, MapsRemove DEF cleanupClient
  <1>2. CASE c \notin clients
    BY <1>2, MapsFrame DEF cleanupClient
  <1> QED BY <1>1, <1>2

LEMMA MapsAdmission ==
    ASSUME TypeOK, MapsInv, NEW c \in Conns, Admission(c)
    PROVE  MapsInv'
  <1> USE DEF admission, pumps, flags, maps, hubLoop, redis
  <1>1. ASSUME UNCHANGED <<clients, users, rooms, memberOf, registerQ, closed, hubClosed, reader>>,
               phase[c] \in {"idle", "over", "counted"},
               NEW x \in {"over", "counted", "refused", "upgraded"},
               phase' = [phase EXCEPT ![c] = x]
        PROVE  MapsInv'
    <2>1. phase'[c] = x /\ \A d \in Conns : d # c => phase'[d] = phase[d]
      BY <1>1 DEF TypeOK
    <2>2. ReadersLive'
      BY <1>1, <2>1 DEF MapsInv, RegistrationOnce, ReadersLive
    <2>3. phase'[c] \notin {"registered", "live"} /\ phase[c] \notin {"registered", "live"}
      BY <1>1, <2>1
    <2> QED BY <1>1, <2>1, <2>2, <2>3, MapsFrame
  <1>3. CASE Accept(c)
    BY <1>1, <1>3 DEF Accept
  <1>4. CASE Refuse(c)
    BY <1>1, <1>4 DEF Refuse
  <1>5. CASE Upgrade(c)
    BY <1>1, <1>5 DEF Upgrade
  <1>6. CASE StartPumps(c)
    <2>1. /\ UNCHANGED <<clients, users, rooms, memberOf, registerQ, closed, hubClosed>>
          /\ phase[c] = "registered" /\ phase'[c] = "live"
          /\ \A d \in Conns : d # c => phase'[d] = phase[d] /\ reader'[d] = reader[d]
      BY <1>6 DEF StartPumps, TypeOK
    <2>2. ReadersLive'
      BY <2>1 DEF MapsInv, RegistrationOnce, ReadersLive
    <2> QED BY <2>1, <2>2, MapsFrame
  <1>2. CASE Register(c)
    <2>1. /\ UNCHANGED <<clients, users, rooms, memberOf, closed, hubClosed, reader>>
          /\ phase[c] = "upgraded" /\ phase' = [phase EXCEPT ![c] = "registered"]
          /\ registerQ' = Append(registerQ, c)
      BY <1>2 DEF Register
    <2>2. /\ Elems(registerQ)' = Elems(registerQ) \cup {c}
          /\ \A i \in 1..Len(registerQ)+1 :
                registerQ'[i] = IF i = Len(registerQ)+1 THEN c ELSE registerQ[i]
          /\ Len(registerQ') = Len(registerQ) + 1 /\ Len(registerQ) \in Nat
      <3>1. Elems(registerQ') = Elems(registerQ) \cup {c}
        BY <2>1, ElemsAppend DEF TypeOK
      <3>2. Elems(registerQ)' = Elems(registerQ')
        BY DEF Elems
      <3> QED BY <2>1, <3>1, <3>2 DEF TypeOK
    <2>3. c \notin clients /\ ~closed[c] /\ c \notin Elems(registerQ) /\ memberOf[c] = {}
      BY <2>1 DEF MapsInv, RegistrationOnce
    <2>4. IndexesAgree'
      BY <2>1 DEF MapsInv, IndexesAgree
    <2>5. ClosedMeansGone'
      BY <2>1, <2>2 DEF MapsInv, ClosedMeansGone
    <2>6. \A i, j \in 1..Len(registerQ') : i # j => registerQ'[i] # registerQ'[j]
      <3>1. \A i \in 1..Len(registerQ) : registerQ[i] # c
        BY <2>3 DEF Elems
      <3> QED BY <2>2, <3>1 DEF MapsInv, RegistrationOnce
    <2>7. RegistrationOnce'
      BY <2>1, <2>2, <2>3, <2>6 DEF MapsInv, RegistrationOnce, TypeOK
    <2> QED BY <2>4, <2>5, <2>7 DEF MapsInv
  <1> QED BY <1>2, <1>3, <1>4, <1>5, <1>6 DEF Admission

(* A step of one read pump, which is therefore live.                       *)
LEMMA ReaderStep ==
    ASSUME TypeOK, MapsInv, NEW c \in Conns, reader[c] # "off", phase' = phase,
           \A d \in Conns : d # c => reader'[d] = reader[d]
    PROVE  phase[c] = "live" /\ ReadersLive'
  BY DEF MapsInv, RegistrationOnce, ReadersLive

LEMMA MapsHandlers ==
    ASSUME TypeOK, MapsInv, NEW c \in Conns, Handlers(c)
    PROVE  MapsInv'
  <1> USE DEF admission, pumps, flags, maps, hubLoop, redis
  <1>1. ASSUME NEW q \in Requests, ReadMessage(c, q)
        PROVE  MapsInv'
    BY <1>1, ReaderStep, MapsFrame DEF ReadMessage, TypeOK
  <1>2. ASSUME NEW r \in Rooms, handleSubscribe(c, r)
        PROVE  MapsInv'
    <2>1. /\ UNCHANGED <<phase, registerQ, closed, hubClosed, clients, users>>
          /\ phase[c] = "live" /\ ReadersLive'
      BY <1>2, ReaderStep DEF handleSubscribe, SubscribeToRoom, TypeOK
    <2>2. CASE UNCHANGED maps
      BY <2>1, <2>2, MapsFrame
    <2>3. CASE SubscribeToRoom(c, r) /\ ~isClosed(c)
      <3>1. /\ rooms' = [rooms EXCEPT ![r] = @ \cup {c}]
            /\ memberOf' = [memberOf EXCEPT ![c] = @ \cup {r}]
        BY <2>3 DEF SubscribeToRoom
      <3>2. /\ \A x \in Rooms, d \in Conns : d \in rooms'[x] <=> d \in rooms[x] \/ (d = c /\ x = r)
            /\ \A x \in Rooms, d \in Conns : x \in memberOf'[d] <=> x \in memberOf[d] \/ (d = c /\ x = r)
            /\ \A d \in Conns : memberOf'[d] \subseteq Rooms /\ (d # c => memberOf'[d] = memberOf[d])
        BY <3>1 DEF TypeOK
      <3>3. ~closed[c] /\ c \in clients \cup Elems(registerQ)
        BY <2>1, <2>3 DEF isClosed, MapsInv, RegistrationOnce
      <3>4. Elems(registerQ)' = Elems(registerQ)
        BY <2>1 DEF Elems
      <3>5. IndexesAgree'
        BY <2>1, <3>2 DEF MapsInv, IndexesAgree
      <3>6. ClosedMeansGone'
        BY <2>1, <3>2, <3>3, <3>4 DEF MapsInv, ClosedMeansGone
      <3>7. RegistrationOnce'
        <4>1. \A d \in Conns : phase'[d] # "live" => reader'[d] = "off" /\ memberOf'[d] = {}
          BY <2>1, <3>2 DEF MapsInv, RegistrationOnce, ReadersLive
        <4>2. \A d \in Conns : \A x \in memberOf'[d] : d \in Elems(registerQ) => d \in rooms'[x]
          BY <3>2 DEF MapsInv, RegistrationOnce
        <4> QED BY <2>1, <3>4, <4>1, <4>2 DEF MapsInv, RegistrationOnce
      <3> QED BY <3>5, <3>6, <3>7 DEF MapsInv
    <2> QED BY <1>2, <2>2, <2>3 DEF handleSubscribe, SubscribeToRoom
  <1>3. ASSUME NEW r \in Rooms, handleUnsubscribe(c, r)
        PROVE  MapsInv'
    <2>1. /\ UNCHANGED <<phase, registerQ, closed, hubClosed, clients, users>>
          /\ phase[c] = "live" /\ ReadersLive'
      BY <1>3, ReaderStep DEF handleUnsubscribe, UnsubscribeFromRoom, TypeOK
    <2>2. /\ rooms' = [rooms EXCEPT ![r] = @ \ {c}]
          /\ memberOf' = [memberOf EXCEPT ![c] = @ \ {r}]
      BY <1>3 DEF handleUnsubscribe, UnsubscribeFromRoom
    <2>3. /\ \A x \in Rooms, d \in Conns : d \in rooms'[x] <=> d \in rooms[x] /\ ~(d = c /\ x = r)
          /\ \A x \in Rooms, d \in Conns : x \in memberOf'[d] <=> x \in memberOf[d] /\ ~(d = c /\ x = r)
          /\ \A d \in Conns : memberOf'[d] \subseteq memberOf[d] /\ memberOf[d] \subseteq Rooms
      BY <2>2 DEF TypeOK
    <2>4. Elems(registerQ)' = Elems(registerQ)
      BY <2>1 DEF Elems
    <2>5. IndexesAgree'
      BY <2>1, <2>3 DEF MapsInv, IndexesAgree
    <2>6. ClosedMeansGone'
      BY <2>1, <2>3, <2>4 DEF MapsInv, ClosedMeansGone
    <2>7. RegistrationOnce'
      BY <2>1, <2>3, <2>4 DEF MapsInv, RegistrationOnce, ReadersLive
    <2> QED BY <2>5, <2>6, <2>7 DEF MapsInv
  <1>4. ASSUME NEW r \in Rooms, handleTyping(c, r)
        PROVE  MapsInv'
    BY <1>4, ReaderStep, MapsFrame DEF handleTyping, TypeOK
  <1>5. CASE Reply(c)
    BY <1>5, ReaderStep, MapsFrame DEF Reply, TypeOK
  <1> QED BY <1>1, <1>2, <1>3, <1>4, <1>5 DEF Handlers

LEMMA MapsReadPumpExit ==
    ASSUME TypeOK, MapsInv, NEW c \in Conns, ReadPumpExit(c)
    PROVE  MapsInv'
  <1> USE DEF admission, pumps, flags, maps, hubLoop, redis
  <1>1. CASE ReadError(c)
    BY <1>1, ReaderStep, MapsFrame DEF ReadError, TypeOK
  <1>2. CASE Unregister(c)
    <2>1. UNCHANGED <<phase, registerQ, hubClosed>> /\ ReadersLive'
      BY <1>2, ReaderStep DEF Unregister, TypeOK
    <2>2. CASE Len(unregisterQ) < UnregisterCap
      BY <1>2, <2>1, <2>2, MapsFrame DEF Unregister
    <2>3. CASE ~(Len(unregisterQ) < UnregisterCap)
      BY <1>2, <2>1, <2>3, MapsCleanup DEF Unregister
    <2> QED BY <2>2, <2>3
  <1>3. CASE ReaderExit(c)
    BY <1>3, ReaderStep, MapsFrame DEF ReaderExit, TypeOK
  <1> QED BY <1>1, <1>2, <1>3 DEF ReadPumpExit

(* Steps that touch none of the variables the invariant mentions.          *)
LEMMA MapsStutter ==
    ASSUME TypeOK, MapsInv,
           UNCHANGED <<phase, reader, clients, users, rooms, memberOf, registerQ, closed, hubClosed>>
    PROVE  MapsInv'
  <1>1. ReadersLive'
    BY DEF MapsInv, RegistrationOnce, ReadersLive
  <1> QED BY <1>1, MapsFrame

LEMMA MapsRun ==
    ASSUME TypeOK, MapsInv, Run
    PROVE  MapsInv'
  <1> USE DEF admission, pumps, flags, maps, hubLoop, redis
  <1>0. ASSUME UNCHANGED <<phase, reader>> PROVE ReadersLive'
    BY <1>0 DEF MapsInv, RegistrationOnce, ReadersLive
  <1>1. CASE HubRegister
    <2> DEFINE c == Head(registerQ)
    <2>1. /\ registerQ # <<>> /\ registerQ' = Tail(registerQ)
          /\ clients' = clients \cup {c}
          /\ users' = [users EXCEPT ![UserOf[c]] = @ \cup {c}]
          /\ UNCHANGED <<phase, reader, rooms, memberOf, closed, hubClosed>>
      BY <1>1 DEF HubRegister
    <2>2. /\ c \in Conns /\ c \in Elems(registerQ)
          /\ Elems(registerQ') \subseteq Elems(registerQ)
          /\ Elems(registerQ) \subseteq Elems(registerQ') \cup {c}
          /\ Elems(registerQ)' = Elems(registerQ')
      <3>1. registerQ \in Seq(Conns)
        BY DEF TypeOK
      <3>2. Elems(registerQ)' = Elems(registerQ')
        BY DEF Elems
      <3> QED BY <2>1, <3>1, <3>2, ElemsTail
    <2>3. /\ c = registerQ[1] /\ Len(registerQ) \in Nat \ {0} /\ Len(registerQ') = Len(registerQ) - 1
          /\ \A i \in 1..Len(registerQ)-1 : registerQ'[i] = registerQ[i + 1]
      BY <2>1 DEF TypeOK
    <2>4. \A i, j \in 1..Len(registerQ') : i # j => registerQ'[i] # registerQ'[j]
      BY <2>3 DEF MapsInv, RegistrationOnce
    <2>5. c \notin Elems(registerQ')
      <3>1. \A i \in 1..Len(registerQ') : registerQ'[i] # c
        BY <2>3 DEF MapsInv, RegistrationOnce
      <3> QED BY <3>1 DEF Elems
    <2>6. ~closed[c] /\ c \notin clients
      BY <2>2 DEF MapsInv, RegistrationOnce
    <2> HIDE DEF c
    <2>7. IndexesAgree'
      <3>1. ASSUME NEW u \in Users
            PROVE  users'[u] = {d \in clients' : UserOf[d] = u}
        BY <2>1, <2>2, ConfigAssumption DEF MapsInv, IndexesAgree, TypeOK
      <3>2. ASSUME NEW r \in Rooms, NEW d \in Conns
            PROVE  /\ d \in rooms'[r] => r \in memberOf'[d]
                   /\ d \in clients' /\ r \in memberOf'[d] => d \in rooms'[r]
        BY <2>1, <2>2 DEF MapsInv, IndexesAgree, RegistrationOnce
      <3> QED BY <3>1, <3>2 DEF IndexesAgree
    <2>8. ClosedMeansGone'
      BY <2>1, <2>2, <2>6 DEF MapsInv, ClosedMeansGone
    <2>9. RegistrationOnce'
      BY <2>1, <2>2, <2>4, <2>5 DEF MapsInv, RegistrationOnce
    <2> QED BY <2>7, <2>8, <2>9 DEF MapsInv
  <1>2. CASE HubUnregister
    <2>1. /\ Head(unregisterQ) \in Conns /\ cleanupClient(Head(unregisterQ))
          /\ UNCHANGED <<phase, reader, registerQ, hubClosed>>
      BY <1>2, ElemsTail DEF HubUnregister, TypeOK
    <2> QED BY <1>0, <2>1, MapsCleanup
  <1>3. CASE HubBroadcast
    BY <1>3, MapsStutter DEF HubBroadcast
  <1>4. CASE HubBroadcastDone
    BY <1>4, MapsStutter DEF HubBroadcastDone
  <1>5. ASSUME NEW c \in Conns, HubLookup(c) PROVE MapsInv'
    BY <1>5, MapsStutter DEF HubLookup
  <1>6. ASSUME NEW c \in Conns, HubSend(c) PROVE MapsInv'
    BY <1>6, MapsStutter DEF HubSend
  <1>7. ASSUME NEW c \in Conns, HubEvict(c) PROVE MapsInv'
    <2>1. UNCHANGED <<phase, reader, registerQ, hubClosed>>
      BY <1>7 DEF HubEvict
    <2>2. CASE c \in clients
      BY <1>0, <1>7, <2>1, <2>2, MapsRemove DEF HubEvict
    <2>3. CASE c \notin clients
      BY <1>7, <2>1, <2>3, MapsStutter DEF HubEvict
    <2> QED BY <2>2, <2>3
  <1>8. CASE HubQuit
    BY <1>8, MapsStutter DEF HubQuit
  <1> QED BY <1>1, <1>2, <1>3, <1>4, <1>5, <1>6, <1>7, <1>8 DEF Run, broadcastMessage

LEMMA MapsShutdown ==
    ASSUME TypeOK, MapsInv, Shutdown
    PROVE  MapsInv'
  <1> USE DEF admission, pumps, flags, maps, hubLoop, redis
  <1>1. CASE ShutdownCancel
    BY <1>1, MapsStutter DEF ShutdownCancel
  <1>2. CASE ShutdownHTTP
    BY <1>2, MapsStutter DEF ShutdownHTTP
  <1>3. CASE CloseAll
    <2>1. /\ UNCHANGED <<phase, reader, clients, users, rooms, memberOf, registerQ>>
          /\ hubClosed' = TRUE
      BY <1>3 DEF CloseAll
    <2>2. \A c \in Conns : closed'[c] <=> closed[c] \/ c \in clients
      BY <1>3, Zenon DEF CloseAll
    <2>3. Elems(registerQ)' = Elems(registerQ)
      BY <2>1 DEF Elems
    <2>4. IndexesAgree'
      BY <2>1 DEF MapsInv, IndexesAgree
    <2>5. ClosedMeansGone'
      BY <2>1, <2>3 DEF MapsInv, ClosedMeansGone
    <2>6. RegistrationOnce'
      BY <2>1, <2>2, <2>3 DEF MapsInv, RegistrationOnce
    <2> QED BY <2>4, <2>5, <2>6 DEF MapsInv
  <1> QED BY <1>1, <1>2, <1>3 DEF Shutdown

LEMMA MapsOthers ==
    ASSUME TypeOK, MapsInv, Subscribers \/ \E c \in Conns : WritePump(c)
    PROVE  MapsInv'
  <1>1. UNCHANGED <<phase, reader, clients, users, rooms, memberOf, registerQ, closed, hubClosed>>
    <2> USE DEF admission, pumps, flags, maps, hubLoop
    <2>1. ASSUME NEW c \in Conns, WritePump(c)
          PROVE  UNCHANGED <<phase, reader, clients, users, rooms, memberOf, registerQ, closed, hubClosed>>
      BY <2>1 DEF WritePump, WriteMessage, WriteError, drainAndClose, WriterExit
    <2>2. CASE Subscribers
      BY <2>2 DEF Subscribers, RoomEvent, RoomSubStop, PresenceEvent, PresenceSend,
                  PresenceDone, PresenceStop
    <2> QED BY <2>1, <2>2
  <1> QED BY <1>1, MapsStutter

(* The inductive invariant behind the two theorems that follow it.         *)
THEOREM MapsInvariant == Spec => []MapsInv
  <1>1. Init => MapsInv
    BY ConfigAssumption DEF Init, MapsInv, IndexesAgree, ClosedMeansGone, RegistrationOnce, Elems
  <1>2. TypeOK /\ MapsInv /\ [Next]_vars => MapsInv'
    <2> SUFFICES ASSUME TypeOK, MapsInv, [Next]_vars PROVE MapsInv'
      OBVIOUS
    <2>1. ASSUME NEW c \in Conns, Admission(c) \/ Handlers(c) \/ ReadPumpExit(c)
          PROVE  MapsInv'
      BY <2>1, MapsAdmission, MapsHandlers, MapsReadPumpExit
    <2>2. CASE Run \/ Shutdown
      BY <2>2, MapsRun, MapsShutdown
    <2>3. CASE Subscribers \/ \E c \in Conns : WritePump(c)
      BY <2>3, MapsOthers
    <2>4. CASE UNCHANGED vars
      BY <2>4, MapsStutter DEF vars, admission, pumps, flags, maps
    <2> QED BY <2>1, <2>2, <2>3, <2>4 DEF Next, Step, Finished
  <1> QED BY <1>1, <1>2, TypeCorrect, PTL DEF Spec

(* The indexes of the hub agree in every reachable state, for any number   *)
(* of connections, rooms and users.                                        *)
THEOREM HubIndexesAgree == Spec => []IndexesAgree
  <1>1. MapsInv => IndexesAgree
    BY DEF MapsInv
  <1> QED BY <1>1, MapsInvariant, PTL

(* No subscription outlives the connection that made it, whatever race     *)
(* between a subscribe request and an eviction or a cleanup.               *)
THEOREM HubClosedMeansGone == Spec => []ClosedMeansGone
  <1>1. MapsInv => ClosedMeansGone
    BY DEF MapsInv
  <1> QED BY <1>1, MapsInvariant, PTL

-----------------------------------------------------------------------------
(* The per-IP limit.                                                       *)

Holders(i) == {c \in Conns : IpOf[c] = i /\ HoldsSlot(c)}
AdmittedOf(i) == {c \in Conns : IpOf[c] = i /\ Admitted(c)}

LEMMA HoldersFinite ==
    ASSUME NEW i \in IPs
    PROVE  /\ IsFiniteSet(Holders(i)) /\ IsFiniteSet(Holders(i)')
           /\ Cardinality(AdmittedOf(i)) <= Cardinality(Holders(i))
           /\ Cardinality(AdmittedOf(i)') <= Cardinality(Holders(i)')
           /\ Cardinality(AdmittedOf(i)) \in Nat /\ Cardinality(Holders(i)) \in Nat
           /\ Cardinality(AdmittedOf(i)') \in Nat /\ Cardinality(Holders(i)') \in Nat
           /\ IsFiniteSet(AdmittedOf(i)) /\ IsFiniteSet(AdmittedOf(i)')
  <1>1. /\ Holders(i) \subseteq Conns /\ Holders(i)' \subseteq Conns
        /\ AdmittedOf(i) \subseteq Holders(i) /\ AdmittedOf(i)' \subseteq Holders(i)'
    BY DEF Holders, AdmittedOf, Admitted
  <1>2. IsFiniteSet(Holders(i)) /\ IsFiniteSet(Holders(i)')
    BY <1>1, ConfigAssumption, FS_Subset
  <1> QED BY <1>1, <1>2, FS_Subset, FS_CardinalityType

(* Steps that neither take nor free a slot.                                *)
LEMMA SlotFrame ==
    ASSUME IpLimit, ipCount' = ipCount,
           \A c \in Conns : /\ HoldsSlot(c)' <=> HoldsSlot(c)
                            /\ Admitted(c)' => Admitted(c)
    PROVE  IpLimit'
  <1> SUFFICES ASSUME NEW i \in IPs
               PROVE  /\ ipCount'[i] = Cardinality(Holders(i)')
                      /\ Cardinality(AdmittedOf(i)') <= MaxPerIP
    BY DEF IpLimit, Holders, AdmittedOf
  <1>1. Holders(i)' = Holders(i) /\ AdmittedOf(i)' \subseteq AdmittedOf(i)
    BY DEF Holders, AdmittedOf
  <1>2. Cardinality(AdmittedOf(i)') <= Cardinality(AdmittedOf(i))
    BY <1>1, HoldersFinite, FS_Subset
  <1>3. ipCount[i] = Cardinality(Holders(i)) /\ Cardinality(AdmittedOf(i)) <= MaxPerIP
    BY DEF IpLimit, Holders, AdmittedOf
  <1> QED BY <1>1, <1>2, <1>3, HoldersFinite, ConfigAssumption

LEMMA SlotTake ==
    ASSUME TypeOK, MapsInv, IpLimit, NEW c \in Conns, Accept(c)
    PROVE  IpLimit'
  <1> SUFFICES ASSUME NEW i \in IPs
               PROVE  /\ ipCount'[i] = Cardinality(Holders(i)')
                      /\ Cardinality(AdmittedOf(i)') <= MaxPerIP
    BY DEF IpLimit, Holders, AdmittedOf
  <1>1. /\ phase[c] = "idle" /\ phase'[c] \in {"over", "counted"}
        /\ phase'[c] = "counted" => ipCount[IpOf[c]] + 1 <= MaxPerIP
        /\ \A d \in Conns : d # c => phase'[d] = phase[d]
        /\ UNCHANGED reader /\ reader[c] = "off"
    <2>1. phase[c] = "idle" /\ UNCHANGED reader /\ reader[c] = "off"
      BY DEF Accept, MapsInv, RegistrationOnce, pumps
    <2>2. phase' = [phase EXCEPT ![c] = IF OverLimit(c) THEN "over" ELSE "counted"]
      BY DEF Accept
    <2>3. /\ phase'[c] = IF OverLimit(c) THEN "over" ELSE "counted"
          /\ \A d \in Conns : d # c => phase'[d] = phase[d]
      BY <2>2 DEF TypeOK
    <2>4. ipCount[IpOf[c]] \in Int
      BY ConfigAssumption DEF TypeOK
    <2> QED BY <2>1, <2>3, <2>4, ConfigAssumption DEF OverLimit
  <1>2. /\ ipCount[i] = Cardinality(Holders(i)) /\ ipCount[i] \in Int
        /\ Cardinality(AdmittedOf(i)) <= MaxPerIP
        /\ ipCount'[i] = ipCount[i] + (IF IpOf[c] = i THEN 1 ELSE 0)
    <2>1. ipCount[i] = Cardinality(Holders(i)) /\ Cardinality(AdmittedOf(i)) <= MaxPerIP
      BY DEF IpLimit, Holders, AdmittedOf
    <2>2. /\ ipCount[i] \in Int
          /\ ipCount'[i] = ipCount[i] + (IF IpOf[c] = i THEN 1 ELSE 0)
      BY ConfigAssumption DEF TypeOK, Accept
    <2> QED BY <2>1, <2>2
  <1>3. CASE IpOf[c] # i
    <2>1. Holders(i)' = Holders(i) /\ AdmittedOf(i)' = AdmittedOf(i)
      BY <1>1, <1>3 DEF Holders, AdmittedOf, HoldsSlot, Admitted
    <2> QED BY <1>2, <1>3, <2>1
  <1>4. CASE IpOf[c] = i
    <2>1. Holders(i)' = Holders(i) \cup {c} /\ c \notin Holders(i)
      BY <1>1, <1>4 DEF Holders, HoldsSlot
    <2>2. Cardinality(Holders(i)') = Cardinality(Holders(i)) + 1
      BY <2>1, HoldersFinite, FS_AddElement
    <2>3. CASE phase'[c] = "counted"
      BY <1>1, <1>2, <1>4, <2>2, <2>3, HoldersFinite, ConfigAssumption
    <2>4. CASE phase'[c] = "over"
      <3>1. AdmittedOf(i)' = AdmittedOf(i)
        BY <1>1, <2>4 DEF AdmittedOf, HoldsSlot, Admitted
      <3> QED BY <1>2, <1>4, <2>2, <3>1, HoldersFinite
    <2> QED BY <1>1, <2>3, <2>4
  <1> QED BY <1>3, <1>4

(* Refusals and the end of a read pump give back one slot that was held.   *)
LEMMA SlotFree ==
    ASSUME TypeOK, IpLimit, NEW c \in Conns, HoldsSlot(c), ~HoldsSlot(c)',
           \A d \in Conns : d # c => phase'[d] = phase[d] /\ reader'[d] = reader[d],
           ipCount' = [ipCount EXCEPT ![IpOf[c]] = @ - 1]
    PROVE  IpLimit'
  <1> SUFFICES ASSUME NEW i \in IPs
               PROVE  /\ ipCount'[i] = Cardinality(Holders(i)')
                      /\ Cardinality(AdmittedOf(i)') <= MaxPerIP
    BY DEF IpLimit, Holders, AdmittedOf
  <1>1. /\ ipCount[i] = Cardinality(Holders(i)) /\ ipCount[i] \in Int
        /\ Cardinality(AdmittedOf(i)) <= MaxPerIP
        /\ ipCount'[i] = ipCount[i] - (IF IpOf[c] = i THEN 1 ELSE 0)
    <2>1. ipCount[i] = Cardinality(Holders(i)) /\ Cardinality(AdmittedOf(i)) <= MaxPerIP
      BY DEF IpLimit, Holders, AdmittedOf
    <2>2. /\ ipCount[i] \in Int
          /\ ipCount'[i] = ipCount[i] - (IF IpOf[c] = i THEN 1 ELSE 0)
      BY ConfigAssumption DEF TypeOK
    <2> QED BY <2>1, <2>2
  <1>2. AdmittedOf(i)' \subseteq AdmittedOf(i)
    BY DEF AdmittedOf, Admitted, HoldsSlot
  <1>3. Cardinality(AdmittedOf(i)') <= Cardinality(AdmittedOf(i))
    BY <1>2, HoldersFinite, FS_Subset
  <1>4. CASE IpOf[c] # i
    <2>1. Holders(i)' = Holders(i)
      BY <1>4 DEF Holders, HoldsSlot
    <2> QED BY <1>1, <1>3, <1>4, <2>1, HoldersFinite, ConfigAssumption
  <1>5. CASE IpOf[c] = i
    <2>1. Holders(i)' = Holders(i) \ {c} /\ c \in Holders(i)
      BY <1>5 DEF Holders, HoldsSlot
    <2>2. Cardinality(Holders(i)') = Cardinality(Holders(i)) - 1
      BY <2>1, HoldersFinite, FS_RemoveElement
    <2> QED BY <1>1, <1>3, <1>5, <2>2, HoldersFinite, ConfigAssumption
  <1> QED BY <1>4, <1>5

(* Per-IP accounting and limit, for any number of connections and          *)
(* addresses: no path of handleWebSocket or ReadPump leaks a slot, frees   *)
(* one twice or admits a connection over the limit.                        *)
THEOREM HubIpLimit == Spec => []IpLimit
  <1>1. Init => IpLimit
    <2> SUFFICES ASSUME Init, NEW i \in IPs
                 PROVE  /\ ipCount[i] = Cardinality(Holders(i))
                        /\ Cardinality(AdmittedOf(i)) <= MaxPerIP
      BY DEF IpLimit, Holders, AdmittedOf
    <2>1. Holders(i) = {} /\ AdmittedOf(i) = {}
      BY DEF Init, Holders, AdmittedOf, HoldsSlot, Admitted
    <2> QED BY <2>1, FS_EmptySet, ConfigAssumption DEF Init
  <1>2. TypeOK /\ MapsInv /\ IpLimit /\ [Next]_vars => IpLimit'
    <2> SUFFICES ASSUME TypeOK, MapsInv, IpLimit, [Next]_vars PROVE IpLimit'
      OBVIOUS
    <2> USE DEF admission, pumps
    <2>1. ASSUME ipCount' = ipCount, phase' = phase,
                 \A c \in Conns : reader'[c] = "done" <=> reader[c] = "done"
          PROVE  IpLimit'
      BY <2>1, SlotFrame DEF HoldsSlot, Admitted
    <2>2. ASSUME NEW c \in Conns, Accept(c) PROVE IpLimit'
      BY <2>2, SlotTake
    <2>3. ASSUME NEW c \in Conns, Refuse(c) PROVE IpLimit'
      <3>1. /\ HoldsSlot(c) /\ ~HoldsSlot(c)'
            /\ \A d \in Conns : d # c => phase'[d] = phase[d] /\ reader'[d] = reader[d]
        BY <2>3 DEF Refuse, HoldsSlot, TypeOK, MapsInv, RegistrationOnce
      <3> QED BY <2>3, <3>1, SlotFree DEF Refuse
    <2>4. ASSUME NEW c \in Conns, ReaderExit(c) PROVE IpLimit'
      <3>1. phase[c] = "live"
        BY <2>4 DEF ReaderExit, MapsInv, RegistrationOnce
      <3>2. /\ HoldsSlot(c) /\ ~HoldsSlot(c)'
            /\ \A d \in Conns : d # c => phase'[d] = phase[d] /\ reader'[d] = reader[d]
        BY <2>4, <3>1 DEF ReaderExit, HoldsSlot, TypeOK
      <3> QED BY <2>4, <3>2, SlotFree DEF ReaderExit
    <2>5. ASSUME NEW c \in Conns, Upgrade(c) \/ Register(c) \/ StartPumps(c) PROVE IpLimit'
      <3>1. ipCount' = ipCount
        BY <2>5 DEF Upgrade, Register, StartPumps
      <3>2. /\ phase[c] \in {"counted", "upgraded", "registered"}
            /\ phase'[c] \in {"upgraded", "registered", "live"}
            /\ reader[c] # "done" /\ reader'[c] # "done"
        <4>1. phase[c] \in {"counted", "upgraded", "registered"}
          BY <2>5 DEF Upgrade, Register, StartPumps
        <4>2. reader[c] = "off"
          BY <4>1 DEF MapsInv, RegistrationOnce
        <4>3. phase'[c] \in {"upgraded", "registered", "live"} /\ reader'[c] \in {"off", "reading"}
          BY <2>5, <4>2 DEF Upgrade, Register, StartPumps, TypeOK
        <4> QED BY <4>1, <4>2, <4>3
      <3>3. \A d \in Conns : d # c => phase'[d] = phase[d] /\ reader'[d] = reader[d]
        BY <2>5 DEF Upgrade, Register, StartPumps, TypeOK
      <3> QED BY <3>1, <3>2, <3>3, SlotFrame DEF HoldsSlot, Admitted
    <2>6. ASSUME NEW c \in Conns, Handlers(c) \/ ReadError(c) \/ Unregister(c) PROVE IpLimit'
      <3>1. ipCount' = ipCount /\ phase' = phase
        BY <2>6 DEF Handlers, ReadMessage, handleSubscribe, handleUnsubscribe, handleTyping,
                    Reply, ReadError, Unregister
      <3>2. reader[c] # "done" /\ reader'[c] # "done"
            /\ \A d \in Conns : d # c => reader'[d] = reader[d]
        <4>1. ASSUME NEW q \in Requests, ReadMessage(c, q)
              PROVE  reader[c] # "done" /\ reader'[c] # "done"
                     /\ \A d \in Conns : d # c => reader'[d] = reader[d]
          <5>1. q.op \in {"subscribe", "unsubscribe", "typing", "reply"}
            BY ConfigAssumption DEF Request
          <5> QED BY <4>1, <5>1 DEF ReadMessage, TypeOK
        <4> QED BY <2>6, <4>1 DEF Handlers, handleSubscribe, handleUnsubscribe, handleTyping,
                    Reply, ReadError, Unregister, TypeOK
      <3> QED BY <2>1, <3>1, <3>2
    <2>7. CASE Run \/ Subscribers \/ Shutdown \/ \E c \in Conns : WritePump(c)
      <3>1. UNCHANGED <<ipCount, phase, reader>>
        <4>1. CASE Run
          BY <4>1 DEF Run, HubRegister, HubUnregister, broadcastMessage, HubBroadcast,
                      HubBroadcastDone, HubLookup, HubSend, HubEvict, HubQuit
        <4>2. CASE Subscribers
          BY <4>2 DEF Subscribers, RoomEvent, RoomSubStop, PresenceEvent, PresenceSend,
                      PresenceDone, PresenceStop
        <4>3. CASE Shutdown
          BY <4>3 DEF Shutdown, ShutdownCancel, CloseAll, ShutdownHTTP
        <4>4. CASE \E c \in Conns : WritePump(c)
          BY <4>4 DEF WritePump, WriteMessage, WriteError, drainAndClose, WriterExit
        <4> QED BY <2>7, <4>1, <4>2, <4>3, <4>4
      <3> QED BY <2>1, <3>1
    <2>8. CASE UNCHANGED vars
      BY <2>1, <2>8 DEF vars
    <2> QED BY <2>2, <2>3, <2>4, <2>5, <2>6, <2>7, <2>8
            DEF Next, Step, Finished, Admission, ReadPumpExit
  <1> QED BY <1>1, <1>2, TypeCorrect, MapsInvariant, PTL DEF Spec

-----------------------------------------------------------------------------
(* Exits.  A connection is unregistered once: it is in the unregister      *)
(* channel once, only after its read pump has sent it there, and from then *)
(* on it stays in no map of the hub and is in no queue but for the exits   *)
(* that overtook their registration.                                       *)
Exited(c) == reader[c] \in {"closing", "done"}
ExitInv ==
    /\ \A i, j \in 1..Len(unregisterQ) : i # j => unregisterQ[i] # unregisterQ[j]
    /\ \A c \in Conns :
         /\ c \in Elems(unregisterQ) \cup overtook => Exited(c)
         /\ c \in Elems(unregisterQ) => c \notin overtook
         /\ Exited(c) /\ c \in clients \cup Elems(registerQ) => c \in Elems(unregisterQ) \cup overtook

(* The steps that change the maps or the queues of the hub, and what is    *)
(* left alone by all others.                                               *)
Quiet ==
    /\ UNCHANGED <<clients, rooms, activeGauge, subsGauge, overtook, registerQ, unregisterQ>>
    /\ hubClosed => hubClosed'
    /\ \A c \in Conns : Exited(c)' <=> Exited(c)

LEMMA OtherSteps ==
    ASSUME TypeOK, MapsInv, [Next]_vars
    PROVE  \/ \E c \in Conns : Register(c) \/ Unregister(c) \/ HubEvict(c)
           \/ \E c \in Conns, r \in Rooms : handleSubscribe(c, r) \/ handleUnsubscribe(c, r)
           \/ HubRegister \/ HubUnregister
           \/ Quiet
  <1> USE DEF admission, pumps, flags, maps, hubLoop, redis
  <1>1. ASSUME UNCHANGED <<clients, rooms, activeGauge, subsGauge, overtook, registerQ, unregisterQ, hubClosed, reader>>
        PROVE  Quiet
    BY <1>1 DEF Quiet, Exited
  <1>2. ASSUME NEW c \in Conns, NEW x, reader' = [reader EXCEPT ![c] = x],
               ~Exited(c), x \notin {"closing", "done"},
               UNCHANGED <<clients, rooms, activeGauge, subsGauge, overtook, registerQ, unregisterQ, hubClosed>>
        PROVE  Quiet
    <2>1. \A d \in Conns : reader'[d] = IF d = c THEN x ELSE reader[d]
      BY <1>2 DEF TypeOK
    <2> QED BY <1>2, <2>1 DEF Quiet, Exited
  <1>3. ASSUME NEW c \in Conns, Accept(c) \/ Refuse(c) \/ Upgrade(c) PROVE Quiet
    BY <1>1, <1>3 DEF Accept, Refuse, Upgrade
  <1>4. ASSUME NEW c \in Conns, StartPumps(c) PROVE Quiet
    <2>1. reader[c] = "off"
      BY <1>4 DEF StartPumps, MapsInv, RegistrationOnce
    <2> QED BY <1>2, <1>4, <2>1 DEF StartPumps, Exited
  <1>5. ASSUME NEW c \in Conns, NEW q \in Requests, ReadMessage(c, q) PROVE Quiet
    <2>1. q.op \in {"subscribe", "unsubscribe", "typing", "reply"}
      BY ConfigAssumption DEF Request
    <2>2. PICK x \in {"subscribing", "unsubscribing", "typing", "replying"} : reader' = [reader EXCEPT ![c] = x]
      BY <1>5, <2>1 DEF ReadMessage
    <2> QED BY <1>2, <1>5, <2>2 DEF ReadMessage, Exited
  <1>6. ASSUME NEW c \in Conns, (\E r \in Rooms : handleTyping(c, r)) \/ Reply(c) \/ ReadError(c) PROVE Quiet
    BY <1>2, <1>6 DEF handleTyping, Reply, ReadError, Exited
  <1>7. ASSUME NEW c \in Conns, ReaderExit(c) PROVE Quiet
    <2>1. \A d \in Conns : reader'[d] = IF d = c THEN "done" ELSE reader[d]
      BY <1>7 DEF ReaderExit, TypeOK
    <2> QED BY <1>7, <2>1 DEF ReaderExit, Quiet, Exited
  <1>8. ASSUME NEW c \in Conns, WritePump(c) PROVE Quiet
    BY <1>1, <1>8 DEF WritePump, WriteMessage, WriteError, drainAndClose, WriterExit
  <1>9. CASE HubBroadcast \/ HubBroadcastDone \/ HubQuit \/ \E c \in Conns : HubLookup(c) \/ HubSend(c)
    BY <1>1, <1>9 DEF HubBroadcast, HubBroadcastDone, HubQuit, HubLookup, HubSend
  <1>10. CASE Subscribers
    BY <1>1, <1>10 DEF Subscribers, RoomEvent, RoomSubStop, PresenceEvent, PresenceSend,
                       PresenceDone, PresenceStop
  <1>11. CASE Shutdown
    BY <1>11 DEF Shutdown, ShutdownCancel, CloseAll, ShutdownHTTP, Quiet, Exited
  <1>12. CASE UNCHANGED vars
    BY <1>1, <1>12 DEF vars
  <1> QED BY <1>3, <1>4, <1>5, <1>6, <1>7, <1>8, <1>9, <1>10, <1>11, <1>12
          DEF Next, Step, Finished, Admission, Handlers, ReadPumpExit, Run, broadcastMessage

(* A step that leaves the exits alone and tracks no exited connection.     *)
LEMMA ExitFrame ==
    ASSUME ExitInv, UNCHANGED <<overtook, unregisterQ>>,
           \A c \in Conns : Exited(c)' <=> Exited(c),
           \A c \in Conns : c \in clients' \cup Elems(registerQ)' /\ Exited(c) => c \in clients \cup Elems(registerQ)
    PROVE  ExitInv'
  <1>1. Elems(unregisterQ)' = Elems(unregisterQ)
    BY DEF Elems
  <1> QED BY <1>1 DEF ExitInv

(* What cleanupClient leaves of the maps.                                  *)
LEMMA CleanupTracks ==
    ASSUME TypeOK, MapsInv, NEW c \in Conns, cleanupClient(c), UNCHANGED registerQ
    PROVE  /\ c \in overtook' \/ c \notin clients' \cup Elems(registerQ)'
           /\ clients' \subseteq clients /\ Elems(registerQ)' = Elems(registerQ)
           /\ overtook \subseteq overtook' /\ overtook' \subseteq overtook \cup {c}
  <1>1. Elems(registerQ)' = Elems(registerQ)
    BY DEF Elems
  <1>2. c \in Elems(registerQ) => c \notin clients /\ ~closed[c]
    BY DEF MapsInv, RegistrationOnce
  <1>3. clients' = clients \ {c}
    BY DEF cleanupClient, RemoveFromMaps
  <1>4. overtook' = IF c \in clients \/ closed[c] THEN overtook ELSE overtook \cup {c}
    BY DEF cleanupClient
  <1> QED BY <1>1, <1>2, <1>3, <1>4

LEMMA ExitStep == TypeOK /\ MapsInv /\ ExitInv /\ [Next]_vars => ExitInv'
  <1> SUFFICES ASSUME TypeOK, MapsInv, ExitInv, [Next]_vars PROVE ExitInv'
    OBVIOUS
  <1> USE DEF admission, pumps, flags, maps, hubLoop, redis
  <1>1. CASE Quiet
    <2>1. Elems(registerQ)' = Elems(registerQ)
      BY <1>1 DEF Quiet, Elems
    <2> QED BY <1>1, <2>1, ExitFrame DEF Quiet
  <1>2. ASSUME NEW c \in Conns, Register(c) PROVE ExitInv'
    <2>1. /\ registerQ' = Append(registerQ, c) /\ UNCHANGED <<clients, overtook, unregisterQ, reader>>
          /\ reader[c] = "off"
      BY <1>2 DEF Register, MapsInv, RegistrationOnce
    <2>2. Elems(registerQ') = Elems(registerQ) \cup {c}
      BY <2>1, ElemsAppend DEF TypeOK
    <2>3. Elems(registerQ)' = Elems(registerQ) \cup {c}
      BY <2>2 DEF Elems
    <2> QED BY <2>1, <2>3, ExitFrame DEF Exited
  <1>3. ASSUME NEW c \in Conns, HubEvict(c) PROVE ExitInv'
    <2>1. /\ UNCHANGED <<overtook, unregisterQ, reader, registerQ>> /\ clients' \subseteq clients
      BY <1>3 DEF HubEvict, RemoveFromMaps
    <2>2. Elems(registerQ)' = Elems(registerQ)
      BY <2>1 DEF Elems
    <2> QED BY <2>1, <2>2, ExitFrame DEF Exited
  <1>4. ASSUME NEW c \in Conns, NEW r \in Rooms, handleSubscribe(c, r) \/ handleUnsubscribe(c, r) PROVE ExitInv'
    <2>1. UNCHANGED <<overtook, unregisterQ, registerQ, clients>>
      BY <1>4 DEF handleSubscribe, handleUnsubscribe, SubscribeToRoom, UnsubscribeFromRoom
    <2>2. \A d \in Conns : Exited(d)' <=> Exited(d)
      BY <1>4 DEF handleSubscribe, handleUnsubscribe, Exited, TypeOK
    <2>3. Elems(registerQ)' = Elems(registerQ)
      BY <2>1 DEF Elems
    <2> QED BY <2>1, <2>2, <2>3, ExitFrame
  <1>5. CASE HubRegister
    <2>1. /\ registerQ # <<>> /\ registerQ' = Tail(registerQ) /\ clients' = clients \cup {Head(registerQ)}
          /\ UNCHANGED <<overtook, unregisterQ, reader>>
      BY <1>5 DEF HubRegister
    <2>2. Head(registerQ) \in Elems(registerQ) /\ Elems(registerQ') \subseteq Elems(registerQ)
      BY <2>1, ElemsTail DEF TypeOK
    <2>3. Elems(registerQ)' \subseteq Elems(registerQ)
      BY <2>2 DEF Elems
    <2> QED BY <2>1, <2>2, <2>3, ExitFrame DEF Exited
  <1>6. CASE HubUnregister
    <2> DEFINE c == Head(unregisterQ)
    <2>1. /\ unregisterQ # <<>> /\ unregisterQ' = Tail(unregisterQ) /\ cleanupClient(c)
          /\ UNCHANGED <<reader, registerQ>> /\ unregisterQ \in Seq(Conns)
      BY <1>6 DEF HubUnregister, TypeOK
    <2>2. /\ c \in Conns /\ c \in Elems(unregisterQ)
          /\ Elems(unregisterQ') \subseteq Elems(unregisterQ)
          /\ Elems(unregisterQ) \subseteq Elems(unregisterQ') \cup {c}
      BY <2>1, ElemsTail
    <2>3. Elems(unregisterQ)' = Elems(unregisterQ')
      BY DEF Elems
    <2>4. /\ c = unregisterQ[1] /\ Len(unregisterQ) \in Nat \ {0} /\ Len(unregisterQ') = Len(unregisterQ) - 1
          /\ \A i \in 1..Len(unregisterQ)-1 : unregisterQ'[i] = unregisterQ[i + 1]
      BY <2>1
    <2>5. \A i, j \in 1..Len(unregisterQ') : i # j => unregisterQ'[i] # unregisterQ'[j]
      BY <2>4 DEF ExitInv
    <2>6. c \notin Elems(unregisterQ')
      <3>1. \A i \in 1..Len(unregisterQ') : unregisterQ'[i] # c
        BY <2>4 DEF ExitInv
      <3> QED BY <3>1 DEF Elems
    <2> HIDE DEF c
    <2>7. /\ c \in overtook' \/ c \notin clients' \cup Elems(registerQ)'
          /\ clients' \subseteq clients /\ Elems(registerQ)' = Elems(registerQ)
          /\ overtook \subseteq overtook' /\ overtook' \subseteq overtook \cup {c}
      BY <2>1, <2>2, CleanupTracks
    <2>8. \A d \in Conns : Exited(d)' <=> Exited(d)
      BY <2>1 DEF Exited
    <2> QED BY <2>2, <2>3, <2>5, <2>6, <2>7, <2>8 DEF ExitInv
  <1>7. ASSUME NEW c \in Conns, Unregister(c) PROVE ExitInv'
    <2>1. /\ ~Exited(c) /\ \A d \in Conns : Exited(d)' <=> Exited(d) \/ d = c
          /\ UNCHANGED registerQ
      BY <1>7 DEF Unregister, Exited, TypeOK
    <2>2. c \notin Elems(unregisterQ) \cup overtook
      BY <2>1 DEF ExitInv
    <2>3. CASE Len(unregisterQ) < UnregisterCap
      <3>1. unregisterQ' = Append(unregisterQ, c) /\ UNCHANGED <<clients, overtook, registerQ>>
        BY <1>7, <2>3 DEF Unregister
      <3>2. /\ Elems(unregisterQ') = Elems(unregisterQ) \cup {c}
            /\ \A i \in 1..Len(unregisterQ)+1 :
                  unregisterQ'[i] = IF i = Len(unregisterQ)+1 THEN c ELSE unregisterQ[i]
            /\ Len(unregisterQ') = Len(unregisterQ) + 1 /\ Len(unregisterQ) \in Nat
        BY <3>1, ElemsAppend DEF TypeOK
      <3>3. Elems(unregisterQ)' = Elems(unregisterQ') /\ Elems(registerQ)' = Elems(registerQ)
        BY <3>1 DEF Elems
      <3>4. \A i, j \in 1..Len(unregisterQ') : i # j => unregisterQ'[i] # unregisterQ'[j]
        <4>1. \A i \in 1..Len(unregisterQ) : unregisterQ[i] # c
          BY <2>2 DEF Elems
        <4> QED BY <3>2, <4>1 DEF ExitInv
      <3> QED BY <2>1, <2>2, <3>1, <3>2, <3>3, <3>4 DEF ExitInv
    <2>4. CASE ~(Len(unregisterQ) < UnregisterCap)
      <3>1. cleanupClient(c) /\ UNCHANGED <<unregisterQ, registerQ>>
        BY <1>7, <2>4 DEF Unregister
      <3>2. /\ c \in overtook' \/ c \notin clients' \cup Elems(registerQ)'
            /\ clients' \subseteq clients /\ Elems(registerQ)' = Elems(registerQ)
            /\ overtook \subseteq overtook' /\ overtook' \subseteq overtook \cup {c}
        BY <3>1, CleanupTracks
      <3>3. Elems(unregisterQ)' = Elems(unregisterQ)
        BY <3>1 DEF Elems
      <3> QED BY <2>1, <2>2, <3>1, <3>2, <3>3 DEF ExitInv
    <2> QED BY <2>3, <2>4
  <1> QED BY <1>1, <1>2, <1>3, <1>4, <1>5, <1>6, <1>7, OtherSteps

(* A connection whose exit has been handled is in no map, through full     *)
(* channels, evictions and the shutdown, unless the exit overtook the      *)
(* registration: for any number of connections and any capacities.         *)
THEOREM HubLeaksOnlyOvertaken == Spec => []LeaksOnlyOvertaken
  <1>1. Init => ExitInv
    BY DEF Init, ExitInv, Exited, Elems
  <1>2. TypeOK /\ ExitInv => LeaksOnlyOvertaken
    BY DEF TypeOK, ExitInv, Exited, LeaksOnlyOvertaken
  <1> QED BY <1>1, <1>2, ExitStep, TypeCorrect, MapsInvariant, PTL DEF Spec

-----------------------------------------------------------------------------
(* The gauges.                                                             *)

Listed == {p \in Rooms \X Conns : p[2] \in rooms[p[1]]}
SubsCounted == subsGauge = Cardinality(Listed)
ActiveCounted == activeGauge = Cardinality(clients) - Cardinality(overtook)

LEMMA Finite ==
    ASSUME TypeOK
    PROVE  /\ IsFiniteSet(Listed) /\ Cardinality(Listed) \in Nat
           /\ IsFiniteSet(clients) /\ Cardinality(clients) \in Nat
           /\ IsFiniteSet(overtook) /\ Cardinality(overtook) \in Nat
  <1>1. IsFiniteSet(Conns) /\ IsFiniteSet(Rooms)
    BY ConfigAssumption
  <1>2. IsFiniteSet(Rooms \X Conns)
    BY <1>1, FS_Product
  <1>3. Listed \subseteq Rooms \X Conns /\ clients \subseteq Conns /\ overtook \subseteq Conns
    BY DEF Listed, TypeOK
  <1>4. IsFiniteSet(Listed) /\ IsFiniteSet(clients) /\ IsFiniteSet(overtook)
    BY <1>1, <1>2, <1>3, FS_Subset
  <1> QED BY <1>4, FS_CardinalityType

LEMMA SubscriptionCounted ==
    ASSUME TypeOK, SubsCounted, NEW c \in Conns, NEW r \in Rooms,
           SubscribeToRoom(c, r) \/ UnsubscribeFromRoom(c, r)
    PROVE  SubsCounted' /\ UNCHANGED <<clients, overtook, activeGauge>>
  <1>1. Listed' = {p \in Rooms \X Conns : p[2] \in rooms'[p[1]]}
    BY DEF Listed
  <1>2. <<r, c>> \in Listed <=> c \in rooms[r]
    BY DEF Listed
  <1>3. CASE UNCHANGED maps
    BY <1>3 DEF maps, SubsCounted, Listed
  <1>4. CASE SubscribeToRoom(c, r) /\ ~isClosed(c)
    <2>1. /\ rooms' = [rooms EXCEPT ![r] = @ \cup {c}] /\ UNCHANGED <<clients, overtook, activeGauge>>
          /\ subsGauge' = subsGauge + (IF c \in rooms[r] THEN 0 ELSE 1)
      BY <1>4 DEF SubscribeToRoom
    <2>2. \A x \in Rooms, d \in Conns : d \in rooms'[x] <=> d \in rooms[x] \/ (d = c /\ x = r)
      BY <2>1 DEF TypeOK
    <2>3. Listed' = Listed \cup {<<r, c>>}
      BY <1>1, <2>2 DEF Listed
    <2>4. Cardinality(Listed') = IF <<r, c>> \in Listed THEN Cardinality(Listed) ELSE Cardinality(Listed) + 1
      BY <2>3, Finite, FS_AddElement
    <2> QED BY <1>2, <2>1, <2>4, Finite DEF SubsCounted
  <1>5. CASE UnsubscribeFromRoom(c, r)
    <2>1. /\ rooms' = [rooms EXCEPT ![r] = @ \ {c}] /\ UNCHANGED <<clients, overtook, activeGauge>>
          /\ subsGauge' = subsGauge - (IF c \in rooms[r] THEN 1 ELSE 0)
      BY <1>5 DEF UnsubscribeFromRoom
    <2>2. \A x \in Rooms, d \in Conns : d \in rooms'[x] <=> d \in rooms[x] /\ ~(d = c /\ x = r)
      BY <2>1 DEF TypeOK
    <2>3. Listed' = Listed \ {<<r, c>>}
      BY <1>1, <2>2 DEF Listed
    <2>4. Cardinality(Listed') = IF <<r, c>> \in Listed THEN Cardinality(Listed) - 1 ELSE Cardinality(Listed)
      BY <2>3, Finite, FS_RemoveElement
    <2> QED BY <1>2, <2>1, <2>4, Finite DEF SubsCounted
  <1> QED BY <1>3, <1>4, <1>5 DEF SubscribeToRoom

(* The subscriptions that the removal loop counts are those that go.       *)
LEMMA RemovalCounted ==
    ASSUME TypeOK, MapsInv, SubsCounted, NEW c \in clients, RemoveFromMaps(c),
           subsGauge' = subsGauge - SubsRemoved(c)
    PROVE  SubsCounted' /\ Cardinality(clients') = Cardinality(clients) - 1
  <1> DEFINE M == memberOf[c]
             Gone1 == M \X {c}
  <1>1. c \in Conns /\ M \subseteq Rooms /\ \A r \in Rooms : r \in M <=> c \in rooms[r]
    BY DEF TypeOK, MapsInv, IndexesAgree
  <1>2. {r \in memberOf[c] : rooms[r] # {}} = M
    BY <1>1
  <1>3. SubsRemoved(c) = Cardinality(M)
    BY <1>2 DEF SubsRemoved
  <1>4. IsFiniteSet(M) /\ Cardinality(M) \in Nat
    BY <1>1, ConfigAssumption, FS_Subset, FS_CardinalityType
  <1>5. Cardinality(Gone1) = Cardinality(M) /\ IsFiniteSet(Gone1)
    <2>1. IsFiniteSet({c}) /\ Cardinality({c}) = 1
      BY FS_Singleton
    <2> HIDE DEF M
    <2>2. IsFiniteSet(M \X {c}) /\ Cardinality(M \X {c}) = Cardinality(M) * Cardinality({c})
      BY <1>4, <2>1, FS_Product
    <2> QED BY <1>4, <2>1, <2>2
  <1>6. Gone1 \subseteq Listed
    BY <1>1 DEF Listed
  <1>7. Listed' = Listed \ Gone1
    <2>1. \A r \in Rooms, d \in Conns : d \in rooms'[r] <=> d \in rooms[r] /\ ~(d = c /\ r \in M)
      BY <1>1 DEF RemoveFromMaps, TypeOK
    <2> QED BY <1>1, <2>1 DEF Listed
  <1> HIDE DEF M, Gone1
  <1>8. Cardinality(Listed') = Cardinality(Listed) - Cardinality(Gone1)
    <2>1. Listed \cap Gone1 = Gone1
      BY <1>6
    <2>2. Cardinality(Listed \ Gone1) = Cardinality(Listed) - Cardinality(Listed \cap Gone1)
      BY Finite, FS_Difference
    <2> QED BY <1>7, <2>1, <2>2
  <1>9. SubsCounted'
    BY <1>3, <1>4, <1>5, <1>8, Finite DEF SubsCounted
  <1>10. Cardinality(clients') = Cardinality(clients) - 1
    BY Finite, FS_RemoveElement DEF RemoveFromMaps
  <1> QED BY <1>9, <1>10

(* cleanupClient of a connection that has not been cleaned up before.      *)
LEMMA CleanupCounted ==
    ASSUME TypeOK, MapsInv, ~hubClosed, SubsCounted, ActiveCounted,
           NEW c \in Conns, c \notin overtook, cleanupClient(c)
    PROVE  SubsCounted' /\ ActiveCounted'
  <1>1. CASE c \in clients
    <2>1. ~closed[c]
      BY <1>1 DEF MapsInv, ClosedMeansGone
    <2>2. /\ RemoveFromMaps(c) /\ subsGauge' = subsGauge - SubsRemoved(c)
          /\ activeGauge' = activeGauge - 1 /\ overtook' = overtook
      BY <1>1, <2>1 DEF cleanupClient, AlreadyClosed
    <2>3. SubsCounted' /\ Cardinality(clients') = Cardinality(clients) - 1
      BY <1>1, <2>2, RemovalCounted
    <2> QED BY <2>2, <2>3, Finite DEF ActiveCounted
  <1>2. CASE c \notin clients /\ closed[c]
    BY <1>2 DEF cleanupClient, AlreadyClosed, SubsCounted, ActiveCounted, Listed
  <1>3. CASE c \notin clients /\ ~closed[c]
    <2>1. /\ UNCHANGED <<clients, rooms>> /\ overtook' = overtook \cup {c}
          /\ activeGauge' = activeGauge - 1 /\ subsGauge' = subsGauge - 0
      BY <1>3 DEF cleanupClient, AlreadyClosed
    <2>2. Cardinality(overtook') = Cardinality(overtook) + 1
      BY <2>1, Finite, FS_AddElement
    <2>3. ActiveCounted'
      BY <2>1, <2>2, Finite DEF ActiveCounted
    <2>4. SubsCounted'
      BY <2>1, Finite DEF SubsCounted, Listed
    <2> QED BY <2>3, <2>4
  <1> QED BY <1>1, <1>2, <1>3

LEMMA StaysClosed ==
    ASSUME TypeOK, MapsInv, [Next]_vars
    PROVE  hubClosed => hubClosed'
  <1>1. ASSUME NEW c \in Conns, Register(c) \/ Unregister(c) \/ HubEvict(c) PROVE UNCHANGED hubClosed
    BY <1>1 DEF Register, Unregister, HubEvict
  <1>2. ASSUME NEW c \in Conns, NEW r \in Rooms, handleSubscribe(c, r) \/ handleUnsubscribe(c, r)
        PROVE  UNCHANGED hubClosed
    BY <1>2 DEF handleSubscribe, handleUnsubscribe
  <1>3. CASE HubRegister \/ HubUnregister
    BY <1>3 DEF HubRegister, HubUnregister
  <1> QED BY <1>1, <1>2, <1>3, OtherSteps DEF Quiet

LEMMA GaugesStep ==
    TypeOK /\ MapsInv /\ ExitInv /\ GaugesTrackMaps /\ [Next]_vars => GaugesTrackMaps'
  <1> SUFFICES ASSUME TypeOK, MapsInv, ExitInv, ~hubClosed, SubsCounted, ActiveCounted, [Next]_vars,
                      ~hubClosed'
               PROVE  SubsCounted' /\ ActiveCounted'
    BY StaysClosed DEF GaugesTrackMaps, SubsCounted, ActiveCounted, Listed
  <1> USE DEF admission, pumps, flags, maps, hubLoop, redis
  <1>1. ASSUME UNCHANGED <<clients, rooms, activeGauge, subsGauge, overtook>>
        PROVE  SubsCounted' /\ ActiveCounted'
    BY <1>1 DEF SubsCounted, ActiveCounted, Listed
  <1>2. CASE Quiet
    BY <1>1, <1>2 DEF Quiet
  <1>3. ASSUME NEW c \in Conns, Register(c) PROVE SubsCounted' /\ ActiveCounted'
    BY <1>1, <1>3 DEF Register
  <1>4. ASSUME NEW c \in Conns, Unregister(c) PROVE SubsCounted' /\ ActiveCounted'
    <2>1. c \notin overtook
      BY <1>4 DEF Unregister, ExitInv, Exited
    <2>2. CASE Len(unregisterQ) < UnregisterCap
      BY <1>1, <1>4, <2>2 DEF Unregister
    <2>3. CASE ~(Len(unregisterQ) < UnregisterCap)
      BY <1>4, <2>1, <2>3, CleanupCounted DEF Unregister
    <2> QED BY <2>2, <2>3
  <1>5. ASSUME NEW c \in Conns, HubEvict(c) PROVE SubsCounted' /\ ActiveCounted'
    <2>1. CASE c \in clients
      <3>1. /\ RemoveFromMaps(c) /\ subsGauge' = subsGauge - SubsRemoved(c)
            /\ activeGauge' = activeGauge - 1 /\ overtook' = overtook
        BY <1>5, <2>1 DEF HubEvict
      <3>2. SubsCounted' /\ Cardinality(clients') = Cardinality(clients) - 1
        BY <2>1, <3>1, RemovalCounted
      <3> QED BY <3>1, <3>2, Finite DEF ActiveCounted
    <2>2. CASE c \notin clients
      BY <1>1, <1>5, <2>2 DEF HubEvict
    <2> QED BY <2>1, <2>2
  <1>6. ASSUME NEW c \in Conns, NEW r \in Rooms, handleSubscribe(c, r) \/ handleUnsubscribe(c, r)
        PROVE  SubsCounted' /\ ActiveCounted'
    <2>1. SubscribeToRoom(c, r) \/ UnsubscribeFromRoom(c, r) \/ UNCHANGED maps
      BY <1>6 DEF handleSubscribe, handleUnsubscribe
    <2>2. CASE SubscribeToRoom(c, r) \/ UnsubscribeFromRoom(c, r)
      BY <2>2, SubscriptionCounted DEF ActiveCounted
    <2> QED BY <1>1, <2>1, <2>2
  <1>7. CASE HubRegister
    <2>1. /\ registerQ # <<>> /\ clients' = clients \cup {Head(registerQ)} /\ activeGauge' = activeGauge + 1
          /\ UNCHANGED <<rooms, subsGauge, overtook>>
      BY <1>7 DEF HubRegister
    <2>2. Head(registerQ) \in Conns /\ Head(registerQ) \in Elems(registerQ)
      BY <2>1, ElemsTail DEF TypeOK
    <2>3. Head(registerQ) \notin clients
      BY <2>2 DEF MapsInv, RegistrationOnce
    <2>4. Cardinality(clients') = Cardinality(clients) + 1
      BY <2>1, <2>3, Finite, FS_AddElement
    <2> QED BY <2>1, <2>4, Finite DEF SubsCounted, ActiveCounted, Listed
  <1>8. CASE HubUnregister
    <2>1. unregisterQ # <<>> /\ cleanupClient(Head(unregisterQ))
      BY <1>8 DEF HubUnregister
    <2>2. Head(unregisterQ) \in Conns /\ Head(unregisterQ) \in Elems(unregisterQ)
      BY <2>1, ElemsTail DEF TypeOK
    <2>3. Head(unregisterQ) \notin overtook
      BY <2>2 DEF ExitInv
    <2> QED BY <2>1, <2>2, <2>3, CleanupCounted
  <1> QED BY <1>2, <1>3, <1>4, <1>5, <1>6, <1>7, <1>8, OtherSteps

(* Until CloseAll the gauges are exact but for the exits that overtook     *)
(* their registration: no connection or subscription is counted out twice  *)
(* or forgotten, for any number of connections, rooms and capacities.      *)
THEOREM HubGaugesTrackMaps == Spec => []GaugesTrackMaps
  <1>1. Init => ExitInv
    BY DEF Init, ExitInv, Exited, Elems
  <1>2. Init => GaugesTrackMaps
    <2> SUFFICES ASSUME Init PROVE SubsCounted /\ ActiveCounted
      BY DEF GaugesTrackMaps, SubsCounted, ActiveCounted, Listed
    <2>1. Listed = {}
      BY DEF Init, Listed
    <2> QED BY <2>1, FS_EmptySet DEF Init, SubsCounted, ActiveCounted
  <1> QED BY <1>1, <1>2, ExitStep, GaugesStep, TypeCorrect, MapsInvariant, PTL DEF Spec

-----------------------------------------------------------------------------
(* The order of delivery.                                                  *)

(* A send buffer in order, after the number n that was written last.       *)
Ordered(q, n) ==
    /\ \A i, j \in 1..Len(q) : i < j => q[j] = Other \/ q[i] < q[j]
    /\ \A m \in Elems(q) : m = Other \/ n < m

LEMMA OrderedAppend ==
    ASSUME NEW q \in Seq(Nat), NEW n \in Nat, NEW m \in Nat, Ordered(q, n),
           m = Other \/ \A x \in Elems(q) \cup {n} : x < m
    PROVE  Ordered(Append(q, m), n)
  <1>1. /\ Len(Append(q, m)) = Len(q) + 1 /\ Len(q) \in Nat
        /\ Elems(Append(q, m)) = Elems(q) \cup {m}
        /\ \A i \in 1..Len(q)+1 : Append(q, m)[i] = IF i = Len(q)+1 THEN m ELSE q[i]
    BY ElemsAppend
  <1>2. \A i \in 1..Len(q) : q[i] \in Elems(q)
    BY DEF Elems
  <1> QED BY <1>1, <1>2 DEF Ordered

LEMMA OrderedTail ==
    ASSUME NEW q \in Seq(Nat), q # <<>>, NEW n \in Nat, Ordered(q, n)
    PROVE  /\ Ordered(Tail(q), n)
           /\ Head(q) # Other => Ordered(Tail(q), Head(q))
  <1>1. /\ Head(q) = q[1] /\ Len(q) \in Nat \ {0} /\ Len(Tail(q)) = Len(q) - 1
        /\ \A i \in 1..Len(q)-1 : Tail(q)[i] = q[i+1]
    OBVIOUS
  <1>2. Elems(Tail(q)) \subseteq Elems(q)
    BY ElemsTail
  <1>3. \A i, j \in 1..Len(Tail(q)) : i < j => Tail(q)[j] = Other \/ Tail(q)[i] < Tail(q)[j]
    BY <1>1 DEF Ordered
  <1>4. \A m \in Elems(Tail(q)) : m = Other \/ Head(q) < m
    BY <1>1 DEF Ordered, Elems
  <1> QED BY <1>2, <1>3, <1>4 DEF Ordered

(* The hub visits a connection once per event; it takes the events in the  *)
(* order of their numbers; and whatever a connection was sent has a number *)
(* below those still to come.                                              *)
LoopIdle ==
    /\ hub \in {"select", "fanout", "stopped"} => hubCur = {}
    /\ hub \in {"select", "stopped"} => hubTodo = {}
    /\ hubCur \cap hubTodo = {}
Accepted ==
    /\ hubMsg.id < nextEvent
    /\ \A i, j \in 1..Len(broadcastQ) : i < j => broadcastQ[i].id < broadcastQ[j].id
    /\ \A e \in Elems(broadcastQ) : hubMsg.id < e.id /\ e.id < nextEvent
SentBefore ==
    \A c \in Conns : \A m \in Elems(sendQ[c]) \cup {received[c]} :
        /\ m < nextEvent
        /\ \A e \in Elems(broadcastQ) : m < e.id
OrderInv == LoopIdle /\ Accepted /\ SentBefore /\ OrderedDelivery

LEMMA OrderPrime ==
    OrderInv' <=>
        /\ LoopIdle' /\ Accepted'
        /\ \A c \in Conns :
             /\ Ordered(sendQ'[c], received'[c])
             /\ \A m \in Elems(sendQ'[c]) \cup {received'[c]} :
                  /\ m < nextEvent'
                  /\ \A e \in Elems(broadcastQ') : m < e.id
                  /\ c \in hubTodo' \cup hubCur' => m < hubMsg'.id
  BY DEF OrderInv, SentBefore, OrderedDelivery, Ordered, Elems

LEMMA OrderNow ==
    ASSUME OrderInv, NEW c \in Conns
    PROVE  /\ Ordered(sendQ[c], received[c])
           /\ \A m \in Elems(sendQ[c]) \cup {received[c]} :
                /\ m < nextEvent
                /\ \A e \in Elems(broadcastQ) : m < e.id
                /\ c \in hubTodo \cup hubCur => m < hubMsg.id
  BY DEF OrderInv, SentBefore, OrderedDelivery, Ordered

LEMMA Numbers ==
    ASSUME TypeOK
    PROVE  /\ nextEvent \in Nat \ {0} /\ hubMsg.id \in Nat /\ Other = 0
           /\ broadcastQ \in Seq(Event)
           /\ \A e \in Elems(broadcastQ) : e \in Event /\ e.id \in Nat \ {0}
           /\ \A c \in Conns : /\ sendQ[c] \in Seq(Nat) /\ received[c] \in Nat
                               /\ Elems(sendQ[c]) \subseteq Nat
  <1>1. nextEvent \in Nat \ {0} /\ hubMsg.id \in Nat /\ Other = 0 /\ broadcastQ \in Seq(Event)
    BY DEF TypeOK, Event, NoEvent, Other
  <1>2. \A i \in 1..Len(broadcastQ) : broadcastQ[i] \in Event
    BY <1>1
  <1>3. \A e \in Elems(broadcastQ) : e \in Event
    BY <1>2 DEF Elems
  <1>4. \A e \in Event : e.id \in Nat \ {0}
    BY DEF Event
  <1>5. ASSUME NEW c \in Conns
        PROVE  sendQ[c] \in Seq(Nat) /\ received[c] \in Nat /\ Elems(sendQ[c]) \subseteq Nat
    <2>1. sendQ[c] \in Seq(Nat) /\ received[c] \in Nat
      BY DEF TypeOK
    <2>2. \A i \in 1..Len(sendQ[c]) : sendQ[c][i] \in Nat
      BY <2>1
    <2> QED BY <2>1, <2>2 DEF Elems
  <1> QED BY <1>1, <1>3, <1>4, <1>5

(* A step of the pumps or of the presence subscriber: nothing is sent but  *)
(* Other.                                                                  *)
LEMMA OrderPumps ==
    ASSUME TypeOK, OrderInv, UNCHANGED <<hubLoop, broadcastQ, nextEvent>>,
           \A c \in Conns :
              /\ Ordered(sendQ'[c], received'[c])
              /\ Elems(sendQ'[c]) \cup {received'[c]} \subseteq Elems(sendQ[c]) \cup {received[c], Other}
    PROVE  OrderInv'
  <1>1. LoopIdle' /\ Accepted'
    BY DEF OrderInv, LoopIdle, Accepted, hubLoop, Elems
  <1>2. ASSUME NEW c \in Conns, NEW m \in Elems(sendQ'[c]) \cup {received'[c]}
        PROVE  /\ m < nextEvent'
               /\ \A e \in Elems(broadcastQ') : m < e.id
               /\ c \in hubTodo' \cup hubCur' => m < hubMsg'.id
    <2>1. UNCHANGED <<nextEvent, broadcastQ, hubTodo, hubCur, hubMsg>>
      BY DEF hubLoop
    <2>2. CASE m \in Elems(sendQ[c]) \cup {received[c]}
      BY <2>1, <2>2, OrderNow
    <2>3. CASE m = Other
      BY <2>1, <2>3, OrderNow, Numbers
    <2> QED BY <2>2, <2>3
  <1> QED BY <1>1, <1>2, OrderPrime

(* Sending to c: the frame is appended or dropped.                         *)
LEMMA SendTo ==
    ASSUME TypeOK, NEW c \in Conns, NEW m \in Nat, TrySend(c, m)
    PROVE  /\ \A d \in Conns : d # c => sendQ'[d] = sendQ[d]
           /\ sendQ'[c] = sendQ[c] \/ sendQ'[c] = Append(sendQ[c], m)
           /\ Elems(Append(sendQ[c], m)) = Elems(sendQ[c]) \cup {m}
  <1>1. Elems(Append(sendQ[c], m)) = Elems(sendQ[c]) \cup {m}
    BY Numbers, ElemsAppend
  <1>2. \A d \in Conns : d # c => sendQ'[d] = sendQ[d]
    BY DEF TrySend, TypeOK
  <1>3. sendQ'[c] = sendQ[c] \/ sendQ'[c] = Append(sendQ[c], m)
    BY DEF TrySend, TypeOK
  <1> QED BY <1>1, <1>2, <1>3

LEMMA OrderReply ==
    ASSUME TypeOK, OrderInv, NEW c \in Conns, TrySend(c, Other),
           UNCHANGED <<hubLoop, broadcastQ, nextEvent, received>>
    PROVE  OrderInv'
  <1>1. Other \in Nat
    BY DEF Other
  <1>2. Ordered(Append(sendQ[c], Other), received[c])
    BY <1>1, OrderNow, Numbers, OrderedAppend
  <1>3. \A d \in Conns : Ordered(sendQ'[d], received'[d])
    BY <1>1, <1>2, SendTo, OrderNow
  <1>4. ASSUME NEW d \in Conns
        PROVE  Elems(sendQ'[d]) \cup {received'[d]} \subseteq Elems(sendQ[d]) \cup {received[d], Other}
    <2>1. \/ sendQ'[d] = sendQ[d]
          \/ Elems(sendQ'[d]) = Elems(sendQ[d]) \cup {Other}
      BY <1>1, SendTo
    <2>2. received'[d] = received[d]
      OBVIOUS
    <2> QED BY <2>1, <2>2
  <1> QED BY <1>3, <1>4, OrderPumps

(* The write pump takes the first frame and writes it, or loses it.        *)
LEMMA OrderWrite ==
    ASSUME TypeOK, OrderInv, NEW c \in Conns, sendQ[c] # <<>>,
           sendQ' = [sendQ EXCEPT ![c] = Tail(@)],
           \/ received' = received
           \/ received' = [received EXCEPT ![c] = IF Head(sendQ[c]) = Other THEN @ ELSE Head(sendQ[c])],
           UNCHANGED <<hubLoop, broadcastQ, nextEvent>>
    PROVE  OrderInv'
  <1>1. /\ \A d \in Conns : sendQ'[d] = IF d = c THEN Tail(sendQ[c]) ELSE sendQ[d]
        /\ \A d \in Conns : d # c => received'[d] = received[d]
        /\ \/ received'[c] = received[c]
           \/ received'[c] = Head(sendQ[c]) /\ Head(sendQ[c]) # Other
    BY DEF TypeOK
  <1>2. Elems(Tail(sendQ[c])) \subseteq Elems(sendQ[c]) /\ Head(sendQ[c]) \in Elems(sendQ[c])
    BY Numbers, ElemsTail
  <1>3. /\ Ordered(Tail(sendQ[c]), received[c])
        /\ Head(sendQ[c]) # Other => Ordered(Tail(sendQ[c]), Head(sendQ[c]))
    BY OrderNow, Numbers, OrderedTail
  <1>4. \A d \in Conns : Ordered(sendQ'[d], received'[d])
    BY <1>1, <1>3, OrderNow
  <1>5. \A d \in Conns : Elems(sendQ'[d]) \cup {received'[d]} \subseteq Elems(sendQ[d]) \cup {received[d], Other}
    BY <1>1, <1>2
  <1> QED BY <1>4, <1>5, OrderPumps

(* An event that enters the broadcast channel is the newest.               *)
LEMMA OrderAccept ==
    ASSUME TypeOK, OrderInv, NEW r \in Rooms, TryBroadcast(r), UNCHANGED <<hubLoop, sendQ, received>>
    PROVE  OrderInv'
  <1> DEFINE e0 == [room |-> r, id |-> nextEvent]
  <1>1. e0 \in Event /\ e0.id = nextEvent
    BY Numbers DEF Event
  <1>2. nextEvent' = nextEvent + 1 /\ (broadcastQ' = broadcastQ \/ broadcastQ' = Append(broadcastQ, e0))
    BY DEF TryBroadcast
  <1> HIDE DEF e0
  <1>3. Elems(broadcastQ') \subseteq Elems(broadcastQ) \cup {e0}
    BY <1>1, <1>2, Numbers, ElemsAppend
  <1>4. \A i, j \in 1..Len(broadcastQ') : i < j => broadcastQ'[i].id < broadcastQ'[j].id
    <2>1. CASE broadcastQ' = broadcastQ
      BY <2>1 DEF OrderInv, Accepted
    <2>2. CASE broadcastQ' = Append(broadcastQ, e0)
      <3>1. /\ Len(broadcastQ') = Len(broadcastQ) + 1 /\ Len(broadcastQ) \in Nat
            /\ \A i \in 1..Len(broadcastQ)+1 :
                  broadcastQ'[i] = IF i = Len(broadcastQ)+1 THEN e0 ELSE broadcastQ[i]
        BY <1>1, <2>2, Numbers
      <3>2. \A i \in 1..Len(broadcastQ) : broadcastQ[i] \in Elems(broadcastQ)
        BY DEF Elems
      <3>3. \A i \in 1..Len(broadcastQ) : broadcastQ[i].id < nextEvent
        BY <3>2 DEF OrderInv, Accepted
      <3>4. \A i, j \in 1..Len(broadcastQ) : i < j => broadcastQ[i].id < broadcastQ[j].id
        BY DEF OrderInv, Accepted
      <3> QED BY <1>1, <3>1, <3>3, <3>4
    <2> QED BY <1>2, <2>1, <2>2
  <1>5. UNCHANGED <<hub, hubMsg, hubTodo, hubCur>>
    BY DEF hubLoop
  <1>6. \A e \in Elems(broadcastQ') : hubMsg'.id < e.id /\ e.id < nextEvent'
    <2>1. \A e \in Elems(broadcastQ) : hubMsg.id < e.id /\ e.id < nextEvent
      BY DEF OrderInv, Accepted
    <2>2. hubMsg.id < nextEvent
      BY DEF OrderInv, Accepted
    <2> QED BY <1>1, <1>2, <1>3, <1>5, <2>1, <2>2, Numbers
  <1>7. Elems(broadcastQ)' = Elems(broadcastQ')
    BY DEF Elems
  <1>8. Accepted'
    <2>1. hubMsg'.id < nextEvent'
      BY <1>2, <1>5, Numbers DEF OrderInv, Accepted
    <2> QED BY <1>4, <1>6, <1>7, <2>1 DEF Accepted
  <1>9. LoopIdle'
    BY <1>5 DEF OrderInv, LoopIdle
  <1>10. ASSUME NEW c \in Conns, NEW m \in Elems(sendQ[c]) \cup {received[c]}
         PROVE  /\ m < nextEvent'
                /\ \A e \in Elems(broadcastQ') : m < e.id
                /\ c \in hubTodo' \cup hubCur' => m < hubMsg'.id
    <2>1. m \in Nat /\ nextEvent \in Nat
      BY Numbers
    <2>2. /\ m < nextEvent /\ \A e \in Elems(broadcastQ) : m < e.id
          /\ c \in hubTodo \cup hubCur => m < hubMsg.id
      BY OrderNow
    <2>3. m < nextEvent'
      BY <1>2, <2>1, <2>2
    <2>4. \A e \in Elems(broadcastQ') : m < e.id
      BY <1>1, <1>3, <2>2
    <2> QED BY <1>5, <2>2, <2>3, <2>4
  <1> QED BY <1>8, <1>9, <1>10, OrderNow, OrderPrime

(* The hub takes the next event: it is newer than all that was sent.       *)
LEMMA OrderTake ==
    ASSUME TypeOK, OrderInv, HubBroadcast
    PROVE  OrderInv'
  <1> DEFINE e0 == Head(broadcastQ)
  <1>1. /\ hub = "select" /\ broadcastQ # <<>> /\ hub' = "fanout" /\ hubMsg' = e0
        /\ broadcastQ' = Tail(broadcastQ) /\ hubCur' = hubCur
        /\ UNCHANGED <<nextEvent, sendQ, received>>
    BY DEF HubBroadcast, pumps, redis
  <1>2. /\ e0 \in Elems(broadcastQ) /\ Elems(broadcastQ') \subseteq Elems(broadcastQ)
    BY <1>1, Numbers, ElemsTail
  <1>3. /\ e0 = broadcastQ[1] /\ Len(broadcastQ) \in Nat \ {0} /\ Len(broadcastQ') = Len(broadcastQ) - 1
        /\ \A i \in 1..Len(broadcastQ)-1 : broadcastQ'[i] = broadcastQ[i + 1]
    BY <1>1, Numbers
  <1> HIDE DEF e0
  <1>4. /\ \A i, j \in 1..Len(broadcastQ) : i < j => broadcastQ[i].id < broadcastQ[j].id
        /\ \A e \in Elems(broadcastQ) : hubMsg.id < e.id /\ e.id < nextEvent
    BY DEF OrderInv, Accepted
  <1>5. \A i, j \in 1..Len(broadcastQ') : i < j => broadcastQ'[i].id < broadcastQ'[j].id
    BY <1>3, <1>4
  <1>6. \A i \in 1..Len(broadcastQ') : e0.id < broadcastQ'[i].id
    BY <1>3, <1>4
  <1>7. Accepted'
    BY <1>1, <1>2, <1>4, <1>5, <1>6 DEF Accepted, Elems
  <1>8. LoopIdle'
    BY <1>1 DEF OrderInv, LoopIdle
  <1>9. ASSUME NEW c \in Conns, NEW m \in Elems(sendQ[c]) \cup {received[c]}
        PROVE  /\ m < nextEvent'
               /\ \A e \in Elems(broadcastQ') : m < e.id
               /\ c \in hubTodo' \cup hubCur' => m < hubMsg'.id
    BY <1>1, <1>2, OrderNow
  <1> QED BY <1>1, <1>7, <1>8, <1>9, OrderNow, OrderPrime

(* The hub looks up a subscriber, evicts one or ends the fan-out: those    *)
(* still to be served are fewer.                                           *)
LEMMA OrderVisit ==
    ASSUME TypeOK, OrderInv, UNCHANGED <<broadcastQ, nextEvent, sendQ, received>>, LoopIdle',
           hubTodo' \cup hubCur' \subseteq hubTodo \cup hubCur,
           hubMsg' = hubMsg \/ (hubMsg' = NoEvent /\ hubTodo' \cup hubCur' = {})
    PROVE  OrderInv'
  <1>1. hubMsg'.id = hubMsg.id \/ (hubMsg'.id = 0 /\ hubTodo' \cup hubCur' = {})
    BY DEF NoEvent
  <1>2. Accepted'
    <2>1. /\ hubMsg.id < nextEvent
          /\ \A i, j \in 1..Len(broadcastQ) : i < j => broadcastQ[i].id < broadcastQ[j].id
          /\ \A e \in Elems(broadcastQ) : hubMsg.id < e.id /\ e.id < nextEvent
      BY DEF OrderInv, Accepted
    <2>2. Elems(broadcastQ)' = Elems(broadcastQ)
      BY DEF Elems
    <2>3. hubMsg'.id < nextEvent' /\ \A e \in Elems(broadcastQ) : hubMsg'.id < e.id
      BY <1>1, <2>1, Numbers
    <2> QED BY <2>1, <2>2, <2>3 DEF Accepted
  <1>3. ASSUME NEW c \in Conns, NEW m \in Elems(sendQ[c]) \cup {received[c]}
        PROVE  /\ m < nextEvent'
               /\ \A e \in Elems(broadcastQ') : m < e.id
               /\ c \in hubTodo' \cup hubCur' => m < hubMsg'.id
    BY <1>1, OrderNow
  <1> QED BY <1>2, <1>3, OrderNow, OrderPrime

(* The hub sends the event it fans out, and never to the same connection   *)
(* again.                                                                  *)
LEMMA OrderSend ==
    ASSUME TypeOK, OrderInv, NEW c \in Conns, HubSend(c)
    PROVE  OrderInv'
  <1>1. /\ c \in hubCur /\ hub = "sending" /\ TrySend(c, hubMsg.id) /\ hubMsg.id \in Nat
        /\ UNCHANGED <<hubMsg, hubTodo, broadcastQ, nextEvent, received>>
    BY Numbers DEF HubSend, pumps, redis
  <1>2. CASE ~sendClosed[c] /\ ~SendHasRoom(c)
    <2>1. sendQ' = sendQ /\ hub' = "evicting" /\ hubCur' = hubCur
      BY <1>1, <1>2 DEF HubSend, TrySend
    <2>2. LoopIdle'
      BY <1>1, <2>1 DEF OrderInv, LoopIdle
    <2> QED BY <1>1, <2>1, <2>2, OrderVisit
  <1>3. CASE ~(~sendClosed[c] /\ ~SendHasRoom(c))
    <2>1. hub' = "fanout" /\ hubCur' = {}
      BY <1>3 DEF HubSend
    <2>2. c \notin hubTodo /\ LoopIdle'
      BY <1>1, <2>1 DEF OrderInv, LoopIdle
    <2>3. Accepted'
      BY <1>1 DEF OrderInv, Accepted, Elems
    <2>4. \A m \in Elems(sendQ[c]) \cup {received[c]} : m < hubMsg.id
      BY <1>1, OrderNow
    <2>5. Ordered(Append(sendQ[c], hubMsg.id), received[c])
      BY <1>1, <2>4, OrderNow, Numbers, OrderedAppend
    <2>6. /\ \A d \in Conns : d # c => sendQ'[d] = sendQ[d]
          /\ sendQ'[c] = sendQ[c] \/ sendQ'[c] = Append(sendQ[c], hubMsg.id)
          /\ Elems(Append(sendQ[c], hubMsg.id)) = Elems(sendQ[c]) \cup {hubMsg.id}
      BY <1>1, SendTo
    <2>7. \A d \in Conns : Ordered(sendQ'[d], received'[d])
      BY <1>1, <2>5, <2>6, OrderNow
    <2>8. ASSUME NEW d \in Conns, NEW m \in Elems(sendQ'[d]) \cup {received'[d]}
          PROVE  /\ m < nextEvent'
                 /\ \A e \in Elems(broadcastQ') : m < e.id
                 /\ d \in hubTodo' \cup hubCur' => m < hubMsg'.id
      <3>1. CASE m \in Elems(sendQ[d]) \cup {received[d]}
        BY <1>1, <2>1, <3>1, OrderNow
      <3>2. CASE d = c /\ m = hubMsg.id
        <4>1. hubMsg.id < nextEvent /\ \A e \in Elems(broadcastQ) : hubMsg.id < e.id
          BY DEF OrderInv, Accepted
        <4> QED BY <1>1, <2>1, <2>2, <3>2, <4>1
      <3> QED BY <1>1, <2>6, <3>1, <3>2
    <2> QED BY <2>2, <2>3, <2>7, <2>8, OrderPrime
  <1> QED BY <1>2, <1>3

LEMMA OrderSame ==
    ASSUME OrderInv, UNCHANGED <<hubLoop, broadcastQ, nextEvent, sendQ, received>>
    PROVE  OrderInv'
  <1>1. LoopIdle' /\ Accepted'
    BY DEF OrderInv, LoopIdle, Accepted, hubLoop, Elems
  <1>2. UNCHANGED <<hubMsg, hubTodo, hubCur>>
    BY DEF hubLoop
  <1> QED BY <1>1, <1>2, OrderNow, OrderPrime

LEMMA OrderStep == TypeOK /\ OrderInv /\ [Next]_vars => OrderInv'
  <1> SUFFICES ASSUME TypeOK, OrderInv, [Next]_vars PROVE OrderInv'
    OBVIOUS
  <1> USE DEF pumps, redis
  <1>1. ASSUME NEW c \in Conns, Admission(c) PROVE OrderInv'
    BY <1>1, OrderSame DEF Admission, Accept, Refuse, Upgrade, Register, StartPumps
  <1>2. ASSUME NEW c \in Conns, Handlers(c) PROVE OrderInv'
    <2>1. ASSUME NEW q \in Requests, ReadMessage(c, q) PROVE OrderInv'
      BY <2>1, OrderSame DEF ReadMessage
    <2>2. ASSUME NEW r \in Rooms, handleSubscribe(c, r) \/ handleUnsubscribe(c, r) PROVE OrderInv'
      BY <2>2, OrderSame DEF handleSubscribe, handleUnsubscribe
    <2>3. ASSUME NEW r \in Rooms, handleTyping(c, r) PROVE OrderInv'
      <3>1. UNCHANGED <<hubLoop, sendQ, received>>
        BY <2>3 DEF handleTyping
      <3> QED BY <2>3, <3>1, OrderAccept, OrderSame DEF handleTyping
    <2>4. CASE Reply(c)
      BY <2>4, OrderReply DEF Reply
    <2> QED BY <1>2, <2>1, <2>2, <2>3, <2>4 DEF Handlers
  <1>3. ASSUME NEW c \in Conns, ReadPumpExit(c) PROVE OrderInv'
    BY <1>3, OrderSame DEF ReadPumpExit, ReadError, Unregister, ReaderExit
  <1>4. ASSUME NEW c \in Conns, WritePump(c) PROVE OrderInv'
    <2>1. CASE WriteMessage(c)
      BY <2>1, OrderWrite DEF WriteMessage
    <2>2. CASE WriteError(c)
      BY <2>2, OrderWrite, OrderSame DEF WriteError
    <2>3. CASE drainAndClose(c) \/ WriterExit(c)
      BY <2>3, OrderSame DEF drainAndClose, WriterExit
    <2> QED BY <1>4, <2>1, <2>2, <2>3 DEF WritePump
  <1>5. CASE Run
    <2>1. CASE HubRegister \/ HubUnregister
      BY <2>1, OrderSame DEF HubRegister, HubUnregister
    <2>2. CASE HubBroadcast
      BY <2>2, OrderTake
    <2>3. CASE HubBroadcastDone \/ HubQuit
      <3>1. LoopIdle'
        BY <2>3 DEF HubBroadcastDone, HubQuit, OrderInv, LoopIdle
      <3>2. hubMsg' = hubMsg \/ (hubMsg' = NoEvent /\ hubTodo' \cup hubCur' = {})
        BY <2>3 DEF HubBroadcastDone, HubQuit, OrderInv, LoopIdle
      <3> QED BY <2>3, <3>1, <3>2, OrderVisit DEF HubBroadcastDone, HubQuit
    <2>4. ASSUME NEW c \in Conns, HubLookup(c) PROVE OrderInv'
      <3>1. /\ hub = "fanout" /\ c \in hubTodo /\ hubTodo' = hubTodo \ {c}
            /\ (hub' = "sending" /\ hubCur' = {c}) \/ (hub' = hub /\ hubCur' = hubCur)
            /\ UNCHANGED <<broadcastQ, nextEvent, sendQ, received, hubMsg>>
        BY <2>4 DEF HubLookup
      <3>2. LoopIdle'
        BY <3>1 DEF OrderInv, LoopIdle
      <3> QED BY <3>1, <3>2, OrderVisit
    <2>5. ASSUME NEW c \in Conns, HubSend(c) PROVE OrderInv'
      BY <2>5, OrderSend
    <2>6. ASSUME NEW c \in Conns, HubEvict(c) PROVE OrderInv'
      <3>1. /\ hub' = "fanout" /\ hubCur' = {}
            /\ UNCHANGED <<broadcastQ, nextEvent, sendQ, received, hubMsg, hubTodo>>
        BY <2>6 DEF HubEvict
      <3>2. LoopIdle'
        BY <3>1 DEF OrderInv, LoopIdle
      <3> QED BY <3>1, <3>2, OrderVisit
    <2> QED BY <1>5, <2>1, <2>2, <2>3, <2>4, <2>5, <2>6 DEF Run, broadcastMessage
  <1>6. CASE Subscribers
    <2>1. ASSUME NEW r \in Rooms, RoomEvent(r) PROVE OrderInv'
      BY <2>1, OrderAccept DEF RoomEvent
    <2>2. ASSUME NEW c \in Conns, PresenceSend(c) PROVE OrderInv'
      BY <2>2, OrderReply DEF PresenceSend
    <2>3. CASE RoomSubStop \/ PresenceEvent \/ PresenceDone \/ PresenceStop
      BY <2>3, OrderSame DEF RoomSubStop, PresenceEvent, PresenceDone, PresenceStop
    <2> QED BY <1>6, <2>1, <2>2, <2>3 DEF Subscribers
  <1>7. CASE Shutdown
    BY <1>7, OrderSame DEF Shutdown, ShutdownCancel, CloseAll, ShutdownHTTP
  <1>8. CASE UNCHANGED vars
    BY <1>8, OrderSame DEF vars
  <1> QED BY <1>1, <1>2, <1>3, <1>4, <1>5, <1>6, <1>7, <1>8 DEF Next, Step, Finished

(* Events reach every connection in the order in which the hub accepted    *)
(* them and none twice, through full buffers, lost frames, evictions and   *)
(* the frames of other senders: for any number of connections and rooms    *)
(* and any capacities.                                                     *)
THEOREM HubOrderedDelivery == Spec => []OrderedDelivery
  <1>1. Init => OrderInv
    <2> SUFFICES ASSUME Init PROVE OrderInv
      OBVIOUS
    <2>1. Elems(<<>>) = {} /\ Len(<<>>) = 0
      BY DEF Elems
    <2>2. LoopIdle /\ Accepted
      BY <2>1 DEF Init, LoopIdle, Accepted, NoEvent
    <2>3. SentBefore /\ OrderedDelivery
      BY <2>1 DEF Init, SentBefore, OrderedDelivery
    <2> QED BY <2>2, <2>3 DEF OrderInv
  <1>2. OrderInv => OrderedDelivery
    BY DEF OrderInv
  <1> QED BY <1>1, <1>2, OrderStep, TypeCorrect, PTL DEF Spec
=============================================================================
