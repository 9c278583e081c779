--------------------------- MODULE DeliveryProofs ---------------------------
(***************************************************************************)
(* Proofs about the path of a change to the connections: for any number of *)
(* pods, connections and objects, any capacities and bounds, and any       *)
(* faults.                                                                 *)
(***************************************************************************)
EXTENDS Delivery, SequenceTheorems, TLAPS

-----------------------------------------------------------------------------
(* Channels *)

(* A channel that is in order: what is received from it, put into it or    *)
(* left of it.                                                             *)
Increasing(q) == \A i, j \in 1..Len(q) : i < j => q[i] < q[j]

LEMMA EmptyChannel == Elems(<<>>) = {} /\ Increasing(<<>>) /\ <<>> \in Seq(Nat) /\ Len(<<>>) = 0
  BY DEF Elems, Increasing

LEMMA PutInto ==
    ASSUME NEW q \in Seq(Nat), NEW x \in Nat
    PROVE  /\ Append(q, x) \in Seq(Nat) /\ Len(Append(q, x)) = Len(q) + 1 /\ Len(q) \in Nat
           /\ Elems(Append(q, x)) = Elems(q) \cup {x}
           /\ Increasing(q) /\ (\A y \in Elems(q) : y < x) => Increasing(Append(q, x))
<1>1. /\ Append(q, x) \in Seq(Nat) /\ Len(Append(q, x)) = Len(q) + 1 /\ Len(q) \in Nat
      /\ \A i \in 1..Len(q) : Append(q, x)[i] = q[i]
      /\ Append(q, x)[Len(q) + 1] = x
  BY AppendProperties
<1> DEFINE r == Append(q, x)
           n == Len(q)
<1>2. 1..(n + 1) = 1..n \cup {n + 1}
  BY <1>1
<1> HIDE DEF r, n
<1>3. {r[i] : i \in 1..n \cup {n + 1}} = {q[i] : i \in 1..n} \cup {x}
  BY <1>1 DEF r, n
<1>4. Elems(r) = Elems(q) \cup {x}
  BY <1>1, <1>2, <1>3 DEF Elems, r, n
<1>5. ASSUME Increasing(q), \A y \in Elems(q) : y < x PROVE Increasing(r)
  <2> SUFFICES ASSUME NEW i \in 1..Len(r), NEW j \in 1..Len(r), i < j PROVE r[i] < r[j]
    BY DEF Increasing
  <2>1. i \in 1..n /\ r[i] = q[i]
    BY <1>1 DEF r, n
  <2>2. CASE j \in 1..n
    BY <1>1, <1>5, <2>1, <2>2 DEF Increasing, r, n
  <2>3. CASE j = n + 1
    BY <1>1, <1>5, <2>1, <2>3 DEF Elems, r, n
  <2> QED BY <1>1, <2>2, <2>3 DEF r, n
<1> QED BY <1>1, <1>4, <1>5 DEF r

LEMMA TakeFrom ==
    ASSUME NEW q \in Seq(Nat), q # <<>>
    PROVE  /\ Tail(q) \in Seq(Nat) /\ Len(Tail(q)) = Len(q) - 1 /\ Len(q) \in Nat
           /\ Head(q) \in Elems(q) /\ Head(q) \in Nat
           /\ Elems(q) = Elems(Tail(q)) \cup {Head(q)}
           /\ Increasing(q) => Increasing(Tail(q)) /\ \A y \in Elems(Tail(q)) : Head(q) < y
<1>1. /\ Tail(q) \in Seq(Nat) /\ Len(Tail(q)) = Len(q) - 1 /\ Len(q) \in Nat /\ Len(q) >= 1
      /\ \A i \in 1..Len(Tail(q)) : Tail(q)[i] = q[i + 1]
      /\ Head(q) = q[1] /\ Head(q) \in Nat
  <2>1. Len(q) \in Nat /\ Len(q) # 0
    BY EmptySeq, LenProperties
  <2> QED BY <2>1, HeadTailProperties
<1> DEFINE r == Tail(q)
           n == Len(q)
<1> HIDE DEF r, n
<1>2. ASSUME NEW y PROVE y \in Elems(q) <=> y \in Elems(r) \/ y = q[1]
  <2>1. ASSUME y \in Elems(q) PROVE y \in Elems(r) \/ y = q[1]
    <3>1. PICK i \in 1..n : y = q[i]
      BY <2>1 DEF Elems, n
    <3>2. CASE i = 1
      BY <3>1, <3>2
    <3>3. CASE i # 1
      <4>1. i - 1 \in 1..Len(r) /\ r[i - 1] = q[(i - 1) + 1] /\ (i - 1) + 1 = i
        BY <1>1, <3>3 DEF r, n
      <4> QED BY <3>1, <4>1 DEF Elems
    <3> QED BY <3>2, <3>3
  <2>2. ASSUME y \in Elems(r) PROVE y \in Elems(q)
    <3>1. PICK i \in 1..Len(r) : y = r[i]
      BY <2>2 DEF Elems
    <3>2. i + 1 \in 1..n /\ y = q[i + 1]
      BY <1>1, <3>1 DEF r, n
    <3> QED BY <3>2 DEF Elems, n
  <2>3. q[1] \in Elems(q)
    BY <1>1 DEF Elems
  <2> QED BY <2>1, <2>2, <2>3
<1>3. Elems(q) = Elems(r) \cup {q[1]}
  BY <1>2
<1>4. ASSUME Increasing(q) PROVE Increasing(r) /\ \A y \in Elems(r) : q[1] < y
  <2>1. ASSUME NEW i \in 1..Len(r), NEW j \in 1..Len(r), i < j PROVE r[i] < r[j]
    <3>1. /\ i + 1 \in 1..n /\ j + 1 \in 1..n /\ i + 1 < j + 1
          /\ r[i] = q[i + 1] /\ r[j] = q[j + 1]
      BY <1>1, <2>1 DEF r, n
    <3> QED BY <1>4, <3>1 DEF Increasing, n
  <2>2. ASSUME NEW y \in Elems(r) PROVE q[1] < y
    <3>1. PICK i \in 1..Len(r) : y = r[i]
      BY DEF Elems
    <3>2. 1 \in 1..n /\ i + 1 \in 1..n /\ 1 < i + 1 /\ y = q[i + 1]
      BY <1>1, <3>1 DEF r, n
    <3> QED BY <1>4, <3>2 DEF Increasing, n
  <2> QED BY <2>1, <2>2 DEF Increasing
<1> QED BY <1>1, <1>3, <1>4 DEF r

LEMMA CutAt ==
    ASSUME NEW q \in Seq(Nat), NEW n \in 0..Len(q)
    PROVE  /\ SubSeq(q, 1, n) \in Seq(Nat)
           /\ Elems(SubSeq(q, 1, n)) \subseteq Elems(q)
           /\ Elems(q) \subseteq Elems(SubSeq(q, 1, n)) \cup Elems(SubSeq(q, n + 1, Len(q)))
           /\ Increasing(q) => Increasing(SubSeq(q, 1, n))
<1> DEFINE m == Len(q)
           r == SubSeq(q, 1, n)
           s == SubSeq(q, n + 1, m)
<1>0. m \in Nat /\ n \in Nat /\ n <= m
  BY LenProperties
<1>1. r \in Seq(Nat) /\ Len(r) = n /\ \A i \in 1..n : r[i] = q[i]
  <2>1. /\ SubSeq(q, 1, n) \in Seq(Nat)
        /\ Len(SubSeq(q, 1, n)) = IF 1 <= n THEN n - 1 + 1 ELSE 0
        /\ \A i \in 1..(n - 1 + 1) : SubSeq(q, 1, n)[i] = q[1 + i - 1]
    BY <1>0, SubSeqProperties
  <2> QED BY <1>0, <2>1
<1>2. Len(s) = m - n /\ \A i \in 1..(m - n) : s[i] = q[n + i]
  <2>1. /\ Len(SubSeq(q, n + 1, m)) = IF n + 1 <= m THEN m - (n + 1) + 1 ELSE 0
        /\ \A i \in 1..(m - (n + 1) + 1) : SubSeq(q, n + 1, m)[i] = q[n + 1 + i - 1]
    BY <1>0, SubSeqProperties
  <2> QED BY <1>0, <2>1
<1> HIDE DEF m, r, s
<1>3. Elems(r) \subseteq Elems(q)
  BY <1>0, <1>1 DEF Elems, m
<1>4. ASSUME NEW y \in Elems(q) PROVE y \in Elems(r) \cup Elems(s)
  <2>1. PICK i \in 1..m : y = q[i]
    BY DEF Elems, m
  <2>2. CASE i <= n
    BY <1>0, <1>1, <2>1, <2>2 DEF Elems
  <2>3. CASE i > n
    <3>1. i - n \in 1..(m - n) /\ n + (i - n) = i
      BY <1>0, <2>3
    <3>2. s[i - n] = y
      BY <1>2, <2>1, <3>1
    <3> QED BY <1>2, <3>1, <3>2 DEF Elems
  <2> QED BY <1>0, <2>2, <2>3
<1>5. ASSUME Increasing(q) PROVE Increasing(r)
  <2> SUFFICES ASSUME NEW i \in 1..Len(r), NEW j \in 1..Len(r), i < j PROVE r[i] < r[j]
    BY DEF Increasing
  <2>1. i \in 1..m /\ j \in 1..m /\ r[i] = q[i] /\ r[j] = q[j]
    BY <1>0, <1>1
  <2> QED BY <1>5, <2>1 DEF Increasing, m
<1> QED BY <1>1, <1>3, <1>4, <1>5 DEF m, r, s

-----------------------------------------------------------------------------
(* Types *)

LEMMA Constants ==
    /\ \A p \in Pods, t \in Topics : <<p, t>> \in Subs /\ <<p, t>>[1] = p /\ <<p, t>>[2] = t
    /\ \A s \in Subs : s[1] \in Pods /\ s[2] \in Topics /\ s = <<s[1], s[2]>>
    /\ \A c \in Conns : PodOf[c] \in Pods
    /\ "room" \in Topics /\ "presence" \in Topics /\ \A e : TopicOf(e) \in Topics
    /\ \A p : On(p) \subseteq Conns
    /\ \A I : About(I) \subseteq Objects
  BY DeliveryAssumption DEF Subs, Topics, TopicOf, On, About

LEMMA TypeInit == Init => TypeOK
  BY DeliveryAssumption, EmptyChannel, Constants DEF Init, TypeOK

(* A request writes.                                                       *)
LEMMA TypeWrite ==
    ASSUME TypeOK, NEW kind, NEW o \in Objects \cup {NoObject}, Write(kind, o),
           kind \in {"edited", "deleted", "joined", "left", "presence"},
           stored' \in [Objects -> 0..MaxWrites], deleted' \subseteq Messages,
           members' \subseteq Conns, unsure' \subseteq Conns \X Objects
    PROVE  TypeOK'
<1>1. writes' \in 0..MaxWrites /\ writes + 1 \in 1..MaxWrites
  BY DeliveryAssumption DEF TypeOK, Write
<1>2. pending' \subseteq Event
  BY <1>1 DEF TypeOK, Write, Event
<1> QED BY <1>1, <1>2 DEF TypeOK, Write, pods, peers

LEMMA TypeRequests == TypeOK /\ Requests => TypeOK'
<1> SUFFICES ASSUME TypeOK, Requests PROVE TypeOK'
  OBVIOUS
<1>0. ASSUME writes < MaxWrites PROVE writes + 1 \in 0..MaxWrites
  BY <1>0, DeliveryAssumption DEF TypeOK
<1>1. ASSUME NEW m \in Messages, WriteMessage(m) PROVE TypeOK'
  <2>1. /\ stored' \in [Objects -> 0..MaxWrites] /\ deleted' \subseteq Messages
        /\ members' \subseteq Conns /\ unsure' \subseteq Conns \X Objects
    BY <1>0, <1>1 DEF TypeOK, WriteMessage, Write, Objects
  <2> QED BY <1>1, <2>1, TypeWrite DEF WriteMessage, Objects
<1>2. ASSUME NEW m \in Messages, DeleteMessage(m) PROVE TypeOK'
  <2>1. /\ stored' \in [Objects -> 0..MaxWrites] /\ deleted' \subseteq Messages
        /\ members' \subseteq Conns /\ unsure' \subseteq Conns \X Objects
    BY <1>2, DeliveryAssumption DEF TypeOK, DeleteMessage, Objects
  <2> QED BY <1>2, <2>1, TypeWrite DEF DeleteMessage, Objects
<1>3. ASSUME NEW u \in Presences, SetPresence(u) PROVE TypeOK'
  <2>1. /\ stored' \in [Objects -> 0..MaxWrites] /\ deleted' \subseteq Messages
        /\ members' \subseteq Conns /\ unsure' \subseteq Conns \X Objects
    BY <1>0, <1>3 DEF TypeOK, SetPresence, Write, Objects
  <2> QED BY <1>3, <2>1, TypeWrite DEF SetPresence, Objects
<1>4. ASSUME NEW u \in Presences, PresenceExpires(u) PROVE TypeOK'
  <2>1. stored' \in [Objects -> 0..MaxWrites] /\ unsure' \subseteq Conns \X Objects
    BY <1>4, DeliveryAssumption DEF TypeOK, PresenceExpires, Objects
  <2> QED BY <1>4, <2>1 DEF TypeOK, PresenceExpires, pods, peers
<1>5. ASSUME NEW c \in Conns, JoinRoom(c) PROVE TypeOK'
  BY <1>5, TypeWrite DEF JoinRoom, TypeOK
<1>6. ASSUME NEW c \in Conns, LeaveRoom(c) PROVE TypeOK'
  BY <1>6, TypeWrite DEF LeaveRoom, TypeOK
<1>7. ASSUME NEW e \in pending, Publish(e) PROVE TypeOK'
  <2>1. e \in Event /\ Len(log) \in Nat /\ log' \in Seq(Event) /\ Len(log') = Len(log) + 1
    BY <1>7, LenProperties, AppendProperties DEF TypeOK, Publish
  <2>2. chan' \in [Subs -> Seq(Nat)] /\ \A s \in Subs : Elems(chan'[s]) \subseteq 1..Len(log')
    <3> SUFFICES ASSUME NEW s \in Subs
                 PROVE  chan'[s] \in Seq(Nat) /\ Elems(chan'[s]) \subseteq 1..Len(log')
      BY <1>7 DEF Publish
    <3>1. chan[s] \in Seq(Nat) /\ Elems(chan[s]) \subseteq 1..Len(log)
      BY DEF TypeOK
    <3>2. CASE chan'[s] = chan[s]
      BY <2>1, <3>1, <3>2
    <3>3. CASE chan'[s] = Append(chan[s], Len(log) + 1)
      BY <2>1, <3>1, <3>3, PutInto
    <3> QED BY <1>7, <3>2, <3>3 DEF Publish
  <2>3. \A p \in Pods : Elems(broadcastQ[p]) \subseteq 1..Len(log')
    BY <2>1 DEF TypeOK
  <2>4. last \in [Conns -> [Topics -> 0..Len(log')]]
    BY <2>1 DEF TypeOK
  <2>5. unsure' \subseteq Conns \X Objects
    BY <1>7 DEF TypeOK, Publish
  <2> QED BY <1>7, <2>1, <2>2, <2>3, <2>4, <2>5 DEF TypeOK, Publish, peers
<1>8. ASSUME NEW e \in pending, PublishFails(e) PROVE TypeOK'
  <2>1. unsure' \subseteq Conns \X Objects /\ faults' \in 0..MaxFaults
    BY <1>8, DeliveryAssumption DEF TypeOK, PublishFails, Fault
  <2> QED BY <1>8, <2>1 DEF TypeOK, PublishFails, pods, peers
<1>9. ASSUME NEW m \in Messages, React(m) PROVE TypeOK'
  <2>1. writes' \in 0..MaxWrites /\ stored' \in [Objects -> 0..MaxWrites] /\ unsure' \subseteq Conns \X Objects
    BY <1>0, <1>9 DEF TypeOK, React, Objects
  <2> QED BY <1>9, <2>1 DEF TypeOK, React, pods, peers
<1> QED BY <1>1, <1>2, <1>3, <1>4, <1>5, <1>6, <1>7, <1>8, <1>9 DEF Requests

(* The channel of a subscription is cut down.                              *)
LEMMA TypeCut ==
    ASSUME TypeOK, NEW s \in Subs, NEW q \in Seq(Nat), Elems(q) \subseteq Elems(chan[s])
    PROVE  /\ [chan EXCEPT ![s] = q] \in [Subs -> Seq(Nat)]
           /\ \A r \in Subs : Elems([chan EXCEPT ![s] = q][r]) \subseteq 1..Len(log)
  BY DEF TypeOK

LEMMA TypeSubscribers == ASSUME TypeOK, NEW s \in Subs, SubscriberLoop(s) PROVE TypeOK'
<1>1. CASE Subscribe(s)
  <2>1. 1 \in 1..MaxBackoff
    BY DeliveryAssumption
  <2> QED BY <1>1, <2>1 DEF TypeOK, Subscribe, store, peers
<1>2. CASE SubscribeFails(s)
  <2>1. faults' \in 0..MaxFaults
    BY <1>2, DeliveryAssumption DEF TypeOK, SubscribeFails, Fault
  <2> QED BY <1>2, <2>1 DEF TypeOK, SubscribeFails, store, peers
<1>3. CASE BackoffElapses(s)
  <2>1. (IF 2 * backoff[s] > MaxBackoff THEN MaxBackoff ELSE 2 * backoff[s]) \in 1..MaxBackoff
    BY DeliveryAssumption DEF TypeOK
  <2> QED BY <1>3, <2>1 DEF TypeOK, BackoffElapses, store, peers
<1>4. CASE ConnectionLost(s)
  <2>1. PICK n \in 0..Len(chan[s]), to \in {"cut", "closed"} :
            /\ sub' = [sub EXCEPT ![s] = to]
            /\ chan' = [chan EXCEPT ![s] = SubSeq(@, 1, n)]
            /\ unsure' = unsure \cup (On(s[1]) \X About(Elems(SubSeq(chan[s], n + 1, Len(chan[s])))))
    BY <1>4 DEF ConnectionLost
  <2>2. SubSeq(chan[s], 1, n) \in Seq(Nat) /\ Elems(SubSeq(chan[s], 1, n)) \subseteq Elems(chan[s])
    BY CutAt DEF TypeOK
  <2>3. chan' \in [Subs -> Seq(Nat)] /\ \A r \in Subs : Elems(chan'[r]) \subseteq 1..Len(log)
    BY <2>1, <2>2, TypeCut
  <2>4. unsure' \subseteq Conns \X Objects
    BY <2>1, Constants DEF TypeOK
  <2>5. faults' \in 0..MaxFaults
    BY <1>4, DeliveryAssumption DEF TypeOK, ConnectionLost, Fault
  <2> QED BY <1>4, <2>1, <2>3, <2>4, <2>5 DEF TypeOK, ConnectionLost, store, peers
<1>5. CASE Reconnected(s)
  BY <1>5 DEF TypeOK, Reconnected, store, peers
<1>6. CASE ChannelClosed(s)
  BY <1>6 DEF TypeOK, ChannelClosed, store, peers
<1>7. CASE StopSubscriber(s)
  <2>1. chan' \in [Subs -> Seq(Nat)] /\ \A r \in Subs : Elems(chan'[r]) \subseteq 1..Len(log)
    BY <1>7, EmptyChannel, TypeCut DEF StopSubscriber
  <2>2. unsure' \subseteq Conns \X Objects
    BY <1>7, Constants DEF TypeOK, StopSubscriber
  <2> QED BY <1>7, <2>1, <2>2 DEF TypeOK, StopSubscriber, store, peers
<1> QED BY <1>1, <1>2, <1>3, <1>4, <1>5, <1>6, <1>7 DEF SubscriberLoop

(* A publication is given to connections.                                  *)
LEMMA TypeGive ==
    ASSUME TypeOK, NEW S, NEW i \in 1..Len(log), Give(S, i)
    PROVE  /\ last' \in [Conns -> [Topics -> 0..Len(log)]]
           /\ shown' \in [Conns -> [Objects -> 0..MaxWrites]]
<1>0. log \in Seq(Event) /\ Len(log) \in Nat
  BY LenProperties DEF TypeOK
<1>1. log[i] \in Event /\ i \in 0..Len(log) /\ log[i].ver \in 0..MaxWrites
  <2>1. log[i] \in Event
    BY <1>0, ElementOfSeq
  <2> QED BY <1>0, <2>1, DeliveryAssumption DEF Event
<1>2. last' \in [Conns -> [Topics -> 0..Len(log)]]
  BY <1>1 DEF TypeOK, Give
<1>3. shown' \in [Conns -> [Objects -> 0..MaxWrites]]
  BY <1>1 DEF TypeOK, Give
<1> QED BY <1>2, <1>3

LEMMA TypePod ==
    ASSUME TypeOK, NEW p \in Pods,
           Cancel(p) \/ ReceiveRoomEvent(p) \/ ReceivePresence(p) \/ Fanout(p)
    PROVE  TypeOK'
<1>0. /\ <<p, "room">> \in Subs /\ <<p, "presence">> \in Subs
      /\ BroadcastCap \in Nat /\ MaxFaults \in Nat
  BY Constants, DeliveryAssumption
<1>1. CASE Cancel(p)
  <2>1. faults' \in 0..MaxFaults
    BY <1>0, <1>1 DEF TypeOK, Cancel, Fault
  <2> QED BY <1>1, <2>1 DEF TypeOK, Cancel, store, peers
<1>2. CASE ReceiveRoomEvent(p)
  <2> DEFINE s == <<p, "room">>
             q == chan[s]
  <2>1. q \in Seq(Nat) /\ q # <<>> /\ Elems(q) \subseteq 1..Len(log) /\ s \in Subs
    BY <1>0, <1>2 DEF TypeOK, ReceiveRoomEvent, Reading
  <2>2. chan' = [chan EXCEPT ![s] = Tail(q)]
    BY <1>2 DEF ReceiveRoomEvent
  <2>3. \/ /\ broadcastQ' = [broadcastQ EXCEPT ![p] = Append(broadcastQ[p], Head(q))]
           /\ Len(broadcastQ[p]) < BroadcastCap /\ unsure' = unsure
        \/ unsure' = unsure \cup (On(p) \X About({Head(q)})) /\ broadcastQ' = broadcastQ
    BY <1>2 DEF ReceiveRoomEvent
  <2> HIDE DEF s, q
  <2>4. Tail(q) \in Seq(Nat) /\ Elems(Tail(q)) \subseteq Elems(q) /\ Head(q) \in Elems(q) /\ Head(q) \in Nat
    BY <2>1, TakeFrom
  <2>5. chan' \in [Subs -> Seq(Nat)] /\ \A r \in Subs : Elems(chan'[r]) \subseteq 1..Len(log)
    BY <2>1, <2>2, <2>4, TypeCut DEF q
  <2>6. broadcastQ[p] \in Seq(Nat) /\ Elems(broadcastQ[p]) \subseteq 1..Len(log)
    BY DEF TypeOK
  <2>7. /\ Append(broadcastQ[p], Head(q)) \in Seq(Nat)
        /\ Elems(Append(broadcastQ[p], Head(q))) \subseteq 1..Len(log)
        /\ Len(Append(broadcastQ[p], Head(q))) = Len(broadcastQ[p]) + 1 /\ Len(broadcastQ[p]) \in Nat
    BY <2>1, <2>4, <2>6, PutInto
  <2>8. /\ broadcastQ' \in [Pods -> Seq(Nat)]
        /\ \A r \in Pods : Elems(broadcastQ'[r]) \subseteq 1..Len(log) /\ Len(broadcastQ'[r]) <= BroadcastCap
    <3>1. Len(broadcastQ[p]) + 1 <= BroadcastCap \/ broadcastQ' = broadcastQ
      BY <1>0, <2>3, <2>7
    <3> QED BY <2>3, <2>7, <3>1 DEF TypeOK
  <2>9. unsure' \subseteq Conns \X Objects
    BY <2>3, Constants DEF TypeOK
  <2> QED BY <1>2, <2>5, <2>8, <2>9 DEF TypeOK, ReceiveRoomEvent, store, peers
<1>3. CASE ReceivePresence(p)
  <2> DEFINE s == <<p, "presence">>
             q == chan[s]
             T == Connected \cap On(p)
  <2>1. q \in Seq(Nat) /\ q # <<>> /\ Elems(q) \subseteq 1..Len(log) /\ s \in Subs
    BY <1>0, <1>3 DEF TypeOK, ReceivePresence, Reading
  <2>2. chan' = [chan EXCEPT ![s] = Tail(q)]
    BY <1>3 DEF ReceivePresence
  <2>3. PICK M \in SUBSET T :
            /\ IF M = {} THEN UNCHANGED faults ELSE Fault
            /\ Give(T \ M, Head(q))
            /\ unsure' = (unsure \ Settled(T \ M, Head(q), p)) \cup (M \X About({Head(q)}))
    BY <1>3 DEF ReceivePresence
  <2>4. T \subseteq Conns
    BY DEF Connected
  <2> HIDE DEF s, q, T
  <2>5. Tail(q) \in Seq(Nat) /\ Elems(Tail(q)) \subseteq Elems(q) /\ Head(q) \in 1..Len(log)
    BY <2>1, TakeFrom
  <2>6. chan' \in [Subs -> Seq(Nat)] /\ \A r \in Subs : Elems(chan'[r]) \subseteq 1..Len(log)
    BY <2>1, <2>2, <2>5, TypeCut DEF q
  <2>7. /\ last' \in [Conns -> [Topics -> 0..Len(log)]]
        /\ shown' \in [Conns -> [Objects -> 0..MaxWrites]]
    BY <2>3, <2>5, TypeGive
  <2>8. unsure' \subseteq Conns \X Objects
    BY <2>3, <2>4, Constants DEF TypeOK
  <2>9. faults' \in 0..MaxFaults
    BY <1>0, <2>3 DEF TypeOK, Fault
  <2> QED BY <1>3, <2>6, <2>7, <2>8, <2>9 DEF TypeOK, ReceivePresence, store
<1>4. CASE Fanout(p)
  <2> DEFINE q == broadcastQ[p]
             T == Subscribed \cap On(p)
  <2>1. q \in Seq(Nat) /\ q # <<>> /\ Elems(q) \subseteq 1..Len(log) /\ Len(q) <= BroadcastCap
    BY <1>4 DEF TypeOK, Fanout
  <2>2. broadcastQ' = [broadcastQ EXCEPT ![p] = Tail(q)]
    BY <1>4 DEF Fanout
  <2>3. PICK M \in SUBSET T :
            /\ IF M = {} THEN UNCHANGED faults ELSE Fault
            /\ Give(T \ M, Head(q))
            /\ conn' = [c \in Conns |-> IF c \in M THEN "off" ELSE conn[c]]
            /\ unsure' = (unsure \ Settled(T \ M, Head(q), p)) \cup (M \X Objects)
    BY <1>4 DEF Fanout
  <2>4. T \subseteq Conns
    BY DEF Subscribed
  <2> HIDE DEF q, T
  <2>5. /\ Tail(q) \in Seq(Nat) /\ Elems(Tail(q)) \subseteq Elems(q) /\ Head(q) \in 1..Len(log)
        /\ Len(Tail(q)) <= BroadcastCap
    BY <1>0, <2>1, TakeFrom
  <2>6. /\ broadcastQ' \in [Pods -> Seq(Nat)]
        /\ \A r \in Pods : Elems(broadcastQ'[r]) \subseteq 1..Len(log) /\ Len(broadcastQ'[r]) <= BroadcastCap
    BY <2>1, <2>2, <2>5 DEF TypeOK
  <2>7. /\ last' \in [Conns -> [Topics -> 0..Len(log)]]
        /\ shown' \in [Conns -> [Objects -> 0..MaxWrites]]
    BY <2>3, <2>5, TypeGive
  <2>8. unsure' \subseteq Conns \X Objects
    BY <2>3, <2>4 DEF TypeOK
  <2>9. faults' \in 0..MaxFaults /\ conn' \in [Conns -> {"new", "on", "checked", "subscribed", "off"}]
    BY <1>0, <2>3 DEF TypeOK, Fault
  <2> QED BY <1>4, <2>6, <2>7, <2>8, <2>9 DEF TypeOK, Fanout, store
<1> QED BY <1>1, <1>2, <1>3, <1>4

LEMMA TypePeer == ASSUME TypeOK, NEW c \in Conns, Peer(c) PROVE TypeOK'
<1>1. CASE Connect(c) \/ CheckMembership(c) \/ SubscribeToRoom(c)
  BY <1>1 DEF TypeOK, Connect, CheckMembership, SubscribeToRoom, store, pods
<1>2. CASE UnsubscribeFromRoom(c) \/ Disconnect(c)
  <2>1. unsure' \subseteq Conns \X Objects
    BY <1>2 DEF TypeOK, UnsubscribeFromRoom, Disconnect, Objects
  <2> QED BY <1>2, <2>1 DEF TypeOK, UnsubscribeFromRoom, Disconnect, store, pods
<1>3. CASE GetRoomMessages(c)
  <2>1. shown' \in [Conns -> [Objects -> 0..MaxWrites]] /\ unsure' \subseteq Conns \X Objects
    BY <1>3 DEF TypeOK, GetRoomMessages, Objects
  <2> QED BY <1>3, <2>1 DEF TypeOK, GetRoomMessages, store, pods
<1> QED BY <1>1, <1>2, <1>3 DEF Peer

LEMMA TypeStep == TypeOK /\ [Next]_vars => TypeOK'
<1> SUFFICES ASSUME TypeOK, [Next]_vars PROVE TypeOK'
  OBVIOUS
<1>1. CASE UNCHANGED vars
  BY <1>1 DEF TypeOK, vars, store, pods, peers
<1> QED BY <1>1, TypeRequests, TypeSubscribers, TypePod, TypePeer DEF Next

(* Channels hold only what was published, no broadcast channel exceeds its *)
(* capacity and no counter its bound, whatever Redis, the pods and the     *)
(* connections do.                                                         *)
THEOREM TypeCorrect == Spec => []TypeOK
  BY TypeInit, TypeStep, PTL DEF Spec

-----------------------------------------------------------------------------
(* Order.  What is on its way to a connection is in Redis's order and      *)
(* after what the connection was given.                                    *)
ChanOrder ==
    \A s \in Subs : /\ Increasing(chan[s])
                    /\ \A i \in Elems(chan[s]) : TopicOf(log[i]) = s[2]
QueueOrder ==
    \A p \in Pods : /\ Increasing(broadcastQ[p])
                    /\ \A i \in Elems(broadcastQ[p]) :
                         /\ TopicOf(log[i]) = "room"
                         /\ \A j \in Elems(chan[<<p, "room">>]) : i < j
LastOrder ==
    \A c \in Conns :
        /\ \A i \in Elems(broadcastQ[PodOf[c]]) : last[c]["room"] < i
        /\ \A t \in Topics : \A i \in Elems(chan[<<PodOf[c], t>>]) : last[c][t] < i
OrderInv == ChanOrder /\ QueueOrder /\ LastOrder

LEMMA OrderInit == Init => OrderInv
  BY EmptyChannel, Constants DEF Init, OrderInv, ChanOrder, QueueOrder, LastOrder

(* Less is on its way, and it is where it was.                             *)
LEMMA OrderLess ==
    ASSUME OrderInv, log' = log, last' = last,
           \A s \in Subs : Increasing(chan'[s]) /\ Elems(chan'[s]) \subseteq Elems(chan[s]),
           \A p \in Pods : Increasing(broadcastQ'[p]) /\ Elems(broadcastQ'[p]) \subseteq Elems(broadcastQ[p])
    PROVE  OrderInv'
<1>1. ChanOrder'
  BY DEF OrderInv, ChanOrder
<1>2. QueueOrder'
  BY Constants DEF OrderInv, QueueOrder
<1>3. LastOrder'
  BY Constants DEF OrderInv, LastOrder
<1> QED BY <1>1, <1>2, <1>3 DEF OrderInv

LEMMA OrderKept ==
    ASSUME OrderInv, UNCHANGED <<log, chan, broadcastQ, last>> PROVE OrderInv'
  BY OrderLess DEF OrderInv, ChanOrder, QueueOrder

LEMMA OrderCut ==
    ASSUME OrderInv, TypeOK, NEW s \in Subs, NEW q, Increasing(q), Elems(q) \subseteq Elems(chan[s]),
           chan' = [chan EXCEPT ![s] = q], UNCHANGED <<log, broadcastQ, last>>
    PROVE  OrderInv'
<1>1. \A r \in Subs : Increasing(chan'[r]) /\ Elems(chan'[r]) \subseteq Elems(chan[r])
  BY DEF OrderInv, ChanOrder, TypeOK
<1> QED BY <1>1, OrderLess DEF OrderInv, QueueOrder

(* Redis appends to its log, and to the channels of the topic.             *)
LEMMA OrderPublish ==
    ASSUME OrderInv, TypeOK, NEW e \in pending, Publish(e) PROVE OrderInv'
<1> DEFINE n == Len(log) + 1
<1>1. /\ n \in Nat /\ \A i \in 1..Len(log) : i < n /\ i \in Nat
      /\ \A i \in 1..Len(log) : log'[i] = log[i]
      /\ log'[n] = e
  <2>1. log \in Seq(Event) /\ e \in Event /\ Len(log) \in Nat
    BY LenProperties DEF TypeOK
  <2> QED BY <2>1, AppendProperties DEF Publish
<1>2. UNCHANGED <<broadcastQ, last>>
  BY DEF Publish, peers
<1>3. \A p \in Pods : \A i \in Elems(broadcastQ[p]) : i < n /\ log'[i] = log[i]
  BY <1>1 DEF TypeOK
<1>4. ASSUME NEW s \in Subs
      PROVE  /\ chan[s] \in Seq(Nat) /\ \A i \in Elems(chan[s]) : i < n /\ log'[i] = log[i]
             /\ chan'[s] = chan[s] \/ (s[2] = TopicOf(e) /\ chan'[s] = Append(chan[s], n))
  <2>1. chan[s] \in Seq(Nat) /\ \A i \in Elems(chan[s]) : i < n /\ log'[i] = log[i]
    BY <1>1 DEF TypeOK
  <2>2. chan'[s] = chan[s] \/ (s[2] = TopicOf(e) /\ chan'[s] = Append(chan[s], n))
    BY DEF Publish
  <2> QED BY <2>1, <2>2
<1>5. \A c \in Conns, t \in Topics : last[c][t] < n
  BY <1>1 DEF TypeOK
<1> HIDE DEF n
<1>6. ASSUME NEW s \in Subs
      PROVE  /\ Increasing(chan'[s]) /\ \A i \in Elems(chan'[s]) : TopicOf(log'[i]) = s[2]
             /\ \A i \in Elems(chan'[s]) : i \in Elems(chan[s]) \/ i = n
  <2>1. Increasing(chan[s]) /\ \A i \in Elems(chan[s]) : TopicOf(log[i]) = s[2]
    BY DEF OrderInv, ChanOrder
  <2>2. CASE chan'[s] = chan[s]
    BY <1>4, <2>1, <2>2
  <2>3. CASE s[2] = TopicOf(e) /\ chan'[s] = Append(chan[s], n)
    BY <1>1, <1>4, <2>1, <2>3, PutInto
  <2> QED BY <1>4, <2>2, <2>3
<1>7. ChanOrder'
  BY <1>6 DEF ChanOrder
<1>8. QueueOrder'
  <2> SUFFICES ASSUME NEW p \in Pods
               PROVE  /\ Increasing(broadcastQ[p])
                      /\ \A i \in Elems(broadcastQ[p]) :
                           /\ TopicOf(log'[i]) = "room"
                           /\ \A j \in Elems(chan'[<<p, "room">>]) : i < j
    BY <1>2 DEF QueueOrder
  <2>1. <<p, "room">> \in Subs
    BY Constants
  <2> QED BY <1>3, <1>6, <2>1 DEF OrderInv, QueueOrder
<1>9. LastOrder'
  <2>1. \A c \in Conns, t \in Topics : <<PodOf[c], t>> \in Subs
    BY Constants
  <2> QED BY <1>2, <1>5, <1>6, <2>1 DEF OrderInv, LastOrder
<1> QED BY <1>7, <1>8, <1>9 DEF OrderInv

(* The order on a pod, as the actions of the pod disturb it.               *)
LEMMA OrderReceive ==
    ASSUME OrderInv, TypeOK, NEW p \in Pods, ReceiveRoomEvent(p) PROVE OrderInv'
<1> DEFINE s == <<p, "room">>
           q == chan[s]
           b == broadcastQ[p]
<1>1. /\ q \in Seq(Nat) /\ q # <<>> /\ s \in Subs /\ s[1] = p /\ s[2] = "room" /\ b \in Seq(Nat)
  BY Constants DEF TypeOK, ReceiveRoomEvent, Reading
<1>2. /\ chan' = [chan EXCEPT ![s] = Tail(q)]
      /\ broadcastQ' = broadcastQ \/ broadcastQ' = [broadcastQ EXCEPT ![p] = Append(b, Head(q))]
      /\ UNCHANGED <<log, last>>
  BY DEF ReceiveRoomEvent, store, peers
<1>3. /\ Increasing(q) /\ Increasing(b)
      /\ \A i \in Elems(q) : TopicOf(log[i]) = "room"
      /\ \A i \in Elems(b), j \in Elems(q) : i < j
  BY <1>1 DEF OrderInv, ChanOrder, QueueOrder
<1>4. ASSUME NEW c \in Conns, PodOf[c] = p
      PROVE  \A i \in Elems(q) : last[c]["room"] < i
  BY <1>4, Constants DEF OrderInv, LastOrder
<1> HIDE DEF s, q, b
<1>5. /\ Head(q) \in Nat /\ Head(q) \in Elems(q) /\ Increasing(Tail(q))
      /\ Elems(Tail(q)) \subseteq Elems(q) /\ \A y \in Elems(Tail(q)) : Head(q) < y
  BY <1>1, <1>3, TakeFrom
<1>6. CASE broadcastQ' = broadcastQ
  BY <1>1, <1>2, <1>5, <1>6, OrderCut DEF q
<1>7. CASE broadcastQ' = [broadcastQ EXCEPT ![p] = Append(b, Head(q))]
  <2>1. Increasing(Append(b, Head(q))) /\ Elems(Append(b, Head(q))) = Elems(b) \cup {Head(q)}
    BY <1>1, <1>3, <1>5, PutInto
  <2>2. /\ \A r \in Subs : Increasing(chan'[r]) /\ Elems(chan'[r]) \subseteq Elems(chan[r])
        /\ chan'[s] = Tail(q)
    BY <1>1, <1>2, <1>5 DEF OrderInv, ChanOrder, TypeOK, q
  <2>3. /\ \A r \in Pods : r # p => broadcastQ'[r] = broadcastQ[r]
        /\ broadcastQ'[p] = Append(b, Head(q))
    BY <1>7 DEF TypeOK
  <2>4. ChanOrder'
    BY <1>2, <2>2 DEF OrderInv, ChanOrder
  <2>5. QueueOrder'
    <3> SUFFICES ASSUME NEW r \in Pods
                 PROVE  /\ Increasing(broadcastQ'[r])
                        /\ \A i \in Elems(broadcastQ'[r]) :
                             /\ TopicOf(log[i]) = "room"
                             /\ \A j \in Elems(chan'[<<r, "room">>]) : i < j
      BY <1>2 DEF QueueOrder
    <3>1. CASE r = p
      <4>1. \A i \in Elems(b) : TopicOf(log[i]) = "room"
        BY DEF OrderInv, QueueOrder, b
      <4>2. \A i \in Elems(b) \cup {Head(q)} :
              TopicOf(log[i]) = "room" /\ \A j \in Elems(Tail(q)) : i < j
        BY <1>3, <1>5, <4>1
      <4> QED BY <2>1, <2>2, <2>3, <3>1, <4>2 DEF s
    <3>2. CASE r # p
      <4>1. <<r, "room">> \in Subs
        BY Constants
      <4> QED BY <2>2, <2>3, <3>2, <4>1 DEF OrderInv, QueueOrder
    <3> QED BY <3>1, <3>2
  <2>6. LastOrder'
    <3> SUFFICES ASSUME NEW c \in Conns
                 PROVE  /\ \A i \in Elems(broadcastQ'[PodOf[c]]) : last[c]["room"] < i
                        /\ \A t \in Topics : \A i \in Elems(chan'[<<PodOf[c], t>>]) : last[c][t] < i
      BY <1>2 DEF LastOrder
    <3>1. \A t \in Topics : \A i \in Elems(chan'[<<PodOf[c], t>>]) : last[c][t] < i
      BY <2>2, Constants DEF OrderInv, LastOrder
    <3>2. CASE PodOf[c] = p
      BY <1>4, <1>5, <2>1, <2>3, <3>1, <3>2 DEF OrderInv, LastOrder, b
    <3>3. CASE PodOf[c] # p
      BY <2>3, <3>1, <3>3, Constants DEF OrderInv, LastOrder
    <3> QED BY <3>2, <3>3
  <2> QED BY <2>4, <2>5, <2>6 DEF OrderInv
<1> QED BY <1>2, <1>6, <1>7

(* A connection is given the publication that is next on its way.          *)
LEMMA OrderGive ==
    ASSUME OrderInv, TypeOK, NEW S, NEW i, Give(S, i), NEW p \in Pods, S \subseteq On(p), log' = log,
           \A s \in Subs : Increasing(chan'[s]) /\ Elems(chan'[s]) \subseteq Elems(chan[s]),
           \A r \in Pods : /\ Increasing(broadcastQ'[r])
                           /\ Elems(broadcastQ'[r]) \subseteq Elems(broadcastQ[r]),
           \A j \in Elems(chan'[<<p, TopicOf(log[i])>>]) : i < j,
           TopicOf(log[i]) = "room" => \A j \in Elems(broadcastQ'[p]) : i < j
    PROVE  OrderInv'
<1>1. ChanOrder'
  BY DEF OrderInv, ChanOrder
<1>2. QueueOrder'
  BY Constants DEF OrderInv, QueueOrder
<1>3. LastOrder'
  <2> SUFFICES ASSUME NEW c \in Conns
               PROVE  /\ \A j \in Elems(broadcastQ'[PodOf[c]]) : last'[c]["room"] < j
                      /\ \A t \in Topics : \A j \in Elems(chan'[<<PodOf[c], t>>]) : last'[c][t] < j
    BY DEF LastOrder
  <2>1. /\ \A j \in Elems(broadcastQ'[PodOf[c]]) : last[c]["room"] < j
        /\ \A t \in Topics : \A j \in Elems(chan'[<<PodOf[c], t>>]) : last[c][t] < j
    BY Constants DEF OrderInv, LastOrder
  <2>2. CASE c \in S
    <3>1. /\ PodOf[c] = p /\ TopicOf(log[i]) \in Topics
          /\ \A t \in Topics : last'[c][t] = IF t = TopicOf(log[i]) THEN i ELSE last[c][t]
      BY <2>2, Constants DEF Give, TypeOK, On
    <3> QED BY <2>1, <3>1, Constants
  <2>3. CASE c \notin S
    BY <2>1, <2>3 DEF Give
  <2> QED BY <2>2, <2>3
<1> QED BY <1>1, <1>2, <1>3 DEF OrderInv

LEMMA OrderPresence ==
    ASSUME OrderInv, TypeOK, NEW p \in Pods, ReceivePresence(p) PROVE OrderInv'
<1> DEFINE s == <<p, "presence">>
           q == chan[s]
           T == Connected \cap On(p)
<1>1. q \in Seq(Nat) /\ q # <<>> /\ s \in Subs /\ s[2] = "presence"
  BY Constants DEF TypeOK, ReceivePresence, Reading
<1>2. PICK M \in SUBSET T : Give(T \ M, Head(q))
  BY DEF ReceivePresence
<1>3. chan' = [chan EXCEPT ![s] = Tail(q)] /\ log' = log /\ broadcastQ' = broadcastQ
  BY DEF ReceivePresence, store
<1>4. Increasing(q) /\ \A i \in Elems(q) : TopicOf(log[i]) = "presence"
  BY <1>1 DEF OrderInv, ChanOrder
<1>5. T \ M \subseteq On(p)
  OBVIOUS
<1> HIDE DEF s, q, T
<1>6. /\ Head(q) \in Elems(q) /\ Increasing(Tail(q))
      /\ Elems(Tail(q)) \subseteq Elems(q) /\ \A y \in Elems(Tail(q)) : Head(q) < y
  BY <1>1, <1>4, TakeFrom
<1>7. /\ \A r \in Subs : Increasing(chan'[r]) /\ Elems(chan'[r]) \subseteq Elems(chan[r])
      /\ chan'[s] = Tail(q)
  BY <1>1, <1>3, <1>6 DEF OrderInv, ChanOrder, TypeOK, q
<1>8. TopicOf(log[Head(q)]) = "presence"
  BY <1>4, <1>6
<1>9. \A r \in Pods : Increasing(broadcastQ'[r]) /\ Elems(broadcastQ'[r]) \subseteq Elems(broadcastQ[r])
  BY <1>3 DEF OrderInv, QueueOrder
<1>10. \A j \in Elems(chan'[<<p, TopicOf(log[Head(q)])>>]) : Head(q) < j
  BY <1>6, <1>7, <1>8 DEF s
<1> QED BY <1>2, <1>3, <1>5, <1>7, <1>8, <1>9, <1>10, OrderGive

LEMMA OrderFanout ==
    ASSUME OrderInv, TypeOK, NEW p \in Pods, Fanout(p) PROVE OrderInv'
<1> DEFINE q == broadcastQ[p]
           T == Subscribed \cap On(p)
<1>1. q \in Seq(Nat) /\ q # <<>>
  BY DEF TypeOK, Fanout
<1>2. PICK M \in SUBSET T : Give(T \ M, Head(q))
  BY DEF Fanout
<1>3. broadcastQ' = [broadcastQ EXCEPT ![p] = Tail(q)] /\ log' = log /\ chan' = chan
  BY DEF Fanout, store
<1>4. /\ Increasing(q) /\ \A i \in Elems(q) : TopicOf(log[i]) = "room"
      /\ \A i \in Elems(q), j \in Elems(chan[<<p, "room">>]) : i < j
  BY DEF OrderInv, QueueOrder
<1>5. T \ M \subseteq On(p)
  OBVIOUS
<1> HIDE DEF q, T
<1>6. /\ Head(q) \in Elems(q) /\ Increasing(Tail(q))
      /\ Elems(Tail(q)) \subseteq Elems(q) /\ \A y \in Elems(Tail(q)) : Head(q) < y
  BY <1>1, <1>4, TakeFrom
<1>7. /\ \A r \in Pods : Increasing(broadcastQ'[r]) /\ Elems(broadcastQ'[r]) \subseteq Elems(broadcastQ[r])
      /\ broadcastQ'[p] = Tail(q)
  BY <1>1, <1>3, <1>6 DEF OrderInv, QueueOrder, TypeOK, q
<1>8. TopicOf(log[Head(q)]) = "room"
  BY <1>4, <1>6
<1>9. \A r \in Subs : Increasing(chan'[r]) /\ Elems(chan'[r]) \subseteq Elems(chan[r])
  BY <1>3 DEF OrderInv, ChanOrder
<1>10. \A j \in Elems(chan'[<<p, TopicOf(log[Head(q)])>>]) : Head(q) < j
  BY <1>3, <1>4, <1>6, <1>8
<1>11. \A j \in Elems(broadcastQ'[p]) : Head(q) < j
  BY <1>6, <1>7
<1> QED BY <1>2, <1>3, <1>5, <1>7, <1>9, <1>10, <1>11, OrderGive

LEMMA OrderStep == TypeOK /\ OrderInv /\ [Next]_vars => OrderInv'
<1> SUFFICES ASSUME TypeOK, OrderInv, [Next]_vars PROVE OrderInv'
  OBVIOUS
<1>1. CASE UNCHANGED vars
  BY <1>1, OrderKept DEF vars, store, pods, peers
<1>2. CASE Requests
  <2>1. CASE \E e \in pending : Publish(e)
    BY <2>1, OrderPublish
  <2>2. CASE ~\E e \in pending : Publish(e)
    <3>1. UNCHANGED <<log, chan, broadcastQ, last>>
      BY <1>2, <2>2 DEF Requests, WriteMessage, React, DeleteMessage, SetPresence, PresenceExpires, JoinRoom,
                        LeaveRoom, PublishFails, Write, pods, peers
    <3> QED BY <3>1, OrderKept
  <2> QED BY <2>1, <2>2
<1>3. ASSUME NEW s \in Subs, SubscriberLoop(s) PROVE OrderInv'
  <2>1. CASE ConnectionLost(s)
    <3>1. PICK n \in 0..Len(chan[s]) : chan' = [chan EXCEPT ![s] = SubSeq(chan[s], 1, n)]
      BY <2>1 DEF ConnectionLost
    <3>2. chan[s] \in Seq(Nat) /\ Increasing(chan[s])
      BY DEF TypeOK, OrderInv, ChanOrder
    <3>3. Increasing(SubSeq(chan[s], 1, n)) /\ Elems(SubSeq(chan[s], 1, n)) \subseteq Elems(chan[s])
      BY <3>2, CutAt
    <3>4. UNCHANGED <<log, broadcastQ, last>>
      BY <2>1 DEF ConnectionLost, store, peers
    <3> QED BY <3>1, <3>3, <3>4, OrderCut
  <2>2. CASE StopSubscriber(s)
    <3>1. chan' = [chan EXCEPT ![s] = <<>>] /\ UNCHANGED <<log, broadcastQ, last>>
      BY <2>2 DEF StopSubscriber, store, peers
    <3> QED BY <3>1, EmptyChannel, OrderCut
  <2>3. CASE ~ConnectionLost(s) /\ ~StopSubscriber(s)
    <3>1. UNCHANGED <<log, chan, broadcastQ, last>>
      BY <1>3, <2>3 DEF SubscriberLoop, Subscribe, SubscribeFails, BackoffElapses, Reconnected,
                        ChannelClosed, store, peers
    <3> QED BY <3>1, OrderKept
  <2> QED BY <2>1, <2>2, <2>3
<1>4. ASSUME NEW p \in Pods, Cancel(p) \/ ReceiveRoomEvent(p) \/ ReceivePresence(p) \/ Fanout(p)
      PROVE  OrderInv'
  <2>1. CASE Cancel(p)
    BY <2>1, OrderKept DEF Cancel, store, peers
  <2> QED BY <1>4, <2>1, OrderReceive, OrderPresence, OrderFanout
<1>5. ASSUME NEW c \in Conns, Peer(c) PROVE OrderInv'
  <2>1. UNCHANGED <<log, chan, broadcastQ, last>>
    BY <1>5 DEF Peer, Connect, CheckMembership, SubscribeToRoom, UnsubscribeFromRoom, Disconnect,
                GetRoomMessages, store, pods
  <2> QED BY <2>1, OrderKept
<1> QED BY <1>1, <1>2, <1>3, <1>4, <1>5 DEF Next

-----------------------------------------------------------------------------
(* The refinement of Broadcast: its variables, in terms of Delivery's.     *)
Published == [i \in 1..Len(log) |-> TopicOf(log[i])]
Entitled(t) == IF t = "presence" THEN Connected ELSE {c \in Conns : conn[c] \in {"checked", "subscribed"}}
Audience == [t \in Topics |-> Entitled(t)]

LEMMA Known ==
    ASSUME TypeOK
    PROVE  /\ Published \in Seq(Topics) /\ Len(Published) = Len(log) /\ Len(log) \in Nat
           /\ \A i \in 1..Len(log) : Published[i] = TopicOf(log[i])
<1>1. Len(log) \in Nat
  BY LenProperties DEF TypeOK
<1>2. Published \in [1..Len(log) -> Topics]
  BY Constants DEF Published
<1>3. Published \in Seq(Topics)
  BY <1>1, <1>2, SeqDef
<1>4. DOMAIN Published = 1..Len(log) /\ DOMAIN Published = 1..Len(Published) /\ Len(Published) \in Nat
  BY <1>2, <1>3, LenProperties
<1>5. Len(Published) = Len(log)
  BY <1>1, <1>4
<1> QED BY <1>1, <1>3, <1>5 DEF Published

LEMMA PromiseInit == Init => Promise!Init
<1> SUFFICES ASSUME Init PROVE Promise!Init
  OBVIOUS
<1>1. Published = <<>>
  <2>1. TypeOK /\ Len(log) = 0
    BY TypeInit, EmptyChannel DEF Init
  <2>2. Published \in Seq(Topics) /\ Len(Published) = 0
    BY <2>1, Known
  <2> QED BY <2>2, EmptySeq
<1>2. Audience = [t \in Topics |-> {}]
  BY DEF Init, Audience, Entitled, Connected
<1> QED BY <1>1, <1>2 DEF Promise!Init, Published, Audience, Entitled, Init

LEMMA PromiseStutters ==
    ASSUME UNCHANGED <<log, conn, last, members>> PROVE UNCHANGED Promise!vars
  BY DEF Promise!vars, Published, Connected

LEMMA PromisePublish ==
    ASSUME TypeOK, TypeOK', NEW e \in pending, Publish(e) PROVE Promise!Next
<1>1. log \in Seq(Event) /\ e \in Event /\ log' = Append(log, e)
  BY DEF TypeOK, Publish
<1>2. /\ Len(log') = Len(log) + 1 /\ log'[Len(log) + 1] = e
      /\ \A i \in 1..Len(log) : log'[i] = log[i]
  BY <1>1, AppendProperties
<1>3. /\ Published \in Seq(Topics) /\ Len(Published) = Len(log) /\ Len(log) \in Nat
      /\ \A i \in 1..Len(log) : Published[i] = TopicOf(log[i])
  BY Known
<1>4. /\ Published' \in Seq(Topics) /\ Len(Published') = Len(log')
      /\ \A i \in 1..Len(log') : Published'[i] = TopicOf(log'[i])
  <2>1. (/\ Published \in Seq(Topics) /\ Len(Published) = Len(log)
         /\ \A i \in 1..Len(log) : Published[i] = TopicOf(log[i]))'
    BY Known, PTL
  <2> QED BY <2>1
<1>5. TopicOf(e) \in Topics
  BY Constants
<1> DEFINE r == Append(Published, TopicOf(e))
<1>6. /\ r \in Seq(Topics) /\ Len(r) = Len(log) + 1 /\ r[Len(log) + 1] = TopicOf(e)
      /\ \A i \in 1..Len(log) : r[i] = Published[i]
  BY <1>3, <1>5, AppendProperties
<1> HIDE DEF r
<1>7. \A i \in 1..Len(r) : r[i] = Published'[i]
  BY <1>2, <1>3, <1>4, <1>6
<1>8. Published' = r
  BY <1>2, <1>4, <1>6, <1>7, SeqEqual
<1>9. UNCHANGED <<conn, last, members>>
  BY DEF Publish, peers
<1>10. Promise!Publish(TopicOf(e))
  BY <1>8, <1>9 DEF Promise!Publish, Published, Audience, Connected, r
<1> QED BY <1>5, <1>10 DEF Promise!Next

(* A publication given to some of those it may be given to.                *)
LEMMA PromiseDeliver ==
    ASSUME TypeOK, NEW S, NEW i \in 1..Len(log), Give(S, i), S \subseteq Entitled(TopicOf(log[i])),
           S \subseteq Conns, \A c \in S : last[c][TopicOf(log[i])] < i, UNCHANGED <<log, members>>,
           \A t \in Topics : Entitled(t)' \subseteq Entitled(t)
    PROVE  Promise!Next
<1> DEFINE t == TopicOf(log[i])
<1>1. /\ Len(Published) = Len(log) /\ Published[i] = t /\ t \in Topics
  BY Known, Constants
<1>2. last' = [c \in Conns |-> IF c \in S THEN [last[c] EXCEPT ![t] = i] ELSE last[c]]
  BY DEF Give
<1>3. UNCHANGED Published
  BY DEF Published
<1>4. S \subseteq Audience[t]
  BY <1>1 DEF Audience
<1>5. \A r \in Topics : Audience'[r] \subseteq Audience[r]
  BY DEF Audience
<1> HIDE DEF t
<1>6. Promise!Deliver(t, i, S)
  BY <1>1, <1>2, <1>3, <1>4, <1>5 DEF Promise!Deliver, Published, Audience, Entitled, t
<1>7. i \in 1..Len(Published)
  BY <1>1
<1> QED BY <1>1, <1>6, <1>7 DEF Promise!Next, Published

LEMMA PromiseGiven ==
    ASSUME TypeOK, OrderInv, NEW p \in Pods, Fanout(p) \/ ReceivePresence(p) PROVE Promise!Next
<1>1. CASE Fanout(p)
  <2> DEFINE q == broadcastQ[p]
             T == Subscribed \cap On(p)
  <2>1. q \in Seq(Nat) /\ q # <<>> /\ Elems(q) \subseteq 1..Len(log)
    BY <1>1 DEF TypeOK, Fanout
  <2>2. PICK M \in SUBSET T : /\ Give(T \ M, Head(q))
                              /\ conn' = [c \in Conns |-> IF c \in M THEN "off" ELSE conn[c]]
    BY <1>1 DEF Fanout
  <2>3. UNCHANGED <<log, members>>
    BY <1>1 DEF Fanout, store
  <2>4. Head(q) \in 1..Len(log) /\ Head(q) \in Elems(q)
    BY <2>1, TakeFrom
  <2>5. /\ TopicOf(log[Head(q)]) = "room"
        /\ \A c \in T : last[c]["room"] < Head(q)
    BY <2>4 DEF OrderInv, QueueOrder, LastOrder, On
  <2>6. T \ M \subseteq Entitled("room") /\ T \ M \subseteq Conns
    BY DEF Entitled, Subscribed
  <2>7. \A t \in Topics : Entitled(t)' \subseteq Entitled(t)
    BY <2>2 DEF Entitled, Connected
  <2> HIDE DEF q, T
  <2> QED BY <2>2, <2>3, <2>4, <2>5, <2>6, <2>7, PromiseDeliver
<1>2. CASE ReceivePresence(p)
  <2> DEFINE s == <<p, "presence">>
             q == chan[s]
             T == Connected \cap On(p)
  <2>1. q \in Seq(Nat) /\ q # <<>> /\ Elems(q) \subseteq 1..Len(log) /\ s \in Subs /\ s[2] = "presence"
    BY <1>2, Constants DEF TypeOK, ReceivePresence, Reading
  <2>2. PICK M \in SUBSET T : Give(T \ M, Head(q))
    BY <1>2 DEF ReceivePresence
  <2>3. UNCHANGED <<log, members, conn>>
    BY <1>2 DEF ReceivePresence, store
  <2>4. Head(q) \in 1..Len(log) /\ Head(q) \in Elems(q)
    BY <2>1, TakeFrom
  <2>5. TopicOf(log[Head(q)]) = "presence"
    BY <2>1, <2>4 DEF OrderInv, ChanOrder
  <2>6. \A c \in T : last[c]["presence"] < Head(q)
    BY <2>4, Constants DEF OrderInv, LastOrder, On
  <2>7. T \ M \subseteq Entitled("presence") /\ T \ M \subseteq Conns
    BY DEF Entitled, Connected
  <2>8. \A t \in Topics : Entitled(t)' \subseteq Entitled(t)
    BY <2>3 DEF Entitled, Connected
  <2> HIDE DEF q, T
  <2> QED BY <2>2, <2>3, <2>4, <2>5, <2>6, <2>7, <2>8, PromiseDeliver
<1> QED BY <1>1, <1>2

LEMMA PromisePeer ==
    ASSUME TypeOK, NEW c \in Conns, Peer(c) PROVE Promise!Next \/ UNCHANGED Promise!vars
<1>0. UNCHANGED <<log, last, members>>
  BY DEF Peer, Connect, CheckMembership, SubscribeToRoom, UnsubscribeFromRoom, Disconnect, GetRoomMessages,
         store, pods
<1>1. ASSUME Connect(c) PROVE Promise!Connect(c)
  <2>1. Audience' = [Audience EXCEPT !["presence"] = @ \cup {c}]
    <3>1. Connected' = Connected \cup {c}
      BY <1>1 DEF Connect, Connected, TypeOK
    <3>2. \A d \in Conns : conn'[d] \in {"checked", "subscribed"} <=> conn[d] \in {"checked", "subscribed"}
      BY <1>1 DEF Connect, TypeOK
    <3>3. Entitled("presence")' = Entitled("presence") \cup {c} /\ Entitled("room")' = Entitled("room")
      BY <3>1, <3>2 DEF Entitled
    <3> QED BY <3>3 DEF Audience, Topics
  <2> QED BY <1>0, <2>1 DEF Promise!Connect, Audience, Entitled
<1>2. ASSUME CheckMembership(c) PROVE Promise!Admit(c)
  <2>1. Audience' = [Audience EXCEPT !["room"] = @ \cup {c}] /\ c \in members
    BY <1>2 DEF CheckMembership, Audience, Entitled, Connected, Topics, TypeOK
  <2> QED BY <1>0, <2>1 DEF Promise!Admit, Audience, Entitled
<1>3. ASSUME SubscribeToRoom(c) PROVE UNCHANGED Promise!vars
  <2>1. Audience' = Audience
    BY <1>3 DEF SubscribeToRoom, Audience, Entitled, Connected, Topics, TypeOK
  <2> QED BY <1>0, <2>1 DEF Promise!vars, Audience, Entitled
<1>4. ASSUME UnsubscribeFromRoom(c) PROVE Promise!Part(c)
  <2>1. Audience' = [Audience EXCEPT !["room"] = @ \ {c}]
    BY <1>4 DEF UnsubscribeFromRoom, Audience, Entitled, Connected, Topics, TypeOK
  <2> QED BY <1>0, <2>1 DEF Promise!Part, Audience, Entitled
<1>5. ASSUME Disconnect(c) PROVE Promise!Part(c)
  <2>1. Audience' = [t \in Topics |-> Audience[t] \ {c}]
    BY <1>5 DEF Disconnect, Audience, Entitled, Connected, Topics, TypeOK
  <2> QED BY <1>0, <2>1 DEF Promise!Part, Audience, Entitled
<1>6. ASSUME GetRoomMessages(c) PROVE UNCHANGED Promise!vars
  BY <1>0, <1>6, PromiseStutters DEF GetRoomMessages
<1> QED BY <1>1, <1>2, <1>3, <1>4, <1>5, <1>6 DEF Peer, Promise!Next

LEMMA PromiseStep ==
    ASSUME TypeOK, TypeOK', OrderInv, [Next]_vars PROVE [Promise!Next]_Promise!vars
<1>1. CASE UNCHANGED vars
  BY <1>1, PromiseStutters DEF vars, store, peers
<1>2. CASE Requests
  <2>1. ASSUME NEW e \in pending, Publish(e) PROVE Promise!Next
    BY <2>1, PromisePublish
  <2>2. ASSUME NEW c \in Conns, JoinRoom(c) \/ LeaveRoom(c) PROVE Promise!Next
    <3>1. UNCHANGED <<log, conn, last>> /\ (members' = members \cup {c} \/ members' = members \ {c})
      BY <2>2 DEF JoinRoom, LeaveRoom, Write, peers
    <3>2. Promise!Join(c) \/ Promise!Leave(c)
      BY <3>1 DEF Promise!Join, Promise!Leave, Connected
    <3> QED BY <3>2 DEF Promise!Next
  <2>3. ASSUME \/ \E m \in Messages : WriteMessage(m) \/ React(m) \/ DeleteMessage(m)
               \/ \E u \in Presences : SetPresence(u) \/ PresenceExpires(u)
               \/ \E e \in pending : PublishFails(e)
        PROVE  UNCHANGED Promise!vars
    <3>1. UNCHANGED <<log, conn, last, members>>
      BY <2>3 DEF WriteMessage, React, DeleteMessage, SetPresence, PresenceExpires, PublishFails, Write, peers
    <3> QED BY <3>1, PromiseStutters
  <2> QED BY <1>2, <2>1, <2>2, <2>3 DEF Requests
<1>3. ASSUME NEW s \in Subs, SubscriberLoop(s) PROVE UNCHANGED Promise!vars
  <2>1. UNCHANGED <<log, conn, last, members>>
    BY <1>3 DEF SubscriberLoop, Subscribe, SubscribeFails, BackoffElapses, ConnectionLost, Reconnected,
                ChannelClosed, StopSubscriber, store, peers
  <2> QED BY <2>1, PromiseStutters
<1>4. ASSUME NEW p \in Pods, Cancel(p) \/ ReceiveRoomEvent(p) PROVE UNCHANGED Promise!vars
  <2>1. UNCHANGED <<log, conn, last, members>>
    BY <1>4 DEF Cancel, ReceiveRoomEvent, store, peers
  <2> QED BY <2>1, PromiseStutters
<1> QED BY <1>1, <1>2, <1>3, <1>4, PromiseGiven, PromisePeer DEF Next

(* Publisher, Redis, subscriber goroutines and hub keep what Broadcast     *)
(* promises on any number of pods: whatever is lost, cut off or evicted, a *)
(* connection is given publications in Redis's order and none twice, and   *)
(* events of the room only after a membership check its user passed.       *)
THEOREM KeepsBroadcastPromise == Spec => ImplementsBroadcast
<1>1. Spec => [](TypeOK /\ OrderInv)
  BY TypeInit, TypeStep, OrderInit, OrderStep, PTL DEF Spec
<1>2. TypeOK /\ TypeOK' /\ OrderInv /\ [Next]_vars => [Promise!Next]_Promise!vars
  BY PromiseStep
<1> QED BY <1>1, <1>2, PromiseInit, PTL DEF Spec, ImplementsBroadcast, Promise!Spec

-----------------------------------------------------------------------------
(* Convergence.  The publications about o on their way to pod p.           *)
Way(p, o) ==
    {i \in Elems(broadcastQ[p]) \cup Elems(chan[<<p, "room">>]) \cup Elems(chan[<<p, "presence">>]) :
        log[i].obj = o}

(* Events are about what their kind says, and no write is from the future. *)
EventOK(e, D) ==
    /\ e.kind = "presence" <=> e.obj \in Presences
    /\ e.kind \in {"edited", "deleted"} => e.obj \in Messages
    /\ e.kind = "deleted" => e.obj \in D
    /\ e.kind \in {"joined", "left"} => e.obj = NoObject
EventsOK ==
    /\ \A e \in pending : EventOK(e, deleted) /\ e.ver <= writes
    /\ \A i \in 1..Len(log) : EventOK(log[i], deleted)

(* A copy is accounted for only while its connection follows the object.   *)
FollowsKnown == \A c \in Conns, o \in Objects : <<c, o>> \notin unsure => Follows(c, o)

(* The write that o holds is still to be published, ...                    *)
ToCome(o) == \E e \in pending : e.obj = o /\ e.ver = stored[o]

(* ... or it is the last one on its way, or it has arrived.                *)
Arriving(c, o) ==
    /\ \/ ~Pending(o)
       \/ \E i \in 1..Len(log) : log[i].obj = o /\ log[i].ver = stored[o]
    /\ Way(PodOf[c], o) = {} => shown[c][o] = stored[o]
    /\ \A i \in Way(PodOf[c], o) :
         (\A j \in Way(PodOf[c], o) : j <= i) => log[i].ver = stored[o]

Sound(c, o) ==
    IF o \in deleted
    THEN Way(PodOf[c], o) = {} /\ shown[c][o] = stored[o]
    ELSE /\ \A e \in pending : e.obj = o => e.ver <= stored[o]
         /\ ToCome(o) \/ Arriving(c, o)

SoundInv == \A c \in Conns, o \in Objects : <<c, o>> \notin unsure => Sound(c, o)
ConvergeInv == EventsOK /\ FollowsKnown /\ SoundInv

LEMMA WayIsInFlight ==
    ASSUME TypeOK, NEW p \in Pods, NEW o \in Objects
    PROVE  /\ ~InFlight(p, o) <=> Way(p, o) = {}
           /\ Way(p, o) \subseteq 1..Len(log)
<1> DEFINE I == Elems(broadcastQ[p]) \cup UNION {Elems(chan[<<p, t>>]) : t \in Topics}
           J == Elems(broadcastQ[p]) \cup Elems(chan[<<p, "room">>]) \cup Elems(chan[<<p, "presence">>])
<1>1. I = J
  BY DEF Topics
<1>2. J \subseteq 1..Len(log)
  BY Constants DEF TypeOK
<1>3. InFlight(p, o) <=> o \in About(J)
  BY <1>1 DEF InFlight
<1>4. Way(p, o) = {i \in J : log[i].obj = o}
  BY DEF Way
<1> HIDE DEF I, J
<1>5. o \in About(J) <=> \E i \in J : log[i].obj = o
  BY <1>2 DEF About
<1> QED BY <1>2, <1>3, <1>4, <1>5

WayIsClear == \A p \in Pods, o \in Objects : ~InFlight(p, o) => Way(p, o) = {}

LEMMA ClearWay == TypeOK => WayIsClear
  BY WayIsInFlight DEF WayIsClear

(* The invariant tells what it is for.                                     *)
LEMMA ConvergeEnough == TypeOK /\ ConvergeInv => Converges
<1> SUFFICES ASSUME TypeOK, ConvergeInv, NEW c \in Conns, NEW o \in Objects,
                    ~Pending(o), ~InFlight(PodOf[c], o), <<c, o>> \notin unsure
             PROVE  shown[c][o] = stored[o]
  BY DEF Converges
<1>1. Sound(c, o)
  BY DEF ConvergeInv, SoundInv
<1>2. Way(PodOf[c], o) = {}
  BY WayIsInFlight, Constants
<1> QED BY <1>1, <1>2 DEF Sound, Arriving, ToCome, Pending

LEMMA ConvergeInit == Init => ConvergeInv
<1> SUFFICES ASSUME Init PROVE ConvergeInv
  OBVIOUS
<1>1. EventsOK
  BY EmptyChannel DEF Init, EventsOK
<1>2. FollowsKnown /\ SoundInv
  BY DEF Init, FollowsKnown, SoundInv
<1> QED BY <1>1, <1>2 DEF ConvergeInv

-----------------------------------------------------------------------------
(* Events *)

LEMMA EventsWrite ==
    ASSUME TypeOK, EventsOK, NEW kind, NEW o, Write(kind, o), deleted \subseteq deleted',
           LET e == [kind |-> kind, obj |-> o, ver |-> writes + 1] IN EventOK(e, deleted')
    PROVE  EventsOK'
<1> DEFINE e == [kind |-> kind, obj |-> o, ver |-> writes + 1]
<1>1. pending' = pending \cup {e} /\ writes' = writes + 1 /\ log' = log /\ e.ver = writes + 1
  BY DEF Write
<1>2. EventOK(e, deleted')
  OBVIOUS
<1>3. writes \in Nat
  BY DeliveryAssumption DEF TypeOK
<1>4. ASSUME NEW f, EventOK(f, deleted) PROVE EventOK(f, deleted')
  BY <1>4 DEF EventOK
<1> HIDE DEF e
<1>5. ASSUME NEW f \in pending' PROVE EventOK(f, deleted') /\ f.ver <= writes'
  <2>1. CASE f \in pending
    <3>1. f.ver \in Nat
      BY <2>1 DEF TypeOK, Event
    <3> QED BY <1>1, <1>3, <1>4, <2>1, <3>1 DEF EventsOK
  <2>2. CASE f = e
    BY <1>1, <1>2, <1>3, <2>2
  <2> QED BY <1>1, <2>1, <2>2
<1>6. ASSUME NEW i \in 1..Len(log') PROVE EventOK(log'[i], deleted')
  BY <1>1, <1>4 DEF EventsOK
<1> QED BY <1>5, <1>6 DEF EventsOK

LEMMA EventsStep == TypeOK /\ EventsOK /\ [Next]_vars => EventsOK'
<1> SUFFICES ASSUME TypeOK, EventsOK, [Next]_vars PROVE EventsOK'
  OBVIOUS
<1>0. ASSUME UNCHANGED <<pending, writes, log, deleted>> PROVE EventsOK'
  BY <1>0 DEF EventsOK, EventOK
<1>1. ASSUME NEW m \in Messages, WriteMessage(m) PROVE EventsOK'
  <2>1. Write("edited", m) /\ deleted' = deleted /\ m \notin Presences
    BY <1>1, DeliveryAssumption DEF WriteMessage
  <2>2. LET e == [kind |-> "edited", obj |-> m, ver |-> writes + 1] IN EventOK(e, deleted')
    BY <2>1 DEF EventOK
  <2> QED BY <2>1, <2>2, EventsWrite
<1>2. ASSUME NEW m \in Messages, DeleteMessage(m) PROVE EventsOK'
  <2>1. Write("deleted", m) /\ deleted' = deleted \cup {m} /\ m \notin Presences
    BY <1>2, DeliveryAssumption DEF DeleteMessage
  <2>2. LET e == [kind |-> "deleted", obj |-> m, ver |-> writes + 1] IN EventOK(e, deleted')
    BY <2>1 DEF EventOK
  <2> QED BY <2>1, <2>2, EventsWrite
<1>3. ASSUME NEW u \in Presences, SetPresence(u) PROVE EventsOK'
  <2>1. Write("presence", u) /\ deleted' = deleted
    BY <1>3 DEF SetPresence
  <2>2. LET e == [kind |-> "presence", obj |-> u, ver |-> writes + 1] IN EventOK(e, deleted')
    BY <2>1 DEF EventOK
  <2> QED BY <2>1, <2>2, EventsWrite
<1>4. ASSUME NEW c \in Conns, JoinRoom(c) \/ LeaveRoom(c) PROVE EventsOK'
  <2>1. PICK kind \in {"joined", "left"} : Write(kind, NoObject) /\ deleted' = deleted
    BY <1>4 DEF JoinRoom, LeaveRoom
  <2>2. LET e == [kind |-> kind, obj |-> NoObject, ver |-> writes + 1] IN EventOK(e, deleted')
    BY <2>1, DeliveryAssumption DEF EventOK, Objects
  <2> QED BY <2>1, <2>2, EventsWrite
<1>5. ASSUME NEW e \in pending, Publish(e) PROVE EventsOK'
  <2>1. log \in Seq(Event) /\ e \in Event /\ log' = Append(log, e) /\ Len(log) \in Nat
    BY <1>5, LenProperties DEF TypeOK, Publish
  <2>2. Len(log') = Len(log) + 1 /\ log'[Len(log) + 1] = e /\ \A i \in 1..Len(log) : log'[i] = log[i]
    BY <2>1, AppendProperties
  <2>3. pending' \subseteq pending /\ UNCHANGED <<writes, deleted>>
    BY <1>5 DEF Publish
  <2>4. \A i \in 1..Len(log') : i \in 1..Len(log) \/ i = Len(log) + 1
    BY <2>1, <2>2
  <2>5. ASSUME NEW i \in 1..Len(log') PROVE EventOK(log'[i], deleted)
    BY <2>2, <2>4 DEF EventsOK
  <2> QED BY <2>3, <2>5 DEF EventsOK, EventOK
<1>6. ASSUME NEW e \in pending, PublishFails(e) PROVE EventsOK'
  BY <1>6 DEF PublishFails, EventsOK, EventOK
<1>7. ASSUME NEW u \in Presences, PresenceExpires(u) PROVE EventsOK'
  BY <1>0, <1>7 DEF PresenceExpires
<1>8. ASSUME NEW s \in Subs, SubscriberLoop(s) PROVE EventsOK'
  BY <1>0, <1>8 DEF SubscriberLoop, Subscribe, SubscribeFails, BackoffElapses, ConnectionLost, Reconnected,
                    ChannelClosed, StopSubscriber, store
<1>9. ASSUME NEW p \in Pods, Cancel(p) \/ ReceiveRoomEvent(p) \/ ReceivePresence(p) \/ Fanout(p)
      PROVE  EventsOK'
  BY <1>0, <1>9 DEF Cancel, ReceiveRoomEvent, ReceivePresence, Fanout, store
<1>10. ASSUME NEW c \in Conns, Peer(c) PROVE EventsOK'
  BY <1>0, <1>10 DEF Peer, Connect, CheckMembership, SubscribeToRoom, UnsubscribeFromRoom, Disconnect,
                     GetRoomMessages, store
<1>11. CASE UNCHANGED vars
  BY <1>0, <1>11 DEF vars, store
<1>12. ASSUME NEW m \in Messages, React(m) PROVE EventsOK'
  <2>1. writes \in Nat /\ writes' = writes + 1 /\ UNCHANGED <<pending, log, deleted>>
    BY <1>12, DeliveryAssumption DEF React, TypeOK
  <2>2. \A e \in pending : e.ver \in Nat
    BY DEF TypeOK, Event
  <2>3. \A e \in pending : e.ver <= writes'
    BY <2>1, <2>2 DEF EventsOK
  <2> QED BY <2>1, <2>3 DEF EventsOK, EventOK
<1> QED BY <1>1, <1>2, <1>3, <1>4, <1>5, <1>6, <1>7, <1>8, <1>9, <1>10, <1>11, <1>12 DEF Next, Requests

-----------------------------------------------------------------------------
(* Followers *)

(* What the presence subscriber of a pod handles next.                     *)
LEMMA PresenceHead ==
    ASSUME TypeOK, OrderInv, EventsOK, NEW p \in Pods, NEW q, q = chan[<<p, "presence">>], q # <<>>
    PROVE  /\ Head(q) \in 1..Len(log) /\ log[Head(q)] \in Event
           /\ log[Head(q)].kind = "presence" /\ log[Head(q)].obj \in Presences
           /\ Elems(q) = Elems(Tail(q)) \cup {Head(q)} /\ \A y \in Elems(Tail(q)) : Head(q) < y
<1>1. <<p, "presence">> \in Subs /\ <<p, "presence">>[2] = "presence"
  BY Constants
<1>2. /\ q \in Seq(Nat) /\ Increasing(q) /\ Elems(q) \subseteq 1..Len(log)
      /\ \A i \in Elems(q) : TopicOf(log[i]) = "presence"
  BY <1>1 DEF TypeOK, OrderInv, ChanOrder
<1>3. /\ Head(q) \in Elems(q) /\ Elems(q) = Elems(Tail(q)) \cup {Head(q)}
      /\ \A y \in Elems(Tail(q)) : Head(q) < y
  BY <1>2, TakeFrom
<1>4. Head(q) \in 1..Len(log) /\ log[Head(q)].kind = "presence"
  BY <1>2, <1>3 DEF TopicOf
<1>5. log[Head(q)] \in Event
  BY <1>4, ElementOfSeq DEF TypeOK
<1>6. log[Head(q)].obj \in Presences
  BY <1>4 DEF EventsOK, EventOK
<1> QED BY <1>3, <1>4, <1>5, <1>6

(* What the hub of a pod fans out next.                                    *)
LEMMA QueueHead ==
    ASSUME TypeOK, OrderInv, EventsOK, NEW p \in Pods, NEW q, q = broadcastQ[p], q # <<>>
    PROVE  /\ Head(q) \in 1..Len(log) /\ log[Head(q)] \in Event /\ TopicOf(log[Head(q)]) = "room"
           /\ log[Head(q)].kind # "presence" /\ log[Head(q)].obj \notin Presences
           /\ Elems(q) = Elems(Tail(q)) \cup {Head(q)} /\ \A y \in Elems(Tail(q)) : Head(q) < y
           /\ \A y \in Elems(chan[<<p, "room">>]) : Head(q) < y
<1>2. /\ q \in Seq(Nat) /\ Increasing(q) /\ Elems(q) \subseteq 1..Len(log)
      /\ \A i \in Elems(q) : /\ TopicOf(log[i]) = "room"
                             /\ \A y \in Elems(chan[<<p, "room">>]) : i < y
  BY DEF TypeOK, OrderInv, QueueOrder
<1>3. /\ Head(q) \in Elems(q) /\ Elems(q) = Elems(Tail(q)) \cup {Head(q)}
      /\ \A y \in Elems(Tail(q)) : Head(q) < y
  BY <1>2, TakeFrom
<1>4. Head(q) \in 1..Len(log) /\ TopicOf(log[Head(q)]) = "room" /\ log[Head(q)].kind # "presence"
  BY <1>2, <1>3 DEF TopicOf
<1>5. log[Head(q)] \in Event
  BY <1>4, ElementOfSeq DEF TypeOK
<1>6. log[Head(q)].obj \notin Presences
  BY <1>4 DEF EventsOK, EventOK
<1> QED BY <1>2, <1>3, <1>4, <1>5, <1>6

LEMMA SettledOf ==
    ASSUME NEW S, NEW i, NEW p, NEW c, NEW o, <<c, o>> \in Settled(S, i, p)
    PROVE  /\ c \in S /\ o = log[i].obj /\ o \in Names(log[i])
           /\ log[i].ver = stored[o] /\ ~Pending(o) /\ ~InFlight(p, o)'
  BY DEF Settled, Names

LEMMA FollowsStep ==
    TypeOK /\ OrderInv /\ EventsOK /\ FollowsKnown /\ [Next]_vars => FollowsKnown'
<1> SUFFICES ASSUME TypeOK, OrderInv, EventsOK, FollowsKnown, [Next]_vars PROVE FollowsKnown'
  OBVIOUS
<1>0. ASSUME unsure \subseteq unsure', conn' = conn PROVE FollowsKnown'
  BY <1>0 DEF FollowsKnown, Follows, Connected, Subscribed
<1>1. CASE UNCHANGED vars
  BY <1>0, <1>1 DEF vars, peers
<1>2. CASE Requests
  BY <1>0, <1>2 DEF Requests, WriteMessage, React, DeleteMessage, SetPresence, PresenceExpires, JoinRoom, LeaveRoom,
                    Publish, PublishFails, Write, peers
<1>3. ASSUME NEW s \in Subs, SubscriberLoop(s) PROVE FollowsKnown'
  BY <1>0, <1>3 DEF SubscriberLoop, Subscribe, SubscribeFails, BackoffElapses, ConnectionLost, Reconnected,
                    ChannelClosed, StopSubscriber, peers
<1>4. ASSUME NEW p \in Pods, Cancel(p) \/ ReceiveRoomEvent(p) PROVE FollowsKnown'
  BY <1>0, <1>4 DEF Cancel, ReceiveRoomEvent, peers
<1>5. ASSUME NEW p \in Pods, ReceivePresence(p) PROVE FollowsKnown'
  <2> DEFINE q == chan[<<p, "presence">>]
             T == Connected \cap On(p)
  <2>1. PICK M \in SUBSET T : unsure' = (unsure \ Settled(T \ M, Head(q), p)) \cup (M \X About({Head(q)}))
    BY <1>5 DEF ReceivePresence
  <2>2. conn' = conn /\ q # <<>>
    BY <1>5 DEF ReceivePresence, Reading
  <2>3. log[Head(q)].obj \in Presences
    BY <2>2, PresenceHead
  <2> SUFFICES ASSUME NEW c \in Conns, NEW o \in Objects, <<c, o>> \notin unsure' PROVE Follows(c, o)'
    BY DEF FollowsKnown
  <2>4. Follows(c, o)' <=> Follows(c, o)
    BY <2>2 DEF Follows, Connected, Subscribed
  <2>5. CASE <<c, o>> \notin unsure
    BY <2>4, <2>5 DEF FollowsKnown
  <2>6. CASE <<c, o>> \in Settled(T \ M, Head(q), p)
    <3>1. c \in T \ M /\ o = log[Head(q)].obj
      BY <2>6, SettledOf
    <3> QED BY <2>3, <2>4, <3>1 DEF Follows
  <2> QED BY <2>1, <2>5, <2>6
<1>6. ASSUME NEW p \in Pods, Fanout(p) PROVE FollowsKnown'
  <2> DEFINE q == broadcastQ[p]
             T == Subscribed \cap On(p)
  <2>1. PICK M \in SUBSET T : /\ conn' = [c \in Conns |-> IF c \in M THEN "off" ELSE conn[c]]
                              /\ unsure' = (unsure \ Settled(T \ M, Head(q), p)) \cup (M \X Objects)
    BY <1>6 DEF Fanout
  <2>2. q # <<>>
    BY <1>6 DEF Fanout
  <2>3. log[Head(q)].obj \notin Presences
    BY <2>2, QueueHead
  <2> SUFFICES ASSUME NEW c \in Conns, NEW o \in Objects, <<c, o>> \notin unsure' PROVE Follows(c, o)'
    BY DEF FollowsKnown
  <2>4. c \notin M
    BY <2>1
  <2>5. Follows(c, o)' <=> Follows(c, o)
    BY <2>1, <2>4 DEF Follows, Connected, Subscribed
  <2>6. CASE <<c, o>> \notin unsure
    BY <2>5, <2>6 DEF FollowsKnown
  <2>7. CASE <<c, o>> \in Settled(T \ M, Head(q), p)
    <3>1. c \in T \ M /\ o = log[Head(q)].obj
      BY <2>7, SettledOf
    <3> QED BY <2>3, <2>5, <3>1 DEF Follows
  <2> QED BY <2>1, <2>6, <2>7
<1>7. ASSUME NEW d \in Conns, Peer(d) PROVE FollowsKnown'
  <2> SUFFICES ASSUME NEW c \in Conns, NEW o \in Objects, <<c, o>> \notin unsure' PROVE Follows(c, o)'
    BY DEF FollowsKnown
  <2>1. CASE Connect(d) \/ CheckMembership(d) \/ SubscribeToRoom(d)
    <3>1. Connected \subseteq Connected' /\ Subscribed \subseteq Subscribed' /\ unsure' = unsure
      BY <2>1 DEF Connect, CheckMembership, SubscribeToRoom, Connected, Subscribed, TypeOK
    <3> QED BY <3>1 DEF FollowsKnown, Follows
  <2>2. CASE UnsubscribeFromRoom(d)
    <3>1. /\ Connected' = Connected /\ Subscribed' = Subscribed \ {d}
          /\ unsure' = unsure \cup ({d} \X Messages)
      BY <2>2 DEF UnsubscribeFromRoom, Connected, Subscribed, TypeOK
    <3> QED BY <3>1 DEF FollowsKnown, Follows, Objects
  <2>3. CASE Disconnect(d)
    <3>1. /\ Connected' = Connected \ {d} /\ Subscribed' = Subscribed \ {d}
          /\ unsure' = unsure \cup ({d} \X Objects)
      BY <2>3 DEF Disconnect, Connected, Subscribed, TypeOK
    <3> QED BY <3>1 DEF FollowsKnown, Follows
  <2>4. CASE GetRoomMessages(d)
    <3>1. Follows(c, o)' <=> Follows(c, o)
      BY <2>4 DEF GetRoomMessages, Follows, Connected, Subscribed
    <3>2. <<c, o>> \notin unsure \/ (c \in Subscribed /\ o \in Messages)
      BY <2>4 DEF GetRoomMessages
    <3> QED BY <3>1, <3>2, DeliveryAssumption DEF FollowsKnown, Follows
  <2> QED BY <1>7, <2>1, <2>2, <2>3, <2>4 DEF Peer
<1> QED BY <1>1, <1>2, <1>3, <1>4, <1>5, <1>6, <1>7 DEF Next

-----------------------------------------------------------------------------
(* Soundness *)

(* Nothing that matters to the copy of o at c changes.                     *)
LEMMA SoundSame ==
    ASSUME NEW c \in Conns, NEW o \in Objects, Sound(c, o),
           stored'[o] = stored[o], o \in deleted' <=> o \in deleted, shown'[c][o] = shown[c][o],
           Way(PodOf[c], o)' = Way(PodOf[c], o),
           \A e : e.obj = o => (e \in pending' <=> e \in pending),
           Way(PodOf[c], o) \subseteq 1..Len(log),
           \A j \in 1..Len(log) : j \in 1..Len(log') /\ log'[j] = log[j]
    PROVE  Sound(c, o)'
<1> DEFINE W == Way(PodOf[c], o)
<1>1. W' = W /\ W \subseteq 1..Len(log)
  OBVIOUS
<1>2. Pending(o)' <=> Pending(o)
  BY DEF Pending
<1>3. CASE o \in deleted
  BY <1>3 DEF Sound
<1>4. CASE o \notin deleted
  <2>1. \A e \in pending' : e.obj = o => e.ver <= stored'[o]
    BY <1>4 DEF Sound
  <2>2. ToCome(o) => ToCome(o)'
    BY DEF ToCome
  <2>3. ASSUME Arriving(c, o) PROVE Arriving(c, o)'
    <3>1. (\E k \in 1..Len(log) : log[k].obj = o /\ log[k].ver = stored[o])
             => \E k \in 1..Len(log') : log'[k].obj = o /\ log'[k].ver = stored'[o]
      OBVIOUS
    <3>2. \A k \in W : log'[k] = log[k]
      BY <1>1
    <3> HIDE DEF W
    <3>3. /\ W = {} => shown[c][o] = stored[o]
          /\ \A k \in W : (\A j \in W : j <= k) => log[k].ver = stored[o]
          /\ ~Pending(o) \/ \E k \in 1..Len(log) : log[k].obj = o /\ log[k].ver = stored[o]
      BY <2>3 DEF Arriving, W
    <3>4. /\ W = {} => shown'[c][o] = stored'[o]
          /\ \A k \in W : (\A j \in W : j <= k) => log'[k].ver = stored'[o]
          /\ ~Pending(o)' \/ \E k \in 1..Len(log') : log'[k].obj = o /\ log'[k].ver = stored'[o]
      BY <1>2, <3>1, <3>2, <3>3
    <3> QED BY <1>1, <3>4 DEF Arriving, W
  <2> QED BY <1>4, <2>1, <2>2, <2>3 DEF Sound
<1> QED BY <1>3, <1>4

(* The same, where neither the store nor Redis moves.                      *)
LEMMA SoundUnmoved ==
    ASSUME TypeOK, NEW c \in Conns, NEW o \in Objects, Sound(c, o), UNCHANGED store,
           shown'[c][o] = shown[c][o], Way(PodOf[c], o)' = Way(PodOf[c], o)
    PROVE  Sound(c, o)'
  BY SoundSame, WayIsInFlight, Constants DEF store

LEMMA WaySame ==
    ASSUME NEW p, NEW o, UNCHANGED <<log, chan, broadcastQ>> PROVE Way(p, o)' = Way(p, o)
  BY DEF Way

(* A copy that agrees with the store, with nothing to come.                *)
LEMMA SoundAgain ==
    ASSUME NEW c \in Conns, NEW o \in Objects, ~Pending(o)', Way(PodOf[c], o)' = {},
           shown'[c][o] = stored'[o]
    PROVE  Sound(c, o)'
<1>1. \A e \in pending' : e.obj # o
  BY DEF Pending
<1>2. Arriving(c, o)'
  BY DEF Arriving
<1> QED BY <1>1, <1>2 DEF Sound

(* The store takes a write: its publication is to come.                    *)
LEMMA SoundWritten ==
    ASSUME TypeOK, EventsOK, NEW c \in Conns, NEW o \in Objects, NEW kind, Write(kind, o),
           stored'[o] = writes + 1, o \notin deleted'
    PROVE  Sound(c, o)'
<1> DEFINE e == [kind |-> kind, obj |-> o, ver |-> writes + 1]
<1>1. pending' = pending \cup {e} /\ e.obj = o /\ e.ver = writes + 1
  BY DEF Write
<1>2. writes \in Nat /\ \A f \in pending : f.ver \in Nat /\ f.ver <= writes
  BY DeliveryAssumption DEF TypeOK, EventsOK, Event
<1> HIDE DEF e
<1>3. \A f \in pending' : f.obj = o => f.ver <= stored'[o]
  BY <1>1, <1>2
<1>4. ToCome(o)'
  BY <1>1 DEF ToCome
<1> QED BY <1>3, <1>4 DEF Sound

(* A write about something else.                                           *)
LEMMA SoundElsewhere ==
    ASSUME TypeOK, NEW c \in Conns, NEW o \in Objects, Sound(c, o), NEW kind, NEW x, Write(kind, x), x # o,
           stored'[o] = stored[o], o \in deleted' <=> o \in deleted
    PROVE  Sound(c, o)'
<1>1. UNCHANGED <<log, chan, broadcastQ, shown>>
  BY DEF Write, pods, peers
<1>2. \A e : e.obj = o => (e \in pending' <=> e \in pending)
  BY DEF Write
<1>3. Way(PodOf[c], o)' = Way(PodOf[c], o) /\ Way(PodOf[c], o) \subseteq 1..Len(log)
  BY <1>1, WaySame, WayIsInFlight, Constants
<1> QED BY <1>1, <1>2, <1>3, SoundSame

(* The publication of e.                                                   *)
LEMMA SoundPublish ==
    ASSUME TypeOK, NEW e \in pending, Publish(e), NEW c \in Conns, NEW o \in Objects,
           Sound(c, o), <<c, o>> \notin unsure'
    PROVE  Sound(c, o)'
<1> DEFINE n == Len(log) + 1
           p == PodOf[c]
<1>0. p \in Pods /\ <<p, "room">> \in Subs /\ <<p, "presence">> \in Subs /\ Len(log) \in Nat /\ n \in Nat
  BY Constants, LenProperties DEF TypeOK
<1>1. e \in Event /\ log' = Append(log, e) /\ pending' = pending \ {e}
  BY DEF TypeOK, Publish
<1>2. /\ Len(log') = n /\ log'[n] = e /\ \A j \in 1..Len(log) : j \in 1..Len(log') /\ log'[j] = log[j]
      /\ n \in 1..Len(log')
  BY <1>0, <1>1, AppendProperties DEF TypeOK
<1>3. UNCHANGED <<stored, deleted, broadcastQ, shown>>
  BY DEF Publish, peers
<1>4. Way(p, o) \subseteq 1..Len(log)
  BY <1>0, WayIsInFlight
<1>5. ASSUME NEW s \in Subs
      PROVE  /\ chan[s] \in Seq(Nat) /\ Elems(chan[s]) \subseteq 1..Len(log)
             /\ Elems(chan'[s]) = IF s[2] = TopicOf(e) /\ Standing(s)
                                  THEN Elems(chan[s]) \cup {n} ELSE Elems(chan[s])
  BY <1>0, PutInto DEF TypeOK, Publish
<1>6. Elems(broadcastQ[p]) \subseteq 1..Len(log)
  BY <1>0 DEF TypeOK
<1> HIDE DEF n, p
<1>7. CASE e.obj # o
  <2>1. Way(p, o)' = Way(p, o)
    BY <1>0, <1>2, <1>3, <1>5, <1>6, <1>7 DEF Way
  <2> QED BY <1>1, <1>2, <1>3, <1>4, <1>7, <2>1, SoundSame DEF p
<1>8. CASE e.obj = o
  <2>1. ~Late(e) /\ Standing(<<p, TopicOf(e)>>)
    BY <1>8 DEF Publish, p
  <2>2. o \notin deleted
    BY <1>8, <2>1 DEF Late
  <2>3. Way(p, o)' = Way(p, o) \cup {n}
    <3>1. <<p, TopicOf(e)>> \in Subs /\ <<p, TopicOf(e)>>[2] = TopicOf(e) /\ TopicOf(e) \in {"room", "presence"}
      BY <1>0, Constants DEF Topics
    <3>2. n \in Elems(chan'[<<p, "room">>]) \cup Elems(chan'[<<p, "presence">>])
      BY <1>5, <2>1, <3>1
    <3> QED BY <1>0, <1>2, <1>3, <1>5, <1>6, <1>8, <3>2 DEF Way
  <2>4. \A f \in pending' : f.obj = o => f.ver <= stored'[o]
    BY <1>1, <1>3, <2>2 DEF Sound
  <2>5. ToCome(o)' \/ e.ver = stored[o]
    <3>1. CASE ToCome(o)
      BY <1>1, <1>3, <3>1 DEF ToCome
    <3>2. CASE Arriving(c, o)
      <4>1. PICK k \in 1..Len(log) : log[k].obj = o /\ log[k].ver = stored[o]
        BY <1>8, <3>2 DEF Arriving, Pending
      <4>2. ~(stored[o] > e.ver) /\ e.ver <= stored[o]
        BY <1>8, <2>1, <2>2, <4>1 DEF Late, Sound
      <4>3. stored[o] \in Nat /\ e.ver \in Nat
        BY <1>1, DeliveryAssumption DEF TypeOK, Event
      <4> QED BY <4>2, <4>3
    <3> QED BY <2>2, <3>1, <3>2 DEF Sound
  <2>6. ASSUME e.ver = stored[o] PROVE Arriving(c, o)'
    <3>1. ASSUME NEW k \in Way(p, o)', \A j \in Way(p, o)' : j <= k PROVE k = n
      <4>1. \A j \in Way(p, o) : j \in Nat /\ ~(n <= j)
        BY <1>0, <1>4 DEF n
      <4>2. n <= k /\ (k \in Way(p, o) \/ k = n)
        BY <2>3, <3>1
      <4> QED BY <4>1, <4>2
    <3> QED BY <1>2, <1>3, <1>8, <2>3, <2>6, <3>1 DEF Arriving, p
  <2> QED BY <1>3, <2>2, <2>4, <2>5, <2>6 DEF Sound
<1> QED BY <1>7, <1>8

LEMMA SoundRequests ==
    ASSUME TypeOK, EventsOK, SoundInv, Requests, NEW c \in Conns, NEW o \in Objects, <<c, o>> \notin unsure'
    PROVE  Sound(c, o)'
<1>0. <<c, o>> \notin unsure
  BY DEF Requests, WriteMessage, React, DeleteMessage, SetPresence, PresenceExpires, JoinRoom, LeaveRoom,
         Publish, PublishFails
<1>1. Sound(c, o)
  BY <1>0 DEF SoundInv
<1>2. ASSUME NEW m \in Messages, WriteMessage(m) PROVE Sound(c, o)'
  <2>1. Write("edited", m) /\ deleted' = deleted /\ m \in Objects
    BY <1>2 DEF WriteMessage, Objects
  <2>2. CASE m # o
    <3>1. stored'[o] = stored[o]
      BY <1>2, <2>2 DEF WriteMessage, TypeOK
    <3> QED BY <1>1, <2>1, <2>2, <3>1, SoundElsewhere
  <2>3. CASE m = o /\ o \in deleted
    <3>1. stored' = stored /\ UNCHANGED <<log, chan, broadcastQ, shown>>
      BY <1>2, <2>3 DEF WriteMessage, Write, pods, peers
    <3>2. Way(PodOf[c], o)' = Way(PodOf[c], o)
      BY <3>1, WaySame
    <3> QED BY <1>1, <2>1, <2>3, <3>1, <3>2 DEF Sound
  <2>4. CASE m = o /\ o \notin deleted
    <3>1. stored'[o] = writes + 1
      BY <1>2, <2>4 DEF WriteMessage, TypeOK
    <3> QED BY <2>1, <2>4, <3>1, SoundWritten
  <2> QED BY <2>2, <2>3, <2>4
<1>3. ASSUME NEW m \in Messages, DeleteMessage(m) PROVE Sound(c, o)'
  <2>1. m # o /\ Write("deleted", m) /\ deleted' = deleted \cup {m} /\ stored'[o] = stored[o]
    BY <1>3 DEF DeleteMessage, TypeOK
  <2>2. o \in deleted' <=> o \in deleted
    BY <2>1
  <2> QED BY <1>1, <2>1, <2>2, SoundElsewhere
<1>4. ASSUME NEW u \in Presences, SetPresence(u) PROVE Sound(c, o)'
  <2>1. Write("presence", u) /\ deleted' = deleted
    BY <1>4 DEF SetPresence
  <2>2. CASE u # o
    <3>1. stored'[o] = stored[o]
      BY <1>4, <2>2 DEF SetPresence, TypeOK
    <3> QED BY <1>1, <2>1, <2>2, <3>1, SoundElsewhere
  <2>3. CASE u = o
    <3>1. stored'[o] = writes + 1
      BY <1>4, <2>3 DEF SetPresence, TypeOK
    <3>2. o \notin deleted'
      BY <2>1, <2>3, DeliveryAssumption DEF TypeOK
    <3> QED BY <2>1, <2>3, <3>1, <3>2, SoundWritten
  <2> QED BY <2>2, <2>3
<1>5. ASSUME NEW u \in Presences, PresenceExpires(u) PROVE Sound(c, o)'
  <2>1. stored'[o] = stored[o]
    BY <1>5 DEF PresenceExpires, TypeOK
  <2>2. UNCHANGED <<deleted, pending, log, chan, broadcastQ, shown>>
    BY <1>5 DEF PresenceExpires, pods, peers
  <2>3. Way(PodOf[c], o)' = Way(PodOf[c], o) /\ Way(PodOf[c], o) \subseteq 1..Len(log)
    BY <2>2, WaySame, WayIsInFlight, Constants
  <2> QED BY <1>1, <2>1, <2>2, <2>3, SoundSame
<1>6. ASSUME NEW d \in Conns, JoinRoom(d) \/ LeaveRoom(d) PROVE Sound(c, o)'
  <2>1. PICK kind \in {"joined", "left"} : Write(kind, NoObject) /\ UNCHANGED <<stored, deleted>>
    BY <1>6 DEF JoinRoom, LeaveRoom
  <2>2. NoObject # o
    BY DeliveryAssumption
  <2> QED BY <1>1, <2>1, <2>2, SoundElsewhere
<1>7. ASSUME NEW e \in pending, Publish(e) PROVE Sound(c, o)'
  BY <1>1, <1>7, SoundPublish
<1>8. ASSUME NEW e \in pending, PublishFails(e) PROVE Sound(c, o)'
  <2>1. e.obj # o /\ pending' = pending \ {e} /\ UNCHANGED <<stored, deleted, log, chan, broadcastQ, shown>>
    BY <1>8 DEF PublishFails, pods, peers
  <2>2. Way(PodOf[c], o)' = Way(PodOf[c], o) /\ Way(PodOf[c], o) \subseteq 1..Len(log)
    BY <2>1, WaySame, WayIsInFlight, Constants
  <2> QED BY <1>1, <2>1, <2>2, SoundSame
<1>9. ASSUME NEW m \in Messages, React(m) PROVE Sound(c, o)'
  <2>1. m # o
    BY <1>9 DEF React
  <2>2. stored'[o] = stored[o]
    BY <1>9, <2>1 DEF React, TypeOK
  <2>3. UNCHANGED <<deleted, pending, log, chan, broadcastQ, shown>>
    BY <1>9 DEF React, pods, peers
  <2>4. Way(PodOf[c], o)' = Way(PodOf[c], o) /\ Way(PodOf[c], o) \subseteq 1..Len(log)
    BY <2>3, WaySame, WayIsInFlight, Constants
  <2> QED BY <1>1, <2>2, <2>3, <2>4, SoundSame
<1> QED BY <1>2, <1>3, <1>4, <1>5, <1>6, <1>7, <1>8, <1>9 DEF Requests

(* The channel of a subscription loses D, which is accounted for.          *)
LEMMA WayCut ==
    ASSUME TypeOK, NEW s \in Subs, NEW q, NEW D, Elems(q) \subseteq Elems(chan[s]),
           Elems(chan[s]) \subseteq Elems(q) \cup D,
           chan' = [chan EXCEPT ![s] = q], UNCHANGED <<log, broadcastQ>>,
           NEW c \in Conns, NEW o \in Objects, c \in On(s[1]) => o \notin About(D)
    PROVE  Way(PodOf[c], o)' = Way(PodOf[c], o)
<1> DEFINE p == PodOf[c]
<1>1. p \in Pods /\ <<p, "room">> \in Subs /\ <<p, "presence">> \in Subs
  BY Constants
<1>2. ASSUME NEW t \in {"room", "presence"}, NEW k, log[k].obj = o
      PROVE  k \in Elems(chan'[<<p, t>>]) <=> k \in Elems(chan[<<p, t>>])
  <2>1. CASE <<p, t>> = s
    <3>1. s[1] = p /\ c \in On(p)
      BY <2>1, Constants DEF On, Topics
    <3>2. k \in Elems(chan[s]) => k \in 1..Len(log)
      BY DEF TypeOK
    <3>3. k \in D /\ k \in Elems(chan[s]) => o \in About(D)
      BY <1>2, <3>2 DEF About
    <3>4. chan'[s] = q
      BY DEF TypeOK
    <3> QED BY <2>1, <3>1, <3>3, <3>4
  <2>2. CASE <<p, t>> # s
    BY <1>1, <2>2 DEF TypeOK
  <2> QED BY <2>1, <2>2
<1> HIDE DEF p
<1>3. Way(p, o)' = Way(p, o)
  BY <1>2 DEF Way
<1> QED BY <1>3 DEF p

LEMMA SoundSubscribers ==
    ASSUME TypeOK, SoundInv, NEW s \in Subs, SubscriberLoop(s), NEW c \in Conns, NEW o \in Objects,
           <<c, o>> \notin unsure'
    PROVE  Sound(c, o)'
<1>0. UNCHANGED <<store, broadcastQ, shown, log>>
  BY DEF SubscriberLoop, Subscribe, SubscribeFails, BackoffElapses, ConnectionLost, Reconnected,
         ChannelClosed, StopSubscriber, store, peers
<1>1. Sound(c, o)
  BY DEF SubscriberLoop, Subscribe, SubscribeFails, BackoffElapses, ConnectionLost, Reconnected,
         ChannelClosed, StopSubscriber, SoundInv
<1>2. CASE ConnectionLost(s)
  <2>1. PICK n \in 0..Len(chan[s]) :
            /\ chan' = [chan EXCEPT ![s] = SubSeq(chan[s], 1, n)]
            /\ unsure' = unsure \cup (On(s[1]) \X About(Elems(SubSeq(chan[s], n + 1, Len(chan[s])))))
    BY <1>2 DEF ConnectionLost
  <2> DEFINE q == SubSeq(chan[s], 1, n)
             D == Elems(SubSeq(chan[s], n + 1, Len(chan[s])))
  <2>2. Elems(q) \subseteq Elems(chan[s]) /\ Elems(chan[s]) \subseteq Elems(q) \cup D
    BY CutAt DEF TypeOK
  <2>3. chan' = [chan EXCEPT ![s] = q] /\ (c \in On(s[1]) => o \notin About(D))
    BY <2>1
  <2> HIDE DEF q, D
  <2>4. Way(PodOf[c], o)' = Way(PodOf[c], o)
    BY <1>0, <2>2, <2>3, WayCut
  <2> QED BY <1>0, <1>1, <2>4, SoundUnmoved
<1>3. CASE StopSubscriber(s)
  <2>1. /\ chan' = [chan EXCEPT ![s] = <<>>]
        /\ c \in On(s[1]) => o \notin About(Elems(chan[s]))
    BY <1>3 DEF StopSubscriber
  <2>2. Way(PodOf[c], o)' = Way(PodOf[c], o)
    <3> DEFINE D == Elems(chan[s])
               q == <<>>
    <3>1. /\ Elems(q) \subseteq Elems(chan[s]) /\ Elems(chan[s]) \subseteq Elems(q) \cup D
          /\ chan' = [chan EXCEPT ![s] = q] /\ (c \in On(s[1]) => o \notin About(D))
      BY <2>1, EmptyChannel
    <3> HIDE DEF D, q
    <3> QED BY <1>0, <3>1, WayCut
  <2> QED BY <1>0, <1>1, <2>2, SoundUnmoved
<1>4. CASE ~ConnectionLost(s) /\ ~StopSubscriber(s)
  <2>1. chan' = chan
    BY <1>4 DEF SubscriberLoop, Subscribe, SubscribeFails, BackoffElapses, Reconnected, ChannelClosed
  <2>2. Way(PodOf[c], o)' = Way(PodOf[c], o)
    BY <1>0, <2>1, WaySame
  <2> QED BY <1>0, <1>1, <2>2, SoundUnmoved
<1> QED BY <1>2, <1>3, <1>4

(* An event of the room moves on, or is dropped and accounted for.         *)
LEMMA SoundReceive ==
    ASSUME TypeOK, SoundInv, NEW p \in Pods, ReceiveRoomEvent(p), NEW c \in Conns, NEW o \in Objects,
           <<c, o>> \notin unsure'
    PROVE  Sound(c, o)'
<1> DEFINE s == <<p, "room">>
           q == chan[s]
           b == broadcastQ[p]
<1>1. s \in Subs /\ s[1] = p /\ q \in Seq(Nat) /\ q # <<>> /\ b \in Seq(Nat)
  BY Constants DEF ReceiveRoomEvent, Reading, TypeOK
<1>2. chan' = [chan EXCEPT ![s] = Tail(q)] /\ UNCHANGED <<store, log, shown>>
  BY DEF ReceiveRoomEvent, store, peers
<1>3. \/ broadcastQ' = [broadcastQ EXCEPT ![p] = Append(b, Head(q))] /\ unsure' = unsure
      \/ broadcastQ' = broadcastQ /\ unsure' = unsure \cup (On(p) \X About({Head(q)}))
  BY DEF ReceiveRoomEvent
<1>4. Sound(c, o)
  BY <1>3 DEF SoundInv
<1> HIDE DEF s, q, b
<1>5. Elems(q) = Elems(Tail(q)) \cup {Head(q)} /\ Head(q) \in Nat
  BY <1>1, TakeFrom
<1>6. CASE broadcastQ' = broadcastQ /\ unsure' = unsure \cup (On(p) \X About({Head(q)}))
  <2>1. Way(PodOf[c], o)' = Way(PodOf[c], o)
    <3> DEFINE D == {Head(q)}
               r == Tail(q)
    <3>1. /\ Elems(r) \subseteq Elems(chan[s]) /\ Elems(chan[s]) \subseteq Elems(r) \cup D
          /\ chan' = [chan EXCEPT ![s] = r]
      BY <1>2, <1>5 DEF q
    <3>2. (c \in On(s[1]) => o \notin About(D)) /\ UNCHANGED <<log, broadcastQ>> /\ s \in Subs
      BY <1>1, <1>2, <1>6
    <3> HIDE DEF D, r
    <3> QED BY <3>1, <3>2, WayCut
  <2> QED BY <1>2, <1>4, <2>1, SoundUnmoved
<1>7. CASE broadcastQ' = [broadcastQ EXCEPT ![p] = Append(b, Head(q))] /\ unsure' = unsure
  <2>1. Elems(Append(b, Head(q))) = Elems(b) \cup {Head(q)}
    BY <1>1, <1>5, PutInto
  <2>2. PodOf[c] \in Pods /\ <<PodOf[c], "room">> \in Subs /\ <<PodOf[c], "presence">> \in Subs
        /\ <<PodOf[c], "presence">> # s
    BY Constants DEF s
  <2>3. Elems(chan'[<<PodOf[c], "presence">>]) = Elems(chan[<<PodOf[c], "presence">>])
    BY <1>2, <2>2 DEF TypeOK
  <2>4. Elems(broadcastQ'[PodOf[c]]) \cup Elems(chan'[<<PodOf[c], "room">>])
           = Elems(broadcastQ[PodOf[c]]) \cup Elems(chan[<<PodOf[c], "room">>])
    <3>1. CASE PodOf[c] = p
      <4>1. broadcastQ'[p] = Append(b, Head(q)) /\ chan'[s] = Tail(q)
        BY <1>1, <1>2, <1>7 DEF TypeOK
      <4> QED BY <1>5, <2>1, <3>1, <4>1 DEF b, s, q
    <3>2. CASE PodOf[c] # p
      <4>1. broadcastQ'[PodOf[c]] = broadcastQ[PodOf[c]]
        BY <1>7, <2>2, <3>2 DEF TypeOK
      <4>2. <<PodOf[c], "room">> # s
        BY <3>2 DEF s
      <4>3. chan'[<<PodOf[c], "room">>] = chan[<<PodOf[c], "room">>]
        BY <1>2, <2>2, <4>2 DEF TypeOK
      <4> QED BY <4>1, <4>3
    <3> QED BY <3>1, <3>2
  <2>5. Way(PodOf[c], o)' = Way(PodOf[c], o)
    BY <1>2, <2>3, <2>4 DEF Way
  <2> QED BY <1>2, <1>4, <2>5, SoundUnmoved
<1> QED BY <1>3, <1>6, <1>7

(* The publication at i leaves for those who follow what it is about.      *)
LEMMA SoundGive ==
    ASSUME TypeOK, EventsOK, NEW p \in Pods, NEW S, S \subseteq On(p), NEW i \in 1..Len(log),
           log[i] \in Event, Give(S, i), UNCHANGED store,
           NEW c \in Conns, NEW o \in Objects, Sound(c, o),
           PodOf[c] # p => Way(PodOf[c], o)' = Way(PodOf[c], o),
           PodOf[c] = p => Way(PodOf[c], o)' = Way(PodOf[c], o) \ {i},
           PodOf[c] = p /\ log[i].obj = o =>
               c \in S /\ i \in Way(PodOf[c], o) /\ \A j \in Way(PodOf[c], o)' : i < j
    PROVE  Sound(c, o)'
<1> DEFINE W == Way(PodOf[c], o)
<1>1. shown'[c][o] = IF c \in S /\ o \in Names(log[i]) THEN log[i].ver ELSE shown[c][o]
  BY DEF Give
<1>2. CASE PodOf[c] # p \/ log[i].obj # o
  <2>1. shown'[c][o] = shown[c][o]
    BY <1>1, <1>2 DEF On, Names
  <2>2. log[i].obj # o => i \notin Way(PodOf[c], o)
    BY DEF Way
  <2>3. Way(PodOf[c], o)' = Way(PodOf[c], o)
    BY <1>2, <2>2
  <2> QED BY <2>1, <2>3, SoundUnmoved
<1>3. CASE PodOf[c] = p /\ log[i].obj = o
  <2>1. c \in S /\ i \in W /\ W' = W \ {i} /\ \A j \in W' : i < j
    BY <1>3
  <2>2. o \notin deleted
    BY <2>1 DEF Sound
  <2>3. EventOK(log[i], deleted) /\ o # NoObject
    BY DeliveryAssumption DEF EventsOK
  <2>4. log[i].kind \in {"edited", "presence"}
    BY <1>3, <2>2, <2>3 DEF EventOK, Event
  <2>5. shown'[c][o] = log[i].ver
    BY <1>1, <1>3, <2>1, <2>4 DEF Names
  <2>6. UNCHANGED <<stored, deleted, pending, log>>
    BY DEF store
  <2>7. W \subseteq 1..Len(log) /\ Len(log) \in Nat
    BY WayIsInFlight, Constants, LenProperties DEF TypeOK
  <2>8. Pending(o)' <=> Pending(o)
    BY <2>6 DEF Pending
  <2>9. ToCome(o) => ToCome(o)'
    BY <2>6 DEF ToCome
  <2>10. ASSUME Arriving(c, o) PROVE Arriving(c, o)'
    <3>1. /\ \A k \in W : (\A j \in W : j <= k) => log[k].ver = stored[o]
          /\ ~Pending(o) \/ \E k \in 1..Len(log) : log[k].obj = o /\ log[k].ver = stored[o]
      BY <2>10 DEF Arriving
    <3> HIDE DEF W
    <3>2. W' = {} => shown'[c][o] = stored[o]
      BY <2>1, <2>5, <2>7, <3>1
    <3>3. ASSUME NEW k \in W', \A j \in W' : j <= k PROVE log[k].ver = stored[o]
      <4>1. k \in W /\ k \in Nat /\ i \in Nat /\ i < k
        BY <2>1, <2>7
      <4>2. \A j \in W : j <= k
        BY <2>1, <3>3, <4>1
      <4> QED BY <3>1, <4>1, <4>2
    <3>4. /\ W' = {} => shown'[c][o] = stored'[o]
          /\ \A k \in W' : (\A j \in W' : j <= k) => log'[k].ver = stored'[o]
          /\ ~Pending(o)' \/ \E k \in 1..Len(log') : log'[k].obj = o /\ log'[k].ver = stored'[o]
      BY <2>6, <2>8, <3>1, <3>2, <3>3
    <3> QED BY <3>4 DEF Arriving, W
  <2> QED BY <2>2, <2>6, <2>9, <2>10 DEF Sound
<1> QED BY <1>2, <1>3

(* A copy that is certain again after a publication was given.             *)
LEMMA SoundSettled ==
    ASSUME TypeOK', NEW p \in Pods, NEW S, S \subseteq On(p), NEW i, Give(S, i), UNCHANGED store,
           NEW c \in Conns, NEW o \in Objects, <<c, o>> \in Settled(S, i, p)
    PROVE  Sound(c, o)'
<1>1. /\ c \in S /\ o \in Names(log[i])
      /\ log[i].ver = stored[o] /\ ~Pending(o) /\ ~InFlight(p, o)'
  BY SettledOf
<1>2. PodOf[c] = p
  BY <1>1 DEF On
<1>3. shown'[c][o] = stored'[o]
  BY <1>1 DEF Give, store
<1>4. ~Pending(o)'
  BY <1>1 DEF Pending, store
<1>5. Way(p, o)' = {}
  <2>1. WayIsClear'
    BY ClearWay, PTL
  <2> QED BY <1>1, <2>1 DEF WayIsClear
<1> QED BY <1>2, <1>3, <1>4, <1>5, SoundAgain

LEMMA SoundFanout ==
    ASSUME TypeOK, TypeOK', OrderInv, ConvergeInv, NEW p \in Pods, Fanout(p),
           NEW c \in Conns, NEW o \in Objects, <<c, o>> \notin unsure'
    PROVE  Sound(c, o)'
<1> DEFINE q == broadcastQ[p]
           i == Head(q)
           T == Subscribed \cap On(p)
           r == PodOf[c]
<1>1. PICK M \in SUBSET T : /\ Give(T \ M, i)
                            /\ unsure' = (unsure \ Settled(T \ M, i, p)) \cup (M \X Objects)
  BY DEF Fanout
<1>2. /\ broadcastQ' = [broadcastQ EXCEPT ![p] = Tail(q)] /\ UNCHANGED <<store, log, chan>> /\ q # <<>>
  BY DEF Fanout, store
<1>3. /\ i \in 1..Len(log) /\ log[i] \in Event /\ TopicOf(log[i]) = "room" /\ log[i].obj \notin Presences
      /\ Elems(q) = Elems(Tail(q)) \cup {i} /\ \A y \in Elems(Tail(q)) : i < y
      /\ \A y \in Elems(chan[<<p, "room">>]) : i < y
  BY <1>2, QueueHead DEF ConvergeInv
<1>4. \A y \in Elems(chan[<<p, "presence">>]) : TopicOf(log[y]) = "presence"
  BY Constants DEF OrderInv, ChanOrder
<1>5. T \ M \subseteq On(p) /\ r \in Pods
  BY Constants
<1>6. CASE <<c, o>> \in Settled(T \ M, i, p)
  BY <1>1, <1>2, <1>5, <1>6, SoundSettled
<1>7. CASE <<c, o>> \notin unsure
  <2>1. Sound(c, o) /\ Follows(c, o) /\ EventsOK /\ c \notin M
    BY <1>1, <1>7 DEF ConvergeInv, SoundInv, FollowsKnown
  <2>2. PodOf[c] = p /\ log[i].obj = o => c \in T \ M
    BY <1>3, <2>1 DEF Follows, On
  <2> HIDE DEF q, i, T, r
  <2>3. ASSUME r # p PROVE Way(r, o)' = Way(r, o)
    <3>1. broadcastQ'[r] = broadcastQ[r]
      BY <1>2, <1>5, <2>3 DEF TypeOK
    <3> QED BY <1>2, <3>1 DEF Way
  <2>4. ASSUME r = p
        PROVE  /\ Way(r, o)' = Way(r, o) \ {i}
               /\ log[i].obj = o => i \in Way(r, o) /\ \A j \in Way(r, o)' : i < j
    <3> DEFINE A == Elems(Tail(q))
               B == Elems(chan[<<p, "room">>])
               C == Elems(chan[<<p, "presence">>])
    <3>1. broadcastQ'[p] = Tail(q)
      BY <1>2 DEF TypeOK
    <3>2. i \in Nat /\ i \notin A /\ i \notin B /\ i \notin C
      BY <1>3, <1>4
    <3>3. /\ Way(p, o) = {k \in (A \cup {i}) \cup B \cup C : log[k].obj = o}
          /\ Way(p, o)' = {k \in A \cup B \cup C : log[k].obj = o}
      BY <1>2, <1>3, <3>1 DEF Way, q
    <3>4. ASSUME log[i].obj = o, NEW k \in C PROVE log[k].obj # o
      <4>1. k \in 1..Len(log) /\ log[k].kind = "presence"
        BY <1>4, Constants DEF TypeOK, TopicOf
      <4>2. log[k].obj \in Presences
        BY <2>1, <4>1 DEF EventsOK, EventOK
      <4> QED BY <1>3, <3>4, <4>2
    <3> HIDE DEF A, B, C
    <3>5. \A k \in A \cup B : i < k
      BY <1>3 DEF A, B
    <3>6. Way(p, o)' = Way(p, o) \ {i}
      BY <3>2, <3>3
    <3>7. log[i].obj = o => i \in Way(p, o) /\ \A j \in Way(p, o)' : i < j
      BY <3>3, <3>4, <3>5
    <3> QED BY <2>4, <3>6, <3>7
  <2> DEFINE S == T \ M
  <2>5. S \subseteq On(p) /\ Give(S, i) /\ UNCHANGED store
    BY <1>1, <1>2, <1>5
  <2> HIDE DEF S
  <2>9. /\ PodOf[c] # p => Way(PodOf[c], o)' = Way(PodOf[c], o)
        /\ PodOf[c] = p => Way(PodOf[c], o)' = Way(PodOf[c], o) \ {i}
        /\ PodOf[c] = p /\ log[i].obj = o =>
              c \in S /\ i \in Way(PodOf[c], o) /\ \A j \in Way(PodOf[c], o)' : i < j
    BY <2>2, <2>3, <2>4 DEF r, S
  <2> QED BY <1>3, <2>1, <2>5, <2>9, SoundGive
<1> QED BY <1>1, <1>6, <1>7

LEMMA SoundPresence ==
    ASSUME TypeOK, TypeOK', OrderInv, ConvergeInv, NEW p \in Pods, ReceivePresence(p),
           NEW c \in Conns, NEW o \in Objects, <<c, o>> \notin unsure'
    PROVE  Sound(c, o)'
<1> DEFINE s == <<p, "presence">>
           q == chan[s]
           i == Head(q)
           T == Connected \cap On(p)
           r == PodOf[c]
<1>1. PICK M \in SUBSET T : /\ Give(T \ M, i)
                            /\ unsure' = (unsure \ Settled(T \ M, i, p)) \cup (M \X About({i}))
  BY DEF ReceivePresence
<1>2. /\ chan' = [chan EXCEPT ![s] = Tail(q)] /\ UNCHANGED <<store, log, broadcastQ>> /\ q # <<>>
  BY DEF ReceivePresence, Reading, store
<1>3. /\ i \in 1..Len(log) /\ log[i] \in Event /\ log[i].kind = "presence" /\ log[i].obj \in Presences
      /\ Elems(q) = Elems(Tail(q)) \cup {i} /\ \A y \in Elems(Tail(q)) : i < y
  BY <1>2, PresenceHead DEF ConvergeInv
<1>4. /\ \A y \in Elems(chan[<<p, "room">>]) : TopicOf(log[y]) = "room"
      /\ \A y \in Elems(broadcastQ[p]) : TopicOf(log[y]) = "room"
  BY Constants DEF OrderInv, ChanOrder, QueueOrder
<1>5. /\ T \ M \subseteq On(p) /\ r \in Pods /\ s \in Subs
      /\ <<r, "room">> \in Subs /\ <<r, "presence">> \in Subs /\ <<r, "room">> # s
      /\ r # p => <<r, "presence">> # s
  BY Constants
<1>6. CASE <<c, o>> \in Settled(T \ M, i, p)
  BY <1>1, <1>2, <1>5, <1>6, SoundSettled
<1>7. CASE <<c, o>> \notin unsure
  <2>1. Sound(c, o) /\ Follows(c, o) /\ EventsOK
    BY <1>7 DEF ConvergeInv, SoundInv, FollowsKnown
  <2>2. log[i].obj = o => c \notin M
    BY <1>1, <1>3 DEF About
  <2>3. PodOf[c] = p /\ log[i].obj = o => c \in T \ M
    BY <1>3, <2>1, <2>2 DEF Follows, On
  <2> HIDE DEF s, q, i, T, r
  <2>4. chan'[<<r, "room">>] = chan[<<r, "room">>]
    BY <1>2, <1>5 DEF TypeOK
  <2>5. ASSUME r # p PROVE Way(r, o)' = Way(r, o)
    <3>1. chan'[<<r, "presence">>] = chan[<<r, "presence">>]
      BY <1>2, <1>5, <2>5 DEF TypeOK
    <3> QED BY <1>2, <2>4, <3>1 DEF Way
  <2>6. ASSUME r = p
        PROVE  /\ Way(r, o)' = Way(r, o) \ {i}
               /\ log[i].obj = o => i \in Way(r, o) /\ \A j \in Way(r, o)' : i < j
    <3> DEFINE A == Elems(Tail(q))
               B == Elems(chan[<<p, "room">>]) \cup Elems(broadcastQ[p])
    <3>1. chan'[<<p, "presence">>] = Tail(q)
      BY <1>2, <1>5 DEF TypeOK, s
    <3>2. i \in Nat /\ i \notin A /\ i \notin B
      BY <1>3, <1>4 DEF TopicOf
    <3>3. /\ Way(p, o) = {k \in (A \cup {i}) \cup B : log[k].obj = o}
          /\ Way(p, o)' = {k \in A \cup B : log[k].obj = o}
      BY <1>2, <1>3, <2>4, <2>6, <3>1 DEF Way, q, s
    <3>4. ASSUME log[i].obj = o, NEW k \in B PROVE log[k].obj # o
      <4>1. k \in 1..Len(log) /\ log[k].kind # "presence"
        BY <1>4, Constants DEF TypeOK, TopicOf
      <4>2. log[k].obj \notin Presences
        BY <2>1, <4>1 DEF EventsOK, EventOK
      <4> QED BY <1>3, <3>4, <4>2
    <3> HIDE DEF A, B
    <3>5. \A k \in A : i < k
      BY <1>3 DEF A
    <3>6. Way(p, o)' = Way(p, o) \ {i}
      BY <3>2, <3>3
    <3>7. log[i].obj = o => i \in Way(p, o) /\ \A j \in Way(p, o)' : i < j
      BY <3>3, <3>4, <3>5
    <3> QED BY <2>6, <3>6, <3>7
  <2> DEFINE S == T \ M
  <2>7. S \subseteq On(p) /\ Give(S, i) /\ UNCHANGED store
    BY <1>1, <1>2, <1>5
  <2> HIDE DEF S
  <2>9. /\ PodOf[c] # p => Way(PodOf[c], o)' = Way(PodOf[c], o)
        /\ PodOf[c] = p => Way(PodOf[c], o)' = Way(PodOf[c], o) \ {i}
        /\ PodOf[c] = p /\ log[i].obj = o =>
              c \in S /\ i \in Way(PodOf[c], o) /\ \A j \in Way(PodOf[c], o)' : i < j
    BY <2>3, <2>5, <2>6 DEF r, S
  <2> QED BY <1>3, <2>1, <2>7, <2>9, SoundGive
<1> QED BY <1>1, <1>6, <1>7

LEMMA SoundPeer ==
    ASSUME TypeOK, SoundInv, NEW d \in Conns, Peer(d), NEW c \in Conns, NEW o \in Objects,
           <<c, o>> \notin unsure'
    PROVE  Sound(c, o)'
<1>1. UNCHANGED <<store, log, pending, stored, chan, broadcastQ>>
  BY DEF Peer, Connect, CheckMembership, SubscribeToRoom, UnsubscribeFromRoom, Disconnect, GetRoomMessages,
         store, pods
<1>2. Way(PodOf[c], o)' = Way(PodOf[c], o)
  BY <1>1, WaySame
<1>3. CASE GetRoomMessages(d)
  <2>1. shown'[c][o] = IF c = d /\ o \in Messages THEN stored[o] ELSE shown[c][o]
    BY <1>3 DEF GetRoomMessages, TypeOK
  <2>2. CASE <<c, o>> \in unsure
    <3>1. c = d /\ o \in Messages /\ ~Pending(o) /\ ~InFlight(PodOf[c], o)
      BY <1>3, <2>2 DEF GetRoomMessages
    <3>2. Way(PodOf[c], o)' = {} /\ ~Pending(o)'
      BY <1>1, <1>2, <3>1, WayIsInFlight, Constants DEF Pending
    <3> QED BY <1>1, <2>1, <3>1, <3>2, SoundAgain
  <2>3. CASE <<c, o>> \notin unsure
    <3>1. Sound(c, o)
      BY <2>3 DEF SoundInv
    <3>2. CASE shown'[c][o] = shown[c][o]
      BY <1>1, <1>2, <3>1, <3>2, SoundUnmoved
    <3>3. CASE shown'[c][o] = stored[o]
      <4>1. UNCHANGED <<stored, deleted, pending, log>>
        BY <1>1 DEF store
      <4>2. Arriving(c, o) => Arriving(c, o)'
        BY <1>2, <3>3, <4>1 DEF Arriving, Pending
      <4>3. ToCome(o) => ToCome(o)'
        BY <4>1 DEF ToCome
      <4> QED BY <1>2, <3>1, <3>3, <4>1, <4>2, <4>3 DEF Sound
    <3> QED BY <2>1, <3>2, <3>3
  <2> QED BY <2>2, <2>3
<1>4. CASE ~GetRoomMessages(d)
  <2>1. shown' = shown /\ unsure \subseteq unsure'
    BY <1>4 DEF Peer, Connect, CheckMembership, SubscribeToRoom, UnsubscribeFromRoom, Disconnect
  <2>2. Sound(c, o)
    BY <2>1 DEF SoundInv
  <2> QED BY <1>1, <1>2, <2>1, <2>2, SoundUnmoved
<1> QED BY <1>3, <1>4

LEMMA ConvergeStep ==
    TypeOK /\ TypeOK' /\ OrderInv /\ ConvergeInv /\ [Next]_vars => ConvergeInv'
<1> SUFFICES ASSUME TypeOK, TypeOK', OrderInv, ConvergeInv, [Next]_vars PROVE ConvergeInv'
  OBVIOUS
<1>1. EventsOK' /\ FollowsKnown'
  BY EventsStep, FollowsStep DEF ConvergeInv
<1>2. SoundInv'
  <2> SUFFICES ASSUME NEW c \in Conns, NEW o \in Objects, <<c, o>> \notin unsure' PROVE Sound(c, o)'
    BY DEF SoundInv
  <2>0. EventsOK /\ SoundInv
    BY DEF ConvergeInv
  <2>1. ASSUME UNCHANGED <<store, shown, unsure, log, chan, broadcastQ>> PROVE Sound(c, o)'
    <3>1. Sound(c, o) /\ Way(PodOf[c], o)' = Way(PodOf[c], o)
      BY <2>0, <2>1, WaySame DEF SoundInv
    <3> QED BY <2>1, <3>1, SoundUnmoved
  <2>2. CASE UNCHANGED vars
    BY <2>1, <2>2 DEF vars, store, pods, peers
  <2>3. CASE Requests
    BY <2>0, <2>3, SoundRequests
  <2>4. CASE \E s \in Subs : SubscriberLoop(s)
    BY <2>0, <2>4, SoundSubscribers
  <2>5. ASSUME NEW p \in Pods, Cancel(p) PROVE Sound(c, o)'
    BY <2>1, <2>5 DEF Cancel, store, peers
  <2>6. ASSUME NEW p \in Pods, ReceiveRoomEvent(p) PROVE Sound(c, o)'
    BY <2>0, <2>6, SoundReceive
  <2>7. ASSUME NEW p \in Pods, ReceivePresence(p) \/ Fanout(p) PROVE Sound(c, o)'
    BY <2>7, SoundPresence, SoundFanout
  <2>8. CASE \E d \in Conns : Peer(d)
    BY <2>0, <2>8, SoundPeer
  <2> QED BY <2>2, <2>3, <2>4, <2>5, <2>6, <2>7, <2>8 DEF Next
<1> QED BY <1>1, <1>2 DEF ConvergeInv

(* Convergence on any number of pods: once the requests about an object    *)
(* are done and nothing about it is on its way to a pod, every connection  *)
(* there that follows it shows what is stored, unless one of the losses    *)
(* the code lets happen, or a change it tells nobody of (a reaction, a     *)
(* deletion, an expiry), is on record for it.                              *)
THEOREM CopiesConverge == Spec => []Converges
<1>1. Init => TypeOK /\ OrderInv /\ ConvergeInv
  BY TypeInit, OrderInit, ConvergeInit
<1>2. TypeOK /\ OrderInv /\ ConvergeInv /\ [Next]_vars => (TypeOK /\ OrderInv /\ ConvergeInv)'
  BY TypeStep, OrderStep, ConvergeStep
<1> QED BY <1>1, <1>2, ConvergeEnough, PTL DEF Spec
=============================================================================
