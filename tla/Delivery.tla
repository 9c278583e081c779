------------------------------ MODULE Delivery ------------------------------
(***************************************************************************)
(* The path of a change from the request that makes it, on any pod, to the *)
(* connections that show it: store, then PUBLISH (message_service.go,      *)
(* room_service.go, pubsub.go SetPresence), the two subscriber goroutines  *)
(* of every pod (server.go subscribeToRoomMessages, subscribeToPresence),  *)
(* the hub's bounded broadcast channel and its fan-out.                    *)
(*                                                                         *)
(* One room.  Its messages and the presence keys are objects; what an      *)
(* object holds is the number of the write that made it, 0 when it is      *)
(* absent.  Channels hold positions of log, the order in which Redis took  *)
(* the publications.  Hub refines the fan-out of one pod, Messages and     *)
(* Rooms the requests.                                                     *)
(***************************************************************************)
EXTENDS Naturals, Sequences, FiniteSets

CONSTANTS
    Pods, Conns,
    PodOf,          \* the pod a connection is on
    Messages, Presences,
    NoObject,       \* what an event that names no object is about
    BroadcastCap,   \* capacity of Hub.broadcast
    MaxBackoff,     \* the longest delay, in units of the first one
    MaxPending,     \* bound: requests between their write and their PUBLISH
    MaxWrites,      \* bound: changes made
    MaxFaults       \* bound: faults of Redis, full buffers, stopped pods

Objects == Messages \cup Presences
Topics  == {"room", "presence"}
Subs    == Pods \X Topics

ASSUME DeliveryAssumption ==
    /\ PodOf \in [Conns -> Pods]
    /\ NoObject \notin Objects /\ Messages \cap Presences = {}
    /\ BroadcastCap \in Nat \ {0} /\ MaxBackoff \in Nat \ {0}
    /\ MaxPending \in Nat /\ MaxWrites \in Nat /\ MaxFaults \in Nat

VARIABLES
    stored,       \* the write each object holds
    deleted,      \* messages whose deleted_at is set
    members,      \* connections whose user is a member of the room
    pending,      \* what requests, on any pod, have stored and not yet published
    writes,       \* writes made so far
    log,          \* history: the publications, in Redis's order
    sub,          \* state of each subscriber goroutine
    backoff,      \* its delay before the next attempt
    chan,         \* publications on their way to it: Redis, socket, Go channel
    broadcastQ,   \* Hub.broadcast of each pod
    conn,         \* life of each connection
    last,         \* history: the publication it was given last, per topic
    shown,        \* what its client shows of each object
    unsure,       \* history: <<connection, object>> whose copy a fault may have left stale
    faults,       \* faults so far
    stopping      \* pods whose ctx is cancelled

store == <<stored, deleted, members, pending, writes, log>>
pods  == <<sub, backoff, chan, broadcastQ, stopping>>
peers == <<conn, last, shown>>
vars  == <<store, pods, peers, unsure, faults>>

Event == [kind: {"edited", "deleted", "joined", "left", "presence"},
          obj: Objects \cup {NoObject}, ver: 1..MaxWrites]
TopicOf(e) == IF e.kind = "presence" THEN "presence" ELSE "room"

On(p) == {c \in Conns : PodOf[c] = p}
Connected == {c \in Conns : conn[c] \in {"on", "checked", "subscribed"}}
Subscribed == {c \in Conns : conn[c] = "subscribed"}

Init ==
    /\ stored = [o \in Objects |-> 0] /\ deleted = {} /\ members = Conns
    /\ pending = {} /\ writes = 0 /\ log = <<>>
    /\ sub = [s \in Subs |-> "starting"] /\ backoff = [s \in Subs |-> 1]
    /\ chan = [s \in Subs |-> <<>>]
    /\ broadcastQ = [p \in Pods |-> <<>>]
    /\ conn = [c \in Conns |-> "new"]
    /\ last = [c \in Conns |-> [t \in Topics |-> 0]]
    /\ shown = [c \in Conns |-> [o \in Objects |-> 0]]
    /\ unsure = Conns \X Objects
    /\ faults = 0 /\ stopping = {}

Fault == faults < MaxFaults /\ faults' = faults + 1

Elems(q) == {q[i] : i \in 1..Len(q)}

(* The objects that the publications at the positions I are about.         *)
About(I) == {log[i].obj : i \in I \cap 1..Len(log)} \cap Objects

Pending(o) == \E e \in pending : e.obj = o
InFlight(p, o) == o \in About(Elems(broadcastQ[p]) \cup UNION {Elems(chan[<<p, t>>]) : t \in Topics})

-----------------------------------------------------------------------------
(* Requests: one step stores, the next one publishes.                      *)

(* A request makes write number writes + 1, which it will publish.         *)
Write(kind, o) ==
    /\ writes < MaxWrites /\ Cardinality(pending) < MaxPending
    /\ writes' = writes + 1
    /\ pending' = pending \cup {[kind |-> kind, obj |-> o, ver |-> writes + 1]}
    /\ UNCHANGED <<log, pods, peers, faults>>

(* SendMessage and EditMessage; an edit may have passed its checks before  *)
(* the message was deleted.                                                *)
WriteMessage(m) ==
    /\ Write("edited", m)
    /\ stored' = IF m \in deleted THEN stored ELSE [stored EXCEPT ![m] = writes + 1]
    /\ UNCHANGED <<deleted, members, unsure>>

(* The history no longer lists a deleted message; a second request may     *)
(* have passed its checks before the first one deleted it.                 *)
DeleteMessage(m) ==
    /\ stored[m] # 0 \/ m \in deleted
    /\ Write("deleted", m)
    /\ stored' = [stored EXCEPT ![m] = 0]
    /\ deleted' = deleted \cup {m}
    /\ unsure' = unsure \cup (Conns \X {m})
    /\ UNCHANGED members

(* AddReaction and RemoveReaction, committed by UpdateReactionsTx on a     *)
(* message that the history still lists: nothing is published, and only    *)
(* the connection that asked is answered.                                  *)
React(m) ==
    /\ stored[m] # 0 /\ writes < MaxWrites
    /\ writes' = writes + 1
    /\ stored' = [stored EXCEPT ![m] = writes + 1]
    /\ unsure' = unsure \cup (Conns \X {m})
    /\ UNCHANGED <<deleted, members, pending, log, pods, peers, faults>>

(* SET presence:<user> with a time to live.                                *)
SetPresence(u) ==
    /\ Write("presence", u)
    /\ stored' = [stored EXCEPT ![u] = writes + 1]
    /\ UNCHANGED <<deleted, members, unsure>>

(* Five minutes pass: nobody is told.                                      *)
PresenceExpires(u) ==
    /\ stored[u] # 0
    /\ stored' = [stored EXCEPT ![u] = 0]
    /\ unsure' = unsure \cup (Conns \X {u})
    /\ UNCHANGED <<deleted, members, pending, writes, log, pods, peers, faults>>

(* JoinRoom of a user that GetMember did not find among the members; by    *)
(* the time it commits another join may have made them one, and both are   *)
(* announced.  A request that does find them returns and changes nothing.  *)
JoinRoom(c) ==
    /\ Write("joined", NoObject)
    /\ members' = members \cup {c}
    /\ UNCHANGED <<stored, deleted, unsure>>

(* LeaveRoom: the WebSocket subscriptions of the user are left alone.      *)
LeaveRoom(c) ==
    /\ c \in members
    /\ Write("left", NoObject)
    /\ members' = members \ {c}
    /\ UNCHANGED <<stored, deleted, unsure>>

(* Redis hands a publication to the subscriptions that stand at that time. *)
Standing(s) == sub[s] = "up"

(* The publication of a write that is no longer the newest one published.  *)
Late(e) == e.obj \in deleted \/ \E i \in 1..Len(log) : log[i].obj = e.obj /\ log[i].ver > e.ver

Publish(e) ==
    /\ pending' = pending \ {e}
    /\ log' = Append(log, e)
    /\ chan' = [s \in Subs |-> IF s[2] = TopicOf(e) /\ Standing(s)
                               THEN Append(chan[s], Len(log) + 1) ELSE chan[s]]
    /\ unsure' = unsure \cup ({c \in Conns : Late(e) \/ ~Standing(<<PodOf[c], TopicOf(e)>>)}
                               \X ({e.obj} \cap Objects))
    /\ UNCHANGED <<stored, deleted, members, writes, sub, backoff, broadcastQ, stopping, peers, faults>>

(* PUBLISH fails, which every caller ignores, or the pod dies before it.   *)
PublishFails(e) ==
    /\ Fault
    /\ pending' = pending \ {e}
    /\ unsure' = unsure \cup (Conns \X ({e.obj} \cap Objects))
    /\ UNCHANGED <<stored, deleted, members, writes, log, pods, peers>>

-----------------------------------------------------------------------------
(* The loops of subscribeToRoomMessages and subscribeToPresence.           *)

Subscribe(s) ==
    /\ sub[s] = "starting" /\ s[1] \notin stopping
    /\ sub' = [sub EXCEPT ![s] = "up"]
    /\ backoff' = [backoff EXCEPT ![s] = 1]
    /\ UNCHANGED <<store, chan, broadcastQ, stopping, peers, unsure, faults>>

SubscribeFails(s) ==
    /\ Fault /\ sub[s] = "starting" /\ s[1] \notin stopping
    /\ sub' = [sub EXCEPT ![s] = "backoff"]
    /\ UNCHANGED <<store, backoff, chan, broadcastQ, stopping, peers, unsure>>

(* case <-time.After(backoff) *)
BackoffElapses(s) ==
    /\ sub[s] = "backoff"
    /\ sub' = [sub EXCEPT ![s] = "starting"]
    /\ backoff' = [backoff EXCEPT ![s] = IF 2 * @ > MaxBackoff THEN MaxBackoff ELSE 2 * @]
    /\ UNCHANGED <<store, chan, broadcastQ, stopping, peers, unsure, faults>>

(* The connection to Redis breaks.  What had not reached the pod is lost.  *)
(* The library either reconnects, or closes the channel of the             *)
(* subscription, which the goroutine notices when it has emptied it.       *)
ConnectionLost(s) ==
    /\ Fault /\ sub[s] = "up"
    /\ \E n \in 0..Len(chan[s]), to \in {"cut", "closed"} :
         /\ sub' = [sub EXCEPT ![s] = to]
         /\ chan' = [chan EXCEPT ![s] = SubSeq(@, 1, n)]
         /\ unsure' = unsure \cup (On(s[1]) \X About(Elems(SubSeq(chan[s], n + 1, Len(chan[s])))))
    /\ UNCHANGED <<store, backoff, broadcastQ, stopping, peers>>

Reconnected(s) ==
    /\ sub[s] = "cut"
    /\ sub' = [sub EXCEPT ![s] = "up"]
    /\ UNCHANGED <<store, backoff, chan, broadcastQ, stopping, peers, unsure, faults>>

ChannelClosedForGood(s) ==
    /\ sub[s] = "closed" /\ chan[s] = <<>>
    /\ sub' = [sub EXCEPT ![s] = "stopped"]
    /\ UNCHANGED <<store, backoff, chan, broadcastQ, stopping, peers, unsure, faults>>

(* !ok: break messageLoop, sub.Close and around again.                     *)
ChannelClosed(s) ==
    /\ sub[s] = "closed" /\ chan[s] = <<>>
    /\ sub' = [sub EXCEPT ![s] = "starting"]
    /\ UNCHANGED <<store, backoff, chan, broadcastQ, stopping, peers, unsure, faults>>

(* The select statements that wait all wait for ctx.Done as well.          *)
StopSubscriber(s) ==
    /\ s[1] \in stopping /\ sub[s] # "stopped"
    /\ sub' = [sub EXCEPT ![s] = "stopped"]
    /\ chan' = [chan EXCEPT ![s] = <<>>]
    /\ unsure' = unsure \cup (On(s[1]) \X About(Elems(chan[s])))
    /\ UNCHANGED <<store, backoff, broadcastQ, stopping, peers, faults>>

(* Shutdown of pod p begins: s.cancel().                                   *)
Cancel(p) ==
    /\ Fault /\ p \notin stopping
    /\ stopping' = stopping \cup {p}
    /\ UNCHANGED <<store, sub, backoff, chan, broadcastQ, peers, unsure>>

Reading(s) == sub[s] \in {"up", "cut", "closed"} /\ chan[s] # <<>>

(* Every event handled by a goroutine of its own.                          *)
ReceiveRoomEventAsync(p) ==
    LET s == <<p, "room">> IN
    /\ Reading(s)
    /\ \E i \in Elems(chan[s]) :
         /\ chan' = [chan EXCEPT ![s] = SelectSeq(@, LAMBDA j : j # i)]
         /\ Len(broadcastQ[p]) < BroadcastCap
         /\ broadcastQ' = [broadcastQ EXCEPT ![p] = Append(@, i)]
    /\ UNCHANGED <<store, sub, backoff, stopping, peers, unsure, faults>>

ReceiveRoomEventOverfull(p) ==
    LET s == <<p, "room">> IN
    /\ Reading(s)
    /\ chan' = [chan EXCEPT ![s] = Tail(@)]
    /\ Len(broadcastQ[p]) <= BroadcastCap
    /\ broadcastQ' = [broadcastQ EXCEPT ![p] = Append(@, Head(chan[s]))]
    /\ UNCHANGED <<store, sub, backoff, stopping, peers, unsure, faults>>

ReceiveRoomEventEditsIgnored(p) ==
    LET s == <<p, "room">> IN
    /\ Reading(s)
    /\ chan' = [chan EXCEPT ![s] = Tail(@)]
    /\ Len(broadcastQ[p]) < BroadcastCap
    /\ broadcastQ' = IF log[Head(chan[s])].kind = "edited" THEN broadcastQ
                     ELSE [broadcastQ EXCEPT ![p] = Append(@, Head(chan[s]))]
    /\ UNCHANGED <<store, sub, backoff, stopping, peers, unsure, faults>>

(* A non-blocking send to hub.broadcast; dropped when that is full.        *)
ReceiveRoomEvent(p) ==
    LET s == <<p, "room">> IN
    /\ Reading(s)
    /\ chan' = [chan EXCEPT ![s] = Tail(@)]
    /\ IF Len(broadcastQ[p]) < BroadcastCap
       THEN broadcastQ' = [broadcastQ EXCEPT ![p] = Append(@, Head(chan[s]))] /\ UNCHANGED unsure
       ELSE unsure' = unsure \cup (On(p) \X About({Head(chan[s])})) /\ UNCHANGED broadcastQ
    /\ UNCHANGED <<store, sub, backoff, stopping, peers, faults>>

-----------------------------------------------------------------------------
(* What the connections in S are given of the publication at i, and those  *)
(* in M miss.  A client applies what an event says of the object it names; *)
(* the event of a deletion names none, its message_id is not forwarded.    *)
Names(e) == IF e.kind \in {"edited", "presence"} THEN {e.obj} ELSE {}

Give(S, i) ==
    LET e == log[i] IN
    /\ last' = [c \in Conns |-> IF c \in S THEN [last[c] EXCEPT ![TopicOf(e)] = i] ELSE last[c]]
    /\ shown' = [c \in Conns |-> [o \in Objects |->
                     IF c \in S /\ o \in Names(e) THEN e.ver ELSE shown[c][o]]]

(* A copy is known to be good again once it agrees with the store and      *)
(* nothing about the object is on its way.                                 *)
Settled(S, i, p) ==
    S \X {o \in Names(log[i]) : log[i].ver = stored[o] /\ ~Pending(o) /\ ~InFlight(p, o)'}

(* broadcastMessage: subscribers whose buffer is full (M) are evicted.     *)
Fanout(p) ==
    LET i == Head(broadcastQ[p])
        T == Subscribed \cap On(p)
    IN
    /\ broadcastQ[p] # <<>>
    /\ broadcastQ' = [broadcastQ EXCEPT ![p] = Tail(@)]
    /\ UNCHANGED <<store, sub, backoff, chan, stopping>>
    /\ \E M \in SUBSET T :
         /\ IF M = {} THEN UNCHANGED faults ELSE Fault
         /\ Give(T \ M, i)
         /\ conn' = [c \in Conns |-> IF c \in M THEN "off" ELSE conn[c]]
         /\ unsure' = (unsure \ Settled(T \ M, i, p)) \cup (M \X Objects)

(* subscribeToPresence sends to every client, past the hub; a client whose *)
(* buffer is full (M) is skipped.                                          *)
ReceivePresence(p) ==
    LET s == <<p, "presence">>
        i == Head(chan[s])
        T == Connected \cap On(p)
    IN
    /\ Reading(s)
    /\ chan' = [chan EXCEPT ![s] = Tail(@)]
    /\ UNCHANGED <<store, sub, backoff, broadcastQ, stopping, conn>>
    /\ \E M \in SUBSET T :
         /\ IF M = {} THEN UNCHANGED faults ELSE Fault
         /\ Give(T \ M, i)
         /\ unsure' = (unsure \ Settled(T \ M, i, p)) \cup (M \X About({i}))

-----------------------------------------------------------------------------
(* Connections.                                                            *)

Connect(c) ==
    /\ conn[c] = "new"
    /\ conn' = [conn EXCEPT ![c] = "on"]
    /\ UNCHANGED <<store, pods, last, shown, unsure, faults>>

CheckNothing(c) ==
    /\ conn[c] = "on"
    /\ conn' = [conn EXCEPT ![c] = "checked"]
    /\ UNCHANGED <<store, pods, last, shown, unsure, faults>>

(* handleSubscribe asks the database for the membership ...                *)
CheckMembership(c) ==
    /\ conn[c] = "on" /\ c \in members
    /\ conn' = [conn EXCEPT ![c] = "checked"]
    /\ UNCHANGED <<store, pods, last, shown, unsure, faults>>

(* ... and subscribes by what it was told.                                 *)
SubscribeToRoom(c) ==
    /\ conn[c] = "checked"
    /\ conn' = [conn EXCEPT ![c] = "subscribed"]
    /\ UNCHANGED <<store, pods, last, shown, unsure, faults>>

UnsubscribeFromRoom(c) ==
    /\ conn[c] = "subscribed"
    /\ conn' = [conn EXCEPT ![c] = "on"]
    /\ unsure' = unsure \cup ({c} \X Messages)
    /\ UNCHANGED <<store, pods, last, shown, faults>>

Disconnect(c) ==
    /\ c \in Connected
    /\ conn' = [conn EXCEPT ![c] = "off"]
    /\ unsure' = unsure \cup ({c} \X Objects)
    /\ UNCHANGED <<store, pods, last, shown, faults>>

(* The client loads the history (GET /rooms/:id/messages).                 *)
GetRoomMessages(c) ==
    /\ c \in Connected /\ c \in members
    /\ shown' = [shown EXCEPT ![c] = [o \in Objects |-> IF o \in Messages THEN stored[o] ELSE @[o]]]
    /\ unsure' = IF c \in Subscribed
                 THEN unsure \ {<<c, m>> : m \in {n \in Messages : ~Pending(n) /\ ~InFlight(PodOf[c], n)}}
                 ELSE unsure
    /\ UNCHANGED <<store, pods, conn, last, faults>>

-----------------------------------------------------------------------------
Requests ==
    \/ \E m \in Messages : WriteMessage(m) \/ React(m) \/ DeleteMessage(m)
    \/ \E u \in Presences : SetPresence(u) \/ PresenceExpires(u)
    \/ \E c \in Conns : JoinRoom(c) \/ LeaveRoom(c)
    \/ \E e \in pending : Publish(e) \/ PublishFails(e)

SubscriberLoop(s) ==
    \/ Subscribe(s) \/ SubscribeFails(s) \/ BackoffElapses(s) \/ ConnectionLost(s)
    \/ Reconnected(s) \/ ChannelClosed(s) \/ StopSubscriber(s)

Peer(c) ==
    \/ Connect(c) \/ CheckMembership(c) \/ SubscribeToRoom(c) \/ UnsubscribeFromRoom(c)
    \/ Disconnect(c) \/ GetRoomMessages(c)

Next ==
    \/ Requests
    \/ \E s \in Subs : SubscriberLoop(s)
    \/ \E p \in Pods : Cancel(p) \/ ReceiveRoomEvent(p) \/ ReceivePresence(p) \/ Fanout(p)
    \/ \E c \in Conns : Peer(c)

Spec == Init /\ [][Next]_vars

(* A subscriber that can go on does so: timers fire, Redis comes back.     *)
GoesOn(s) ==
    Subscribe(s) \/ BackoffElapses(s) \/ Reconnected(s) \/ ChannelClosed(s) \/ StopSubscriber(s)

Fairness ==
    /\ \A s \in Subs : WF_vars(GoesOn(s))
    /\ \A p \in Pods : WF_vars(ReceiveRoomEvent(p)) /\ WF_vars(ReceivePresence(p)) /\ WF_vars(Fanout(p))

FairSpec == Spec /\ Fairness

-----------------------------------------------------------------------------
(* The type invariant; channels hold what was published, and the broadcast *)
(* channel of a pod keeps to its capacity.                                 *)
TypeOK ==
    /\ stored \in [Objects -> 0..MaxWrites] /\ deleted \subseteq Messages /\ members \subseteq Conns
    /\ pending \subseteq Event /\ writes \in 0..MaxWrites
    /\ log \in Seq(Event)
    /\ sub \in [Subs -> {"starting", "backoff", "up", "cut", "closed", "stopped"}]
    /\ backoff \in [Subs -> 1..MaxBackoff]
    /\ chan \in [Subs -> Seq(Nat)] /\ broadcastQ \in [Pods -> Seq(Nat)]
    /\ \A s \in Subs : Elems(chan[s]) \subseteq 1..Len(log)
    /\ \A p \in Pods : Elems(broadcastQ[p]) \subseteq 1..Len(log) /\ Len(broadcastQ[p]) <= BroadcastCap
    /\ conn \in [Conns -> {"new", "on", "checked", "subscribed", "off"}]
    /\ last \in [Conns -> [Topics -> 0..Len(log)]]
    /\ shown \in [Conns -> [Objects -> 0..MaxWrites]]
    /\ unsure \subseteq Conns \X Objects
    /\ faults \in 0..MaxFaults /\ stopping \subseteq Pods

Follows(c, o) == IF o \in Presences THEN c \in Connected ELSE c \in Subscribed

(* Convergence across pods: once the requests about an object are done and *)
(* nothing about it is on its way to a pod, every connection that follows  *)
(* it shows what is stored, unless a publication was lost or made after a  *)
(* newer one, the message was deleted or reacted to, of which no event     *)
(* tells, the presence key expired, or the connection has not loaded the   *)
(* history since it subscribed; and each of these only until an event or a *)
(* load has made the copy current again.                                   *)
Converges ==
    \A c \in Conns, o \in Objects :
        Follows(c, o) /\ ~Pending(o) /\ ~InFlight(PodOf[c], o) /\ <<c, o>> \notin unsure
            => shown[c][o] = stored[o]

Promise == INSTANCE Broadcast WITH
    published <- [i \in 1..Len(log) |-> TopicOf(log[i])],
    audience <- [t \in Topics |-> IF t = "presence" THEN Connected
                                  ELSE {c \in Conns : conn[c] \in {"checked", "subscribed"}}]

(* Publisher, Redis, subscriber goroutine and hub together keep what       *)
(* Broadcast promises: through losses, reconnections and evictions, each   *)
(* connection is given publications in Redis's order and none twice, and   *)
(* room events only after its user passed a membership check.              *)
ImplementsBroadcast == Promise!Spec

(* A subscription that a pod lost, or has not got yet, stands again later  *)
(* unless the pod is being stopped: no exit of the loop but ctx.Done.      *)
SubscriptionReturns ==
    \A s \in Subs : sub[s] \in {"starting", "backoff", "cut", "closed"}
                        ~> sub[s] = "up" \/ s[1] \in stopping

(* What reaches a pod reaches its subscribers, or is accounted for: a      *)
(* publication in a channel of the pod is given to each of them or the     *)
(* connection has left or its copy is marked.                              *)
EventuallyDelivered ==
    \A c \in Conns, i \in 1..MaxWrites :
        (/\ c \in Subscribed /\ About({i}) # {}
         /\ i \in Elems(chan[<<PodOf[c], "room">>]) \cup Elems(broadcastQ[PodOf[c]])) ~>
            \/ last[c]["room"] >= i \/ c \notin Subscribed
            \/ \E o \in About({i}) : <<c, o>> \in unsure
=============================================================================
