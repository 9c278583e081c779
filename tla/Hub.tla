--------------------------------- MODULE Hub ---------------------------------
(***************************************************************************)
(* The WebSocket side of the server, internal/server/server.go: admission  *)
(* of a connection (handleWebSocket), the hub goroutine and its maps, the  *)
(* read and write pump of every connection, the two Redis subscribers that *)
(* feed the hub, the eviction of slow clients and the shutdown.            *)
(*                                                                         *)
(* One element of Conns is one connection attempt, from the HTTP request   *)
(* to the end of its pumps.  Payloads are abstracted: a frame that the hub *)
(* broadcasts is the number of the event it carries, every other frame     *)
(* (acks, errors, pongs, presence) is Other.  The outcome of a call of the *)
(* service layer (token valid, member of the room) is a free choice here.  *)
(***************************************************************************)
EXTENDS Naturals, Integers, Sequences, FiniteSets

CONSTANTS
    Conns,          \* connection attempts
    Users, IPs, Rooms,
    UserOf, IpOf,   \* the user and the remote address of a connection
    MaxPerIP,       \* Server.Websocket.MaxConnectionsPerIP
    RegisterCap, UnregisterCap, BroadcastCap,  \* capacities of hub channels
    SendCap,        \* capacity of client.send
    Requests,       \* the frames a client may send
    MaxEvents,      \* bound: events that reach the hub from Redis or typing
    MaxPresence,    \* bound: presence updates received from Redis
    MayShutdown     \* whether the process may receive SIGTERM

Request == [op: {"subscribe", "unsubscribe"}, rooms: (SUBSET Rooms) \ {{}}]
             \cup [op: {"typing"}, rooms: {{r} : r \in Rooms}]
             \cup [op: {"reply"}, rooms: {{}}]

ASSUME ConfigAssumption ==
    /\ UserOf \in [Conns -> Users]
    /\ IpOf \in [Conns -> IPs]
    /\ IsFiniteSet(Conns) /\ IsFiniteSet(Rooms)
    /\ MaxPerIP \in Nat \ {0}
    /\ RegisterCap \in Nat \ {0}
    /\ UnregisterCap \in Nat \ {0}
    /\ BroadcastCap \in Nat \ {0}
    /\ SendCap \in Nat \ {0}
    /\ Requests \subseteq Request
    /\ MaxEvents \in Nat
    /\ MaxPresence \in Nat
    /\ MayShutdown \in BOOLEAN

VARIABLES
    phase,       \* progress of handleWebSocket
    ipCount,     \* Server.ipConnections
    reader,      \* ReadPump: where it is
    reqRooms,    \* rooms the request being handled has still to visit
    writer,      \* WritePump: where it is
    connOpen,    \* the socket has not been closed by this side
    cancelled,   \* client.ctx is done
    closed,      \* client.closed
    sendClosed,  \* client.closedInProgress, i.e. client.send is closed
    sendQ,       \* client.send
    received,    \* number of the last event written to the socket
    memberOf,    \* client.rooms
    clients, users, rooms,          \* maps of the Hub
    registerQ, unregisterQ, broadcastQ,
    hub,         \* where Run is: select, fanout, sending, evicting, stopped
    hubMsg,      \* event being broadcast
    hubTodo,     \* broadcastMessage: connection ids not visited yet
    hubCur,      \* broadcastMessage: connection being served (a set, <= 1)
    hubClosed,   \* Hub.closed
    activeGauge, subsGauge,         \* Prometheus gauges
    overtook,    \* history: exits handled before the registration
    roomSub,     \* subscribeToRoomMessages: running or stopped
    presSub,     \* subscribeToPresence: receiving, sending or stopped
    presTodo,    \* its snapshot of clients
    shutdown,    \* progress of Server.Shutdown
    nextEvent, nextPresence,        \* events created so far
    crashed      \* a goroutine panicked: the process is gone

admission == <<phase, ipCount>>
pumps     == <<reader, reqRooms, writer, connOpen, received>>
flags     == <<cancelled, closed, sendClosed>>
maps      == <<clients, users, rooms, memberOf, activeGauge, subsGauge, overtook>>
hubLoop   == <<hub, hubMsg, hubTodo, hubCur>>
redis     == <<roomSub, presSub, presTodo, nextEvent, nextPresence>>
vars      == <<admission, pumps, flags, sendQ, maps, registerQ, unregisterQ,
               broadcastQ, hubLoop, hubClosed, redis, shutdown, crashed>>

Other == 0

Event == [room: Rooms, id: Nat \ {0}]
NoEvent == [room |-> "none", id |-> 0]

Init ==
    /\ phase = [c \in Conns |-> "idle"]
    /\ ipCount = [i \in IPs |-> 0]
    /\ reader = [c \in Conns |-> "off"]
    /\ reqRooms = [c \in Conns |-> {}]
    /\ writer = [c \in Conns |-> "off"]
    /\ connOpen = [c \in Conns |-> FALSE]
    /\ cancelled = [c \in Conns |-> FALSE]
    /\ closed = [c \in Conns |-> FALSE]
    /\ sendClosed = [c \in Conns |-> FALSE]
    /\ sendQ = [c \in Conns |-> <<>>]
    /\ received = [c \in Conns |-> 0]
    /\ memberOf = [c \in Conns |-> {}]
    /\ clients = {}
    /\ users = [u \in Users |-> {}]
    /\ rooms = [r \in Rooms |-> {}]
    /\ registerQ = <<>> /\ unregisterQ = <<>> /\ broadcastQ = <<>>
    /\ hub = "select" /\ hubMsg = NoEvent /\ hubTodo = {} /\ hubCur = {}
    /\ hubClosed = FALSE
    /\ activeGauge = 0 /\ subsGauge = 0 /\ overtook = {}
    /\ roomSub = "running" /\ presSub = "receiving" /\ presTodo = {}
    /\ shutdown = "no"
    /\ nextEvent = 1 /\ nextPresence = 1
    /\ crashed = FALSE

-----------------------------------------------------------------------------
(* handleWebSocket.  The handler answers an over-limit request after taking *)
(* the slot, so the counter may briefly exceed the limit.                  *)

OverLimitOffByOne(c) == ipCount[IpOf[c]] > MaxPerIP

OverLimit(c) == ipCount[IpOf[c]] + 1 > MaxPerIP

Accept(c) ==
    /\ ~crashed /\ phase[c] = "idle"
    /\ shutdown # "done"                 \* the listener closes last
    /\ ipCount' = [ipCount EXCEPT ![IpOf[c]] = @ + 1]
    /\ phase' = [phase EXCEPT ![c] = IF OverLimit(c) THEN "over" ELSE "counted"]
    /\ UNCHANGED <<pumps, flags, sendQ, maps, registerQ, unregisterQ,
                   broadcastQ, hubLoop, hubClosed, redis, shutdown, crashed>>

(* Over the limit, no token, bad token, rate limited or a failed upgrade:  *)
(* the slot is given back and the request is answered with an error.       *)
Refuse(c) ==
    /\ ~crashed /\ phase[c] \in {"over", "counted"}
    /\ ipCount' = [ipCount EXCEPT ![IpOf[c]] = @ - 1]
    /\ phase' = [phase EXCEPT ![c] = "refused"]
    /\ UNCHANGED <<pumps, flags, sendQ, maps, registerQ, unregisterQ,
                   broadcastQ, hubLoop, hubClosed, redis, shutdown, crashed>>

Upgrade(c) ==
    /\ ~crashed /\ phase[c] = "counted"
    /\ phase' = [phase EXCEPT ![c] = "upgraded"]
    /\ connOpen' = [connOpen EXCEPT ![c] = TRUE]
    /\ UNCHANGED <<ipCount, reader, reqRooms, writer, received, flags, sendQ,
                   maps, registerQ, unregisterQ, broadcastQ, hubLoop,
                   hubClosed, redis, shutdown, crashed>>

(* s.hub.register <- client blocks while the channel is full.              *)
Register(c) ==
    /\ ~crashed /\ phase[c] = "upgraded"
    /\ Len(registerQ) < RegisterCap
    /\ registerQ' = Append(registerQ, c)
    /\ phase' = [phase EXCEPT ![c] = "registered"]
    /\ UNCHANGED <<ipCount, pumps, flags, sendQ, maps, unregisterQ,
                   broadcastQ, hubLoop, hubClosed, redis, shutdown, crashed>>

StartPumps(c) ==
    /\ ~crashed /\ phase[c] = "registered"
    /\ phase' = [phase EXCEPT ![c] = "live"]
    /\ reader' = [reader EXCEPT ![c] = "reading"]
    /\ writer' = [writer EXCEPT ![c] = "running"]
    /\ UNCHANGED <<ipCount, reqRooms, connOpen, received, flags, sendQ, maps,
                   registerQ, unregisterQ, broadcastQ, hubLoop, hubClosed,
                   redis, shutdown, crashed>>

-----------------------------------------------------------------------------
(* The maps of the hub; every operator is one critical section of h.mu.    *)

isClosedBySend(c) == sendClosed[c]

isClosed(c) == closed[c] \/ sendClosed[c]

SubscribeToRoom(c, r) ==
    IF isClosed(c)
    THEN UNCHANGED maps
    ELSE /\ rooms' = [rooms EXCEPT ![r] = @ \cup {c}]
         /\ memberOf' = [memberOf EXCEPT ![c] = @ \cup {r}]
         /\ subsGauge' = subsGauge + (IF c \in rooms[r] THEN 0 ELSE 1)
         /\ UNCHANGED <<clients, users, activeGauge, overtook>>

UnsubscribeRoomOnly(c, r) ==
    /\ rooms' = [rooms EXCEPT ![r] = @ \ {c}]
    /\ subsGauge' = subsGauge - (IF c \in rooms[r] THEN 1 ELSE 0)
    /\ UNCHANGED <<clients, users, memberOf, activeGauge, overtook>>

UnsubscribeFromRoom(c, r) ==
    /\ rooms' = [rooms EXCEPT ![r] = @ \ {c}]
    /\ memberOf' = [memberOf EXCEPT ![c] = @ \ {r}]
    /\ subsGauge' = subsGauge - (IF c \in rooms[r] THEN 1 ELSE 0)
    /\ UNCHANGED <<clients, users, activeGauge, overtook>>

(* Rooms of client.rooms whose entry in Hub.rooms exists: what the two     *)
(* removal loops count as removed subscriptions.                           *)
SubsRemoved(c) == Cardinality({r \in memberOf[c] : rooms[r] # {}})

(* The common part of cleanupClient and of the eviction: delete c from     *)
(* clients, users and the rooms that client.rooms lists.                   *)
RemoveFromMaps(c) ==
    /\ clients' = clients \ {c}
    /\ users' = [users EXCEPT ![UserOf[c]] = @ \ {c}]
    /\ rooms' = [r \in Rooms |-> IF r \in memberOf[c] THEN rooms[r] \ {c} ELSE rooms[r]]
    /\ UNCHANGED memberOf

AlreadyClosedIgnored(c) == FALSE

AlreadyClosed(c) == closed[c]

(* alreadyClosed suppresses the gauge updates: the eviction made them.     *)
cleanupClient(c) ==
    /\ IF c \in clients
       THEN RemoveFromMaps(c) /\ closed' = [closed EXCEPT ![c] = TRUE]
       ELSE UNCHANGED <<clients, users, rooms, memberOf, closed>>
    /\ IF AlreadyClosed(c)
       THEN UNCHANGED <<activeGauge, subsGauge>>
       ELSE /\ activeGauge' = activeGauge - 1
            /\ subsGauge' = subsGauge - (IF c \in clients THEN SubsRemoved(c) ELSE 0)
    /\ overtook' = IF c \in clients \/ closed[c] THEN overtook ELSE overtook \cup {c}

-----------------------------------------------------------------------------
SendHasRoomOffByOne(c) == Len(sendQ[c]) <= SendCap

SendHasRoom(c) == Len(sendQ[c]) < SendCap

(* select { case c.send <- m: default: } -- dropped when the buffer is     *)
(* full, a panic that ends the process when the channel has been closed.   *)
TrySend(c, m) ==
    /\ crashed' = sendClosed[c]
    /\ sendQ' = IF ~sendClosed[c] /\ SendHasRoom(c)
                THEN [sendQ EXCEPT ![c] = Append(@, m)] ELSE sendQ

(* Non-blocking send of a new event for room r to h.broadcast.             *)
TryBroadcast(r) ==
    /\ nextEvent' = nextEvent + 1
    /\ broadcastQ' = IF Len(broadcastQ) < BroadcastCap
                     THEN Append(broadcastQ, [room |-> r, id |-> nextEvent])
                     ELSE broadcastQ

-----------------------------------------------------------------------------
(* ReadPump and the handlers of the frames it reads.                       *)

(* handleMessage dispatches on the type.  "reply" stands for the frames    *)
(* whose handler only talks to the services and answers on c.send.         *)
ReadMessage(c, q) ==
    /\ ~crashed /\ reader[c] = "reading"
    /\ connOpen[c]
    /\ reader' = [reader EXCEPT ![c] = CASE q.op = "subscribe"   -> "subscribing"
                                         [] q.op = "unsubscribe" -> "unsubscribing"
                                         [] q.op = "typing"      -> "typing"
                                         [] q.op = "reply"       -> "replying"]
    /\ reqRooms' = [reqRooms EXCEPT ![c] = q.rooms]
    /\ UNCHANGED <<admission, writer, connOpen, received, flags, sendQ, maps,
                   registerQ, unregisterQ, broadcastQ, hubLoop, hubClosed,
                   redis, shutdown, crashed>>

(* One iteration of the loop over the room ids; the caller may turn out    *)
(* not to be a member of the room.                                         *)
handleSubscribe(c, r) ==
    /\ ~crashed /\ reader[c] = "subscribing" /\ r \in reqRooms[c]
    /\ SubscribeToRoom(c, r) \/ UNCHANGED maps
    /\ reqRooms' = [reqRooms EXCEPT ![c] = @ \ {r}]
    /\ reader' = [reader EXCEPT ![c] = IF reqRooms[c] = {r} THEN "replying" ELSE @]
    /\ UNCHANGED <<admission, writer, connOpen, received, flags, sendQ,
                   registerQ, unregisterQ, broadcastQ, hubLoop, hubClosed,
                   redis, shutdown, crashed>>

handleUnsubscribe(c, r) ==
    /\ ~crashed /\ reader[c] = "unsubscribing" /\ r \in reqRooms[c]
    /\ UnsubscribeFromRoom(c, r)
    /\ reqRooms' = [reqRooms EXCEPT ![c] = @ \ {r}]
    /\ reader' = [reader EXCEPT ![c] = IF reqRooms[c] = {r} THEN "reading" ELSE @]
    /\ UNCHANGED <<admission, writer, connOpen, received, flags, sendQ,
                   registerQ, unregisterQ, broadcastQ, hubLoop, hubClosed,
                   redis, shutdown, crashed>>

(* Members that are subscribed reach h.broadcast, anyone else is ignored.  *)
handleTyping(c, r) ==
    /\ ~crashed /\ reader[c] = "typing" /\ r \in reqRooms[c]
    /\ \/ /\ c \in rooms[r] /\ nextEvent <= MaxEvents
          /\ TryBroadcast(r)
       \/ UNCHANGED <<nextEvent, broadcastQ>>
    /\ reader' = [reader EXCEPT ![c] = "reading"]
    /\ reqRooms' = [reqRooms EXCEPT ![c] = {}]
    /\ UNCHANGED <<admission, writer, connOpen, received, flags, sendQ, maps,
                   registerQ, unregisterQ, hubLoop, hubClosed, roomSub,
                   presSub, presTodo, nextPresence, shutdown, crashed>>

(* The ack, error or pong that ends a handler.                             *)
Reply(c) ==
    /\ ~crashed /\ reader[c] = "replying"
    /\ TrySend(c, Other)
    /\ reader' = [reader EXCEPT ![c] = "reading"]
    /\ UNCHANGED <<admission, reqRooms, writer, connOpen, received, flags,
                   maps, registerQ, unregisterQ, broadcastQ, hubLoop,
                   hubClosed, redis, shutdown>>

(* Any read error leaves the loop; the deferred function starts by         *)
(* cancelling the context.                                                 *)
ReadError(c) ==
    /\ ~crashed /\ reader[c] = "reading"
    /\ reader' = [reader EXCEPT ![c] = "unregistering"]
    /\ cancelled' = [cancelled EXCEPT ![c] = TRUE]
    /\ UNCHANGED <<admission, reqRooms, writer, connOpen, received, closed,
                   sendClosed, sendQ, maps, registerQ, unregisterQ,
                   broadcastQ, hubLoop, hubClosed, redis, shutdown, crashed>>

UnregisterOrDrop(c) ==
    /\ ~crashed /\ reader[c] = "unregistering"
    /\ reader' = [reader EXCEPT ![c] = "closing"]
    /\ unregisterQ' = IF Len(unregisterQ) < UnregisterCap THEN Append(unregisterQ, c) ELSE unregisterQ
    /\ UNCHANGED <<admission, reqRooms, writer, connOpen, received, flags,
                   sendQ, maps, registerQ, broadcastQ, hubLoop, hubClosed,
                   redis, shutdown, crashed>>

(* The deferred unregistration: through the hub, or directly when its      *)
(* channel is full.                                                        *)
Unregister(c) ==
    /\ ~crashed /\ reader[c] = "unregistering"
    /\ reader' = [reader EXCEPT ![c] = "closing"]
    /\ IF Len(unregisterQ) < UnregisterCap
       THEN /\ unregisterQ' = Append(unregisterQ, c)
            /\ UNCHANGED <<maps, closed>>
       ELSE /\ cleanupClient(c)
            /\ UNCHANGED unregisterQ
    /\ UNCHANGED <<admission, reqRooms, writer, connOpen, received, cancelled,
                   sendClosed, sendQ, registerQ, broadcastQ, hubLoop,
                   hubClosed, redis, shutdown, crashed>>

(* The end of the deferred function: close the socket, free the IP slot.   *)
ReaderExit(c) ==
    /\ ~crashed /\ reader[c] = "closing"
    /\ reader' = [reader EXCEPT ![c] = "done"]
    /\ connOpen' = [connOpen EXCEPT ![c] = FALSE]
    /\ ipCount' = [ipCount EXCEPT ![IpOf[c]] = @ - 1]
    /\ UNCHANGED <<phase, reqRooms, writer, received, flags, sendQ, maps,
                   registerQ, unregisterQ, broadcastQ, hubLoop, hubClosed,
                   redis, shutdown, crashed>>

-----------------------------------------------------------------------------
(* WritePump: its select loop, drainAndClose and the deferred conn.Close.  *)

WriteMessage(c) ==
    /\ ~crashed /\ writer[c] = "running" /\ connOpen[c] /\ sendQ[c] # <<>>
    /\ sendQ' = [sendQ EXCEPT ![c] = Tail(@)]
    /\ received' = [received EXCEPT ![c] =
                       IF Head(sendQ[c]) = Other THEN @ ELSE Head(sendQ[c])]
    /\ UNCHANGED <<admission, reader, reqRooms, writer, connOpen, flags, maps,
                   registerQ, unregisterQ, broadcastQ, hubLoop, hubClosed,
                   redis, shutdown, crashed>>

(* A failed ping, or a failed write that loses the frame it had taken.     *)
WriteError(c) ==
    /\ ~crashed /\ writer[c] = "running"
    /\ \/ UNCHANGED sendQ
       \/ sendQ[c] # <<>> /\ sendQ' = [sendQ EXCEPT ![c] = Tail(@)]
    /\ writer' = [writer EXCEPT ![c] = "closing"]
    /\ UNCHANGED <<admission, reader, reqRooms, connOpen, received, flags,
                   maps, registerQ, unregisterQ, broadcastQ, hubLoop,
                   hubClosed, redis, shutdown, crashed>>

(* case <-c.ctx.Done(): drainAndClose closes c.send, it drains nothing.    *)
drainAndClose(c) ==
    /\ ~crashed /\ writer[c] = "running" /\ cancelled[c]
    /\ sendClosed' = [sendClosed EXCEPT ![c] = TRUE]
    /\ writer' = [writer EXCEPT ![c] = "closing"]
    /\ UNCHANGED <<admission, reader, reqRooms, connOpen, received, cancelled,
                   closed, sendQ, maps, registerQ, unregisterQ, broadcastQ,
                   hubLoop, hubClosed, redis, shutdown, crashed>>

WriterExit(c) ==
    /\ ~crashed /\ writer[c] = "closing"
    /\ writer' = [writer EXCEPT ![c] = "done"]
    /\ connOpen' = [connOpen EXCEPT ![c] = FALSE]
    /\ UNCHANGED <<admission, reader, reqRooms, received, flags, sendQ, maps,
                   registerQ, unregisterQ, broadcastQ, hubLoop, hubClosed,
                   redis, shutdown, crashed>>

-----------------------------------------------------------------------------
(* Hub.Run.  select picks any ready channel, so the order between the      *)
(* channels is not the order of the sends.                                 *)

HubRegister ==
    /\ ~crashed /\ hub = "select" /\ registerQ # <<>>
    /\ LET c == Head(registerQ) IN
         /\ clients' = clients \cup {c}
         /\ users' = [users EXCEPT ![UserOf[c]] = @ \cup {c}]
    /\ registerQ' = Tail(registerQ)
    /\ activeGauge' = activeGauge + 1
    /\ UNCHANGED <<admission, pumps, flags, sendQ, rooms, memberOf, subsGauge,
                   overtook, unregisterQ, broadcastQ, hubLoop, hubClosed, redis,
                   shutdown, crashed>>

HubUnregister ==
    /\ ~crashed /\ hub = "select" /\ unregisterQ # <<>>
    /\ cleanupClient(Head(unregisterQ))
    /\ unregisterQ' = Tail(unregisterQ)
    /\ UNCHANGED <<admission, pumps, cancelled, sendClosed, sendQ, registerQ,
                   broadcastQ, hubLoop, hubClosed, redis, shutdown, crashed>>

(* go h.broadcastMessage(m): whichever goroutine comes to run is first.    *)
HubBroadcastByGoroutines ==
    /\ ~crashed /\ hub = "select" /\ broadcastQ # <<>>
    /\ hub' = "fanout"
    /\ hubMsg' \in {broadcastQ[i] : i \in 1..Len(broadcastQ)}
    /\ hubTodo' = rooms[hubMsg'.room]
    /\ broadcastQ' = SelectSeq(broadcastQ, LAMBDA e : e # hubMsg')
    /\ UNCHANGED <<admission, pumps, flags, sendQ, maps, registerQ,
                   unregisterQ, hubCur, hubClosed, redis, shutdown, crashed>>

(* broadcastMessage: the snapshot of the subscribers ...                   *)
HubBroadcast ==
    /\ ~crashed /\ hub = "select" /\ broadcastQ # <<>>
    /\ hub' = "fanout"
    /\ hubMsg' = Head(broadcastQ)
    /\ hubTodo' = rooms[Head(broadcastQ).room]
    /\ broadcastQ' = Tail(broadcastQ)
    /\ UNCHANGED <<admission, pumps, flags, sendQ, maps, registerQ,
                   unregisterQ, hubCur, hubClosed, redis, shutdown, crashed>>

(* ... the lookup of one of them, skipped when gone or closed by now ...   *)
HubLookup(c) ==
    /\ ~crashed /\ hub = "fanout" /\ c \in hubTodo
    /\ hubTodo' = hubTodo \ {c}
    /\ IF c \in clients /\ ~isClosed(c)
       THEN hub' = "sending" /\ hubCur' = {c}
       ELSE UNCHANGED <<hub, hubCur>>
    /\ UNCHANGED <<admission, pumps, flags, sendQ, maps, registerQ,
                   unregisterQ, broadcastQ, hubMsg, hubClosed, redis,
                   shutdown, crashed>>

HubSendBlocking(c) ==
    /\ ~crashed /\ hub = "sending" /\ c \in hubCur
    /\ sendClosed[c] \/ SendHasRoom(c)
    /\ TrySend(c, hubMsg.id)
    /\ hub' = "fanout" /\ hubCur' = {}
    /\ UNCHANGED <<admission, pumps, flags, maps, registerQ, unregisterQ,
                   broadcastQ, hubMsg, hubTodo, hubClosed, redis, shutdown>>

(* ... the send, outside the lock ...                                      *)
HubSend(c) ==
    /\ ~crashed /\ hub = "sending" /\ c \in hubCur
    /\ TrySend(c, hubMsg.id)
    /\ IF ~sendClosed[c] /\ ~SendHasRoom(c)
       THEN hub' = "evicting" /\ UNCHANGED hubCur
       ELSE hub' = "fanout" /\ hubCur' = {}
    /\ UNCHANGED <<admission, pumps, flags, maps, registerQ, unregisterQ,
                   broadcastQ, hubMsg, hubTodo, hubClosed, redis, shutdown>>

EvictForgetsCancel(c) == cancelled[c]

(* if !client.closed.Swap(true) { client.cancel() }                        *)
EvictCancels(c) == cancelled[c] \/ ~closed[c]

(* ... and the eviction of a client whose buffer was full.                 *)
HubEvict(c) ==
    /\ ~crashed /\ hub = "evicting" /\ c \in hubCur
    /\ hub' = "fanout" /\ hubCur' = {}
    /\ IF c \in clients
       THEN /\ RemoveFromMaps(c)
            /\ closed' = [closed EXCEPT ![c] = TRUE]
            /\ cancelled' = [cancelled EXCEPT ![c] = EvictCancels(c)]
            /\ activeGauge' = activeGauge - 1
            /\ subsGauge' = subsGauge - SubsRemoved(c)
            /\ UNCHANGED overtook
       ELSE UNCHANGED <<maps, closed, cancelled>>
    /\ UNCHANGED <<admission, pumps, sendClosed, sendQ, registerQ,
                   unregisterQ, broadcastQ, hubMsg, hubTodo, hubClosed, redis,
                   shutdown, crashed>>

HubBroadcastDone ==
    /\ ~crashed /\ hub = "fanout" /\ hubTodo = {}
    /\ hub' = "select" /\ hubMsg' = NoEvent
    /\ UNCHANGED <<admission, pumps, flags, sendQ, maps, registerQ,
                   unregisterQ, broadcastQ, hubTodo, hubCur, hubClosed, redis,
                   shutdown, crashed>>

HubQuit ==
    /\ ~crashed /\ hub = "select" /\ hubClosed
    /\ hub' = "stopped"
    /\ UNCHANGED <<admission, pumps, flags, sendQ, maps, registerQ,
                   unregisterQ, broadcastQ, hubMsg, hubTodo, hubCur,
                   hubClosed, redis, shutdown, crashed>>

-----------------------------------------------------------------------------
(* The Redis subscribers.  Publications come from any pod at any time.     *)

RoomEvent(r) ==
    /\ ~crashed /\ roomSub = "running" /\ nextEvent <= MaxEvents
    /\ TryBroadcast(r)
    /\ UNCHANGED <<admission, pumps, flags, sendQ, maps, registerQ,
                   unregisterQ, hubLoop, hubClosed, roomSub, presSub,
                   presTodo, nextPresence, shutdown, crashed>>

RoomSubStop ==
    /\ ~crashed /\ roomSub = "running" /\ shutdown # "no"
    /\ roomSub' = "stopped"
    /\ UNCHANGED <<admission, pumps, flags, sendQ, maps, registerQ,
                   unregisterQ, broadcastQ, hubLoop, hubClosed, presSub,
                   presTodo, nextEvent, nextPresence, shutdown, crashed>>

(* subscribeToPresence takes a snapshot of the clients that are not closed *)
(* and sends to them after releasing the lock.                             *)
PresenceEvent ==
    /\ ~crashed /\ presSub = "receiving" /\ nextPresence <= MaxPresence
    /\ nextPresence' = nextPresence + 1
    /\ presTodo' = {c \in clients : ~isClosed(c)}
    /\ presSub' = "sending"
    /\ UNCHANGED <<admission, pumps, flags, sendQ, maps, registerQ,
                   unregisterQ, broadcastQ, hubLoop, hubClosed, roomSub,
                   nextEvent, shutdown, crashed>>

PresenceSend(c) ==
    /\ ~crashed /\ presSub = "sending" /\ c \in presTodo
    /\ TrySend(c, Other)
    /\ presTodo' = presTodo \ {c}
    /\ UNCHANGED <<admission, pumps, flags, maps, registerQ, unregisterQ,
                   broadcastQ, hubLoop, hubClosed, roomSub, presSub,
                   nextEvent, nextPresence, shutdown>>

PresenceDone ==
    /\ ~crashed /\ presSub = "sending" /\ presTodo = {}
    /\ presSub' = "receiving"
    /\ UNCHANGED <<admission, pumps, flags, sendQ, maps, registerQ,
                   unregisterQ, broadcastQ, hubLoop, hubClosed, roomSub,
                   presTodo, nextEvent, nextPresence, shutdown, crashed>>

PresenceStop ==
    /\ ~crashed /\ presSub = "receiving" /\ shutdown # "no"
    /\ presSub' = "stopped"
    /\ UNCHANGED <<admission, pumps, flags, sendQ, maps, registerQ,
                   unregisterQ, broadcastQ, hubLoop, hubClosed, roomSub,
                   presTodo, nextEvent, nextPresence, shutdown, crashed>>

-----------------------------------------------------------------------------
(* Server.Shutdown.  Both waits end early on a timeout, so neither of them *)
(* is a guard.                                                             *)

ShutdownCancel ==
    /\ ~crashed /\ MayShutdown /\ shutdown = "no"
    /\ shutdown' = "cancelled"
    /\ UNCHANGED <<admission, pumps, flags, sendQ, maps, registerQ,
                   unregisterQ, broadcastQ, hubLoop, hubClosed, redis,
                   crashed>>

CloseAll ==
    /\ ~crashed /\ shutdown = "cancelled"
    /\ shutdown' = "closedAll"
    /\ hubClosed' = TRUE
    /\ cancelled' = [c \in Conns |-> cancelled[c] \/ (c \in clients /\ ~closed[c])]
    /\ closed' = [c \in Conns |-> closed[c] \/ c \in clients]
    /\ UNCHANGED <<admission, pumps, sendClosed, sendQ, maps, registerQ,
                   unregisterQ, broadcastQ, hubLoop, redis, crashed>>

(* clientWG.Wait or ten seconds, then httpServer.Shutdown.                 *)
ShutdownHTTP ==
    /\ ~crashed /\ shutdown = "closedAll"
    /\ shutdown' = "done"
    /\ UNCHANGED <<admission, pumps, flags, sendQ, maps, registerQ,
                   unregisterQ, broadcastQ, hubLoop, hubClosed, redis,
                   crashed>>

-----------------------------------------------------------------------------
Gone(c) == phase[c] = "refused" \/ (reader[c] = "done" /\ writer[c] = "done")

(* The only states in which nothing is left to do.                         *)
Finished ==
    /\ crashed \/ shutdown = "done" \/ \A c \in Conns : Gone(c)
    /\ UNCHANGED vars

Admission(c) == Accept(c) \/ Refuse(c) \/ Upgrade(c) \/ Register(c) \/ StartPumps(c)

Handlers(c) ==
    \/ \E q \in Requests : ReadMessage(c, q)
    \/ \E r \in Rooms : handleSubscribe(c, r) \/ handleUnsubscribe(c, r) \/ handleTyping(c, r)
    \/ Reply(c)

ReadPumpExit(c) == ReadError(c) \/ Unregister(c) \/ ReaderExit(c)

WritePump(c) == WriteMessage(c) \/ WriteError(c) \/ drainAndClose(c) \/ WriterExit(c)

broadcastMessage ==
    \/ HubBroadcast \/ HubBroadcastDone
    \/ \E c \in Conns : HubLookup(c) \/ HubSend(c) \/ HubEvict(c)

Run == HubRegister \/ HubUnregister \/ broadcastMessage \/ HubQuit

Subscribers ==
    \/ \E r \in Rooms : RoomEvent(r)
    \/ RoomSubStop \/ PresenceEvent \/ PresenceDone \/ PresenceStop
    \/ \E c \in Conns : PresenceSend(c)

Shutdown == ShutdownCancel \/ CloseAll \/ ShutdownHTTP

Step ==
    \/ \E c \in Conns : Admission(c) \/ Handlers(c) \/ ReadPumpExit(c) \/ WritePump(c)
    \/ Run \/ Subscribers \/ Shutdown

Next == Step \/ Finished

Spec == Init /\ [][Next]_vars

(* Goroutines run until they block.  A goroutine that waits on a channel   *)
(* of the hub is served in turn (strong fairness): select chooses at       *)
(* random among the ready channels and blocked senders queue in order.  A  *)
(* handler finishes (10 s timeout), a pending write succeeds or fails      *)
(* (write deadline), a read fails once the socket is closed.  Nothing      *)
(* forces a peer to connect, to send or to hang up.                        *)
Fairness ==
    /\ \A c \in Conns :
         /\ SF_vars(Register(c))
         /\ WF_vars(StartPumps(c))
         /\ \A r \in Rooms :
              WF_vars(handleSubscribe(c, r) \/ handleUnsubscribe(c, r) \/ handleTyping(c, r))
         /\ WF_vars(Reply(c))
         /\ WF_vars(~connOpen[c] /\ ReadError(c))
         /\ WF_vars(Unregister(c) \/ ReaderExit(c))
         /\ WF_vars(sendQ[c] # <<>> /\ (WriteMessage(c) \/ WriteError(c)))
         /\ WF_vars(drainAndClose(c))
         /\ WF_vars(WriterExit(c))
         /\ WF_vars(HubLookup(c) \/ HubSend(c) \/ HubEvict(c))
    /\ WF_vars(HubBroadcastDone)
    /\ SF_vars(HubRegister)
    /\ SF_vars(HubUnregister)
    /\ SF_vars(HubBroadcast)
    /\ SF_vars(HubQuit)

FairSpec == Spec /\ Fairness

-----------------------------------------------------------------------------
(* The type invariant; it bounds every channel by its capacity.            *)
TypeOK ==
    /\ phase \in [Conns -> {"idle", "over", "counted", "upgraded", "registered", "live", "refused"}]
    /\ ipCount \in [IPs -> Int]
    /\ reader \in [Conns -> {"off", "reading", "subscribing", "unsubscribing", "typing",
                              "replying", "unregistering", "closing", "done"}]
    /\ reqRooms \in [Conns -> SUBSET Rooms]
    /\ writer \in [Conns -> {"off", "running", "closing", "done"}]
    /\ connOpen \in [Conns -> BOOLEAN]
    /\ cancelled \in [Conns -> BOOLEAN]
    /\ closed \in [Conns -> BOOLEAN]
    /\ sendClosed \in [Conns -> BOOLEAN]
    /\ sendQ \in [Conns -> Seq(Nat)] /\ \A c \in Conns : Len(sendQ[c]) <= SendCap
    /\ received \in [Conns -> Nat]
    /\ memberOf \in [Conns -> SUBSET Rooms]
    /\ clients \subseteq Conns
    /\ users \in [Users -> SUBSET Conns]
    /\ rooms \in [Rooms -> SUBSET Conns]
    /\ registerQ \in Seq(Conns) /\ Len(registerQ) <= RegisterCap
    /\ unregisterQ \in Seq(Conns) /\ Len(unregisterQ) <= UnregisterCap
    /\ broadcastQ \in Seq(Event) /\ Len(broadcastQ) <= BroadcastCap
    /\ hub \in {"select", "fanout", "sending", "evicting", "stopped"}
    /\ hubMsg \in Event \cup {NoEvent}
    /\ hubTodo \subseteq Conns /\ hubCur \subseteq Conns
    /\ hubClosed \in BOOLEAN
    /\ activeGauge \in Int /\ subsGauge \in Int /\ overtook \subseteq Conns
    /\ roomSub \in {"running", "stopped"}
    /\ presSub \in {"receiving", "sending", "stopped"} /\ presTodo \subseteq Conns
    /\ shutdown \in {"no", "cancelled", "closedAll", "done"}
    /\ nextEvent \in Nat \ {0} /\ nextPresence \in Nat \ {0}
    /\ crashed \in BOOLEAN

Elems(q) == {q[i] : i \in 1..Len(q)}

(* Connections between the increment of their IP counter and the decrement *)
(* that matches it, and those of them that passed the limit check.         *)
HoldsSlot(c) == phase[c] \in {"over", "counted", "upgraded", "registered", "live"}
                  /\ reader[c] # "done"
Admitted(c) == HoldsSlot(c) /\ phase[c] # "over"

(* Per-IP limit (handleWebSocket, ReadPump): on every path, refused or     *)
(* served, the counter equals the connections that hold a slot, and no     *)
(* more than MaxPerIP connections of one address are ever admitted.        *)
IpLimit ==
    \A i \in IPs :
        /\ ipCount[i] = Cardinality({c \in Conns : IpOf[c] = i /\ HoldsSlot(c)})
        /\ Cardinality({c \in Conns : IpOf[c] = i /\ Admitted(c)}) <= MaxPerIP

(* The three indexes of the hub describe the same connections although     *)
(* several goroutines change them: users is the inverse of clients by      *)
(* user, a room lists a connection only if client.rooms lists the room     *)
(* (so that removal finds it), and a registered connection is listed by    *)
(* every room it believes it is subscribed to.                             *)
IndexesAgree ==
    /\ \A u \in Users : users[u] = {c \in clients : UserOf[c] = u}
    /\ \A r \in Rooms, c \in Conns :
         /\ c \in rooms[r] => r \in memberOf[c]
         /\ c \in clients /\ r \in memberOf[c] => c \in rooms[r]

(* Until CloseAll, a connection whose closed flag is set has left every    *)
(* map: a subscription in flight on its read pump cannot put an evicted    *)
(* connection back into a room.  Rooms list only connections that are      *)
(* registered or about to be.                                              *)
ClosedMeansGone ==
    \A c \in Conns :
        /\ ~hubClosed /\ closed[c] => c \notin clients /\ \A r \in Rooms : c \notin rooms[r]
        /\ (\E r \in Rooms : c \in rooms[r]) => c \in clients \cup Elems(registerQ)

(* Why the two invariants above are inductive: a connection enters the     *)
(* register channel once and is never both there and in clients, pumps run *)
(* and subscribe only for a connection that has been sent to the hub, and  *)
(* such a connection is tracked until its closed flag is set.              *)
RegistrationOnce ==
    /\ \A i, j \in 1..Len(registerQ) : i # j => registerQ[i] # registerQ[j]
    /\ \A c \in Conns :
         /\ c \in Elems(registerQ) => c \notin clients /\ ~closed[c]
         /\ c \in clients \cup Elems(registerQ) \/ closed[c] => phase[c] \in {"registered", "live"}
         /\ phase[c] \in {"registered", "live"} /\ ~closed[c] => c \in clients \cup Elems(registerQ)
         /\ phase[c] # "live" => reader[c] = "off" /\ memberOf[c] = {}
         /\ \A r \in memberOf[c] : c \in Elems(registerQ) => c \in rooms[r]

MapsInv == IndexesAgree /\ ClosedMeansGone /\ RegistrationOnce

(* Until CloseAll, the gauges agree with the maps, through evictions and   *)
(* cleanups of the same connection: every subscription is counted once,    *)
(* and every connection once, save for those whose cleanup overtook their  *)
(* registration (they are counted out and still enter the map).            *)
GaugesTrackMaps ==
    ~hubClosed =>
        /\ subsGauge = Cardinality({p \in Rooms \X Conns : p[2] \in rooms[p[1]]})
        /\ activeGauge = Cardinality(clients) - Cardinality(overtook)

(* Unregistering removes the connection from the hub: once its exit has    *)
(* been handled, by the hub or by the read pump itself, it is in no map,   *)
(* unless that happened before its registration was served.                *)
LeaksOnlyOvertaken ==
    \A c \in clients \ overtook : reader[c] \in {"closing", "done"} => c \in Elems(unregisterQ)

(* What a connection is sent of the events of its rooms keeps the order in *)
(* which the hub accepted them, with no repetition: the numbers written so *)
(* far, then those queued, then the one being fanned out increase (Other,  *)
(* the frames that are no events, is less than any of them).               *)
OrderedDelivery ==
    \A c \in Conns :
        /\ \A i, j \in 1..Len(sendQ[c]) : i < j => sendQ[c][j] = Other \/ sendQ[c][i] < sendQ[c][j]
        /\ \A m \in Elems(sendQ[c]) : m = Other \/ received[c] < m
        /\ c \in hubTodo \cup hubCur => \A m \in Elems(sendQ[c]) \cup {received[c]} : m < hubMsg.id

(* A connection that was closed by the hub, or whose read pump left its    *)
(* loop, ends both its pumps and frees its IP slot.                        *)
EventuallyReleased ==
    \A c \in Conns :
        (closed[c] \/ cancelled[c]) ~> ((reader[c] = "done" /\ writer[c] = "done") \/ crashed)

(* Every event the hub accepted is fanned out and the fan-out ends,        *)
(* whatever the pumps of its subscribers do: no slow or dying client can   *)
(* hold up Run.                                                            *)
EventsFanOut ==
    \A n \in 1..MaxEvents :
        (\E e \in Elems(broadcastQ) : e.id = n) ~>
            ((hub = "select" /\ \A e \in Elems(broadcastQ) : e.id # n) \/ hubClosed \/ crashed)

(* No goroutine ever sends on a closed client.send: replies of the read    *)
(* pump, fan-out and presence all race with drainAndClose.                 *)
NoSendOnClosed == ~crashed

=============================================================================
