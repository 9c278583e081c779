# A verification project for the WebSocket chat server

TLA+ modules that model the server in `src/` (a Go chat server: WebSocket hub,
REST API, PostgreSQL, Redis for pub/sub, cache, rate limits and token
revocation), TLC configurations that check them on small instances, and TLAPS
proofs of the central invariants for every value of the constants. The server
runs as several pods behind a load balancer; the pods share PostgreSQL and
Redis and nothing else.

`PROJECT.json` holds the machine-readable side: the map from definitions to
source lines, the runs, one mutant per property, the hazards, the findings and
the theorems.

## 1. Inventory

| component | state | operations | who it meets |
|---|---|---|---|
| **Hub, pumps, admission, shutdown** (`internal/server/server.go`) | maps `clients`, `users`, `rooms`, per client `rooms`, `send`, `closed`, `closedInProgress`, `ctx`; channels `register`, `unregister`, `broadcast`; `ipConnections`; two gauges | `handleWebSocket`, `ReadPump` and its handlers, `WritePump`, `Hub.Run`, `broadcastMessage`, `cleanupClient`, `CloseAll`, `Server.Shutdown` | read pumps call the services; Redis subscribers feed `broadcast`; write pumps drain `send` |
| **Snowflake generator** (`pkg/snowflake`) | `lastTime`, `sequence`, mutex | `Generate`, `waitNextMillisLocked` | called by any goroutine that stores a row |
| **Authentication** (`auth_service.go`) | blacklist keys in Redis; tokens carry the rest | `Login`, `RefreshToken`, `Logout`, `ValidateToken` | middleware and upgrade handler validate on every request |
| **Messages** (`message_service.go`, `message_repo.go`) | table `messages`, row locks, `dedup:*` keys | `SendMessage`, `EditMessage`, `DeleteMessage`, `AddReaction`, `RemoveReaction` | called by read pumps and REST handlers; publish to `ws:room:*` |
| **Rooms** (`room_service.go`, `room_repo.go`) | `rooms.member_count`, `room_members`, cache `room:<id>`, set `room:<id>:subscribers` | `Create`, `GetByID`, `JoinRoom`, `LeaveRoom`, `MarkRead` | membership is what subscriptions and messages are checked against |
| **Rate limiter** (`pubsub.go`, `middleware/rate_limit.go`) | a sorted set per key, with an expiry | `CheckRateLimit` (Lua), the middleware | middleware and WebSocket handshake |
| **Subscribers and pub/sub client** (`server.go` `subscribeToRoomMessages`, `subscribeToPresence`; `pubsub.go`) | a subscription and a back-off delay per goroutine; Redis keys and channels | `PSubscribe`/`Subscribe`, the receive loops, `Publish`, key helpers | publications of every pod in; `Hub.broadcast` and the clients' `send` out |
| **Presence** (`presence_service.go`, `pubsub.go`) | presence keys with a time to live | `SetPresence` | read pumps; its publications reach every connection of every pod |
| **Process** (`cmd/server/main.go`, `Server.Start`, `Server.Shutdown`) | three HTTP servers, `Server.wg`, `clientWG`, the pool and the Redis client | start, signal, ordered stop with timeouts, deferred closes | handshakes, pumps and REST calls that are under way |
| **Users** (`user_service.go`) | cached users | profile and status updates | constructed by `main`, called by nobody |
| **Handlers, config, logging, metrics, tracing, validation** | none that matters here | parse, call one service, format | - |

What is hard in this code:

* many goroutines (two pumps per connection, the hub, two subscribers,
  shutdown) share the maps, the flags and the `send` channels, and the hub
  sends outside its lock;
* a connection leaves through five doors (read error, write error, eviction,
  direct clean-up when `unregister` is full, shutdown) and each must undo the
  registration exactly once;
* check-then-act sequences over Redis and PostgreSQL (deduplication, token
  rotation, edit after delete, ban check, member count, cache fill), run by
  several pods at once, any step of which may fail;
* a change is stored in one step and published in another, from any pod, over
  connections that break and channels that fill: what clients show may differ
  from what is stored;
* the parts of a process are started by goroutines nobody waits for and stopped
  in order, while requests are under way and each wait may time out;
* a mutex that is released in the middle of an operation (Snowflake);
* clocks: stamps taken on a pod and compared in Redis, keys that expire,
  clocks that are stepped back.

What makes each component correct, in a sentence: the hub's indexes, flags and
gauges describe the same connections, channels stay bounded, events arrive in
order, nobody is blocked for ever and every connection is released; ids are
unique; a revoked token stays revoked; one `client_id` is one message, no
reaction is lost, deletion is final; the member count, the cache and the bans
hold; no burst passes the limiter and no denial is unjustified; clients are
given publications in one order and end up showing what is stored; a pod that
is told to stop does, and closes its stores last.

The complete list of hazards, each at its line, is in `PROJECT.json`.

## 2. Modules and the code

| module | models | proofs |
|---|---|---|
| `Hub` | `internal/server/server.go` | `HubProofs` |
| `Snowflake` | `pkg/snowflake/snowflake.go` | `SnowflakeProofs` |
| `Tokens` | `internal/service/auth_service.go`, blacklist of `internal/pubsub` | `TokensProofs` |
| `Messages` | `internal/service/message_service.go`, `internal/repository/message_repo.go`, deduplication keys | `MessagesProofs` |
| `Rooms` | `internal/service/room_service.go`, `internal/repository/room_repo.go` | `RoomsProofs` |
| `Delivery` | publishing in `internal/service`, `internal/pubsub`, the subscribers and the fan-out of `internal/server` | `DeliveryProofs` |
| `Broadcast` | nothing: what the fan-out across pods promises; `Delivery` implements it | `DeliveryProofs` |
| `Process` | `cmd/server/main.go`, `Start`, `Shutdown` and the admission in `internal/server` | `ProcessProofs` |
| `RateLimit` | Lua script of `internal/pubsub`, `internal/middleware/rate_limit.go` | `RateLimitProofs` |

`MC<module>` gives the constants of each their small values. An operator whose
body departs from the code (`OverLimitOffByOne`, `ReceiveRoomEventAsync`, ...)
stands just before the definition it is a variant of; it is a plausible mistake
used to show that a property can fail, and nothing else refers to it.

**Hub.** One element of `Conns` is one connection attempt. `phase` is the
progress of `handleWebSocket`, `reader` and `writer` where the two pumps are,
`hub`/`hubMsg`/`hubTodo`/`hubCur` where `Run` and `broadcastMessage` are. Each
critical section of `h.mu`, each channel operation and each flag update is one
step; `broadcastMessage` is snapshot, look-up, send and eviction, because other
goroutines run in between. A send on a closed channel sets `crashed`: in Go it
panics, also inside a `select` with a default, and none of these goroutines
recovers. `Refuse` covers all refusals of the handshake. A frame is either the
number of a broadcast event or `Other`. What a service answers is a free choice
here; the services have modules of their own. The wait groups and the waits of
`Shutdown` are in `Process`.

**Snowflake.** `mu` is held only in states in which the locked code waits in
`waitNextMillisLocked`; the rest of `Generate` is one step because it does not
release the mutex. `Tick` moves the clock either way. Widths are constants;
`Encode` shows that fields of any width do not overlap.

**Tokens.** A token is its jti with its kind and expiry; the blacklist stores
when a key expires. `RefreshToken` is the check (`RefreshCheck`) and the rest
(`RefreshIssue`); `Logout` is the middleware, the access entry and the refresh
entry, because a failure or another request may come between them. With
`MayFail` an error of the look-up counts as "not revoked", as in the code (the
token is then recorded in `unchecked`), and a failed SET ends the call with an
error.

**Messages.** A caller is a connection: frames of one connection are handled
one after the other. Every statement to Redis or PostgreSQL is a step.
`UpdateReactionsTx` holds the row from `SELECT ... FOR UPDATE` to its commit.
Texts, rooms and roles are abstracted: `Reject` may end a request at any check.
History variables record why deduplication is not promised (`excused`: sends of
one key overlap, or a step was lost; `lapsed`: the key expired), which
announcements were lost (`lost`), what the reactions should be (`wanted`) and
that an edit wrote back stale reactions (`clobbered`).

**Rooms.** One room. Transactions run at READ COMMITTED, statement by
statement, with the row locks they take; the COUNT of `member_count` sees the
rows committed when it runs plus its own. `aged` says that more than a second
has passed since the user's stored `joined_at`, which is all the code compares.
`drifted` and `stale` record that the last transaction overlapped another or did
not count, and that the cached copy was filled late or not deleted.
`Ban` is what an operator does to the table; no code of the repository sets
`banned_at`.

**Delivery.** It composes what the other modules model apart: a request stores
(`Messages`, `Rooms`, `SetPresence`) and publishes in a second step that may be
overtaken, fail unnoticed or never come, and after a reaction there is no such
step (`React`); Redis hands the publication to the
subscriptions that stand at that moment; a subscriber goroutine reads it and
tries `Hub.broadcast`, or for presence every client directly; the hub fans it
out (`Hub` has the detail of that step). An object (a message, a user's
presence) holds the number of the write that made it, a queue holds positions
of `log`, the order of the publications. `chan` is everything between Redis and
the goroutine; when the connection breaks any suffix of it is lost and go-redis
either reconnects (`cut`) or closes the channel (`closed`), after which the
loop subscribes again. `shown` is what a client makes of the frames it is given
and of the history it loads. A message is one document: sending and editing
store all of it, reactions included, and publish what they stored, so one number
stands for the whole. A client that applies an event as it stands is
assumed, and loading the history is one step. `JoinRoom` is a join that found no
membership; that of a member returns at once and is no step. `unsure` records, connection by
connection, every reason why a copy may be stale, and is cleared by the next
event or load that makes it current.

**Broadcast.** One sequence of publications; a connection in the audience of a
topic may be given any later publication of it. Entering the audience of the
room takes membership at that moment; leaving the room does not end it. The
mapping takes `published` to the topics of `log` and `audience` to the open
connections, or to those whose membership was checked.

**Process.** `main` is the position in start and ordered stop, one value per
wait. `http.Server.Shutdown` closes the listener and waits for requests, not
for upgraded connections, until the 30 s run out; a server that is still `nil`
is passed over. `clientWG` counts the live connections, a connection being one
unit; `waiter` is the goroutine in `Wait`, which the last `Done` wakes, and the
runtime panics if the counter was raised again before it got to run. `db.Close`
waits for queries that are out. `timeouts` and `late` record which waits ran
out and what started after the wait that should have covered it. When the
process ends everything in it is gone (`Exit`).

**RateLimit.** One key. The script is one step, its stamp was taken up to `Lag`
earlier. Milliseconds and nanoseconds are one unit of time.

## 3. Runs

Passing runs:

| run | shows |
|---|---|
| `HubMaps` | `IndexesAgree`, `ClosedMeansGone`, `GaugesTrackMaps`, `LeaksOnlyOvertaken` with two tabs of one user, evictions, direct clean-ups and both kinds of requests |
| `HubDelivery` | `TypeOK` (channel bounds), `IpLimit` and `OrderedDelivery` with every kind of frame and two connections of one address that allows one |
| `HubRelease` | `EventuallyReleased`, `EventsFanOut`, with eviction, presence and shutdown |
| `SnowflakePods` | `IncreasingUntilExhausted`, `SoleCallerIncreasing`, `PodsDisjoint`, `TimeNeverGoesBack`, `TypeOK` |
| `Tokens` | `RevokedStaysOut`, `RevokedNeverAccepted`, `TypeOK`, with Redis failing at any step |
| `Messages` | `DedupUnlessExcused`, `ReactionsKept`, `StoredMeansAnnounced`, `DeletionIsFinal`, `TypeOK`, with failures at every step and keys expiring |
| `Rooms` | `CountExact`, `CacheFresh`, `NoDeadlock`, `BannedStaysOut`, `TypeOK`, with failing transactions, readers and bans |
| `Delivery` | `Converges`, `EventuallyDelivered`, `SubscriptionReturns`, the refinement `ImplementsBroadcast` and `TypeOK`, with lost publications and connections, a full broadcast channel, evictions and a stopping pod |
| `Process` | `StoresOutliveUsers`, `EventuallyExits`, `RegistrationCompletes`, `TypeOK`, with a signal at any time and every wait timing out |
| `RateLimitWindow` | `LimitHolds`, `DenialJustified`, `TypeOK` |

Runs that are expected to be violated; each contrasts a sentence of the
documentation or a test with what the code does (quoted in `PROJECT.json`):

| run | what the counterexample is |
|---|---|
| `HubPanic` | the hub has found a connection not closed; a read error ends it and the write pump's `drainAndClose` closes `client.send`; the hub's fan-out sends on it and the process panics (a reply or a presence update can do the same) |
| `SnowflakeRace` | a goroutine exhausts a millisecond: the sequence wraps to 0, and it sleeps with the mutex released while `lastTime` is still that millisecond; another goroutine, in the same millisecond, draws sequence 1 a second time and returns an id that was given out before. The sleeper itself repeats nothing: it returns only past `lastTime` |

Other disagreements between the documentation and the code that the models
contain. The properties above are stated so that they say exactly what holds in
spite of them.

* `docs/websocket-protocol.md:106` calls a retry with a `client_id` safe; two
  overlapping sends both miss the key and store two messages
  (`message_service.go:60`; `excused` in `Messages`).
* `docs/authentication.md:120` says a refresh token is used once; two
  overlapping refreshes both pass the check (`auth_service.go:302`).
* `README.md:158` says revocation is effective immediately; an error of the
  look-up counts as "not revoked" (`auth_service.go:247`; `unchecked`).
* `audit.md:8` says unregistering cleans up; an exit handled before its
  registration leaves the connection in the maps (`server.go:518`; `overtook`).
* `docs/adr/0003-graceful-shutdown-and-connection-draining.md:11-12` stops
  accepting first and flushes the buffers, and `docs/architecture.md:161` says
  that no new work is accepted before existing work drains; the listener closes
  after the clients (`server.go:350`) and `drainAndClose` discards what is
  queued (`server.go:813`). A connection admitted meanwhile is not waited for,
  or makes the `WaitGroup` panic as reused (`server.go:457`); a signal that
  comes before `Start` ran finds no server to close, which then serves until
  the process ends. `Process!StoresOutliveUsers` lists exactly these cases.
* `internal/service/room_message_service_test.go:62` expects the count to grow
  with a join; leaving and joining again after a second keeps the first
  `joined_at` and is not counted (`room_repo.go:198`; `drifted` in `Rooms`).
* `docs/adr/0002-redis-pubsub-and-presence.md:38` gives delays of 1 s to
  60 s; they are 100 ms to 10 s (`server.go:114`). `Subscribe` and `PSubscribe`
  of `pubsub.go` never return an error, so with that implementation the delay
  is never waited and reconnecting is left to go-redis; the model keeps the
  error branch (`SubscribeFails`), which the interface allows, next to the lost
  and closed subscriptions that do occur.
  The same document (line 45) deduplicates with `SET NX`; the code reads and
  later writes with a plain SET.
* `docs/websocket-protocol.md:262-277` has the message in an event of a
  deletion; the subscriber decodes a structure without `message_id`
  (`server.go:180`) and forwards a null message, so a client cannot tell which
  message went away before it loads the history (`Names` in `Delivery`).
* `message_service.go:179` refuses to edit a deleted message; an edit checked
  before the deletion still rewrites the row (`message_repo.go:121`), and any
  edit writes back the reactions it had read (`clobbered`).
* `docs/websocket-protocol.md:65` says a subscriber must be a member; leaving a
  room does not end its subscriptions (`room_service.go:214`; `Leave` in
  `Broadcast`).
* `docs/websocket-protocol.md:288-301` documents a `reaction` event; nothing
  sends one. `AddReaction` and `RemoveReaction` change the stored message and
  publish nothing, and `handleReaction` answers only the connection that asked
  (`message_service.go:272`, `server.go:1066`). Other clients show the old
  reactions until the next edit of the message arrives, which carries them, or
  until they load the history (`React` in `Delivery`).
* two edits, or two presence updates of one user, may be published in the
  opposite order of their writes, and clients then keep the older one
  (`message_service.go:202`, `pubsub.go:129`; `Late` in `Delivery`).
* `docs/security.md:63` says the limiter fails closed; it lets requests through
  (`rate_limit.go:29`; `Unreachable`).

### Bounds, and why they are enough

* `Hub`: two connections of one user show every interaction between two
  connections that the code has (they meet in the maps, in the hub's channels
  and in the address counter, each of which treats all others alike): `HubMaps`
  lets both be served, `HubDelivery` has an address that allows one, so that
  the limit is passed. `HubRelease`, one connection, is about what the hub and
  the shutdown owe to each. Capacity one makes every channel fill at once;
  `HubDelivery` uses two so that order can be wrong. `MaxEvents` and
  `MaxPresence` bound what reaches the hub from Redis. All safety properties
  are also proved without these bounds, and with shutdowns in all of them.
* `Snowflake`: a mask of 1 exhausts a millisecond after two ids; four ids and
  three milliseconds let a wait, a stepped-back clock and another caller meet.
* `Tokens`: two requests, lifetimes of 1 and 2, two pairs, and a clock that
  outlives the longest token and its entry; the properties are proved for every
  value.
* `Messages`: three connections of two users, two messages and `MaxRequests`
  requests in all: four leave room for a message and three requests that meet on
  its row, or for repeated sends of one key and reactions to what they stored.
* `Rooms`: two requests and two users. With two transactions a count may miss
  one row, locks may cross and a fill may straddle a commit.
* `Delivery`: one pod, one connection, one message and one user's presence.
  Pods share only `log` and `members`, requests of any pod are in `pending`, and
  the properties speak of one connection and one object at a time. Two writes
  can be published in the opposite order, fill the broadcast channel (capacity
  one) or be a message and its deletion or a reaction to it; two faults take the delay to its cap,
  or combine a lost connection with a lost publication, an eviction or a stop.
* `Process`: two connections and a register channel of capacity one: one
  handler blocks while the other is registered, one connection ends while the
  other is added, which is what the reuse of the `WaitGroup` takes. One REST
  call; both servers are stopped alike.
* `RateLimit`: a limit of 2, a window of 3, a lag of 1 and nine ticks: the
  window passes several times; the properties are proved for every value.

`CHECK_DEADLOCK FALSE` is given where the bounds let the system come to rest
(ids, tokens, messages, writes or grants used up). The runs of `Hub`, `Rooms`
and `Process` check for deadlock; `Hub!Finished` and `Process!Exited` mark the
states in which everything has ended.

### Fairness

`Hub!Fairness`: a goroutine that can run does run (WF). Blocked senders on a Go
channel queue in order and `select` chooses at random among ready channels, so
a channel operation that is possible again and again happens (SF on `Register`,
`HubRegister`, `HubUnregister`, `HubBroadcast`, `HubQuit`). Handlers have a 10 s
timeout and writes a deadline, so both end; a read on a socket this side has
closed fails. Nothing is assumed of a peer: it need not connect, send, read or
hang up.

`Delivery!Fairness`: the loop of a subscriber goes on (its timer fires, a
subscription succeeds when Redis is reachable, go-redis reconnects: after
finitely many faults, `MaxFaults`), it reads what is there, and the hub fans
out. Nothing is assumed of requests, of the publication that follows a write
or of peers.

`Process!Fairness`: `main` goes on and its timers fire, the hub serves
registrations while it runs, handlers of requests and frames end (the context
of a frame has a timeout, REST calls end with the database's answer). No signal
has to come, no pump or subscriber has to end in time, and the hub need not
notice `quit`.

`Snowflake`, `Tokens`, `Messages`, `Rooms` and `RateLimit` state no liveness;
that requests on a room cannot block each other for ever is the invariant
`Rooms!NoDeadlock`.

## 4. Proofs

All proofs hold for every value of the constants allowed by the `ASSUME` of the
component: any number of connections, users, rooms, goroutines, pods, requests,
messages and objects, any capacities, lifetimes, limits and windows, and any
bound on what the runs bound. What the assumptions ask is that capacities,
limits and delays are numbers (and positive where the code has a positive
default), that a map from connections to users, pods or addresses is one, and
that marks such as `Free`, `NoKey`, `NoObject` and `"ws"` are not also the name
of a request, a key, an object or a connection. Sets are assumed finite only
where the code counts them (`Users` of a room, `Conns` of the hub).

Type invariants carry what relates the locks, channels and positions of a
component to each other, so that their proofs are the first half of the others.

**HubProofs.**
`TypeCorrect`: every channel within its capacity. The type invariant is cut
into parts by what the steps change (maps, flags, queues, pumps), each kept in
one lemma per group of actions. `MapsInvariant`: `MapsInv` is inductive. `IndexesAgree` and
`ClosedMeansGone` are not inductive alone: a `HubRegister` step may take a
closed connection from the channel, and a subscription may run before its
connection is in `clients`. `RegistrationOnce` rules the first out (a connection
is in the channel once, and never while closed or registered) and covers the
second (a connection that has been sent to the hub is tracked until its closed
flag is set). `MapsRemove` is the lemma shared by clean-up and eviction.
`HubIndexesAgree` and `HubClosedMeansGone` follow. `HubIpLimit` is inductive
over the type invariant and a small link between phase and read pump; `SlotTake`
and `SlotFree` are the two cardinality arguments, everything else leaves the
holders of slots alone (`SlotFrame`). `HubLeaksOnlyOvertaken` from `ExitInv`: a
connection enters the unregister channel once, when its read pump ends, and from
then on is tracked by the hub only while it is in that channel, or if its exit
overtook its registration; a shutdown changes none of it. `HubGaugesTrackMaps`
uses both invariants: a removal takes out exactly the subscriptions it counts,
because `client.rooms` and `Hub.rooms` agree, and an exit is counted once,
because it is cleaned up once. `HubOrderedDelivery` from `OrderInv`: the numbers
in the broadcast channel increase, all of them lie above the event being fanned
out and above whatever was sent, and a fan-out visits a connection once.

**SnowflakeProofs.** `TypeCorrect`; `TimeMonotone` (an action property);
`IdsIncrease`, from the invariant that every id of a pod lies at or before
`<<lastTime, sequence>>` until a millisecond is exhausted; `PodsNeverCollide`,
from `HighPartUnique`, which recovers the node from an encoded id.
`SoleCallerIds`, for a goroutine that has a generator to itself: `SoleInv` says
that no id lies after the one of `<<lastTime, sequence>>`, and that between calls
that one is the last that was returned. It needs no exemption for exhausted
milliseconds, which is where a shared generator goes wrong: nobody else draws
numbers while its only caller sleeps.

**TokensProofs.** `TypeCorrect`; `RevocationHolds` from `RevocationInv`: a token
never expires later than now plus the lifetime of its kind, so an entry made now
outlives it, and this must also be known of the access token of a logout that
has not reached its second entry. `RevokedIsRefused` follows: a token that is
revoked and alive is on the list, so only a failed look-up lets it in.

**RateLimitProofs.** `TypeCorrect`; `NoBurst` from `WindowInv` (an entry that is
no longer in the sorted set left the window, up to the lag; grants are in order;
the key outlives the last grant's window) and a pigeonhole lemma: of the last
`Limit` grants at least one was no longer in the set when another was granted.
`DenialsAreJustified` from the same invariant: what was counted is recent.

**RoomsProofs.** `TypeCorrect` needs one fact more than `TypeOK`, `Counts`: a
transaction that is at its COUNT is one that counts, so the room row is its own
when it commits. `LocksNeverCross`: in any set of requests, one that counts
or commits waits for nobody; if there is none, one that waits for the room row
waits for a committing one, which is outside the set; and if the set has no open
transaction at all, its members wait for open ones only.
`RoomCountExact` and `RoomCacheFresh` come from
`CountInv`: a transaction that another one overtook knows it (`OverlapKnown`),
so a count, or a copy on its way to the cache, that knows of no overlap is the
one a fresh COUNT or SELECT would give (`SnapsFresh`). `BansHold` from `BanInv`:
bans are never lifted, so a request past its check that began under a ban was
not told of it.

**MessagesProofs.** `TypeCorrect`: the lock of a row is held exactly by the
request that is past its SELECT ... FOR UPDATE. `ReactionsSerialised` from
`ReactInv`: what such a request read is what the row holds until it commits
(`SnapsHold`), and nobody has reacted to a message to come. `FirstDeletionWins`
step by step over the table (`TableStep`). `AllAnnounced`:
`StoredMeansAnnounced` names the two places a request can be between its INSERT
and its PUBLISH, which makes it inductive. `DedupHolds` from `DedupInv`: for a
key that nothing excuses, a second copy is owed by nobody: there is at most one
copy, its key is set or about to be, one send at a time is past the look-up, and
a send that is about to insert finds no copy (`Owed`).

**ProcessProofs.** `StoresClosedLast` from `StopInv`, one conjunct per stage of
the shutdown: once `main` is past a wait, what the wait was for is over, or the
wait timed out, or it started late, and stays so until the process ends.

**DeliveryProofs.** Lemmas on channels first (what is put in, taken out, cut off
or left). `KeepsBroadcastPromise`, the refinement: `Publish` is `Publish`,
`Fanout` and `ReceivePresence` are `Deliver`, `Connect`, `CheckMembership`,
`Join` and `Leave` are their abstract counterparts, `Unsubscribe` and
`Disconnect` are `Part`, and every other step leaves the abstract state alone.
That what is delivered is newer than what a connection was given needs
`OrderInv`: each channel is in the order of publication, all that waits for the
broadcast channel lies after what is in it, and that after `last` of every
connection of the pod. `CopiesConverge` from `ConvergeInv`: for a copy that
`unsure` does not list, the write that the object holds is still to be
published, or is the last of its publications on the way to the pod, or has
arrived and is shown; a deleted message has nothing more on its way. The proof
shows for each of the losses, overtakings, evictions and unannounced changes
(deletions, reactions, expired keys) that `unsure` takes in every copy it spoils.

**Only model-checked.** Liveness, which is outside the prover's reach:
`EventuallyReleased`, `EventsFanOut`, `SubscriptionReturns`,
`EventuallyDelivered`, `EventuallyExits` and `RegistrationCompletes`. Every
safety property of a passing run is also a theorem.

## 5. Not modelled

* The hash that gives a pod its node id (`main.go:49`; two pods may get the
  same; `PodsDisjoint` is about different ones).
* The user service: `main` constructs it and nothing calls it. Registration,
  password hashing, signatures and the user table are a free choice of who may
  log in.
* Validation and sanitisation of text (a refusal is a free choice); formatting
  of frames and answers.
* Read-only operations (lists, search, threads, presence look-ups), which
  change nothing; the history is modelled where a client loads it.
* `MarkRead`, which overwrites one row that nothing reads; `Update`, `Delete`,
  `AddMember` and `RemoveMember` of rooms, `GetRoomSubscribers` and
  `GetPresences`: nothing calls them.
* Typing events stay on the pod they arrive at: `Hub` has them, `Delivery` does
  not.
* Two connections of one client (`Delivery` follows each connection by itself),
  and how a client joins what it shows on reconnecting.
* The metrics server but for its place in the shutdown; configuration, logging,
  metrics (but for two gauges), tracing, health.

## 6. Plan

Done, in this order: `Hub`, `Snowflake`, `Tokens`, `Messages`, `Rooms`,
`RateLimit`, `Delivery` with `Broadcast`, `Process`, with the runs and proofs
above.

Every safety property of the passing runs is proved. What is left are
extensions: a second connection of one client and the order between its copies
in `Delivery`, the read position of `MarkRead` should something come to read it,
and the user service should something come to call it.
