------------------------------- MODULE Rooms -------------------------------
(***************************************************************************)
(* One room of internal/service/room_service.go: its members and its       *)
(* member_count (internal/repository/room_repo.go), the cached copy        *)
(* room:<id> and the Redis set room:<id>:subscribers.  A caller is one     *)
(* request in progress on some pod.                                        *)
(*                                                                         *)
(* PostgreSQL runs the transactions at READ COMMITTED: a written row stays *)
(* locked until the transaction ends, and a statement counts the rows that *)
(* were committed when it began, plus its own.                             *)
(***************************************************************************)
EXTENDS Naturals, FiniteSets

CONSTANTS
    Callers, Users,
    Owner,         \* the user that creates the room
    Ops,           \* the requests that are made
    MayFail        \* whether Redis, the database or a pod may fail

Free == "free"     \* the holder of a row that is not locked

ASSUME RoomsAssumption ==
    /\ IsFiniteSet(Users) /\ Owner \in Users
    /\ Free \notin Callers
    /\ Ops \subseteq {"join", "leave", "get", "ban"}
    /\ MayFail \in BOOLEAN

VARIABLES
    member,        \* room_members: has the user a row, and is left_at NULL
    aged,          \* users whose joined_at is more than a second ago
    banned,        \* users whose banned_at is set
    count,         \* rooms.member_count; 0 before the room exists
    rowLock,       \* caller whose transaction holds the row of a user
    roomLock,      \* caller whose transaction holds the row of the room
    cache,         \* the set of the member_count of the cached copy, {} if there is none
    subscribers,   \* the Redis set of subscribers
    req,           \* the request each caller is handling
    drifted,       \* history: a transaction overlapped another or did not count
    stale          \* history: the cached copy was filled late or not deleted

vars == <<member, aged, banned, count, rowLock, roomLock, cache, subscribers,
          req, drifted, stale>>

InTx == {"counting", "recounting", "committing"}
Idle == [op |-> "none", at |-> "idle", user |-> Owner, old |-> FALSE, snap |-> 0,
         raced |-> FALSE, banSeen |-> FALSE]
Request == [op: {"none", "join", "leave", "get"},
            at: {"idle", "checking", "joining", "leaving", "invalidating", "announcing",
                 "missed", "filling"} \cup InTx,
            user: Users, old: BOOLEAN, snap: 0..Cardinality(Users), raced: BOOLEAN,
            banSeen: BOOLEAN]

Exists == member[Owner] # "never"
Active(mem) == {u \in Users : mem[u] = "active"}
Begin(c, op, u, at) ==
    req' = [req EXCEPT ![c] = [Idle EXCEPT !.op = op, !.user = u, !.at = at,
                                           !.banSeen = u \in banned]]
End(c) == req' = [req EXCEPT ![c] = Idle]

Init ==
    /\ member = [u \in Users |-> "never"]
    /\ aged = {} /\ banned = {}
    /\ count = 0
    /\ rowLock = [u \in Users |-> Free] /\ roomLock = Free
    /\ cache = {} /\ subscribers = {}
    /\ req = [c \in Callers |-> Idle]
    /\ drifted = FALSE /\ stale = FALSE

(* Create: the room and its owner are inserted by one transaction.         *)
Create ==
    /\ ~Exists
    /\ member' = [member EXCEPT ![Owner] = "active"]
    /\ count' = 1
    /\ UNCHANGED <<aged, banned, rowLock, roomLock, cache, subscribers, req, drifted, stale>>

-----------------------------------------------------------------------------
(* JoinRoom *)

(* GetMember: the request of an active member, banned or not, is answered  *)
(* at once and changes nothing; an error is taken for "not an active       *)
(* member".                                                                *)
JoinRoom(c, u) ==
    /\ "join" \in Ops /\ req[c] = Idle /\ Exists
    /\ member[u] # "active" \/ MayFail
    /\ Begin(c, "join", u, "checking")
    /\ UNCHANGED <<member, aged, banned, count, rowLock, roomLock, cache, subscribers,
                   drifted, stale>>

BanIgnored(u) == TRUE

(* GetMemberRecord finds no ban.                                           *)
NotBanned(u) == u \notin banned

(* A record that cannot be read is taken for "not banned".  joined_at is   *)
(* set once: this is where the new member's JoinedAt is read off the clock.*)
CheckBan(c) ==
    LET u == req[c].user IN
    /\ req[c].at = "checking"
    /\ \/ /\ NotBanned(u)
          /\ req' = [req EXCEPT ![c].at = "joining", ![c].old = u \in aged]
       \/ /\ MayFail
          /\ req' = [req EXCEPT ![c].at = "joining", ![c].old = u \in aged, ![c].banSeen = FALSE]
       \/ ~NotBanned(u) /\ End(c)
    /\ UNCHANGED <<member, aged, banned, count, rowLock, roomLock, cache, subscribers,
                   drifted, stale>>

(* LeaveRoom: GetMember finds an active row.                               *)
LeaveRoom(c, u) ==
    /\ "leave" \in Ops /\ req[c] = Idle
    /\ member[u] = "active"
    /\ Begin(c, "leave", u, "leaving")
    /\ UNCHANGED <<member, aged, banned, count, rowLock, roomLock, cache, subscribers,
                   drifted, stale>>

-----------------------------------------------------------------------------
(* JoinRoomTx and LeaveRoomTx *)

(* JoinRoomTx counts when joined_at lies within a second of this request.  *)
Recounts(c) == ~(req[c].op = "join" /\ req[c].old)

(* The row of the member is written; it stays locked.                      *)
WriteMember(c) ==
    LET u == req[c].user
        others == {d \in Callers \ {c} : req[d].at \in InTx}
    IN
    /\ req[c].at \in {"joining", "leaving"}
    /\ rowLock[u] = Free
    /\ rowLock' = [rowLock EXCEPT ![u] = c]
    /\ req' = [d \in Callers |->
                 IF d = c THEN [req[c] EXCEPT !.at = IF Recounts(c) THEN "counting" ELSE "committing",
                                              !.raced = others # {}]
                 ELSE IF d \in others THEN [req[d] EXCEPT !.raced = TRUE]
                 ELSE req[d]]
    /\ UNCHANGED <<member, aged, banned, count, roomLock, cache, subscribers, drifted, stale>>

Written(c) == [member EXCEPT ![req[c].user] = IF req[c].op = "join" THEN "active" ELSE "left"]

CountedBeforeWrite(c) == Cardinality(Active(member))

(* SELECT COUNT of the rows whose left_at is NULL, as this transaction     *)
(* sees them.                                                              *)
Counted(c) == Cardinality(Active(Written(c)))

CountMembers(c) ==
    /\ req[c].at = "counting"
    /\ req' = [req EXCEPT ![c].at = "recounting", ![c].snap = Counted(c)]
    /\ UNCHANGED <<member, aged, banned, count, rowLock, roomLock, cache, subscribers,
                   drifted, stale>>

UpdateRoomUnlocked(c) ==
    /\ req[c].at = "recounting"
    /\ req' = [req EXCEPT ![c].at = "committing"]
    /\ UNCHANGED <<member, aged, banned, count, rowLock, roomLock, cache, subscribers,
                   drifted, stale>>

(* UPDATE rooms SET member_count waits for the row of the room.            *)
UpdateRoom(c) ==
    /\ req[c].at = "recounting"
    /\ roomLock = Free
    /\ roomLock' = c
    /\ req' = [req EXCEPT ![c].at = "committing"]
    /\ UNCHANGED <<member, aged, banned, count, rowLock, cache, subscribers, drifted, stale>>

Released(c) == [u \in Users |-> IF rowLock[u] = c THEN Free ELSE rowLock[u]]
RoomReleased(c) == IF roomLock = c THEN Free ELSE roomLock

Commit(c) ==
    /\ req[c].at = "committing"
    /\ member' = Written(c)
    /\ count' = IF Recounts(c) THEN req[c].snap ELSE count
    /\ drifted' = (req[c].raced \/ ~Recounts(c))
    /\ rowLock' = Released(c) /\ roomLock' = RoomReleased(c)
    /\ req' = [d \in Callers |-> IF d = c THEN [Idle EXCEPT !.op = req[c].op, !.user = req[c].user,
                                                           !.at = "invalidating"]
                                 ELSE IF req[d].at = "filling" THEN [req[d] EXCEPT !.raced = TRUE]
                                 ELSE req[d]]
    /\ UNCHANGED <<aged, banned, cache, subscribers, stale>>

InvalidateForgotten(c) ==
    /\ req[c].at = "invalidating"
    /\ req' = [req EXCEPT ![c].at = "announcing"]
    /\ UNCHANGED <<member, aged, banned, count, rowLock, roomLock, cache, stale, subscribers, drifted>>

(* DEL room:<id>; an error is ignored.                                     *)
Invalidate(c) ==
    /\ req[c].at = "invalidating"
    /\ req' = [req EXCEPT ![c].at = "announcing"]
    /\ \/ cache' = {} /\ stale' = FALSE
       \/ MayFail /\ stale' = (cache # {}) /\ UNCHANGED cache
    /\ UNCHANGED <<member, aged, banned, count, rowLock, roomLock, subscribers, drifted>>

(* SubscribeToRoom and UnsubscribeFromRoom of the pub/sub: SADD or SREM,   *)
(* then the event; an error is ignored.                                    *)
Announce(c) ==
    /\ req[c].at = "announcing"
    /\ \/ subscribers' = IF req[c].op = "join" THEN subscribers \cup {req[c].user}
                                               ELSE subscribers \ {req[c].user}
       \/ MayFail /\ UNCHANGED subscribers
    /\ End(c)
    /\ UNCHANGED <<member, aged, banned, count, rowLock, roomLock, cache, drifted, stale>>

-----------------------------------------------------------------------------
(* GetByID: a cache miss, a read of the database, a write to the cache.    *)

GetByID(c) ==
    /\ "get" \in Ops /\ req[c] = Idle /\ Exists
    /\ cache = {} \/ MayFail
    /\ Begin(c, "get", Owner, "missed")
    /\ UNCHANGED <<member, aged, banned, count, rowLock, roomLock, cache, subscribers,
                   drifted, stale>>

ReadRoom(c) ==
    /\ req[c].at = "missed"
    /\ req' = [req EXCEPT ![c].at = "filling", ![c].snap = count]
    /\ UNCHANGED <<member, aged, banned, count, rowLock, roomLock, cache, subscribers,
                   drifted, stale>>

FillCache(c) ==
    /\ req[c].at = "filling"
    /\ \/ cache' = {req[c].snap} /\ stale' = req[c].raced
       \/ MayFail /\ UNCHANGED <<cache, stale>>
    /\ End(c)
    /\ UNCHANGED <<member, aged, banned, count, rowLock, roomLock, subscribers, drifted>>

(* The copy lives for five minutes.                                        *)
CacheExpires ==
    /\ cache # {}
    /\ cache' = {} /\ stale' = FALSE
    /\ UNCHANGED <<member, aged, banned, count, rowLock, roomLock, subscribers, req, drifted>>

-----------------------------------------------------------------------------
(* An operator sets banned_at; no code of the repository does.             *)
Ban(u) ==
    /\ "ban" \in Ops /\ u \notin banned
    /\ member[u] # "never" /\ rowLock[u] = Free
    /\ banned' = banned \cup {u}
    /\ UNCHANGED <<member, aged, count, rowLock, roomLock, cache, subscribers, req,
                   drifted, stale>>

(* A second passes after the user first joined.                            *)
Ages(u) ==
    /\ member[u] # "never" /\ u \notin aged
    /\ aged' = aged \cup {u}
    /\ UNCHANGED <<member, banned, count, rowLock, roomLock, cache, subscribers, req,
                   drifted, stale>>

AbandonNoRollback(c) ==
    /\ MayFail /\ req[c] # Idle
    /\ End(c)
    /\ UNCHANGED <<member, aged, banned, count, rowLock, roomLock, cache, subscribers,
                   drifted, stale>>

(* A statement fails, the deadline of the request passes or the pod dies:  *)
(* the transaction rolls back and the rest of the request is not done.     *)
Abandon(c) ==
    /\ MayFail /\ req[c] # Idle
    /\ End(c)
    /\ rowLock' = Released(c) /\ roomLock' = RoomReleased(c)
    /\ stale' = (stale \/ (req[c].at = "invalidating" /\ cache # {}))
    /\ UNCHANGED <<member, aged, banned, count, cache, subscribers, drifted>>

Transaction(c) == WriteMember(c) \/ CountMembers(c) \/ UpdateRoom(c) \/ Commit(c)
Progress(c) ==
    \/ CheckBan(c) \/ Transaction(c) \/ Invalidate(c) \/ Announce(c)
    \/ ReadRoom(c) \/ FillCache(c)

Next ==
    \/ Create \/ CacheExpires
    \/ \E c \in Callers :
         \/ \E u \in Users : JoinRoom(c, u) \/ LeaveRoom(c, u)
         \/ GetByID(c) \/ Progress(c) \/ Abandon(c)
    \/ \E u \in Users : Ban(u) \/ Ages(u)

Spec == Init /\ [][Next]_vars

-----------------------------------------------------------------------------
(* The type invariant; the rows that are locked are those an open          *)
(* transaction has written.                                                *)
TypeOK ==
    /\ member \in [Users -> {"never", "active", "left"}]
    /\ aged \subseteq Users /\ banned \subseteq Users
    /\ count \in 0..Cardinality(Users)
    /\ rowLock \in [Users -> Callers \cup {Free}]
    /\ roomLock \in Callers \cup {Free}
    /\ cache \subseteq 0..Cardinality(Users)
    /\ subscribers \subseteq Users
    /\ req \in [Callers -> Request]
    /\ drifted \in BOOLEAN /\ stale \in BOOLEAN
    /\ \A c \in Callers, u \in Users :
         rowLock[u] = c <=> req[c].at \in InTx /\ req[c].user = u
    /\ \A c \in Callers : roomLock = c <=> req[c].at = "committing" /\ Recounts(c)

(* member_count is the number of active members whenever the last          *)
(* transaction counted and overlapped no other one.  In particular such a  *)
(* transaction repairs whatever earlier ones left.                         *)
CountExact == ~drifted => count = Cardinality(Active(member))

(* A cached copy shows the stored member_count once the requests that      *)
(* changed it are past their DEL, unless it was read before a commit and   *)
(* written after it, or the DEL was lost.                                  *)
CacheFresh ==
    \/ cache \subseteq {count} \/ stale
    \/ \E c \in Callers : req[c].at = "invalidating"

(* A user who was banned when a request to join began does not become an   *)
(* active member through it, unless the record of the ban could not be     *)
(* read.                                                                   *)
BannedStaysOut ==
    [][\A u \in Users : member[u] = "left" /\ member'[u] = "active" =>
         \E c \in Callers : req[c].user = u /\ req[c].at = "committing" /\ ~req[c].banSeen]_vars

(* The requests whose transaction holds the row that the next statement of *)
(* c is going to write.                                                    *)
WaitsFor(c) ==
    {d \in Callers : \/ req[c].at \in {"joining", "leaving"} /\ rowLock[req[c].user] = d
                     \/ req[c].at = "recounting" /\ roomLock = d}

(* Transactions never wait for each other in a circle, failed and rolled   *)
(* back ones included: all of them take the row of the member first and    *)
(* the row of the room last.                                               *)
NoDeadlock ==
    \A S \in (SUBSET Callers) \ {{}} : \E c \in S : WaitsFor(c) \cap S = {}
============================================================================
