------------------------------ MODULE Messages ------------------------------
(***************************************************************************)
(* Messages of internal/service/message_service.go over the table of       *)
(* internal/repository/message_repo.go and the deduplication keys of       *)
(* internal/pubsub/pubsub.go.  A caller is one WebSocket connection, which *)
(* handles one frame at a time; a user may have several, on several pods,  *)
(* so the steps of requests about one message interleave.                  *)
(*                                                                         *)
(* A message is its position in store.  Its content is the number of the   *)
(* edit that wrote it.  One emoji is modelled: the reactions to a message  *)
(* are the users that chose it.  Validation of the text and the look-ups   *)
(* of rooms and members may refuse a request at any time (Reject).         *)
(***************************************************************************)
EXTENDS Naturals, Sequences, FiniteSets

CONSTANTS
    Callers, Users,
    UserOf,          \* the user a connection belongs to
    Moderators,      \* users that may delete the messages of others
    Keys,            \* values of client_id that clients send
    NoKey,           \* an absent client_id
    Ops,             \* the frames that are sent
    MaxMessages,     \* bound: messages stored
    MaxRequests,     \* bound: requests made
    MayFail          \* whether Redis, the database or a pod may fail

Free == "free"       \* the holder of a row that is not locked

ASSUME MessagesAssumption ==
    /\ Free \notin Callers
    /\ UserOf \in [Callers -> Users]
    /\ Moderators \subseteq Users
    /\ NoKey \notin Keys
    /\ Ops \subseteq {"send", "edit", "delete", "add", "remove"}
    /\ MaxMessages \in Nat /\ MaxRequests \in Nat
    /\ MayFail \in BOOLEAN

VARIABLES
    store,       \* table messages
    lock,        \* caller whose transaction holds the row of a message
    dedup,       \* dedup:<user>:<client_id>: id of the message, 0 if absent
    req,         \* the request each caller is handling
    made,        \* requests made so far
    edits,       \* edits written so far
    announced,   \* messages whose new_message event was published
    excused,     \* history: keys whose sends overlapped or lost a step
    lapsed,      \* history: keys that have expired
    lost,        \* history: messages whose announcement was lost
    wanted,      \* history: users whose last committed reaction was "add"
    clobbered    \* history: messages whose reactions an edit wrote back stale

vars == <<store, lock, dedup, req, made, edits, announced, excused, wanted, clobbered, lapsed, lost>>

Ids == 1..MaxMessages
Stored == 1..Len(store)
Nobody == "nobody"
Message == [author: Users, key: Keys \cup {NoKey}, content: Nat,
            reactions: SUBSET Users, deletedBy: Users \cup {Nobody}]
Idle == [at |-> "idle", msg |-> 0, key |-> NoKey, snap |-> {}]
Request == [at: {"idle", "creating", "marking", "publishing", "updating", "editing",
                 "deleting", "adding", "removing", "addLocked", "removeLocked"},
            msg: 0..MaxMessages, key: Keys \cup {NoKey}, snap: SUBSET Users]

Init ==
    /\ store = <<>>
    /\ lock = [m \in Ids |-> Free]
    /\ dedup = [d \in Users \X Keys |-> 0]
    /\ req = [c \in Callers |-> Idle]
    /\ made = 0 /\ edits = 0
    /\ announced = {} /\ excused = {} /\ lapsed = {} /\ lost = {} /\ clobbered = {}
    /\ wanted = [m \in Ids |-> {}]

Dedup(c) == <<UserOf[c], req[c].key>>

(* Caller c starts to handle a frame.                                      *)
Begin(c, r) ==
    /\ req[c] = Idle /\ made < MaxRequests
    /\ made' = made + 1
    /\ req' = [req EXCEPT ![c] = r]

Excuse(c) == excused' = excused \cup ({Dedup(c)} \cap (Users \X Keys))

-----------------------------------------------------------------------------
(* SendMessage *)

(* checkDedup found the message an earlier request stored.                 *)
FoundDuplicate(u, k) == k # NoKey /\ dedup[<<u, k>>] # 0

(* checkDedup finds nothing and the request goes on; when it finds the     *)
(* message, SendMessage returns it and changes nothing.  A failed look-up  *)
(* counts as "not a duplicate".                                            *)
SendMessage(c, k) ==
    LET u == UserOf[c]
        overlaps == \E d \in Callers : /\ d # c /\ UserOf[d] = u
                                       /\ req[d].at \in {"creating", "marking"} /\ req[d].key = k
    IN
    /\ "send" \in Ops
    /\ ~FoundDuplicate(u, k) \/ MayFail
    /\ Begin(c, [Idle EXCEPT !.at = "creating", !.key = k])
    /\ excused' = IF k # NoKey /\ (overlaps \/ FoundDuplicate(u, k))
                  THEN excused \cup {<<u, k>>} ELSE excused
    /\ UNCHANGED <<store, lock, dedup, edits, announced, wanted, clobbered, lapsed, lost>>

(* Only a new request that carries a client_id is announced.               *)
CreateAnnouncesKeyed(c) ==
    /\ req[c].at = "creating" /\ Len(store) < MaxMessages
    /\ store' = Append(store, [author |-> UserOf[c], key |-> req[c].key, content |-> 0,
                               reactions |-> {}, deletedBy |-> Nobody])
    /\ req' = [req EXCEPT ![c] = IF req[c].key = NoKey THEN Idle
                                 ELSE [@ EXCEPT !.at = "marking", !.msg = Len(store) + 1]]
    /\ UNCHANGED <<lock, dedup, made, edits, announced, excused, wanted, clobbered, lapsed, lost>>

(* The insert.  It may also succeed and still be reported as failed, when  *)
(* the answer of the database is lost: the request ends there.             *)
Create(c) ==
    /\ req[c].at = "creating" /\ Len(store) < MaxMessages
    /\ store' = Append(store, [author |-> UserOf[c], key |-> req[c].key, content |-> 0,
                               reactions |-> {}, deletedBy |-> Nobody])
    /\ \/ /\ req' = [req EXCEPT ![c].at = IF req[c].key = NoKey THEN "publishing" ELSE "marking",
                                ![c].msg = Len(store) + 1]
          /\ UNCHANGED <<excused, lost>>
       \/ /\ MayFail
          /\ req' = [req EXCEPT ![c] = Idle]
          /\ Excuse(c) /\ lost' = lost \cup {Len(store) + 1}
    /\ UNCHANGED <<lock, dedup, made, edits, announced, wanted, clobbered, lapsed>>

markDedupForgotten(c) ==
    /\ req[c].at = "marking"
    /\ req' = [req EXCEPT ![c].at = "publishing"]
    /\ UNCHANGED <<store, lock, dedup, made, edits, announced, excused, wanted, clobbered, lapsed, lost>>

(* SET dedup:<user>:<client_id>; an error is ignored.                      *)
markDedup(c) ==
    /\ req[c].at = "marking"
    /\ req' = [req EXCEPT ![c].at = "publishing"]
    /\ \/ /\ dedup' = [dedup EXCEPT ![Dedup(c)] = req[c].msg]
          /\ UNCHANGED excused
       \/ MayFail /\ Excuse(c) /\ UNCHANGED dedup
    /\ UNCHANGED <<store, lock, made, edits, announced, wanted, clobbered, lapsed, lost>>

(* The key lives for five minutes.                                         *)
DedupExpires(d) ==
    /\ dedup[d] # 0
    /\ dedup' = [dedup EXCEPT ![d] = 0]
    /\ lapsed' = lapsed \cup {d}
    /\ UNCHANGED <<store, lock, req, made, edits, announced, excused, wanted, clobbered, lost>>

(* PUBLISH ws:room:<id> for a new message; an error is ignored.            *)
PublishNew(c) ==
    /\ req[c].at = "publishing"
    /\ req' = [req EXCEPT ![c] = Idle]
    /\ \/ announced' = announced \cup {req[c].msg} /\ UNCHANGED lost
       \/ MayFail /\ lost' = lost \cup {req[c].msg} /\ UNCHANGED announced
    /\ UNCHANGED <<store, lock, dedup, made, edits, excused, wanted, clobbered, lapsed>>

-----------------------------------------------------------------------------
(* EditMessage and DeleteMessage: a look-up, checks, then one UPDATE.      *)

EditMessage(c, m) ==
    /\ "edit" \in Ops
    /\ store[m].deletedBy = Nobody /\ store[m].author = UserOf[c]
    /\ Begin(c, [Idle EXCEPT !.at = "editing", !.msg = m, !.snap = store[m].reactions])
    /\ UNCHANGED <<store, lock, dedup, edits, announced, excused, wanted, clobbered, lapsed, lost>>

(* Update writes the new content and all that GetByID had read.            *)
Update(c) ==
    LET m == req[c].msg IN
    /\ req[c].at = "editing" /\ lock[m] = Free
    /\ store' = [store EXCEPT ![m].content = edits + 1, ![m].reactions = req[c].snap]
    /\ edits' = edits + 1
    /\ clobbered' = IF req[c].snap = store[m].reactions THEN clobbered ELSE clobbered \cup {m}
    /\ req' = [req EXCEPT ![c].at = "updating"]
    /\ UNCHANGED <<lock, dedup, made, announced, excused, wanted, lapsed, lost>>

DeleteMessage(c, m) ==
    /\ "delete" \in Ops
    /\ store[m].deletedBy = Nobody
    /\ store[m].author = UserOf[c] \/ UserOf[c] \in Moderators
    /\ Begin(c, [Idle EXCEPT !.at = "deleting", !.msg = m])
    /\ UNCHANGED <<store, lock, dedup, edits, announced, excused, wanted, clobbered, lapsed, lost>>

AlwaysDeletes(m) == TRUE

(* ... WHERE deleted_at IS NULL                                            *)
NotYetDeleted(m) == store[m].deletedBy = Nobody

Delete(c) ==
    LET m == req[c].msg IN
    /\ req[c].at = "deleting" /\ lock[m] = Free
    /\ store' = IF NotYetDeleted(m) THEN [store EXCEPT ![m].deletedBy = UserOf[c]] ELSE store
    /\ req' = [req EXCEPT ![c].at = "updating"]
    /\ UNCHANGED <<lock, dedup, made, edits, announced, excused, wanted, clobbered, lapsed, lost>>

(* PUBLISH of the edited or deleted event: no state here depends on it.    *)
PublishUpdate(c) ==
    /\ req[c].at = "updating"
    /\ req' = [req EXCEPT ![c] = Idle]
    /\ UNCHANGED <<store, lock, dedup, made, edits, announced, excused, wanted, clobbered, lapsed, lost>>

-----------------------------------------------------------------------------
(* AddReaction and RemoveReaction: a look-up, then UpdateReactionsTx.      *)

React(c, m, op) ==
    /\ op \in Ops
    /\ store[m].deletedBy = Nobody
    /\ Begin(c, [Idle EXCEPT !.at = IF op = "add" THEN "adding" ELSE "removing", !.msg = m])
    /\ UNCHANGED <<store, lock, dedup, edits, announced, excused, wanted, clobbered, lapsed, lost>>

RowNotLocked(m) == TRUE

RowFree(m) == lock[m] = Free

(* The row is locked, but what it holds is not read.                       *)
SelectForUpdateUnread(c) ==
    LET m == req[c].msg IN
    /\ req[c].at \in {"adding", "removing"} /\ RowFree(m)
    /\ lock' = [lock EXCEPT ![m] = c]
    /\ req' = [req EXCEPT ![c].at = IF @ = "adding" THEN "addLocked" ELSE "removeLocked"]
    /\ UNCHANGED <<store, dedup, made, edits, announced, excused, wanted, clobbered, lapsed, lost>>

(* SELECT ... FOR UPDATE *)
SelectForUpdate(c) ==
    LET m == req[c].msg IN
    /\ req[c].at \in {"adding", "removing"} /\ RowFree(m)
    /\ lock' = [lock EXCEPT ![m] = c]
    /\ req' = [req EXCEPT ![c].at = IF @ = "adding" THEN "addLocked" ELSE "removeLocked",
                          ![c].snap = store[m].reactions]
    /\ UNCHANGED <<store, dedup, made, edits, announced, excused, wanted, clobbered, lapsed, lost>>

(* The transformed reactions are written and the transaction commits.      *)
UpdateReactions(c) ==
    LET m == req[c].msg
        apply(R) == IF req[c].at = "addLocked" THEN R \cup {UserOf[c]} ELSE R \ {UserOf[c]}
    IN
    /\ req[c].at \in {"addLocked", "removeLocked"}
    /\ store' = [store EXCEPT ![m].reactions = apply(req[c].snap)]
    /\ wanted' = [wanted EXCEPT ![m] = apply(@)]
    /\ lock' = [lock EXCEPT ![m] = Free]
    /\ req' = [req EXCEPT ![c] = Idle]
    /\ UNCHANGED <<dedup, made, edits, announced, excused, clobbered, lapsed, lost>>

-----------------------------------------------------------------------------
(* Validation, the room, the membership or the role refuses the request.   *)
Reject(c) ==
    /\ req[c].at \in {"creating", "editing", "deleting", "adding", "removing"}
    /\ req' = [req EXCEPT ![c] = Idle]
    /\ UNCHANGED <<store, lock, dedup, made, edits, announced, excused, wanted, clobbered, lapsed, lost>>

(* The pod dies, or the deadline of the handler passes, between two steps: *)
(* the rest of the request is not done and its transaction rolls back.     *)
Abandon(c) ==
    /\ MayFail /\ req[c] # Idle
    /\ req' = [req EXCEPT ![c] = Idle]
    /\ lock' = [m \in Ids |-> IF lock[m] = c THEN Free ELSE lock[m]]
    /\ IF req[c].at = "marking" THEN Excuse(c) ELSE UNCHANGED excused
    /\ lost' = lost \cup (IF req[c].at \in {"marking", "publishing"} THEN {req[c].msg} ELSE {})
    /\ UNCHANGED <<store, dedup, made, edits, announced, wanted, clobbered, lapsed>>

Next ==
    \/ \E c \in Callers :
         \/ \E k \in Keys \cup {NoKey} : SendMessage(c, k)
         \/ Create(c) \/ markDedup(c) \/ PublishNew(c)
         \/ \E m \in Stored : EditMessage(c, m) \/ DeleteMessage(c, m)
         \/ Update(c) \/ Delete(c) \/ PublishUpdate(c)
         \/ \E m \in Stored, op \in {"add", "remove"} : React(c, m, op)
         \/ SelectForUpdate(c) \/ UpdateReactions(c)
         \/ Reject(c) \/ Abandon(c)
    \/ \E d \in Users \X Keys : DedupExpires(d)

Spec == Init /\ [][Next]_vars

-----------------------------------------------------------------------------
Locked(c) == req[c].at \in {"addLocked", "removeLocked"}

(* The type invariant; a row is locked by the caller whose transaction is  *)
(* open on it, and by nobody else.                                         *)
TypeOK ==
    /\ store \in Seq(Message) /\ Len(store) <= MaxMessages
    /\ lock \in [Ids -> Callers \cup {Free}]
    /\ dedup \in [Users \X Keys -> 0..MaxMessages]
    /\ req \in [Callers -> Request]
    /\ made \in Nat /\ edits \in Nat
    /\ announced \subseteq Ids /\ lost \subseteq Ids /\ clobbered \subseteq Ids
    /\ excused \subseteq Users \X Keys /\ lapsed \subseteq Users \X Keys
    /\ wanted \in [Ids -> SUBSET Users]
    /\ \A c \in Callers : req[c].at \notin {"idle", "creating"} => req[c].msg \in Stored
    /\ \A c \in Callers, m \in Ids : lock[m] = c <=> Locked(c) /\ req[c].msg = m

Copies(d) == {m \in Stored : <<store[m].author, store[m].key>> = d}

(* A client_id yields one message however often it is sent again, on any   *)
(* connection and pod, as long as the sends do not overlap, the key has    *)
(* not expired and no step of SendMessage was lost.                        *)
DedupUnlessExcused == \A d \in (Users \X Keys) \ (excused \cup lapsed) : Cardinality(Copies(d)) <= 1

(* Concurrent reactions are serialised by the row lock: none is lost or    *)
(* resurrected, unless an edit wrote back reactions it had read earlier.   *)
ReactionsKept ==
    \A m \in Stored \ clobbered : store[m].reactions = wanted[m]

(* Who deleted a message is settled by the first deletion, whatever        *)
(* requests were already past their checks.                                *)
DeletionIsFinal ==
    [][\A m \in Stored : store[m].deletedBy # Nobody => store'[m].deletedBy = store[m].deletedBy]_vars

(* Every stored message is announced to its room, unless the answer of     *)
(* the database, the PUBLISH or the pod was lost: until it is, the request *)
(* that stored it is still on its way to the PUBLISH, whatever other       *)
(* requests do to the message meanwhile.                                   *)
StoredMeansAnnounced ==
    \A m \in Stored :
        \/ m \in announced \cup lost
        \/ \E c \in Callers : req[c].msg = m /\ req[c].at \in {"marking", "publishing"}
=============================================================================
