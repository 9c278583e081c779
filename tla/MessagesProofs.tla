--------------------------- MODULE MessagesProofs ---------------------------
(***************************************************************************)
(* Proofs about messages: for any number of connections, users and keys,   *)
(* any bounds, and any failures.                                           *)
(***************************************************************************)
EXTENDS Messages, FiniteSetTheorems, SequenceTheorems, TLAPS

-----------------------------------------------------------------------------
(* The table and the requests, one at a time *)

LEMMA RowOf ==
    ASSUME store \in Seq(Message), NEW m \in Stored
    PROVE  store[m] \in Message
  BY ElementOfSeq DEF Stored

(* Writing a row leaves the others alone; inserting one appends it.        *)
LEMMA WriteRow ==
    ASSUME store \in Seq(Message), NEW m \in Stored, NEW s \in Message, store' = [store EXCEPT ![m] = s]
    PROVE  /\ store' \in Seq(Message) /\ Len(store') = Len(store) /\ Stored' = Stored
           /\ \A n \in Stored : store'[n] = IF n = m THEN s ELSE store[n]
<1>1. m \in 1..Len(store)
  BY DEF Stored
<1>2. /\ store' \in Seq(Message) /\ Len(store') = Len(store)
      /\ \A n \in 1..Len(store) : store'[n] = IF n = m THEN s ELSE store[n]
  BY <1>1, ExceptSeq
<1> QED BY <1>2 DEF Stored

LEMMA InsertRow ==
    ASSUME store \in Seq(Message), NEW s \in Message, store' = Append(store, s)
    PROVE  /\ store' \in Seq(Message) /\ Len(store') = Len(store) + 1
           /\ Len(store) \in Nat /\ Stored' = Stored \cup {Len(store) + 1}
           /\ Len(store) + 1 \notin Stored
           /\ \A n \in Stored : store'[n] = store[n]
           /\ store'[Len(store) + 1] = s
<1>1. Len(store) \in Nat
  OBVIOUS
<1>2. /\ store' \in Seq(Message) /\ Len(store') = Len(store) + 1
      /\ \A n \in 1..Len(store) : store'[n] = store[n]
      /\ store'[Len(store) + 1] = s
  BY AppendProperties
<1>3. 1..(Len(store) + 1) = (1..Len(store)) \cup {Len(store) + 1} /\ Len(store) + 1 \notin 1..Len(store)
  BY <1>1
<1> QED BY <1>1, <1>2, <1>3 DEF Stored

(* The rows an insert writes.                                              *)
Row(c) == [author |-> UserOf[c], key |-> req[c].key, content |-> 0,
           reactions |-> {}, deletedBy |-> Nobody]

LEMMA RowType ==
    ASSUME req \in [Callers -> Request], NEW c \in Callers
    PROVE  Row(c) \in Message
<1>1. UserOf[c] \in Users /\ req[c].key \in Keys \cup {NoKey}
  BY MessagesAssumption DEF Request
<1> QED BY <1>1 DEF Row, Message

LEMMA IdleType == Idle \in Request /\ Idle.at = "idle" /\ Idle.key = NoKey /\ Idle.msg = 0
<1>1. 0 \in 0..MaxMessages
  BY MessagesAssumption
<1> QED BY <1>1 DEF Idle, Request

(* What a request becomes when it begins, and when it moves on.            *)
LEMMA BeginType ==
    ASSUME NEW k \in Keys \cup {NoKey}, NEW m \in 0..MaxMessages, NEW S \in SUBSET Users
    PROVE  /\ [Idle EXCEPT !.at = "creating", !.key = k] \in Request
           /\ [Idle EXCEPT !.at = "editing", !.msg = m, !.snap = S] \in Request
           /\ \A a \in {"deleting", "adding", "removing"} : [Idle EXCEPT !.at = a, !.msg = m] \in Request
<1>1. 0 \in 0..MaxMessages
  BY MessagesAssumption
<1> QED BY <1>1 DEF Idle, Request

LEMMA MoveType ==
    ASSUME NEW r \in Request, NEW a \in {"publishing", "updating"}
    PROVE  /\ [r EXCEPT !.at = a] \in Request
           /\ [r EXCEPT !.at = a].at = a /\ [r EXCEPT !.at = a].msg = r.msg
           /\ [r EXCEPT !.at = a].key = r.key
  BY DEF Request

-----------------------------------------------------------------------------
(* Type correctness *)

DataOK ==
    /\ store \in Seq(Message) /\ Len(store) <= MaxMessages
    /\ dedup \in [Users \X Keys -> 0..MaxMessages]
    /\ made \in Nat /\ edits \in Nat
    /\ announced \subseteq Ids /\ lost \subseteq Ids /\ clobbered \subseteq Ids
    /\ excused \subseteq Users \X Keys /\ lapsed \subseteq Users \X Keys
    /\ wanted \in [Ids -> SUBSET Users]

ReqOK ==
    /\ req \in [Callers -> Request]
    /\ \A c \in Callers : req[c].at \notin {"idle", "creating"} => req[c].msg \in Stored

LockOK ==
    /\ lock \in [Ids -> Callers \cup {Free}]
    /\ \A c \in Callers, m \in Ids : lock[m] = c <=> Locked(c) /\ req[c].msg = m

LEMMA TypeParts ==
    /\ TypeOK <=> DataOK /\ ReqOK /\ LockOK
    /\ TypeOK' <=> DataOK' /\ ReqOK' /\ LockOK'
  BY DEF TypeOK, DataOK, ReqOK, LockOK

(* Caller c alone moves on, to r, and no row disappears.                   *)
LEMMA OneMoves ==
    ASSUME ReqOK, NEW c \in Callers, NEW r \in Request, req' = [req EXCEPT ![c] = r],
           Stored \subseteq Stored', r.at \notin {"idle", "creating"} => r.msg \in Stored'
    PROVE  ReqOK' /\ \A d \in Callers : req'[d] = IF d = c THEN r ELSE req[d]
<1>1. req' \in [Callers -> Request] /\ \A d \in Callers : req'[d] = IF d = c THEN r ELSE req[d]
  BY DEF ReqOK
<1> QED BY <1>1 DEF ReqOK

LEMMA LocksKept ==
    ASSUME ReqOK, LockOK, NEW c \in Callers, NEW r, req' = [req EXCEPT ![c] = r], UNCHANGED lock,
           ~Locked(c), r.at \notin {"addLocked", "removeLocked"}
    PROVE  LockOK'
<1>1. \A d \in Callers : req'[d] = IF d = c THEN r ELSE req[d]
  BY DEF ReqOK
<1> QED BY <1>1 DEF LockOK, Locked

(* The caller ends its request; no row disappears and its locks, if any,   *)
(* are released.                                                           *)
LEMMA Ends ==
    ASSUME ReqOK, LockOK, NEW c \in Callers, req' = [req EXCEPT ![c] = Idle], Stored \subseteq Stored',
           \/ UNCHANGED lock /\ ~Locked(c)
           \/ lock' = [m \in Ids |-> IF lock[m] = c THEN Free ELSE lock[m]]
    PROVE  ReqOK' /\ LockOK'
<1>1. ReqOK' /\ \A d \in Callers : req'[d] = IF d = c THEN Idle ELSE req[d]
  BY OneMoves, IdleType
<1>2. CASE UNCHANGED lock /\ ~Locked(c)
  BY <1>1, <1>2, LocksKept, IdleType
<1>3. CASE lock' = [m \in Ids |-> IF lock[m] = c THEN Free ELSE lock[m]]
  <2>1. Free \notin Callers
    BY MessagesAssumption
  <2>2. lock' \in [Ids -> Callers \cup {Free}]
    BY <1>3 DEF LockOK
  <2>3. ASSUME NEW d \in Callers, NEW m \in Ids
        PROVE  lock'[m] = d <=> Locked(d)' /\ req'[d].msg = m
    BY <1>1, <1>3, <2>1, IdleType DEF LockOK, Locked
  <2> QED BY <1>1, <2>2, <2>3 DEF LockOK
<1> QED BY <1>1, <1>2, <1>3

LEMMA TypeInit == Init => TypeOK
<1> SUFFICES ASSUME Init PROVE TypeOK
  OBVIOUS
<1>1. MaxMessages \in Nat /\ 0 \in 0..MaxMessages
  BY MessagesAssumption
<1>2. DataOK
  BY <1>1 DEF Init, DataOK
<1>3. ReqOK
  BY IdleType DEF Init, ReqOK
<1>4. LockOK
  BY IdleType, MessagesAssumption DEF Init, LockOK, Locked
<1> QED BY <1>2, <1>3, <1>4, TypeParts

(* A request begins.                                                       *)
LEMMA BeginStep ==
    ASSUME TypeOK, NEW c \in Callers,
           \/ \E k \in Keys \cup {NoKey} : SendMessage(c, k)
           \/ \E m \in Stored : EditMessage(c, m) \/ DeleteMessage(c, m)
           \/ \E m \in Stored, op \in {"add", "remove"} : React(c, m, op)
    PROVE  TypeOK'
<1>0. DataOK /\ ReqOK /\ LockOK /\ \A m \in Stored : m \in 0..MaxMessages
  BY TypeParts, MessagesAssumption DEF DataOK, Stored
<1>1. ASSUME NEW r \in Request, Begin(c, r), r.at \notin {"addLocked", "removeLocked"},
             r.at \notin {"idle", "creating"} => r.msg \in Stored, excused' \subseteq Users \X Keys,
             UNCHANGED <<store, lock, dedup, edits, announced, wanted, clobbered, lapsed, lost>>
      PROVE  TypeOK'
  <2>1. req' = [req EXCEPT ![c] = r] /\ made' \in Nat /\ ~Locked(c) /\ Stored' = Stored
    BY <1>0, <1>1, IdleType DEF Begin, Locked, DataOK, Stored
  <2>2. DataOK'
    BY <1>0, <1>1, <2>1 DEF DataOK
  <2>3. ReqOK' /\ LockOK'
    BY <1>0, <1>1, <2>1, OneMoves, LocksKept
  <2> QED BY <2>2, <2>3, TypeParts
<1>2. ASSUME NEW k \in Keys \cup {NoKey}, SendMessage(c, k) PROVE TypeOK'
  <2> DEFINE r == [Idle EXCEPT !.at = "creating", !.key = k]
  <2>0. r \in Request
    <3>1. 0 \in 0..MaxMessages /\ {} \in SUBSET Users
      BY MessagesAssumption
    <3> QED BY <3>1, BeginType
  <2>1. r.at = "creating"
    BY DEF Idle
  <2>2. excused' \subseteq Users \X Keys
    BY <1>0, <1>2, MessagesAssumption DEF SendMessage, DataOK
  <2>3. Begin(c, r) /\ UNCHANGED <<store, lock, dedup, edits, announced, wanted, clobbered, lapsed, lost>>
    BY <1>2 DEF SendMessage
  <2> HIDE DEF r
  <2> QED BY <1>1, <2>0, <2>1, <2>2, <2>3
<1>3. ASSUME NEW m \in Stored, EditMessage(c, m) PROVE TypeOK'
  <2> DEFINE r == [Idle EXCEPT !.at = "editing", !.msg = m, !.snap = store[m].reactions]
  <2>0. store[m].reactions \in SUBSET Users
    BY <1>0, RowOf DEF DataOK, Message
  <2>1. r \in Request /\ r.at = "editing" /\ r.msg = m
    BY <1>0, <2>0, BeginType DEF Idle
  <2>2. /\ Begin(c, r)
        /\ UNCHANGED <<store, lock, dedup, edits, announced, excused, wanted, clobbered, lapsed, lost>>
    BY <1>3 DEF EditMessage
  <2> HIDE DEF r
  <2> QED BY <1>0, <1>1, <2>1, <2>2 DEF DataOK
<1>4. ASSUME NEW m \in Stored, NEW a \in {"deleting", "adding", "removing"},
             Begin(c, [Idle EXCEPT !.at = a, !.msg = m]),
             UNCHANGED <<store, lock, dedup, edits, announced, excused, wanted, clobbered, lapsed, lost>>
      PROVE  TypeOK'
  <2> DEFINE r == [Idle EXCEPT !.at = a, !.msg = m]
  <2>1. r \in Request
    BY <1>0, BeginType
  <2>2. r.at = a /\ r.msg = m
    BY DEF Idle
  <2> HIDE DEF r
  <2> QED BY <1>0, <1>1, <1>4, <2>1, <2>2 DEF DataOK, r
<1>5. ASSUME NEW m \in Stored, DeleteMessage(c, m) PROVE TypeOK'
  BY <1>4, <1>5 DEF DeleteMessage
<1>6. ASSUME NEW m \in Stored, NEW op \in {"add", "remove"}, React(c, m, op) PROVE TypeOK'
  BY <1>4, <1>6 DEF React
<1> QED BY <1>2, <1>3, <1>5, <1>6

(* A request goes on.                                                      *)
LEMMA SendStep ==
    ASSUME TypeOK, NEW c \in Callers, Create(c) \/ markDedup(c) \/ PublishNew(c)
    PROVE  TypeOK'
<1>0. /\ DataOK /\ ReqOK /\ LockOK /\ req[c] \in Request /\ req[c].msg \in 0..MaxMessages
      /\ req[c].at \notin {"idle", "creating"} => req[c].msg \in Stored
      /\ MaxMessages \in Nat
  BY TypeParts, MessagesAssumption DEF ReqOK, Request
<1>1. CASE Create(c)
  <2>1. /\ req[c].at = "creating" /\ store' = Append(store, Row(c)) /\ Len(store) < MaxMessages
        /\ UNCHANGED <<lock, dedup, made, edits, announced, wanted, clobbered, lapsed>>
    BY <1>1 DEF Create, Row
  <2>2. /\ store' \in Seq(Message) /\ Len(store') = Len(store) + 1 /\ Len(store) \in Nat
        /\ Stored' = Stored \cup {Len(store) + 1}
    BY <1>0, <2>1, InsertRow, RowType DEF DataOK, ReqOK
  <2>3. Len(store) + 1 \in 0..MaxMessages /\ Len(store) + 1 \in Ids
    BY <1>0, <2>1, <2>2 DEF Ids
  <2>4. lost' \subseteq Ids /\ excused' \subseteq Users \X Keys
    BY <1>0, <1>1, <2>3 DEF Create, Excuse, DataOK
  <2>5. DataOK'
    BY <1>0, <2>1, <2>2, <2>3, <2>4 DEF DataOK
  <2>6. ~Locked(c)
    BY <2>1 DEF Locked
  <2>7. CASE req' = [req EXCEPT ![c] = Idle]
    BY <1>0, <2>1, <2>2, <2>5, <2>6, <2>7, Ends, TypeParts
  <2>8. CASE req' = [req EXCEPT ![c].at = IF req[c].key = NoKey THEN "publishing" ELSE "marking",
                                ![c].msg = Len(store) + 1]
    <3> DEFINE to == IF req[c].key = NoKey THEN "publishing" ELSE "marking"
               r == [req[c] EXCEPT !.at = to, !.msg = Len(store) + 1]
    <3>1. req' = [req EXCEPT ![c] = r]
      BY <2>8
    <3>2. to \in {"publishing", "marking"}
      OBVIOUS
    <3> HIDE DEF to
    <3>3. r \in Request /\ r.at = to /\ r.msg = Len(store) + 1
      BY <1>0, <2>3, <3>2 DEF Request
    <3> HIDE DEF r
    <3>4. ReqOK' /\ LockOK'
      BY <1>0, <2>1, <2>2, <2>6, <3>1, <3>2, <3>3, OneMoves, LocksKept
    <3> QED BY <2>5, <3>4, TypeParts
  <2> QED BY <1>1, <2>7, <2>8 DEF Create
<1>2. CASE markDedup(c)
  <2> DEFINE r == [req[c] EXCEPT !.at = "publishing"]
  <2>1. /\ req[c].at = "marking" /\ req' = [req EXCEPT ![c] = r]
        /\ UNCHANGED <<store, lock, made, edits, announced, wanted, clobbered, lapsed, lost>>
    BY <1>2 DEF markDedup
  <2>2. r \in Request /\ r.at = "publishing" /\ r.msg = req[c].msg
    BY <1>0, MoveType
  <2> HIDE DEF r
  <2>3. dedup' \in [Users \X Keys -> 0..MaxMessages] /\ excused' \subseteq Users \X Keys
    BY <1>0, <1>2 DEF markDedup, Excuse, DataOK
  <2>4. DataOK' /\ Stored' = Stored
    BY <1>0, <2>1, <2>3 DEF DataOK, Stored
  <2>5. ~Locked(c)
    BY <2>1 DEF Locked
  <2>6. ReqOK' /\ LockOK'
    BY <1>0, <2>1, <2>2, <2>4, <2>5, OneMoves, LocksKept
  <2> QED BY <2>4, <2>6, TypeParts
<1>3. CASE PublishNew(c)
  <2>1. /\ req[c].at = "publishing" /\ req' = [req EXCEPT ![c] = Idle]
        /\ UNCHANGED <<store, lock, dedup, made, edits, excused, wanted, clobbered, lapsed>>
    BY <1>3 DEF PublishNew
  <2>2. req[c].msg \in Ids
    BY <1>0, <2>1 DEF DataOK, Stored, Ids
  <2>3. announced' \subseteq Ids /\ lost' \subseteq Ids
    BY <1>0, <1>3, <2>2 DEF PublishNew, DataOK
  <2>4. DataOK' /\ Stored' = Stored /\ ~Locked(c)
    BY <1>0, <2>1, <2>3 DEF DataOK, Stored, Locked
  <2> QED BY <1>0, <2>1, <2>4, Ends, TypeParts
<1> QED BY <1>1, <1>2, <1>3

(* The rows that Update, Delete and UpdateReactions write.                 *)
Edited(c) == [store[req[c].msg] EXCEPT !.content = edits + 1, !.reactions = req[c].snap]
Deleted(c) == [store[req[c].msg] EXCEPT !.deletedBy = UserOf[c]]
Apply(c, R) == IF req[c].at = "addLocked" THEN R \cup {UserOf[c]} ELSE R \ {UserOf[c]}
Reacted(c) == [store[req[c].msg] EXCEPT !.reactions = Apply(c, req[c].snap)]

LEMMA WrittenType ==
    ASSUME TypeOK, NEW c \in Callers, req[c].msg \in Stored
    PROVE  LET s == store[req[c].msg] IN
           /\ s \in Message
           /\ Edited(c) \in Message /\ Deleted(c) \in Message /\ Reacted(c) \in Message
           /\ \A w \in {Edited(c), Deleted(c), Reacted(c)} : w.author = s.author /\ w.key = s.key
           /\ Edited(c).deletedBy = s.deletedBy /\ Reacted(c).deletedBy = s.deletedBy
           /\ Deleted(c).reactions = s.reactions /\ Edited(c).reactions = req[c].snap
           /\ Reacted(c).reactions = Apply(c, req[c].snap)
<1> DEFINE s == store[req[c].msg]
           R == Apply(c, req[c].snap)
<1>1. s \in Message
  BY RowOf DEF TypeOK
<1>2. edits + 1 \in Nat /\ UserOf[c] \in Users /\ req[c].snap \in SUBSET Users
  BY MessagesAssumption DEF TypeOK, Request
<1>3. R \in SUBSET Users
  BY <1>2 DEF Apply
<1> HIDE DEF R
<1>4. [s EXCEPT !.reactions = R] \in Message /\ [s EXCEPT !.reactions = R].author = s.author
      /\ [s EXCEPT !.reactions = R].key = s.key /\ [s EXCEPT !.reactions = R].deletedBy = s.deletedBy
      /\ [s EXCEPT !.reactions = R].reactions = R
  BY <1>1, <1>3 DEF Message
<1>5. Reacted(c) = [s EXCEPT !.reactions = R]
  BY DEF Reacted, R
<1>6. /\ Edited(c) \in Message /\ Edited(c).author = s.author /\ Edited(c).key = s.key
      /\ Edited(c).deletedBy = s.deletedBy /\ Edited(c).reactions = req[c].snap
  BY <1>1, <1>2 DEF Message, Edited
<1>7. /\ Deleted(c) \in Message /\ Deleted(c).author = s.author /\ Deleted(c).key = s.key
      /\ Deleted(c).reactions = s.reactions
  BY <1>1, <1>2 DEF Message, Deleted
<1> HIDE DEF s
<1> QED BY <1>1, <1>4, <1>5, <1>6, <1>7 DEF s, R

LEMMA ChangeStep ==
    ASSUME TypeOK, NEW c \in Callers,
           Update(c) \/ Delete(c) \/ PublishUpdate(c) \/ SelectForUpdate(c) \/ UpdateReactions(c)
    PROVE  TypeOK'
<1>0. /\ DataOK /\ ReqOK /\ LockOK /\ req[c] \in Request /\ req[c].msg \in 0..MaxMessages
      /\ req[c].at \notin {"idle", "creating"} => req[c].msg \in Stored
      /\ MaxMessages \in Nat
  BY TypeParts, MessagesAssumption DEF ReqOK, Request
<1>1. Stored \subseteq Ids
  BY <1>0 DEF DataOK, Stored, Ids
<1> DEFINE r == [req[c] EXCEPT !.at = "updating"]
<1>2. r \in Request /\ r.at = "updating" /\ r.msg = req[c].msg
  BY <1>0, MoveType
<1> HIDE DEF r
<1>3. CASE Update(c)
  <2>1. /\ req[c].at = "editing" /\ req' = [req EXCEPT ![c] = r]
        /\ store' = [store EXCEPT ![req[c].msg] = Edited(c)] /\ edits' = edits + 1
        /\ clobbered' \subseteq clobbered \cup {req[c].msg}
        /\ UNCHANGED <<lock, dedup, made, announced, excused, wanted, lapsed, lost>>
    BY <1>3 DEF Update, Edited, r
  <2>2. req[c].msg \in Stored
    BY <1>0, <2>1
  <2>3. store' \in Seq(Message) /\ Len(store') = Len(store) /\ Stored' = Stored
    BY <1>0, <2>1, <2>2, WriteRow, WrittenType DEF DataOK
  <2>4. DataOK' /\ ~Locked(c)
    BY <1>0, <1>1, <2>1, <2>2, <2>3 DEF DataOK, Locked
  <2>5. ReqOK' /\ LockOK'
    BY <1>0, <1>2, <2>1, <2>2, <2>3, <2>4, OneMoves, LocksKept
  <2> QED BY <2>4, <2>5, TypeParts
<1>4. CASE Delete(c)
  <2>1. /\ req[c].at = "deleting" /\ req' = [req EXCEPT ![c] = r]
        /\ store' = [store EXCEPT ![req[c].msg] = Deleted(c)] \/ UNCHANGED store
        /\ UNCHANGED <<lock, dedup, made, edits, announced, excused, wanted, clobbered, lapsed, lost>>
    BY <1>4 DEF Delete, Deleted, r
  <2>2. req[c].msg \in Stored
    BY <1>0, <2>1
  <2>3. store' \in Seq(Message) /\ Len(store') = Len(store) /\ Stored' = Stored
    <3>1. CASE UNCHANGED store
      BY <1>0, <3>1 DEF DataOK, Stored
    <3>2. CASE store' = [store EXCEPT ![req[c].msg] = Deleted(c)]
      BY <1>0, <2>2, <3>2, WriteRow, WrittenType DEF DataOK
    <3> QED BY <2>1, <3>1, <3>2
  <2>4. DataOK' /\ ~Locked(c)
    BY <1>0, <2>1, <2>3 DEF DataOK, Locked
  <2>5. ReqOK' /\ LockOK'
    BY <1>0, <1>2, <2>1, <2>2, <2>3, <2>4, OneMoves, LocksKept
  <2> QED BY <2>4, <2>5, TypeParts
<1>5. CASE PublishUpdate(c)
  <2>1. /\ req[c].at = "updating" /\ req' = [req EXCEPT ![c] = Idle]
        /\ UNCHANGED <<store, lock, dedup, made, edits, announced, excused, wanted, clobbered, lapsed, lost>>
    BY <1>5 DEF PublishUpdate
  <2>2. DataOK' /\ Stored' = Stored /\ ~Locked(c)
    BY <1>0, <2>1 DEF DataOK, Stored, Locked
  <2> QED BY <1>0, <2>1, <2>2, Ends, TypeParts
<1>6. CASE SelectForUpdate(c)
  <2> DEFINE m == req[c].msg
             to == IF req[c].at = "adding" THEN "addLocked" ELSE "removeLocked"
             q == [req[c] EXCEPT !.at = to, !.snap = store[m].reactions]
  <2>1. /\ req[c].at \in {"adding", "removing"} /\ req' = [req EXCEPT ![c] = q]
        /\ lock[m] = Free /\ lock' = [lock EXCEPT ![m] = c]
        /\ UNCHANGED <<store, dedup, made, edits, announced, excused, wanted, clobbered, lapsed, lost>>
    BY <1>6 DEF SelectForUpdate, RowFree
  <2>2. m \in Stored /\ m \in Ids
    BY <1>0, <1>1, <2>1
  <2>3. to \in {"addLocked", "removeLocked"}
    OBVIOUS
  <2>4. store[m].reactions \in SUBSET Users
    BY <2>2, WrittenType DEF Message
  <2> HIDE DEF to
  <2>5. q \in Request /\ q.at = to /\ q.msg = m
    BY <1>0, <2>3, <2>4 DEF Request
  <2> HIDE DEF q
  <2>6. DataOK' /\ Stored' = Stored
    BY <1>0, <2>1 DEF DataOK, Stored
  <2>7. ReqOK' /\ \A d \in Callers : req'[d] = IF d = c THEN q ELSE req[d]
    BY <1>0, <2>1, <2>2, <2>5, <2>6, OneMoves
  <2>8. LockOK'
    <3>1. Free \notin Callers /\ ~Locked(c)
      BY <2>1, MessagesAssumption DEF Locked
    <3>2. lock' \in [Ids -> Callers \cup {Free}] /\ \A n \in Ids : lock'[n] = IF n = m THEN c ELSE lock[n]
      BY <1>0, <2>1, <2>2 DEF LockOK
    <3>3. ASSUME NEW d \in Callers, NEW n \in Ids
          PROVE  lock'[n] = d <=> Locked(d)' /\ req'[d].msg = n
      <4>1. CASE d = c
        BY <1>0, <2>1, <2>2, <2>3, <2>5, <2>7, <3>1, <3>2, <4>1 DEF LockOK, Locked
      <4>2. CASE d # c
        BY <1>0, <2>1, <2>2, <2>7, <3>1, <3>2, <4>2 DEF LockOK, Locked
      <4> QED BY <4>1, <4>2
    <3> QED BY <3>2, <3>3 DEF LockOK
  <2> QED BY <2>6, <2>7, <2>8, TypeParts
<1>7. CASE UpdateReactions(c)
  <2> DEFINE m == req[c].msg
  <2>1. /\ req[c].at \in {"addLocked", "removeLocked"} /\ req' = [req EXCEPT ![c] = Idle]
        /\ store' = [store EXCEPT ![m] = Reacted(c)]
        /\ wanted' = [wanted EXCEPT ![m] = Apply(c, wanted[m])]
        /\ lock' = [lock EXCEPT ![m] = Free]
        /\ UNCHANGED <<dedup, made, edits, announced, excused, clobbered, lapsed, lost>>
    BY <1>7 DEF UpdateReactions, Reacted, Apply
  <2>2. m \in Stored /\ m \in Ids
    BY <1>0, <1>1, <2>1
  <2>3. store' \in Seq(Message) /\ Len(store') = Len(store) /\ Stored' = Stored
    BY <1>0, <2>1, <2>2, WriteRow, WrittenType DEF DataOK
  <2>4. wanted' \in [Ids -> SUBSET Users]
    <3>1. UserOf[c] \in Users
      BY MessagesAssumption
    <3>2. Apply(c, wanted[m]) \in SUBSET Users
      BY <1>0, <2>2, <3>1 DEF DataOK, Apply
    <3> QED BY <1>0, <2>1, <3>2 DEF DataOK
  <2>5. DataOK'
    BY <1>0, <2>1, <2>3, <2>4 DEF DataOK
  <2>6. lock' = [n \in Ids |-> IF lock[n] = c THEN Free ELSE lock[n]]
    BY <1>0, <2>1, <2>2 DEF LockOK, Locked
  <2> QED BY <1>0, <2>1, <2>3, <2>5, <2>6, Ends, TypeParts
<1> QED BY <1>3, <1>4, <1>5, <1>6, <1>7

LEMMA TypeStep == TypeOK /\ [Next]_vars => TypeOK'
<1> SUFFICES ASSUME TypeOK, [Next]_vars PROVE TypeOK'
  OBVIOUS
<1>0. DataOK /\ ReqOK /\ LockOK
  BY TypeParts
<1>1. ASSUME NEW c \in Callers, Reject(c) PROVE TypeOK'
  <2>1. /\ ~Locked(c) /\ req' = [req EXCEPT ![c] = Idle]
        /\ UNCHANGED <<store, lock, dedup, made, edits, announced, excused, wanted, clobbered, lapsed, lost>>
    BY <1>1 DEF Reject, Locked
  <2>2. DataOK' /\ Stored' = Stored
    BY <1>0, <2>1 DEF DataOK, Stored
  <2> QED BY <1>0, <2>1, <2>2, Ends, TypeParts
<1>2. ASSUME NEW c \in Callers, Abandon(c) PROVE TypeOK'
  <2>1. /\ req' = [req EXCEPT ![c] = Idle]
        /\ lock' = [m \in Ids |-> IF lock[m] = c THEN Free ELSE lock[m]]
        /\ UNCHANGED <<store, dedup, made, edits, announced, wanted, clobbered, lapsed>>
    BY <1>2 DEF Abandon
  <2>2. req[c].at \in {"marking", "publishing"} => req[c].msg \in Ids
    BY <1>0, MessagesAssumption DEF ReqOK, DataOK, Stored, Ids
  <2>3. excused' \subseteq Users \X Keys /\ lost' \subseteq Ids
    BY <1>0, <1>2, <2>2 DEF Abandon, Excuse, DataOK
  <2>4. DataOK' /\ Stored' = Stored
    BY <1>0, <2>1, <2>3 DEF DataOK, Stored
  <2> QED BY <1>0, <2>1, <2>4, Ends, TypeParts
<1>3. ASSUME NEW d \in Users \X Keys, DedupExpires(d) PROVE TypeOK'
  <2>1. 0 \in 0..MaxMessages
    BY MessagesAssumption
  <2>2. DataOK'
    BY <1>0, <1>3, <2>1 DEF DedupExpires, DataOK
  <2>3. ReqOK' /\ LockOK'
    BY <1>0, <1>3 DEF DedupExpires, ReqOK, LockOK, Locked, Stored
  <2> QED BY <2>2, <2>3, TypeParts
<1>4. CASE UNCHANGED vars
  BY <1>0, <1>4, TypeParts DEF vars, DataOK, ReqOK, LockOK, Locked, Stored
<1> QED BY <1>1, <1>2, <1>3, <1>4, BeginStep, SendStep, ChangeStep DEF Next

(* Rows are locked by the open transactions on them and by nobody else,    *)
(* whichever of them commit, fail or are abandoned.                        *)
THEOREM TypeCorrect == Spec => []TypeOK
<1> QED BY TypeInit, TypeStep, PTL DEF Spec

-----------------------------------------------------------------------------
(* Reactions.  What a transaction read under its lock is what the row      *)
(* holds until it commits, and nobody has reacted to a message to come.    *)
SnapsHold == \A c \in Callers : Locked(c) => req[c].snap = store[req[c].msg].reactions
Unreacted == \A m \in Ids \ Stored : wanted[m] = {}
ReactInv == ReactionsKept /\ SnapsHold /\ Unreacted

(* A frame arrives and is looked at: only the request of c changes.        *)
Arrives(c) ==
    \/ \E k \in Keys \cup {NoKey} : SendMessage(c, k)
    \/ \E m \in Stored : EditMessage(c, m) \/ DeleteMessage(c, m)
    \/ \E m \in Stored, op \in {"add", "remove"} : React(c, m, op)

LEMMA ArrivesOutside ==
    ASSUME NEW c \in Callers, Arrives(c)
    PROVE  \E r : /\ req' = [req EXCEPT ![c] = r] /\ req[c] = Idle
                  /\ r.at \in {"creating", "editing", "deleting", "adding", "removing"}
                  /\ UNCHANGED <<store, lock, dedup, edits, announced, wanted, clobbered, lapsed, lost>>
<1> DEFINE Goal == \E r : /\ req' = [req EXCEPT ![c] = r] /\ req[c] = Idle
                          /\ r.at \in {"creating", "editing", "deleting", "adding", "removing"}
                          /\ UNCHANGED <<store, lock, dedup, edits, announced, wanted, clobbered, lapsed, lost>>
<1>0. ASSUME NEW r, Begin(c, r), r.at \in {"creating", "editing", "deleting", "adding", "removing"},
             UNCHANGED <<store, lock, dedup, edits, announced, wanted, clobbered, lapsed, lost>>
      PROVE  Goal
  BY <1>0 DEF Begin
<1> HIDE DEF Goal
<1>1. ASSUME NEW k \in Keys \cup {NoKey}, SendMessage(c, k) PROVE Goal
  <2> DEFINE r == [Idle EXCEPT !.at = "creating", !.key = k]
  <2>1. r.at = "creating"
    BY DEF Idle
  <2> HIDE DEF r
  <2> QED BY <1>0, <1>1, <2>1 DEF SendMessage, r
<1>2. ASSUME NEW m \in Stored, EditMessage(c, m) PROVE Goal
  <2> DEFINE r == [Idle EXCEPT !.at = "editing", !.msg = m, !.snap = store[m].reactions]
  <2>1. r.at = "editing"
    BY DEF Idle
  <2> HIDE DEF r
  <2> QED BY <1>0, <1>2, <2>1 DEF EditMessage, r
<1>3. ASSUME NEW m, NEW a \in {"deleting", "adding", "removing"}, Begin(c, [Idle EXCEPT !.at = a, !.msg = m]),
             UNCHANGED <<store, lock, dedup, edits, announced, wanted, clobbered, lapsed, lost>>
      PROVE  Goal
  <2> DEFINE r == [Idle EXCEPT !.at = a, !.msg = m]
  <2>1. r.at = a
    BY DEF Idle
  <2>2. Begin(c, r)
    BY <1>3
  <2> HIDE DEF r
  <2> QED BY <1>0, <1>3, <2>1, <2>2
<1>4. ASSUME NEW m \in Stored, DeleteMessage(c, m) \/ \E op \in {"add", "remove"} : React(c, m, op)
      PROVE  Goal
  BY <1>3, <1>4 DEF DeleteMessage, React
<1> QED BY <1>1, <1>2, <1>4 DEF Arrives, Goal

(* What happens to requests that no transaction is open for leaves         *)
(* reactions alone.                                                        *)
LEMMA ReactQuiet ==
    ASSUME TypeOK, ReactInv, NEW c \in Callers, NEW r, req' = [req EXCEPT ![c] = r],
           r.at \notin {"addLocked", "removeLocked"}, UNCHANGED <<store, wanted, clobbered>>
    PROVE  ReactInv'
<1>1. \A d \in Callers : req'[d] = IF d = c THEN r ELSE req[d]
  BY DEF TypeOK
<1>2. SnapsHold'
  BY <1>1 DEF ReactInv, SnapsHold, Locked
<1> QED BY <1>2 DEF ReactInv, ReactionsKept, Unreacted, Stored

LEMMA ReactStep == TypeOK /\ ReactInv /\ [Next]_vars => ReactInv'
<1> SUFFICES ASSUME TypeOK, ReactInv, [Next]_vars PROVE ReactInv'
  OBVIOUS
<1>0. ReactionsKept /\ SnapsHold /\ Unreacted /\ ReqOK /\ LockOK /\ DataOK /\ Stored \subseteq Ids
  BY TypeParts, MessagesAssumption DEF ReactInv, DataOK, Stored, Ids
<1>1. ASSUME NEW c \in Callers, Arrives(c) PROVE ReactInv'
  BY <1>1, ArrivesOutside, ReactQuiet
<1>2. ASSUME NEW c \in Callers, Create(c) PROVE ReactInv'
  <2>1. /\ req[c].at = "creating" /\ store' = Append(store, Row(c)) /\ Row(c).reactions = {}
        /\ Len(store) < MaxMessages /\ UNCHANGED <<wanted, clobbered>>
    BY <1>2 DEF Create, Row
  <2>2. /\ Stored' = Stored \cup {Len(store) + 1} /\ Len(store) \in Nat
        /\ Len(store) + 1 \notin Stored /\ \A n \in Stored : store'[n] = store[n]
        /\ store'[Len(store) + 1] = Row(c)
    BY <1>0, <2>1, InsertRow, RowType DEF DataOK, ReqOK
  <2>3. Len(store) + 1 \in Ids
    BY <2>1, <2>2, MessagesAssumption DEF Ids
  <2>4. Unreacted' /\ ReactionsKept'
    BY <1>0, <2>1, <2>2, <2>3 DEF Unreacted, ReactionsKept
  <2>5. SnapsHold'
    <3>1. CASE req' = [req EXCEPT ![c] = Idle]
      BY <1>0, <2>2, <3>1, IdleType DEF SnapsHold, Locked, ReqOK
    <3>2. CASE req' = [req EXCEPT ![c].at = IF req[c].key = NoKey THEN "publishing" ELSE "marking",
                                  ![c].msg = Len(store) + 1]
      <4> DEFINE to == IF req[c].key = NoKey THEN "publishing" ELSE "marking"
                 r == [req[c] EXCEPT !.at = to, !.msg = Len(store) + 1]
      <4>1. req' = [req EXCEPT ![c] = r] /\ to \in {"publishing", "marking"}
        BY <3>2
      <4> HIDE DEF to
      <4>2. r.at = to
        BY <1>0 DEF ReqOK, Request
      <4> HIDE DEF r
      <4>3. ~Locked(c)' /\ \A d \in Callers : d # c => req'[d] = req[d]
        BY <1>0, <4>1, <4>2 DEF Locked, ReqOK
      <4> QED BY <1>0, <2>2, <4>3 DEF SnapsHold, Locked, ReqOK
    <3> QED BY <1>2, <3>1, <3>2 DEF Create
  <2> QED BY <2>4, <2>5 DEF ReactInv
<1>3. ASSUME NEW c \in Callers, markDedup(c) PROVE ReactInv'
  <2> DEFINE r == [req[c] EXCEPT !.at = "publishing"]
  <2>1. req' = [req EXCEPT ![c] = r] /\ UNCHANGED <<store, wanted, clobbered>>
    BY <1>3 DEF markDedup
  <2>2. r.at = "publishing"
    BY <1>0 DEF ReqOK, Request
  <2> HIDE DEF r
  <2> QED BY <2>1, <2>2, ReactQuiet
<1>4. ASSUME NEW c \in Callers, PublishNew(c) \/ PublishUpdate(c) \/ Reject(c) \/ Abandon(c)
      PROVE  ReactInv'
  <2>1. req' = [req EXCEPT ![c] = Idle] /\ UNCHANGED <<store, wanted, clobbered>>
    BY <1>4 DEF PublishNew, PublishUpdate, Reject, Abandon
  <2> QED BY <2>1, IdleType, ReactQuiet
<1>5. ASSUME NEW c \in Callers, Update(c) \/ Delete(c) PROVE ReactInv'
  <2> DEFINE m == req[c].msg
             r == [req[c] EXCEPT !.at = "updating"]
  <2>1. /\ req[c].at \in {"editing", "deleting"} /\ lock[m] = Free /\ req' = [req EXCEPT ![c] = r]
        /\ \/ /\ store' = [store EXCEPT ![m] = Edited(c)]
              /\ clobbered' = IF req[c].snap = store[m].reactions THEN clobbered ELSE clobbered \cup {m}
           \/ store' = [store EXCEPT ![m] = Deleted(c)] /\ UNCHANGED clobbered
           \/ UNCHANGED <<store, clobbered>>
        /\ UNCHANGED wanted
    BY <1>5 DEF Update, Delete, Edited, Deleted
  <2>2. r.at = "updating" /\ m \in Stored /\ m \in Ids
    BY <1>0, <2>1 DEF ReqOK, Request
  <2>3. /\ Edited(c) \in Message /\ Deleted(c) \in Message
        /\ Edited(c).reactions = req[c].snap /\ Deleted(c).reactions = store[m].reactions
    BY <2>2, WrittenType
  <2> HIDE DEF r
  <2>4. /\ Stored' = Stored /\ \A n \in Stored : n # m => store'[n].reactions = store[n].reactions
        /\ \/ store'[m].reactions = store[m].reactions /\ UNCHANGED clobbered
           \/ clobbered' = clobbered \cup {m}
    <3>1. CASE UNCHANGED <<store, clobbered>>
      BY <3>1 DEF Stored
    <3>2. CASE store' = [store EXCEPT ![m] = Edited(c)]
               /\ clobbered' = IF req[c].snap = store[m].reactions THEN clobbered ELSE clobbered \cup {m}
      <4>1. Stored' = Stored /\ \A n \in Stored : store'[n] = IF n = m THEN Edited(c) ELSE store[n]
        BY <1>0, <2>2, <2>3, <3>2, WriteRow DEF DataOK
      <4> QED BY <2>2, <2>3, <3>2, <4>1
    <3>3. CASE store' = [store EXCEPT ![m] = Deleted(c)] /\ UNCHANGED clobbered
      <4>1. Stored' = Stored /\ \A n \in Stored : store'[n] = IF n = m THEN Deleted(c) ELSE store[n]
        BY <1>0, <2>2, <2>3, <3>3, WriteRow DEF DataOK
      <4> QED BY <2>2, <2>3, <3>3, <4>1
    <3> QED BY <2>1, <3>1, <3>2, <3>3
  <2>5. ReactionsKept' /\ Unreacted'
    BY <1>0, <2>1, <2>4 DEF ReactionsKept, Unreacted
  <2>6. SnapsHold'
    <3>1. \A d \in Callers : Locked(d) => req[d].msg # m
      BY <1>0, <2>1, <2>2, MessagesAssumption DEF LockOK
    <3>2. \A d \in Callers : req'[d] = IF d = c THEN r ELSE req[d]
      BY <1>0, <2>1 DEF ReqOK
    <3> QED BY <1>0, <2>2, <2>4, <3>1, <3>2 DEF SnapsHold, Locked, ReqOK
  <2> QED BY <2>5, <2>6 DEF ReactInv
<1>6. ASSUME NEW c \in Callers, SelectForUpdate(c) PROVE ReactInv'
  <2> DEFINE m == req[c].msg
             to == IF req[c].at = "adding" THEN "addLocked" ELSE "removeLocked"
             q == [req[c] EXCEPT !.at = to, !.snap = store[m].reactions]
  <2>1. req' = [req EXCEPT ![c] = q] /\ UNCHANGED <<store, wanted, clobbered>>
    BY <1>6 DEF SelectForUpdate
  <2> HIDE DEF to
  <2>2. q.snap = store[m].reactions /\ q.msg = m
    BY <1>0 DEF ReqOK, Request
  <2> HIDE DEF q
  <2>3. SnapsHold'
    BY <1>0, <2>1, <2>2 DEF SnapsHold, Locked, ReqOK
  <2> QED BY <1>0, <2>1, <2>3 DEF ReactInv, ReactionsKept, Unreacted, Stored
<1>7. ASSUME NEW c \in Callers, UpdateReactions(c) PROVE ReactInv'
  <2> DEFINE m == req[c].msg
  <2>1. /\ req[c].at \in {"addLocked", "removeLocked"} /\ req' = [req EXCEPT ![c] = Idle]
        /\ store' = [store EXCEPT ![m] = Reacted(c)]
        /\ wanted' = [wanted EXCEPT ![m] = Apply(c, wanted[m])] /\ UNCHANGED clobbered
    BY <1>7 DEF UpdateReactions, Reacted, Apply
  <2>2. m \in Stored /\ m \in Ids /\ Locked(c)
    BY <1>0, <2>1 DEF ReqOK, Locked
  <2>3. Reacted(c) \in Message /\ Reacted(c).reactions = Apply(c, req[c].snap)
    BY <2>2, WrittenType
  <2>4. Stored' = Stored /\ \A n \in Stored : store'[n] = IF n = m THEN Reacted(c) ELSE store[n]
    BY <1>0, <2>1, <2>2, <2>3, WriteRow DEF DataOK
  <2>5. \A n \in Ids : wanted'[n] = IF n = m THEN Apply(c, wanted[m]) ELSE wanted[n]
    BY <1>0, <2>1 DEF DataOK
  <2>6. req[c].snap = store[m].reactions
    BY <1>0, <2>2 DEF SnapsHold
  <2>7. ReactionsKept' /\ Unreacted'
    BY <1>0, <2>1, <2>2, <2>3, <2>4, <2>5, <2>6 DEF ReactionsKept, Unreacted
  <2>8. SnapsHold'
    <3>1. \A d \in Callers : Locked(d) /\ d # c => req[d].msg # m
      BY <1>0, <2>2 DEF LockOK
    <3>2. \A d \in Callers : req'[d] = IF d = c THEN Idle ELSE req[d]
      BY <1>0, <2>1 DEF ReqOK
    <3> QED BY <1>0, <2>4, <3>1, <3>2, IdleType DEF SnapsHold, Locked, ReqOK
  <2> QED BY <2>7, <2>8 DEF ReactInv
<1>8. CASE UNCHANGED vars \/ \E d \in Users \X Keys : DedupExpires(d)
  BY <1>0, <1>8 DEF vars, DedupExpires, ReactInv, ReactionsKept, SnapsHold, Unreacted, Stored, Locked
<1> QED BY <1>1, <1>2, <1>3, <1>4, <1>5, <1>6, <1>7, <1>8 DEF Next, Arrives

(* Concurrent reactions are serialised by the row lock, for any number of  *)
(* connections and pods; only an edit can write stale reactions back.      *)
THEOREM ReactionsSerialised == Spec => []ReactionsKept
<1>1. Init => ReactInv
  BY IdleType DEF Init, ReactInv, ReactionsKept, SnapsHold, Unreacted, Stored, Locked
<1>2. ReactInv => ReactionsKept
  BY DEF ReactInv
<1> QED BY <1>1, <1>2, TypeInit, TypeStep, ReactStep, PTL DEF Spec

-----------------------------------------------------------------------------
(* Deletions.  Only Delete writes deletedBy, and only where it is Nobody.  *)

(* How a step can change the table, and who deleted a message in it.       *)
LEMMA TableStep ==
    ASSUME TypeOK, [Next]_vars
    PROVE  \/ UNCHANGED store
           \/ \E c \in Callers : /\ req[c].at = "creating" /\ store' = Append(store, Row(c))
           \/ \E c \in Callers : /\ req[c].at \notin {"idle", "creating"}
                                 /\ \/ store' = [store EXCEPT ![req[c].msg] = Edited(c)]
                                    \/ store' = [store EXCEPT ![req[c].msg] = Reacted(c)]
                                    \/ /\ store' = [store EXCEPT ![req[c].msg] = Deleted(c)]
                                       /\ store[req[c].msg].deletedBy = Nobody
<1>1. ASSUME NEW c \in Callers, Create(c) PROVE req[c].at = "creating" /\ store' = Append(store, Row(c))
  BY <1>1 DEF Create, Row
<1>2. ASSUME NEW c \in Callers, Update(c)
      PROVE  req[c].at = "editing" /\ store' = [store EXCEPT ![req[c].msg] = Edited(c)]
  BY <1>2 DEF Update, Edited
<1>3. ASSUME NEW c \in Callers, Delete(c)
      PROVE  /\ req[c].at = "deleting"
             /\ \/ UNCHANGED store
                \/ /\ store' = [store EXCEPT ![req[c].msg] = Deleted(c)]
                   /\ store[req[c].msg].deletedBy = Nobody
  BY <1>3 DEF Delete, Deleted, NotYetDeleted
<1>4. ASSUME NEW c \in Callers, UpdateReactions(c)
      PROVE  /\ req[c].at \in {"addLocked", "removeLocked"}
             /\ store' = [store EXCEPT ![req[c].msg] = Reacted(c)]
  BY <1>4 DEF UpdateReactions, Reacted, Apply
<1>5. ASSUME NEW c \in Callers,
             \/ Arrives(c) \/ markDedup(c) \/ PublishNew(c) \/ PublishUpdate(c)
             \/ SelectForUpdate(c) \/ Reject(c) \/ Abandon(c)
      PROVE  UNCHANGED store
  BY <1>5, ArrivesOutside DEF markDedup, PublishNew, PublishUpdate, SelectForUpdate, Reject, Abandon
<1>6. CASE UNCHANGED vars \/ \E d \in Users \X Keys : DedupExpires(d)
  BY <1>6 DEF vars, DedupExpires
<1>7. CASE \E c \in Callers : Create(c) \/ Update(c) \/ Delete(c) \/ UpdateReactions(c)
  <2>1. PICK c \in Callers : Create(c) \/ Update(c) \/ Delete(c) \/ UpdateReactions(c)
    BY <1>7
  <2> QED BY <1>1, <1>2, <1>3, <1>4, <2>1
<1>8. CASE \E c \in Callers : \/ Arrives(c) \/ markDedup(c) \/ PublishNew(c) \/ PublishUpdate(c)
                              \/ SelectForUpdate(c) \/ Reject(c) \/ Abandon(c)
  BY <1>5, <1>8
<1> QED BY <1>6, <1>7, <1>8 DEF Next, Arrives

LEMMA DeletedOnce ==
    ASSUME TypeOK, [Next]_vars, NEW m \in Stored, store[m].deletedBy # Nobody
    PROVE  store'[m].deletedBy = store[m].deletedBy
<1>0. store \in Seq(Message) /\ req \in [Callers -> Request]
      /\ \A c \in Callers : req[c].at \notin {"idle", "creating"} => req[c].msg \in Stored
  BY DEF TypeOK
<1>1. ASSUME NEW c \in Callers, store' = Append(store, Row(c)) PROVE store'[m] = store[m]
  BY <1>0, <1>1, InsertRow, RowType
<1>2. ASSUME NEW c \in Callers, req[c].msg \in Stored,
             \/ store' = [store EXCEPT ![req[c].msg] = Edited(c)]
             \/ store' = [store EXCEPT ![req[c].msg] = Reacted(c)]
             \/ /\ store' = [store EXCEPT ![req[c].msg] = Deleted(c)]
                /\ store[req[c].msg].deletedBy = Nobody
      PROVE  store'[m].deletedBy = store[m].deletedBy
  <2>1. /\ Edited(c) \in Message /\ Deleted(c) \in Message /\ Reacted(c) \in Message
        /\ Edited(c).deletedBy = store[req[c].msg].deletedBy
        /\ Reacted(c).deletedBy = store[req[c].msg].deletedBy
    BY <1>2, WrittenType
  <2>2. ASSUME NEW w \in Message, store' = [store EXCEPT ![req[c].msg] = w]
        PROVE  store'[m] = IF m = req[c].msg THEN w ELSE store[m]
    <3>1. req[c].msg \in Stored
      BY <1>2
    <3>2. \A n \in Stored : store'[n] = IF n = req[c].msg THEN w ELSE store[n]
      BY <1>0, <2>2, <3>1, WriteRow
    <3> QED BY <3>2
  <2> QED BY <1>2, <2>1, <2>2
<1> QED BY <1>0, <1>1, <1>2, TableStep

(* The first deletion settles who deleted a message, for any number of     *)
(* requests that were past their checks already.                           *)
THEOREM FirstDeletionWins == Spec => DeletionIsFinal
<1>1. TypeOK /\ [Next]_vars =>
        [\A m \in Stored : store[m].deletedBy # Nobody => store'[m].deletedBy = store[m].deletedBy]_vars
  BY DeletedOnce
<1> QED BY <1>1, TypeInit, TypeStep, PTL DEF Spec, DeletionIsFinal

-----------------------------------------------------------------------------
(* Announcements *)

Pending(c) == req[c].at \in {"marking", "publishing"}

LEMMA AnnouncedQuiet ==
    ASSUME TypeOK, StoredMeansAnnounced, NEW c \in Callers, NEW r, req' = [req EXCEPT ![c] = r],
           Stored' = Stored, announced \subseteq announced', lost \subseteq lost',
           Pending(c) => \/ r.at = "publishing" /\ r.msg = req[c].msg
                         \/ req[c].msg \in announced' \cup lost'
    PROVE  StoredMeansAnnounced'
<1>1. \A d \in Callers : req'[d] = IF d = c THEN r ELSE req[d]
  BY DEF TypeOK
<1> SUFFICES ASSUME NEW m \in Stored, m \notin announced' \cup lost'
             PROVE  \E d \in Callers : req'[d].msg = m /\ req'[d].at \in {"marking", "publishing"}
  BY DEF StoredMeansAnnounced
<1>2. PICK d \in Callers : req[d].msg = m /\ Pending(d)
  BY DEF StoredMeansAnnounced, Pending
<1>3. CASE d = c
  BY <1>1, <1>2, <1>3
<1>4. CASE d # c
  BY <1>1, <1>2, <1>4 DEF Pending
<1> QED BY <1>3, <1>4

LEMMA AnnouncedStep == TypeOK /\ StoredMeansAnnounced /\ [Next]_vars => StoredMeansAnnounced'
<1> SUFFICES ASSUME TypeOK, StoredMeansAnnounced, [Next]_vars PROVE StoredMeansAnnounced'
  OBVIOUS
<1>0. ReqOK /\ DataOK /\ \A c \in Callers : req[c] \in Request
  BY TypeParts DEF ReqOK
<1>1. ASSUME NEW c \in Callers, Arrives(c) PROVE StoredMeansAnnounced'
  <2>1. PICK r : /\ req' = [req EXCEPT ![c] = r] /\ req[c] = Idle
                 /\ UNCHANGED <<store, announced, lost>>
    BY <1>1, ArrivesOutside
  <2> QED BY <2>1, AnnouncedQuiet, IdleType DEF Pending, Stored
<1>2. ASSUME NEW c \in Callers, Create(c) PROVE StoredMeansAnnounced'
  <2> DEFINE n == Len(store) + 1
  <2>1. req[c].at = "creating" /\ store' = Append(store, Row(c)) /\ UNCHANGED announced
    BY <1>2 DEF Create, Row
  <2>2. Stored' = Stored \cup {n}
    BY <1>0, <2>1, InsertRow, RowType DEF DataOK, ReqOK
  <2>3. lost \subseteq lost' /\ \A d \in Callers : d # c => req'[d] = req[d]
    <3>1. lost \subseteq lost' /\ \E r : req' = [req EXCEPT ![c] = r]
      BY <1>2 DEF Create
    <3> QED BY <1>0, <3>1 DEF ReqOK
  <2>4. n \in lost' \/ \E d \in Callers : req'[d].msg = n /\ req'[d].at \in {"marking", "publishing"}
    <3>1. CASE lost' = lost \cup {n}
      BY <3>1
    <3>2. CASE req' = [req EXCEPT ![c].at = IF req[c].key = NoKey THEN "publishing" ELSE "marking",
                                  ![c].msg = Len(store) + 1]
      <4> DEFINE to == IF req[c].key = NoKey THEN "publishing" ELSE "marking"
                 r == [req[c] EXCEPT !.at = to, !.msg = n]
      <4>1. req' = [req EXCEPT ![c] = r] /\ to \in {"publishing", "marking"}
        BY <3>2
      <4> HIDE DEF to, n
      <4>2. r.at = to /\ r.msg = n
        BY <1>0 DEF Request
      <4> HIDE DEF r
      <4>3. req'[c] = r
        BY <1>0, <4>1 DEF ReqOK
      <4> QED BY <4>1, <4>2, <4>3
    <3> QED BY <1>2, <3>1, <3>2 DEF Create
  <2>5. ASSUME NEW m \in Stored, m \notin announced' \cup lost'
        PROVE  \E d \in Callers : req'[d].msg = m /\ req'[d].at \in {"marking", "publishing"}
    <3>1. PICK d \in Callers : req[d].msg = m /\ req[d].at \in {"marking", "publishing"}
      BY <2>1, <2>3, <2>5 DEF StoredMeansAnnounced
    <3> QED BY <2>1, <2>3, <3>1
  <2> HIDE DEF n
  <2> QED BY <2>2, <2>4, <2>5 DEF StoredMeansAnnounced
<1>3. ASSUME NEW c \in Callers, markDedup(c) PROVE StoredMeansAnnounced'
  <2> DEFINE r == [req[c] EXCEPT !.at = "publishing"]
  <2>1. req' = [req EXCEPT ![c] = r] /\ UNCHANGED <<store, announced, lost>>
    BY <1>3 DEF markDedup
  <2>2. r.at = "publishing" /\ r.msg = req[c].msg
    BY <1>0, MoveType
  <2> HIDE DEF r
  <2> QED BY <2>1, <2>2, AnnouncedQuiet DEF Stored
<1>4. ASSUME NEW c \in Callers, PublishNew(c) \/ PublishUpdate(c) \/ Reject(c) \/ Abandon(c)
      PROVE  StoredMeansAnnounced'
  <2>1. /\ req' = [req EXCEPT ![c] = Idle] /\ UNCHANGED store
        /\ announced \subseteq announced' /\ lost \subseteq lost'
        /\ Pending(c) => req[c].msg \in announced' \cup lost'
    BY <1>4 DEF PublishNew, PublishUpdate, Reject, Abandon, Pending
  <2> QED BY <2>1, AnnouncedQuiet DEF Stored
<1>5. ASSUME NEW c \in Callers, Update(c) \/ Delete(c) \/ SelectForUpdate(c) \/ UpdateReactions(c)
      PROVE  StoredMeansAnnounced'
  <2>1. UNCHANGED <<announced, lost>> /\ ~Pending(c) /\ req[c].at # "creating"
        /\ \E r : req' = [req EXCEPT ![c] = r]
    BY <1>5 DEF Update, Delete, SelectForUpdate, UpdateReactions, Pending
  <2>2. Len(store') = Len(store)
    <3>1. req[c].msg \in Stored /\ store \in Seq(Message)
      BY <1>0, <1>5 DEF Update, Delete, SelectForUpdate, UpdateReactions, ReqOK, DataOK
    <3>2. \/ UNCHANGED store
          \/ store' = [store EXCEPT ![req[c].msg] = Edited(c)]
          \/ store' = [store EXCEPT ![req[c].msg] = Reacted(c)]
          \/ store' = [store EXCEPT ![req[c].msg] = Deleted(c)]
      BY <1>5 DEF Update, Delete, SelectForUpdate, UpdateReactions, Edited, Reacted, Deleted, Apply
    <3>3. Edited(c) \in Message /\ Reacted(c) \in Message /\ Deleted(c) \in Message
      BY <3>1, WrittenType
    <3>4. ASSUME NEW w \in Message, store' = [store EXCEPT ![req[c].msg] = w]
          PROVE  Len(store') = Len(store)
      BY <3>1, <3>4, WriteRow
    <3> QED BY <3>2, <3>3, <3>4
  <2> QED BY <2>1, <2>2, AnnouncedQuiet DEF Stored
<1>6. CASE UNCHANGED vars \/ \E d \in Users \X Keys : DedupExpires(d)
  BY <1>6 DEF vars, DedupExpires, StoredMeansAnnounced, Stored
<1> QED BY <1>1, <1>2, <1>3, <1>4, <1>5, <1>6 DEF Next, Arrives

(* No path of SendMessage stores a message and forgets to announce it.     *)
THEOREM AllAnnounced == Spec => []StoredMeansAnnounced
<1>1. Init => StoredMeansAnnounced
  BY DEF Init, StoredMeansAnnounced, Stored
<1> QED BY <1>1, TypeInit, TypeStep, AnnouncedStep, PTL DEF Spec

-----------------------------------------------------------------------------
(* Deduplication.  Unless a key is excused or has expired, it is with one  *)
(* caller at most from the look-up to the SET; before that caller inserts  *)
(* there is no message under the key, and after it the key is set or about *)
(* to be.                                                                  *)
Sending(c, d) == req[c].at \in {"creating", "marking"} /\ Dedup(c) = d
Marking(c, d) == req[c].at = "marking" /\ Dedup(c) = d
Owed(d) ==
    /\ \A m, n \in Copies(d) : m = n
    /\ Copies(d) # {} => dedup[d] # 0 \/ \E c \in Callers : Marking(c, d)
    /\ \A b, c \in Callers : Sending(b, d) /\ Sending(c, d) => b = c
    /\ \A c \in Callers : req[c].at = "creating" /\ Dedup(c) = d => Copies(d) = {}
KeysKnown == \A c \in Callers : req[c].at = "marking" => req[c].key \in Keys
DedupInv ==
    /\ \A d \in (Users \X Keys) \ (excused \cup lapsed) : Owed(d)
    /\ KeysKnown

(* A key that nothing happened to stays as it is.                          *)
LEMMA OwedStays ==
    ASSUME NEW d, Owed(d), Copies(d)' = Copies(d), dedup'[d] = dedup[d],
           \A c \in Callers : /\ Sending(c, d)' => Sending(c, d)
                              /\ Marking(c, d) => Marking(c, d)'
                              /\ req'[c].at = "creating" /\ Dedup(c)' = d => req[c].at = "creating" /\ Dedup(c) = d
    PROVE  Owed(d)'
  BY DEF Owed

(* The messages under a key depend on authors and keys alone.              *)
LEMMA CopiesStay ==
    ASSUME TypeOK, NEW c \in Callers, req[c].msg \in Stored,
           \/ UNCHANGED store
           \/ store' = [store EXCEPT ![req[c].msg] = Edited(c)]
           \/ store' = [store EXCEPT ![req[c].msg] = Reacted(c)]
           \/ store' = [store EXCEPT ![req[c].msg] = Deleted(c)]
    PROVE  \A d : Copies(d)' = Copies(d)
<1>1. CASE UNCHANGED store
  BY <1>1 DEF Copies, Stored
<1>2. ASSUME NEW w \in {Edited(c), Deleted(c), Reacted(c)}, store' = [store EXCEPT ![req[c].msg] = w]
      PROVE  \A d : Copies(d)' = Copies(d)
  <2>1. w \in Message /\ w.author = store[req[c].msg].author /\ w.key = store[req[c].msg].key
    BY WrittenType
  <2>2. Stored' = Stored /\ \A n \in Stored : store'[n] = IF n = req[c].msg THEN w ELSE store[n]
    <3>1. w \in Message /\ req[c].msg \in Stored /\ store \in Seq(Message)
      BY <2>1 DEF TypeOK
    <3> QED BY <1>2, <3>1, WriteRow
  <2>3. \A n \in Stored : store'[n].author = store[n].author /\ store'[n].key = store[n].key
    BY <2>1, <2>2
  <2> QED BY <2>2, <2>3 DEF Copies
<1> QED BY <1>1, <1>2

(* An insert adds a message under the key of its request.                  *)
LEMMA CopiesGrow ==
    ASSUME TypeOK, NEW c \in Callers, store' = Append(store, Row(c)), NEW d
    PROVE  Copies(d)' = Copies(d) \cup (IF Dedup(c) = d THEN {Len(store) + 1} ELSE {})
<1> DEFINE n == Len(store) + 1
<1>1. /\ Stored' = Stored \cup {n} /\ n \notin Stored
      /\ \A k \in Stored : store'[k] = store[k]
      /\ store'[n] = Row(c)
  BY InsertRow, RowType DEF TypeOK
<1>2. Row(c).author = UserOf[c] /\ Row(c).key = req[c].key
  BY DEF Row
<1> HIDE DEF n
<1>3. Copies(d)' = {k \in Stored' : <<store'[k].author, store'[k].key>> = d}
  BY DEF Copies
<1>4. <<store'[n].author, store'[n].key>> = Dedup(c)
  BY <1>1, <1>2 DEF Dedup
<1>5. Copies(d)' = Copies(d) \cup (IF Dedup(c) = d THEN {n} ELSE {})
  BY <1>1, <1>3, <1>4 DEF Copies
<1> QED BY <1>5 DEF n

(* A request that is not about to insert, or will not insert any more,     *)
(* moves on.                                                               *)
LEMMA DedupQuiet ==
    ASSUME TypeOK, DedupInv, NEW c \in Callers, NEW r, req' = [req EXCEPT ![c] = r],
           r.at \notin {"creating", "marking"}, \A d : Copies(d)' = Copies(d), UNCHANGED <<dedup, lapsed>>,
           excused \subseteq excused',
           req[c].at = "marking" => Dedup(c) \in excused'
    PROVE  DedupInv'
<1>1. \A d \in Callers : req'[d] = IF d = c THEN r ELSE req[d]
  BY DEF TypeOK
<1>2. KeysKnown'
  BY <1>1 DEF DedupInv, KeysKnown
<1>3. ASSUME NEW d \in (Users \X Keys) \ (excused' \cup lapsed') PROVE Owed(d)'
  <2>1. Owed(d)
    BY <1>3 DEF DedupInv
  <2>2. ASSUME NEW b \in Callers
        PROVE  /\ Sending(b, d)' => Sending(b, d)
               /\ Marking(b, d) => Marking(b, d)'
               /\ req'[b].at = "creating" /\ Dedup(b)' = d => req[b].at = "creating" /\ Dedup(b) = d
    <3>1. CASE b = c
      BY <1>1, <1>3, <3>1 DEF Sending, Marking
    <3>2. CASE b # c
      <4>1. req'[b] = req[b] /\ Dedup(b)' = Dedup(b)
        BY <1>1, <3>2 DEF Dedup
      <4> QED BY <4>1 DEF Sending, Marking
    <3> QED BY <3>1, <3>2
  <2> QED BY <2>1, <2>2, OwedStays
<1> QED BY <1>2, <1>3 DEF DedupInv

(* The look-up: what it finds decides whether the key was free.            *)
LEMMA DedupSend ==
    ASSUME TypeOK, DedupInv, NEW c \in Callers, NEW k \in Keys \cup {NoKey}, SendMessage(c, k)
    PROVE  DedupInv'
<1> DEFINE u == UserOf[c]
           r == [Idle EXCEPT !.at = "creating", !.key = k]
<1>1. /\ req' = [req EXCEPT ![c] = r] /\ req[c] = Idle /\ UNCHANGED <<store, dedup, lapsed>>
      /\ excused \subseteq excused'
  BY DEF SendMessage, Begin
<1>2. r.at = "creating" /\ r.key = k
  BY DEF Idle
<1> HIDE DEF r
<1>3. \A d \in Callers : req'[d] = IF d = c THEN r ELSE req[d]
  BY <1>1 DEF TypeOK
<1>4. KeysKnown'
  BY <1>2, <1>3 DEF DedupInv, KeysKnown
<1>5. ASSUME NEW d \in (Users \X Keys) \ (excused' \cup lapsed') PROVE Owed(d)'
  <2>1. Owed(d) /\ Copies(d)' = Copies(d) /\ dedup'[d] = dedup[d]
    BY <1>1, <1>5 DEF DedupInv, Copies, Stored
  <2>2. Dedup(c)' = <<u, k>> /\ req'[c].at = "creating" /\ req[c].at = "idle"
    BY <1>1, <1>2, <1>3, IdleType DEF Dedup
  <2>3. \A b \in Callers : b # c => req'[b] = req[b] /\ Dedup(b)' = Dedup(b)
    BY <1>3 DEF Dedup
  <2>4. CASE d = <<u, k>>
    <3>1. k # NoKey /\ k \in Keys
      BY <2>4, MessagesAssumption
    <3>2. /\ ~FoundDuplicate(u, k)
          /\ ~\E b \in Callers : /\ b # c /\ UserOf[b] = u
                                 /\ req[b].at \in {"creating", "marking"} /\ req[b].key = k
      BY <1>5, <2>4, <3>1 DEF SendMessage
    <3>3. dedup[d] = 0
      BY <2>4, <3>1, <3>2 DEF FoundDuplicate
    <3>4. ASSUME NEW b \in Callers, b # c PROVE ~Sending(b, d) /\ ~Sending(b, d)'
      <4>1. ~Sending(b, d)
        BY <2>4, <3>2, <3>4 DEF Sending, Dedup
      <4>2. Sending(b, d)' <=> Sending(b, d)
        BY <2>3, <3>4 DEF Sending
      <4> QED BY <4>1, <4>2
    <3>5. \A b \in Callers : ~Marking(b, d)
      BY <2>2, <3>4 DEF Marking, Sending
    <3>6. Copies(d) = {}
      BY <2>1, <3>3, <3>5 DEF Owed
    <3>7. \A b \in Callers : Sending(b, d)' => b = c
      BY <3>4
    <3> QED BY <2>1, <3>6, <3>7 DEF Owed
  <2>5. CASE d # <<u, k>>
    <3>1. ASSUME NEW b \in Callers
          PROVE  /\ Sending(b, d)' => Sending(b, d)
                 /\ Marking(b, d) => Marking(b, d)'
                 /\ req'[b].at = "creating" /\ Dedup(b)' = d => req[b].at = "creating" /\ Dedup(b) = d
      <4>1. CASE b = c
        BY <2>2, <2>5, <4>1 DEF Sending, Marking
      <4>2. CASE b # c
        BY <2>3, <4>2 DEF Sending, Marking
      <4> QED BY <4>1, <4>2
    <3> QED BY <2>1, <3>1, OwedStays
  <2> QED BY <2>4, <2>5
<1> QED BY <1>4, <1>5 DEF DedupInv

(* The insert: the first message under its key, or one the key is excused  *)
(* for.                                                                    *)
LEMMA DedupCreate ==
    ASSUME TypeOK, DedupInv, NEW c \in Callers, Create(c)
    PROVE  DedupInv'
<1> DEFINE n == Len(store) + 1
           e == Dedup(c)
           to == IF req[c].key = NoKey THEN "publishing" ELSE "marking"
           r == [req[c] EXCEPT !.at = to, !.msg = n]
<1>0. req \in [Callers -> Request] /\ req[c] \in Request /\ req[c].key \in Keys \cup {NoKey}
  BY DEF TypeOK, Request
<1>1. /\ req[c].at = "creating" /\ store' = Append(store, Row(c)) /\ UNCHANGED <<dedup, lapsed>>
      /\ excused \subseteq excused'
      /\ \/ req' = [req EXCEPT ![c] = r]
         \/ req' = [req EXCEPT ![c] = Idle] /\ Excuse(c)
  BY DEF Create, Row, Excuse
<1>2. /\ to \in {"publishing", "marking"} /\ (to = "marking" => req[c].key \in Keys)
      /\ (req[c].key \in Keys => to = "marking")
  BY <1>0, MessagesAssumption
<1> HIDE DEF n, to
<1>3. r.at = to /\ r.key = req[c].key
  BY <1>0 DEF Request
<1> HIDE DEF r
<1>4. /\ req'[c] = r \/ (req'[c] = Idle /\ Excuse(c))
      /\ \A b \in Callers : b # c => req'[b] = req[b]
  BY <1>0, <1>1
<1>5. KeysKnown'
  <2>1. req'[c].at = "marking" => req'[c].key \in Keys
    BY <1>2, <1>3, <1>4, IdleType
  <2> QED BY <1>4, <2>1 DEF DedupInv, KeysKnown
<1>6. ASSUME NEW d \in (Users \X Keys) \ (excused' \cup lapsed') PROVE Owed(d)'
  <2>1. Owed(d) /\ dedup'[d] = dedup[d]
    BY <1>1, <1>6 DEF DedupInv
  <2>2. Copies(d)' = Copies(d) \cup (IF e = d THEN {n} ELSE {})
    BY <1>1, CopiesGrow DEF n
  <2>3. \A b \in Callers : b # c => req'[b] = req[b] /\ Dedup(b)' = Dedup(b)
    BY <1>4 DEF Dedup
  <2>4. CASE e = d
    <3>1. req[c].key \in Keys
      BY <1>6, <2>4 DEF Dedup
    <3>2. ~Excuse(c)
      BY <1>6, <2>4 DEF Excuse
    <3>3. req'[c].at = "marking" /\ Dedup(c)' = d
      BY <1>2, <1>3, <1>4, <2>4, <3>1, <3>2 DEF Dedup
    <3>4. Copies(d) = {} /\ Sending(c, d)
      BY <1>1, <2>1, <2>4 DEF Owed, Sending
    <3>5. Copies(d)' = {n}
      BY <2>2, <2>4, <3>4
    <3>6. ASSUME NEW b \in Callers, b # c PROVE ~Sending(b, d)'
      <4>1. ~Sending(b, d)
        BY <2>1, <3>4, <3>6 DEF Owed
      <4> QED BY <2>3, <3>6, <4>1 DEF Sending
    <3>7. \A b \in Callers : (req'[b].at = "creating" /\ Dedup(b)' = d) => FALSE
      BY <3>3, <3>6 DEF Sending
    <3>8. Marking(c, d)'
      BY <3>3 DEF Marking
    <3> QED BY <3>5, <3>6, <3>7, <3>8 DEF Owed
  <2>5. CASE e # d
    <3>1. Copies(d)' = Copies(d)
      BY <2>2, <2>5
    <3>2. Dedup(c)' = e \/ req'[c].at = "idle"
      BY <1>3, <1>4, IdleType DEF Dedup
    <3>3. ASSUME NEW b \in Callers
          PROVE  /\ Sending(b, d)' => Sending(b, d)
                 /\ Marking(b, d) => Marking(b, d)'
                 /\ req'[b].at = "creating" /\ Dedup(b)' = d => req[b].at = "creating" /\ Dedup(b) = d
      <4>1. CASE b = c
        BY <1>1, <2>5, <3>2, <4>1 DEF Sending, Marking
      <4>2. CASE b # c
        BY <2>3, <4>2 DEF Sending, Marking
      <4> QED BY <4>1, <4>2
    <3> QED BY <2>1, <3>1, <3>3, OwedStays
  <2> QED BY <2>4, <2>5
<1> QED BY <1>5, <1>6 DEF DedupInv

(* The SET, which takes the key over from its caller.                      *)
LEMMA DedupMark ==
    ASSUME TypeOK, DedupInv, NEW c \in Callers, markDedup(c)
    PROVE  DedupInv'
<1> DEFINE e == Dedup(c)
           r == [req[c] EXCEPT !.at = "publishing"]
<1>0. req \in [Callers -> Request] /\ req[c] \in Request
      /\ dedup \in [Users \X Keys -> 0..MaxMessages]
  BY DEF TypeOK
<1>1. /\ req[c].at = "marking" /\ req' = [req EXCEPT ![c] = r] /\ UNCHANGED <<store, lapsed>>
      /\ excused \subseteq excused'
      /\ \/ dedup' = [dedup EXCEPT ![e] = req[c].msg]
         \/ UNCHANGED dedup /\ Excuse(c)
  BY DEF markDedup, Excuse
<1>2. r.at = "publishing" /\ r.key = req[c].key
  BY <1>0, MoveType
<1> HIDE DEF r
<1>3. \A b \in Callers : req'[b] = IF b = c THEN r ELSE req[b]
  BY <1>0, <1>1
<1>4. e \in Users \X Keys
  BY <1>1, MessagesAssumption DEF DedupInv, KeysKnown, Dedup
<1>5. req[c].msg # 0
  <2>1. req[c].msg \in Stored
    BY <1>1, TypeParts DEF ReqOK
  <2>2. Len(store) \in Nat
    BY TypeParts, LenProperties DEF DataOK
  <2> QED BY <2>1, <2>2 DEF Stored
<1>6. \A d : Copies(d)' = Copies(d)
  BY <1>1 DEF Copies, Stored
<1>7. CASE UNCHANGED dedup /\ Excuse(c)
  <2>1. e \in excused'
    BY <1>4, <1>7 DEF Excuse
  <2> QED BY <1>1, <1>2, <1>6, <1>7, <2>1, DedupQuiet
<1>8. CASE dedup' = [dedup EXCEPT ![e] = req[c].msg]
  <2>1. KeysKnown'
    BY <1>2, <1>3 DEF DedupInv, KeysKnown
  <2>2. ASSUME NEW d \in (Users \X Keys) \ (excused' \cup lapsed') PROVE Owed(d)'
    <3>1. Owed(d) /\ dedup'[d] = IF d = e THEN req[c].msg ELSE dedup[d]
      BY <1>0, <1>1, <1>8, <2>2 DEF DedupInv
    <3>2. \A b \in Callers : b # c => req'[b] = req[b] /\ Dedup(b)' = Dedup(b)
      BY <1>3 DEF Dedup
    <3>3. ASSUME NEW b \in Callers
          PROVE  /\ Sending(b, d)' => Sending(b, d)
                 /\ req'[b].at = "creating" /\ Dedup(b)' = d => req[b].at = "creating" /\ Dedup(b) = d
      <4>1. CASE b = c
        BY <1>2, <1>3, <4>1 DEF Sending
      <4>2. CASE b # c
        BY <3>2, <4>2 DEF Sending
      <4> QED BY <4>1, <4>2
    <3>4. CASE d = e
      <4>1. dedup'[d] # 0
        BY <1>5, <3>1, <3>4
      <4> QED BY <1>6, <3>1, <3>3, <4>1 DEF Owed
    <3>5. CASE d # e
      <4>1. ASSUME NEW b \in Callers, Marking(b, d) PROVE Marking(b, d)'
        <5>1. b # c
          BY <3>5, <4>1 DEF Marking
        <5> QED BY <3>2, <4>1, <5>1 DEF Marking
      <4> QED BY <1>6, <3>1, <3>3, <3>5, <4>1, OwedStays
    <3> QED BY <3>4, <3>5
  <2> QED BY <2>1, <2>2 DEF DedupInv
<1> QED BY <1>1, <1>7, <1>8

LEMMA DedupStep == TypeOK /\ DedupInv /\ [Next]_vars => DedupInv'
<1> SUFFICES ASSUME TypeOK, DedupInv, [Next]_vars PROVE DedupInv'
  OBVIOUS
<1>0. ReqOK /\ DataOK /\ \A c \in Callers : req[c] \in Request
  BY TypeParts DEF ReqOK
<1>1. ASSUME UNCHANGED store PROVE \A d : Copies(d)' = Copies(d)
  BY <1>1 DEF Copies, Stored
<1>2. ASSUME NEW c \in Callers, Arrives(c), ~\E k \in Keys \cup {NoKey} : SendMessage(c, k) PROVE DedupInv'
  <2>1. \A m : [Idle EXCEPT !.at = "deleting", !.msg = m].at = "deleting"
               /\ [Idle EXCEPT !.at = "adding", !.msg = m].at = "adding"
               /\ [Idle EXCEPT !.at = "removing", !.msg = m].at = "removing"
               /\ \A S : [Idle EXCEPT !.at = "editing", !.msg = m, !.snap = S].at = "editing"
    BY DEF Idle
  <2>2. ASSUME NEW m \in Stored, EditMessage(c, m) \/ DeleteMessage(c, m)
                                 \/ \E op \in {"add", "remove"} : React(c, m, op)
        PROVE  /\ UNCHANGED <<store, dedup, lapsed, excused>> /\ req[c] = Idle
               /\ \E r : req' = [req EXCEPT ![c] = r] /\ r.at \in {"editing", "deleting", "adding", "removing"}
    <3>1. UNCHANGED <<store, dedup, lapsed, excused>> /\ req[c] = Idle
      BY <2>2 DEF EditMessage, DeleteMessage, React, Begin
    <3>2. CASE EditMessage(c, m)
      <4> DEFINE r == [Idle EXCEPT !.at = "editing", !.msg = m, !.snap = store[m].reactions]
      <4>1. req' = [req EXCEPT ![c] = r] /\ r.at = "editing"
        BY <2>1, <3>2 DEF EditMessage, Begin
      <4> HIDE DEF r
      <4> QED BY <3>1, <4>1
    <3>3. ASSUME NEW a \in {"deleting", "adding", "removing"},
                 req' = [req EXCEPT ![c] = [Idle EXCEPT !.at = a, !.msg = m]]
          PROVE  \E r : req' = [req EXCEPT ![c] = r] /\ r.at \in {"editing", "deleting", "adding", "removing"}
      <4> DEFINE r == [Idle EXCEPT !.at = a, !.msg = m]
      <4>1. req' = [req EXCEPT ![c] = r] /\ r.at = a
        BY <3>3 DEF Idle
      <4> HIDE DEF r
      <4> QED BY <4>1
    <3>4. CASE DeleteMessage(c, m)
      BY <3>1, <3>3, <3>4 DEF DeleteMessage, Begin
    <3>5. CASE \E op \in {"add", "remove"} : React(c, m, op)
      BY <3>1, <3>3, <3>5 DEF React, Begin
    <3> QED BY <2>2, <3>2, <3>4, <3>5
  <2>3. PICK r : /\ UNCHANGED <<store, dedup, lapsed, excused>> /\ req[c] = Idle
                 /\ req' = [req EXCEPT ![c] = r] /\ r.at \in {"editing", "deleting", "adding", "removing"}
    BY <1>2, <2>2 DEF Arrives
  <2> QED BY <1>1, <2>3, DedupQuiet, IdleType
<1>3. ASSUME NEW c \in Callers, PublishNew(c) \/ PublishUpdate(c) \/ Reject(c) PROVE DedupInv'
  <2>1. /\ req' = [req EXCEPT ![c] = Idle] /\ UNCHANGED <<store, dedup, lapsed, excused>>
        /\ req[c].at # "marking"
    BY <1>3 DEF PublishNew, PublishUpdate, Reject
  <2> QED BY <1>1, <2>1, DedupQuiet, IdleType
<1>4. ASSUME NEW c \in Callers, Abandon(c) PROVE DedupInv'
  <2>1. /\ req' = [req EXCEPT ![c] = Idle] /\ UNCHANGED <<store, dedup, lapsed>>
        /\ IF req[c].at = "marking" THEN Excuse(c) ELSE UNCHANGED excused
    BY <1>4 DEF Abandon
  <2>2. req[c].at = "marking" => Dedup(c) \in Users \X Keys
    BY MessagesAssumption DEF DedupInv, KeysKnown, Dedup
  <2>3. excused \subseteq excused' /\ (req[c].at = "marking" => Dedup(c) \in excused')
    BY <2>1, <2>2 DEF Excuse
  <2> QED BY <1>1, <2>1, <2>3, DedupQuiet, IdleType
<1>5. ASSUME NEW c \in Callers, Update(c) \/ Delete(c) \/ SelectForUpdate(c) \/ UpdateReactions(c)
      PROVE  DedupInv'
  <2> DEFINE to == IF req[c].at = "adding" THEN "addLocked" ELSE "removeLocked"
             moved == [req[c] EXCEPT !.at = "updating"]
             locked == [req[c] EXCEPT !.at = to, !.snap = store[req[c].msg].reactions]
  <2>1. moved.at = "updating"
    BY <1>0, MoveType
  <2>2. locked.at \in {"addLocked", "removeLocked"}
    <3>1. to \in {"addLocked", "removeLocked"}
      OBVIOUS
    <3> HIDE DEF to
    <3>2. locked.at = to
      BY <1>0 DEF Request
    <3> QED BY <3>1, <3>2
  <2>3. /\ UNCHANGED <<dedup, lapsed, excused>> /\ req[c].at \notin {"idle", "creating", "marking"}
        /\ \/ req' = [req EXCEPT ![c] = moved] \/ req' = [req EXCEPT ![c] = locked]
           \/ req' = [req EXCEPT ![c] = Idle]
    BY <1>5 DEF Update, Delete, SelectForUpdate, UpdateReactions
  <2>4. \/ UNCHANGED store
        \/ store' = [store EXCEPT ![req[c].msg] = Edited(c)]
        \/ store' = [store EXCEPT ![req[c].msg] = Reacted(c)]
        \/ store' = [store EXCEPT ![req[c].msg] = Deleted(c)]
    BY <1>5 DEF Update, Delete, SelectForUpdate, UpdateReactions, Edited, Reacted, Deleted, Apply
  <2>5. req[c].msg \in Stored
    BY <1>0, <2>3 DEF ReqOK
  <2>6. \A d : Copies(d)' = Copies(d)
    BY <2>4, <2>5, CopiesStay
  <2> HIDE DEF moved, locked
  <2> QED BY <2>1, <2>2, <2>3, <2>6, DedupQuiet, IdleType
<1>6. ASSUME NEW e \in Users \X Keys, DedupExpires(e) PROVE DedupInv'
  <2>1. /\ UNCHANGED <<store, req, excused>> /\ lapsed' = lapsed \cup {e}
        /\ \A d \in Users \X Keys : d # e => dedup'[d] = dedup[d]
    BY <1>0, <1>6 DEF DedupExpires, DataOK
  <2>2. ASSUME NEW d \in (Users \X Keys) \ (excused' \cup lapsed') PROVE Owed(d)'
    <3>1. Owed(d) /\ dedup'[d] = dedup[d]
      BY <2>1, <2>2 DEF DedupInv
    <3>2. Copies(d)' = Copies(d)
      BY <1>1, <2>1
    <3>3. \A b \in Callers : req'[b] = req[b] /\ Dedup(b)' = Dedup(b)
      BY <2>1 DEF Dedup
    <3> QED BY <3>1, <3>2, <3>3 DEF Owed, Sending, Marking
  <2>3. KeysKnown'
    BY <2>1 DEF DedupInv, KeysKnown
  <2> QED BY <2>2, <2>3 DEF DedupInv
<1>7. CASE UNCHANGED vars
  <2>1. UNCHANGED <<store, req, excused, lapsed, dedup>>
    BY <1>7 DEF vars
  <2>2. ASSUME NEW d \in (Users \X Keys) \ (excused' \cup lapsed') PROVE Owed(d)'
    <3>1. Owed(d) /\ dedup'[d] = dedup[d] /\ Copies(d)' = Copies(d)
      BY <1>1, <2>1, <2>2 DEF DedupInv
    <3>2. \A b \in Callers : req'[b] = req[b] /\ Dedup(b)' = Dedup(b)
      BY <2>1 DEF Dedup
    <3> QED BY <3>1, <3>2 DEF Owed, Sending, Marking
  <2>3. KeysKnown'
    BY <2>1 DEF DedupInv, KeysKnown
  <2> QED BY <2>2, <2>3 DEF DedupInv
<1> QED BY <1>2, <1>3, <1>4, <1>5, <1>6, <1>7, DedupSend, DedupCreate, DedupMark DEF Next, Arrives

(* A client_id yields one message, for any number of connections, pods and *)
(* repetitions, but for overlapping sends, expired keys and lost steps.    *)
THEOREM DedupHolds == Spec => []DedupUnlessExcused
<1>1. Init => DedupInv
  <2> SUFFICES ASSUME Init PROVE DedupInv
    OBVIOUS
  <2>1. \A d : Copies(d) = {}
    BY DEF Init, Copies, Stored
  <2>2. \A c \in Callers : req[c].at = "idle"
    BY IdleType DEF Init
  <2> QED BY <2>1, <2>2 DEF DedupInv, KeysKnown, Owed, Sending, Marking
<1>2. DedupInv => DedupUnlessExcused
  <2> SUFFICES ASSUME DedupInv, NEW d \in (Users \X Keys) \ (excused \cup lapsed)
               PROVE  Cardinality(Copies(d)) <= 1
    BY DEF DedupUnlessExcused
  <2>1. \A m, n \in Copies(d) : m = n
    BY DEF DedupInv, Owed
  <2>2. CASE Copies(d) = {}
    BY <2>2, FS_EmptySet
  <2>3. CASE Copies(d) # {}
    <3>1. PICK m : m \in Copies(d)
      BY <2>3
    <3>2. Copies(d) = {m}
      BY <2>1, <3>1
    <3>3. Cardinality({m}) = 1
      BY FS_Singleton
    <3> QED BY <3>2, <3>3
  <2> QED BY <2>2, <2>3
<1> QED BY <1>1, <1>2, TypeInit, TypeStep, DedupStep, PTL DEF Spec
=============================================================================
