----------------------------- MODULE RoomsProofs -----------------------------
(***************************************************************************)
(* Proofs about a room: for any number of requests in progress and users,  *)
(* and any failures of Redis, the database and pods.                       *)
(***************************************************************************)
EXTENDS Rooms, FiniteSetTheorems, TLAPS

(* How many users there are, and how many of them can be active.           *)
LEMMA ActiveCount ==
    ASSUME NEW mem
    PROVE  /\ Cardinality(Users) \in Nat /\ Cardinality(Users) >= 1
           /\ Cardinality(Active(mem)) \in 0..Cardinality(Users)
<1>1. IsFiniteSet(Users) /\ Owner \in Users
  BY RoomsAssumption
<1>2. Cardinality(Users) \in Nat
  BY <1>1, FS_CardinalityType
<1>3. Cardinality(Users) # 0
  BY <1>1, FS_EmptySet
<1>4. Active(mem) \in SUBSET Users
  BY DEF Active
<1>5. Cardinality(Active(mem)) \in Nat /\ Cardinality(Active(mem)) <= Cardinality(Users)
  BY <1>1, <1>2, <1>4, FS_Subset, FS_CardinalityType
<1> QED
  BY <1>2, <1>3, <1>5

-----------------------------------------------------------------------------
(* Type correctness.  A transaction that has not reached the row of the    *)
(* room yet, and will, is one that counts.                                 *)
Counts == \A c \in Callers : req[c].at \in {"counting", "recounting"} => Recounts(c)

DataOK ==
    /\ member \in [Users -> {"never", "active", "left"}]
    /\ aged \subseteq Users /\ banned \subseteq Users
    /\ count \in 0..Cardinality(Users)
    /\ cache \subseteq 0..Cardinality(Users)
    /\ subscribers \subseteq Users
    /\ drifted \in BOOLEAN /\ stale \in BOOLEAN

LocksOK ==
    /\ rowLock \in [Users -> Callers \cup {Free}]
    /\ roomLock \in Callers \cup {Free}
    /\ \A c \in Callers, u \in Users :
         rowLock[u] = c <=> req[c].at \in InTx /\ req[c].user = u
    /\ \A c \in Callers : roomLock = c <=> req[c].at = "committing" /\ Recounts(c)

ReqOK == req \in [Callers -> Request]

LEMMA TypeParts ==
    /\ TypeOK <=> DataOK /\ LocksOK /\ ReqOK
    /\ TypeOK' <=> DataOK' /\ LocksOK' /\ ReqOK'
  BY DEF TypeOK, DataOK, LocksOK, ReqOK

LEMMA IdleType == Idle \in Request
<1>1. 0 \in 0..Cardinality(Users)
  BY ActiveCount
<1> QED
  BY <1>1, RoomsAssumption DEF Idle, Request

(* A step that changes the request of c alone, and not into or within a    *)
(* transaction, leaves the locks and the transactions alone.               *)
LEMMA OutsideTx ==
    ASSUME LocksOK, Counts, ReqOK, NEW c \in Callers, NEW r \in Request,
           req' = [req EXCEPT ![c] = r], UNCHANGED <<rowLock, roomLock>>,
           req[c].at \notin InTx, r.at \notin InTx
    PROVE  LocksOK' /\ Counts' /\ ReqOK'
<1>1. ReqOK' /\ \A d \in Callers : req'[d] = IF d = c THEN r ELSE req[d]
  BY DEF ReqOK
<1>2. Counts'
  BY <1>1 DEF Counts, Recounts, InTx
<1>3. LocksOK'
  BY <1>1 DEF LocksOK, Recounts, InTx
<1> QED
  BY <1>1, <1>2, <1>3

(* Rolling back, or any other way to end the request of c at once.         *)
LEMMA Releases ==
    ASSUME LocksOK, Counts, ReqOK, NEW c \in Callers, NEW r \in Request, r.at \notin InTx,
           rowLock' = Released(c), roomLock' = RoomReleased(c),
           ReqOK', req'[c] = r,
           \A d \in Callers \ {c} : req'[d].at = req[d].at /\ req'[d].user = req[d].user
                                    /\ req'[d].op = req[d].op /\ req'[d].old = req[d].old
    PROVE  LocksOK' /\ Counts'
<1>1. Counts'
  BY DEF Counts, Recounts, InTx
<1>2. rowLock' \in [Users -> Callers \cup {Free}] /\ roomLock' \in Callers \cup {Free}
  BY DEF LocksOK, Released, RoomReleased
<1>3. ASSUME NEW d \in Callers, NEW u \in Users
      PROVE  rowLock'[u] = d <=> req'[d].at \in InTx /\ req'[d].user = u
  <2>1. rowLock'[u] = IF rowLock[u] = c THEN Free ELSE rowLock[u]
    BY DEF Released
  <2>2. c # Free /\ d # Free
    BY RoomsAssumption
  <2> QED
    BY <2>1, <2>2 DEF LocksOK
<1>4. ASSUME NEW d \in Callers
      PROVE  roomLock' = d <=> req'[d].at = "committing" /\ Recounts(d)'
  <2>1. roomLock' = IF roomLock = c THEN Free ELSE roomLock
    BY DEF RoomReleased
  <2>2. c # Free /\ d # Free
    BY RoomsAssumption
  <2> QED
    BY <2>1, <2>2 DEF LocksOK, Recounts, InTx
<1> QED
  BY <1>1, <1>2, <1>3, <1>4 DEF LocksOK

(* The fields of a request can be set one by one.                          *)
LEMMA SetField ==
    ASSUME NEW r \in Request
    PROVE  /\ \A v \in BOOLEAN : [r EXCEPT !.raced = v] \in Request
           /\ \A a : a \in {"joining", "announcing"} \cup InTx =>
                /\ [r EXCEPT !.at = a] \in Request
                /\ \A v, w \in BOOLEAN : /\ [r EXCEPT !.at = a, !.raced = v] \in Request
                                         /\ [r EXCEPT !.at = a, !.old = v] \in Request
                                         /\ [r EXCEPT !.at = a, !.old = v, !.banSeen = w] \in Request
           /\ \A n \in 0..Cardinality(Users) : /\ [r EXCEPT !.at = "recounting", !.snap = n] \in Request
                                               /\ [r EXCEPT !.at = "filling", !.snap = n] \in Request
<1>1. ASSUME NEW v \in BOOLEAN PROVE [r EXCEPT !.raced = v] \in Request
  BY DEF Request
<1>2. ASSUME NEW a \in {"joining", "announcing"} \cup InTx PROVE [r EXCEPT !.at = a] \in Request
  BY DEF Request, InTx
<1>3. ASSUME NEW a \in {"joining", "announcing"} \cup InTx, NEW v \in BOOLEAN, NEW w \in BOOLEAN
      PROVE  /\ [r EXCEPT !.at = a, !.raced = v] \in Request
             /\ [r EXCEPT !.at = a, !.old = v] \in Request
             /\ [r EXCEPT !.at = a, !.old = v, !.banSeen = w] \in Request
  <2>1. [r EXCEPT !.at = a, !.raced = v] \in Request
    BY DEF Request, InTx
  <2>2. [r EXCEPT !.at = a, !.old = v] \in Request
    BY DEF Request, InTx
  <2>3. [r EXCEPT !.at = a, !.old = v, !.banSeen = w] \in Request
    BY DEF Request, InTx
  <2> QED BY <2>1, <2>2, <2>3
<1>4. ASSUME NEW n \in 0..Cardinality(Users)
      PROVE  /\ [r EXCEPT !.at = "recounting", !.snap = n] \in Request
             /\ [r EXCEPT !.at = "filling", !.snap = n] \in Request
  BY DEF Request, InTx
<1> QED
  BY <1>1, <1>2, <1>3, <1>4

LEMMA BeginType ==
    ASSUME NEW op \in {"join", "leave", "get"}, NEW u \in Users,
           NEW at \in {"checking", "leaving", "announcing", "missed"}
    PROVE  [Idle EXCEPT !.op = op, !.user = u, !.at = at, !.banSeen = u \in banned] \in Request
<1> DEFINE seen == u \in banned
<1>1. seen \in BOOLEAN
  OBVIOUS
<1> HIDE DEF seen
<1>2. [Idle EXCEPT !.op = op, !.user = u, !.at = at, !.banSeen = seen] \in Request
  BY <1>1, IdleType DEF Request
<1> QED
  BY <1>2 DEF seen

LEMMA RequestsType ==
    ASSUME TypeOK, Counts, NEW c \in Callers,
           \/ \E u \in Users : JoinRoom(c, u) \/ LeaveRoom(c, u)
           \/ GetByID(c) \/ CheckBan(c) \/ Invalidate(c) \/ Announce(c) \/ ReadRoom(c) \/ FillCache(c)
    PROVE  TypeOK' /\ Counts'
<1> USE TypeParts
<1>0. DataOK /\ LocksOK /\ ReqOK /\ req[c] \in Request
  BY DEF ReqOK
<1>1. ASSUME NEW op \in {"join", "leave", "get"}, NEW u \in Users,
             NEW at \in {"checking", "leaving", "announcing", "missed"},
             req[c] = Idle, Begin(c, op, u, at),
             UNCHANGED <<member, aged, banned, count, rowLock, roomLock, cache, subscribers,
                         drifted, stale>>
      PROVE  TypeOK' /\ Counts'
  <2> DEFINE r == [Idle EXCEPT !.op = op, !.user = u, !.at = at, !.banSeen = u \in banned]
  <2>1. r \in Request
    BY BeginType
  <2>2. r.at \notin InTx /\ req[c].at \notin InTx /\ req' = [req EXCEPT ![c] = r]
    BY <1>1 DEF Idle, InTx, Begin
  <2>3. LocksOK' /\ Counts' /\ ReqOK'
    <3> HIDE DEF r
    <3> QED BY <1>0, <1>1, <2>1, <2>2, OutsideTx
  <2>4. DataOK'
    BY <1>0, <1>1 DEF DataOK
  <2> QED BY <2>3, <2>4
<1>2. ASSUME NEW u \in Users, JoinRoom(c, u) PROVE TypeOK' /\ Counts'
  BY <1>1, <1>2 DEF JoinRoom
<1>3. ASSUME NEW u \in Users, LeaveRoom(c, u) PROVE TypeOK' /\ Counts'
  BY <1>1, <1>3 DEF LeaveRoom
<1>4. CASE GetByID(c)
  BY <1>1, <1>4, RoomsAssumption DEF GetByID
<1>5. ASSUME NEW r \in Request, req' = [req EXCEPT ![c] = r], req[c].at \notin InTx, r.at \notin InTx,
             UNCHANGED <<rowLock, roomLock>>, DataOK'
      PROVE  TypeOK' /\ Counts'
  BY <1>0, <1>5, OutsideTx
<1>6. CASE CheckBan(c)
  <2>1. DataOK' /\ UNCHANGED <<rowLock, roomLock>> /\ req[c].at \notin InTx
    BY <1>0, <1>6 DEF CheckBan, DataOK, InTx
  <2>2. PICK old \in BOOLEAN, seen \in BOOLEAN :
          \/ req' = [req EXCEPT ![c] = [req[c] EXCEPT !.at = "joining", !.old = old]]
          \/ req' = [req EXCEPT ![c] = [req[c] EXCEPT !.at = "joining", !.old = old, !.banSeen = seen]]
          \/ req' = [req EXCEPT ![c] = Idle]
    <3> DEFINE o == req[c].user \in aged
    <3>1. /\ o \in BOOLEAN /\ FALSE \in BOOLEAN
          /\ \/ req' = [req EXCEPT ![c].at = "joining", ![c].old = o]
             \/ req' = [req EXCEPT ![c].at = "joining", ![c].old = o, ![c].banSeen = FALSE]
             \/ req' = [req EXCEPT ![c] = Idle]
      BY <1>6 DEF CheckBan, End
    <3> HIDE DEF o
    <3> QED BY <3>1
  <2>3. [req[c] EXCEPT !.at = "joining", !.old = old].at = "joining"
        /\ [req[c] EXCEPT !.at = "joining", !.old = old, !.banSeen = seen].at = "joining"
        /\ Idle.at \notin InTx /\ "joining" \notin InTx
    BY <1>0 DEF InTx, Idle, Request
  <2> QED
    BY <1>0, <1>5, <2>1, <2>2, <2>3, SetField, IdleType
<1>7. CASE Invalidate(c)
  <2>1. DataOK' /\ UNCHANGED <<rowLock, roomLock>> /\ req[c].at \notin InTx
    BY <1>0, <1>7 DEF Invalidate, DataOK, InTx
  <2>2. req' = [req EXCEPT ![c] = [req[c] EXCEPT !.at = "announcing"]]
    BY <1>7 DEF Invalidate
  <2>3. [req[c] EXCEPT !.at = "announcing"].at = "announcing" /\ "announcing" \notin InTx
    BY <1>0 DEF InTx, Request
  <2> QED BY <1>0, <1>5, <2>1, <2>2, <2>3, SetField
<1>8. CASE Announce(c)
  <2>1. DataOK' /\ UNCHANGED <<rowLock, roomLock>> /\ req[c].at \notin InTx
    BY <1>0, <1>8 DEF Announce, DataOK, InTx, Request
  <2> QED BY <1>5, <1>8, <2>1, IdleType DEF Announce, End, Idle, InTx
<1>9. CASE ReadRoom(c)
  <2>1. DataOK' /\ UNCHANGED <<rowLock, roomLock>> /\ req[c].at \notin InTx
    BY <1>0, <1>9 DEF ReadRoom, DataOK, InTx
  <2>2. req' = [req EXCEPT ![c] = [req[c] EXCEPT !.at = "filling", !.snap = count]]
    BY <1>9 DEF ReadRoom
  <2>3. [req[c] EXCEPT !.at = "filling", !.snap = count].at = "filling" /\ "filling" \notin InTx
    BY <1>0 DEF InTx, Request
  <2>4. count \in 0..Cardinality(Users)
    BY <1>0 DEF DataOK
  <2> QED BY <1>0, <1>5, <2>1, <2>2, <2>3, <2>4, SetField
<1>10. CASE FillCache(c)
  <2>1. DataOK' /\ UNCHANGED <<rowLock, roomLock>> /\ req[c].at \notin InTx
    BY <1>0, <1>10 DEF FillCache, DataOK, InTx, Request
  <2> QED BY <1>5, <1>10, <2>1, IdleType DEF FillCache, End, Idle, InTx
<1> QED
  BY <1>2, <1>3, <1>4, <1>6, <1>7, <1>8, <1>9, <1>10

LEMMA TransactionType ==
    ASSUME TypeOK, Counts, NEW c \in Callers, Transaction(c) \/ Abandon(c)
    PROVE  TypeOK' /\ Counts'
<1> USE TypeParts
<1>0. DataOK /\ LocksOK /\ ReqOK /\ req[c] \in Request /\ c # Free
  BY RoomsAssumption DEF ReqOK
<1>1. CASE WriteMember(c)
  <2> DEFINE u == req[c].user
             to == IF Recounts(c) THEN "counting" ELSE "committing"
  <2>1. DataOK' /\ u \in Users /\ rowLock[u] = Free /\ req[c].at \notin InTx
    BY <1>0, <1>1 DEF WriteMember, DataOK, Request, InTx
  <2>2. /\ req'[c].at = to /\ req'[c].user = u /\ req'[c].op = req[c].op /\ req'[c].old = req[c].old
        /\ \A d \in Callers \ {c} : /\ req'[d].at = req[d].at /\ req'[d].user = req[d].user
                                    /\ req'[d].op = req[d].op /\ req'[d].old = req[d].old
        /\ req' \in [Callers -> Request]
    <3>1. ASSUME NEW d \in Callers
          PROVE  req'[d] \in Request /\ req'[d].user = req[d].user /\ req'[d].op = req[d].op
                 /\ req'[d].old = req[d].old /\ req'[d].at = IF d = c THEN to ELSE req[d].at
      <4>1. req[d] \in Request /\ to \in InTx
        BY <1>0 DEF ReqOK, InTx
      <4>2. PICK v \in BOOLEAN :
              req'[d] = IF d = c THEN [req[d] EXCEPT !.at = to, !.raced = v]
                        ELSE IF req'[d] = req[d] THEN req[d] ELSE [req[d] EXCEPT !.raced = v]
        BY <1>1 DEF WriteMember
      <4> HIDE DEF to
      <4>3. req'[d] \in Request
        BY <4>1, <4>2, SetField
      <4>4. /\ [req[d] EXCEPT !.at = to, !.raced = v].at = to
            /\ [req[d] EXCEPT !.at = to, !.raced = v].user = req[d].user
            /\ [req[d] EXCEPT !.at = to, !.raced = v].op = req[d].op
            /\ [req[d] EXCEPT !.at = to, !.raced = v].old = req[d].old
            /\ [req[d] EXCEPT !.raced = v].at = req[d].at
            /\ [req[d] EXCEPT !.raced = v].user = req[d].user
            /\ [req[d] EXCEPT !.raced = v].op = req[d].op
            /\ [req[d] EXCEPT !.raced = v].old = req[d].old
        BY <4>1 DEF Request
      <4> QED BY <4>2, <4>3, <4>4
    <3>2. DOMAIN req' = Callers /\ req' = [d \in Callers |-> req'[d]]
      BY <1>1 DEF WriteMember
    <3> QED BY <3>1, <3>2
  <2>3. rowLock' = [rowLock EXCEPT ![u] = c] /\ roomLock' = roomLock
    BY <1>1 DEF WriteMember
  <2> HIDE DEF u
  <2>4. Counts'
    BY <1>0, <2>2 DEF Counts, Recounts
  <2>5. LocksOK'
    <3>1. rowLock' \in [Users -> Callers \cup {Free}] /\ roomLock' \in Callers \cup {Free}
      BY <1>0, <2>1, <2>3 DEF LocksOK
    <3>2. \A d \in Callers, w \in Users :
            rowLock'[w] = d <=> req'[d].at \in InTx /\ req'[d].user = w
      BY <1>0, <2>1, <2>2, <2>3, RoomsAssumption DEF LocksOK, InTx
    <3>3. \A d \in Callers : roomLock' = d <=> req'[d].at = "committing" /\ Recounts(d)'
      BY <1>0, <2>1, <2>2, <2>3 DEF LocksOK, InTx, Recounts
    <3> QED BY <3>1, <3>2, <3>3 DEF LocksOK
  <2> QED BY <2>1, <2>2, <2>4, <2>5 DEF ReqOK
<1>2. CASE CountMembers(c)
  <2> DEFINE r == [req[c] EXCEPT !.at = "recounting", !.snap = Counted(c)]
  <2>1. Counted(c) \in 0..Cardinality(Users)
    BY ActiveCount DEF Counted
  <2>2. r \in Request /\ r.at = "recounting" /\ r.user = req[c].user /\ r.op = req[c].op /\ r.old = req[c].old
    <3>1. r \in Request
      BY <1>0, <2>1, SetField
    <3> QED BY <1>0, <3>1 DEF Request
  <2>3. req' = [req EXCEPT ![c] = r] /\ req[c].at = "counting" /\ UNCHANGED <<rowLock, roomLock>> /\ DataOK'
    BY <1>0, <1>2 DEF CountMembers, DataOK
  <2> HIDE DEF r
  <2>4. ReqOK' /\ \A d \in Callers : req'[d] = IF d = c THEN r ELSE req[d]
    BY <1>0, <2>2, <2>3 DEF ReqOK
  <2>5. Counts'
    BY <2>2, <2>3, <2>4 DEF Counts, Recounts
  <2>6. LocksOK'
    BY <1>0, <2>2, <2>3, <2>4 DEF LocksOK, Recounts, InTx
  <2> QED BY <2>3, <2>4, <2>5, <2>6
<1>3. CASE UpdateRoom(c)
  <2> DEFINE r == [req[c] EXCEPT !.at = "committing"]
  <2>1. r \in Request /\ r.at = "committing" /\ r.user = req[c].user /\ r.op = req[c].op /\ r.old = req[c].old
    <3>1. r \in Request
      BY <1>0, SetField DEF InTx
    <3> QED BY <1>0, <3>1 DEF Request
  <2>2. /\ req' = [req EXCEPT ![c] = r] /\ req[c].at = "recounting" /\ DataOK'
        /\ roomLock = Free /\ roomLock' = c /\ rowLock' = rowLock
    BY <1>0, <1>3 DEF UpdateRoom, DataOK
  <2> HIDE DEF r
  <2>3. ReqOK' /\ \A d \in Callers : req'[d] = IF d = c THEN r ELSE req[d]
    BY <1>0, <2>1, <2>2 DEF ReqOK
  <2>4. Counts'
    BY <2>1, <2>2, <2>3 DEF Counts, Recounts
  <2>5. LocksOK'
    BY <1>0, <2>1, <2>2, <2>3, RoomsAssumption DEF LocksOK, Recounts, InTx, Counts
  <2> QED BY <2>2, <2>3, <2>4, <2>5
<1>4. CASE Commit(c)
  <2> DEFINE r == [Idle EXCEPT !.op = req[c].op, !.user = req[c].user, !.at = "invalidating"]
  <2>1. r \in Request /\ r.at \notin InTx
    BY <1>0, IdleType DEF Request, Idle, InTx
  <2>2. DataOK'
    BY <1>0, <1>4 DEF Commit, Written, DataOK, Request
  <2>3. ASSUME NEW d \in Callers
        PROVE  req'[d] \in Request /\ (d # c => /\ req'[d].at = req[d].at /\ req'[d].user = req[d].user
                                                /\ req'[d].op = req[d].op /\ req'[d].old = req[d].old)
    <3>1. req[d] \in Request
      BY <1>0 DEF ReqOK
    <3>2. req'[d] = IF d = c THEN r ELSE IF req[d].at = "filling" THEN [req[d] EXCEPT !.raced = TRUE] ELSE req[d]
      BY <1>4 DEF Commit
    <3>3. /\ [req[d] EXCEPT !.raced = TRUE] \in Request
          /\ [req[d] EXCEPT !.raced = TRUE].at = req[d].at
          /\ [req[d] EXCEPT !.raced = TRUE].user = req[d].user
          /\ [req[d] EXCEPT !.raced = TRUE].op = req[d].op
          /\ [req[d] EXCEPT !.raced = TRUE].old = req[d].old
      BY <3>1 DEF Request
    <3> QED BY <2>1, <3>1, <3>2, <3>3
  <2>4. ReqOK' /\ req'[c] = r /\ rowLock' = Released(c) /\ roomLock' = RoomReleased(c)
    <3>1. req' = [d \in Callers |-> req'[d]] /\ req'[c] = r
      BY <1>4 DEF Commit
    <3> QED BY <1>4, <2>3, <3>1 DEF Commit, ReqOK
  <2> HIDE DEF r
  <2> QED BY <1>0, <2>1, <2>2, <2>3, <2>4, Releases
<1>5. CASE Abandon(c)
  <2>1. DataOK'
    BY <1>0, <1>5 DEF Abandon, DataOK
  <2>2. ReqOK' /\ \A d \in Callers : req'[d] = IF d = c THEN Idle ELSE req[d]
    BY <1>0, <1>5, IdleType DEF Abandon, End, ReqOK
  <2>3. Idle.at \notin InTx
    BY DEF Idle, InTx
  <2> QED BY <1>0, <1>5, <2>1, <2>2, <2>3, Releases, IdleType DEF Abandon
<1> QED
  BY <1>1, <1>2, <1>3, <1>4, <1>5 DEF Transaction

LEMMA TypeInit == Init => TypeOK /\ Counts
<1> SUFFICES ASSUME Init PROVE TypeOK /\ Counts
  OBVIOUS
<1>1. Cardinality(Users) \in Nat
  BY ActiveCount
<1>2. DataOK
  <2>1. drifted \in BOOLEAN /\ stale \in BOOLEAN
    BY Zenon DEF Init
  <2> QED BY <1>1, <2>1 DEF Init, DataOK
<1>3. ReqOK /\ Counts
  BY IdleType DEF Init, ReqOK, Counts, Idle
<1>4. LocksOK
  BY RoomsAssumption DEF Init, LocksOK, Idle, InTx
<1> QED BY <1>2, <1>3, <1>4, TypeParts

LEMMA TypeStep == TypeOK /\ Counts /\ [Next]_vars => TypeOK' /\ Counts'
<1> SUFFICES ASSUME TypeOK, Counts, [Next]_vars PROVE TypeOK' /\ Counts'
  OBVIOUS
<1>0. DataOK /\ LocksOK /\ ReqOK
  BY TypeParts
<1>1. ASSUME UNCHANGED <<rowLock, roomLock, req>>, DataOK' PROVE TypeOK' /\ Counts'
  <2>1. LocksOK' /\ ReqOK' /\ Counts'
    BY <1>0, <1>1 DEF LocksOK, ReqOK, Counts, Recounts
  <2> QED BY <1>1, <2>1, TypeParts
<1>2. CASE Create
  <2>1. DataOK'
    BY <1>0, <1>2, ActiveCount, RoomsAssumption DEF Create, DataOK
  <2> QED BY <1>1, <1>2, <2>1 DEF Create
<1>3. CASE CacheExpires
  <2>1. DataOK'
    BY <1>0, <1>3 DEF CacheExpires, DataOK
  <2> QED BY <1>1, <1>3, <2>1 DEF CacheExpires
<1>4. ASSUME NEW u \in Users, Ban(u) \/ Ages(u) PROVE TypeOK' /\ Counts'
  <2>1. DataOK'
    BY <1>0, <1>4 DEF Ban, Ages, DataOK
  <2> QED BY <1>1, <1>4, <2>1 DEF Ban, Ages
<1>5. CASE UNCHANGED vars
  <2>1. DataOK'
    BY <1>0, <1>5 DEF vars, DataOK
  <2> QED BY <1>1, <1>5, <2>1 DEF vars
<1> QED
  BY <1>2, <1>3, <1>4, <1>5, RequestsType, TransactionType DEF Next, Progress

(* Every value is in its range, and the rows that are locked are exactly   *)
(* those that open transactions have written, whatever fails.              *)
THEOREM TypeCorrect == Spec => []TypeOK
  BY TypeInit, TypeStep, PTL DEF Spec

-----------------------------------------------------------------------------
(* Every transaction takes the row of its member first and the row of the  *)
(* room last, so that of any set of requests one waits for nobody in it:   *)
(* one that is about to commit, else one that only the room keeps waiting, *)
(* else any.                                                               *)
THEOREM LocksNeverCross == Spec => []NoDeadlock
<1>1. TypeOK => NoDeadlock
  <2> SUFFICES ASSUME TypeOK, NEW S \in SUBSET Callers, S # {}
               PROVE  \E c \in S : WaitsFor(c) \cap S = {}
    BY DEF NoDeadlock
  <2>1. ASSUME NEW c \in S, req[c].at \notin {"joining", "leaving", "recounting"}
        PROVE  WaitsFor(c) = {}
    BY <2>1 DEF WaitsFor
  <2>2. ASSUME NEW c \in S, req[c].at = "recounting", NEW d \in WaitsFor(c)
        PROVE  req[d].at = "committing"
    BY <2>2 DEF WaitsFor, TypeOK
  <2>3. ASSUME NEW c \in S, req[c].at \in {"joining", "leaving"}, NEW d \in WaitsFor(c)
        PROVE  req[d].at \in InTx
    <3>1. req[c].user \in Users
      BY DEF TypeOK, Request
    <3> QED BY <2>3, <3>1 DEF WaitsFor, TypeOK
  <2>4. CASE \E c \in S : req[c].at \in {"counting", "committing"}
    BY <2>1, <2>4
  <2>5. CASE /\ ~\E c \in S : req[c].at \in {"counting", "committing"}
             /\ \E c \in S : req[c].at = "recounting"
    BY <2>2, <2>5
  <2>6. CASE ~\E c \in S : req[c].at \in InTx
    <3>1. PICK c \in S : TRUE
      OBVIOUS
    <3> QED BY <2>1, <2>3, <2>6, <3>1 DEF InTx
  <2> QED BY <2>4, <2>5, <2>6 DEF InTx
<1> QED
  BY <1>1, TypeCorrect, PTL

-----------------------------------------------------------------------------
(* The member count and the cached copy.                                   *)

(* Nothing has happened in a room that does not exist.                     *)
Begun ==
    /\ \A c \in Callers : req[c].at # "idle" => Exists
    /\ ~Exists => /\ \A u \in Users : member[u] = "never"
                  /\ count = 0 /\ cache = {}

(* Two transactions that are open at once know that they overlap.          *)
OverlapKnown ==
    \A c, d \in Callers : c # d /\ req[c].at \in InTx /\ req[d].at \in InTx => req[c].raced

(* What a transaction has counted, and what a reader has read, is still    *)
(* true unless another transaction overlapped or committed.                *)
SnapsFresh ==
    \A c \in Callers :
        /\ req[c].at \in {"recounting", "committing"} /\ Recounts(c) =>
             req[c].raced \/ req[c].snap = Counted(c)
        /\ req[c].at = "filling" => req[c].raced \/ req[c].snap = count

CountInv == Begun /\ OverlapKnown /\ SnapsFresh /\ CountExact /\ CacheFresh

(* A step of c that is no step of a transaction, and does not read or fill *)
(* the cache, and changes neither member nor count.                        *)
LEMMA OutsideCount ==
    ASSUME TypeOK, Begun, OverlapKnown, SnapsFresh, CountExact, NEW c \in Callers, NEW r,
           req' = [req EXCEPT ![c] = r], UNCHANGED <<member, count, drifted>>,
           r.at \notin InTx \cup {"filling"}, r.at # "idle" => Exists, cache' # {} => Exists
    PROVE  Begun' /\ OverlapKnown' /\ SnapsFresh' /\ CountExact'
<1>1. \A d \in Callers : req'[d] = IF d = c THEN r ELSE req[d]
  BY DEF TypeOK
<1>2. Begun'
  BY <1>1 DEF Begun, Exists
<1>3. OverlapKnown'
  BY <1>1 DEF OverlapKnown
<1>4. SnapsFresh'
  <2>1. ASSUME NEW d \in Callers, d # c
        PROVE  Recounts(d)' = Recounts(d) /\ Counted(d)' = Counted(d) /\ req'[d] = req[d]
    BY <1>1, <2>1 DEF Recounts, Counted, Written
  <2> QED BY <1>1, <2>1 DEF SnapsFresh, InTx
<1>5. CountExact'
  BY DEF CountExact
<1> QED
  BY <1>2, <1>3, <1>4, <1>5

LEMMA RequestsCount ==
    ASSUME TypeOK, Counts, CountInv, NEW c \in Callers,
           \/ \E u \in Users : JoinRoom(c, u) \/ LeaveRoom(c, u)
           \/ GetByID(c) \/ CheckBan(c) \/ Invalidate(c) \/ Announce(c) \/ ReadRoom(c) \/ FillCache(c)
           \/ Abandon(c)
    PROVE  CountInv'
<1>0. /\ Begun /\ OverlapKnown /\ SnapsFresh /\ CountExact /\ CacheFresh
      /\ req \in [Callers -> Request] /\ req[c] \in Request
  BY DEF CountInv, TypeOK
<1>1. ASSUME NEW op, NEW u, NEW at \in {"checking", "leaving", "announcing", "missed"},
             req[c] = Idle, Begin(c, op, u, at), Exists,
             UNCHANGED <<member, count, cache, drifted, stale>>
      PROVE  CountInv'
  <2> DEFINE r == [Idle EXCEPT !.op = op, !.user = u, !.at = at, !.banSeen = u \in banned]
  <2>1. r.at = at /\ req' = [req EXCEPT ![c] = r]
    BY <1>1 DEF Begin, Idle
  <2> HIDE DEF r
  <2>2. Begun' /\ OverlapKnown' /\ SnapsFresh' /\ CountExact'
    BY <1>0, <1>1, <2>1, OutsideCount DEF InTx
  <2>3. CacheFresh'
    BY <1>0, <1>1, <2>1 DEF CacheFresh, Idle
  <2> QED BY <2>2, <2>3 DEF CountInv
<1>2. ASSUME NEW u \in Users, JoinRoom(c, u) PROVE CountInv'
  BY <1>1, <1>2 DEF JoinRoom
<1>3. ASSUME NEW u \in Users, LeaveRoom(c, u) PROVE CountInv'
  <2>1. Exists
    BY <1>0, <1>3 DEF LeaveRoom, Begun
  <2> QED BY <1>1, <1>3, <2>1 DEF LeaveRoom
<1>4. CASE GetByID(c)
  BY <1>1, <1>4 DEF GetByID
<1>5. ASSUME NEW r, req' = [req EXCEPT ![c] = r], UNCHANGED <<member, count, drifted>>,
             r.at \in {"joining", "announcing", "idle"}, req[c].at # "idle", CacheFresh'
      PROVE  CountInv'
  <2>1. Exists
    BY <1>0, <1>5 DEF Begun
  <2>2. Begun' /\ OverlapKnown' /\ SnapsFresh' /\ CountExact'
    BY <1>0, <1>5, <2>1, OutsideCount DEF InTx
  <2> QED BY <1>5, <2>2 DEF CountInv
<1>6. CASE CheckBan(c)
  <2>1. PICK r : req' = [req EXCEPT ![c] = r] /\ r.at \in {"joining", "idle"}
    <3> DEFINE o == req[c].user \in aged
    <3>1. \/ req' = [req EXCEPT ![c] = [req[c] EXCEPT !.at = "joining", !.old = o]]
          \/ req' = [req EXCEPT ![c] = [req[c] EXCEPT !.at = "joining", !.old = o, !.banSeen = FALSE]]
          \/ req' = [req EXCEPT ![c] = Idle]
      BY <1>6 DEF CheckBan, End
    <3> HIDE DEF o
    <3>2. /\ [req[c] EXCEPT !.at = "joining", !.old = o].at = "joining"
          /\ [req[c] EXCEPT !.at = "joining", !.old = o, !.banSeen = FALSE].at = "joining"
          /\ Idle.at = "idle"
      BY <1>0 DEF Request, Idle
    <3> QED BY <3>1, <3>2
  <2>2. UNCHANGED <<member, count, cache, drifted, stale>> /\ req[c].at = "checking"
    BY <1>6 DEF CheckBan
  <2>3. CacheFresh'
    BY <1>0, <2>1, <2>2 DEF CacheFresh
  <2> QED BY <1>5, <2>1, <2>2, <2>3
<1>7. CASE Invalidate(c)
  <2> DEFINE r == [req[c] EXCEPT !.at = "announcing"]
  <2>1. req' = [req EXCEPT ![c] = r] /\ r.at = "announcing" /\ req[c].at = "invalidating"
        /\ UNCHANGED <<member, count, drifted>>
    BY <1>0, <1>7 DEF Invalidate, Request
  <2>2. CacheFresh'
    BY <1>7 DEF Invalidate, CacheFresh
  <2> HIDE DEF r
  <2> QED BY <1>5, <2>1, <2>2
<1>8. CASE Announce(c)
  <2>1. CacheFresh'
    BY <1>0, <1>8 DEF Announce, End, CacheFresh
  <2> QED BY <1>5, <1>8, <2>1 DEF Announce, End, Idle
<1>9. CASE ReadRoom(c)
  <2> DEFINE r == [req[c] EXCEPT !.at = "filling", !.snap = count]
  <2>1. /\ req' = [req EXCEPT ![c] = r] /\ r.at = "filling" /\ r.snap = count /\ req[c].at = "missed"
        /\ UNCHANGED <<member, count, cache, drifted, stale>>
    BY <1>0, <1>9 DEF ReadRoom, Request
  <2> HIDE DEF r
  <2>2. \A d \in Callers : req'[d] = IF d = c THEN r ELSE req[d]
    BY <1>0, <2>1
  <2>3. Begun'
    BY <1>0, <2>1, <2>2 DEF Begun, Exists
  <2>4. OverlapKnown'
    BY <1>0, <2>1, <2>2 DEF OverlapKnown, InTx
  <2>5. SnapsFresh'
    <3>1. ASSUME NEW d \in Callers, d # c
          PROVE  Recounts(d)' = Recounts(d) /\ Counted(d)' = Counted(d) /\ req'[d] = req[d]
      BY <2>1, <2>2, <3>1 DEF Recounts, Counted, Written
    <3> QED BY <1>0, <2>1, <2>2, <3>1 DEF SnapsFresh
  <2>6. CountExact' /\ CacheFresh'
    BY <1>0, <2>1, <2>2 DEF CountExact, CacheFresh
  <2> QED BY <2>3, <2>4, <2>5, <2>6 DEF CountInv
<1>10. CASE FillCache(c)
  <2>1. CacheFresh'
    <3>1. CASE cache' = {req[c].snap} /\ stale' = req[c].raced
      BY <1>0, <1>10, <3>1 DEF FillCache, CacheFresh, SnapsFresh
    <3>2. CASE UNCHANGED <<cache, stale>>
      BY <1>0, <1>10, <3>2 DEF FillCache, End, CacheFresh
    <3> QED BY <1>10, <3>1, <3>2 DEF FillCache
  <2> QED BY <1>5, <1>10, <2>1 DEF FillCache, End, Idle
<1>11. CASE Abandon(c)
  <2>0. req' = [req EXCEPT ![c] = Idle] /\ Idle.at = "idle" /\ UNCHANGED <<member, count, cache, drifted>>
    BY <1>11 DEF Abandon, End, Idle
  <2>1. CacheFresh'
    <3>1. CASE req[c].at = "invalidating" /\ cache # {}
      BY <1>11, <3>1 DEF Abandon, CacheFresh
    <3>2. CASE cache = {}
      BY <2>0, <3>2 DEF CacheFresh
    <3>3. CASE req[c].at # "invalidating"
      BY <1>0, <1>11, <2>0, <3>3 DEF Abandon, CacheFresh
    <3> QED BY <3>1, <3>2, <3>3
  <2>2. cache # {} => Exists
    BY <1>0 DEF Begun
  <2>3. Begun' /\ OverlapKnown' /\ SnapsFresh' /\ CountExact'
    BY <1>0, <2>0, <2>2, OutsideCount DEF InTx
  <2> QED BY <2>1, <2>3 DEF CountInv
<1> QED
  BY <1>2, <1>3, <1>4, <1>6, <1>7, <1>8, <1>9, <1>10, <1>11

(* What a request will have counted depends on its fields and the table.   *)
LEMMA SameCount ==
    ASSUME NEW d \in Callers, member' = member,
           req'[d].op = req[d].op, req'[d].user = req[d].user, req'[d].old = req[d].old
    PROVE  Recounts(d)' = Recounts(d) /\ Counted(d)' = Counted(d)
<1>1. Recounts(d)' = Recounts(d)
  BY DEF Recounts
<1>2. Written(d)' = Written(d)
  BY DEF Written
<1>3. Counted(d)' = Counted(d)
  BY <1>2 DEF Counted, Active
<1> QED
  BY <1>1, <1>3

LEMMA TransactionCount ==
    ASSUME TypeOK, Counts, CountInv, NEW c \in Callers, Transaction(c)
    PROVE  CountInv'
<1>0. /\ Begun /\ OverlapKnown /\ SnapsFresh /\ CountExact /\ CacheFresh
      /\ req \in [Callers -> Request] /\ req[c] \in Request
  BY DEF CountInv, TypeOK
<1>1. CASE WriteMember(c)
  <2> DEFINE others == {d \in Callers \ {c} : req[d].at \in InTx}
             to == IF Recounts(c) THEN "counting" ELSE "committing"
             crowded == others # {}
  <2>1. /\ UNCHANGED <<member, count, cache, drifted, stale>> /\ req[c].at \in {"joining", "leaving"}
        /\ req' = [d \in Callers |->
                     IF d = c THEN [req[d] EXCEPT !.at = to, !.raced = crowded]
                     ELSE IF d \in others THEN [req[d] EXCEPT !.raced = TRUE] ELSE req[d]]
    BY <1>1 DEF WriteMember
  <2> HIDE DEF crowded
  <2>2. ASSUME NEW d \in Callers
        PROVE  /\ req'[d].at = IF d = c THEN to ELSE req[d].at
               /\ req'[d].op = req[d].op /\ req'[d].user = req[d].user /\ req'[d].old = req[d].old
               /\ req'[d].snap = req[d].snap
               /\ d = c => req'[d].raced = crowded
               /\ d \in others => req'[d].raced
               /\ d # c /\ d \notin others => req'[d].raced = req[d].raced
    <3>1. req[d] \in Request
      BY <1>0
    <3> HIDE DEF to, others
    <3>2. /\ [req[d] EXCEPT !.at = to, !.raced = crowded].at = to
          /\ [req[d] EXCEPT !.at = to, !.raced = crowded].op = req[d].op
          /\ [req[d] EXCEPT !.at = to, !.raced = crowded].user = req[d].user
          /\ [req[d] EXCEPT !.at = to, !.raced = crowded].old = req[d].old
          /\ [req[d] EXCEPT !.at = to, !.raced = crowded].snap = req[d].snap
          /\ [req[d] EXCEPT !.at = to, !.raced = crowded].raced = crowded
      BY <3>1 DEF Request
    <3>3. /\ [req[d] EXCEPT !.raced = TRUE].at = req[d].at
          /\ [req[d] EXCEPT !.raced = TRUE].op = req[d].op
          /\ [req[d] EXCEPT !.raced = TRUE].user = req[d].user
          /\ [req[d] EXCEPT !.raced = TRUE].old = req[d].old
          /\ [req[d] EXCEPT !.raced = TRUE].snap = req[d].snap
          /\ [req[d] EXCEPT !.raced = TRUE].raced = TRUE
      BY <3>1 DEF Request
    <3>4. CASE d = c
      <4>1. req'[d] = [req[d] EXCEPT !.at = to, !.raced = crowded] /\ d \notin others
        BY <2>1, <3>4 DEF others
      <4> QED BY <3>2, <3>4, <4>1
    <3>5. CASE d # c /\ d \in others
      <4>1. req'[d] = [req[d] EXCEPT !.raced = TRUE]
        BY <2>1, <3>5
      <4> QED BY <3>3, <3>5, <4>1
    <3>6. CASE d # c /\ d \notin others
      <4>1. req'[d] = req[d]
        BY <2>1, <3>6
      <4> QED BY <3>6, <4>1
    <3> QED BY <3>4, <3>5, <3>6
  <2>3. Begun'
    BY <1>0, <2>1, <2>2 DEF Begun, Exists
  <2>4. OverlapKnown'
    <3> SUFFICES ASSUME NEW a \in Callers, NEW b \in Callers, a # b,
                        req'[a].at \in InTx, req'[b].at \in InTx
                 PROVE  req'[a].raced
      BY DEF OverlapKnown
    <3>1. CASE a = c
      BY <2>2, <3>1 DEF crowded
    <3>2. CASE a # c
      BY <2>2, <3>2
    <3> QED BY <3>1, <3>2
  <2>5. SnapsFresh'
    <3>1. ASSUME NEW d \in Callers
          PROVE  Recounts(d)' = Recounts(d) /\ Counted(d)' = Counted(d)
      BY <2>1, <2>2, SameCount
    <3> SUFFICES ASSUME NEW d \in Callers
                 PROVE  /\ req'[d].at \in {"recounting", "committing"} /\ Recounts(d)' =>
                             req'[d].raced \/ req'[d].snap = Counted(d)'
                        /\ req'[d].at = "filling" => req'[d].raced \/ req'[d].snap = count'
      BY DEF SnapsFresh
    <3>2. CASE d = c
      BY <2>2, <3>1, <3>2
    <3>3. CASE d \in others
      BY <2>2, <3>3 DEF InTx
    <3>4. CASE d # c /\ d \notin others
      <4>1. req'[d].at = req[d].at /\ req'[d].raced = req[d].raced /\ req'[d].snap = req[d].snap
            /\ req[d].at \notin InTx /\ count' = count
        BY <2>1, <2>2, <3>4
      <4> QED BY <1>0, <4>1 DEF SnapsFresh, InTx
    <3> QED BY <3>2, <3>3, <3>4
  <2>6. CountExact' /\ CacheFresh'
    <3>1. CountExact'
      BY <1>0, <2>1 DEF CountExact
    <3>2. CacheFresh'
      <4>1. ASSUME NEW d \in Callers, req[d].at = "invalidating" PROVE req'[d].at = "invalidating"
        BY <2>1, <2>2, <4>1
      <4> QED BY <1>0, <2>1, <4>1 DEF CacheFresh
    <3> QED BY <3>1, <3>2
  <2> QED BY <2>3, <2>4, <2>5, <2>6 DEF CountInv
<1>2. ASSUME NEW r, req' = [req EXCEPT ![c] = r],
             UNCHANGED <<member, count, cache, drifted, stale>>,
             req[c].at \in InTx, r.at \in {"recounting", "committing"}, r.raced = req[c].raced,
             r.op = req[c].op, r.user = req[c].user, r.old = req[c].old,
             r.raced \/ r.snap = Counted(c)
      PROVE  CountInv'
  <2>1. \A d \in Callers : req'[d] = IF d = c THEN r ELSE req[d]
    BY <1>0, <1>2
  <2>2. \A d \in Callers : Recounts(d)' = Recounts(d) /\ Counted(d)' = Counted(d)
    BY <1>2, <2>1, SameCount
  <2>3. Begun'
    BY <1>0, <1>2, <2>1 DEF Begun, Exists, InTx
  <2>4. OverlapKnown'
    BY <1>0, <1>2, <2>1 DEF OverlapKnown
  <2>5. SnapsFresh'
    BY <1>0, <1>2, <2>1, <2>2 DEF SnapsFresh
  <2>6. CountExact' /\ CacheFresh'
    BY <1>0, <1>2, <2>1 DEF CountExact, CacheFresh, InTx
  <2> QED BY <2>3, <2>4, <2>5, <2>6 DEF CountInv
<1>3. CASE CountMembers(c)
  <2> DEFINE r == [req[c] EXCEPT !.at = "recounting", !.snap = Counted(c)]
  <2>1. /\ r.at = "recounting" /\ r.raced = req[c].raced /\ r.op = req[c].op
        /\ r.user = req[c].user /\ r.old = req[c].old /\ r.snap = Counted(c)
    BY <1>0 DEF Request
  <2>2. /\ req' = [req EXCEPT ![c] = r] /\ req[c].at \in InTx
        /\ UNCHANGED <<member, count, cache, drifted, stale>>
    BY <1>3 DEF CountMembers, InTx
  <2> HIDE DEF r
  <2> QED BY <1>2, <2>1, <2>2
<1>4. CASE UpdateRoom(c)
  <2> DEFINE r == [req[c] EXCEPT !.at = "committing"]
  <2>1. /\ r.at = "committing" /\ r.raced = req[c].raced /\ r.op = req[c].op
        /\ r.user = req[c].user /\ r.old = req[c].old /\ r.snap = req[c].snap
    BY <1>0 DEF Request
  <2>2. /\ req' = [req EXCEPT ![c] = r] /\ req[c].at = "recounting"
        /\ UNCHANGED <<member, count, cache, drifted, stale>>
    BY <1>4 DEF UpdateRoom
  <2>3. Recounts(c)
    BY <2>2 DEF Counts
  <2>4. req[c].raced \/ req[c].snap = Counted(c)
    BY <1>0, <2>2, <2>3 DEF SnapsFresh
  <2> HIDE DEF r
  <2> QED BY <1>2, <2>1, <2>2, <2>4 DEF InTx
<1>5. CASE Commit(c)
  <2> DEFINE r == [Idle EXCEPT !.op = req[c].op, !.user = req[c].user, !.at = "invalidating"]
  <2>1. /\ r.at = "invalidating" /\ req[c].at = "committing"
        /\ member' = Written(c) /\ count' = (IF Recounts(c) THEN req[c].snap ELSE count)
        /\ drifted' = (req[c].raced \/ ~Recounts(c)) /\ UNCHANGED cache
        /\ req' = [d \in Callers |-> IF d = c THEN r
                                     ELSE IF req[d].at = "filling" THEN [req[d] EXCEPT !.raced = TRUE]
                                     ELSE req[d]]
    BY <1>5 DEF Commit, Idle
  <2> HIDE DEF r
  <2>2. ASSUME NEW d \in Callers, d # c
        PROVE  /\ req'[d].at = req[d].at /\ req'[d].op = req[d].op /\ req'[d].user = req[d].user
               /\ req'[d].old = req[d].old /\ req'[d].snap = req[d].snap
               /\ req'[d].raced = (req[d].raced \/ req[d].at = "filling")
    <3>1. req[d] \in Request
      BY <1>0
    <3>2. CASE req[d].at = "filling"
      <4>1. req'[d] = [req[d] EXCEPT !.raced = TRUE]
        BY <2>1, <2>2, <3>2
      <4> QED BY <3>1, <3>2, <4>1 DEF Request
    <3>3. CASE req[d].at # "filling"
      <4>1. req'[d] = req[d] /\ req[d].raced \in BOOLEAN
        BY <2>1, <2>2, <3>1, <3>3 DEF Request
      <4> QED BY <3>3, <4>1
    <3> QED BY <3>2, <3>3
  <2>3. req'[c] = r
    BY <2>1
  <2>4. Exists /\ Exists'
    <3>1. Exists
      BY <1>0, <2>1 DEF Begun
    <3> QED BY <2>1, <3>1, RoomsAssumption DEF TypeOK, Exists, Written
  <2>5. Begun'
    BY <2>4 DEF Begun
  <2>6. OverlapKnown'
    BY <1>0, <2>1, <2>2, <2>3 DEF OverlapKnown, InTx
  <2>7. SnapsFresh'
    <3>1. ASSUME NEW d \in Callers, d # c, req[d].at \in {"recounting", "committing"}
          PROVE  req'[d].raced
      <4>1. req[d].raced
        BY <1>0, <2>1, <3>1 DEF OverlapKnown, InTx
      <4> QED BY <2>2, <3>1, <4>1
    <3>2. ASSUME NEW d \in Callers, d # c, req[d].at = "filling" PROVE req'[d].raced
      BY <2>2, <3>2
    <3> QED BY <2>1, <2>2, <2>3, <3>1, <3>2 DEF SnapsFresh
  <2>8. CountExact'
    BY <1>0, <2>1 DEF CountExact, SnapsFresh, Counted
  <2>9. CacheFresh'
    BY <2>1, <2>3 DEF CacheFresh
  <2> QED BY <2>5, <2>6, <2>7, <2>8, <2>9 DEF CountInv
<1> QED
  BY <1>1, <1>3, <1>4, <1>5 DEF Transaction

(* CountInv is inductive.                                                  *)
THEOREM CountInvariant == Spec => []CountInv
<1>1. Init => CountInv
  <2> SUFFICES ASSUME Init PROVE CountInv
    OBVIOUS
  <2>1. Active(member) = {}
    BY DEF Init, Active
  <2>2. CountExact
    BY <2>1, FS_EmptySet DEF Init, CountExact
  <2> QED BY <2>2 DEF Init, CountInv, Begun, OverlapKnown, SnapsFresh, CacheFresh, Idle, InTx
<1>2. Init => TypeOK /\ Counts
  BY TypeInit
<1>3. TypeOK /\ Counts /\ CountInv /\ [Next]_vars => TypeOK' /\ Counts' /\ CountInv'
  <2> SUFFICES ASSUME TypeOK, Counts, CountInv, [Next]_vars PROVE CountInv'
    BY TypeStep
  <2>0. Begun /\ OverlapKnown /\ SnapsFresh /\ CountExact /\ CacheFresh
    BY DEF CountInv
  <2>1. CASE Create
    <3>1. /\ ~Exists /\ member' = [member EXCEPT ![Owner] = "active"] /\ count' = 1
          /\ UNCHANGED <<req, cache, drifted>>
      BY <2>1 DEF Create
    <3>2. \A d \in Callers : req[d].at = "idle"
      BY <2>0, <3>1 DEF Begun
    <3>3. cache' = {} /\ Exists'
      BY <2>0, <3>1, RoomsAssumption DEF Begun, Exists, TypeOK
    <3>4. Active(member') = {Owner}
      BY <2>0, <3>1, RoomsAssumption DEF Begun, Active, TypeOK
    <3>5. CountExact'
      BY <3>1, <3>4, FS_Singleton DEF CountExact
    <3> QED BY <3>1, <3>2, <3>3, <3>5 DEF CountInv, Begun, OverlapKnown, SnapsFresh, CacheFresh, InTx
  <2>2. ASSUME UNCHANGED <<req, member, count, drifted>>, cache' = {} \/ UNCHANGED <<cache, stale>>
        PROVE  CountInv'
    <3>1. \A d \in Callers : Recounts(d)' = Recounts(d) /\ Counted(d)' = Counted(d)
      BY <2>2 DEF Recounts, Counted, Written
    <3>2. SnapsFresh'
      BY <2>0, <2>2, <3>1 DEF SnapsFresh
    <3>3. Begun' /\ OverlapKnown' /\ CountExact'
      BY <2>0, <2>2 DEF Begun, OverlapKnown, CountExact, Exists
    <3>4. CacheFresh'
      BY <2>0, <2>2 DEF CacheFresh
    <3> QED BY <3>2, <3>3, <3>4 DEF CountInv
  <2>3. CASE CacheExpires
    BY <2>2, <2>3 DEF CacheExpires
  <2>4. ASSUME NEW u \in Users, Ban(u) \/ Ages(u) PROVE CountInv'
    BY <2>2, <2>4 DEF Ban, Ages
  <2>5. CASE UNCHANGED vars
    BY <2>2, <2>5 DEF vars
  <2> QED
    BY <2>1, <2>3, <2>4, <2>5, RequestsCount, TransactionCount DEF Next, Progress
<1> QED
  BY <1>1, <1>2, <1>3, PTL DEF Spec

(* member_count is exact whenever the transaction that committed last      *)
(* counted and overlapped no other, however many came before.              *)
THEOREM RoomCountExact == Spec => []CountExact
<1>1. CountInv => CountExact
  BY DEF CountInv
<1> QED
  BY <1>1, CountInvariant, PTL

(* The cached copy agrees with the table but for the known ways to be late.*)
THEOREM RoomCacheFresh == Spec => []CacheFresh
<1>1. CountInv => CacheFresh
  BY DEF CountInv
<1> QED
  BY <1>1, CountInvariant, PTL

-----------------------------------------------------------------------------
(* Bans.  Bans are never lifted, so the one that was there when a request  *)
(* began is found by CheckBan; a request past that check saw none, or the  *)
(* record could not be read.                                               *)
Decided == {"joining", "leaving"} \cup InTx
BanInv ==
    \A c \in Callers :
        /\ req[c].at = "checking" /\ req[c].banSeen => req[c].user \in banned
        /\ req[c].op = "join" /\ req[c].at \in Decided => ~req[c].banSeen

(* A request r moves on to q without a decision about a ban.               *)
Harmless(r, q) ==
    \/ /\ q.op = r.op /\ q.banSeen = r.banSeen /\ q.user = r.user
       /\ (q.at = r.at \/ (r.at \in Decided /\ q.at \in InTx))
    \/ q.at \in {"idle", "announcing", "invalidating", "filling"}

(* BanInv is inductive.                                                    *)
LEMMA BanStep ==
    ASSUME TypeOK, BanInv, [Next]_vars
    PROVE  BanInv'
<1>0. req \in [Callers -> Request]
  BY DEF TypeOK
<1>1. ASSUME NEW c \in Callers, NEW r, req' = [req EXCEPT ![c] = r], banned \subseteq banned',
             r.at = "checking" /\ r.banSeen => r.user \in banned',
             r.op = "join" /\ r.at \in Decided => ~r.banSeen
      PROVE  BanInv'
  <2>1. \A d \in Callers : req'[d] = IF d = c THEN r ELSE req[d]
    BY <1>0, <1>1
  <2> QED BY <1>1, <2>1 DEF BanInv
<1>2. ASSUME banned \subseteq banned', \A d \in Callers : Harmless(req[d], req'[d])
      PROVE  BanInv'
  BY <1>2 DEF BanInv, Harmless, Decided, InTx
<1>3. ASSUME NEW c \in Callers, NEW r, req' = [req EXCEPT ![c] = r], UNCHANGED banned,
             Harmless(req[c], r)
      PROVE  BanInv'
  <2>1. \A d \in Callers : req'[d] = IF d = c THEN r ELSE req[d]
    BY <1>0, <1>3
  <2>2. \A d \in Callers : Harmless(req[d], req[d])
    BY DEF Harmless
  <2> QED BY <1>2, <1>3, <2>1, <2>2
<1>4. ASSUME NEW c \in Callers, NEW u \in Users, NEW op, NEW at, Begin(c, op, u, at), UNCHANGED banned,
             op = "join" => at \notin Decided
      PROVE  BanInv'
  <2> DEFINE seen == u \in banned
             r == [Idle EXCEPT !.op = op, !.user = u, !.at = at, !.banSeen = seen]
  <2>1. req' = [req EXCEPT ![c] = r]
    BY <1>4 DEF Begin
  <2>2. seen => u \in banned'
    BY <1>4
  <2> HIDE DEF seen
  <2>3. r.op = op /\ r.user = u /\ r.at = at /\ r.banSeen = seen
    BY DEF Idle
  <2> HIDE DEF r
  <2> QED BY <1>1, <1>4, <2>1, <2>2, <2>3
<1>5. ASSUME NEW c \in Callers, NEW u \in Users, JoinRoom(c, u) \/ LeaveRoom(c, u)
      PROVE  BanInv'
  BY <1>4, <1>5 DEF JoinRoom, LeaveRoom, Decided, InTx
<1>6. ASSUME NEW c \in Callers, GetByID(c) PROVE BanInv'
  BY <1>4, <1>6, RoomsAssumption DEF GetByID
<1>7. ASSUME NEW c \in Callers, End(c), UNCHANGED banned PROVE BanInv'
  BY <1>3, <1>7 DEF End, Idle, Harmless
<1>8. ASSUME NEW c \in Callers, CheckBan(c) PROVE BanInv'
  <2> DEFINE u == req[c].user
             old == u \in aged
             read == [req[c] EXCEPT !.at = "joining", !.old = old]
             unread == [req[c] EXCEPT !.at = "joining", !.old = old, !.banSeen = FALSE]
  <2>0. req[c] \in Request /\ req[c].at = "checking" /\ UNCHANGED banned
    BY <1>0, <1>8 DEF CheckBan
  <2>1. CASE u \notin banned /\ req' = [req EXCEPT ![c] = read]
    <3>1. ~req[c].banSeen
      BY <2>0, <2>1 DEF BanInv
    <3> HIDE DEF old
    <3>2. read.at = "joining" /\ read.banSeen = req[c].banSeen
      BY <2>0 DEF Request
    <3> HIDE DEF read
    <3> QED BY <1>1, <2>0, <2>1, <3>1, <3>2
  <2>2. CASE req' = [req EXCEPT ![c] = unread]
    <3> HIDE DEF old
    <3>1. unread.at = "joining" /\ ~unread.banSeen
      BY <2>0 DEF Request
    <3> HIDE DEF unread
    <3> QED BY <1>1, <2>0, <2>2, <3>1
  <2>3. CASE End(c)
    BY <1>7, <2>0, <2>3
  <2> QED BY <1>8, <2>1, <2>2, <2>3 DEF CheckBan, NotBanned
<1>9. ASSUME NEW c \in Callers, WriteMember(c) PROVE BanInv'
  <2> DEFINE others == {d \in Callers \ {c} : req[d].at \in InTx}
             to == IF Recounts(c) THEN "counting" ELSE "committing"
             crowded == others # {}
  <2>1. /\ UNCHANGED banned /\ req[c].at \in {"joining", "leaving"}
        /\ req' = [d \in Callers |->
                     IF d = c THEN [req[d] EXCEPT !.at = to, !.raced = crowded]
                     ELSE IF d \in others THEN [req[d] EXCEPT !.raced = TRUE] ELSE req[d]]
    BY <1>9 DEF WriteMember
  <2>2. to \in InTx /\ req[c].at \in Decided
    BY <2>1 DEF InTx, Decided
  <2> HIDE DEF crowded, others, to
  <2>3. ASSUME NEW d \in Callers PROVE Harmless(req[d], req'[d])
    <3>1. req[d] \in Request
      BY <1>0
    <3>2. CASE d = c
      <4>1. req'[d] = [req[d] EXCEPT !.at = to, !.raced = crowded]
        BY <2>1, <3>2
      <4>2. /\ req'[d].op = req[d].op /\ req'[d].banSeen = req[d].banSeen
            /\ req'[d].user = req[d].user /\ req'[d].at = to
        BY <3>1, <4>1 DEF Request
      <4> QED BY <2>2, <3>2, <4>2 DEF Harmless
    <3>3. CASE d # c /\ d \in others
      <4>1. req'[d] = [req[d] EXCEPT !.raced = TRUE]
        BY <2>1, <3>3
      <4>2. /\ req'[d].op = req[d].op /\ req'[d].banSeen = req[d].banSeen
            /\ req'[d].user = req[d].user /\ req'[d].at = req[d].at
        BY <3>1, <4>1 DEF Request
      <4> QED BY <4>2 DEF Harmless
    <3>4. CASE d # c /\ d \notin others
      <4>1. req'[d] = req[d]
        BY <2>1, <3>4
      <4> QED BY <4>1 DEF Harmless
    <3> QED BY <3>2, <3>3, <3>4
  <2> QED BY <1>2, <2>1, <2>3
<1>10. ASSUME NEW c \in Callers, CountMembers(c) \/ UpdateRoom(c) PROVE BanInv'
  <2> DEFINE counted == [req[c] EXCEPT !.at = "recounting", !.snap = Counted(c)]
             updated == [req[c] EXCEPT !.at = "committing"]
  <2>1. /\ counted.op = req[c].op /\ counted.banSeen = req[c].banSeen
        /\ counted.user = req[c].user /\ counted.at \in InTx
    BY <1>0 DEF Request, InTx
  <2>2. /\ updated.op = req[c].op /\ updated.banSeen = req[c].banSeen
        /\ updated.user = req[c].user /\ updated.at \in InTx
    BY <1>0 DEF Request, InTx
  <2>3. /\ req' = [req EXCEPT ![c] = counted] \/ req' = [req EXCEPT ![c] = updated]
        /\ req[c].at \in Decided /\ UNCHANGED banned
    BY <1>10 DEF CountMembers, UpdateRoom, Decided, InTx
  <2> HIDE DEF counted, updated
  <2> QED BY <1>3, <2>1, <2>2, <2>3 DEF Harmless
<1>11. ASSUME NEW c \in Callers, Commit(c) PROVE BanInv'
  <2> DEFINE r == [Idle EXCEPT !.op = req[c].op, !.user = req[c].user, !.at = "invalidating"]
  <2>1. /\ r.at = "invalidating" /\ UNCHANGED banned
        /\ req' = [d \in Callers |-> IF d = c THEN r
                                     ELSE IF req[d].at = "filling" THEN [req[d] EXCEPT !.raced = TRUE]
                                     ELSE req[d]]
    BY <1>11 DEF Commit, Idle
  <2> HIDE DEF r
  <2>2. ASSUME NEW d \in Callers PROVE Harmless(req[d], req'[d])
    <3>1. [req[d] EXCEPT !.raced = TRUE].at = req[d].at
      BY <1>0 DEF Request
    <3>2. req'[d] = req[d] \/ req'[d].at \in {"invalidating", "filling"}
      BY <2>1, <3>1
    <3> QED BY <3>2 DEF Harmless
  <2> QED BY <1>2, <2>1, <2>2
<1>12. ASSUME NEW c \in Callers, Invalidate(c) \/ ReadRoom(c) PROVE BanInv'
  <2> DEFINE deleted == [req[c] EXCEPT !.at = "announcing"]
             readRoom == [req[c] EXCEPT !.at = "filling", !.snap = count]
  <2>1. deleted.at = "announcing" /\ readRoom.at = "filling"
    BY <1>0 DEF Request
  <2>2. /\ req' = [req EXCEPT ![c] = deleted] \/ req' = [req EXCEPT ![c] = readRoom]
        /\ UNCHANGED banned
    BY <1>12 DEF Invalidate, ReadRoom
  <2> HIDE DEF deleted, readRoom
  <2> QED BY <1>3, <2>1, <2>2 DEF Harmless
<1>13. ASSUME NEW c \in Callers, Announce(c) \/ FillCache(c) \/ Abandon(c) PROVE BanInv'
  BY <1>7, <1>13 DEF Announce, FillCache, Abandon
<1>14. ASSUME UNCHANGED req, banned \subseteq banned' PROVE BanInv'
  BY <1>2, <1>14 DEF Harmless
<1>15. CASE Create \/ CacheExpires \/ UNCHANGED vars
  BY <1>14, <1>15 DEF Create, CacheExpires, vars
<1>16. ASSUME NEW u \in Users, Ban(u) \/ Ages(u) PROVE BanInv'
  BY <1>14, <1>16 DEF Ban, Ages
<1> QED
  BY <1>5, <1>6, <1>8, <1>9, <1>10, <1>11, <1>12, <1>13, <1>15, <1>16 DEF Next, Progress, Transaction

(* A member that left comes back only through the commit of a request to   *)
(* join that saw no ban when it began.                                     *)
LEMMA Rejoins ==
    ASSUME TypeOK, BanInv, [Next]_vars, NEW u \in Users, member[u] = "left", member'[u] = "active"
    PROVE  \E c \in Callers : req[c].user = u /\ req[c].at = "committing" /\ ~req[c].banSeen
<1>1. member \in [Users -> {"never", "active", "left"}]
  BY DEF TypeOK
<1>2. CASE UNCHANGED member
  BY <1>2
<1>3. CASE Create
  BY <1>1, <1>3, RoomsAssumption DEF Create, Exists
<1>4. ASSUME NEW c \in Callers, Commit(c)
      PROVE  \E d \in Callers : req[d].user = u /\ req[d].at = "committing" /\ ~req[d].banSeen
  <2>1. req[c].at = "committing" /\ member' = Written(c)
    BY <1>4 DEF Commit
  <2>2. req[c].user = u /\ req[c].op = "join"
    BY <1>1, <2>1 DEF Written
  <2> QED BY <2>1, <2>2 DEF BanInv, Decided, InTx
<1>5. \/ UNCHANGED member \/ Create \/ \E c \in Callers : Commit(c)
  BY DEF Next, Progress, Transaction, Create, CacheExpires, JoinRoom, LeaveRoom, GetByID, CheckBan,
         WriteMember, CountMembers, UpdateRoom, Invalidate, Announce, ReadRoom, FillCache, Abandon,
         Ban, Ages, vars
<1> QED
  BY <1>2, <1>3, <1>4, <1>5

(* A ban that was set before a request to join began keeps the member out, *)
(* for every interleaving of joins, leaves, bans and failures; only a      *)
(* record that could not be read lets it through.                          *)
THEOREM BansHold == Spec => BannedStaysOut
<1>1. Init => TypeOK /\ Counts
  BY TypeInit
<1>2. Init => BanInv
  BY DEF Init, BanInv, Idle, Decided, InTx
<1>3. TypeOK /\ Counts /\ [Next]_vars => TypeOK' /\ Counts'
  BY TypeStep
<1>4. TypeOK /\ BanInv /\ [Next]_vars => BanInv'
  BY BanStep
<1>5. TypeOK /\ BanInv /\ [Next]_vars =>
        [\A u \in Users : member[u] = "left" /\ member'[u] = "active" =>
           \E c \in Callers : req[c].user = u /\ req[c].at = "committing" /\ ~req[c].banSeen]_vars
  BY Rejoins
<1> QED
  BY <1>1, <1>2, <1>3, <1>4, <1>5, PTL DEF Spec, BannedStaysOut
=============================================================================
