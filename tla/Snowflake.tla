------------------------------ MODULE Snowflake ------------------------------
(***************************************************************************)
(* The id generator, pkg/snowflake/snowflake.go: one Generator per pod,    *)
(* called by many goroutines, on clocks that may be stepped back.  The     *)
(* mutex is modelled because Generate releases it while it sleeps; between *)
(* two releases the locked code runs without interference, but for the     *)
(* clock, which moves on.                                                  *)
(***************************************************************************)
EXTENDS Naturals, Sequences

CONSTANTS
    Pods, Threads,
    PodOf,         \* the pod a goroutine runs in
    NodeOf,        \* Generator.nodeID, set once by main before serving
    SequenceMask, MaxNodeID,
    MaxTime,       \* bound: milliseconds
    MaxIds         \* bound: ids generated by a pod

ASSUME GeneratorAssumption ==
    /\ PodOf \in [Threads -> Pods]
    /\ SequenceMask \in Nat /\ MaxNodeID \in Nat
    /\ NodeOf \in [Pods -> 0..MaxNodeID]
    /\ MaxTime \in Nat /\ MaxIds \in Nat

VARIABLES
    clock,      \* wall clock in milliseconds, common to the pods
    pc,         \* where Generate is: idle, back, wait or sleep
    mu,         \* threads of the pod inside waitNextMillisLocked, mutex held
    sequence, lastTime,   \* fields of the Generator
    ids,        \* the <<time, sequence>> pairs of the ids a pod returned
    exhausted   \* history: the sequence of some millisecond ran out

vars == <<clock, pc, mu, sequence, lastTime, ids, exhausted>>

Init ==
    /\ clock = 1
    /\ pc = [t \in Threads |-> "idle"]
    /\ mu = [p \in Pods |-> {}]
    /\ sequence = [p \in Pods |-> 0]
    /\ lastTime = [p \in Pods |-> 0]
    /\ ids = [p \in Pods |-> <<>>]
    /\ exhausted = [p \in Pods |-> FALSE]

EncodeShiftOffByOne(time, node, seq) == (time * (MaxNodeID + 1) + node) * SequenceMask + seq

(* int64 id: the three fields do not overlap.                              *)
Encode(time, node, seq) == (time * (MaxNodeID + 1) + node) * (SequenceMask + 1) + seq

Return(t, now, seq) ==
    LET p == PodOf[t] IN
    /\ lastTime' = [lastTime EXCEPT ![p] = now]
    /\ ids' = [ids EXCEPT ![p] = Append(@, <<now, seq>>)]
    /\ pc' = [pc EXCEPT ![t] = "idle"]

NextSequenceUnmasked(p) == sequence[p] + 1

NextSequence(p) == (sequence[p] + 1) % (SequenceMask + 1)

NeverBehind(p) == FALSE

(* The clock was set back since the last id.                               *)
Behind(p) == clock < lastTime[p]

NextMillisOrSame(now, last) == now >= last

NextMillis(now, last) == now > last

(* Generate from the first reading of the clock, and again after each      *)
(* sleep while the clock is behind.                                        *)
Generate(t) ==
    LET p == PodOf[t] IN
    /\ pc[t] \in {"idle", "back"} /\ mu[p] = {} /\ Len(ids[p]) < MaxIds
    /\ \/ /\ Behind(p)
          /\ pc' = [pc EXCEPT ![t] = "back"]
          /\ UNCHANGED <<mu, sequence, lastTime, ids, exhausted>>
       \/ /\ clock = lastTime[p]
          /\ sequence' = [sequence EXCEPT ![p] = NextSequence(p)]
          /\ IF NextSequence(p) = 0
             THEN /\ pc' = [pc EXCEPT ![t] = "wait"]
                  /\ mu' = [mu EXCEPT ![p] = {t}]
                  /\ exhausted' = [exhausted EXCEPT ![p] = TRUE]
                  /\ UNCHANGED <<lastTime, ids>>
             ELSE /\ Return(t, clock, NextSequence(p))
                  /\ UNCHANGED <<mu, exhausted>>
       \/ /\ ~Behind(p) /\ clock # lastTime[p]
          /\ sequence' = [sequence EXCEPT ![p] = 0]
          /\ Return(t, clock, 0)
          /\ UNCHANGED <<mu, exhausted>>
    /\ UNCHANGED clock

(* One turn of waitNextMillisLocked: leave with the sequence as it is now, *)
(* or release the mutex and sleep.                                         *)
waitNextMillisLocked(t) ==
    LET p == PodOf[t] IN
    /\ pc[t] = "wait"
    /\ mu' = [mu EXCEPT ![p] = {}]
    /\ IF NextMillis(clock, lastTime[p])
       THEN Len(ids[p]) < MaxIds /\ Return(t, clock, sequence[p])
       ELSE /\ pc' = [pc EXCEPT ![t] = "sleep"]
            /\ UNCHANGED <<lastTime, ids>>
    /\ UNCHANGED <<clock, sequence, exhausted>>

Wake(t) ==
    /\ pc[t] = "sleep" /\ mu[PodOf[t]] = {}
    /\ pc' = [pc EXCEPT ![t] = "wait"]
    /\ mu' = [mu EXCEPT ![PodOf[t]] = {t}]
    /\ UNCHANGED <<clock, sequence, lastTime, ids, exhausted>>

(* Time passes, or an adjustment sets the clock back.                      *)
Tick ==
    /\ clock' \in {clock - 1, clock + 1} \cap 1..MaxTime
    /\ UNCHANGED <<pc, mu, sequence, lastTime, ids, exhausted>>

Next == Tick \/ \E t \in Threads : Generate(t) \/ waitNextMillisLocked(t) \/ Wake(t)

Spec == Init /\ [][Next]_vars

-----------------------------------------------------------------------------
(* The type invariant; the mutex is held by at most one goroutine.         *)
TypeOK ==
    /\ clock \in Nat
    /\ pc \in [Threads -> {"idle", "back", "wait", "sleep"}]
    /\ mu \in [Pods -> SUBSET Threads]
    /\ sequence \in [Pods -> 0..SequenceMask]
    /\ lastTime \in [Pods -> Nat]
    /\ ids \in [Pods -> Seq(Nat \X (0..SequenceMask))]
    /\ exhausted \in [Pods -> BOOLEAN]
    /\ \A t \in Threads : pc[t] = "wait" <=> t \in mu[PodOf[t]]
    /\ \A p \in Pods : \A t, u \in mu[p] : t = u

(* The order of ids as integers: by time, then by sequence.                *)
Before(a, b) == a[1] < b[1] \/ (a[1] = b[1] /\ a[2] < b[2])

Increasing(p) == \A i, j \in 1..Len(ids[p]) : i < j => Before(ids[p][i], ids[p][j])

(* The ids of a pod increase, hence are unique, for any number of callers  *)
(* and however the clock is set back, as long as no millisecond runs out   *)
(* of sequence numbers (Generate, lines 33-50).                            *)
IncreasingUntilExhausted == \A p \in Pods : exhausted[p] \/ Increasing(p)

(* A pod in which one goroutine generates ids never repeats one, even when *)
(* it waits for the next millisecond.                                      *)
SoleCallerIncreasing ==
    \A p \in Pods : (\A t, u \in Threads : PodOf[t] = p /\ PodOf[u] = p => t = u) => Increasing(p)

(* Two pods with different node ids never return the same id.              *)
PodsDisjoint ==
    \A p, q \in Pods : NodeOf[p] # NodeOf[q] =>
        \A i \in 1..Len(ids[p]), j \in 1..Len(ids[q]) :
            Encode(ids[p][i][1], NodeOf[p], ids[p][i][2]) # Encode(ids[q][j][1], NodeOf[q], ids[q][j][2])

(* A generator never goes back in time: an id carries a time no earlier    *)
(* than the ids returned before it, through sleeps with the mutex released *)
(* and clock adjustments.                                                  *)
TimeNeverGoesBack == [][\A p \in Pods : lastTime'[p] >= lastTime[p]]_vars

(* Concurrent callers of one generator never receive the same id.  They    *)
(* do: the caller that exhausts a millisecond sets the sequence to 0 and   *)
(* sleeps with the mutex released and lastTime unchanged, so that another  *)
(* one draws the numbers of that millisecond from 1 on once more.          *)
UniqueIds == \A p \in Pods : \A i, j \in 1..Len(ids[p]) : i # j => ids[p][i] # ids[p][j]
=============================================================================
