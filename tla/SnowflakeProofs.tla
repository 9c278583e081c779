--------------------------- MODULE SnowflakeProofs ---------------------------
(***************************************************************************)
(* Proofs about the id generator, for any number of pods and goroutines,   *)
(* any width of the sequence and any behaviour of the clock.               *)
(***************************************************************************)
EXTENDS Snowflake, TLAPS

(* NextSequence stays within the mask and, unless it wraps to zero, is the *)
(* successor.                                                              *)
LEMMA NextSequenceValue ==
    ASSUME NEW s \in 0..SequenceMask
    PROVE  /\ (s + 1) % (SequenceMask + 1) \in 0..SequenceMask
           /\ (s + 1) % (SequenceMask + 1) # 0 => (s + 1) % (SequenceMask + 1) = s + 1
<1> DEFINE K == SequenceMask + 1
<1>0. SequenceMask \in Nat /\ K \in Nat \ {0} /\ s + 1 \in 1..K
  BY GeneratorAssumption
<1>1. CASE s + 1 = K
  <2>1. K % K = 0
    BY <1>0, SMTT(30)
  <2> QED
    BY <2>1, <1>1, <1>0
<1>2. CASE s + 1 < K
  <2>1. (s + 1) % K = s + 1
    BY <1>0, <1>2, SMTT(30)
  <2> QED
    BY <2>1, <1>0, <1>2
<1> QED
  BY <1>0, <1>1, <1>2

(* The fields of the ids returned so far.                                  *)
LEMMA IdType ==
    ASSUME TypeOK, NEW p \in Pods, NEW i \in 1..Len(ids[p])
    PROVE  /\ ids[p][i] = <<ids[p][i][1], ids[p][i][2]>>
           /\ ids[p][i][1] \in Nat
           /\ ids[p][i][2] \in 0..SequenceMask
<1> DEFINE S == Nat \X (0..SequenceMask)
<1>1. ids[p] \in Seq(S)
  BY DEF TypeOK
<1>2. ids[p][i] \in S
  <2> HIDE DEF S
  <2> QED
    BY <1>1
<1> QED
  BY <1>2

-----------------------------------------------------------------------------
(* The three outcomes of a call of Generate: the clock is behind, the      *)
(* sequence of the millisecond is exhausted, or an id is returned that is  *)
(* later than the fields of the generator.                                 *)
LEMMA GenerateCases ==
    ASSUME TypeOK, NEW t \in Threads, Generate(t), NEW p, p = PodOf[t]
    PROVE  /\ p \in Pods /\ pc[t] \in {"idle", "back"} /\ mu[p] = {} /\ UNCHANGED clock
           /\ \/ /\ pc' = [pc EXCEPT ![t] = "back"]
                 /\ UNCHANGED <<mu, sequence, lastTime, ids, exhausted>>
              \/ /\ pc' = [pc EXCEPT ![t] = "wait"]
                 /\ mu' = [mu EXCEPT ![p] = {t}]
                 /\ sequence' = [sequence EXCEPT ![p] = 0]
                 /\ exhausted' = [exhausted EXCEPT ![p] = TRUE]
                 /\ UNCHANGED <<lastTime, ids>>
              \/ \E s \in 0..SequenceMask :
                 /\ clock > lastTime[p] \/ (clock = lastTime[p] /\ s = sequence[p] + 1)
                 /\ Return(t, clock, s)
                 /\ sequence' = [sequence EXCEPT ![p] = s]
                 /\ UNCHANGED <<mu, exhausted>>
<1>1. p \in Pods /\ sequence[p] \in 0..SequenceMask /\ clock \in Nat /\ lastTime[p] \in Nat
  BY GeneratorAssumption DEF TypeOK
<1>2. pc[t] \in {"idle", "back"} /\ mu[p] = {} /\ UNCHANGED clock
  BY DEF Generate
<1>3. /\ NextSequence(p) \in 0..SequenceMask
      /\ NextSequence(p) # 0 => NextSequence(p) = sequence[p] + 1
  BY <1>1, NextSequenceValue DEF NextSequence
<1>4. CASE clock < lastTime[p]
  BY <1>1, <1>2, <1>4 DEF Generate, Behind
<1>5. CASE clock = lastTime[p] /\ NextSequence(p) = 0
  BY <1>1, <1>2, <1>5 DEF Generate, Behind
<1>6. CASE clock = lastTime[p] /\ NextSequence(p) # 0
  <2>1. /\ Return(t, clock, NextSequence(p)) /\ UNCHANGED <<mu, exhausted>>
        /\ sequence' = [sequence EXCEPT ![p] = NextSequence(p)]
    BY <1>1, <1>6 DEF Generate, Behind
  <2> QED
    BY <1>1, <1>2, <1>3, <1>6, <2>1
<1>7. CASE clock > lastTime[p]
  <2>1. /\ Return(t, clock, 0) /\ UNCHANGED <<mu, exhausted>>
        /\ sequence' = [sequence EXCEPT ![p] = 0]
    BY <1>1, <1>7 DEF Generate, Behind
  <2>2. 0 \in 0..SequenceMask
    BY GeneratorAssumption
  <2> QED
    BY <1>1, <1>2, <1>7, <2>1, <2>2
<1> QED
  BY <1>1, <1>4, <1>5, <1>6, <1>7

(* What an id handed to a caller leaves behind, with the mutex untouched   *)
(* (Generate) or released (waitNextMillisLocked), is well typed.           *)
LEMMA ReturnType ==
    ASSUME TypeOK, NEW t \in Threads, NEW s \in 0..SequenceMask, pc[t] \in {"idle", "back"},
           Return(t, clock, s), UNCHANGED <<clock, mu, exhausted>>,
           sequence' = [sequence EXCEPT ![PodOf[t]] = s]
    PROVE  TypeOK'
<1>1. PodOf[t] \in Pods /\ <<clock, s>> \in Nat \X (0..SequenceMask)
  BY GeneratorAssumption DEF TypeOK
<1>2. lastTime' \in [Pods -> Nat] /\ ids' \in [Pods -> Seq(Nat \X (0..SequenceMask))]
  BY <1>1 DEF Return, TypeOK
<1>3. pc' \in [Threads -> {"idle", "back", "wait", "sleep"}] /\ sequence' \in [Pods -> 0..SequenceMask]
  BY <1>1 DEF Return, TypeOK
<1>4. \A u \in Threads : pc'[u] = "wait" <=> u \in mu'[PodOf[u]]
  BY DEF Return, TypeOK
<1> QED
  BY <1>2, <1>3, <1>4 DEF TypeOK

LEMMA ReturnAndUnlockType ==
    ASSUME TypeOK, NEW t \in Threads, mu[PodOf[t]] = {t},
           Return(t, clock, sequence[PodOf[t]]), UNCHANGED <<clock, sequence, exhausted>>,
           mu' = [mu EXCEPT ![PodOf[t]] = {}]
    PROVE  TypeOK'
<1>1. PodOf[t] \in Pods /\ <<clock, sequence[PodOf[t]]>> \in Nat \X (0..SequenceMask)
  BY GeneratorAssumption DEF TypeOK
<1>2. lastTime' \in [Pods -> Nat] /\ ids' \in [Pods -> Seq(Nat \X (0..SequenceMask))]
  BY <1>1 DEF Return, TypeOK
<1>3. pc' \in [Threads -> {"idle", "back", "wait", "sleep"}] /\ mu' \in [Pods -> SUBSET Threads]
  BY <1>1 DEF Return, TypeOK
<1>4. ASSUME NEW u \in Threads
      PROVE  pc'[u] = "wait" <=> u \in mu'[PodOf[u]]
  <2>0. PodOf[u] \in Pods /\ (pc[u] = "wait" <=> u \in mu[PodOf[u]])
    BY GeneratorAssumption DEF TypeOK
  <2>1. pc' = [pc EXCEPT ![t] = "idle"]
    BY DEF Return
  <2>2. CASE u = t
    <3>1. pc'[u] = "idle" /\ mu'[PodOf[u]] = {}
      BY <1>1, <2>1, <2>2 DEF TypeOK
    <3> QED BY <3>1
  <2>3. CASE u # t /\ PodOf[u] = PodOf[t]
    <3>1. pc'[u] = pc[u] /\ mu'[PodOf[u]] = {} /\ u \notin mu[PodOf[u]]
      BY <1>1, <2>1, <2>3 DEF TypeOK
    <3> QED BY <2>0, <3>1
  <2>4. CASE u # t /\ PodOf[u] # PodOf[t]
    <3>1. pc'[u] = pc[u] /\ mu'[PodOf[u]] = mu[PodOf[u]]
      BY <1>1, <2>0, <2>1, <2>4 DEF TypeOK
    <3> QED BY <2>0, <3>1
  <2> QED BY <2>2, <2>3, <2>4
<1>5. \A q \in Pods : \A u, v \in mu'[q] : u = v
  BY <1>1 DEF TypeOK
<1> QED
  BY <1>2, <1>3, <1>4, <1>5 DEF TypeOK

(* Type correctness, and mutual exclusion of the goroutines inside         *)
(* waitNextMillisLocked, which Generate releases and takes again.          *)
THEOREM TypeCorrect == Spec => []TypeOK
<1>1. Init => TypeOK
  BY GeneratorAssumption DEF Init, TypeOK
<1>2. TypeOK /\ [Next]_vars => TypeOK'
  <2> SUFFICES ASSUME TypeOK, [Next]_vars PROVE TypeOK'
    OBVIOUS
  <2> USE GeneratorAssumption
  <2>1. CASE UNCHANGED vars
    BY <2>1 DEF vars, TypeOK
  <2>2. CASE Tick
    BY <2>2 DEF Tick, TypeOK
  <2>3. ASSUME NEW t \in Threads, Generate(t) PROVE TypeOK'
    <3> DEFINE p == PodOf[t]
    <3>1. p \in Pods /\ pc[t] \in {"idle", "back"} /\ mu[p] = {} /\ UNCHANGED clock
      BY <2>3, GenerateCases
    <3>2. CASE /\ pc' = [pc EXCEPT ![t] = "back"]
               /\ UNCHANGED <<mu, sequence, lastTime, ids, exhausted>>
      BY <3>1, <3>2 DEF TypeOK
    <3>3. CASE /\ pc' = [pc EXCEPT ![t] = "wait"]
               /\ mu' = [mu EXCEPT ![p] = {t}]
               /\ sequence' = [sequence EXCEPT ![p] = 0]
               /\ exhausted' = [exhausted EXCEPT ![p] = TRUE]
               /\ UNCHANGED <<lastTime, ids>>
      <4>1. \A u \in Threads : pc'[u] = "wait" <=> u \in mu'[PodOf[u]]
        BY <3>1, <3>3 DEF TypeOK
      <4>2. \A q \in Pods : \A u, v \in mu'[q] : u = v
        BY <3>1, <3>3 DEF TypeOK
      <4> QED
        BY <3>1, <3>3, <4>1, <4>2 DEF TypeOK
    <3>4. ASSUME NEW s \in 0..SequenceMask, Return(t, clock, s), UNCHANGED <<mu, exhausted>>,
                 sequence' = [sequence EXCEPT ![p] = s]
          PROVE  TypeOK'
      BY <3>1, <3>4, ReturnType
    <3> QED
      BY <2>3, <3>2, <3>3, <3>4, GenerateCases
  <2>4. ASSUME NEW t \in Threads, waitNextMillisLocked(t) PROVE TypeOK'
    <3> DEFINE p == PodOf[t]
    <3>1. /\ p \in Pods /\ pc[t] = "wait" /\ mu' = [mu EXCEPT ![p] = {}] /\ mu[p] = {t}
          /\ UNCHANGED <<clock, sequence, exhausted>>
      BY <2>4 DEF waitNextMillisLocked, TypeOK
    <3>2. CASE NextMillis(clock, lastTime[p])
      <4>1. Return(t, clock, sequence[p])
        BY <2>4, <3>2 DEF waitNextMillisLocked, NextMillis
      <4> QED
        BY <3>1, <4>1, ReturnAndUnlockType
    <3>3. CASE ~NextMillis(clock, lastTime[p])
      <4>1. pc' = [pc EXCEPT ![t] = "sleep"] /\ UNCHANGED <<lastTime, ids>>
        BY <2>4, <3>3 DEF waitNextMillisLocked, NextMillis
      <4> QED
        BY <3>1, <4>1 DEF TypeOK
    <3> QED
      BY <3>2, <3>3
  <2>5. ASSUME NEW t \in Threads, Wake(t) PROVE TypeOK'
    BY <2>5 DEF Wake, TypeOK
  <2> QED
    BY <2>1, <2>2, <2>3, <2>4, <2>5 DEF Next
<1> QED
  BY <1>1, <1>2, PTL DEF Spec

(* A step of a generator never lowers lastTime, whatever the clock does    *)
(* while the mutex is released: the sleepers check the clock again.        *)
THEOREM TimeMonotone == Spec => TimeNeverGoesBack
<1>1. TypeOK /\ [Next]_vars => [\A p \in Pods : lastTime'[p] >= lastTime[p]]_vars
  <2> SUFFICES ASSUME TypeOK, Next, NEW p \in Pods PROVE lastTime'[p] >= lastTime[p]
    BY DEF vars
  <2>0. clock \in Nat /\ lastTime \in [Pods -> Nat] /\ PodOf \in [Threads -> Pods]
    BY GeneratorAssumption DEF TypeOK
  <2>1. CASE Tick
    BY <2>0, <2>1 DEF Tick
  <2>2. ASSUME NEW t \in Threads, Generate(t) PROVE lastTime'[p] >= lastTime[p]
    <3>1. CASE UNCHANGED lastTime
      BY <2>0, <3>1
    <3>2. ASSUME NEW s \in 0..SequenceMask, Return(t, clock, s),
                 clock > lastTime[PodOf[t]] \/ (clock = lastTime[PodOf[t]] /\ s = sequence[PodOf[t]] + 1)
          PROVE  lastTime'[p] >= lastTime[p]
      <4>1. lastTime' = [lastTime EXCEPT ![PodOf[t]] = clock]
        BY <3>2 DEF Return
      <4> QED
        BY <2>0, <3>2, <4>1
    <3> QED
      BY <2>2, <3>1, <3>2, GenerateCases
  <2>3. ASSUME NEW t \in Threads, waitNextMillisLocked(t) PROVE lastTime'[p] >= lastTime[p]
    <3>1. \/ UNCHANGED lastTime
          \/ /\ clock > lastTime[PodOf[t]]
             /\ lastTime' = [lastTime EXCEPT ![PodOf[t]] = clock]
      BY <2>3 DEF waitNextMillisLocked, NextMillis, Return
    <3> QED
      BY <2>0, <3>1
  <2>4. ASSUME NEW t \in Threads, Wake(t) PROVE lastTime'[p] >= lastTime[p]
    BY <2>0, <2>4 DEF Wake
  <2> QED
    BY <2>1, <2>2, <2>3, <2>4 DEF Next
<1> QED
  BY <1>1, TypeCorrect, PTL DEF Spec, TimeNeverGoesBack

-----------------------------------------------------------------------------
(* What makes IncreasingUntilExhausted inductive: until a millisecond runs *)
(* out nobody is inside waitNextMillisLocked, and the fields of the        *)
(* generator are at or above every id it returned.                         *)
Latest(p) == \A i \in 1..Len(ids[p]) :
    \/ Before(ids[p][i], <<lastTime[p], sequence[p]>>)
    \/ ids[p][i] = <<lastTime[p], sequence[p]>>

LEMMA LaterThanLatest ==
    ASSUME TypeOK, NEW p \in Pods, Latest(p), NEW seq \in 0..SequenceMask,
           clock > lastTime[p] \/ (clock = lastTime[p] /\ seq = sequence[p] + 1)
    PROVE  \A i \in 1..Len(ids[p]) : Before(ids[p][i], <<clock, seq>>)
<1> SUFFICES ASSUME NEW i \in 1..Len(ids[p]) PROVE Before(ids[p][i], <<clock, seq>>)
  OBVIOUS
<1> DEFINE a == ids[p][i][1]
           b == ids[p][i][2]
           l == lastTime[p]
           m == sequence[p]
<1>1. a \in Nat /\ b \in Nat /\ l \in Nat /\ m \in Nat /\ clock \in Nat /\ seq \in Nat
  BY IdType, GeneratorAssumption DEF TypeOK
<1>2. a < l \/ (a = l /\ b <= m)
  BY <1>1 DEF Latest, Before
<1>3. clock > l \/ (clock = l /\ seq = m + 1)
  OBVIOUS
<1> HIDE DEF a, b, l, m
<1>4. a < clock \/ (a = clock /\ b < seq)
  BY <1>1, <1>2, <1>3
<1> QED
  BY <1>4 DEF Before, a, b

(* An id later than all before it keeps the order, and is the latest.      *)
LEMMA ReturnLater ==
    ASSUME TypeOK, NEW t \in Threads, NEW p \in Pods, PodOf[t] = p, NEW seq \in 0..SequenceMask,
           Increasing(p), \A i \in 1..Len(ids[p]) : Before(ids[p][i], <<clock, seq>>),
           Return(t, clock, seq), sequence'[p] = seq
    PROVE  Increasing(p)' /\ Latest(p)'
<1>1. ids'[p] = Append(ids[p], <<clock, seq>>) /\ lastTime'[p] = clock
  BY DEF Return, TypeOK
<1>2. ids[p] \in Seq(Nat \X (0..SequenceMask)) /\ Len(ids[p]) \in Nat
  BY DEF TypeOK
<1>3. /\ Len(ids'[p]) = Len(ids[p]) + 1
      /\ ids'[p][Len(ids[p]) + 1] = <<clock, seq>>
      /\ \A i \in 1..Len(ids[p]) : ids'[p][i] = ids[p][i]
  BY <1>1, <1>2
<1>4. Increasing(p)'
  <2> SUFFICES ASSUME NEW i \in 1..Len(ids'[p]), NEW j \in 1..Len(ids'[p]), i < j
               PROVE  Before(ids'[p][i], ids'[p][j])
    BY DEF Increasing, Before
  <2>1. CASE j \in 1..Len(ids[p])
    <3>1. i \in 1..Len(ids[p])
      BY <1>2, <2>1
    <3>2. ids'[p][i] = ids[p][i] /\ ids'[p][j] = ids[p][j]
      BY <1>3, <2>1, <3>1
    <3> QED
      BY <2>1, <3>1, <3>2 DEF Increasing
  <2>2. CASE j = Len(ids[p]) + 1
    <3>1. i \in 1..Len(ids[p])
      BY <1>2, <1>3, <2>2
    <3>2. ids'[p][i] = ids[p][i] /\ ids'[p][j] = <<clock, seq>>
      BY <1>3, <2>2, <3>1
    <3> QED
      BY <3>1, <3>2
  <2> QED
    BY <1>2, <1>3, <2>1, <2>2
<1>5. Latest(p)'
  BY <1>1, <1>2, <1>3 DEF Latest, Before
<1> QED
  BY <1>4, <1>5

(* A call on one pod leaves the generators of the others alone.            *)
LEMMA ElsewhereUnchanged ==
    ASSUME TypeOK, NEW p \in Pods, NEW t \in Threads, PodOf[t] # p,
           Generate(t) \/ waitNextMillisLocked(t) \/ Wake(t)
    PROVE  /\ UNCHANGED <<ids[p], lastTime[p], sequence[p], exhausted[p]>>
           /\ \A u \in Threads : PodOf[u] = p => pc'[u] = pc[u]
<1> USE GeneratorAssumption
<1>1. ASSUME NEW now, NEW s, Return(t, now, s)
      PROVE  /\ UNCHANGED <<ids[p], lastTime[p]>>
             /\ \A u \in Threads : PodOf[u] = p => pc'[u] = pc[u]
  BY <1>1 DEF Return, TypeOK
<1>2. CASE Generate(t)
  <2> DEFINE q == PodOf[t]
  <2>1. q \in Pods /\ q # p
    OBVIOUS
  <2>2. CASE pc' = [pc EXCEPT ![t] = "back"] /\ UNCHANGED <<sequence, lastTime, ids, exhausted>>
    BY <2>2 DEF TypeOK
  <2>3. CASE /\ pc' = [pc EXCEPT ![t] = "wait"] /\ sequence' = [sequence EXCEPT ![q] = 0]
             /\ exhausted' = [exhausted EXCEPT ![q] = TRUE] /\ UNCHANGED <<lastTime, ids>>
    <3>1. UNCHANGED exhausted[p]
      <4>1. ASSUME NEW v, exhausted' = [exhausted EXCEPT ![q] = v]
            PROVE  UNCHANGED exhausted[p]
        BY <2>1, <4>1 DEF TypeOK
      <4> QED BY <2>3, <4>1
    <3>2. UNCHANGED <<ids[p], lastTime[p], sequence[p]>> /\ \A u \in Threads : PodOf[u] = p => pc'[u] = pc[u]
      BY <2>1, <2>3 DEF TypeOK
    <3> QED
      BY <3>1, <3>2
  <2>4. ASSUME NEW s, Return(t, clock, s), sequence' = [sequence EXCEPT ![q] = s], UNCHANGED exhausted
        PROVE  UNCHANGED <<sequence[p], exhausted[p]>>
    BY <2>1, <2>4 DEF TypeOK
  <2> QED
    BY <1>1, <1>2, <2>2, <2>3, <2>4, GenerateCases
<1>3. CASE waitNextMillisLocked(t)
  BY <1>1, <1>3 DEF waitNextMillisLocked, TypeOK
<1>4. CASE Wake(t)
  BY <1>4 DEF Wake, TypeOK
<1> QED
  BY <1>2, <1>3, <1>4

IncreasingInv ==
    \A p \in Pods : ~exhausted[p] =>
        /\ Increasing(p)
        /\ Latest(p)
        /\ \A t \in Threads : PodOf[t] = p => pc[t] \in {"idle", "back"}

(* The ids of a pod increase for any number of callers and any clock until *)
(* the sequence of some millisecond is exhausted.                          *)
THEOREM IdsIncrease == Spec => []IncreasingUntilExhausted
<1>1. Init => IncreasingInv
  BY GeneratorAssumption DEF Init, IncreasingInv, Increasing, Latest
<1>2. TypeOK /\ IncreasingInv /\ [Next]_vars => IncreasingInv'
  <2> SUFFICES ASSUME TypeOK, IncreasingInv, [Next]_vars, NEW p \in Pods, ~exhausted'[p]
               PROVE  /\ Increasing(p)'
                      /\ Latest(p)'
                      /\ \A t \in Threads : PodOf[t] = p => pc'[t] \in {"idle", "back"}
    BY DEF IncreasingInv
  <2> USE GeneratorAssumption
  <2>0. CASE UNCHANGED <<ids[p], lastTime[p], sequence[p], exhausted[p]>>
              /\ \A t \in Threads : PodOf[t] = p => pc'[t] = pc[t]
    BY <2>0 DEF IncreasingInv, Increasing, Latest
  <2>1. CASE UNCHANGED vars \/ Tick
    BY <2>0, <2>1 DEF vars, Tick
  <2>2. ASSUME NEW t \in Threads, PodOf[t] # p,
               Generate(t) \/ waitNextMillisLocked(t) \/ Wake(t)
        PROVE  /\ UNCHANGED <<ids[p], lastTime[p], sequence[p], exhausted[p]>>
               /\ \A u \in Threads : PodOf[u] = p => pc'[u] = pc[u]
    BY <2>2, ElsewhereUnchanged
  <2>3. ASSUME NEW t \in Threads, PodOf[t] = p, waitNextMillisLocked(t) \/ Wake(t)
        PROVE  FALSE
    BY <2>3 DEF waitNextMillisLocked, Wake, IncreasingInv, TypeOK
  <2>4. ASSUME NEW t \in Threads, PodOf[t] = p, Generate(t)
        PROVE  /\ Increasing(p)'
               /\ Latest(p)'
               /\ \A u \in Threads : PodOf[u] = p => pc'[u] \in {"idle", "back"}
    <3>0. /\ ~exhausted[p] /\ Increasing(p) /\ Latest(p)
          /\ \A u \in Threads : PodOf[u] = p => pc[u] \in {"idle", "back"}
      BY <2>4 DEF Generate, IncreasingInv, TypeOK
    <3>1. CASE pc' = [pc EXCEPT ![t] = "back"] /\ UNCHANGED <<mu, sequence, lastTime, ids, exhausted>>
      <4>1. \A u \in Threads : PodOf[u] = p => pc'[u] \in {"idle", "back"}
        BY <3>0, <3>1 DEF TypeOK
      <4> QED
        BY <3>0, <3>1, <4>1 DEF Increasing, Latest
    <3>2. ASSUME NEW seq \in 0..SequenceMask,
                 clock > lastTime[p] \/ (clock = lastTime[p] /\ seq = sequence[p] + 1),
                 Return(t, clock, seq), sequence' = [sequence EXCEPT ![p] = seq]
          PROVE  /\ Increasing(p)'
                 /\ Latest(p)'
                 /\ \A u \in Threads : PodOf[u] = p => pc'[u] \in {"idle", "back"}
      <4>1. /\ lastTime'[p] = clock /\ sequence'[p] = seq
            /\ \A u \in Threads : PodOf[u] = p => pc'[u] \in {"idle", "back"}
        BY <2>4, <3>0, <3>2 DEF Return, TypeOK
      <4>2. \A i \in 1..Len(ids[p]) : Before(ids[p][i], <<clock, seq>>)
        BY <3>0, <3>2, LaterThanLatest
      <4> QED
        BY <2>4, <3>0, <3>2, <4>1, <4>2, ReturnLater
    <3>3. ~(exhausted' = [exhausted EXCEPT ![p] = TRUE])
      BY DEF TypeOK
    <3> QED
      BY <2>4, <3>1, <3>2, <3>3, GenerateCases
  <2> QED
    BY <2>0, <2>1, <2>2, <2>3, <2>4 DEF Next
<1>3. IncreasingInv => IncreasingUntilExhausted
  BY DEF IncreasingInv, IncreasingUntilExhausted
<1> QED
  BY <1>1, <1>2, <1>3, TypeCorrect, PTL DEF Spec

-----------------------------------------------------------------------------
(* With one caller, nobody moves the fields while it sleeps: no id is      *)
(* later than lastTime, and the fields are at or above every id but while  *)
(* the caller waits with the sequence wrapped to zero.                     *)
Sole(p) == \A t, u \in Threads : PodOf[t] = p /\ PodOf[u] = p => t = u

NotLater(p) == \A i \in 1..Len(ids[p]) : ids[p][i][1] <= lastTime[p]

Resting(p) == \A t \in Threads : PodOf[t] = p => pc[t] \in {"idle", "back"}

SoleInv == \A p \in Pods : Sole(p) => Increasing(p) /\ NotLater(p) /\ (Resting(p) => Latest(p))

(* A pod with one goroutine that generates ids never repeats one, through  *)
(* any number of waits for the next millisecond and any clock.             *)
THEOREM SoleCallerIds == Spec => []SoleCallerIncreasing
<1>1. Init => SoleInv
  BY GeneratorAssumption DEF Init, SoleInv, Increasing, NotLater, Latest
<1>2. TypeOK /\ SoleInv /\ [Next]_vars => SoleInv'
  <2> SUFFICES ASSUME TypeOK, SoleInv, [Next]_vars, NEW p \in Pods, Sole(p)
               PROVE  Increasing(p)' /\ NotLater(p)' /\ (Resting(p)' => Latest(p)')
    BY DEF SoleInv, Sole
  <2> USE GeneratorAssumption
  <2>0. /\ Increasing(p) /\ NotLater(p) /\ (Resting(p) => Latest(p))
        /\ clock \in Nat /\ lastTime[p] \in Nat /\ sequence[p] \in 0..SequenceMask
    BY DEF SoleInv, TypeOK
  <2>1. ASSUME UNCHANGED <<ids[p], lastTime[p], sequence[p]>>, Resting(p)' => Resting(p)
        PROVE  Increasing(p)' /\ NotLater(p)' /\ (Resting(p)' => Latest(p)')
    BY <2>0, <2>1 DEF Increasing, NotLater, Latest
  <2>2. CASE UNCHANGED vars \/ Tick
    BY <2>1, <2>2 DEF vars, Tick, Resting
  <2>3. ASSUME NEW t \in Threads, PodOf[t] # p, Generate(t) \/ waitNextMillisLocked(t) \/ Wake(t)
        PROVE  Increasing(p)' /\ NotLater(p)' /\ (Resting(p)' => Latest(p)')
    <3>1. /\ UNCHANGED <<ids[p], lastTime[p], sequence[p]>>
          /\ \A u \in Threads : PodOf[u] = p => pc'[u] = pc[u]
      BY <2>3, ElsewhereUnchanged
    <3> QED
      BY <2>1, <3>1 DEF Resting
  <2>4. ASSUME NEW t \in Threads, PodOf[t] = p, NEW seq \in 0..SequenceMask, Return(t, clock, seq),
               sequence'[p] = seq, \A i \in 1..Len(ids[p]) : Before(ids[p][i], <<clock, seq>>)
        PROVE  Increasing(p)' /\ NotLater(p)' /\ (Resting(p)' => Latest(p)')
    <3>1. Increasing(p)' /\ Latest(p)'
      BY <2>0, <2>4, ReturnLater
    <3>2. lastTime'[p] = clock /\ ids'[p] = Append(ids[p], <<clock, seq>>)
      BY <2>4 DEF Return, TypeOK
    <3>3. \A i \in 1..Len(ids'[p]) : ids'[p][i][1] <= lastTime'[p]
      <4>1. ids[p] \in Seq(Nat \X (0..SequenceMask)) /\ Len(ids[p]) \in Nat
        BY DEF TypeOK
      <4>2. /\ Len(ids'[p]) = Len(ids[p]) + 1
            /\ ids'[p][Len(ids[p]) + 1] = <<clock, seq>>
            /\ \A i \in 1..Len(ids[p]) : ids'[p][i] = ids[p][i]
        BY <3>2, <4>1
      <4>3. ASSUME NEW i \in 1..Len(ids[p]) PROVE ids[p][i][1] <= clock
        <5>1. ids[p][i][1] \in Nat /\ Before(ids[p][i], <<clock, seq>>)
          BY <2>4, IdType
        <5> QED
          BY <2>0, <5>1 DEF Before
      <4>4. ASSUME NEW i \in 1..Len(ids'[p]) PROVE ids'[p][i][1] <= clock
        <5>1. CASE i \in 1..Len(ids[p])
          BY <4>2, <4>3, <5>1
        <5>2. CASE i = Len(ids[p]) + 1
          BY <2>0, <4>2, <5>2
        <5> QED
          BY <4>1, <4>2, <5>1, <5>2
      <4> QED
        BY <3>2, <4>4
    <3> QED
      BY <3>1, <3>3 DEF NotLater
  <2>5. ASSUME NEW t \in Threads, PodOf[t] = p, Generate(t)
        PROVE  Increasing(p)' /\ NotLater(p)' /\ (Resting(p)' => Latest(p)')
    <3>1. pc[t] \in {"idle", "back"} /\ Resting(p)
      BY <2>5, GenerateCases DEF Resting, Sole
    <3>2. CASE pc' = [pc EXCEPT ![t] = "back"] /\ UNCHANGED <<mu, sequence, lastTime, ids, exhausted>>
      BY <2>1, <3>1, <3>2
    <3>3. CASE pc' = [pc EXCEPT ![t] = "wait"] /\ UNCHANGED <<lastTime, ids>>
      <4>1. ~Resting(p)'
        BY <2>5, <3>3 DEF Resting, TypeOK
      <4> QED
        BY <2>0, <3>3, <4>1 DEF Increasing, NotLater
    <3>4. ASSUME NEW seq \in 0..SequenceMask,
                 clock > lastTime[p] \/ (clock = lastTime[p] /\ seq = sequence[p] + 1),
                 Return(t, clock, seq), sequence' = [sequence EXCEPT ![p] = seq]
          PROVE  Increasing(p)' /\ NotLater(p)' /\ (Resting(p)' => Latest(p)')
      <4>1. sequence'[p] = seq
        BY <3>4 DEF TypeOK
      <4>2. \A i \in 1..Len(ids[p]) : Before(ids[p][i], <<clock, seq>>)
        BY <2>0, <3>1, <3>4, LaterThanLatest
      <4> QED
        BY <2>4, <2>5, <3>4, <4>1, <4>2
    <3> QED
      BY <2>5, <3>2, <3>3, <3>4, GenerateCases
  <2>6. ASSUME NEW t \in Threads, PodOf[t] = p, waitNextMillisLocked(t)
        PROVE  Increasing(p)' /\ NotLater(p)' /\ (Resting(p)' => Latest(p)')
    <3>1. CASE NextMillis(clock, lastTime[p])
      <4>1. clock > lastTime[p] /\ Return(t, clock, sequence[p]) /\ sequence'[p] = sequence[p]
        BY <2>6, <3>1 DEF waitNextMillisLocked, NextMillis
      <4>2. ASSUME NEW i \in 1..Len(ids[p]) PROVE Before(ids[p][i], <<clock, sequence[p]>>)
        <5>1. ids[p][i][1] \in Nat /\ ids[p][i][1] <= lastTime[p]
          BY <2>0, IdType DEF NotLater
        <5>2. ids[p][i][1] < clock
          BY <2>0, <4>1, <5>1
        <5> QED
          BY <5>2 DEF Before
      <4> QED
        BY <2>0, <2>4, <2>6, <4>1, <4>2
    <3>2. CASE ~NextMillis(clock, lastTime[p])
      <4>1. pc' = [pc EXCEPT ![t] = "sleep"] /\ UNCHANGED <<lastTime, ids, sequence>>
        BY <2>6, <3>2 DEF waitNextMillisLocked
      <4>2. ~Resting(p)'
        BY <2>6, <4>1 DEF Resting, TypeOK
      <4> QED
        BY <2>1, <4>1, <4>2
    <3> QED
      BY <3>1, <3>2
  <2>7. ASSUME NEW t \in Threads, PodOf[t] = p, Wake(t)
        PROVE  Increasing(p)' /\ NotLater(p)' /\ (Resting(p)' => Latest(p)')
    <3>1. pc' = [pc EXCEPT ![t] = "wait"] /\ UNCHANGED <<lastTime, ids, sequence>>
      BY <2>7 DEF Wake
    <3>2. ~Resting(p)'
      BY <2>7, <3>1 DEF Resting, TypeOK
    <3> QED
      BY <2>1, <3>1, <3>2
  <2> QED
    BY <2>2, <2>3, <2>5, <2>6, <2>7 DEF Next
<1>3. SoleInv => SoleCallerIncreasing
  BY DEF SoleInv, SoleCallerIncreasing, Sole
<1> QED
  BY <1>1, <1>2, <1>3, TypeCorrect, PTL DEF Spec

-----------------------------------------------------------------------------
LEMMA HighPartNat ==
    ASSUME NEW a \in Nat, NEW n \in Nat, NEW m \in Nat
    PROVE  a * n + m \in Nat
<1>1. a * n \in Nat
  OBVIOUS
<1> DEFINE h == a * n
<1>2. h \in Nat
  BY <1>1
<1> HIDE DEF h
<1>3. h + m \in Nat
  BY <1>2
<1> QED
  BY <1>3 DEF h

(* Fields that do not overlap determine the number they are packed into:   *)
(* the high part of high * k + low is unique when low stays below k.       *)
LEMMA HighPartUnique ==
    ASSUME NEW k \in Nat \ {0}, NEW a \in Nat, NEW b \in Nat,
           NEW x \in 0..(k - 1), NEW y \in 0..(k - 1), a * k + x = b * k + y
    PROVE  a = b
<1>1. ASSUME NEW c \in Nat, NEW d \in Nat, c < d PROVE d * k >= c * k + k
  <2>1. d = c + 1 + (d - (c + 1)) /\ d - (c + 1) \in Nat
    BY <1>1
  <2>2. d * k = c * k + k + (d - (c + 1)) * k
    BY <2>1
  <2>3. (d - (c + 1)) * k >= 0
    BY <2>1
  <2> QED
    BY <2>2, <2>3, <2>1
<1>2. a * k \in Nat /\ b * k \in Nat
  OBVIOUS
<1>3. ~(a < b)
  BY <1>1, <1>2
<1>4. ~(b < a)
  BY <1>1, <1>2
<1> QED
  BY <1>3, <1>4

(* The ids of two pods with different node ids are different, for any      *)
(* interleaving and any clocks: the node field is not reached by the       *)
(* others.                                                                 *)
THEOREM PodsNeverCollide == Spec => []PodsDisjoint
<1>1. TypeOK => PodsDisjoint
  <2> SUFFICES ASSUME TypeOK, NEW p \in Pods, NEW q \in Pods,
                      NEW i \in 1..Len(ids[p]), NEW j \in 1..Len(ids[q]),
                      Encode(ids[p][i][1], NodeOf[p], ids[p][i][2])
                        = Encode(ids[q][j][1], NodeOf[q], ids[q][j][2])
               PROVE  NodeOf[p] = NodeOf[q]
    BY DEF PodsDisjoint
  <2> USE GeneratorAssumption
  <2> DEFINE a == ids[p][i][1]
             b == ids[q][j][1]
             x == ids[p][i][2]
             y == ids[q][j][2]
             n == MaxNodeID + 1
             k == SequenceMask + 1
             A == a * n + NodeOf[p]
             B == b * n + NodeOf[q]
  <2>1. /\ a \in Nat /\ x \in 0..SequenceMask
        /\ b \in Nat /\ y \in 0..SequenceMask
    BY IdType
  <2>2. /\ a \in Nat /\ b \in Nat /\ x \in 0..(k - 1) /\ y \in 0..(k - 1)
        /\ n \in Nat \ {0} /\ k \in Nat \ {0}
        /\ NodeOf[p] \in 0..(n - 1) /\ NodeOf[q] \in 0..(n - 1)
    BY <2>1
  <2>3. A * k + x = B * k + y
    BY DEF Encode
  <2> HIDE DEF a, b, x, y, n, k
  <2>4. A \in Nat /\ B \in Nat
    <3> NodeOf[p] \in Nat /\ NodeOf[q] \in Nat /\ n \in Nat
      BY <2>2
    <3> QED
      BY <2>2, HighPartNat
  <2>5. A = B
    <3> HIDE DEF A, B
    <3> QED
      BY <2>2, <2>3, <2>4, HighPartUnique
  <2>6. a = b
    BY <2>2, <2>5, HighPartUnique
  <2> QED
    BY <2>2, <2>5, <2>6
<1> QED
  BY <1>1, TypeCorrect, PTL
=============================================================================
