-------------------------- MODULE RateLimitProofs --------------------------
(***************************************************************************)
(* The sliding window admits no burst and denies nothing without cause,    *)
(* for every limit, window and lag.                                        *)
(***************************************************************************)
EXTENDS RateLimit, FiniteSetTheorems, TLAPS

Inv == TypeOK /\ WindowInv

(* The stamps a request may carry when the script runs.                    *)
Timely(s) == s \in 0..now /\ now <= s + Lag

LEMMA GrantTyped ==
    ASSUME TypeOK, NEW k \in Granted
    PROVE  grants[k].at \in Nat /\ grants[k].stamp \in Nat
  <1> DEFINE R == [at: Nat, stamp: Nat]
  <1>1. grants \in Seq(R) /\ k \in 1..Len(grants)
    BY DEF TypeOK, Granted
  <1>2. grants[k] \in R
    <2> HIDE DEF R
    <2> QED
      BY <1>1
  <1> QED
    BY <1>2

(* Any set of grants is finite, so that its cardinality makes sense.       *)
LEMMA GrantsFinite ==
    ASSUME TypeOK, NEW S \in SUBSET Granted
    PROVE  IsFiniteSet(S) /\ Cardinality(S) \in Nat
  <1>1. Len(grants) \in Nat
    BY DEF TypeOK
  <1>2. IsFiniteSet(Granted)
    BY <1>1, FS_Interval DEF Granted
  <1> QED
    BY <1>2, FS_Subset, FS_CardinalityType

(* The entries the script keeps are among those that were there.           *)
LEMMA KeptIsSubset ==
    ASSUME TypeOK, NEW s
    PROVE  /\ Kept(s) \subseteq entries
           /\ IsFiniteSet(Kept(s))
           /\ Cardinality(Kept(s)) \in Nat
           /\ Cardinality(Kept(s)) <= Limit
  <1>1. Kept(s) \subseteq entries
    BY DEF Kept, Alive
  <1>2. entries \subseteq Granted
    BY DEF TypeOK
  <1>3. IsFiniteSet(entries) /\ Cardinality(entries) \in Nat
    BY <1>2, GrantsFinite
  <1>4. IsFiniteSet(Kept(s)) /\ Cardinality(Kept(s)) \in Nat
    BY <1>1, <1>2, GrantsFinite
  <1>5. Cardinality(Kept(s)) <= Cardinality(entries)
    BY <1>1, <1>3, FS_Subset
  <1> QED
    BY <1>1, <1>3, <1>4, <1>5, RateLimitAssumption DEF TypeOK

(* An entry the script does not keep has left the window, up to Lag.       *)
LEMMA GoneIsOld ==
    ASSUME Inv, NEW s, Timely(s), NEW k \in Granted, k \notin Kept(s)
    PROVE  grants[k].at + Window <= now + Lag
  <1>1. /\ now \in Nat /\ expires \in Nat /\ s \in Nat /\ Window \in Nat /\ Lag \in Nat
        /\ grants[k].at \in Nat /\ grants[k].stamp \in Nat
    <2>1. grants[k].at \in Nat /\ grants[k].stamp \in Nat
      BY GrantTyped DEF Inv
    <2>2. now \in Nat /\ expires \in Nat
      BY DEF Inv, TypeOK
    <2>3. s \in Nat
      BY <2>2 DEF Timely
    <2> QED
      BY <2>1, <2>2, <2>3, RateLimitAssumption
  <1>2. /\ grants[k].at <= grants[k].stamp + Lag
        /\ grants[k].at + Window <= expires
    BY DEF Inv, WindowInv
  <1>3. CASE k \notin entries
    BY <1>3 DEF Inv, WindowInv
  <1>4. CASE k \in entries /\ ~(now < expires)
    BY <1>1, <1>2, <1>4
  <1>5. CASE k \in entries /\ now < expires
    <2>1. ~(grants[k].stamp + Window > s)
      BY <1>5 DEF Kept, Alive, Keeps
    <2>2. s <= now
      BY <1>1 DEF Timely
    <2> QED
      BY <1>1, <1>2, <2>1, <2>2
  <1> QED
    BY <1>3, <1>4, <1>5

LEMMA TypeStep ==
    ASSUME TypeOK, [Next]_vars
    PROVE  TypeOK'
  <1> USE RateLimitAssumption
  <1>1. ASSUME NEW s \in 0..now, now <= s + Lag, Grant(s)
        PROVE  TypeOK'
    <2>1. s \in Nat
      BY <1>1 DEF TypeOK
    <2>2. grants' \in Seq([at: Nat, stamp: Nat]) /\ Len(grants') = Len(grants) + 1
      BY <1>1, <2>1 DEF Grant, TypeOK
    <2>3. entries' \subseteq Granted'
      <3>1. Len(grants) \in Nat /\ Kept(s) \subseteq 1..Len(grants)
        <4>1. Len(grants) \in Nat /\ entries \subseteq 1..Len(grants)
          BY DEF TypeOK, Granted
        <4>2. Kept(s) \subseteq entries
          BY KeptIsSubset
        <4> QED
          BY <4>1, <4>2
      <3>2. Granted' = 1..(Len(grants) + 1)
        BY <2>2 DEF Granted
      <3>3. entries' = Kept(s) \cup {Len(grants) + 1}
        BY <1>1 DEF Grant
      <3> QED
        BY <3>1, <3>2, <3>3
    <2>4. Len(grants) + 1 \notin Kept(s)
      <3>1. Len(grants) \in Nat /\ Kept(s) \subseteq 1..Len(grants)
        <4>1. Len(grants) \in Nat /\ entries \subseteq 1..Len(grants)
          BY DEF TypeOK, Granted
        <4>2. Kept(s) \subseteq entries
          BY KeptIsSubset
        <4> QED
          BY <4>1, <4>2
      <3> QED
        BY <3>1
    <2>5. Cardinality(entries') = Cardinality(Kept(s)) + 1
      BY <1>1, <2>4, KeptIsSubset, FS_AddElement DEF Grant
    <2>6. Cardinality(entries') <= Limit
      BY <1>1, <2>5, KeptIsSubset DEF Grant, HasRoom
    <2> QED
      BY <1>1, <2>2, <2>3, <2>6 DEF Grant, TypeOK
  <1>2. ASSUME NEW s \in 0..now, now <= s + Lag, Deny(s)
        PROVE  TypeOK'
    BY <1>2, KeptIsSubset DEF Deny, TypeOK, Granted
  <1>3. CASE Unreachable
    BY <1>3 DEF Unreachable, TypeOK, Granted
  <1>4. CASE Tick
    BY <1>4 DEF Tick, TypeOK, Granted
  <1>5. CASE UNCHANGED vars
    BY <1>5 DEF vars, TypeOK, Granted
  <1> QED
    BY <1>1, <1>2, <1>3, <1>4, <1>5 DEF Next

LEMMA WindowStep ==
    ASSUME Inv, [Next]_vars
    PROVE  WindowInv'
  <1> USE RateLimitAssumption
  <1>0. TypeOK /\ WindowInv /\ now \in Nat /\ expires \in Nat /\ Len(grants) \in Nat
    BY DEF Inv, TypeOK
  <1>1. ASSUME NEW s \in 0..now, now <= s + Lag, Grant(s)
        PROVE  WindowInv'
    <2> DEFINE n == Len(grants) + 1
    <2>1. s \in Nat /\ s <= now /\ Timely(s)
      BY <1>0, <1>1 DEF Timely
    <2>2. /\ Granted' = Granted \cup {n}
          /\ \A k \in Granted : grants'[k] = grants[k]
          /\ grants'[n] = [at |-> now, stamp |-> s]
      BY <1>0, <1>1, <2>1 DEF Grant, Granted, TypeOK
    <2>3. \A k \in Granted : grants[k].at \in Nat /\ grants[k].stamp \in Nat
      BY <1>0, GrantTyped
    <2>4. now' = now /\ expires' = now + Window /\ entries' = Kept(s) \cup {n}
      BY <1>1 DEF Grant
    <2>5. \A k \in Granted' : /\ grants'[k].stamp <= grants'[k].at /\ grants'[k].at <= now'
                              /\ grants'[k].at <= grants'[k].stamp + Lag
                              /\ grants'[k].at + Window <= expires'
      <3>1. ASSUME NEW k \in Granted
            PROVE  /\ grants[k].stamp <= grants[k].at /\ grants[k].at <= now
                   /\ grants[k].at <= grants[k].stamp + Lag
                   /\ grants[k].at + Window <= now + Window
        BY <1>0, <2>3 DEF WindowInv
      <3>2. s <= now /\ now <= now /\ now <= s + Lag /\ now + Window <= now + Window
        BY <1>0, <1>1, <2>1
      <3> QED
        BY <2>2, <2>4, <3>1, <3>2
    <2>6. \A i, j \in Granted' : i <= j => grants'[i].at <= grants'[j].at
      <3>1. ASSUME NEW i \in Granted', NEW j \in Granted', i <= j
            PROVE  grants'[i].at <= grants'[j].at
        <4>1. CASE i \in Granted /\ j \in Granted
          BY <1>0, <2>2, <3>1, <4>1 DEF WindowInv
        <4>2. CASE i \in Granted /\ j = n
          BY <1>0, <2>2, <4>2 DEF WindowInv
        <4>3. CASE i = n
          BY <1>0, <2>2, <3>1, <4>3 DEF Granted
        <4> QED
          BY <2>2, <4>1, <4>2, <4>3
      <3> QED
        BY <3>1
    <2>7. \A k \in Granted' \ entries' : grants'[k].at + Window <= now' + Lag
      <3>1. ASSUME NEW k \in Granted, k \notin Kept(s)
            PROVE  grants[k].at + Window <= now + Lag
        BY <2>1, <3>1, GoneIsOld
      <3> QED
        BY <2>2, <2>4, <3>1
    <2> QED
      BY <2>5, <2>6, <2>7 DEF WindowInv
  <1>2. ASSUME NEW s \in 0..now, now <= s + Lag, Deny(s)
        PROVE  WindowInv'
    <2>1. Timely(s)
      BY <1>2 DEF Timely
    <2>2. \A k \in Granted \ Kept(s) : grants[k].at + Window <= now + Lag
      BY <2>1, GoneIsOld
    <2> QED
      BY <1>0, <1>2, <2>2 DEF Deny, WindowInv, Granted
  <1>3. CASE Unreachable
    BY <1>0, <1>3 DEF Unreachable, WindowInv, Granted
  <1>4. CASE Tick
    <2>1. \A k \in Granted : grants[k].at \in Nat /\ grants[k].stamp \in Nat
      BY <1>0, GrantTyped
    <2>2. now' = now + 1 /\ UNCHANGED <<grants, entries, expires>> /\ Granted' = Granted
      BY <1>4 DEF Tick, Granted
    <2> QED
      BY <1>0, <2>1, <2>2 DEF WindowInv
  <1>5. CASE UNCHANGED vars
    BY <1>0, <1>5 DEF vars, WindowInv, Granted
  <1> QED
    BY <1>1, <1>2, <1>3, <1>4, <1>5 DEF Next

LEMMA InvInit == Init => Inv
  <1> SUFFICES ASSUME Init PROVE Inv
    OBVIOUS
  <1> USE RateLimitAssumption
  <1>1. Granted = {} /\ entries = {} /\ Cardinality(entries) = 0
    BY FS_EmptySet DEF Init, Granted
  <1>2. TypeOK
    BY <1>1 DEF Init, TypeOK
  <1> QED
    BY <1>1, <1>2 DEF Inv, WindowInv

LEMMA InvStep == Inv /\ [Next]_vars => Inv'
  BY TypeStep, WindowStep DEF Inv

(* The sorted set of a key never holds more than Limit entries, all of     *)
(* them requests the script granted.                                       *)
THEOREM TypeCorrect == Spec => []TypeOK
  <1>1. Inv => TypeOK
    BY DEF Inv
  <1> QED
    BY <1>1, InvInit, InvStep, PTL DEF Spec

-----------------------------------------------------------------------------
(* Of the last Limit grants, one is missing from a set of fewer than Limit *)
(* grants.                                                                 *)
LEMMA Pigeonhole ==
    ASSUME TypeOK, NEW S \in SUBSET Granted, Cardinality(S) < Limit, Len(grants) >= Limit
    PROVE  \E k \in Granted : k > Len(grants) - Limit /\ k \notin S
  <1> DEFINE n == Len(grants)
             Last == (n - Limit + 1)..n
  <1>0. n \in Nat /\ Limit \in Nat \ {0} /\ IsFiniteSet(S) /\ Cardinality(S) \in Nat
    BY RateLimitAssumption, GrantsFinite DEF TypeOK
  <1>1. IsFiniteSet(Last) /\ Cardinality(Last) = Limit
    <2>1. n - Limit + 1 \in Int /\ n \in Int /\ ~(n - Limit + 1 > n)
      BY <1>0
    <2>2. n - (n - Limit + 1) + 1 = Limit
      BY <1>0
    <2> QED
      BY <2>1, <2>2, FS_Interval
  <1>2. ~(Last \subseteq S)
    <2> SUFFICES ASSUME Last \subseteq S PROVE FALSE
      OBVIOUS
    <2>1. Cardinality(Last) <= Cardinality(S)
      BY <1>0, FS_Subset
    <2> QED
      BY <1>0, <1>1, <2>1
  <1>3. PICK k \in Last : k \notin S
    BY <1>2
  <1>4. k \in Granted /\ k > n - Limit
    BY <1>0, <1>3 DEF Granted
  <1> QED
    BY <1>3, <1>4

LEMMA EarlierIsOlder ==
    ASSUME NEW a \in Nat, NEW b \in Nat, NEW m \in Nat, a <= b, b + Window <= m + Lag
    PROVE  a + Window <= m + Lag
  BY RateLimitAssumption

LEMMA LimitStep ==
    ASSUME Inv, LimitHolds, [Next]_vars
    PROVE  LimitHolds'
  <1> USE RateLimitAssumption
  <1>0. TypeOK /\ WindowInv /\ now \in Nat /\ Len(grants) \in Nat
    BY DEF Inv, TypeOK
  <1>1. ASSUME NEW s \in 0..now, now <= s + Lag, Grant(s)
        PROVE  LimitHolds'
    <2> DEFINE n == Len(grants) + 1
    <2>1. s \in Nat /\ Timely(s)
      BY <1>0, <1>1 DEF Timely
    <2>2. /\ Granted' = Granted \cup {n} /\ n \notin Granted
          /\ \A k \in Granted : grants'[k] = grants[k]
          /\ grants'[n] = [at |-> now, stamp |-> s]
      BY <1>0, <1>1, <2>1 DEF Grant, Granted, TypeOK
    <2>3. ASSUME NEW i \in Granted, n = i + Limit
          PROVE  grants[i].at + Window <= now + Lag
      <3>1. i \in Nat /\ i = Len(grants) + 1 - Limit /\ Len(grants) >= Limit
        BY <1>0, <2>3 DEF Granted
      <3>2. Kept(s) \subseteq Granted /\ Cardinality(Kept(s)) < Limit
        BY <1>0, <1>1, KeptIsSubset DEF TypeOK, Grant, HasRoom
      <3>3. PICK k \in Granted : k > Len(grants) - Limit /\ k \notin Kept(s)
        BY <1>0, <3>1, <3>2, Pigeonhole
      <3>4. grants[k].at + Window <= now + Lag
        BY <2>1, <3>3, GoneIsOld
      <3>5. grants[i].at <= grants[k].at
        <4>1. i <= k
          BY <1>0, <3>1, <3>3 DEF Granted
        <4> QED
          BY <1>0, <2>3, <3>3, <4>1 DEF WindowInv
      <3>6. grants[i].at \in Nat /\ grants[k].at \in Nat
        BY <1>0, <2>3, <3>3, GrantTyped
      <3> QED
        BY <1>0, <3>4, <3>5, <3>6, EarlierIsOlder
    <2>4. ASSUME NEW i \in Granted', NEW j \in Granted', j = i + Limit
          PROVE  grants'[i].at + Window <= grants'[j].at + Lag
      <3>1. CASE i \in Granted /\ j \in Granted
        BY <2>2, <2>4, <3>1 DEF LimitHolds
      <3>2. CASE i \in Granted /\ j = n
        BY <2>2, <2>3, <2>4, <3>2
      <3>3. CASE i = n
        BY <1>0, <2>2, <2>4, <3>3 DEF Granted
      <3> QED
        BY <2>2, <3>1, <3>2, <3>3
    <2> QED
      BY <2>4 DEF LimitHolds
  <1>2. CASE UNCHANGED grants
    BY <1>2 DEF LimitHolds, Granted
  <1> QED
    BY <1>1, <1>2 DEF Next, Deny, Unreachable, Tick, vars

(* No burst beyond Limit passes: the script that CheckRateLimit runs       *)
(* spaces every Limit + 1 grants over a window, less the delay of stamps.  *)
THEOREM NoBurst == Spec => []LimitHolds
  <1>1. Init => LimitHolds
    BY DEF Init, LimitHolds, Granted
  <1>2. Inv /\ LimitHolds /\ [Next]_vars => LimitHolds'
    BY LimitStep
  <1> QED
    BY <1>1, <1>2, InvInit, InvStep, PTL DEF Spec

-----------------------------------------------------------------------------
LEMMA DenialStep ==
    ASSUME Inv, DenialJustified, [Next]_vars
    PROVE  DenialJustified'
  <1> USE RateLimitAssumption
  <1>0. TypeOK /\ WindowInv /\ now \in Nat /\ Len(grants) \in Nat
    BY DEF Inv, TypeOK
  <1>1. ASSUME NEW s \in 0..now, now <= s + Lag, Deny(s)
        PROVE  DenialJustified'
    <2> DEFINE Recent == {k \in Granted : grants[k].at + Window + Lag > now}
    <2>1. Kept(s) \subseteq Recent
      <3>1. ASSUME NEW k \in Kept(s)
            PROVE  k \in Granted /\ grants[k].at + Window + Lag > now
        <4>1. k \in Granted
          BY <1>0, KeptIsSubset DEF TypeOK
        <4>2. grants[k].at \in Nat /\ grants[k].stamp \in Nat /\ grants[k].stamp <= grants[k].at
          BY <1>0, <4>1, GrantTyped DEF WindowInv
        <4>3. grants[k].stamp + Window > s
          BY DEF Kept, Keeps
        <4> QED
          BY <1>0, <1>1, <4>1, <4>2, <4>3
      <3> QED
        BY <3>1
    <2>2. IsFiniteSet(Recent) /\ Cardinality(Recent) \in Nat
      BY <1>0, GrantsFinite
    <2>3. Cardinality(Kept(s)) <= Cardinality(Recent)
      BY <2>1, <2>2, FS_Subset
    <2>4. Cardinality(Kept(s)) \in Nat /\ Cardinality(Kept(s)) >= Limit
      BY <1>0, <1>1, KeptIsSubset DEF Deny, HasRoom
    <2>5. Cardinality(Recent) >= Limit
      BY <2>2, <2>3, <2>4
    <2> QED
      BY <1>1, <2>5 DEF Deny, DenialJustified, Granted
  <1>2. CASE UNCHANGED vars
    BY <1>2 DEF vars, DenialJustified, Granted
  <1>3. CASE verdict' # "denied"
    BY <1>3 DEF DenialJustified
  <1> QED
    BY <1>1, <1>2, <1>3 DEF Next, Grant, Unreachable, Tick

(* Whoever gets status 429 has used up the window: Limit requests were     *)
(* granted within it, give or take the delay of the stamps.                *)
THEOREM DenialsAreJustified == Spec => []DenialJustified
  <1>1. Init => DenialJustified
    BY DEF Init, DenialJustified
  <1>2. Inv /\ DenialJustified /\ [Next]_vars => DenialJustified'
    BY DenialStep
  <1> QED
    BY <1>1, <1>2, InvInit, InvStep, PTL DEF Spec
=============================================================================
