---------------------------- MODULE TokensProofs ----------------------------
(***************************************************************************)
(* Proofs about sessions: for any number of requests in progress, any      *)
(* lifetimes and any failures of Redis.                                    *)
(***************************************************************************)
EXTENDS Tokens, SequenceTheorems, TLAPS

(* The fields of the tokens issued so far.                                 *)
LEMMA TokenType ==
    ASSUME TypeOK
    PROVE  /\ Len(tokens) \in Nat /\ Issued \subseteq Jti
           /\ \A j \in Issued : tokens[j] \in [kind: {"access", "refresh"}, exp: Nat]
           /\ \A j \in Issued : tokens[j].exp \in Nat /\ TTL(tokens[j].kind) \in Nat
<1> DEFINE T == [kind: {"access", "refresh"}, exp: Nat]
<1>1. tokens \in Seq(T) /\ Len(tokens) <= MaxTokens /\ Len(tokens) \in Nat
  BY DEF TypeOK
<1>2. \A j \in Issued : tokens[j] \in T
  <2> HIDE DEF T
  <2> QED
    BY <1>1 DEF Issued
<1>3. \A j \in Issued : tokens[j].exp \in Nat
  BY <1>2
<1>4. \A j \in Issued : TTL(tokens[j].kind) \in Nat
  BY TokensAssumption DEF TTL
<1>5. Issued \subseteq Jti
  BY <1>1, TokensAssumption DEF Issued, Jti
<1> QED
  BY <1>1, <1>2, <1>3, <1>4, <1>5

(* Issuing a pair adds two well-formed tokens at the end and changes none  *)
(* of the others.                                                          *)
LEMMA NewPairIssued ==
    ASSUME TypeOK, Len(tokens) + 2 <= MaxTokens, tokens' = tokens \o NewPair
    PROVE  /\ tokens' \in Seq([kind: {"access", "refresh"}, exp: Nat])
           /\ Len(tokens') = Len(tokens) + 2 /\ Len(tokens) \in Nat
           /\ \A j \in Issued : tokens'[j] = tokens[j]
           /\ \A j \in Issued' \ Issued : tokens'[j].exp = now + TTL(tokens'[j].kind)
<1> DEFINE T == [kind: {"access", "refresh"}, exp: Nat]
<1>1. NewPair \in Seq(T) /\ Len(NewPair) = 2
  BY TokensAssumption DEF TypeOK, NewPair
<1>2. tokens \in Seq(T) /\ Len(tokens) \in Nat
  BY DEF TypeOK
<1> HIDE DEF T
<1>3. /\ tokens' \in Seq(T) /\ Len(tokens') = Len(tokens) + 2
      /\ \A i \in 1..(Len(tokens) + 2) :
            tokens'[i] = IF i <= Len(tokens) THEN tokens[i] ELSE NewPair[i - Len(tokens)]
  <2>1. /\ tokens \o NewPair \in Seq(T)
        /\ Len(tokens \o NewPair) = Len(tokens) + Len(NewPair)
        /\ \A i \in 1..(Len(tokens) + Len(NewPair)) :
              (tokens \o NewPair)[i] = IF i <= Len(tokens) THEN tokens[i] ELSE NewPair[i - Len(tokens)]
    BY <1>1, <1>2, ConcatProperties, Zenon
  <2> QED
    BY <1>1, <2>1, Zenon
<1>4. \A j \in Issued : tokens'[j] = tokens[j]
  BY <1>2, <1>3 DEF Issued
<1>5. /\ tokens'[Len(tokens) + 1] = NewPair[1]
      /\ tokens'[Len(tokens) + 2] = NewPair[2]
  BY <1>2, <1>3
<1>6. Issued' \ Issued = {Len(tokens) + 1, Len(tokens) + 2}
  BY <1>2, <1>3 DEF Issued
<1>7. NewPair[1].exp = now + TTL(NewPair[1].kind) /\ NewPair[2].exp = now + TTL(NewPair[2].kind)
  BY DEF NewPair, TTL
<1> QED
  BY <1>2, <1>3, <1>4, <1>5, <1>6, <1>7 DEF T

(* An entry made now is a number of the clock.                             *)
LEMMA InvalidateTokenType ==
    ASSUME TypeOK, NEW j \in Issued, InvalidateToken(j)
    PROVE  /\ j \in Jti
           /\ blacklist' \in [Jti -> Nat]
           /\ blacklist'[j] = now + TTL(tokens[j].kind)
           /\ \A i \in Jti \ {j} : blacklist'[i] = blacklist[i]
<1>1. j \in Jti
  BY TokensAssumption DEF TypeOK, Issued, Jti
<1>2. TTL(tokens[j].kind) \in Nat
  BY TokensAssumption DEF TTL
<1> QED
  BY <1>1, <1>2 DEF TypeOK, InvalidateToken, BlacklistTTL

(* Type correctness: every token a request holds, or history mentions, was *)
(* issued.                                                                 *)
THEOREM TypeCorrect == Spec => []TypeOK
<1>1. Init => TypeOK
  BY TokensAssumption DEF Init, TypeOK, Idle, Call, Jti, Issued, None
<1>2. TypeOK /\ [Next]_vars => TypeOK'
  <2> SUFFICES ASSUME TypeOK, [Next]_vars PROVE TypeOK'
    OBVIOUS
  <2>0. /\ Issued \subseteq Jti /\ None \notin Jti
        /\ Len(tokens) \in Nat
    BY TokensAssumption DEF TypeOK, Issued, Jti, None
  <2>1. CASE UNCHANGED vars
    BY <2>1 DEF vars, TypeOK, Issued
  <2>2. CASE Tick
    BY <2>2 DEF Tick, TypeOK, Issued
  <2>3. CASE Login
    <3>1. /\ tokens' \in Seq([kind: {"access", "refresh"}, exp: Nat]) /\ Len(tokens') <= MaxTokens
          /\ Issued \subseteq Issued'
      BY <2>0, <2>3, NewPairIssued DEF Login, Issued
    <3>2. UNCHANGED <<now, blacklist, call, revoked, accepted, unchecked>>
      BY <2>3 DEF Login
    <3> QED
      BY <3>1, <3>2 DEF TypeOK
  <2>4. ASSUME NEW j \in Issued, ValidateToken(j) PROVE TypeOK'
    BY <2>4 DEF ValidateToken, LetIn, TypeOK, Issued
  <2>5. ASSUME NEW c \in Calls, NEW j \in Issued, RefreshCheck(c, j) PROVE TypeOK'
    BY <2>0, <2>5 DEF RefreshCheck, LetIn, TypeOK, Issued, Call, Idle
  <2>6. ASSUME NEW c \in Calls, NEW a \in Issued, NEW r \in Issued \cup {None}, LogoutStart(c, a, r)
        PROVE  TypeOK'
    BY <2>0, <2>6 DEF LogoutStart, LetIn, TypeOK, Issued, Call, Idle
  <2>7. ASSUME NEW c \in Calls, RefreshIssue(c) PROVE TypeOK'
    <3>1. call[c].refresh \in Issued /\ call[c].refresh \in Jti
      BY <2>0, <2>7 DEF RefreshIssue, TypeOK
    <3>2. blacklist' \in [Jti -> Nat]
      BY <2>7, <3>1, InvalidateTokenType DEF RefreshIssue
    <3>4. /\ tokens' \in Seq([kind: {"access", "refresh"}, exp: Nat]) /\ Len(tokens') <= MaxTokens
          /\ Issued \subseteq Issued'
      BY <2>0, <2>7, NewPairIssued DEF RefreshIssue, Issued
    <3>5. call' \in [Calls -> Call] /\ \A d \in Calls : call'[d].op = "idle" \/ call'[d] = call[d]
      BY <2>7 DEF RefreshIssue, TypeOK, Call, Idle
    <3>6. /\ now' \in Nat \ {0} /\ revoked' \subseteq Issued'
          /\ accepted' \subseteq revoked' /\ unchecked' \subseteq Issued'
      BY <2>7, <3>1, <3>4 DEF RefreshIssue, TypeOK
    <3>7. \A d \in Calls :
             /\ call'[d].op = "refresh" => call'[d].refresh \in Issued'
             /\ call'[d].op \in {"logoutAccess", "logoutRefresh"} => call'[d].access \in Issued'
             /\ call'[d].op = "logoutAccess" => call'[d].refresh \in Issued' \cup {None}
             /\ call'[d].op = "logoutRefresh" => call'[d].refresh \in Issued'
      BY <3>4, <3>5 DEF TypeOK
    <3> QED
      BY <3>2, <3>4, <3>5, <3>6, <3>7 DEF TypeOK
  <2>8. ASSUME NEW c \in Calls, LogoutAccess(c) PROVE TypeOK'
    <3>1. call[c].access \in Issued
      BY <2>8 DEF LogoutAccess, TypeOK
    <3>2. blacklist' \in [Jti -> Nat]
      BY <2>8, <3>1, InvalidateTokenType DEF LogoutAccess
    <3>3. UNCHANGED <<now, tokens, accepted, unchecked>> /\ Issued' = Issued
      BY <2>8 DEF LogoutAccess, Issued
    <3>4. CASE call[c].refresh = None
      <4>1. call' = [call EXCEPT ![c] = Idle] /\ revoked' = revoked \cup {call[c].access}
        BY <2>8, <3>4 DEF LogoutAccess
      <4> QED
        BY <3>1, <3>2, <3>3, <4>1 DEF TypeOK, Call, Idle
    <3>5. CASE call[c].refresh # None
      <4>1. call' = [call EXCEPT ![c].op = "logoutRefresh"] /\ UNCHANGED revoked
        BY <2>8, <3>5 DEF LogoutAccess
      <4>2. call[c].refresh \in Issued
        BY <2>8, <3>5 DEF LogoutAccess, TypeOK
      <4>3. call' \in [Calls -> Call]
        BY <4>1 DEF TypeOK, Call
      <4>4. \A d \in Calls : call'[d] = call[d] \/ (/\ call'[d].op = "logoutRefresh"
                                                  /\ call'[d].access = call[c].access
                                                  /\ call'[d].refresh = call[c].refresh)
        BY <4>1 DEF TypeOK, Call
      <4> QED
        BY <3>1, <3>2, <3>3, <4>1, <4>2, <4>3, <4>4 DEF TypeOK
    <3> QED
      BY <3>4, <3>5
  <2>9. ASSUME NEW c \in Calls, LogoutRefresh(c) PROVE TypeOK'
    <3>1. call[c].access \in Issued /\ call[c].refresh \in Issued
      BY <2>9 DEF LogoutRefresh, TypeOK
    <3>2. blacklist' \in [Jti -> Nat]
      BY <2>9, <3>1, InvalidateTokenType DEF LogoutRefresh
    <3> QED
      BY <2>0, <2>9, <3>1, <3>2 DEF LogoutRefresh, TypeOK, Issued, Call, Idle
  <2>10. ASSUME NEW c \in Calls, InvalidateFails(c) PROVE TypeOK'
    BY <2>10 DEF InvalidateFails, TypeOK, Issued, Call, Idle
  <2> QED
    BY <2>1, <2>2, <2>3, <2>4, <2>5, <2>6, <2>7, <2>8, <2>9, <2>10 DEF Next
<1> QED
  BY <1>1, <1>2, PTL DEF Spec

-----------------------------------------------------------------------------
(* An entry made now for a token outlives it, and entries of other tokens  *)
(* are left alone, so no revocation is shortened.                          *)
LEMMA InvalidateOutlives ==
    ASSUME TypeOK, RevocationInv, NEW j \in Issued, InvalidateToken(j)
    PROVE  /\ blacklist'[j] >= tokens[j].exp
           /\ \A i \in Issued : Outlives(i) => blacklist'[i] >= tokens[i].exp
<1>1. tokens[j].exp <= now + TTL(tokens[j].kind)
  BY DEF RevocationInv
<1>2. blacklist'[j] >= tokens[j].exp
  BY <1>1, InvalidateTokenType
<1>3. Issued \subseteq Jti
  BY TokensAssumption DEF TypeOK, Issued, Jti
<1> QED
  BY <1>2, <1>3, InvalidateTokenType DEF Outlives

(* The revocation of a token outlives the token, whatever overlaps and     *)
(* whatever Redis commands fail.                                           *)
THEOREM RevocationHolds == Spec => []RevokedStaysOut
<1>1. Init => RevocationInv
  BY DEF Init, RevocationInv, Issued, Idle
<1>2. TypeOK /\ TypeOK' /\ RevocationInv /\ [Next]_vars => RevocationInv'
  <2> SUFFICES ASSUME TypeOK, TypeOK', RevocationInv, [Next]_vars PROVE RevocationInv'
    OBVIOUS
  <2>0. /\ \A j \in Issued : tokens[j].exp \in Nat /\ TTL(tokens[j].kind) \in Nat
        /\ now \in Nat /\ revoked \subseteq Issued /\ Len(tokens) \in Nat
        /\ \A c \in Calls : call[c].op = "logoutRefresh" => call[c].access \in Issued
    BY TokenType DEF TypeOK
  <2>1. ASSUME UNCHANGED <<now, tokens, blacklist, revoked>>,
               \A c \in Calls : call'[c].op = "logoutRefresh" => call'[c] = call[c]
        PROVE  RevocationInv'
    BY <2>1 DEF RevocationInv, Outlives, Issued, TTL
  <2>2. CASE Tick
    BY <2>0, <2>2 DEF Tick, RevocationInv, Outlives, Issued, TTL
  <2>3. ASSUME NEW j \in Issued, ValidateToken(j) PROVE RevocationInv'
    BY <2>1, <2>3 DEF ValidateToken
  <2>4. ASSUME NEW c \in Calls, NEW j \in Issued, RefreshCheck(c, j) PROVE RevocationInv'
    BY <2>1, <2>4 DEF RefreshCheck, TypeOK
  <2>5. ASSUME NEW c \in Calls, NEW a \in Issued, NEW r \in Issued \cup {None}, LogoutStart(c, a, r)
        PROVE  RevocationInv'
    BY <2>1, <2>5 DEF LogoutStart, TypeOK
  <2>6. ASSUME NEW c \in Calls, InvalidateFails(c) PROVE RevocationInv'
    BY <2>1, <2>6 DEF InvalidateFails, TypeOK, Idle
  <2>7. ASSUME Len(tokens) + 2 <= MaxTokens, tokens' = tokens \o NewPair, UNCHANGED now
        PROVE  /\ \A j \in Issued' : tokens'[j].exp <= now' + TTL(tokens'[j].kind)
               /\ \A j \in Issued : tokens'[j] = tokens[j]
    <3>1. /\ \A j \in Issued : tokens'[j] = tokens[j]
          /\ \A j \in Issued' \ Issued : tokens'[j].exp = now + TTL(tokens'[j].kind)
      BY <2>7, NewPairIssued
    <3>2. /\ \A j \in Issued' : tokens'[j].exp \in Nat
          /\ \A j \in Issued : tokens[j].exp <= now + TTL(tokens[j].kind)
      <4>1. \A j \in Issued' \ Issued : TTL(tokens'[j].kind) \in Nat
        BY TokensAssumption DEF TTL
      <4> QED
        BY <2>0, <3>1, <4>1 DEF RevocationInv
    <3>3. ASSUME NEW j \in Issued' PROVE tokens'[j].exp <= now' + TTL(tokens'[j].kind)
      <4>1. CASE j \in Issued
        BY <2>7, <3>1, <3>2, <4>1
      <4>2. CASE j \notin Issued
        <5>1. tokens'[j].exp = now + TTL(tokens'[j].kind) /\ now' = now
          BY <2>7, <3>1, <3>3, <4>2
        <5>2. tokens'[j].exp \in Nat
          BY <3>2, <3>3
        <5> QED
          BY <5>1, <5>2
      <4> QED
        BY <4>1, <4>2
    <3> QED
      BY <3>1, <3>3
  <2>8. CASE Login
    <3>1. \A j \in Issued : tokens'[j] = tokens[j]
      BY <2>7, <2>8 DEF Login
    <3> QED
      BY <2>0, <2>7, <2>8, <3>1 DEF Login, RevocationInv, Outlives
  <2>9. ASSUME NEW c \in Calls, RefreshIssue(c) PROVE RevocationInv'
    <3> DEFINE k == call[c].refresh
    <3>1. k \in Issued
      BY <2>9 DEF RefreshIssue, TypeOK
    <3>2. /\ blacklist'[k] >= tokens[k].exp
          /\ \A i \in Issued : Outlives(i) => blacklist'[i] >= tokens[i].exp
      BY <2>9, <3>1, InvalidateOutlives DEF RefreshIssue
    <3>3. \A j \in Issued : tokens'[j] = tokens[j]
      BY <2>7, <2>9 DEF RefreshIssue
    <3>4. /\ \A j \in Issued' : tokens'[j].exp <= now' + TTL(tokens'[j].kind)
          /\ revoked' = revoked \cup {k}
      BY <2>7, <2>9 DEF RefreshIssue
    <3>5. \A d \in Calls : call'[d].op = "logoutRefresh" => call'[d] = call[d]
      BY <2>9 DEF RefreshIssue, TypeOK, Idle
    <3> QED
      BY <2>0, <3>1, <3>2, <3>3, <3>4, <3>5 DEF RevocationInv, Outlives
  <2>10. ASSUME NEW c \in Calls, LogoutAccess(c) PROVE RevocationInv'
    <3> DEFINE k == call[c].access
    <3>1. k \in Issued /\ UNCHANGED <<now, tokens>>
      BY <2>10 DEF LogoutAccess, TypeOK
    <3>2. /\ blacklist'[k] >= tokens[k].exp
          /\ \A i \in Issued : Outlives(i) => blacklist'[i] >= tokens[i].exp
      BY <2>10, <3>1, InvalidateOutlives DEF LogoutAccess
    <3>3. revoked' \subseteq revoked \cup {k}
      BY <2>10 DEF LogoutAccess
    <3>4. \A d \in Calls : call'[d].op = "logoutRefresh" => call'[d] = call[d] \/ call'[d].access = k
      <4>1. \/ call' = [call EXCEPT ![c] = Idle]
            \/ call' = [call EXCEPT ![c].op = "logoutRefresh"]
        BY <2>10 DEF LogoutAccess
      <4> QED
        BY <4>1 DEF TypeOK, Call, Idle
    <3> QED
      BY <2>0, <3>1, <3>2, <3>3, <3>4 DEF RevocationInv, Outlives, Issued, TTL
  <2>11. ASSUME NEW c \in Calls, LogoutRefresh(c) PROVE RevocationInv'
    <3> DEFINE k == call[c].refresh
    <3>1. k \in Issued /\ call[c].access \in Issued /\ Outlives(call[c].access) /\ UNCHANGED <<now, tokens>>
      BY <2>11 DEF LogoutRefresh, TypeOK, RevocationInv
    <3>2. /\ blacklist'[k] >= tokens[k].exp
          /\ \A i \in Issued : Outlives(i) => blacklist'[i] >= tokens[i].exp
      BY <2>11, <3>1, InvalidateOutlives DEF LogoutRefresh
    <3>3. revoked' = revoked \cup {call[c].access, k}
      BY <2>11 DEF LogoutRefresh
    <3>4. \A d \in Calls : call'[d].op = "logoutRefresh" => call'[d] = call[d]
      BY <2>11 DEF LogoutRefresh, TypeOK, Idle
    <3> QED
      BY <2>0, <3>1, <3>2, <3>3, <3>4 DEF RevocationInv, Outlives, Issued, TTL
  <2>12. CASE UNCHANGED vars
    BY <2>1, <2>12 DEF vars
  <2> QED
    BY <2>2, <2>3, <2>4, <2>5, <2>6, <2>8, <2>9, <2>10, <2>11, <2>12 DEF Next
<1>3. TypeOK /\ RevocationInv => RevokedStaysOut
  <2> SUFFICES ASSUME TypeOK, RevocationInv, NEW j \in revoked PROVE Blacklisted(j) \/ Expired(j)
    BY DEF RevokedStaysOut
  <2>1. j \in Issued /\ now \in Nat /\ blacklist \in [Jti -> Nat] /\ blacklist[j] >= tokens[j].exp
    BY DEF TypeOK, RevocationInv, Outlives
  <2> QED
    BY <2>1, TokenType DEF Blacklisted, Expired
<1> QED
  BY <1>1, <1>2, <1>3, TypeCorrect, PTL DEF Spec

-----------------------------------------------------------------------------
(* Once its revocation has been answered a token is let in only by a       *)
(* look-up that failed: the entry is there for as long as the token lives. *)
THEOREM RevokedIsRefused == Spec => []RevokedNeverAccepted
<1>1. Init => RevokedNeverAccepted
  BY DEF Init, RevokedNeverAccepted
<1>2. RevokedStaysOut /\ RevokedNeverAccepted /\ [Next]_vars => RevokedNeverAccepted'
  <2> SUFFICES ASSUME RevokedStaysOut, RevokedNeverAccepted, [Next]_vars PROVE RevokedNeverAccepted'
    OBVIOUS
  <2>1. ASSUME NEW j, LetIn(j) PROVE RevokedNeverAccepted'
    <3>1. CASE j \in revoked
      <4>1. Blacklisted(j)
        BY <2>1, <3>1 DEF LetIn, RevokedStaysOut
      <4>2. unchecked' = unchecked \cup {j} /\ accepted' = accepted \cup {j}
        BY <2>1, <3>1, <4>1 DEF LetIn, PassesBlacklist
      <4> QED
        BY <4>2 DEF RevokedNeverAccepted
    <3>2. CASE j \notin revoked
      BY <2>1, <3>2 DEF LetIn, RevokedNeverAccepted
    <3> QED
      BY <3>1, <3>2
  <2>2. ASSUME UNCHANGED <<accepted, unchecked>> PROVE RevokedNeverAccepted'
    BY <2>2 DEF RevokedNeverAccepted
  <2> QED
    BY <2>1, <2>2 DEF Next, vars, Login, Tick, ValidateToken, RefreshCheck, LogoutStart,
                      RefreshIssue, LogoutAccess, LogoutRefresh, InvalidateFails
<1> QED
  BY <1>1, <1>2, RevocationHolds, PTL DEF Spec
=============================================================================
