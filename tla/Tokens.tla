------------------------------- MODULE Tokens -------------------------------
(***************************************************************************)
(* Sessions of internal/service/auth_service.go: token pairs issued by     *)
(* Login, rotated by RefreshToken, revoked by Logout through a blacklist   *)
(* of jtis in Redis (internal/pubsub/pubsub.go), and checked by the HTTP   *)
(* middleware and by the WebSocket upgrade.  Several requests, on several  *)
(* pods, use the same tokens at the same time.                             *)
(*                                                                         *)
(* A token is its jti, the position at which it was issued.  Signatures,   *)
(* issuer and audience are abstracted: only issued tokens are presented.   *)
(***************************************************************************)
EXTENDS Naturals, Sequences, FiniteSets

CONSTANTS
    Calls,                   \* requests that may be in progress at once
    AccessTTL, RefreshTTL,   \* lifetimes, in ticks of the clock
    MaxTime,                 \* bound: ticks
    MaxTokens,               \* bound: tokens issued
    MayFail                  \* whether Redis commands may fail

ASSUME TokensAssumption ==
    /\ AccessTTL \in Nat /\ RefreshTTL \in Nat /\ AccessTTL <= RefreshTTL
    /\ MaxTime \in Nat /\ MaxTokens \in Nat
    /\ MayFail \in BOOLEAN

VARIABLES
    now,
    tokens,      \* issued tokens: [kind, exp]
    blacklist,   \* token:blacklist:<jti>: when the key expires, 0 if never set
    call,        \* progress of RefreshToken and Logout
    revoked,     \* history: tokens whose revocation was reported as done
    accepted,    \* history: tokens accepted after that
    unchecked    \* history: tokens let in only because the look-up failed

vars == <<now, tokens, blacklist, call, revoked, accepted, unchecked>>

Jti == 1..MaxTokens
Issued == 1..Len(tokens)
None == 0
Idle == [op |-> "idle", access |-> None, refresh |-> None]
Call == [op: {"idle", "refresh", "logoutAccess", "logoutRefresh"},
         access: Jti \cup {None}, refresh: Jti \cup {None}]

Init ==
    /\ now = 1
    /\ tokens = <<>>
    /\ blacklist = [j \in Jti |-> 0]
    /\ call = [c \in Calls |-> Idle]
    /\ revoked = {} /\ accepted = {} /\ unchecked = {}

TTL(kind) == IF kind = "access" THEN AccessTTL ELSE RefreshTTL

(* generateAccessToken and generateRefreshToken.                           *)
NewPair == <<[kind |-> "access", exp |-> now + AccessTTL],
             [kind |-> "refresh", exp |-> now + RefreshTTL]>>

Expired(j) == tokens[j].exp <= now

Blacklisted(j) == blacklist[j] > now

BlacklistNotChecked(j) == TRUE

(* IsTokenInvalidated answers that the token is not invalidated.           *)
PassesBlacklist(j) == ~Blacklisted(j)

(* The token is let in, because it passes the look-up or because the       *)
(* look-up failed: its callers take an error for "not invalidated" (which  *)
(* makes no difference unless the token is on the list).                   *)
LetIn(j) ==
    /\ ~Expired(j)
    /\ accepted' = accepted \cup ({j} \cap revoked)
    /\ \/ PassesBlacklist(j) /\ UNCHANGED unchecked
       \/ MayFail /\ Blacklisted(j) /\ unchecked' = unchecked \cup {j}

BlacklistTTLOfAccess(j) == AccessTTL

(* The lifetime the callers of invalidateToken ask for.                    *)
BlacklistTTL(j) == TTL(tokens[j].kind)

(* SET token:blacklist:<jti> EX ttl                                        *)
InvalidateToken(j) == blacklist' = [blacklist EXCEPT ![j] = now + BlacklistTTL(j)]

Login ==
    /\ Len(tokens) + 2 <= MaxTokens
    /\ tokens' = tokens \o NewPair
    /\ UNCHANGED <<now, blacklist, call, revoked, accepted, unchecked>>

(* ValidateToken, called for every HTTP request and every upgrade.         *)
ValidateToken(j) ==
    /\ tokens[j].kind = "access" /\ LetIn(j)
    /\ UNCHANGED <<now, tokens, blacklist, call, revoked>>

(* RefreshToken up to the blacklist check ...                              *)
RefreshCheck(c, j) ==
    /\ call[c] = Idle
    /\ tokens[j].kind = "refresh" /\ LetIn(j)
    /\ call' = [call EXCEPT ![c] = [op |-> "refresh", access |-> None, refresh |-> j]]
    /\ UNCHANGED <<now, tokens, blacklist, revoked>>

(* ... and from there: a new pair, returned once the old jti is in Redis.  *)
RefreshIssue(c) ==
    LET j == call[c].refresh IN
    /\ call[c].op = "refresh" /\ Len(tokens) + 2 <= MaxTokens
    /\ call' = [call EXCEPT ![c] = Idle]
    /\ InvalidateToken(j)
    /\ tokens' = tokens \o NewPair
    /\ revoked' = revoked \cup {j}
    /\ UNCHANGED <<now, accepted, unchecked>>

(* AuthMiddleware lets the request in, Logout starts.  The body may name a *)
(* refresh token or none.                                                  *)
LogoutStart(c, a, r) ==
    /\ call[c] = Idle
    /\ tokens[a].kind = "access" /\ LetIn(a)
    /\ r # None => tokens[r].kind = "refresh"
    /\ call' = [call EXCEPT ![c] = [op |-> "logoutAccess", access |-> a, refresh |-> r]]
    /\ UNCHANGED <<now, tokens, blacklist, revoked>>

LogoutAccessOnly(c) ==
    /\ call[c].op = "logoutAccess"
    /\ InvalidateToken(call[c].access)
    /\ call' = [call EXCEPT ![c].op = "logoutRefresh"]
    /\ UNCHANGED <<now, tokens, revoked, accepted, unchecked>>

LogoutAccess(c) ==
    LET a == call[c].access
        r == call[c].refresh
    IN
    /\ call[c].op = "logoutAccess"
    /\ InvalidateToken(a)
    /\ IF r = None
       THEN /\ call' = [call EXCEPT ![c] = Idle]
            /\ revoked' = revoked \cup {a}
       ELSE /\ call' = [call EXCEPT ![c].op = "logoutRefresh"]
            /\ UNCHANGED revoked
    /\ UNCHANGED <<now, tokens, accepted, unchecked>>

LogoutRefresh(c) ==
    /\ call[c].op = "logoutRefresh"
    /\ InvalidateToken(call[c].refresh)
    /\ call' = [call EXCEPT ![c] = Idle]
    /\ revoked' = revoked \cup {call[c].access, call[c].refresh}
    /\ UNCHANGED <<now, tokens, accepted, unchecked>>

(* The SET fails: RefreshToken drops the new pair and Logout stops where   *)
(* it is; both report an error.                                            *)
InvalidateFails(c) ==
    /\ MayFail /\ call[c] # Idle
    /\ call' = [call EXCEPT ![c] = Idle]
    /\ UNCHANGED <<now, tokens, blacklist, revoked, accepted, unchecked>>

Tick ==
    /\ now < MaxTime
    /\ now' = now + 1
    /\ UNCHANGED <<tokens, blacklist, call, revoked, accepted, unchecked>>

Next ==
    \/ Login \/ Tick
    \/ \E j \in Issued : ValidateToken(j)
    \/ \E c \in Calls :
         \/ \E j \in Issued : RefreshCheck(c, j)
         \/ \E a \in Issued, r \in Issued \cup {None} : LogoutStart(c, a, r)
         \/ RefreshIssue(c) \/ LogoutAccess(c) \/ LogoutRefresh(c) \/ InvalidateFails(c)

Spec == Init /\ [][Next]_vars

-----------------------------------------------------------------------------
(* The type invariant; a call holds only tokens that were issued.          *)
TypeOK ==
    /\ now \in Nat \ {0}
    /\ tokens \in Seq([kind: {"access", "refresh"}, exp: Nat]) /\ Len(tokens) <= MaxTokens
    /\ blacklist \in [Jti -> Nat]
    /\ call \in [Calls -> Call]
    /\ \A c \in Calls :
         /\ call[c].op = "refresh" => call[c].refresh \in Issued
         /\ call[c].op \in {"logoutAccess", "logoutRefresh"} => call[c].access \in Issued
         /\ call[c].op = "logoutAccess" => call[c].refresh \in Issued \cup {None}
         /\ call[c].op = "logoutRefresh" => call[c].refresh \in Issued
    /\ revoked \subseteq Issued /\ accepted \subseteq revoked /\ unchecked \subseteq Issued

(* Why RevokedStaysOut is inductive: no token lives longer than its kind   *)
(* allows from now, so an entry made now outlives it, and the entries of   *)
(* revoked tokens (and of the access token of a logout under way) do.      *)
Outlives(j) == blacklist[j] >= tokens[j].exp

RevocationInv ==
    /\ \A j \in Issued : tokens[j].exp <= now + TTL(tokens[j].kind)
    /\ \A j \in revoked : Outlives(j)
    /\ \A c \in Calls : call[c].op = "logoutRefresh" => Outlives(call[c].access)

(* A revocation lasts as long as the token: whatever overlaps, and however *)
(* late in its life a token is revoked, its blacklist entry never expires  *)
(* before the token does, so the token is never usable again.              *)
RevokedStaysOut == \A j \in revoked : Blacklisted(j) \/ Expired(j)

(* Once a logout has answered, or a refresh has exchanged the token, no    *)
(* later request is let in with it, unless its look-up failed.  So only    *)
(* requests that overlap the first exchange of a refresh token can         *)
(* exchange it as well.                                                    *)
RevokedNeverAccepted == accepted \subseteq unchecked
=============================================================================
