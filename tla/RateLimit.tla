----------------------------- MODULE RateLimit -----------------------------
(***************************************************************************)
(* The sliding-window limiter for one key: the Lua script and              *)
(* CheckRateLimit of internal/pubsub/pubsub.go, and what the middleware    *)
(* (internal/middleware/rate_limit.go) and the WebSocket handshake make of *)
(* its answer.                                                             *)
(*                                                                         *)
(* A pod stamps a request with its own clock and Redis runs the script     *)
(* later, by its own: Lag bounds the delay and the skew together, that is, *)
(* the stamp is at most Lag behind the clock of Redis and never ahead.     *)
(***************************************************************************)
EXTENDS Naturals, Sequences, FiniteSets

CONSTANTS
    Limit,        \* requests per window
    Window,       \* length of the window
    Lag,
    MaxTime,      \* bound: the clock
    MaxGrants,    \* bound: requests granted
    MayFail       \* whether Redis may be out of reach

ASSUME RateLimitAssumption ==
    /\ Limit \in Nat \ {0} /\ Window \in Nat \ {0} /\ Lag \in Nat
    /\ MaxTime \in Nat /\ MaxGrants \in Nat
    /\ MayFail \in BOOLEAN

VARIABLES
    now,        \* the clock of Redis
    grants,     \* history: the requests the script granted, in its order
    entries,    \* the sorted set: indices into grants
    expires,    \* when Redis drops the key
    verdict     \* what became of the last request; "none" once time has passed

vars == <<now, grants, entries, expires, verdict>>

Init ==
    /\ now = 0
    /\ grants = <<>> /\ entries = {} /\ expires = 0
    /\ verdict = "none"

Alive == IF now < expires THEN entries ELSE {}

KeepsTooFew(k, stamp) == grants[k].stamp + Window > stamp + 1

(* ZREMRANGEBYSCORE key 0 (now - window) keeps what is younger.            *)
Keeps(k, stamp) == grants[k].stamp + Window > stamp

Kept(stamp) == {k \in Alive : Keeps(k, stamp)}

HasRoomOffByOne(S) == Cardinality(S) <= Limit

(* ZCARD key < limit *)
HasRoom(S) == Cardinality(S) < Limit

(* The script returns 1: ZADD and PEXPIRE.                                 *)
Grant(stamp) ==
    /\ HasRoom(Kept(stamp)) /\ Len(grants) < MaxGrants
    /\ grants' = Append(grants, [at |-> now, stamp |-> stamp])
    /\ entries' = Kept(stamp) \cup {Len(grants) + 1}
    /\ expires' = now + Window
    /\ verdict' = "allowed"
    /\ UNCHANGED now

DenyBeforePurge(stamp) ==
    /\ Cardinality(Alive) >= Limit
    /\ entries' = Alive
    /\ verdict' = "denied"
    /\ UNCHANGED <<now, grants, expires>>

(* The script returns 0, having removed what is too old: status 429.       *)
Deny(stamp) ==
    /\ ~HasRoom(Kept(stamp))
    /\ entries' = Kept(stamp)
    /\ verdict' = "denied"
    /\ UNCHANGED <<now, grants, expires>>

(* CheckRateLimit returns an error and the request is let through.         *)
Unreachable ==
    /\ MayFail
    /\ verdict' = "unchecked"
    /\ UNCHANGED <<now, grants, entries, expires>>

Tick ==
    /\ now < MaxTime
    /\ now' = now + 1
    /\ verdict' = "none"
    /\ UNCHANGED <<grants, entries, expires>>

Next ==
    \/ \E s \in 0..now : now <= s + Lag /\ (Grant(s) \/ Deny(s))
    \/ Unreachable
    \/ Tick

Spec == Init /\ [][Next]_vars

-----------------------------------------------------------------------------
Granted == 1..Len(grants)

(* What makes LimitHolds inductive: an entry that is gone left the window  *)
(* (up to Lag), the grants are in order of time, and the key outlives the  *)
(* window of the last of them.                                             *)
WindowInv ==
    /\ \A k \in Granted : /\ grants[k].stamp <= grants[k].at /\ grants[k].at <= now
                          /\ grants[k].at <= grants[k].stamp + Lag
                          /\ grants[k].at + Window <= expires
    /\ \A i, j \in Granted : i <= j => grants[i].at <= grants[j].at
    /\ \A k \in Granted \ entries : grants[k].at + Window <= now + Lag

(* The type invariant; the sorted set holds granted requests only, and     *)
(* never more than Limit.                                                  *)
TypeOK ==
    /\ now \in Nat
    /\ grants \in Seq([at: Nat, stamp: Nat])
    /\ entries \subseteq Granted /\ Cardinality(entries) <= Limit
    /\ expires \in Nat
    /\ verdict \in {"none", "allowed", "denied", "unchecked"}

(* Between a granted request and the Limit-th one after it a whole window  *)
(* passes, up to the delay of the stamps: however requests are spaced, no  *)
(* burst beyond Limit goes through.                                        *)
LimitHolds ==
    \A i, j \in Granted : j = i + Limit => grants[i].at + Window <= grants[j].at + Lag

(* A request is denied only after Limit others were granted within the     *)
(* window, up to the delay of the stamps: denied requests do not count,    *)
(* and neither do those that the window has passed.                        *)
DenialJustified ==
    verdict = "denied" =>
        Cardinality({k \in Granted : grants[k].at + Window + Lag > now}) >= Limit
============================================================================
