------------------------------- MODULE Limits -------------------------------
(***************************************************************************)
(* What the gateway counts: the sliding windows of core/ratelimit.py, the    *)
(* daily quota of a token (api/proxy.py), and the slots of live connections  *)
(* (core/sse.py).                                                           *)
(*                                                                          *)
(* A window is a sorted set in Redis that a script prunes, counts and adds   *)
(* to in one go.  A slot is a member of such a set with a deadline, which a  *)
(* task of the connection moves on until a call to Redis fails.  The unit of *)
(* time is the second; the windows' lengths and budgets are fixed.           *)
(***************************************************************************)
EXTENDS Naturals, FiniteSets

CONSTANTS
    Window,      \* windows: the token's and one for each of the caller's groups
    TokenWindow,
    Length,      \* Length[k]: seconds
    Budget,      \* Budget[k]: calls in any Length[k] seconds
    Quota,       \* calls of the token in a day
    Call,        \* calls that may be under way at once
    Connection,  \* live connections of one user, over several processes
    MaxConnections,
    MaxTime

ASSUME LimitConstants ==
    /\ TokenWindow \in Window
    /\ Length \in [Window -> Nat \ {0}] /\ Budget \in [Window -> Nat \ {0}]
    /\ Quota \in Nat \ {0} /\ MaxConnections \in Nat \ {0} /\ MaxTime \in Nat
    /\ IsFiniteSet(Call)

VARIABLES
    now,
    hits,      \* hits[k]: members of k's set in Redis
    counted,   \* counted[k]: members of all the calls k has let through
    at,        \* at[c]: how far c is in _handle
    logged,    \* rows of the token in request_logs since midnight
    answered,  \* calls of the token sent upstream since midnight
    uncounted,      \* those of them whose row was rolled back
    slots,     \* members of the user's set of slots that have not run out
    renews,    \* connections whose renewal task runs
    open       \* connections that are streaming

windows == <<hits, counted>>
connections == <<slots, renews, open>>
limitVars == <<now, windows, at, logged, answered, uncounted, connections>>

\* A member of a window: when it was added, and a number for its uuid.
Time(m) == m[1]

GroupWindow == Window \ {TokenWindow}
Stages == {"idle", "counted", "quota", "checked", "sent"}

LimitsInit ==
    /\ now = 0
    /\ hits = [k \in Window |-> {}]
    /\ counted = hits
    /\ at = [c \in Call |-> "idle"]
    /\ logged = 0 /\ answered = 0 /\ uncounted = 0
    /\ slots = {} /\ renews = {} /\ open = {}

-----------------------------------------------------------------------------
(* The scripts.                                                             *)

\* Mutated form: a member is dropped a second too early.
PrunedEarly(k) == {m \in hits[k] : Time(m) + Length[k] > now + 1}

\* ZREMRANGEBYSCORE up to now - length, both ends included; nothing is older than 0.
Pruned(k) == {m \in hits[k] : Time(m) + Length[k] > now}

Members(k) == Cardinality(Pruned(k))

Hit(k) ==
    LET member == <<now, Cardinality(counted[k]) + 1>>
    IN  /\ hits' = [hits EXCEPT ![k] = Pruned(k) \cup {member}]
        /\ counted' = [counted EXCEPT ![k] = @ \cup {member}]

\* reserve_any: a group with something left, and none has more.
Best(k) == /\ Members(k) < Budget[k]
           /\ \A other \in GroupWindow : Budget[k] + Members(other) >= Budget[other] + Members(k)

Refused == \A k \in GroupWindow : Members(k) >= Budget[k]

-----------------------------------------------------------------------------
(* A call (_handle of api/proxy.py), one step per await.                    *)

\* _check_rpm.
CountCall(c) ==
    /\ at[c] = "idle"
    /\ IF Members(TokenWindow) < Budget[TokenWindow]
       THEN Hit(TokenWindow) /\ at' = [at EXCEPT ![c] = "counted"]
       ELSE UNCHANGED <<windows, at>>
    /\ UNCHANGED <<now, logged, answered, uncounted, connections>>

\* _check_daily_quota.
CheckQuota(c) ==
    /\ at[c] = "counted"
    /\ at' = [at EXCEPT ![c] = IF logged < Quota THEN "quota" ELSE "idle"]
    /\ UNCHANGED <<now, windows, logged, answered, uncounted, connections>>

\* The model is unknown or not for the caller; the call has been counted all the same.
RefuseModel(c) ==
    /\ at[c] = "quota"
    /\ at' = [at EXCEPT ![c] = "idle"]
    /\ UNCHANGED <<now, windows, logged, answered, uncounted, connections>>

\* _check_call_rate_limit, then dispatch.
CountForGroup(c) ==
    /\ at[c] = "quota"
    /\ \E k \in GroupWindow : Best(k) /\ Hit(k)
    /\ at' = [at EXCEPT ![c] = "sent"]
    /\ answered' = answered + 1
    /\ UNCHANGED <<now, logged, uncounted, connections>>

RefuseCall(c) ==
    /\ at[c] = "quota"
    /\ Refused
    /\ at' = [at EXCEPT ![c] = "idle"]
    /\ UNCHANGED <<now, windows, logged, answered, uncounted, connections>>

\* _log_request adds the row to the session of the request, which is committed when
\* the response begins.
LogCall(c) ==
    /\ at[c] = "sent"
    /\ at' = [at EXCEPT ![c] = "idle"]
    /\ logged' = logged + 1
    /\ UNCHANGED <<now, windows, answered, uncounted, connections>>

\* The client is gone before the response begins, or the commit fails: the session is
\* rolled back, with the row if there was one (RequestSessionMiddleware).
RollBack(c) ==
    /\ at[c] # "idle"
    /\ at' = [at EXCEPT ![c] = "idle"]
    /\ uncounted' = IF at[c] = "sent" THEN uncounted + 1 ELSE uncounted
    /\ UNCHANGED <<now, windows, logged, answered, connections>>

\* PEXPIRE: the set is gone a second after its last member's time.
SetExpires(k) ==
    /\ hits[k] # {}
    /\ \A m \in hits[k] : Time(m) + Length[k] + 1 <= now
    /\ hits' = [hits EXCEPT ![k] = {}]
    /\ UNCHANGED <<now, counted, at, logged, answered, uncounted, connections>>

SecondPasses ==
    /\ now < MaxTime
    /\ now' = now + 1
    /\ UNCHANGED <<windows, at, logged, answered, uncounted, connections>>

-----------------------------------------------------------------------------
(* Live connections (api/health.py and api/admin/logs.py use a slot each).  *)

\* acquire.  Slots that have run out are pruned.
Connect(k) ==
    /\ k \notin open \cup slots
    /\ Cardinality(slots) < MaxConnections
    /\ open' = open \cup {k}
    /\ slots' = slots \cup {k}
    /\ renews' = renews \cup {k}
    /\ UNCHANGED <<now, windows, at, logged, answered, uncounted>>

\* release: the renewal is cancelled first, then Redis is called, perhaps in vain.
Disconnect(k) ==
    /\ k \in open
    /\ open' = open \ {k}
    /\ renews' = renews \ {k}
    /\ slots' \in {slots, slots \ {k}}
    /\ UNCHANGED <<now, windows, at, logged, answered, uncounted>>

\* The process of k stops.
Crash(k) ==
    /\ k \in open
    /\ open' = open \ {k}
    /\ renews' = renews \ {k}
    /\ UNCHANGED <<now, windows, at, logged, answered, uncounted, slots>>

\* The client is gone before the response has begun: the generator that would have
\* released the slot never runs, and the renewal goes on.
Abandon(k) ==
    /\ k \in open
    /\ open' = open \ {k}
    /\ UNCHANGED <<now, windows, at, logged, answered, uncounted, slots, renews>>

\* _renew: the first call that fails ends it.
SlotRenewalDies(k) ==
    /\ k \in renews
    /\ renews' = renews \ {k}
    /\ UNCHANGED <<now, windows, at, logged, answered, uncounted, slots, open>>

\* The deadline passes; nobody renews the slot.
SlotRunsOut(k) ==
    /\ k \in slots \ renews
    /\ slots' = slots \ {k}
    /\ UNCHANGED <<now, windows, at, logged, answered, uncounted, renews, open>>

-----------------------------------------------------------------------------
Step(c) == \/ CountCall(c) \/ CheckQuota(c) \/ RefuseModel(c)
           \/ CountForGroup(c) \/ RefuseCall(c) \/ LogCall(c) \/ RollBack(c)

Stream(k) == Connect(k) \/ Disconnect(k) \/ Crash(k) \/ Abandon(k) \/ SlotRenewalDies(k) \/ SlotRunsOut(k)

LimitsNext == \/ \E c \in Call : Step(c)
              \/ \E k \in Window : SetExpires(k)
              \/ \E k \in Connection : Stream(k)
              \/ SecondPasses

LimitsSpec == LimitsInit /\ [][LimitsNext]_limitVars

-----------------------------------------------------------------------------
\* No window ever lets more calls through than its budget in any Length[k] seconds
\* on end, wherever they begin (the two scripts of core/ratelimit.py).
Within(k, t) == {m \in counted[k] : Time(m) >= t /\ Time(m) < t + Length[k]}

WindowHolds == \A k \in Window, t \in 0..MaxTime : Cardinality(Within(k, t)) <= Budget[k]

\* A user has no more live connections than allowed, but for those whose renewal
\* failed (core/sse.py).
SlotsHold == Cardinality(open \cap renews) <= MaxConnections

\* The daily quota counts rows, and is checked long before the row of the call is
\* there: calls under way at once may exceed it, by their number at most, and so may
\* the calls whose row was rolled back, one each.  A client that leaves every call
\* before its response begins is not held by the quota at all (_check_daily_quota).
QuotaNearlyHolds == answered < Quota + Cardinality(Call) + uncounted

LimitsHold == WindowHolds /\ SlotsHold /\ QuotaNearlyHolds
=============================================================================
