--------------------------- MODULE UpstreamHealth ---------------------------
(***************************************************************************)
(* Which upstream of a route a request tries first, and the platform-wide   *)
(* cooldowns that take a failing upstream out of the lead                   *)
(* (services/upstream_health.py; callers in services/dispatcher.py,         *)
(* api/models.py and tasks/log_cleanup.py).                                 *)
(*                                                                          *)
(* Two stores outlive a request: the upstream_cooldowns rows of the         *)
(* database and the pins of conversations in Redis.  A request keeps the    *)
(* cooldown rows it loaded first for as long as it runs: a later trip or    *)
(* reward selects the row again, gets the copy it holds if that row still   *)
(* exists, and updates only the columns it changed.  A row the request did  *)
(* not load it reads afresh.                                                *)
(*                                                                          *)
(* Health statistics are read from Redis once per ranking and may say       *)
(* anything, so score and tier are chosen afresh each time.  How a request  *)
(* walks its ranking is the subject of Dispatch: here a routed request      *)
(* reports on the upstreams of its ranking in any order.                    *)
(***************************************************************************)
EXTENDS Integers, Sequences, FiniteSets, Functions

CONSTANTS
    Upstream,        \* enabled entries of one route, their providers enabled
    Group,           \* Group[u]: group_position
    Position,        \* Position[u]: order of u by weight, position and id
    Request,
    Conversation, NoConversation,
    ConversationOf,  \* session key of each request
    NoPin,
    Routes,          \* route settings to consider
    Readings,        \* health statistics a ranking may read, scores in hundredths
    Tolerance,       \* upstream_balance_tolerance, in hundredths
    Jitter,          \* upstream_pin_jitter, in hundredths
    RedisFails,      \* whether Redis may be unreachable
    InitialRows,     \* cooldown rows to start from
    Base,            \* upstream_cooldown_seconds
    Cap,             \* upstream_cooldown_backoff_cap
    RetryAfter,      \* delays an upstream may ask for
    Maximum,         \* rate_limit_max_cooldown_seconds, 0 = no limit
    Retention,       \* age at which log cleanup drops a row
    MaxTime,         \* bound on the clock
    MaxTrips         \* bound on consecutive_trips

Mode == {"best", "balanced", "pinned_best", "pinned_balanced"}
RouteSettings == [mode : Mode, tiered : BOOLEAN, strict : BOOLEAN]

Absent == [until |-> 0, trips |-> -1]
Gone == [until |-> 0, trips |-> -2]   \* read, and deleted since
Row == [until : Int, trips : Nat] \cup {Absent}

ASSUME ConstantsAssumption ==
    /\ IsFiniteSet(Upstream)
    /\ Group \in [Upstream -> Nat]
    /\ Position \in [Upstream -> Nat]
    /\ \A u, v \in Upstream : Position[u] = Position[v] => u = v
    /\ NoConversation \notin Conversation
    /\ ConversationOf \in [Request -> Conversation \cup {NoConversation}]
    /\ NoPin \notin Upstream
    /\ Routes \subseteq RouteSettings
    /\ Readings \subseteq [Upstream -> [score : Nat, tier : 0..2]]
    /\ Tolerance \in Nat /\ Jitter \in 0..100
    /\ RedisFails \in BOOLEAN
    /\ InitialRows \subseteq Row
    /\ Base \in Nat \ {0} /\ Cap \in Nat /\ RetryAfter \subseteq Nat
    /\ Maximum \in Nat /\ Retention \in Nat
    /\ MaxTime \in Nat /\ MaxTrips \in Nat

VARIABLES
    now,
    route,     \* the route's settings
    row,       \* upstream_cooldowns
    pin,       \* pin[c]: the upstream conversation c is pinned to
    phase,
    known,     \* known[r]: the cooldown rows r loaded
    cooled,    \* cooled[r]: the upstreams r ranks as cooled (tier 3)
    ranking,   \* ranking[r]: upstreams in the order r tries them
    trying,    \* the upstream whose row r has read and will write
    seen,      \* seen[r]: that row, as r read it
    verdict    \* verdict[u]: when the latest report on u lets it lead again

stores == <<row, pin>>
ranked == <<known, cooled, ranking>>
write == <<trying, seen>>
vars == <<now, route, stores, phase, ranked, write, verdict>>

Init ==
    /\ now = 1
    /\ route \in Routes
    /\ row \in [Upstream -> InitialRows]
    /\ pin = [c \in Conversation |-> NoPin]
    /\ phase = [r \in Request |-> "idle"]
    /\ known = [r \in Request |-> [u \in Upstream |-> Absent]]
    /\ cooled = [r \in Request |-> {}]
    /\ ranking = [r \in Request |-> <<>>]
    /\ trying = [r \in Request |-> NoPin]
    /\ seen = [r \in Request |-> Absent]
    /\ verdict = [u \in Upstream |-> row[u].until]

Tick ==
    /\ now < MaxTime
    /\ now' = now + 1
    /\ UNCHANGED <<route, stores, phase, ranked, write, verdict>>

-----------------------------------------------------------------------------
(* rank                                                                     *)

LoadCooldowns(r) ==
    /\ phase[r] = "idle"
    /\ phase' = [phase EXCEPT ![r] = "loaded"]
    /\ known' = [known EXCEPT ![r] = row]
    /\ cooled' = [cooled EXCEPT ![r] = {u \in Upstream : row[u].until > now}]
    /\ UNCHANGED <<now, route, stores, ranking, write, verdict>>

\* sort_group inside the groups, the groups one after the other.
SortKey(r, u, health) ==
    << Group[u], IF u \in cooled[r] THEN 1 ELSE 0,
       IF route.tiered /\ u \notin cooled[r] THEN health[u].tier ELSE 0,
       health[u].score, Position[u] >>

Precedes(a, b) ==
    \E i \in DOMAIN a : a[i] < b[i] /\ \A j \in 1..(i - 1) : a[j] = b[j]

Candidates(r) == IF route.strict THEN Upstream \ cooled[r] ELSE Upstream

Sorted(r, health) ==
    {s \in Bijection(1..Cardinality(Candidates(r)), Candidates(r)) :
        \A i, j \in DOMAIN s :
            i < j => Precedes(SortKey(r, s[i], health), SortKey(r, s[j], health))}

\* Mutated form: a pin or a choice may come from any group.
SelectableAnywhere(s) == Range(s)

\* The pin and the select mode act within the first group.
Selectable(s) == {u \in Range(s) : Group[u] = Group[s[1]]}

\* A pinned upstream is taken unless it is cooled and another one is not.
Acceptable(r, s, u) ==
    /\ u \in Selectable(s)
    /\ u \notin cooled[r] \/ Selectable(s) \subseteq cooled[r]

\* Scores up to this are as good as the first one's.
Limit(s, health) ==
    LET best == health[s[1]].score
    IN  IF best > 0 THEN best * (100 + Tolerance) ELSE Tolerance * 100

WithinTolerance(r, s, health) ==
    LET close == {u \in Selectable(s) : health[u].score * 100 <= Limit(s, health)}
    IN  IF close \ cooled[r] # {} THEN close \ cooled[r] ELSE close

\* Upstreams whose jittered score can be the smallest; the earlier one wins a tie.
WithinJitter(s, health) ==
    LET low(i) == health[s[i]].score * (100 - Jitter)
        high(i) == health[s[i]].score * (100 + Jitter)
        stage == {i \in DOMAIN s : s[i] \in Selectable(s)}
    IN  {s[i] : i \in {i \in stage : \A j \in stage \ {i} :
                                        Precedes(<<low(i), i>>, <<high(j), j>>)}}

Lead(r, s, health) ==
    CASE route.mode \in {"balanced", "pinned_balanced"} -> WithinTolerance(r, s, health)
      [] route.mode = "pinned_best" -> WithinJitter(s, health)
      [] OTHER -> {s[1]}

\* s has u at k and repeats nobody.
MoveToFront(s, u) ==
    LET k == CHOOSE i \in DOMAIN s : s[i] = u
    IN  [i \in DOMAIN s |-> IF i = 1 THEN u ELSE IF i <= k THEN s[i - 1] ELSE s[i]]

Pinned(r) == route.mode \in {"pinned_best", "pinned_balanced"} /\ ConversationOf[r] \in Conversation

PinOf(r) == IF Pinned(r) THEN pin[ConversationOf[r]] ELSE NoPin

Ranks(r, s, next) ==
    /\ ranking' = [ranking EXCEPT ![r] = s]
    /\ phase' = [phase EXCEPT ![r] = next]
    /\ UNCHANGED <<now, route, row, known, cooled, write, verdict>>

RankNone(r) ==
    /\ phase[r] = "loaded"
    /\ Candidates(r) = {}
    /\ Ranks(r, <<>>, "routed")
    /\ UNCHANGED pin

\* The expiry of the pin is pushed back; expiry has no clock here.
RankByPin(r) ==
    /\ phase[r] = "loaded"
    /\ \E health \in Readings : \E s \in Sorted(r, health) :
          /\ s # <<>>
          /\ Acceptable(r, s, PinOf(r))
          /\ Ranks(r, MoveToFront(s, PinOf(r)), "routed")
    /\ UNCHANGED pin

RankByMode(r) ==
    /\ phase[r] = "loaded"
    /\ \E health \in Readings : \E s \in Sorted(r, health) :
          /\ s # <<>>
          /\ RedisFails \/ ~Acceptable(r, s, PinOf(r))
          /\ \E u \in Lead(r, s, health) :
                Ranks(r, MoveToFront(s, u), IF Pinned(r) THEN "pinning" ELSE "routed")
    /\ UNCHANGED pin

\* Mutated form: SET without NX.
StorePinOver(r) ==
    /\ phase[r] = "pinning"
    /\ pin' = [pin EXCEPT ![ConversationOf[r]] = ranking[r][1]]
    /\ Ranks(r, ranking[r], "routed")

\* SET NX: the first request of a conversation decides.
StorePin(r) ==
    /\ phase[r] = "pinning"
    /\ IF pin[ConversationOf[r]] = NoPin
       THEN /\ pin' = [pin EXCEPT ![ConversationOf[r]] = ranking[r][1]]
            /\ Ranks(r, ranking[r], "routed")
       ELSE UNCHANGED pin /\ Ranks(r, ranking[r], "yielding")

\* The pin somebody else stored meanwhile is followed, if there still is one.
FollowPin(r) ==
    /\ phase[r] = "yielding"
    /\ LET s == ranking[r]
       IN  Ranks(r, IF Acceptable(r, s, PinOf(r)) THEN MoveToFront(s, PinOf(r)) ELSE s, "routed")
    /\ UNCHANGED pin

LosePin(r) ==
    /\ RedisFails
    /\ phase[r] \in {"pinning", "yielding"}
    /\ Ranks(r, ranking[r], "routed")
    /\ UNCHANGED pin

PinExpires(c) ==
    /\ pin[c] # NoPin
    /\ pin' = [pin EXCEPT ![c] = NoPin]
    /\ UNCHANGED <<now, route, row, phase, ranked, write, verdict>>

-----------------------------------------------------------------------------
(* trip and reward: the row is read, then written.                          *)

ReadRow(r, u, next) ==
    /\ phase[r] = "routed"
    /\ u \in Range(ranking[r])
    /\ phase' = [phase EXCEPT ![r] = next]
    /\ trying' = [trying EXCEPT ![r] = u]
    /\ seen' = [seen EXCEPT ![r] = IF known[r][u] = Absent THEN row[u] ELSE known[r][u]]
    /\ UNCHANGED <<now, route, stores, ranked, verdict>>

ReadForTrip(r) == \E u \in Upstream : ReadRow(r, u, "tripping")

ReadForReward(r) == \E u \in Upstream : ReadRow(r, u, "rewarding")

Limited(seconds) == IF Maximum > 0 /\ seconds > Maximum THEN Maximum ELSE seconds

Delays(trips) ==
    {Limited(Base * 2 ^ (IF trips < Cap THEN trips ELSE Cap))} \cup {Limited(d) : d \in RetryAfter}

Goes(r, next) ==
    /\ phase' = [phase EXCEPT ![r] = next]
    /\ trying' = [trying EXCEPT ![r] = NoPin]
    /\ seen' = [seen EXCEPT ![r] = Absent]

\* The request ends, and with it its session and what it had loaded.
Ends(r) ==
    /\ known' = [known EXCEPT ![r] = [u \in Upstream |-> Absent]]
    /\ cooled' = [cooled EXCEPT ![r] = {}]
    /\ ranking' = [ranking EXCEPT ![r] = <<>>]

\* The row it updates is the one the request goes on with.
Keeps(r, u, new) ==
    known' = IF known[r][u] = Absent THEN known ELSE [known EXCEPT ![r][u] = new]

\* Updating a row that is gone fails, and so does inserting one that somebody
\* else has inserted.  The error ends the request.
Conflict(r) == seen[r] = Gone \/ (seen[r] = Absent /\ row[trying[r]] # Absent)

WriteFails(r) ==
    /\ phase[r] \in {"tripping", "rewarding"}
    /\ phase[r] = "rewarding" => seen[r] # Absent
    /\ Conflict(r)
    /\ Goes(r, "failed") /\ Ends(r)
    /\ UNCHANGED <<now, route, stores, verdict>>

\* until and consecutive_trips always differ from what the request knew.
Trip(r) ==
    /\ phase[r] = "tripping"
    /\ ~Conflict(r)
    /\ seen[r].trips < MaxTrips
    /\ LET u == trying[r]
           trips == IF seen[r] = Absent THEN 0 ELSE seen[r].trips
       IN  \E d \in Delays(trips) :
              LET new == [until |-> now + d, trips |-> trips + 1]
              IN  /\ row' = [row EXCEPT ![u] = new]
                  /\ verdict' = [verdict EXCEPT ![u] = now + d]
                  /\ Keeps(r, u, new)
    /\ Goes(r, "routed")
    /\ UNCHANGED <<now, route, pin, cooled, ranking>>

\* Mutated form: the cooldown is lifted only if the request knew of one.
RewardKnown(r) ==
    /\ phase[r] = "rewarding"
    /\ seen[r] # Absent
    /\ ~Conflict(r)
    /\ LET u == trying[r]
       IN  /\ row' = [row EXCEPT ![u] = [until |-> IF seen[r].until > now THEN now ELSE @.until,
                                            trips |-> IF seen[r].trips # 0 THEN 0 ELSE @.trips]]
           /\ verdict' = [verdict EXCEPT ![u] = now]
    /\ Goes(r, "idle") /\ Ends(r)
    /\ UNCHANGED <<now, route, pin>>

\* until always differs, trips only when the request knew of a trip.
Reward(r) ==
    /\ phase[r] = "rewarding"
    /\ seen[r] # Absent
    /\ ~Conflict(r)
    /\ LET u == trying[r]
       IN  /\ row' = [row EXCEPT ![u] = [until |-> now,
                                            trips |-> IF seen[r].trips # 0 THEN 0 ELSE @.trips]]
           /\ verdict' = [verdict EXCEPT ![u] = now]
    /\ Goes(r, "idle") /\ Ends(r)
    /\ UNCHANGED <<now, route, pin>>

RewardNothing(r) ==
    /\ phase[r] = "rewarding"
    /\ seen[r] = Absent
    /\ Goes(r, "idle") /\ Ends(r)
    /\ UNCHANGED <<now, route, stores, verdict>>

EndRequest(r) ==
    /\ phase[r] \in {"routed", "failed"}
    /\ Goes(r, "idle") /\ Ends(r)
    /\ UNCHANGED <<now, route, stores, verdict>>

-----------------------------------------------------------------------------
(* Other writers of the cooldown rows.                                      *)

ClearCooldown(u) ==
    /\ row[u] # Absent
    /\ row' = [row EXCEPT ![u] = [until |-> now, trips |-> 0]]
    /\ verdict' = [verdict EXCEPT ![u] = now]
    /\ UNCHANGED <<now, route, pin, phase, ranked, write>>

Drop(dropped) ==
    /\ row' = [u \in Upstream |-> IF u \in dropped THEN Absent ELSE row[u]]
    /\ known' = [r \in Request |-> [u \in Upstream |->
                    IF u \in dropped THEN Absent ELSE known[r][u]]]
    /\ seen' = [r \in Request |->
                    IF trying[r] \in dropped /\ seen[r] # Absent THEN Gone ELSE seen[r]]
    /\ UNCHANGED <<now, route, pin, phase, cooled, ranking, trying, verdict>>

Old(u) == row[u] # Absent /\ row[u].until + Retention < now

\* A copy of a deleted row is never selected again.
LogCleanup == Drop({u \in Upstream : Old(u) /\ row[u].trips = 0})

-----------------------------------------------------------------------------
RequestStep(r) ==
    \/ LoadCooldowns(r)
    \/ RankNone(r) \/ RankByPin(r) \/ RankByMode(r)
    \/ StorePin(r) \/ FollowPin(r) \/ LosePin(r)
    \/ ReadForTrip(r) \/ ReadForReward(r)
    \/ WriteFails(r) \/ Trip(r) \/ Reward(r) \/ RewardNothing(r)
    \/ EndRequest(r)

Next ==
    \/ Tick
    \/ \E r \in Request : RequestStep(r)
    \/ \E c \in Conversation : PinExpires(c)
    \/ \E u \in Upstream : ClearCooldown(u)
    \/ LogCleanup

Spec == Init /\ [][Next]_vars

-----------------------------------------------------------------------------
TypeOK ==
    /\ now \in Nat
    /\ route \in Routes
    /\ row \in [Upstream -> Row]
    /\ pin \in [Conversation -> Upstream \cup {NoPin}]
    /\ phase \in [Request -> {"idle", "loaded", "pinning", "yielding", "routed",
                              "tripping", "rewarding", "failed"}]
    /\ known \in [Request -> [Upstream -> Row]]
    /\ cooled \in [Request -> SUBSET Upstream]
    /\ ranking \in [Request -> Seq(Upstream)]
    /\ trying \in [Request -> Upstream \cup {NoPin}]
    /\ seen \in [Request -> Row \cup {Gone}]
    /\ verdict \in [Upstream -> Int]

Routed(r) == phase[r] \in {"pinning", "yielding", "routed", "tripping", "rewarding"}

(***************************************************************************)
(* A group is a strict fallback stage: whatever the mode and wherever the   *)
(* conversation is pinned, no upstream is tried before one of an earlier    *)
(* group.                                                                   *)
(***************************************************************************)
GroupOrder ==
    \A r \in Request : Routed(r) =>
        \A i, j \in DOMAIN ranking[r] : i < j => Group[ranking[r][i]] <= Group[ranking[r][j]]

(***************************************************************************)
(* Promoting a pinned or drawn upstream loses and repeats none: a request   *)
(* tries each candidate once, and under a strict route no cooled one.       *)
(***************************************************************************)
RankingComplete ==
    \A r \in Request : Routed(r) =>
        /\ Range(ranking[r]) = Candidates(r)
        /\ Len(ranking[r]) = Cardinality(Candidates(r))

(***************************************************************************)
(* Within a group no cooled upstream is tried before a normal one.          *)
(***************************************************************************)
CooledBehind(r) ==
    \A i, j \in DOMAIN ranking[r] :
        /\ i < j
        /\ Group[ranking[r][i]] = Group[ranking[r][j]]
        /\ ranking[r][i] \in cooled[r]
        => ranking[r][j] \in cooled[r]

\* Every select mode but pinned_best keeps to it: that one's jittered minimum ranges
\* over the cooled ones too.
CooledBehindNormal ==
    route.mode # "pinned_best" => \A r \in Request : Routed(r) => CooledBehind(r)

(***************************************************************************)
(* rank keeps the groups in order, loses and repeats no candidate, and      *)
(* leads with no cooled one where a normal one is there, under every mode   *)
(* but pinned_best (services/upstream_health.py).                           *)
(***************************************************************************)
RankingSound == TypeOK /\ GroupOrder /\ RankingComplete /\ CooledBehindNormal

(***************************************************************************)
(* A conversation stays where it is pinned: until its pin expires nobody    *)
(* moves it, and a request whose ranking is settled leads with the pin its  *)
(* conversation has at that moment, also when several first requests of the *)
(* conversation race to set it, unless that upstream is not one it may lead *)
(* with, or Redis fails it at the last (rank).                              *)
(***************************************************************************)
Settles(r) ==
    phase[r] \in {"loaded", "pinning", "yielding"} /\ phase'[r] = "routed" /\ ~LosePin(r)

PinStands ==
    /\ \A c \in Conversation : pin[c] # NoPin => pin'[c] \in {pin[c], NoPin}
    /\ \A r \in Request :
          /\ Settles(r)
          /\ ranking'[r] # <<>>
          /\ Acceptable(r, ranking'[r], PinOf(r)')
          => ranking'[r][1] = PinOf(r)'

ConversationSticks == [][PinStands]_vars

(***************************************************************************)
(* An upstream is cooled exactly as long as the latest report on it says,   *)
(* although requests report from stale copies of the row and the retention  *)
(* task deletes rows.                                                       *)
(***************************************************************************)
CooldownIsLatestReport ==
    \A u \in Upstream : (row[u].until > now) = (verdict[u] > now)

-----------------------------------------------------------------------------
(* What comments and docs say and the code does not keep.                   *)

(***************************************************************************)
(* services/upstream_health.py, rank: cooled candidates are kept behind     *)
(* normal candidates as a last-resort fallback.                             *)
(***************************************************************************)
CooledIsLastResort == \A r \in Request : Routed(r) => CooledBehind(r)

(***************************************************************************)
(* services/dispatcher.py: a rate limit or a 5xx is transient, the request  *)
(* rotates to the next key or provider.                                     *)
(***************************************************************************)
TripNeverAborts ==
    [][\A r \in Request : phase[r] = "tripping" => phase'[r] # "failed"]_vars
=============================================================================
