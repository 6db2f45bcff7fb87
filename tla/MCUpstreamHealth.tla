-------------------------- MODULE MCUpstreamHealth --------------------------
(***************************************************************************)
(* Small instances of UpstreamHealth, of which each behaviour takes one:     *)
(* rankings of three upstreams in two groups under every mode, pins of one   *)
(* conversation of two requests, and the cooldown rows of one upstream under *)
(* two overlapping requests.  Their settings are part of the module's own,   *)
(* of which the invariants speak.                                           *)
(***************************************************************************)
EXTENDS UpstreamHealth

CONSTANTS u1, u2, u3, r1, r2, talk

VARIABLE instance

MCvars == <<vars, instance>>

MCPosition == [u \in {u1, u2, u3} |-> CASE u = u1 -> 1 [] u = u2 -> 2 [] OTHER -> 3]
MCGroup == [u \in {u1, u2, u3} |-> IF u = u3 THEN 1 ELSE 0]
Talking == [r \in {r1, r2} |-> talk]

\* Scores that tie, lie within the tolerance or the jitter of one another, or do
\* not, on every tier.
MCReadings ==
    [{u1, u2, u3} -> {[score |-> 0, tier |-> 0], [score |-> 100, tier |-> 2],
                      [score |-> 110, tier |-> 1], [score |-> 300, tier |-> 0]}]
FewReadings ==
    {health \in [{u1, u2, u3} -> {[score |-> 0, tier |-> 0], [score |-> 100, tier |-> 0]}] :
        health[u3].score = 0}

CooledOrNot == {[until |-> 0, trips |-> 0], [until |-> 2, trips |-> 1]}
KnownOrNot == {Absent, [until |-> 0, trips |-> 0]}
MCRows == CooledOrNot \cup KnownOrNot

-----------------------------------------------------------------------------
\* Every mode on three upstreams in two groups, cooled or not; no reports.
Rank == INSTANCE UpstreamHealth WITH
    InitialRows <- CooledOrNot,
    RetryAfter <- {}, Retention <- 5, MaxTime <- 1, MaxTrips <- 0

\* Two first requests of a conversation race to pin it.
Pins == INSTANCE UpstreamHealth WITH
    Routes <- {m \in RouteSettings : m.mode \in {"pinned_best", "pinned_balanced"} /\ ~m.tiered},
    Readings <- FewReadings, InitialRows <- CooledOrNot \cup {Absent},
    RetryAfter <- {}, Retention <- 5, MaxTime <- 1, MaxTrips <- 0

\* Two overlapping requests report on an upstream whose row may be missing.
Reports == INSTANCE UpstreamHealth WITH
    Routes <- {[mode |-> "best", tiered |-> FALSE, strict |-> FALSE]},
    Readings <- {health \in FewReadings : health[u2].score = 0},
    InitialRows <- KnownOrNot

\* What is left out of an instance: the rows of some upstreams, one request.
NoRowOf(upstreams) == \A u \in upstreams : row[u] = Absent
Stays(upstreams) == NoRowOf(upstreams) /\ \A r \in Request : trying[r] \notin upstreams

MCInit ==
    \/ instance = "rank" /\ Rank!Init
    \/ instance = "pins" /\ Pins!Init /\ (\A u \in Upstream : row[u] = Absent <=> u = u3)
    \/ instance = "reports" /\ Reports!Init /\ NoRowOf({u2, u3})

MCNext ==
    \/ instance = "rank" /\ Rank!Next /\ phase'[r2] = "idle" /\ UNCHANGED instance
    \/ instance = "pins" /\ Pins!Next /\ Stays({u3})' /\ UNCHANGED instance
    \/ instance = "reports" /\ Reports!Next /\ Stays({u2, u3})' /\ UNCHANGED instance

MCSpec == MCInit /\ [][MCNext]_MCvars
=============================================================================
