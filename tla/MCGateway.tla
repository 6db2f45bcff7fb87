----------------------------- MODULE MCGateway -----------------------------
(***************************************************************************)
(* Four parts that share no state: the catalogue, the limits, the live log,  *)
(* and the settings with the tasks they switch.  In every behaviour one of   *)
(* them moves; the limits' two halves count apart.                          *)
(***************************************************************************)
EXTENDS Catalogue, Limits, LiveLog, Tasks, TLC

CONSTANTS p1, p2, s1, s2, n1, g1, boss, ann, own, team1, team2, c1, c2, c3, k1, k2, k3, w1, w2

VARIABLE instance

vars == <<catalogueVars, limitVars, liveVars, settingsVars, taskVars, instance>>

\* Catalogue: one provider that may pass models through, and one that may not.
MCGroupsOf == (boss :> {}) @@ (ann :> {g1})
MCTokenAllows == [c \in {boss, ann} |-> ({s1, s2} \cup {Bare}) \X {n1}]
MCNamed == {<<s1, n1>>, <<Bare, n1>>}
MCForms == (p1 :> [enabled : BOOLEAN, passes : {TRUE}, lists : SUBSET {n1}]
                  \cup [enabled : BOOLEAN, passes : {FALSE}, lists : {{}}])
           @@ (p2 :> [enabled : BOOLEAN, passes : {FALSE}, lists : {{}}])
MCRoutes == {{[of |-> p2, on |-> TRUE]}}

\* Limits: the windows of the token and of two groups.
MCLength == (own :> 2) @@ (team1 :> 3) @@ (team2 :> 1)
MCBudget == (own :> 3) @@ (team1 :> 1) @@ (team2 :> 2)

\* Bound: one edit while a cleaning is under way.
MCCatalogueNext == Cleaning \/ (clean.changed = {} /\ (ProviderEdit \/ ModelEdit))

MCInit ==
    /\ CatalogueInit /\ LimitsInit /\ LiveInit /\ TasksInit
    /\ instance \in {"catalogue", "calls", "connections", "live", "settings"}

Only(part, next, others) == instance = part /\ next /\ UNCHANGED <<others, instance>>

\* The other half of Limits stands still.
CallsNext == \/ \E c \in Call : Step(c)
             \/ \E k \in Window : SetExpires(k)
             \/ SecondPasses
StreamsNext == \E k \in Connection : Stream(k)

MCNext ==
    \/ Only("catalogue", MCCatalogueNext, <<limitVars, liveVars, settingsVars, taskVars>>)
    \/ Only("calls", CallsNext, <<catalogueVars, liveVars, settingsVars, taskVars>>)
    \/ Only("connections", StreamsNext, <<catalogueVars, liveVars, settingsVars, taskVars>>)
    \/ Only("live", LiveNext, <<catalogueVars, limitVars, settingsVars, taskVars>>)
    \/ Only("settings", TasksNext, <<catalogueVars, limitVars, liveVars>>)

\* Polls, listeners, loops and the time to live of a lease go on by themselves.
MCFairness ==
    /\ WF_vars(instance = "live" /\ Poll /\ UNCHANGED <<catalogueVars, limitVars, settingsVars, taskVars, instance>>)
    /\ \A p \in Process :
          /\ WF_vars(instance = "settings" /\ Fetch(p) /\ UNCHANGED <<taskVars, catalogueVars, limitVars, liveVars, instance>>)
          /\ WF_vars(instance = "settings" /\ Apply(p) /\ UNCHANGED <<taskVars, catalogueVars, limitVars, liveVars, instance>>)
          /\ WF_vars(instance = "settings" /\ Loop(p) /\ UNCHANGED <<catalogueVars, limitVars, liveVars, instance>>)
    /\ WF_vars(instance = "settings" /\ RunsOut /\ UNCHANGED <<catalogueVars, limitVars, liveVars, instance>>)

MCSpec == MCInit /\ [][MCNext]_vars /\ MCFairness

-----------------------------------------------------------------------------
\* SettingsGovern of Tasks where the settings move: caches follow the snapshot in
\* Redis, and tasks obey it (settings_store.py, tasks/manager.py).
SettingsArrive == instance = "settings" => SettingsGovern
=============================================================================
