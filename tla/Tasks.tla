------------------------------- MODULE Tasks -------------------------------
(***************************************************************************)
(* A periodic task (tasks/manager.py) in every process: it is due when the   *)
(* settings the process has cached say so, and ticks while it holds the      *)
(* lease with its name.                                                     *)
(***************************************************************************)
EXTENDS Settings, FiniteSets

CONSTANT Nobody

VARIABLES
    phase,     \* phase[p]: of p's loop
    owner, renewing,
    lost       \* processes whose lease may have run out under their tick

taskVars == <<phase, owner, renewing, lost>>

TheTask == "task"
L == INSTANCE Lease WITH Name <- {TheTask}, Free <- Nobody

ASSUME NobodyIsNoProcess == Nobody \notin Process

TasksInit ==
    /\ SettingsInit
    /\ phase = [p \in Process |-> "asleep"]
    /\ L!LeaseInit
    /\ lost = {}

\* is_enabled: the switch of the task and those of the features it serves.
Enabled(values) == \A k \in Key : values[k]

Wake(p) ==
    /\ p \in up /\ phase[p] = "asleep"
    /\ Enabled(cache[p])
    /\ phase' = [phase EXCEPT ![p] = "due"]
    /\ UNCHANGED <<settingsVars, owner, renewing, lost>>

\* _run_tick: the lease, or none and back to sleep.
Tick(p) ==
    /\ phase[p] = "due"
    /\ IF owner[TheTask] = Nobody
       THEN L!Acquire(TheTask, p) /\ phase' = [phase EXCEPT ![p] = "ticking"]
       ELSE UNCHANGED <<owner, renewing>> /\ phase' = [phase EXCEPT ![p] = "asleep"]
    /\ UNCHANGED <<settingsVars, lost>>

\* The tick ends, by an error or not.
EndTick(p) ==
    /\ phase[p] = "ticking"
    /\ L!Release(TheTask, p)
    /\ phase' = [phase EXCEPT ![p] = "asleep"]
    /\ lost' = lost \ {p}
    /\ UNCHANGED settingsVars

RenewalDies ==
    /\ L!RenewalDies(TheTask)
    /\ lost' = lost \cup {owner[TheTask]}
    /\ UNCHANGED <<settingsVars, phase>>

RunsOut == L!RunsOut(TheTask) /\ UNCHANGED <<settingsVars, phase, lost>>

StopAll(p) ==
    /\ Stop(p)
    /\ L!HolderStops(p)
    /\ phase' = [phase EXCEPT ![p] = "asleep"]
    /\ lost' = lost \ {p}

Loop(p) == Wake(p) \/ Tick(p) \/ EndTick(p)

TasksNext ==
    \/ \E p \in Process : \/ (Write(p) \/ Listen(p) \/ Boot(p)) /\ UNCHANGED taskVars
                          \/ StopAll(p)
                          \/ Loop(p)
    \/ RenewalDies
    \/ RunsOut

TasksSpec == TasksInit /\ [][TasksNext]_<<settingsVars, taskVars>>

-----------------------------------------------------------------------------
Ticking == {p \in Process : phase[p] = "ticking"}

\* A task ticks in one process at a time, but for those whose renewal has failed
\* (_run_tick, lease): a lease that ran out may have a new holder, which the old one
\* must not put out when it ends.
OneTickAtATime == Cardinality(Ticking \ lost) <= 1

\* A task that has been switched off stops ticking everywhere, and one that stays on
\* goes on ticking, in spite of processes that stop with its lease.
TasksObey ==
    /\ <>[]~Enabled(snapshot) => <>[](Ticking = {})
    /\ <>[](Enabled(snapshot) /\ up # {}) => []<>(Ticking # {})

SettingsGovern == CachesFollow /\ OnlyCommitted /\ TasksObey
=============================================================================
