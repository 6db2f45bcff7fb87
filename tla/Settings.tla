------------------------------ MODULE Settings ------------------------------
(***************************************************************************)
(* The runtime settings (services/settings_store.py): rows of the database,  *)
(* a snapshot of them in Redis, and a cache in every process that the hot    *)
(* paths read.  A writer commits its rows, then replaces the snapshot, then  *)
(* tells the others by a message that may be lost; every process also reads  *)
(* the snapshot again when it has heard nothing for a while.                 *)
(*                                                                          *)
(* A setting is on or off.                                                  *)
(***************************************************************************)
EXTENDS Naturals

CONSTANTS
    Key, Process,
    NoValues,
    MaxTurns     \* bound of the runs: writes and stops

Values == [Key -> BOOLEAN]

ASSUME SettingsConstants == MaxTurns \in Nat /\ NoValues \notin Values

VARIABLES
    up,         \* processes that run
    db,         \* the rows
    snapshot,   \* the snapshot in Redis
    cache,      \* cache[p]
    told,       \* processes with an unread message
    fetched,    \* fetched[p]: what p's listener has read and not yet applied
    job,        \* job[p]: the write, or the boot, that p is going through
    turns       \* writes and stops so far

settingsVars == <<up, db, snapshot, cache, told, fetched, job, turns>>

Idle == [stage |-> "none", keys |-> {}, values |-> NoValues]

Defaults == [k \in Key |-> TRUE]

SettingsInit ==
    /\ up = Process
    /\ db = Defaults /\ snapshot = Defaults
    /\ cache = [p \in Process |-> Defaults]
    /\ told = {}
    /\ fetched = [p \in Process |-> NoValues]
    /\ job = [p \in Process |-> Idle]
    /\ turns = 0

-----------------------------------------------------------------------------
(* A writer.                                                                *)

\* update, to its flush: the row is locked until the commit, and the snapshot is read
\* in the transaction: the rows the others have committed, and the own change.
Flush(p, k, value) ==
    /\ p \in up /\ job[p].stage = "none"
    /\ turns < MaxTurns
    /\ \A q \in Process : job[q].stage = "flushed" => k \notin job[q].keys
    /\ job' = [job EXCEPT ![p] = [stage |-> "flushed", keys |-> {k},
                                  values |-> [db EXCEPT ![k] = value]]]
    /\ turns' = turns + 1
    /\ UNCHANGED <<up, db, snapshot, cache, told, fetched>>

Commit(p) ==
    /\ job[p].stage = "flushed"
    /\ db' = [k \in Key |-> IF k \in job[p].keys THEN job[p].values[k] ELSE db[k]]
    /\ job' = [job EXCEPT ![p].stage = "committed"]
    /\ UNCHANGED <<up, snapshot, cache, told, fetched, turns>>

\* publish, to its message.
Publish(p) ==
    /\ job[p].stage = "committed"
    /\ snapshot' = job[p].values
    /\ told' \in {told \cup heard : heard \in SUBSET up}
    /\ job' = [job EXCEPT ![p].stage = "published"]
    /\ UNCHANGED <<up, db, cache, fetched, turns>>

\* A call to the database or to Redis fails; what was done before stands.  A boot is
\* given up as a whole.
GiveUp(p) ==
    /\ job[p].stage # "none"
    /\ job' = [job EXCEPT ![p] = Idle]
    /\ UNCHANGED <<up, db, snapshot, cache, told, fetched, turns>>

\* The writer applies its own values; a process that boots listens from here on.
ApplyOwn(p) ==
    /\ job[p].stage = "published"
    /\ cache' = [cache EXCEPT ![p] = job[p].values]
    /\ up' = up \cup {p}
    /\ job' = [job EXCEPT ![p] = Idle]
    /\ UNCHANGED <<db, snapshot, told, fetched, turns>>

-----------------------------------------------------------------------------
(* The listener.                                                            *)

\* Mutated form: a process reads the snapshot when it is told to, and only then.
HeardOnly(p) == p \in told

\* The timeout of get_message: the snapshot is read without a message too.
MayFetch(p) == TRUE

\* sync_from_redis, to its answer.
Fetch(p) ==
    /\ p \in up /\ fetched[p] = NoValues
    /\ MayFetch(p)
    /\ fetched' = [fetched EXCEPT ![p] = snapshot]
    /\ told' = told \ {p}
    /\ UNCHANGED <<up, db, snapshot, cache, job, turns>>

Apply(p) ==
    /\ fetched[p] # NoValues
    /\ cache' = [cache EXCEPT ![p] = fetched[p]]
    /\ fetched' = [fetched EXCEPT ![p] = NoValues]
    /\ UNCHANGED <<up, db, snapshot, told, job, turns>>

-----------------------------------------------------------------------------
(* Processes.                                                               *)

Stop(p) ==
    /\ p \in up /\ turns < MaxTurns
    /\ up' = up \ {p}
    /\ job' = [job EXCEPT ![p] = Idle]
    /\ fetched' = [fetched EXCEPT ![p] = NoValues]
    /\ told' = told \ {p}
    /\ turns' = turns + 1
    /\ UNCHANGED <<db, snapshot, cache>>

\* lifespan: ensure_defaults and load_all, and the rows are published.
Boot(p) ==
    /\ p \notin up /\ job[p] = Idle
    /\ cache' = [cache EXCEPT ![p] = db]
    /\ job' = [job EXCEPT ![p] = [Idle EXCEPT !.stage = "committed", !.values = db]]
    /\ UNCHANGED <<up, db, snapshot, told, fetched, turns>>

Write(p) == \/ \E k \in Key, value \in BOOLEAN : Flush(p, k, value)
            \/ Commit(p) \/ Publish(p) \/ GiveUp(p) \/ ApplyOwn(p)

Listen(p) == Fetch(p) \/ Apply(p)

-----------------------------------------------------------------------------
\* Once nobody writes any more, every process reads what is in Redis, whatever
\* messages were lost and however applying overlapped with publishing (publish,
\* start_listener).
CachesFollow == <>[](\A p \in up : cache[p] = snapshot)

\* What is published and applied is what was committed, whatever writes are given up
\* half way and whatever processes stop between two steps: while no change of a setting
\* is committed, nobody sees one, neither in Redis nor in a cache (update, publish,
\* sync_from_redis).
OnlyCommitted ==
    \A k \in Key : [](db[k] = Defaults[k])
                    => [](/\ snapshot[k] = Defaults[k]
                          /\ \A p \in Process : cache[p][k] = Defaults[k])
=============================================================================
