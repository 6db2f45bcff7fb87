---------------------------- MODULE GatewayProofs ----------------------------
(***************************************************************************)
(* Proofs about the parts of the gateway that share no state: the periodic   *)
(* tasks and the settings they obey, the live log, the limits, the catalogue *)
(* and the translated streams, for any number of processes, settings, rows,  *)
(* calls, windows, connections, providers and models, and for conversations   *)
(* of any length.                                                           *)
(***************************************************************************)
EXTENDS Dialogue, Catalogue, Limits, LiveLog, Tasks,
        FiniteSetTheorems, NaturalsInduction, WellFoundedInduction, TLAPS

(***************************************************************************)
(* Tasks.  A process that ticks, and whose renewal has not failed, owns the  *)
(* lease, and the lease is being renewed: so it does not run out, and nobody *)
(* else can have acquired it.                                               *)
(***************************************************************************)
TasksType ==
    /\ phase \in [Process -> {"asleep", "due", "ticking"}]
    /\ owner \in [{TheTask} -> Process \cup {Nobody}]
    /\ renewing \in [{TheTask} -> BOOLEAN]
    /\ lost \subseteq Process

Holds(p) == owner[TheTask] = p /\ renewing[TheTask] = TRUE

HolderTicks ==
    /\ \A p \in Process : phase[p] = "ticking" /\ p \notin lost => Holds(p)
    /\ renewing[TheTask] = TRUE => owner[TheTask] \in Ticking

TasksInv == TasksType /\ HolderTicks

\* What a step of a task or of its settings does to the lease and the loops.
LEMMA TasksStep ==
    ASSUME TasksType, TasksNext
    PROVE  \/ UNCHANGED taskVars
           \/ \E p \in Process : Wake(p) \/ Tick(p) \/ EndTick(p) \/ StopAll(p)
           \/ RenewalDies
           \/ RunsOut
BY DEF TasksNext, Loop

LEMMA TasksInitInv == TasksInit => TasksInv
BY NobodyIsNoProcess DEF TasksInit, TasksInv, TasksType, HolderTicks, Holds, L!LeaseInit,
   TheTask

LEMMA TasksNextInv == TasksInv /\ [TasksNext]_<<settingsVars, taskVars>> => TasksInv'
<1> SUFFICES ASSUME TasksInv, [TasksNext]_<<settingsVars, taskVars>> PROVE TasksInv'
  OBVIOUS
<1> USE DEF TasksInv, TasksType, HolderTicks, Holds, Ticking
<1>1. CASE UNCHANGED taskVars
  BY <1>1 DEF taskVars
<1>2. ASSUME NEW p \in Process, Wake(p) PROVE TasksInv'
  BY <1>2 DEF Wake
<1>3. ASSUME NEW p \in Process, Tick(p) PROVE TasksInv'
  <2>1. CASE owner[TheTask] = Nobody
    <3>1. /\ phase' = [phase EXCEPT ![p] = "ticking"] /\ lost' = lost
          /\ owner' = [owner EXCEPT ![TheTask] = p]
          /\ renewing' = [renewing EXCEPT ![TheTask] = TRUE]
      BY <1>3, <2>1 DEF Tick, L!Acquire
    <3>2. \A q \in Process : phase[q] = "ticking" => q \in lost
      BY <2>1, NobodyIsNoProcess
    <3> QED BY <3>1, <3>2
  <2>2. CASE owner[TheTask] # Nobody
    BY <1>3, <2>2 DEF Tick
  <2> QED BY <2>1, <2>2
<1>4. ASSUME NEW p \in Process, EndTick(p) PROVE TasksInv'
  BY <1>4, NobodyIsNoProcess DEF EndTick, L!Release
<1>5. ASSUME NEW p \in Process, StopAll(p) PROVE TasksInv'
  BY <1>5 DEF StopAll, L!HolderStops
<1>6. CASE RenewalDies
  BY <1>6 DEF RenewalDies, L!RenewalDies
<1>7. CASE RunsOut
  BY <1>7 DEF RunsOut, L!RunsOut
<1> QED BY <1>1, <1>2, <1>3, <1>4, <1>5, <1>6, <1>7, TasksStep DEF taskVars

\* The task ticks in one process at a time, but for those whose renewal has failed:
\* whatever stops, wakes up late, or ends after its lease ran out (_run_tick, lease).
THEOREM OneTick == TasksSpec => []OneTickAtATime
<1>1. TasksInv => OneTickAtATime
  <2> SUFFICES ASSUME TasksInv PROVE OneTickAtATime
    OBVIOUS
  <2>1. Ticking \ lost \subseteq {owner[TheTask]}
    BY DEF TasksInv, HolderTicks, Holds, Ticking
  <2>2. IsFiniteSet({owner[TheTask]}) /\ Cardinality({owner[TheTask]}) = 1
    BY FS_Singleton
  <2>3. Cardinality(Ticking \ lost) <= 1
    BY <2>1, <2>2, FS_Subset
  <2> QED BY <2>3 DEF OneTickAtATime
<1> QED BY <1>1, TasksInitInv, TasksNextInv, PTL DEF TasksSpec

(***************************************************************************)
(* Settings.  While no change of setting k is committed, whatever is on its   *)
(* way to Redis or to a cache holds its default: a write that has not been    *)
(* committed may change k in its own values only, and never gets further.     *)
(***************************************************************************)
Unchanged(k) == db[k] = Defaults[k]

SettingsType ==
    /\ db \in Values /\ snapshot \in Values
    /\ cache \in [Process -> Values]
    /\ fetched \in [Process -> Values \cup {NoValues}]
    /\ job \in [Process -> [stage : {"none", "flushed", "committed", "published"},
                           keys : SUBSET Key, values : Values \cup {NoValues}]]
    /\ \A p \in Process : job[p].stage # "none" => job[p].values \in Values

\* Nobody outside a transaction has another value of k than the default.
Untouched(k) ==
    /\ snapshot[k] = Defaults[k]
    /\ \A p \in Process :
          /\ cache[p][k] = Defaults[k]
          /\ fetched[p] # NoValues => fetched[p][k] = Defaults[k]
          /\ job[p].stage \in {"committed", "published"} => job[p].values[k] = Defaults[k]
          /\ job[p].stage = "flushed" /\ k \notin job[p].keys => job[p].values[k] = Defaults[k]

SettingsStep ==
    \E p \in Process :
        \/ \E k \in Key, value \in BOOLEAN : Flush(p, k, value)
        \/ Commit(p) \/ Publish(p) \/ GiveUp(p) \/ ApplyOwn(p)
        \/ Fetch(p) \/ Apply(p) \/ Stop(p) \/ Boot(p)

\* What a step of a task or of its settings does to the settings.
LEMMA SettingsSteps ==
    ASSUME [TasksNext]_<<settingsVars, taskVars>>
    PROVE  SettingsStep \/ UNCHANGED settingsVars
<1>1. CASE TasksNext
  BY <1>1 DEF TasksNext, SettingsStep, Write, Listen, StopAll, Loop, Wake, Tick, EndTick,
     RenewalDies, RunsOut
<1> QED BY <1>1

LEMMA SettingsInitInv == SettingsInit => SettingsType /\ \A k \in Key : Untouched(k)
<1>1. Defaults \in Values
  BY DEF Defaults, Values
<1>2. SettingsInit => SettingsType
  BY <1>1 DEF SettingsInit, SettingsType, Idle
<1>3. Defaults # NoValues
  BY <1>1, SettingsConstants
<1> QED BY <1>2, <1>3 DEF SettingsInit, Untouched, Idle

LEMMA SettingsNextType == SettingsType /\ [TasksNext]_<<settingsVars, taskVars>> => SettingsType'
<1> SUFFICES ASSUME SettingsType, SettingsStep PROVE SettingsType'
  <2>1. SettingsType /\ UNCHANGED settingsVars => SettingsType'
    BY DEF settingsVars, SettingsType
  <2> QED BY <2>1, SettingsSteps
<1> DEFINE Jobs == [stage : {"none", "flushed", "committed", "published"},
                    keys : SUBSET Key, values : Values \cup {NoValues}]
<1> PICK p \in Process :
        \/ \E k \in Key, value \in BOOLEAN : Flush(p, k, value)
        \/ Commit(p) \/ Publish(p) \/ GiveUp(p) \/ ApplyOwn(p)
        \/ Fetch(p) \/ Apply(p) \/ Stop(p) \/ Boot(p)
  BY DEF SettingsStep
<1>1. ASSUME NEW k \in Key, NEW value \in BOOLEAN, Flush(p, k, value) PROVE SettingsType'
  <2>1. [db EXCEPT ![k] = value] \in Values
    BY DEF SettingsType, Values
  <2> QED BY <1>1, <2>1 DEF Flush, SettingsType
<1>2. CASE Commit(p)
  <2>1. db' \in Values
    BY <1>2 DEF Commit, SettingsType, Values
  <2> QED BY <1>2, <2>1 DEF Commit, SettingsType
<1>3. CASE Publish(p)
  BY <1>3 DEF Publish, SettingsType
<1>4. CASE GiveUp(p)
  BY <1>4 DEF GiveUp, SettingsType, Idle
<1>5. CASE ApplyOwn(p)
  BY <1>5 DEF ApplyOwn, SettingsType, Idle
<1>6. CASE Fetch(p) \/ Apply(p)
  BY <1>6 DEF Fetch, Apply, SettingsType
<1>7. CASE Stop(p)
  BY <1>7 DEF Stop, SettingsType, Idle
<1>8. CASE Boot(p)
  BY <1>8 DEF Boot, SettingsType, Idle
<1> QED BY <1>1, <1>2, <1>3, <1>4, <1>5, <1>6, <1>7, <1>8

LEMMA UntouchedStays ==
    ASSUME SettingsType, NEW k \in Key, Untouched(k), Unchanged(k), Unchanged(k)',
           [TasksNext]_<<settingsVars, taskVars>>
    PROVE  Untouched(k)'
<1>1. CASE UNCHANGED settingsVars
  BY <1>1 DEF settingsVars, Untouched
<1>2. ASSUME NEW p \in Process, NEW h \in Key, NEW value \in BOOLEAN, Flush(p, h, value)
      PROVE  Untouched(k)'
  <2>1. k # h => [db EXCEPT ![h] = value][k] = Defaults[k]
    BY DEF Unchanged, SettingsType, Values
  <2> QED BY <1>2, <2>1 DEF Flush, SettingsType, Untouched
<1>3. ASSUME NEW p \in Process, Commit(p) PROVE Untouched(k)'
  <2>1. job[p].values[k] = Defaults[k]
    BY <1>3 DEF Commit, Untouched, Unchanged
  <2> QED BY <1>3, <2>1 DEF Commit, SettingsType, Untouched
<1>4. ASSUME NEW p \in Process, Publish(p) PROVE Untouched(k)'
  BY <1>4 DEF Publish, SettingsType, Untouched
<1>5. ASSUME NEW p \in Process, GiveUp(p) \/ Stop(p) PROVE Untouched(k)'
  <2>1. /\ UNCHANGED <<snapshot, cache>>
        /\ fetched' \in {fetched, [fetched EXCEPT ![p] = NoValues]}
        /\ job' = [job EXCEPT ![p] = Idle]
    BY <1>5 DEF GiveUp, Stop
  <2> QED BY <2>1, SMTT(60) DEF SettingsType, Untouched, Idle
<1>6. ASSUME NEW p \in Process, ApplyOwn(p) PROVE Untouched(k)'
  BY <1>6 DEF ApplyOwn, SettingsType, Untouched, Idle
<1>7. ASSUME NEW p \in Process, Fetch(p) \/ Apply(p) PROVE Untouched(k)'
  BY <1>7 DEF Fetch, Apply, SettingsType, Untouched
<1>8. ASSUME NEW p \in Process, Boot(p) PROVE Untouched(k)'
  BY <1>8 DEF Boot, SettingsType, Untouched, Unchanged, Idle
<1> QED BY <1>1, <1>2, <1>3, <1>4, <1>5, <1>6, <1>7, <1>8, SettingsSteps DEF SettingsStep

\* Whoever writes, gives up, stops, boots, publishes and reads in whatever order: while
\* no change of a setting is committed, neither Redis nor a cache shows one (update,
\* publish, sync_from_redis).
THEOREM CommittedIsSeen == TasksSpec => OnlyCommitted
<1> SUFFICES ASSUME NEW k \in Key
             PROVE  TasksSpec /\ [](db[k] = Defaults[k])
                    => [](/\ snapshot[k] = Defaults[k]
                          /\ \A p \in Process : cache[p][k] = Defaults[k])
  BY DEF OnlyCommitted
<1>1. TasksInit => SettingsType /\ Untouched(k)
  BY SettingsInitInv DEF TasksInit
<1>2. SettingsType /\ [TasksNext]_<<settingsVars, taskVars>> => SettingsType'
  BY SettingsNextType
<1>3. /\ SettingsType /\ Untouched(k) /\ db[k] = Defaults[k] /\ (db[k] = Defaults[k])'
      /\ [TasksNext]_<<settingsVars, taskVars>>
      => Untouched(k)'
  BY UntouchedStays DEF Unchanged
<1>4. Untouched(k) => /\ snapshot[k] = Defaults[k]
                      /\ \A p \in Process : cache[p][k] = Defaults[k]
  BY DEF Untouched
<1> QED BY <1>1, <1>2, <1>3, <1>4, PTL DEF TasksSpec

(***************************************************************************)
(* The live log.  Where rows commit in the order of their ids, a poll takes   *)
(* an initial segment of what lies above last, and an update of a row that    *)
(* was watched lies below it.  A poll that brings both leaves last where it   *)
(* was; the new rows are asked for again.                                     *)
(***************************************************************************)
Above == {i \in Log : Visible(i) /\ i > last}

LiveType ==
    /\ log \in [Log -> {"none", "inserted", "pending", "final"}]
    /\ shown \in [Log -> {"none", "pending", "final"}]
    /\ last \in Nat /\ watched \subseteq Log

\* Whose end is watched for has been read, and would be read again if it is above last.
WatchedRead == \A i \in watched : Visible(i) /\ (i > last => i \in NewRows)

PendingWatched == \A i \in Log : shown[i] = "pending" => i \in watched

LastRead == last = 0 \/ (last \in Log /\ Visible(last))

LiveInv == LiveType /\ LastRead /\ WatchedRead /\ PendingWatched /\ NothingPassedOver

LEMMA LiveFinite == IsFiniteSet(Log) /\ Log \subseteq Nat
BY LiveLogConstants, FS_Interval DEF Log

LEMMA SomeAreFirst ==
    ASSUME NEW ids \in SUBSET Log, NEW j \in Some(ids), NEW i \in ids, i <= j
    PROVE  i \in Some(ids)
<1> DEFINE below(k) == {h \in ids : h < k}
<1>1. IsFiniteSet(below(j)) /\ below(i) \subseteq below(j)
  <2>1. below(j) \subseteq Log /\ j \in Nat /\ ids \subseteq Nat
    BY LiveFinite DEF Some
  <2>2. \A h \in ids : h < i => h < j
    BY <2>1
  <2>3. below(i) \subseteq below(j)
    BY <2>2
  <2> HIDE DEF below
  <2> QED BY <2>1, <2>3, LiveFinite, FS_Subset
<1>2. Cardinality(below(i)) <= Cardinality(below(j)) /\ IsFiniteSet(below(i))
  BY <1>1, FS_Subset
<1>3. Cardinality(below(i)) \in Nat /\ Cardinality(below(j)) \in Nat
  BY <1>1, <1>2, FS_CardinalityType
<1> QED BY <1>2, <1>3, LiveLogConstants DEF Some

\* The largest of a finite set of numbers that is not empty.
LEMMA LargestOf ==
    ASSUME NEW S \in SUBSET Nat, IsFiniteSet(S), S # {}
    PROVE  Max(S) \in S /\ \A i \in S : i <= Max(S)
<1> DEFINE above(x) == {i \in S : i > x}
           T == {above(x) : x \in S}
<1>1. IsWellFoundedOn(StrictSubsetOrdering(S), SUBSET S)
  BY FS_StrictSubsetOrderingWellFounded, FS_FiniteSubsetsOfFinite
<1>2. T \subseteq SUBSET S /\ T # {}
  OBVIOUS
<1>3. PICK least \in T : \A A \in T : <<A, least>> \notin StrictSubsetOrdering(S)
  <2> HIDE DEF T
  <2> QED BY <1>1, <1>2, WFMin
<1>4. PICK x \in S : least = above(x)
  OBVIOUS
<1>5. ASSUME NEW i \in S, i > x PROVE FALSE
  <2>1. above(i) \subseteq above(x) /\ i \in above(x) /\ i \notin above(i)
    <3>1. \A h \in S : h > i => h > x
      BY <1>5
    <3>2. above(i) \subseteq above(x)
      BY <3>1
    <3>3. ~(i > i)
      BY S \subseteq Nat
    <3>4. i \in above(x) /\ i \notin above(i)
      BY <1>5, <3>3
    <3> QED BY <3>2, <3>4
  <2>2. above(i) \in T /\ above(i) \subseteq S /\ above(x) \subseteq S
    OBVIOUS
  <2> HIDE DEF above, T
  <2> QED BY <1>3, <1>4, <2>1, <2>2 DEF StrictSubsetOrdering
<1>6. \A i \in S : x >= i
  BY <1>5
<1> QED BY <1>6 DEF Max

LEMMA LiveSets ==
    ASSUME LiveType
    PROVE  /\ NewRows \subseteq Above /\ Updates \subseteq watched /\ Above \subseteq Log
           /\ \A i \in Updates : log[i] = "final" /\ i \notin NewRows
           /\ \A i \in NewRows : Visible(i) /\ i > last
           /\ Rows \subseteq Log
BY DEF LiveType, NewRows, Updates, Rows, Some, Above

\* Where last goes: nowhere if a watched row has ended, else to the newest row read.
LEMMA LastMoves ==
    ASSUME LiveInv, Poll
    PROVE  /\ last' \in Nat /\ last <= last' /\ last' \in {last} \cup NewRows
           /\ Updates # {} => last' = last
           /\ \A i \in Above : i <= last' => i \in NewRows
           /\ Updates = {} => \A i \in NewRows : i <= last'
<1> USE DEF LiveInv, LiveType
<1>1. /\ NewRows \subseteq Log /\ Updates \subseteq Log /\ Log \subseteq Nat
      /\ IsFiniteSet(NewRows) /\ IsFiniteSet(Updates)
  BY LiveSets, LiveFinite, FS_Subset
<1>2. CASE Updates # {}
  <2>1. Max(Updates) \in Updates
    BY <1>1, <1>2, LargestOf
  <2>2. Max(Updates) <= last /\ Max(Updates) \in Nat
    <3>1. Max(Updates) \in watched /\ Max(Updates) \notin NewRows
      BY <2>1, LiveSets
    <3>2. ~(Max(Updates) > last)
      BY <3>1 DEF WatchedRead
    <3>3. Max(Updates) \in Nat /\ last \in Nat
      BY <1>1, <2>1
    <3> QED BY <3>2, <3>3
  <2> DEFINE candidates == {last} \cup {Max(Updates)}
  <2>3. candidates \in SUBSET Nat /\ candidates # {} /\ IsFiniteSet(candidates)
    BY <2>2, FS_Singleton, FS_AddElement
  <2>4. last' = Max(candidates)
    BY <1>2 DEF Poll, Newest
  <2>5. last' \in candidates /\ \A i \in candidates : i <= last'
    <3> HIDE DEF candidates
    <3> QED BY <2>3, <2>4, LargestOf
  <2>6. last' = last
    BY <2>2, <2>5
  <2>7. \A i \in Above : ~(i <= last')
    BY <1>1, <2>6, LiveSets DEF Above
  <2> QED BY <1>2, <2>6, <2>7
<1>3. CASE Updates = {}
  <2> DEFINE candidates == {last} \cup NewRows
  <2>0. candidates = NewRows \cup {last} /\ IsFiniteSet(NewRows \cup {last})
    BY <1>1, FS_AddElement
  <2>1. candidates \in SUBSET Nat /\ candidates # {} /\ IsFiniteSet(candidates)
    BY <1>1, <2>0
  <2>2. last' = Max(candidates)
    BY <1>3 DEF Poll, Newest
  <2>3. last' \in candidates /\ \A i \in candidates : i <= last'
    <3> HIDE DEF candidates
    <3> QED BY <2>1, <2>2, LargestOf
  <2>4. ASSUME NEW i \in Above, i <= last' PROVE i \in NewRows
    <3>1. last' \in NewRows
      BY <2>3, <2>4, <1>1 DEF Above
    <3> QED BY <2>4, <3>1, SomeAreFirst, LiveSets DEF NewRows, Above
  <2> QED BY <1>1, <1>3, <2>3, <2>4
<1> QED BY <1>2, <1>3

LEMMA PollKeepsLive == LiveInv /\ Poll => LiveInv'
<1> SUFFICES ASSUME LiveInv, Poll PROVE LiveInv'
  OBVIOUS
<1>1. /\ LiveType /\ log' = log /\ watched' = Watching
      /\ shown' = [i \in Log |-> IF i \in Rows THEN log[i] ELSE shown[i]]
  BY DEF LiveInv, Poll
<1>2. \A i \in Rows : Visible(i)
  BY LiveSets, <1>1 DEF Rows, Visible
<1>3. Watching \subseteq watched \cup NewRows
  BY LiveSets, <1>1 DEF Watching, Rows
<1>4. LiveType'
  <2>1. \A i \in Log : shown'[i] \in {"none", "pending", "final"}
    BY <1>1, <1>2 DEF LiveType, Visible
  <2>2. shown' \in [Log -> {"none", "pending", "final"}]
    BY <1>1, <2>1
  <2>3. watched' \subseteq Log
    BY <1>1, <1>3, LiveSets DEF LiveType
  <2> QED BY <1>1, <2>2, <2>3, LastMoves DEF LiveType
<1>5. WatchedRead'
  <2> SUFFICES ASSUME NEW i \in watched'
               PROVE  Visible(i) /\ (i > last' => i \in NewRows /\ last' = last)
    BY <1>1 DEF WatchedRead, Visible, NewRows
  <2>1. Visible(i) /\ (i > last => i \in NewRows) /\ i \in Nat
    BY <1>1, <1>3, LiveSets, LiveFinite DEF LiveInv, WatchedRead, LiveType
  <2>2. ASSUME i > last' PROVE i \in NewRows /\ last' = last
    <3>1. i > last
      BY <1>1, <2>1, <2>2, LastMoves DEF LiveType
    <3>2. i \in NewRows
      BY <2>1, <3>1
    <3>3. Updates # {}
      BY <2>1, <2>2, <3>2, LastMoves
    <3> QED BY <3>2, <3>3, LastMoves
  <2> QED BY <2>1, <2>2
<1>6. PendingWatched'
  BY <1>1 DEF PendingWatched, LiveInv, Watching
<1>7. LastRead'
  BY <1>1, LastMoves, LiveSets DEF LiveInv, LastRead, Visible
<1>8. NothingPassedOver'
  <2> SUFFICES ASSUME NEW i \in Log, Visible(i), i <= last'
               PROVE  shown'[i] = log[i] \/ (shown'[i] = "pending" /\ i \in watched')
    BY <1>1 DEF NothingPassedOver, Visible
  <2>1. CASE i \in Rows
    BY <1>1, <2>1
  <2>2. CASE i \notin Rows
    <3>1. i <= last
      BY <2>2, <1>1, LastMoves, LiveFinite DEF Above, Rows, LiveType
    <3>2. shown[i] = log[i] \/ (shown[i] = "pending" /\ i \in watched)
      BY <3>1 DEF LiveInv, NothingPassedOver
    <3> QED BY <1>1, <2>2, <3>2 DEF Watching
  <2> QED BY <2>1, <2>2
<1> QED BY <1>4, <1>5, <1>6, <1>7, <1>8 DEF LiveInv

\* A row that commits in order does so above all that are visible: the rows that would
\* be read next stay the same.
LEMMA CommitKeepsNew ==
    ASSUME LiveType, InOrder, NEW i \in Log, CommitRow(i), NEW j \in NewRows
    PROVE  j \in NewRows'
<1>1. /\ log[i] = "inserted" /\ last' = last
      /\ \A h \in Log : h # i => log'[h] = log[h]
      /\ Visible(i)'
  BY DEF CommitRow, LiveType, Visible
<1>2. j \in Above /\ j < i
  <2>1. j \in Above /\ Visible(j) /\ ~Visible(i)
    BY <1>1, LiveSets DEF Visible
  <2>2. j \in Log /\ j \in Nat /\ i \in Nat
    BY <2>1, LiveSets, LiveFinite
  <2>3. ~(i < j) /\ i # j
    BY <2>1, <2>2 DEF InOrder
  <2> QED BY <2>1, <2>2, <2>3
<1>3. {h \in Above' : h < j} = {h \in Above : h < j}
  <2>1. \A h \in Log : h < j => h # i
    <3>1. j \in Nat /\ i \in Nat /\ Log \subseteq Nat
      BY <1>2, LiveSets, LiveFinite
    <3> QED BY <1>2, <3>1
  <2>2. \A h \in Log : h < j => (Visible(h) <=> Visible(h)')
    BY <1>1, <2>1 DEF Visible
  <2> QED BY <1>1, <2>2 DEF Above
<1>4. j \in Above'
  BY <1>1, <1>2, LiveSets, LiveFinite DEF Above, Visible
<1> QED BY <1>3, <1>4 DEF NewRows, Some, Above

LEMMA LiveInitInv == LiveInit => LiveInv
BY DEF LiveInit, LiveInv, LiveType, LastRead, WatchedRead, PendingWatched,
   NothingPassedOver, Visible

LEMMA LiveNextInv ==
    ASSUME LiveInv, InOrder, InOrder', ~skipped', [LiveNext]_liveVars
    PROVE  LiveInv'
<1> USE DEF LiveInv
<1>1. CASE UNCHANGED liveVars
  BY <1>1 DEF liveVars, LiveType, LastRead, WatchedRead, PendingWatched,
     NothingPassedOver, Visible, NewRows
<1>2. ASSUME NEW i \in Log, InsertRow(i) PROVE LiveInv'
  <2>1. /\ LiveType' /\ UNCHANGED <<last, watched, shown>>
        /\ \A h \in Log : (Visible(h)' <=> Visible(h)) /\ (Visible(h) => log'[h] = log[h])
    BY <1>2 DEF InsertRow, LiveType, Visible
  <2>2. NewRows' = NewRows
    BY <2>1 DEF NewRows
  <2> QED BY <2>1, <2>2 DEF LastRead, WatchedRead, PendingWatched, NothingPassedOver, LiveType
<1>3. ASSUME NEW i \in Log, CommitRow(i) PROVE LiveInv'
  <2>1. /\ LiveType' /\ UNCHANGED <<last, watched, shown>> /\ ~Visible(i)
        /\ \A h \in Log : Visible(h) => Visible(h)' /\ log'[h] = log[h]
        /\ \A h \in Log : h # i => (Visible(h)' <=> Visible(h))
    BY <1>3 DEF CommitRow, LiveType, Visible
  <2>2. WatchedRead'
    BY <1>3, <2>1, CommitKeepsNew DEF WatchedRead, LiveType
  <2>3. ~(i <= last)
    <3>1. i \in Nat /\ i # 0 /\ last \in Nat
      BY LiveLogConstants DEF LiveType, Log
    <3>2. last \in Log /\ Visible(last) => ~(i < last) /\ i # last
      BY <2>1 DEF InOrder
    <3> QED BY <3>1, <3>2 DEF LastRead
  <2>4. NothingPassedOver'
    BY <2>1, <2>3 DEF NothingPassedOver
  <2> QED BY <2>1, <2>2, <2>4 DEF LastRead, PendingWatched
<1>4. ASSUME NEW i \in Log, FinishRow(i) PROVE LiveInv'
  <2>1. /\ LiveType' /\ UNCHANGED <<last, watched, shown>> /\ log[i] = "pending"
        /\ \A h \in Log : (Visible(h)' <=> Visible(h)) /\ (h # i => log'[h] = log[h])
    BY <1>4 DEF FinishRow, LiveType, Visible
  <2>2. NewRows' = NewRows
    BY <2>1 DEF NewRows
  <2> QED BY <2>1, <2>2 DEF LastRead, WatchedRead, PendingWatched, NothingPassedOver, LiveType
<1>5. CASE Poll
  BY <1>5, PollKeepsLive
<1>6. CASE PollFails
  BY <1>6 DEF PollFails
<1> QED BY <1>1, <1>2, <1>3, <1>4, <1>5, <1>6 DEF LiveNext

\* However polls mix new rows with the ends of older ones, and however many come at
\* once: as long as rows commit in order and no poll fails, whatever lies below last has
\* been shown as it is, or its end is still watched for (_stream_request_log_events).
THEOREM NothingIsPassedOver == LiveSpec /\ [](InOrder /\ ~skipped) => []NothingPassedOver
<1>1. LiveInv => NothingPassedOver
  BY DEF LiveInv
<1>2. LiveInv /\ (InOrder /\ ~skipped) /\ (InOrder /\ ~skipped)' /\ [LiveNext]_liveVars => LiveInv'
  BY LiveNextInv
<1> QED BY <1>1, <1>2, LiveInitInv, PTL DEF LiveSpec

(***************************************************************************)
(* Limits: the windows.  What a window has let through in the last Length    *)
(* seconds is still in its set, and members are told apart by their number.  *)
(***************************************************************************)
WindowsType ==
    /\ now \in 0..MaxTime
    /\ hits \in [Window -> SUBSET (Nat \X Nat)]
    /\ counted \in [Window -> SUBSET (Nat \X Nat)]

Remembers(k) ==
    /\ IsFiniteSet(counted[k])
    /\ hits[k] \subseteq counted[k]
    /\ \A m \in counted[k] : Time(m) <= now /\ m[2] <= Cardinality(counted[k])
    /\ \A m \in counted[k] : Time(m) + Length[k] > now => m \in hits[k]

WindowsInv == WindowsType /\ (\A k \in Window : Remembers(k)) /\ WindowHolds

\* A call that a window with something left lets through.
LEMMA HitKeepsWindows ==
    ASSUME WindowsInv, NEW k \in Window, Members(k) < Budget[k], Hit(k), UNCHANGED now
    PROVE  WindowsInv'
<1> DEFINE member == <<now, Cardinality(counted[k]) + 1>>
<1> USE LimitConstants
<1>1. /\ IsFiniteSet(counted[k]) /\ Cardinality(counted[k]) \in Nat
      /\ counted[k] \subseteq Nat \X Nat /\ hits[k] \subseteq counted[k]
      /\ now \in Nat /\ Length[k] \in Nat \ {0} /\ Budget[k] \in Nat
  BY FS_CardinalityType DEF WindowsInv, WindowsType, Remembers
<1>2. member \notin counted[k] /\ member \in Nat \X Nat
  <2>1. \A m \in counted[k] : m[2] <= Cardinality(counted[k]) /\ m[2] \in Nat
    BY <1>1 DEF WindowsInv, Remembers
  <2>2. member[2] = Cardinality(counted[k]) + 1
    OBVIOUS
  <2> QED BY <1>1, <2>1, <2>2
<1>3. /\ hits' = [hits EXCEPT ![k] = Pruned(k) \cup {member}]
      /\ counted' = [counted EXCEPT ![k] = @ \cup {member}]
      /\ now' = now
  BY DEF Hit
<1>4. /\ hits'[k] = Pruned(k) \cup {member}
      /\ counted'[k] = counted[k] \cup {member}
      /\ \A o \in Window \ {k} : hits'[o] = hits[o] /\ counted'[o] = counted[o]
  BY <1>3 DEF WindowsInv, WindowsType
<1>5. /\ IsFiniteSet(counted'[k])
      /\ Cardinality(counted'[k]) = Cardinality(counted[k]) + 1
  <2> HIDE DEF member
  <2> QED BY <1>1, <1>2, <1>4, FS_AddElement, SMTT(60)
<1>6. WindowsType'
  <2>1. Pruned(k) \cup {member} \in SUBSET (Nat \X Nat) /\ counted[k] \cup {member} \in SUBSET (Nat \X Nat)
    BY <1>1, <1>2 DEF Pruned
  <2> HIDE DEF member
  <2>2. WindowsType
    BY DEF WindowsInv
  <2> DEFINE T == SUBSET (Nat \X Nat)
  <2>3. Pruned(k) \cup {member} \in T /\ counted[k] \cup {member} \in T
    BY <2>1
  <2>4. hits \in [Window -> T] /\ counted \in [Window -> T]
    BY <2>2 DEF WindowsType
  <2> HIDE DEF T
  <2>5. hits' \in [Window -> T] /\ counted' \in [Window -> T]
    BY <1>3, <2>3, <2>4
  <2> QED BY <1>3, <2>2, <2>5 DEF WindowsType, T
<1>7. ASSUME NEW o \in Window PROVE Remembers(o)'
  <2>1. CASE o # k
    <3>1. hits'[o] = hits[o] /\ counted'[o] = counted[o] /\ now' = now
      BY <1>3, <1>4, <2>1
    <3>2. Remembers(o)
      BY DEF WindowsInv
    <3> QED BY <3>1, <3>2 DEF Remembers, Time
  <2>2. CASE o = k
    <3>1. Time(member) = now /\ member[2] = Cardinality(counted[k]) + 1
      BY DEF Time
    <3>2. \A m \in counted'[k] : Time(m) <= now /\ m[2] <= Cardinality(counted[k]) + 1
      <4>1. \A m \in counted[k] : Time(m) <= now /\ m[2] <= Cardinality(counted[k]) /\ m[2] \in Nat
        BY <1>1 DEF WindowsInv, Remembers
      <4> HIDE DEF member
      <4> QED BY <1>1, <1>4, <3>1, <4>1
    <3>3. \A m \in counted'[k] : Time(m) + Length[k] > now => m \in hits'[k]
      <4> HIDE DEF member
      <4> QED BY <1>1, <1>4 DEF WindowsInv, Remembers, Pruned
    <3>4. hits'[k] \subseteq counted'[k]
      BY <1>1, <1>4 DEF Pruned
    <3>5. Time(member)' = Time(member) /\ \A m : Time(m)' = Time(m)
      BY DEF Time
    <3> QED BY <1>3, <1>5, <2>2, <3>2, <3>3, <3>4 DEF Remembers, Time
  <2> QED BY <2>1, <2>2
<1>8. WindowHolds'
  <2> SUFFICES ASSUME NEW o \in Window, NEW t \in 0..MaxTime
               PROVE  Cardinality(Within(o, t)') <= Budget[o]
    BY DEF WindowHolds
  <2>1. CASE o # k \/ Within(o, t)' = Within(o, t)
    <3>1. Within(o, t)' = Within(o, t)
      BY <1>4, <2>1 DEF Within
    <3> QED BY <3>1 DEF WindowsInv, WindowHolds
  <2>2. CASE o = k /\ Within(o, t)' # Within(o, t)
    <3>1. now < t + Length[k] /\ now >= t
      BY <1>4, <2>2 DEF Within, Time
    <3>2. Within(k, t) \subseteq Pruned(k)
      BY <1>1, <3>1 DEF WindowsInv, WindowsType, Remembers, Within, Pruned, Time
    <3>3. Within(k, t)' = Within(k, t) \cup {member}
      BY <1>4, <3>1 DEF Within, Time
    <3>4. IsFiniteSet(Pruned(k))
      <4>1. Pruned(k) \in SUBSET counted[k]
        BY <1>1 DEF Pruned
      <4> QED BY <1>1, <4>1, FS_Subset
    <3>5. /\ IsFiniteSet(Within(k, t)) /\ Cardinality(Within(k, t)) <= Members(k)
          /\ Cardinality(Within(k, t)) \in Nat /\ Members(k) \in Nat
      BY <3>2, <3>4, FS_Subset, FS_CardinalityType DEF Members
    <3>6. ASSUME NEW S, IsFiniteSet(S), NEW m
          PROVE  Cardinality(S \cup {m}) \in Nat /\ Cardinality(S \cup {m}) <= Cardinality(S) + 1
      <4>1. IsFiniteSet(S \cup {m}) /\ Cardinality(S) \in Nat
        BY <3>6, FS_AddElement, FS_CardinalityType
      <4>2. Cardinality(S \cup {m}) \in Nat
        BY <4>1, FS_CardinalityType
      <4> QED BY <3>6, <4>1, <4>2, FS_AddElement
    <3>7. /\ Cardinality(Within(k, t)') \in Nat
          /\ Cardinality(Within(k, t)') <= Cardinality(Within(k, t)) + 1
      BY <3>3, <3>5, <3>6
    <3> HIDE DEF member
    <3> QED BY <1>1, <2>2, <3>5, <3>7
  <2> QED BY <2>1, <2>2
<1> QED BY <1>6, <1>7, <1>8 DEF WindowsInv

LEMMA WindowsInitInv == LimitsInit => WindowsInv
<1> SUFFICES ASSUME LimitsInit PROVE WindowsInv
  OBVIOUS
<1>1. /\ now = 0 /\ 0 \in 0..MaxTime
      /\ hits = [k \in Window |-> {}] /\ counted = [k \in Window |-> {}]
  BY LimitConstants DEF LimitsInit
<1>2. WindowsType
  BY <1>1 DEF WindowsType
<1>3. \A k \in Window : Remembers(k)
  BY <1>1, FS_EmptySet DEF Remembers
<1>4. WindowHolds
  <2>1. \A k \in Window, t \in 0..MaxTime : Within(k, t) = {}
    BY <1>1 DEF Within
  <2> QED BY <2>1, FS_EmptySet, LimitConstants DEF WindowHolds
<1> QED BY <1>2, <1>3, <1>4 DEF WindowsInv

\* What a step may do to the windows: let one call through, forget a set whose members
\* have all run out, or let a second pass.
LEMMA WindowsStep ==
    ASSUME LimitsNext
    PROVE  \/ UNCHANGED <<now, windows>>
           \/ \E k \in Window : Members(k) < Budget[k] /\ Hit(k) /\ UNCHANGED now
           \/ \E k \in Window : SetExpires(k)
           \/ SecondPasses
<1>1. ASSUME NEW c \in Call, CountCall(c)
      PROVE  \/ UNCHANGED <<now, windows>>
             \/ \E k \in Window : Members(k) < Budget[k] /\ Hit(k) /\ UNCHANGED now
  BY <1>1, LimitConstants DEF CountCall
<1>2. ASSUME NEW c \in Call, CountForGroup(c)
      PROVE  \E k \in Window : Members(k) < Budget[k] /\ Hit(k) /\ UNCHANGED now
  BY <1>2 DEF CountForGroup, GroupWindow, Best
<1>3. ASSUME NEW c \in Call, CheckQuota(c) \/ RefuseModel(c) \/ RefuseCall(c) \/ LogCall(c) \/ RollBack(c)
      PROVE  UNCHANGED <<now, windows>>
  BY <1>3 DEF CheckQuota, RefuseModel, RefuseCall, LogCall, RollBack
<1>4. ASSUME NEW k \in Connection, Stream(k)
      PROVE  UNCHANGED <<now, windows>>
  BY <1>4 DEF Stream, Connect, Disconnect, Crash, Abandon, SlotRenewalDies, SlotRunsOut
<1> QED BY <1>1, <1>2, <1>3, <1>4 DEF LimitsNext, Step

LEMMA WindowsNextInv == WindowsInv /\ [LimitsNext]_limitVars => WindowsInv'
<1> SUFFICES ASSUME WindowsInv, [LimitsNext]_limitVars PROVE WindowsInv'
  OBVIOUS
<1>1. CASE UNCHANGED <<now, windows>>
  BY <1>1 DEF windows, WindowsInv, WindowsType, Remembers, WindowHolds, Within, Time
<1>2. ASSUME NEW k \in Window, Members(k) < Budget[k], Hit(k), UNCHANGED now PROVE WindowsInv'
  BY <1>2, HitKeepsWindows
<1>3. ASSUME NEW k \in Window, SetExpires(k) PROVE WindowsInv'
  <2>1. /\ hits' = [hits EXCEPT ![k] = {}] /\ counted' = counted /\ now' = now
        /\ \A m \in hits[k] : Time(m) + Length[k] + 1 <= now
    BY <1>3 DEF SetExpires
  <2>2. WindowsType'
    BY <2>1 DEF WindowsInv, WindowsType
  <2>3. ASSUME NEW o \in Window PROVE Remembers(o)'
    <3>1. Remembers(o) /\ hits'[o] = IF o = k THEN {} ELSE hits[o]
      BY <2>1 DEF WindowsInv, WindowsType
    <3>2. \A m \in counted[o] : Time(m) \in Nat
      BY DEF WindowsInv, WindowsType, Time
    <3>3. now \in Nat /\ Length[o] \in Nat
      BY LimitConstants DEF WindowsInv, WindowsType
    <3>4. CASE o # k
      BY <2>1, <3>1, <3>4 DEF Remembers, Time
    <3>5. CASE o = k
      <4>1. \A m \in counted[o] : ~(Time(m) + Length[o] > now)
        BY <2>1, <3>1, <3>2, <3>3, <3>5 DEF Remembers
      <4> QED BY <2>1, <3>1, <3>5, <4>1 DEF Remembers, Time
    <3> QED BY <3>4, <3>5
  <2>4. WindowHolds'
    BY <2>1 DEF WindowsInv, WindowHolds, Within, Time
  <2> QED BY <2>2, <2>3, <2>4 DEF WindowsInv
<1>4. CASE SecondPasses
  <2>1. now < MaxTime /\ now' = now + 1 /\ hits' = hits /\ counted' = counted
    BY <1>4 DEF SecondPasses, windows
  <2>2. WindowsType'
    BY <2>1, LimitConstants DEF WindowsInv, WindowsType
  <2>3. ASSUME NEW o \in Window PROVE Remembers(o)'
    <3>1. \A m \in counted[o] : Time(m) \in Nat
      BY DEF WindowsInv, WindowsType, Time
    <3> QED BY <2>1, <3>1, LimitConstants DEF Remembers, WindowsInv, WindowsType, Time
  <2>4. WindowHolds'
    BY <2>1 DEF WindowsInv, WindowHolds, Within, Time
  <2> QED BY <2>2, <2>3, <2>4 DEF WindowsInv
<1> QED BY <1>1, <1>2, <1>3, <1>4, WindowsStep DEF limitVars

(***************************************************************************)
(* Limits: the slots.  A connection that is renewed has a slot, and a slot   *)
(* is given only below the maximum.                                         *)
(***************************************************************************)
SlotsInv ==
    /\ IsFiniteSet(slots) /\ Cardinality(slots) <= MaxConnections
    /\ open \cap renews \subseteq slots

LEMMA SlotsInitInv == LimitsInit => SlotsInv
BY FS_EmptySet, LimitConstants DEF LimitsInit, SlotsInv

LEMMA SlotsNextInv == SlotsInv /\ [LimitsNext]_limitVars => SlotsInv'
<1> SUFFICES ASSUME SlotsInv, [LimitsNext]_limitVars PROVE SlotsInv'
  OBVIOUS
<1> USE DEF SlotsInv
<1>1. CASE UNCHANGED connections
  BY <1>1 DEF connections
<1>2. ASSUME NEW k, slots' = slots \ {k}, open' \cap renews' \subseteq (open \cap renews) \ {k}
      PROVE  SlotsInv'
  <2>1. IsFiniteSet(slots') /\ Cardinality(slots') <= Cardinality(slots) /\ Cardinality(slots') \in Nat
    BY <1>2, FS_Subset, FS_CardinalityType
  <2>2. Cardinality(slots) \in Nat
    BY FS_CardinalityType
  <2> QED BY <1>2, <2>1, <2>2, LimitConstants
<1>3. ASSUME slots' = slots, open' \cap renews' \subseteq open \cap renews
      PROVE  SlotsInv'
  BY <1>3
<1>4. ASSUME NEW k \in Connection, Connect(k) PROVE SlotsInv'
  <2>1. IsFiniteSet(slots') /\ Cardinality(slots') = Cardinality(slots) + 1
    BY <1>4, FS_AddElement DEF Connect
  <2>2. Cardinality(slots) \in Nat /\ Cardinality(slots) < MaxConnections
    BY <1>4, FS_CardinalityType DEF Connect
  <2>3. (open \cap renews)' \subseteq slots'
    BY <1>4 DEF Connect
  <2> QED BY <2>1, <2>2, <2>3, LimitConstants
<1>5. ASSUME NEW k \in Connection, Disconnect(k) PROVE SlotsInv'
  BY <1>2, <1>3, <1>5 DEF Disconnect
<1>6. ASSUME NEW k \in Connection, Crash(k) \/ Abandon(k) \/ SlotRenewalDies(k) PROVE SlotsInv'
  BY <1>3, <1>6 DEF Crash, Abandon, SlotRenewalDies
<1>7. ASSUME NEW k \in Connection, SlotRunsOut(k) PROVE SlotsInv'
  BY <1>2, <1>7 DEF SlotRunsOut
<1>8. ASSUME NEW c \in Call, Step(c) PROVE UNCHANGED connections
  BY <1>8 DEF Step, CountCall, CheckQuota, RefuseModel, CountForGroup, RefuseCall, LogCall, RollBack
<1>9. SecondPasses \/ (\E k \in Window : SetExpires(k)) => UNCHANGED connections
  BY DEF SecondPasses, SetExpires
<1> QED BY <1>1, <1>4, <1>5, <1>6, <1>7, <1>8, <1>9 DEF LimitsNext, Stream, limitVars

(***************************************************************************)
(* Limits: the quota.  A call that has been sent and has no row is still     *)
(* under way or was rolled back, and each of the calls past the quota's      *)
(* check may have been the last to find room.                               *)
(***************************************************************************)
Sent == {c \in Call : at[c] = "sent"}
Admitted == {c \in Call : at[c] \in {"quota", "sent"}}

QuotaInv ==
    /\ at \in [Call -> Stages] /\ logged \in Nat /\ answered \in Nat /\ uncounted \in Nat
    /\ answered = logged + uncounted + Cardinality(Sent)
    /\ logged + Cardinality(Admitted) < Quota + Cardinality(Call)

LEMMA CallSets ==
    /\ IsFiniteSet(Sent) /\ IsFiniteSet(Admitted) /\ Sent \subseteq Admitted
    /\ Cardinality(Sent) \in Nat /\ Cardinality(Admitted) \in Nat /\ Cardinality(Call) \in Nat
    /\ Cardinality(Sent) <= Cardinality(Admitted) /\ Cardinality(Admitted) <= Cardinality(Call)
<1>1. Sent \in SUBSET Admitted /\ Admitted \in SUBSET Call /\ IsFiniteSet(Call)
  BY LimitConstants DEF Sent, Admitted
<1>2. IsFiniteSet(Admitted) /\ Cardinality(Admitted) <= Cardinality(Call)
  BY <1>1, FS_Subset
<1>3. IsFiniteSet(Sent) /\ Cardinality(Sent) <= Cardinality(Admitted)
  BY <1>1, <1>2, FS_Subset
<1> QED BY <1>1, <1>2, <1>3, FS_CardinalityType

LEMMA QuotaInitInv == LimitsInit => QuotaInv
<1> SUFFICES ASSUME LimitsInit PROVE QuotaInv
  OBVIOUS
<1>1. Sent = {} /\ Admitted = {}
  BY DEF LimitsInit, Sent, Admitted
<1>2. at \in [Call -> Stages]
  BY DEF LimitsInit, Stages
<1> QED BY <1>1, <1>2, FS_EmptySet, CallSets, LimitConstants DEF LimitsInit, QuotaInv

LEMMA QuotaNextInv == QuotaInv /\ [LimitsNext]_limitVars => QuotaInv'
<1> SUFFICES ASSUME QuotaInv, [LimitsNext]_limitVars PROVE QuotaInv'
  OBVIOUS
<1> USE CallSets, LimitConstants DEF QuotaInv
<1>1. ASSUME UNCHANGED <<at, logged, answered, uncounted>> PROVE QuotaInv'
  <2>1. Sent' = Sent /\ Admitted' = Admitted
    BY <1>1 DEF Sent, Admitted
  <2> QED BY <1>1, <2>1
<1>2. ASSUME NEW c \in Call, NEW place \in Stages, at' = [at EXCEPT ![c] = place]
      PROVE  /\ at' \in [Call -> Stages]
             /\ Sent' = IF place = "sent" THEN Sent \cup {c} ELSE Sent \ {c}
             /\ Admitted' = IF place \in {"quota", "sent"} THEN Admitted \cup {c} ELSE Admitted \ {c}
  BY <1>2 DEF Sent, Admitted
<1> USE DEF Stages
<1>3. ASSUME NEW c \in Call, CountCall(c) PROVE QuotaInv'
  <2>1. CASE UNCHANGED at
    BY <1>1, <1>3, <2>1 DEF CountCall
  <2>2. CASE at' = [at EXCEPT ![c] = "counted"]
    <3>1. at[c] = "idle"
      BY <1>3 DEF CountCall
    <3>2. Sent' = Sent /\ Admitted' = Admitted /\ at' \in [Call -> Stages]
      BY <1>2, <2>2, <3>1 DEF Sent, Admitted
    <3> QED BY <1>3, <3>2 DEF CountCall
  <2> QED BY <1>3, <2>1, <2>2 DEF CountCall
<1>4. ASSUME NEW c \in Call, CheckQuota(c) PROVE QuotaInv'
  <2>1. at[c] = "counted" /\ logged' = logged /\ answered' = answered /\ uncounted' = uncounted
    BY <1>4 DEF CheckQuota
  <2>2. CASE logged < Quota /\ at' = [at EXCEPT ![c] = "quota"]
    <3>1. Sent' = Sent /\ at' \in [Call -> Stages]
      BY <1>2, <2>1, <2>2 DEF Sent
    <3>2. Cardinality(Admitted') \in Nat /\ Cardinality(Admitted') <= Cardinality(Call)
      <4>1. Admitted' \in SUBSET Call
        BY DEF Admitted
      <4> QED BY <4>1, FS_Subset, FS_CardinalityType
    <3> QED BY <2>1, <2>2, <3>1, <3>2
  <2>3. CASE at' = [at EXCEPT ![c] = "idle"]
    <3>1. Sent' = Sent /\ Admitted' = Admitted /\ at' \in [Call -> Stages]
      BY <1>2, <2>1, <2>3 DEF Sent, Admitted
    <3> QED BY <2>1, <3>1
  <2> QED BY <1>4, <2>2, <2>3 DEF CheckQuota
<1>5. ASSUME NEW c \in Call, RefuseModel(c) \/ RefuseCall(c) PROVE QuotaInv'
  <2>1. /\ at[c] = "quota" /\ at' = [at EXCEPT ![c] = "idle"]
        /\ logged' = logged /\ answered' = answered /\ uncounted' = uncounted
    BY <1>5 DEF RefuseModel, RefuseCall
  <2>2. Sent' = Sent /\ Admitted' = Admitted \ {c} /\ at' \in [Call -> Stages]
    BY <1>2, <2>1 DEF Sent
  <2>3. Cardinality(Admitted') <= Cardinality(Admitted) /\ Cardinality(Admitted') \in Nat
    BY <2>2, FS_Subset, FS_CardinalityType
  <2> QED BY <2>1, <2>2, <2>3
<1>6. ASSUME NEW c \in Call, CountForGroup(c) PROVE QuotaInv'
  <2>1. /\ at[c] = "quota" /\ at' = [at EXCEPT ![c] = "sent"]
        /\ logged' = logged /\ answered' = answered + 1 /\ uncounted' = uncounted
    BY <1>6 DEF CountForGroup
  <2>2. Sent' = Sent \cup {c} /\ c \notin Sent /\ Admitted' = Admitted /\ at' \in [Call -> Stages]
    BY <1>2, <2>1 DEF Sent, Admitted
  <2>3. Cardinality(Sent') = Cardinality(Sent) + 1
    BY <2>2, FS_AddElement
  <2> QED BY <2>1, <2>2, <2>3
<1>7. ASSUME NEW c \in Call, LogCall(c) PROVE QuotaInv'
  <2>1. /\ at[c] = "sent" /\ at' = [at EXCEPT ![c] = "idle"]
        /\ logged' = logged + 1 /\ answered' = answered /\ uncounted' = uncounted
    BY <1>7 DEF LogCall
  <2>2. /\ Sent' = Sent \ {c} /\ c \in Sent /\ at' \in [Call -> Stages]
        /\ Admitted' = Admitted \ {c} /\ c \in Admitted
    BY <1>2, <2>1 DEF Sent, Admitted
  <2>3. /\ Cardinality(Sent') = Cardinality(Sent) - 1
        /\ Cardinality(Admitted') = Cardinality(Admitted) - 1
    BY <2>2, FS_RemoveElement
  <2> QED BY <2>1, <2>2, <2>3
<1>11. ASSUME NEW c \in Call, RollBack(c) PROVE QuotaInv'
  <2>1. /\ at[c] # "idle" /\ at' = [at EXCEPT ![c] = "idle"]
        /\ logged' = logged /\ answered' = answered
        /\ uncounted' = IF at[c] = "sent" THEN uncounted + 1 ELSE uncounted
    BY <1>11 DEF RollBack
  <2>2. Sent' = Sent \ {c} /\ Admitted' = Admitted \ {c} /\ at' \in [Call -> Stages]
    BY <1>2, <2>1
  <2>3. Cardinality(Admitted') <= Cardinality(Admitted) /\ Cardinality(Admitted') \in Nat
    BY <2>2, FS_Subset, FS_CardinalityType
  <2>4. CASE at[c] = "sent"
    <3>1. c \in Sent
      BY <2>4 DEF Sent
    <3>2. Cardinality(Sent') = Cardinality(Sent) - 1
      BY <2>2, <3>1, FS_RemoveElement
    <3> QED BY <2>1, <2>2, <2>3, <2>4, <3>2
  <2>5. CASE at[c] # "sent"
    <3>1. Sent' = Sent
      BY <2>2, <2>5 DEF Sent
    <3> QED BY <2>1, <2>2, <2>3, <2>5, <3>1
  <2> QED BY <2>4, <2>5
<1>8. SecondPasses \/ (\E k \in Window : SetExpires(k)) => UNCHANGED <<at, logged, answered, uncounted>>
  BY DEF SecondPasses, SetExpires
<1>9. ASSUME NEW k \in Connection, Stream(k) PROVE UNCHANGED <<at, logged, answered, uncounted>>
  BY <1>9 DEF Stream, Connect, Disconnect, Crash, Abandon, SlotRenewalDies, SlotRunsOut
<1>10. UNCHANGED limitVars => UNCHANGED <<at, logged, answered, uncounted>>
  BY DEF limitVars
<1> QED BY <1>1, <1>3, <1>4, <1>5, <1>6, <1>7, <1>8, <1>9, <1>10, <1>11 DEF LimitsNext, Step

\* Whatever the order in which calls are counted, admitted and logged, and whatever
\* becomes of the connections: no window lets more through in any Length seconds than
\* its budget, renewed connections stay within the maximum, and the quota is exceeded
\* by the calls under way at once and those whose row was rolled back, at most
\* (core/ratelimit.py, core/sse.py, _check_daily_quota).
THEOREM LimitsAreKept == LimitsSpec => []LimitsHold
<1>1. WindowsInv /\ SlotsInv /\ QuotaInv => LimitsHold
  <2> SUFFICES ASSUME WindowsInv, SlotsInv, QuotaInv PROVE LimitsHold
    OBVIOUS
  <2>1. WindowHolds
    BY DEF WindowsInv
  <2>2. SlotsHold
    <3>1. Cardinality(open \cap renews) <= Cardinality(slots) /\ IsFiniteSet(open \cap renews)
      BY FS_Subset DEF SlotsInv
    <3>2. Cardinality(open \cap renews) \in Nat /\ Cardinality(slots) \in Nat
      BY <3>1, FS_CardinalityType DEF SlotsInv
    <3> QED BY <3>1, <3>2, LimitConstants DEF SlotsHold, SlotsInv
  <2>3. QuotaNearlyHolds
    BY CallSets, LimitConstants DEF QuotaInv, QuotaNearlyHolds
  <2> QED BY <2>1, <2>2, <2>3 DEF LimitsHold
<1> QED BY <1>1, WindowsInitInv, WindowsNextInv, SlotsInitInv, SlotsNextInv,
           QuotaInitInv, QuotaNextInv, PTL DEF LimitsSpec

(***************************************************************************)
(* Catalogue.  No two providers have the same slug: the ids of a provider's  *)
(* group are served by nobody else's whitelist.  What a cleaning has read of  *)
(* an id that was not edited since is still so.                              *)
(***************************************************************************)
ProviderRow == [there : BOOLEAN, enabled : BOOLEAN, passes : BOOLEAN, lists : SUBSET Name,
                slug : Slug \cup {Bare}]

CatalogueType == provider \in [Provider -> ProviderRow] /\ model \in [Id -> Model]

SlugsDiffer == \A p, q \in There : provider[p].slug = provider[q].slug => p = q

CatalogueInv == CatalogueType /\ SlugsDiffer

LEMMA NoRowType == NoRow \in Model
BY DEF NoRow, Model

LEMMA CatalogueInitInv == CatalogueInit => CatalogueInv
BY NoRowType DEF CatalogueInit, CatalogueInv, CatalogueType, SlugsDiffer, There, ProviderRow

\* What staff do to a provider.
LEMMA ProviderEditInv == CatalogueInv /\ ProviderEdit => CatalogueInv'
<1> SUFFICES ASSUME CatalogueInv, NEW p \in Provider,
                    \/ \E form \in Forms[p], wanted \in Slug : CreateProvider(p, form, wanted)
                                                           \/ UpdateProvider(p, form, wanted)
                    \/ DeleteProvider(p)
                    \/ DeleteProviderGroup(p)
             PROVE  CatalogueInv'
  BY DEF ProviderEdit
<1> USE DEF CatalogueInv, CatalogueType
<1>1. ASSUME NEW form \in Forms[p], NEW given \in Slug, given \notin Taken(p),
             PutProvider(p, form, given), UNCHANGED model
      PROVE  CatalogueInv'
  <2>1. form \in Form
    BY CatalogueConstants
  <2>2. provider' \in [Provider -> ProviderRow]
    BY <1>1, <2>1 DEF PutProvider, ProviderRow, Form
  <2>3. \A q \in Provider : provider'[q] = IF q = p
                               THEN [there |-> TRUE, enabled |-> form.enabled, passes |-> form.passes,
                                     lists |-> form.lists, slug |-> given]
                               ELSE provider[q]
    BY <1>1 DEF PutProvider
  <2>4. SlugsDiffer'
    BY <1>1, <2>3 DEF SlugsDiffer, There, Taken
  <2> QED BY <1>1, <2>2, <2>4
<1>2. ASSUME NEW row, row \in ProviderRow,
             row.there => provider[p].there /\ row.slug = provider[p].slug,
             provider' = [provider EXCEPT ![p] = row]
      PROVE  provider' \in [Provider -> ProviderRow] /\ SlugsDiffer'
  BY <1>2 DEF SlugsDiffer, There
<1>3. ASSUME DeleteProvider(p) PROVE CatalogueInv'
  <2>1. provider' \in [Provider -> ProviderRow] /\ SlugsDiffer'
    BY <1>2, <1>3 DEF DeleteProvider, ProviderRow
  <2>2. \A id \in Id : model'[id] \in Model
    <3>1. ASSUME NEW u \in Upstream
          PROVE  [u EXCEPT !.of = IF @ = p THEN NoProvider ELSE @] \in Upstream
      BY DEF Upstream
    <3>2. ASSUME NEW m \in Model
          PROVE  [m EXCEPT !.route = {[u EXCEPT !.of = IF @ = p THEN NoProvider ELSE @] : u \in @}]
                    \in Model
      BY <3>1 DEF Model
    <3> QED BY <1>3, <3>2 DEF DeleteProvider
  <2> QED BY <1>3, <2>1, <2>2 DEF DeleteProvider
<1>4. ASSUME DeleteProviderGroup(p) PROVE CatalogueInv'
  <2> DEFINE row == [provider[p] EXCEPT !.passes = FALSE, !.lists = {}]
  <2>1. provider' = [provider EXCEPT ![p] = row]
    BY <1>4 DEF DeleteProviderGroup
  <2>2. row \in ProviderRow /\ row.there = provider[p].there /\ row.slug = provider[p].slug
    BY DEF ProviderRow
  <2>3. provider' \in [Provider -> ProviderRow] /\ SlugsDiffer'
    <3> HIDE DEF row
    <3> QED BY <1>2, <2>1, <2>2
  <2> QED BY <1>4, <2>3, NoRowType DEF DeleteProviderGroup
<1> QED BY <1>1, <1>3, <1>4 DEF CreateProvider, UpdateProvider, GivenSlug

\* A whitelist without some ids belongs to the same row otherwise.
LEMMA StrippedType ==
    ASSUME CatalogueInv, NEW ids, provider' = Stripped(ids)
    PROVE  /\ provider' \in [Provider -> ProviderRow] /\ SlugsDiffer'
           /\ \A p \in Provider : /\ provider'[p].there = provider[p].there
                                  /\ provider'[p].passes = provider[p].passes
                                  /\ provider'[p].slug = provider[p].slug
           /\ \A p \in Provider, n \in Name :
                 provider[p].passes /\ <<provider[p].slug, n>> \in ids => n \notin provider'[p].lists
<1>1. ASSUME NEW row \in ProviderRow
      PROVE  /\ [row EXCEPT !.lists = {n \in @ : <<row.slug, n>> \notin ids}] \in ProviderRow
  BY DEF ProviderRow
<1>2. provider' \in [Provider -> ProviderRow]
  BY <1>1 DEF Stripped, CatalogueInv, CatalogueType
<1>3. \A p \in Provider : /\ provider'[p].there = provider[p].there
                          /\ provider'[p].passes = provider[p].passes
                          /\ provider'[p].slug = provider[p].slug
  BY DEF Stripped, CatalogueInv, CatalogueType, ProviderRow
<1>4. \A p \in Provider, n \in Name :
         provider[p].passes /\ <<provider[p].slug, n>> \in ids => n \notin provider'[p].lists
  BY DEF Stripped, CatalogueInv, CatalogueType, ProviderRow
<1> QED BY <1>2, <1>3, <1>4 DEF CatalogueInv, SlugsDiffer, There

\* What staff do to models.
LEMMA ModelEditInv == CatalogueInv /\ ModelEdit => CatalogueInv'
<1> SUFFICES ASSUME CatalogueInv, ModelEdit PROVE CatalogueInv'
  OBVIOUS
<1> USE NoRowType, CatalogueConstants DEF CatalogueInv, CatalogueType
<1>1. UNCHANGED provider => SlugsDiffer'
  BY DEF SlugsDiffer, There
<1>2. ASSUME NEW ids \in SUBSET Named, NEW enabled \in BOOLEAN, NEW groups \in SUBSET Group,
             PutModels(ids, enabled, groups)
      PROVE  CatalogueInv'
  <2>1. \A id \in Id : [Entry(id) EXCEPT !.enabled = enabled, !.groups = groups] \in Model
    BY DEF Entry, NoRow, Model
  <2> QED BY <1>1, <1>2, <2>1 DEF PutModels
<1>3. ASSUME NEW id \in Named, NEW route \in Routes, PutRoute(id, route) PROVE CatalogueInv'
  <2>1. id \in Id /\ route \in SUBSET Upstream
    BY DEF Upstream
  <2>2. [model[id] EXCEPT !.route = route] \in Model
    BY <2>1 DEF Model
  <2> QED BY <1>1, <1>3, <2>1, <2>2 DEF PutRoute
<1>4. ASSUME NEW id \in Named, DeleteModel(id) PROVE CatalogueInv'
  BY <1>1, <1>4 DEF DeleteModel
<1>5. ASSUME NEW id \in Named, DeletePassthrough(id) PROVE CatalogueInv'
  BY <1>5, StrippedType DEF DeletePassthrough
<1>6. ASSUME BatchDelete(Named) PROVE CatalogueInv'
  BY <1>6, StrippedType DEF BatchDelete
<1>7. \A ids \in {{id} : id \in Named} \cup {Named} : ids \in SUBSET Named
  OBVIOUS
<1> HIDE DEF CatalogueInv
<1> QED BY <1>2, <1>3, <1>4, <1>5, <1>6, <1>7 DEF ModelEdit

LEMMA CleaningInv == CatalogueInv /\ Cleaning => CatalogueInv'
<1> SUFFICES ASSUME CatalogueInv, Cleaning PROVE CatalogueInv'
  OBVIOUS
<1>1. provider' = provider /\ \A id \in Id : model'[id] \in Model
  BY NoRowType DEF Cleaning, CleanReads, CleanJudges, CleanDeletes, CatalogueInv, CatalogueType
<1>2. model' \in [Id -> Model]
  BY <1>1 DEF Cleaning, CleanReads, CleanJudges, CleanDeletes, CatalogueInv, CatalogueType
<1> QED BY <1>1, <1>2 DEF CatalogueInv, CatalogueType, SlugsDiffer, There

LEMMA CatalogueNextInv == CatalogueInv /\ [CatalogueNext]_catalogueVars => CatalogueInv'
<1>1. CatalogueInv /\ UNCHANGED catalogueVars => CatalogueInv'
  BY DEF catalogueVars, CatalogueInv, CatalogueType, SlugsDiffer, There
<1> QED BY <1>1, ProviderEditInv, ModelEditInv, CleaningInv DEF CatalogueNext

(***************************************************************************)
(* Catalogue: a cleaning.  What it has read of an id, or found, is still so  *)
(* unless the id has been edited since.                                     *)
(***************************************************************************)
CleanType == [stage : {"no", "read", "judged"}, enabled : SUBSET Provider, passthrough : SUBSET Id,
              targets : SUBSET Id, changed : SUBSET Id]

\* The rows it was going to delete may be fewer, and the ids edited are more.
CleanGoesOn(changed) ==
    /\ clean' \in CleanType
    /\ clean'.stage = clean.stage
    /\ clean.stage # "no" =>
          /\ clean'.enabled = clean.enabled /\ clean'.passthrough = clean.passthrough
          /\ clean'.targets \subseteq clean.targets /\ clean'.changed = clean.changed \cup changed

CleanKnows(id) ==
    /\ clean.stage = "read" =>
          clean.enabled = EnabledProviders /\ (id \in clean.passthrough <=> Direct(id))
    /\ clean.stage = "judged" /\ id \in clean.targets => Unserved(id, EnabledProviders) /\ ~Direct(id)

CleanInv == clean \in CleanType /\ \A id \in Id \ clean.changed : CleanKnows(id)

LEMMA EditedGoesOn ==
    ASSUME clean \in CleanType, NEW ids \in SUBSET Id, Edited(ids)
    PROVE  CleanGoesOn(ids)
BY DEF CleanType, Edited, CleanGoesOn

LEMMA RemovedGoesOn ==
    ASSUME clean \in CleanType, NEW ids \in SUBSET Id, NEW changed \in SUBSET Id, Removed(ids, changed)
    PROVE  CleanGoesOn(changed)
<1>1. PICK targets \in {clean.targets \ ids} \cup IF enforced THEN {} ELSE {clean.targets} :
           clean' = IF clean.stage = "no" THEN clean
                    ELSE [clean EXCEPT !.targets = targets, !.changed = @ \cup changed]
  BY DEF Removed
<1>2. targets \subseteq clean.targets
  BY <1>1
<1> QED BY <1>1, <1>2 DEF CleanType, CleanGoesOn

\* An edit of some ids leaves what is known of the others.
LEMMA EditKeepsClean ==
    ASSUME CleanInv, NEW changed \in SUBSET Id, CleanGoesOn(changed),
           \A id \in Id \ changed : model'[id] = model[id],
           changed = Id \/ provider' = provider
    PROVE  CleanInv'
<1> SUFFICES ASSUME NEW id \in Id \ clean'.changed PROVE CleanKnows(id)'
  BY DEF CleanInv, CleanGoesOn
<1>1. CASE clean.stage = "no"
  BY <1>1 DEF CleanKnows, CleanGoesOn
<1>2. CASE clean.stage # "no"
  <2>1. id \notin changed /\ id \notin clean.changed /\ CleanKnows(id)
    BY <1>2 DEF CleanInv, CleanGoesOn
  <2>2. model'[id] = model[id] /\ provider' = provider
    BY <2>1
  <2>3. EnabledProviders' = EnabledProviders /\ (Direct(id)' <=> Direct(id))
    BY <2>2 DEF EnabledProviders, There, Direct, Passing, Lists
  <2>4. Unserved(id, EnabledProviders)' <=> Unserved(id, EnabledProviders)
    BY <2>2, <2>3 DEF Unserved
  <2> QED BY <1>2, <2>1, <2>3, <2>4 DEF CleanKnows, CleanGoesOn
<1> QED BY <1>1, <1>2

LEMMA CleanInitInv == CatalogueInit => CleanInv
BY DEF CatalogueInit, NotCleaning, CleanInv, CleanType, CleanKnows

LEMMA ProviderEditKeepsClean == CleanInv /\ ProviderEdit => CleanInv'
<1> SUFFICES ASSUME CleanInv, NEW p \in Provider,
                    \/ \E form \in Forms[p], wanted \in Slug : CreateProvider(p, form, wanted)
                                                           \/ UpdateProvider(p, form, wanted)
                    \/ DeleteProvider(p)
                    \/ DeleteProviderGroup(p)
             PROVE  CleanInv'
  BY DEF ProviderEdit
<1>1. Edited(Id) \/ \E ids \in SUBSET Id : Removed(ids, Id)
  <2>1. CASE DeleteProviderGroup(p)
    BY <2>1 DEF DeleteProviderGroup
  <2> QED BY <2>1 DEF CreateProvider, UpdateProvider, DeleteProvider
<1>2. CleanGoesOn(Id)
  BY <1>1, EditedGoesOn, RemovedGoesOn DEF CleanInv
<1> QED BY <1>2, EditKeepsClean

LEMMA ModelEditKeepsClean == CatalogueInv /\ CleanInv /\ ModelEdit => CleanInv'
<1> SUFFICES ASSUME CatalogueInv, CleanInv, ModelEdit PROVE CleanInv'
  OBVIOUS
<1> USE CatalogueConstants DEF CleanInv, CatalogueInv, CatalogueType
<1>1. ASSUME NEW ids \in SUBSET Named, NEW enabled \in BOOLEAN, NEW groups \in SUBSET Group,
             PutModels(ids, enabled, groups)
      PROVE  CleanInv'
  <2>1. ids \in SUBSET Id /\ Edited(ids) /\ provider' = provider
        /\ \A id \in Id \ ids : model'[id] = model[id]
    BY <1>1 DEF PutModels
  <2> QED BY <2>1, EditedGoesOn, EditKeepsClean
<1>2. ASSUME NEW id \in Named, NEW route \in Routes, PutRoute(id, route) PROVE CleanInv'
  <2>1. {id} \in SUBSET Id /\ Edited({id}) /\ provider' = provider
        /\ \A other \in Id \ {id} : model'[other] = model[other]
    BY <1>2 DEF PutRoute
  <2> QED BY <2>1, EditedGoesOn, EditKeepsClean
<1>3. ASSUME NEW id \in Named, DeleteModel(id) PROVE CleanInv'
  <2>1. {id} \in SUBSET Id /\ Removed({id}, {id}) /\ provider' = provider
        /\ \A other \in Id \ {id} : model'[other] = model[other]
    BY <1>3 DEF DeleteModel
  <2> QED BY <2>1, RemovedGoesOn, EditKeepsClean
<1>4. ASSUME NEW id \in Named, DeletePassthrough(id) PROVE CleanInv'
  <2>1. {id} \in SUBSET Id /\ Removed({id}, Id)
    BY <1>4 DEF DeletePassthrough
  <2> QED BY <2>1, RemovedGoesOn, EditKeepsClean
<1>5. ASSUME BatchDelete(Named) PROVE CleanInv'
  <2>1. Named \in SUBSET Id /\ Removed(Named, Id)
    BY <1>5 DEF BatchDelete
  <2> QED BY <2>1, RemovedGoesOn, EditKeepsClean
<1> QED BY <1>1, <1>2, <1>3, <1>4, <1>5 DEF ModelEdit

LEMMA CleaningKeepsClean == CatalogueInv /\ CleanInv /\ Cleaning => CleanInv'
<1> SUFFICES ASSUME CatalogueInv, CleanInv, Cleaning PROVE CleanInv'
  OBVIOUS
<1>1. ASSUME clean' = NotCleaning PROVE CleanInv'
  BY <1>1 DEF NotCleaning, CleanInv, CleanType, CleanKnows
<1>2. CASE CleanReads
  <2>1. clean' = [stage |-> "read", enabled |-> EnabledProviders,
                  passthrough |-> {id \in Id : Direct(id)}, targets |-> {}, changed |-> {}]
        /\ provider' = provider /\ model' = model
    BY <1>2 DEF CleanReads, NotCleaning
  <2>2. clean' \in CleanType
    BY <2>1 DEF CleanType, EnabledProviders, There
  <2>3. EnabledProviders' = EnabledProviders /\ \A id \in Id : Direct(id)' <=> Direct(id)
    BY <2>1 DEF EnabledProviders, There, Direct, Passing, Lists
  <2> QED BY <2>1, <2>2, <2>3 DEF CleanInv, CleanKnows
<1>3. CASE CleanJudges
  <2>1. /\ clean.stage = "read" /\ provider' = provider /\ model' = model
        /\ clean' = NotCleaning \/ clean' = [clean EXCEPT !.stage = "judged", !.targets = CleanTargets]
    BY <1>3 DEF CleanJudges
  <2>2. CASE clean' = [clean EXCEPT !.stage = "judged", !.targets = CleanTargets]
    <3>1. /\ clean' \in CleanType /\ clean'.stage = "judged" /\ clean'.targets = CleanTargets
          /\ clean'.changed = clean.changed
      BY <2>2 DEF CleanInv, CleanType, CleanTargets
    <3>2. EnabledProviders' = EnabledProviders /\ \A id \in Id : Direct(id)' <=> Direct(id)
      BY <2>1 DEF EnabledProviders, There, Direct, Passing, Lists
    <3>3. ASSUME NEW id \in Id \ clean.changed, id \in CleanTargets
          PROVE  Unserved(id, EnabledProviders) /\ ~Direct(id)
      BY <2>1, <3>3 DEF CleanInv, CleanKnows, CleanTargets
    <3>4. \A id \in Id : Unserved(id, EnabledProviders)' <=> Unserved(id, EnabledProviders)
      BY <2>1, <3>2 DEF Unserved
    <3> QED BY <3>1, <3>2, <3>3, <3>4 DEF CleanInv, CleanKnows
  <2> QED BY <1>1, <2>1, <2>2
<1>4. CASE CleanDeletes
  BY <1>1, <1>4 DEF CleanDeletes
<1> QED BY <1>2, <1>3, <1>4 DEF Cleaning

LEMMA CleanNextInv == CatalogueInv /\ CleanInv /\ [CatalogueNext]_catalogueVars => CleanInv'
<1>1. CleanInv /\ UNCHANGED catalogueVars => CleanInv'
  BY DEF catalogueVars, CleanInv, CleanKnows, EnabledProviders, There, Direct, Passing, Lists, Unserved
<1> QED BY <1>1, ProviderEditKeepsClean, ModelEditKeepsClean, CleaningKeepsClean DEF CatalogueNext

\* Deleting leaves neither a whitelist nor a row behind.
LEMMA DeletingDeletes == CatalogueInv => DeletedIsGone
<1> SUFFICES ASSUME CatalogueInv PROVE DeletedIsGone
  OBVIOUS
<1> USE CatalogueConstants DEF CatalogueInv, CatalogueType
<1>1. \A id \in Id : id = <<id[1], id[2]>> /\ id[2] \in Name
  BY DEF Id
<1>2. ASSUME NEW ids \in SUBSET Id, provider' = Stripped(ids), NEW id \in ids,
             model'[id] = NoRow, NEW c \in Caller
      PROVE  ~IsServed(c, id)'
  <2>1. \A p \in Passing(id)' : ~Lists(p, id)'
    BY <1>1, <1>2, StrippedType DEF Passing, There, Lists
  <2>2. ~(model[id].there)'
    BY <1>2 DEF NoRow
  <2> QED BY <2>1, <2>2 DEF IsServed, MayCall, Resolves, Direct
<1>3. ASSUME NEW id \in Named, DeletePassthrough(id) PROVE Gone({id})'
  <2>1. {id} \in SUBSET Id /\ provider' = Stripped({id}) /\ model'[id] = NoRow
    BY <1>3 DEF DeletePassthrough
  <2> QED BY <1>2, <2>1 DEF Gone
<1>4. ASSUME NEW p \in Provider, DeleteProviderGroup(p), NEW id \in Id, id[1] = provider[p].slug
      PROVE  Gone({id})'
  <2>1. /\ p \in There /\ model'[id] = NoRow
        /\ \A q \in Provider : /\ provider'[q].there = provider[q].there
                               /\ provider'[q].slug = provider[q].slug
                               /\ provider'[q].passes => q # p
    BY <1>4 DEF DeleteProviderGroup, ProviderRow
  <2>2. Passing(id)' = {}
    BY <1>4, <2>1 DEF Passing, There, SlugsDiffer
  <2>3. ~(model[id].there)'
    BY <2>1 DEF NoRow
  <2> QED BY <2>2, <2>3 DEF Gone, IsServed, MayCall, Resolves
<1>5. ASSUME BatchDelete(Named) PROVE Gone(Named)'
  <2>1. provider' = Stripped(Named) /\ \A id \in Named : model'[id] = NoRow
    BY <1>5 DEF BatchDelete
  <2> QED BY <1>2, <2>1 DEF Gone
<1> QED BY <1>3, <1>4, <1>5 DEF DeletedIsGone

\* What is unserved by a route, and by no whitelist, is not served.
LEMMA CleaningLosesNothing == CleanInv => CleanLosesNothing
<1> SUFFICES ASSUME CleanInv, CleanDeletes, NEW c \in Caller, NEW id \in Id \ clean.changed,
                    IsServed(c, id)
             PROVE  IsServed(c, id)'
  BY DEF CleanLosesNothing
<1>1. /\ provider' = provider /\ clean.stage = "judged"
      /\ model'[id] = IF id \in clean.targets THEN NoRow ELSE model[id]
  BY DEF CleanDeletes
<1>2. id \notin clean.targets
  <2> SUFFICES ASSUME Unserved(id, EnabledProviders), ~Direct(id) PROVE FALSE
    BY <1>1 DEF CleanInv, CleanKnows
  <2>1. ~\E p \in Passing(id) : provider[p].enabled
    BY DEF IsServed, MayCall, Resolves
  <2>2. PICK p \in There : provider[p].enabled /\ [of |-> p, on |-> TRUE] \in model[id].route
    BY <2>1 DEF IsServed, Candidates
  <2> QED BY <2>2 DEF Unserved, EnabledProviders
<1>3. model'[id] = model[id]
  BY <1>1, <1>2
<1> QED BY <1>1, <1>3 DEF IsServed, MayCall, Resolves, Direct, Granted, Candidates, Passing,
                          Lists, There

\* Whatever staff do, in whatever order: what they delete is served to nobody, cleaning
\* takes from nobody what was not edited meanwhile, and no member is shown what is
\* hidden (api/models.py, api/admin/providers.py, api/proxy.py).
THEOREM CatalogueSound == CatalogueSpec => CatalogueKeepsItsWord
<1>1. HiddenIsHidden
  BY DEF HiddenIsHidden, Advertises, IsListed, Direct
<1>2. CatalogueInv /\ CleanInv /\ [CatalogueNext]_catalogueVars => [DeletedIsGone /\ CleanLosesNothing]_catalogueVars
  BY DeletingDeletes, CleaningLosesNothing
<1> QED BY <1>1, <1>2, CatalogueInitInv, CatalogueNextInv, CleanInitInv, CleanNextInv, PTL
        DEF CatalogueSpec, CatalogueKeepsItsWord

(***************************************************************************)
(* Dialogue.  A translator is a fold over the events of a stream, and so is   *)
(* the client: both are taken apart into their steps (FoldSteps), and what a  *)
(* step keeps holds at the end (UpTo).  Between two steps the client has taken *)
(* what the translator has emitted so far (Reached).  It knows the blocks of   *)
(* the translator: the open ones are the text, the reasoning and the calls     *)
(* that the translator keeps, each of its kind, no two calls in one block, and *)
(* all have been numbered before the next one (BlocksKnown).                   *)
(***************************************************************************)

\* What holds of 0 and is passed on by every step up to n holds of n.
LEMMA UpTo ==
    ASSUME NEW n \in Nat, NEW h, h[0], \A i \in 1..n : h[i - 1] => h[i]
    PROVE  h[n]
<1>1. SUFFICES ASSUME ~h[n] PROVE FALSE
  OBVIOUS
<1> DEFINE T == {i \in 0..n : ~h[i]}
<1>2. T # {} /\ T \subseteq Nat
  BY <1>1
<1>3. PICK x \in T : \A y \in T : ~ (<<y, x>> \in OpToRel(<, Nat))
  BY <1>2, NatLessThanWellFounded, WFMin
<1>4. x \in 0..n /\ ~h[x] /\ x # 0
  BY <1>3
<1>5. h[x - 1] \/ x - 1 \in T
  BY <1>4
<1>6. <<x - 1, x>> \in OpToRel(<, Nat)
  BY <1>4 DEF OpToRel
<1>7. x - 1 \notin T
  <2> HIDE DEF T
  <2> QED BY <1>3, <1>6
<1>8. h[x - 1]
  BY <1>5, <1>7
<1>9. x \in 1..n
  BY <1>4
<1> QED BY <1>4, <1>8, <1>9, Zenon

\* Every set of numbers up to n has a greatest one.
LEMMA MaxOf ==
    ASSUME NEW n \in Nat, NEW t \in SUBSET (1..n), t # {}
    PROVE  Max(t) \in t /\ \A i \in t : i <= Max(t)
<1> DEFINE h == [k \in 0..n |-> \A s \in SUBSET (1..k) :
                                   s # {} => \E m \in s : \A i \in s : i <= m]
<1>1. h[0]
  <2>1. \A s \in SUBSET (1..0) : s = {}
    OBVIOUS
  <2>2. 0 \in 0..n
    OBVIOUS
  <2> QED BY <2>1, <2>2, Zenon
<1>2. ASSUME NEW k \in 1..n, h[k - 1] PROVE h[k]
  <2>1. ASSUME NEW s \in SUBSET (1..k), s # {} PROVE \E m \in s : \A i \in s : i <= m
    <3>1. CASE k \in s
      BY <3>1
    <3>2. CASE k \notin s
      <4>1. s \in SUBSET (1..(k - 1)) /\ k - 1 \in 0..n
        BY <3>2
      <4> QED BY <4>1, <1>2, <2>1
    <3> QED BY <3>1, <3>2
  <2> QED BY <2>1
<1>3. h[n]
  <2> HIDE DEF h
  <2> QED BY <1>1, <1>2, UpTo
<1>4. \E m \in t : \A i \in t : i <= m
  BY <1>3
<1> QED BY <1>4 DEF Max

\* A greatest member is what Max chooses.
LEMMA MaxIs ==
    ASSUME NEW n \in Nat, NEW t \in SUBSET (1..n), NEW k \in t, \A i \in t : i <= k
    PROVE  Max(t) = k
<1>1. Max(t) \in t /\ \A i \in t : i <= Max(t)
  BY MaxOf
<1>2. Max(t) \in 1..n /\ k \in 1..n /\ k <= Max(t) /\ Max(t) <= k
  BY <1>1
<1> QED BY <1>2

Stage(kind, dialect, t, e) ==
    CASE kind = "read" -> ReadEvent(dialect, t, e)
      [] kind = "write" -> WriteEvent(dialect, t, e)
      [] OTHER -> Take(t, e)

Folds(kind, dialect, c, s) == FoldLeft(LAMBDA t, e : Stage(kind, dialect, t, e), c, s)

AreSteps(g, kind, dialect, c, n, s) ==
    /\ g[0] = c /\ \A i \in 1..n : g[i] = Stage(kind, dialect, g[i - 1], s[i])
    /\ Folds(kind, dialect, c, s) = g[n]

\* A fold is what its steps lead to, one after the other.
LEMMA FoldSteps ==
    ASSUME NEW kind, NEW dialect, NEW c, NEW n \in Nat, NEW s, DOMAIN s = 1..n
    PROVE \E g : AreSteps(g, kind, dialect, c, n, s)
<1> DEFINE F(t, f) == IF t = {} THEN c ELSE Stage(kind, dialect, f[t \ {Max(t)}], s[Max(t)])
<1> DEFINE iter == CHOOSE f : f = [t \in SUBSET (1..n) |-> F(t, f)]
<1>1. Folds(kind, dialect, c, s) = iter[1..n]
  BY DEF Folds, FoldLeft, MapThenFoldSet
<1> DEFINE h == [k \in 0..n |-> \E f : f = [t \in SUBSET (1..k) |-> F(t, f)]]
<1>2. h[0]
  <2> DEFINE f == [t \in SUBSET (1..0) |-> c]
  <2>1. \A t \in SUBSET (1..0) : t = {}
    OBVIOUS
  <2>2. f = [t \in SUBSET (1..0) |-> F(t, f)]
    BY <2>1
  <2>3. 0 \in 0..n
    OBVIOUS
  <2> QED BY <2>2, <2>3, Zenon
<1>3. ASSUME NEW k \in 1..n, h[k - 1] PROVE h[k]
  <2>1. k - 1 \in 0..n /\ k \in 0..n
    OBVIOUS
  <2>2. PICK f : f = [t \in SUBSET (1..(k - 1)) |-> F(t, f)]
    BY <2>1, <1>3
  <2> DEFINE e == [t \in SUBSET (1..k) |-> IF k \in t THEN Stage(kind, dialect, f[t \ {k}], s[k]) ELSE f[t]]
  <2>3. ASSUME NEW t \in SUBSET (1..k) PROVE e[t] = F(t, e)
    <3>1. CASE k \in t
      <4>1. t \in SUBSET (1..n) /\ \A i \in t : i <= k
        OBVIOUS
      <4>2. Max(t) = k
        BY <3>1, <4>1, MaxIs
      <4>3. t \ {k} \in SUBSET (1..k) /\ k \notin t \ {k}
        OBVIOUS
      <4>4. e[t \ {k}] = f[t \ {k}] /\ e[t] = Stage(kind, dialect, f[t \ {k}], s[k])
        BY <3>1, <4>3
      <4> QED BY <3>1, <4>2, <4>4
    <3>2. CASE k \notin t /\ t # {}
      <4>1. t \in SUBSET (1..(k - 1)) /\ k - 1 \in Nat
        BY <3>2
      <4>2. Max(t) \in t
        BY <4>1, <3>2, MaxOf
      <4>3. t \ {Max(t)} \in SUBSET (1..k) /\ k \notin t \ {Max(t)}
        BY <3>2
      <4>4. e[t] = f[t] /\ e[t \ {Max(t)}] = f[t \ {Max(t)}]
        BY <3>2, <4>3
      <4>5. f[t] = F(t, f)
        BY <2>2, <4>1
      <4> QED BY <4>4, <4>5, <3>2
    <3>3. CASE t = {}
      <4>1. t \in SUBSET (1..(k - 1)) /\ k \notin t
        BY <3>3
      <4> QED BY <4>1, <2>2, <3>3
    <3> QED BY <3>1, <3>2, <3>3
  <2>4. e = [t \in SUBSET (1..k) |-> F(t, e)]
    BY <2>3
  <2> QED BY <2>4, <2>1
<1>4. h[n]
  <2> HIDE DEF h
  <2> QED BY <1>2, <1>3, UpTo
<1>5. iter = [t \in SUBSET (1..n) |-> F(t, iter)]
  <2>1. \E f : f = [t \in SUBSET (1..n) |-> F(t, f)]
    <3>1. n \in 0..n
      OBVIOUS
    <3> QED BY <1>4, <3>1, Zenon
  <2> QED BY <2>1
<1> HIDE DEF iter
<1> DEFINE g == [i \in 0..n |-> iter[1..i]]
<1>6. g[0] = c /\ g[n] = iter[1..n]
  <2>1. 0 \in 0..n /\ n \in 0..n /\ 1..0 = {} /\ {} \in SUBSET (1..n)
    OBVIOUS
  <2>2. iter[{}] = F({}, iter)
    BY <1>5, <2>1
  <2>3. F({}, iter) = c
    OBVIOUS
  <2>4. g[0] = iter[1..0] /\ g[n] = iter[1..n]
    BY <2>1
  <2> QED BY <2>1, <2>2, <2>3, <2>4
<1>7. ASSUME NEW i \in 1..n PROVE g[i] = Stage(kind, dialect, g[i - 1], s[i])
  <2>1. 1..i \in SUBSET (1..n) /\ i \in 1..i /\ 1..i # {}
    OBVIOUS
  <2>2. Max(1..i) = i
    <3>1. \A j \in 1..i : j <= i
      OBVIOUS
    <3> QED BY <2>1, <3>1, MaxIs
  <2>3. iter[1..i] = F(1..i, iter)
    BY <1>5, <2>1
  <2>4. (1..i) \ {i} = 1..(i - 1) /\ i - 1 \in 0..n /\ i \in 0..n
    OBVIOUS
  <2> QED BY <2>1, <2>2, <2>3, <2>4
<1>8. AreSteps(g, kind, dialect, c, n, s)
  BY <1>1, <1>6, <1>7 DEF AreSteps
<1> QED BY <1>8

\* The fold of the client, of a reader and of a writer, as folds of stages.
LEMMA TakesAreFolds ==
    ASSUME NEW dialect, NEW c, NEW s
    PROVE  FoldLeft(Take, c, s) = Folds("take", dialect, c, s)
<1> DEFINE F(t, f) == IF t = {} THEN c ELSE Take(f[t \ {Max(t)}], s[Max(t)])
<1> DEFINE G(t, f) == IF t = {} THEN c ELSE Stage("take", dialect, f[t \ {Max(t)}], s[Max(t)])
<1>1. \A t, f : F(t, f) = G(t, f)
  BY DEF Stage
<1>2. (CHOOSE f : f = [t \in SUBSET DOMAIN s |-> F(t, f)])
         = (CHOOSE f : f = [t \in SUBSET DOMAIN s |-> G(t, f)])
  <2> HIDE DEF F, G
  <2>1. \A f : (f = [t \in SUBSET DOMAIN s |-> F(t, f)])
               <=> (f = [t \in SUBSET DOMAIN s |-> G(t, f)])
    BY <1>1
  <2> QED BY <2>1
<1> QED BY <1>2 DEF Folds, FoldLeft, MapThenFoldSet

LEMMA ReadsAreFolds ==
    ASSUME NEW dialect, NEW c, NEW s
    PROVE  FoldLeft(LAMBDA t, e : ReadEvent(dialect, t, e), c, s) = Folds("read", dialect, c, s)
<1> DEFINE F(t, f) == IF t = {} THEN c ELSE ReadEvent(dialect, f[t \ {Max(t)}], s[Max(t)])
<1> DEFINE G(t, f) == IF t = {} THEN c ELSE Stage("read", dialect, f[t \ {Max(t)}], s[Max(t)])
<1>1. \A t, f : F(t, f) = G(t, f)
  BY DEF Stage
<1>2. (CHOOSE f : f = [t \in SUBSET DOMAIN s |-> F(t, f)])
         = (CHOOSE f : f = [t \in SUBSET DOMAIN s |-> G(t, f)])
  <2> HIDE DEF F, G
  <2>1. \A f : (f = [t \in SUBSET DOMAIN s |-> F(t, f)])
               <=> (f = [t \in SUBSET DOMAIN s |-> G(t, f)])
    BY <1>1
  <2> QED BY <2>1
<1> QED BY <1>2 DEF Folds, FoldLeft, MapThenFoldSet

LEMMA WritesAreFolds ==
    ASSUME NEW dialect, NEW c, NEW s
    PROVE  FoldLeft(LAMBDA t, e : WriteEvent(dialect, t, e), c, s) = Folds("write", dialect, c, s)
<1> DEFINE F(t, f) == IF t = {} THEN c ELSE WriteEvent(dialect, f[t \ {Max(t)}], s[Max(t)])
<1> DEFINE G(t, f) == IF t = {} THEN c ELSE Stage("write", dialect, f[t \ {Max(t)}], s[Max(t)])
<1>1. \A t, f : F(t, f) = G(t, f)
  BY DEF Stage
<1>2. (CHOOSE f : f = [t \in SUBSET DOMAIN s |-> F(t, f)])
         = (CHOOSE f : f = [t \in SUBSET DOMAIN s |-> G(t, f)])
  <2> HIDE DEF F, G
  <2>1. \A f : (f = [t \in SUBSET DOMAIN s |-> F(t, f)])
               <=> (f = [t \in SUBSET DOMAIN s |-> G(t, f)])
    BY <1>1
  <2> QED BY <2>1
<1> QED BY <1>2 DEF Folds, FoldLeft, MapThenFoldSet

Elements(s) == {s[i] : i \in DOMAIN s}
IsSeq(s) == s \in Seq(Elements(s))

\* A sequence over any set is one over its own elements.
LEMMA AnySeq == ASSUME NEW S, NEW s \in Seq(S) PROVE IsSeq(s)
<1>1. Len(s) \in Nat /\ DOMAIN s = 1..Len(s)
  OBVIOUS
<1>2. \A i \in 1..Len(s) : s[i] \in Elements(s)
  BY <1>1 DEF Elements
<1>3. s \in Seq(Elements(s))
  BY <1>1, <1>2
<1> QED BY <1>3 DEF IsSeq

\* It is one over every set that has its elements.
LEMMA Wider ==
    ASSUME NEW s, IsSeq(s), NEW S, \A i \in DOMAIN s : s[i] \in S
    PROVE  s \in Seq(S)
<1>1. Len(s) \in Nat /\ s \in [1..Len(s) -> S]
  BY DEF IsSeq
<1> QED BY <1>1

\* What a sequence is as a function.
LEMMA Shape == ASSUME NEW s, IsSeq(s) PROVE Len(s) \in Nat /\ DOMAIN s = 1..Len(s)
BY DEF IsSeq

\* Sequences are closed under joining and appending; what joining does.
LEMMA JoinIsSeq == ASSUME NEW a, NEW b, IsSeq(a), IsSeq(b) PROVE IsSeq(a \o b)
<1> DEFINE S == Elements(a) \cup Elements(b)
<1> DEFINE c == a \o b
<1>1. /\ \A i \in DOMAIN a : a[i] \in S
      /\ \A i \in DOMAIN b : b[i] \in S
  BY DEF Elements
<1> HIDE DEF S
<1>2. a \in Seq(S) /\ b \in Seq(S)
  BY <1>1, Wider
<1>3. c \in Seq(S)
  BY <1>2
<1> HIDE DEF c
<1>4. IsSeq(c)
  BY <1>3, AnySeq
<1> QED BY <1>4 DEF c

LEMMA AppendIsSeq == ASSUME NEW a, IsSeq(a), NEW e PROVE IsSeq(Append(a, e))
<1> DEFINE S == Elements(a) \cup {e}
<1> DEFINE c == Append(a, e)
<1>1. \A i \in DOMAIN a : a[i] \in S
  BY DEF Elements
<1>2. e \in S
  OBVIOUS
<1> HIDE DEF S
<1>3. a \in Seq(S)
  BY <1>1, Wider
<1>4. c \in Seq(S)
  BY <1>2, <1>3
<1> HIDE DEF c
<1>5. IsSeq(c)
  BY <1>4, AnySeq
<1> QED BY <1>5 DEF c

LEMMA JoinOfAppend ==
    ASSUME NEW a, NEW b, IsSeq(a), IsSeq(b), NEW e
    PROVE  a \o Append(b, e) = Append(a \o b, e)
<1> DEFINE S == Elements(a) \cup Elements(b) \cup {e}
<1>1. /\ \A i \in DOMAIN a : a[i] \in S
      /\ \A i \in DOMAIN b : b[i] \in S
      /\ e \in S
  BY DEF Elements
<1> HIDE DEF S
<1>2. a \in Seq(S) /\ b \in Seq(S)
  BY <1>1, Wider
<1> QED BY <1>1, <1>2

LEMMA JoinOfOne ==
    ASSUME NEW a, IsSeq(a), NEW e
    PROVE  a \o <<e>> = Append(a, e)
<1> DEFINE S == Elements(a) \cup {e}
<1>1. (\A i \in DOMAIN a : a[i] \in S) /\ e \in S
  BY DEF Elements
<1> HIDE DEF S
<1>2. a \in Seq(S)
  BY <1>1, Wider
<1> QED BY <1>1, <1>2

LEMMA JoinOfNone == ASSUME NEW a, IsSeq(a) PROVE a \o <<>> = a
<1>1. a \in Seq(Elements(a))
  BY DEF IsSeq
<1> QED BY <1>1

\* Short tuples are sequences.
LEMMA LiteralSeqs ==
    ASSUME NEW x, NEW y
    PROVE  IsSeq(<<>>) /\ IsSeq(<<x>>) /\ IsSeq(<<x, y>>)
<1>1. <<>> \in Seq({}) /\ <<x>> \in Seq({x}) /\ <<x, y>> \in Seq({x, y})
  OBVIOUS
<1> QED BY <1>1, AnySeq

LEMMA JoinOfTwo ==
    ASSUME NEW a, IsSeq(a), NEW d, NEW e
    PROVE  a \o <<d, e>> = Append(Append(a, d), e)
<1>1. <<d, e>> = Append(<<d>>, e)
  OBVIOUS
<1>2. a \o Append(<<d>>, e) = Append(a \o <<d>>, e)
  BY LiteralSeqs, JoinOfAppend
<1> QED BY <1>1, <1>2, JoinOfOne

\* The fold of nothing, and the fold of one element more.
LEMMA FoldOfNone ==
    ASSUME NEW kind, NEW dialect, NEW c
    PROVE  Folds(kind, dialect, c, <<>>) = c
<1>1. ASSUME NEW n \in Nat, NEW s, DOMAIN s = 1..n
      PROVE  \E g : g[0] = c /\ Folds(kind, dialect, c, s) = g[n]
  BY <1>1, FoldSteps DEF AreSteps
<1>2. DOMAIN <<>> = 1..0 /\ 0 \in Nat
  OBVIOUS
<1> QED BY <1>1, <1>2

LEMMA FoldOfMore ==
    ASSUME NEW kind, NEW dialect, NEW c, NEW s, IsSeq(s), NEW e
    PROVE  Folds(kind, dialect, c, Append(s, e)) = Stage(kind, dialect, Folds(kind, dialect, c, s), e)
<1> DEFINE n == Len(s)
<1> DEFINE t == Append(s, e)
<1>1. n \in Nat /\ DOMAIN s = 1..n
  BY Shape
<1>2. DOMAIN t = 1..(n + 1) /\ t[n + 1] = e /\ \A i \in 1..n : t[i] = s[i]
  <2>1. s \in Seq({s[i] : i \in DOMAIN s} \cup {e})
    BY Wider
  <2> QED BY <2>1
<1> HIDE DEF t, n
<1>a. PICK g : AreSteps(g, kind, dialect, c, n, s)
  BY <1>1, FoldSteps
<1>3. /\ g[0] = c /\ \A i \in 1..n : g[i] = Stage(kind, dialect, g[i - 1], s[i])
      /\ Folds(kind, dialect, c, s) = g[n]
  BY <1>a DEF AreSteps
<1>b. PICK f : AreSteps(f, kind, dialect, c, n + 1, t)
  <2>1. n + 1 \in Nat
    BY <1>1
  <2> QED BY <1>2, <2>1, FoldSteps
<1>4. /\ f[0] = c /\ \A i \in 1..(n + 1) : f[i] = Stage(kind, dialect, f[i - 1], t[i])
      /\ Folds(kind, dialect, c, t) = f[n + 1]
  BY <1>b DEF AreSteps
<1> DEFINE h == [i \in 0..n |-> f[i] = g[i]]
<1>5. h[0]
  <2>1. 0 \in 0..n /\ f[0] = g[0]
    BY <1>1, <1>3, <1>4
  <2> QED BY <2>1, Zenon
<1>6. ASSUME NEW i \in 1..n, h[i - 1] PROVE h[i]
  <2>1. i - 1 \in 0..n /\ i \in 0..n /\ i \in 1..(n + 1)
    BY <1>1
  <2>2. f[i - 1] = g[i - 1]
    BY <2>1, <1>6
  <2> QED BY <2>1, <2>2, <1>2, <1>3, <1>4
<1>7. h[n]
  <2> HIDE DEF h
  <2> QED BY <1>1, <1>5, <1>6, UpTo
<1>8. f[n] = g[n]
  <2>1. n \in 0..n
    BY <1>1
  <2> QED BY <2>1, <1>7, Zenon
<1>9. n + 1 \in 1..(n + 1) /\ (n + 1) - 1 = n
  BY <1>1
<1> QED BY <1>2, <1>3, <1>4, <1>8, <1>9 DEF t

-----------------------------------------------------------------------------
ClientFields == {"blocks", "open", "end", "finish", "usage", "output", "astray"}
BlockFields == {"type", "id", "data"}

Listening(c) ==
    /\ DOMAIN c = ClientFields
    /\ c.end \in {"none", "open"} /\ c.astray = FALSE
    /\ \A i \in DOMAIN c.blocks : DOMAIN c.blocks[i] = BlockFields

Placed(c, i, type) == i \in DOMAIN c.blocks /\ c.blocks[i].type = type

SameBlocks(c, d) ==
    /\ DOMAIN d.blocks = DOMAIN c.blocks
    /\ \A i \in DOMAIN c.blocks : d.blocks[i].type = c.blocks[i].type

Heard(c) ==
    [c EXCEPT !.end = IF @ = "none" THEN "open" ELSE @,
              !.astray = @ \/ c.end \in {"complete", "cut"}]

\* Every event opens the stream of the client and touches nothing else of it.
LEMMA HeardFields ==
    ASSUME NEW c, Listening(c)
    PROVE  /\ DOMAIN Heard(c) = ClientFields /\ Heard(c).end = "open" /\ Heard(c).astray = FALSE
           /\ Heard(c).blocks = c.blocks /\ Heard(c).open = c.open
BY DEF Listening, ClientFields, Heard

LEMMA Hears ==
    ASSUME inbound # "openai", NEW c, NEW e
    PROVE  /\ e.type # "cut" => Take(c, e) = TakeBlockEvent(Heard(c), e)
           /\ e.type = "cut" => Take(c, e) = [Heard(c) EXCEPT !.end = "cut"]
BY DEF Take, Heard

\* The fields of an event.
LEMMA EventFields ==
    ASSUME NEW type, NEW i, NEW x
    PROVE  E(type, i, x).type = type /\ E(type, i, x).index = i /\ E(type, i, x).data = x
BY DEF E

StartTypes == {"start_text", "start_thinking", "start_call", "added_text", "added_call"}
DeltaTypes == {"text", "thinking", "json", "args"}

\* The kinds of blocks that events start and continue.
LEMMA TypeNames == DOMAIN TypeOfStart = StartTypes /\ DOMAIN TypeOfDelta = DeltaTypes
BY DEF TypeOfStart, TypeOfDelta, StartTypes, DeltaTypes

\* The start of a new block is taken: the block is there and open.
LEMMA TakesStart ==
    ASSUME inbound # "openai", NEW c, Listening(c), NEW i, i \notin DOMAIN c.blocks, NEW x,
           NEW type \in StartTypes
    PROVE  LET d == Take(c, E(type, i, x))
           IN  /\ Listening(d) /\ d.open = c.open \cup {i}
               /\ DOMAIN d.blocks = DOMAIN c.blocks \cup {i}
               /\ Placed(d, i, TypeOfStart[type]) /\ d.blocks[i].data = <<>>
               /\ \A j \in DOMAIN c.blocks : d.blocks[j] = c.blocks[j]
<1> DEFINE e == E(type, i, x)
<1> DEFINE o == Heard(c)
<1> DEFINE b == Block(TypeOfStart[type], x, <<>>)
<1> DEFINE d == [o EXCEPT !.blocks = With(@, i, b), !.open = @ \cup {i}]
<1>1. e.type = type /\ e.index = i /\ e.data = x
  BY EventFields
<1>2. /\ DOMAIN o = ClientFields /\ o.end = "open" /\ o.astray = FALSE
      /\ o.blocks = c.blocks /\ o.open = c.open
  BY HeardFields
<1> HIDE DEF e, o
<1>3. Take(c, e) = TakeBlockEvent(o, e)
  BY <1>1, Hears DEF StartTypes, o
<1>4. TakeBlockEvent(o, e) = d
  BY <1>1, <1>2, TypeNames DEF TakeBlockEvent, Unless, StartTypes, DeltaTypes
<1>5. /\ DOMAIN d = ClientFields /\ d.end = "open" /\ d.astray = FALSE
      /\ d.blocks = With(c.blocks, i, b) /\ d.open = c.open \cup {i}
  BY <1>2 DEF ClientFields
<1> HIDE DEF d
<1>6. DOMAIN b = BlockFields /\ b.type = TypeOfStart[type] /\ b.data = <<>>
  BY DEF Block, BlockFields
<1> HIDE DEF b
<1>7. /\ DOMAIN d.blocks = DOMAIN c.blocks \cup {i} /\ d.blocks[i] = b
      /\ \A j \in DOMAIN c.blocks : d.blocks[j] = c.blocks[j]
  BY <1>5 DEF With
<1>8. Listening(d)
  BY <1>5, <1>6, <1>7 DEF Listening
<1>9. Placed(d, i, TypeOfStart[type]) /\ d.blocks[i].data = <<>>
  BY <1>6, <1>7 DEF Placed
<1> QED BY <1>3, <1>4, <1>5, <1>7, <1>8, <1>9 DEF e

\* A delta of an open block of its kind is taken.
LEMMA TakesDelta ==
    ASSUME inbound # "openai", NEW c, Listening(c), NEW type \in DeltaTypes, NEW x,
           NEW i \in c.open, Placed(c, i, TypeOfDelta[type])
    PROVE  LET d == Take(c, E(type, i, x))
           IN  /\ Listening(d) /\ d.open = c.open /\ SameBlocks(c, d)
               /\ d.blocks[i].data = Append(c.blocks[i].data, x)
               /\ \A j \in DOMAIN c.blocks \ {i} : d.blocks[j] = c.blocks[j]
<1> DEFINE e == E(type, i, x)
<1> DEFINE o == Heard(c)
<1> DEFINE d == AppendPiece(o, i, x)
<1>1. e.type = type /\ e.index = i /\ e.data = x
  BY EventFields
<1>2. /\ DOMAIN o = ClientFields /\ o.end = "open" /\ o.astray = FALSE
      /\ o.blocks = c.blocks /\ o.open = c.open
  BY HeardFields
<1> HIDE DEF e, o
<1>3. Take(c, e) = TakeBlockEvent(o, e)
  BY <1>1, Hears DEF DeltaTypes, o
<1>4. TakeBlockEvent(o, e) = d
  <2> HIDE DEF d
  <2>1. TakeBlockEvent(o, e) = Unless(o, i \in o.open /\ o.blocks[i].type = TypeOfDelta[type], d)
    BY <1>1, TypeNames DEF TakeBlockEvent, StartTypes, DeltaTypes, d
  <2> QED BY <1>2, <2>1 DEF Unless, Placed
<1>5. d = [o EXCEPT !.blocks[i].data = Append(@, x)]
  BY DEF AppendPiece
<1> HIDE DEF d
<1>6. /\ DOMAIN d = ClientFields /\ d.end = "open" /\ d.astray = FALSE /\ d.open = c.open
      /\ d.blocks = [c.blocks EXCEPT ![i].data = Append(@, x)]
  <2>1. i \in DOMAIN o.blocks
    BY <1>2 DEF Placed
  <2>2. d.blocks = [o.blocks EXCEPT ![i].data = Append(@, x)]
    BY <1>2, <1>5, <2>1 DEF ClientFields
  <2>3. DOMAIN d = ClientFields /\ d.end = o.end /\ d.astray = o.astray /\ d.open = o.open
    BY <1>2, <1>5 DEF ClientFields
  <2> QED BY <1>2, <2>2, <2>3
<1>7. /\ DOMAIN d.blocks = DOMAIN c.blocks
      /\ d.blocks[i] = [c.blocks[i] EXCEPT !.data = Append(@, x)]
      /\ \A j \in DOMAIN c.blocks \ {i} : d.blocks[j] = c.blocks[j]
  BY <1>6 DEF Placed
<1>8. /\ DOMAIN d.blocks[i] = BlockFields /\ d.blocks[i].type = c.blocks[i].type
      /\ d.blocks[i].data = Append(c.blocks[i].data, x)
  BY <1>7 DEF Listening, Placed, BlockFields
<1>9. Listening(d) /\ SameBlocks(c, d)
  BY <1>6, <1>7, <1>8 DEF Listening, SameBlocks
<1> QED BY <1>3, <1>4, <1>6, <1>7, <1>8, <1>9 DEF e

\* The other events of a stream that goes on.
LEMMA TakesOther ==
    ASSUME inbound # "openai", NEW c, Listening(c), NEW i, NEW x,
           NEW type \in {"signature", "stop", "message_delta", "message_start", "created"},
           type = "signature" => i \in c.open /\ Placed(c, i, "thinking"),
           type = "stop" => i \in c.open,
           type = "message_delta" => c.open = {}
    PROVE  LET d == Take(c, E(type, i, x))
           IN  /\ Listening(d) /\ d.blocks = c.blocks
               /\ d.open = IF type = "stop" THEN c.open \ {i} ELSE c.open
<1> DEFINE e == E(type, i, x)
<1> DEFINE o == Heard(c)
<1> DEFINE d == TakeBlockEvent(o, e)
<1>1. e.type = type /\ e.index = i /\ e.data = x
  BY EventFields
<1>2. /\ DOMAIN o = ClientFields /\ o.end = "open" /\ o.astray = FALSE
      /\ o.blocks = c.blocks /\ o.open = c.open
  BY HeardFields
<1> HIDE DEF e, o
<1>3. Take(c, e) = d /\ type \notin StartTypes /\ type \notin DeltaTypes
  BY <1>1, Hears DEF StartTypes, DeltaTypes, o
<1>4. /\ DOMAIN d = ClientFields /\ d.end = "open" /\ d.astray = FALSE /\ d.blocks = c.blocks
      /\ d.open = IF type = "stop" THEN c.open \ {i} ELSE c.open
  <2>1. CASE type = "stop"
    <3>1. d = [o EXCEPT !.open = @ \ {i}]
      BY <1>1, <1>2, <1>3, <2>1, TypeNames DEF TakeBlockEvent, Unless
    <3> HIDE DEF d
    <3> QED BY <1>2, <2>1, <3>1 DEF ClientFields
  <2>2. CASE type = "signature"
    <3>1. d = o
      BY <1>1, <1>2, <1>3, <2>2, TypeNames DEF TakeBlockEvent, Unless, Placed
    <3> HIDE DEF d
    <3> QED BY <1>2, <2>2, <3>1
  <2>3. CASE type = "message_delta"
    <3>1. d = [o EXCEPT !.finish = FinishOf(e.data.stop), !.usage = e.data.usage]
      BY <1>1, <1>2, <1>3, <2>3, TypeNames DEF TakeBlockEvent, Unless
    <3> HIDE DEF d
    <3> QED BY <1>2, <2>3, <3>1 DEF ClientFields
  <2>4. CASE type \in {"message_start", "created"}
    <3>1. d = o
      BY <1>1, <1>3, <2>4, TypeNames DEF TakeBlockEvent
    <3> HIDE DEF d
    <3> QED BY <1>2, <2>4, <3>1
  <2> QED BY <2>1, <2>2, <2>3, <2>4
<1> HIDE DEF d
<1>5. Listening(d)
  BY <1>4 DEF Listening
<1> QED BY <1>3, <1>4, <1>5 DEF e

\* The ends of a stream.
LEMMA TakesEnd ==
    ASSUME inbound # "openai", NEW c, Listening(c), NEW x,
           NEW type \in {"message_stop", "completed", "incomplete", "cut"},
           type \in {"completed", "incomplete"} => c.open = {}
    PROVE  LET d == Take(c, E(type, 0, x))
           IN  d.astray = FALSE /\ d.end = IF type = "cut" THEN "cut" ELSE "complete"
<1> DEFINE e == E(type, 0, x)
<1> DEFINE o == Heard(c)
<1>1. e.type = type /\ e.index = 0 /\ e.data = x
  BY EventFields
<1>2. DOMAIN o = ClientFields /\ o.astray = FALSE /\ o.open = c.open
  BY HeardFields
<1> HIDE DEF e, o
<1>3. /\ type # "cut" => Take(c, e) = TakeBlockEvent(o, e)
      /\ type = "cut" => Take(c, e) = [o EXCEPT !.end = "cut"]
      /\ type \notin StartTypes /\ type \notin DeltaTypes
  BY <1>1, Hears DEF StartTypes, DeltaTypes, o
<1>4. CASE type = "message_stop"
  <2>1. TakeBlockEvent(o, e) = [o EXCEPT !.end = "complete"]
    BY <1>1, <1>3, <1>4, TypeNames DEF TakeBlockEvent
  <2> QED BY <1>2, <1>3, <1>4, <2>1 DEF ClientFields, e
<1>5. CASE type \in {"completed", "incomplete"}
  <2>1. TakeBlockEvent(o, e) =
            [o EXCEPT !.end = "complete", !.output = e.data.output, !.usage = e.data.usage,
                      !.finish = FinishOfResponse(e.data, Of(e.data.output, "call") # <<>>)]
    BY <1>1, <1>2, <1>3, <1>5, TypeNames DEF TakeBlockEvent, Unless
  <2> QED BY <1>2, <1>3, <1>5, <2>1 DEF ClientFields, e
<1>6. CASE type = "cut"
  BY <1>2, <1>3, <1>6 DEF ClientFields, e
<1> QED BY <1>4, <1>5, <1>6

-----------------------------------------------------------------------------
\* What a client is after an output.
Reached(c, out) == Folds("take", "", c, out)

\* What a client has reached after one event more.
LEMMA ReachedNext ==
    ASSUME NEW c, NEW o, IsSeq(o), NEW a, IsSeq(a), NEW e
    PROVE  Reached(c, o \o Append(a, e)) = Take(Reached(c, o \o a), e)
<1> DEFINE b == o \o a
<1>1. o \o Append(a, e) = Append(b, e)
  BY JoinOfAppend
<1>2. IsSeq(b)
  BY JoinIsSeq
<1> HIDE DEF b
<1>3. Folds("take", "", c, Append(b, e)) = Stage("take", "", Folds("take", "", c, b), e)
  <2>1. ASSUME NEW kind, NEW dialect
        PROVE  Folds(kind, dialect, c, Append(b, e)) = Stage(kind, dialect, Folds(kind, dialect, c, b), e)
    BY <1>2, FoldOfMore
  <2> QED BY <2>1
<1> QED BY <1>1, <1>3 DEF Reached, Stage, b

\* Emitting an event makes the client take it.
LEMMA Emits ==
    ASSUME NEW s, "out" \in DOMAIN s, IsSeq(s.out), NEW e
    PROVE  LET t == Emit(s, <<e>>)
           IN  /\ DOMAIN t = DOMAIN s /\ \A f \in DOMAIN s \ {"out"} : t[f] = s[f]
               /\ t.out = Append(s.out, e) /\ IsSeq(t.out)
<1> DEFINE t == Emit(s, <<e>>)
<1>1. /\ DOMAIN t = DOMAIN s /\ t.out = s.out \o <<e>>
      /\ \A f \in DOMAIN s \ {"out"} : t[f] = s[f]
  BY DEF Emit
<1> HIDE DEF t
<1>2. t.out = Append(s.out, e)
  BY <1>1, JoinOfOne
<1>3. IsSeq(t.out)
  BY <1>2, AppendIsSeq
<1> QED BY <1>1, <1>2, <1>3 DEF t

\* The same of what the client has then.
LEMMA Reaches ==
    ASSUME NEW c, NEW o, IsSeq(o), NEW s, "out" \in DOMAIN s, IsSeq(s.out), NEW e
    PROVE  Reached(c, o \o Emit(s, <<e>>).out) = Take(Reached(c, o \o s.out), e)
<1>1. Emit(s, <<e>>).out = Append(s.out, e)
  BY Emits
<1>2. Reached(c, o \o Append(s.out, e)) = Take(Reached(c, o \o s.out), e)
  BY ReachedNext
<1> QED BY <1>1, <1>2

\* The same of two events.
LEMMA EmitsTwo ==
    ASSUME NEW s, "out" \in DOMAIN s, IsSeq(s.out), NEW d, NEW e
    PROVE  Emit(s, <<d, e>>) = Emit(Emit(s, <<d>>), <<e>>)
<1>1. s.out \o <<d, e>> = (s.out \o <<d>>) \o <<e>>
  <2>1. s.out \o <<d, e>> = Append(Append(s.out, d), e) /\ s.out \o <<d>> = Append(s.out, d)
    BY JoinOfTwo, JoinOfOne
  <2> DEFINE q == Append(s.out, d)
  <2>2. IsSeq(q)
    BY AppendIsSeq
  <2> HIDE DEF q
  <2>3. q \o <<e>> = Append(q, e)
    BY <2>2, JoinOfOne
  <2> QED BY <2>1, <2>3 DEF q
<1> DEFINE l == s.out \o <<d>>
<1> DEFINE m == s.out \o <<d, e>>
<1>2. Emit(s, <<d, e>>) = [s EXCEPT !.out = m] /\ Emit(s, <<d>>) = [s EXCEPT !.out = l]
  BY DEF Emit
<1>3. Emit([s EXCEPT !.out = l], <<e>>) = [[s EXCEPT !.out = l] EXCEPT !.out = l \o <<e>>]
  <2> HIDE DEF l
  <2> QED BY DEF Emit
<1>4. m = l \o <<e>>
  BY <1>1
<1> HIDE DEF l, m
<1> QED BY <1>2, <1>3, <1>4

AnthropicFields == {"text", "thinking", "calls", "next", "stop", "usage", "over", "out"}
OpenBlocks(s) == ({s.text, s.thinking} \ {NoBlock}) \cup {s.calls[k] : k \in DOMAIN s.calls}

\* The writer knows the client's blocks.
BlocksKnown(s, d) ==
    /\ DOMAIN s = AnthropicFields /\ IsSeq(s.out) /\ s.next \in Nat
    /\ IsFiniteSet(DOMAIN s.calls) /\ DOMAIN s.calls \subseteq Int
    /\ Listening(d) /\ d.open = OpenBlocks(s)
    /\ \A i \in DOMAIN d.blocks : i \in Nat /\ i < s.next
    /\ s.text # NoBlock => Placed(d, s.text, "text")
    /\ s.thinking # NoBlock => Placed(d, s.thinking, "thinking")
    /\ \A k \in DOMAIN s.calls : Placed(d, s.calls[k], "call")
    /\ \A j, k \in DOMAIN s.calls : s.calls[j] = s.calls[k] => j = k

\* Closing and opening the blocks of the message: the client follows.
LEMMA ThinkingCloses ==
    ASSUME inbound # "openai", NEW c, NEW o, IsSeq(o), NEW s, BlocksKnown(s, Reached(c, o \o s.out))
    PROVE  LET t == CloseThinking(s)
           IN  /\ BlocksKnown(t, Reached(c, o \o t.out))
               /\ t.thinking = NoBlock /\ t.text = s.text /\ t.calls = s.calls /\ t.over = s.over
<1> DEFINE d == Reached(c, o \o s.out)
<1>1. CASE s.thinking = NoBlock
  <2>1. CloseThinking(s) = s
    BY <1>1 DEF CloseThinking
  <2> QED BY <1>1, <2>1
<1>2. CASE s.thinking # NoBlock
  <2> DEFINE i == s.thinking
  <2> DEFINE e == E("signature", i, 0)
  <2> DEFINE f == E("stop", i, 0)
  <2> DEFINE r == [s EXCEPT !.thinking = NoBlock]
  <2> DEFINE q == Emit(r, <<e>>)
  <2> DEFINE t == Emit(q, <<f>>)
  <2> HIDE DEF e, f
  <2>1. /\ DOMAIN r = AnthropicFields /\ IsSeq(r.out) /\ r.out = s.out /\ r.text = s.text
        /\ r.thinking = NoBlock /\ r.calls = s.calls /\ r.next = s.next /\ r.over = s.over
    BY DEF BlocksKnown, AnthropicFields
  <2>2. CloseThinking(s) = Emit(r, <<e, f>>)
    BY <1>2 DEF CloseThinking, e, f
  <2> HIDE DEF r
  <2>3. Emit(r, <<e, f>>) = t
    BY <2>1, EmitsTwo DEF AnthropicFields
  <2>4. /\ DOMAIN q = AnthropicFields /\ IsSeq(q.out) /\ \A k \in AnthropicFields \ {"out"} : q[k] = r[k]
    BY <2>1, Emits DEF AnthropicFields
  <2>5. Reached(c, o \o q.out) = Take(d, e)
    BY <2>1, Reaches DEF AnthropicFields
  <2> HIDE DEF q
  <2>6. /\ DOMAIN t = AnthropicFields /\ IsSeq(t.out) /\ \A k \in AnthropicFields \ {"out"} : t[k] = q[k]
    BY <2>4, Emits DEF AnthropicFields
  <2>7. Reached(c, o \o t.out) = Take(Take(d, e), f)
    BY <2>4, <2>5, Reaches DEF AnthropicFields
  <2> HIDE DEF t
  <2>8. /\ t.text = s.text /\ t.thinking = NoBlock /\ t.calls = s.calls
        /\ t.next = s.next /\ t.over = s.over
    BY <2>1, <2>4, <2>6 DEF AnthropicFields
  <2>9. i \in d.open /\ Placed(d, i, "thinking") /\ Listening(d)
    BY <1>2 DEF BlocksKnown, OpenBlocks
  <2> DEFINE d1 == Take(d, e)
  <2> DEFINE d2 == Take(d1, f)
  <2> HIDE DEF i, d
  <2>10. Listening(d1) /\ d1.blocks = d.blocks /\ d1.open = d.open
    BY <2>9, TakesOther DEF e
  <2> HIDE DEF d1
  <2>11. Listening(d2) /\ d2.blocks = d.blocks /\ d2.open = d.open \ {i}
    BY <2>9, <2>10, TakesOther DEF f
  <2> HIDE DEF d2
  <2>12. OpenBlocks(t) = OpenBlocks(s) \ {i}
    <3>1. i # s.text /\ \A k \in DOMAIN s.calls : i # s.calls[k]
      <4>1. s.text # NoBlock => d.blocks[s.text].type = "text"
        BY DEF BlocksKnown, Placed, d
      <4>2. \A k \in DOMAIN s.calls : d.blocks[s.calls[k]].type = "call"
        BY DEF BlocksKnown, Placed, d
      <4>3. d.blocks[i].type = "thinking" /\ i # NoBlock
        BY <1>2, <2>9 DEF Placed, i
      <4> QED BY <4>1, <4>2, <4>3
    <3> QED BY <2>8, <3>1 DEF OpenBlocks, i
  <2>13. BlocksKnown(t, d2)
    BY <2>6, <2>8, <2>11, <2>12 DEF BlocksKnown, Placed, d
  <2> QED BY <2>2, <2>3, <2>7, <2>8, <2>13 DEF d1, d2
<1> QED BY <1>1, <1>2

LEMMA TextCloses ==
    ASSUME inbound # "openai", NEW c, NEW o, IsSeq(o), NEW s, BlocksKnown(s, Reached(c, o \o s.out))
    PROVE  LET t == CloseText(s)
           IN  /\ BlocksKnown(t, Reached(c, o \o t.out))
               /\ t.text = NoBlock /\ t.thinking = s.thinking /\ t.calls = s.calls /\ t.over = s.over
<1> DEFINE d == Reached(c, o \o s.out)
<1>1. CASE s.text = NoBlock
  <2>1. CloseText(s) = s
    BY <1>1 DEF CloseText
  <2> QED BY <1>1, <2>1
<1>2. CASE s.text # NoBlock
  <2> DEFINE i == s.text
  <2> DEFINE e == E("stop", i, 0)
  <2> DEFINE r == [s EXCEPT !.text = NoBlock]
  <2> DEFINE t == Emit(r, <<e>>)
  <2> DEFINE d1 == Take(d, e)
  <2> HIDE DEF e
  <2>1. /\ DOMAIN r = AnthropicFields /\ IsSeq(r.out) /\ r.out = s.out /\ r.thinking = s.thinking
        /\ r.text = NoBlock /\ r.calls = s.calls /\ r.next = s.next /\ r.over = s.over
    BY DEF BlocksKnown, AnthropicFields
  <2>2. CloseText(s) = t
    BY <1>2 DEF CloseText, e
  <2> HIDE DEF r
  <2>3. /\ DOMAIN t = AnthropicFields /\ IsSeq(t.out) /\ \A k \in AnthropicFields \ {"out"} : t[k] = r[k]
    BY <2>1, Emits DEF AnthropicFields
  <2>4. Reached(c, o \o t.out) = d1
    BY <2>1, Reaches DEF AnthropicFields
  <2> HIDE DEF t
  <2>5. /\ t.thinking = s.thinking /\ t.text = NoBlock /\ t.calls = s.calls
        /\ t.next = s.next /\ t.over = s.over
    BY <2>1, <2>3 DEF AnthropicFields
  <2>6. i \in d.open /\ Placed(d, i, "text") /\ Listening(d)
    BY <1>2 DEF BlocksKnown, OpenBlocks
  <2> HIDE DEF i, d
  <2>7. Listening(d1) /\ d1.blocks = d.blocks /\ d1.open = d.open \ {i}
    BY <2>6, TakesOther DEF e
  <2> HIDE DEF d1
  <2>8. OpenBlocks(t) = OpenBlocks(s) \ {i}
    <3>1. i # s.thinking /\ \A k \in DOMAIN s.calls : i # s.calls[k]
      <4>1. s.thinking # NoBlock => d.blocks[s.thinking].type = "thinking"
        BY DEF BlocksKnown, Placed, d
      <4>2. \A k \in DOMAIN s.calls : d.blocks[s.calls[k]].type = "call"
        BY DEF BlocksKnown, Placed, d
      <4>3. d.blocks[i].type = "text" /\ i # NoBlock
        BY <1>2, <2>6 DEF Placed, i
      <4> QED BY <4>1, <4>2, <4>3
    <3> QED BY <2>5, <3>1 DEF OpenBlocks, i
  <2>9. BlocksKnown(t, d1)
    BY <2>3, <2>5, <2>7, <2>8 DEF BlocksKnown, Placed, d
  <2> QED BY <2>2, <2>4, <2>5, <2>9
<1> QED BY <1>1, <1>2

LEMMA ThinkingOpens ==
    ASSUME inbound # "openai", NEW c, NEW o, IsSeq(o), NEW s, BlocksKnown(s, Reached(c, o \o s.out))
    PROVE  LET t == OpenThinking(s)
           IN  /\ BlocksKnown(t, Reached(c, o \o t.out))
               /\ t.over = s.over
<1> DEFINE d == Reached(c, o \o s.out)
<1>1. CASE s.thinking # NoBlock \/ s.text # NoBlock \/ s.calls # <<>>
  <2>1. OpenThinking(s) = s
    BY <1>1 DEF OpenThinking
  <2> QED BY <1>1, <2>1
<1>2. CASE ~(s.thinking # NoBlock \/ s.text # NoBlock \/ s.calls # <<>>)
  <2> DEFINE i == s.next
  <2> DEFINE e == E("start_thinking", i, 0)
  <2> DEFINE r == [s EXCEPT !.thinking = i, !.next = i + 1]
  <2> DEFINE t == Emit(r, <<e>>)
  <2> DEFINE d1 == Take(d, e)
  <2> HIDE DEF e
  <2>1. /\ DOMAIN r = AnthropicFields /\ IsSeq(r.out) /\ r.out = s.out /\ r.text = s.text
        /\ r.thinking = i /\ r.calls = s.calls /\ r.next = i + 1 /\ r.over = s.over
    BY DEF BlocksKnown, AnthropicFields
  <2>2. OpenThinking(s) = t
    BY <1>2 DEF OpenThinking, e
  <2> HIDE DEF r
  <2>3. /\ DOMAIN t = AnthropicFields /\ IsSeq(t.out) /\ \A k \in AnthropicFields \ {"out"} : t[k] = r[k]
    BY <2>1, Emits DEF AnthropicFields
  <2>4. Reached(c, o \o t.out) = d1
    BY <2>1, Reaches DEF AnthropicFields
  <2> HIDE DEF t
  <2>5. /\ t.text = s.text /\ t.thinking = i /\ t.calls = s.calls
        /\ t.next = i + 1 /\ t.over = s.over
    BY <2>1, <2>3 DEF AnthropicFields
  <2>6. i \notin DOMAIN d.blocks /\ Listening(d) /\ i \in Nat
    BY DEF BlocksKnown
  <2> HIDE DEF d
  <2>7. /\ Listening(d1) /\ d1.open = d.open \cup {i}
        /\ DOMAIN d1.blocks = DOMAIN d.blocks \cup {i} /\ Placed(d1, i, "thinking")
        /\ \A j \in DOMAIN d.blocks : d1.blocks[j] = d.blocks[j]
    <3>1. "start_thinking" \in StartTypes /\ TypeOfStart["start_thinking"] = "thinking"
      BY DEF StartTypes, TypeOfStart
    <3> QED BY <2>6, <3>1, TakesStart DEF e
  <2> HIDE DEF d1
  <2>8. OpenBlocks(t) = OpenBlocks(s) \cup {i}
    BY <1>2, <2>5, <2>6 DEF OpenBlocks, NoBlock
  <2>9. \A j \in DOMAIN d1.blocks : j \in Nat /\ j < t.next
    <3>1. \A j \in DOMAIN d.blocks : j \in Nat /\ j < i
      BY DEF BlocksKnown, d
    <3> HIDE DEF i
    <3> QED BY <2>5, <2>6, <2>7, <3>1
  <2>10. t.next \in Nat
    BY <2>5, <2>6
  <2> HIDE DEF i
  <2>11. BlocksKnown(t, d1)
    BY <2>3, <2>5, <2>7, <2>8, <2>9, <2>10 DEF BlocksKnown, Placed, d
  <2> QED BY <2>2, <2>4, <2>5, <2>11
<1> QED BY <1>1, <1>2

LEMMA TextOpens ==
    ASSUME inbound # "openai", NEW c, NEW o, IsSeq(o), NEW s, BlocksKnown(s, Reached(c, o \o s.out))
    PROVE  LET t == OpenText(s)
           IN  /\ BlocksKnown(t, Reached(c, o \o t.out))
               /\ t.text # NoBlock /\ t.over = s.over
<1> DEFINE d == Reached(c, o \o s.out)
<1>1. CASE s.text # NoBlock
  <2>1. OpenText(s) = s
    BY <1>1 DEF OpenText
  <2> QED BY <1>1, <2>1
<1>2. CASE s.text = NoBlock
  <2> DEFINE i == s.next
  <2> DEFINE e == E("start_text", i, 0)
  <2> DEFINE r == [s EXCEPT !.text = i, !.next = i + 1]
  <2> DEFINE t == Emit(r, <<e>>)
  <2> DEFINE d1 == Take(d, e)
  <2> HIDE DEF e
  <2>1. /\ DOMAIN r = AnthropicFields /\ IsSeq(r.out) /\ r.out = s.out /\ r.thinking = s.thinking
        /\ r.text = i /\ r.calls = s.calls /\ r.next = i + 1 /\ r.over = s.over
    BY DEF BlocksKnown, AnthropicFields
  <2>2. OpenText(s) = t
    BY <1>2 DEF OpenText, e
  <2> HIDE DEF r
  <2>3. /\ DOMAIN t = AnthropicFields /\ IsSeq(t.out) /\ \A k \in AnthropicFields \ {"out"} : t[k] = r[k]
    BY <2>1, Emits DEF AnthropicFields
  <2>4. Reached(c, o \o t.out) = d1
    BY <2>1, Reaches DEF AnthropicFields
  <2> HIDE DEF t
  <2>5. /\ t.thinking = s.thinking /\ t.text = i /\ t.calls = s.calls
        /\ t.next = i + 1 /\ t.over = s.over
    BY <2>1, <2>3 DEF AnthropicFields
  <2>6. i \notin DOMAIN d.blocks /\ Listening(d) /\ i \in Nat
    BY DEF BlocksKnown
  <2> HIDE DEF d
  <2>7. /\ Listening(d1) /\ d1.open = d.open \cup {i}
        /\ DOMAIN d1.blocks = DOMAIN d.blocks \cup {i} /\ Placed(d1, i, "text")
        /\ \A j \in DOMAIN d.blocks : d1.blocks[j] = d.blocks[j]
    <3>1. "start_text" \in StartTypes /\ TypeOfStart["start_text"] = "text"
      BY DEF StartTypes, TypeOfStart
    <3> QED BY <2>6, <3>1, TakesStart DEF e
  <2> HIDE DEF d1
  <2>8. OpenBlocks(t) = OpenBlocks(s) \cup {i}
    BY <1>2, <2>5, <2>6 DEF OpenBlocks, NoBlock
  <2>9. \A j \in DOMAIN d1.blocks : j \in Nat /\ j < t.next
    <3>1. \A j \in DOMAIN d.blocks : j \in Nat /\ j < i
      BY DEF BlocksKnown, d
    <3> HIDE DEF i
    <3> QED BY <2>5, <2>6, <2>7, <3>1
  <2>10. t.next \in Nat
    BY <2>5, <2>6
  <2> HIDE DEF i
  <2>11. BlocksKnown(t, d1)
    BY <2>3, <2>5, <2>7, <2>8, <2>9, <2>10 DEF BlocksKnown, Placed, d
  <2> QED BY <2>2, <2>4, <2>5, <2>11, <2>6 DEF NoBlock, i
<1> QED BY <1>1, <1>2

LEMMA CallOpens ==
    ASSUME inbound # "openai", NEW c, NEW o, IsSeq(o), NEW s, BlocksKnown(s, Reached(c, o \o s.out)),
           NEW e, e.index \in Int
    PROVE  LET t == OpenCall(s, e)
           IN  /\ BlocksKnown(t, Reached(c, o \o t.out))
               /\ e.index \in DOMAIN t.calls /\ t.over = s.over
<1>1. CASE e.index \in DOMAIN s.calls
  <2>1. OpenCall(s, e) = s
    BY <1>1 DEF OpenCall
  <2> QED BY <1>1, <2>1
<1>2. CASE e.index \notin DOMAIN s.calls
  <2> DEFINE p == CloseThinking(s)
  <2> DEFINE q == CloseText(p)
  <2> DEFINE d == Reached(c, o \o q.out)
  <2> DEFINE i == q.next
  <2> DEFINE f == E("start_call", i, e.data.id)
  <2> DEFINE r == [q EXCEPT !.calls = With(@, e.index, i), !.next = @ + 1]
  <2> DEFINE t == Emit(r, <<f>>)
  <2> DEFINE d1 == Take(d, f)
  <2>1. OpenCall(s, e) = t
    BY <1>2 DEF OpenCall
  <2> HIDE DEF f
  <2>2. /\ BlocksKnown(p, Reached(c, o \o p.out)) /\ p.thinking = NoBlock
        /\ p.calls = s.calls /\ p.over = s.over
    BY ThinkingCloses
  <2> HIDE DEF p
  <2>3. /\ BlocksKnown(q, d) /\ q.text = NoBlock /\ q.thinking = NoBlock
        /\ q.calls = s.calls /\ q.over = s.over
    BY <2>2, TextCloses
  <2> HIDE DEF q
  <2>4. /\ DOMAIN r = AnthropicFields /\ IsSeq(r.out) /\ r.out = q.out /\ r.text = NoBlock
        /\ r.thinking = NoBlock /\ r.calls = With(q.calls, e.index, i) /\ r.next = i + 1 /\ r.over = q.over
    BY <2>3 DEF BlocksKnown, AnthropicFields
  <2> HIDE DEF r
  <2>5. /\ DOMAIN t = AnthropicFields /\ IsSeq(t.out) /\ \A k \in AnthropicFields \ {"out"} : t[k] = r[k]
    BY <2>4, Emits DEF AnthropicFields
  <2>6. Reached(c, o \o t.out) = d1
    BY <2>4, Reaches DEF AnthropicFields
  <2> HIDE DEF t
  <2>7. /\ t.text = NoBlock /\ t.thinking = NoBlock /\ t.calls = With(q.calls, e.index, i)
        /\ t.next = i + 1 /\ t.over = q.over
    BY <2>4, <2>5 DEF AnthropicFields
  <2>8. i \notin DOMAIN d.blocks /\ Listening(d) /\ i \in Nat
    BY <2>3 DEF BlocksKnown
  <2> HIDE DEF d
  <2>9. /\ Listening(d1) /\ d1.open = d.open \cup {i}
        /\ DOMAIN d1.blocks = DOMAIN d.blocks \cup {i} /\ Placed(d1, i, "call")
        /\ \A j \in DOMAIN d.blocks : d1.blocks[j] = d.blocks[j]
    <3>1. "start_call" \in StartTypes /\ TypeOfStart["start_call"] = "call"
      BY DEF StartTypes, TypeOfStart
    <3> QED BY <2>8, <3>1, TakesStart DEF f
  <2> HIDE DEF d1
  <2>10. /\ DOMAIN t.calls = DOMAIN q.calls \cup {e.index} /\ t.calls[e.index] = i
         /\ \A k \in DOMAIN q.calls : t.calls[k] = q.calls[k]
    BY <1>2, <2>3, <2>7 DEF With
  <2>11. OpenBlocks(t) = OpenBlocks(q) \cup {i}
    <3>1. OpenBlocks(t) = {t.calls[k] : k \in DOMAIN t.calls}
      BY <2>7 DEF OpenBlocks
    <3>2. OpenBlocks(q) = {q.calls[k] : k \in DOMAIN q.calls}
      BY <2>3 DEF OpenBlocks
    <3> HIDE DEF i
    <3> QED BY <3>1, <3>2, <2>10
  <2>12. \A j \in DOMAIN d1.blocks : j \in Nat /\ j < t.next
    <3>1. \A j \in DOMAIN d.blocks : j \in Nat /\ j < i
      BY <2>3 DEF BlocksKnown, d
    <3> HIDE DEF i
    <3> QED BY <2>7, <2>8, <2>9, <3>1
  <2>13. t.next \in Nat
    BY <2>7, <2>8
  <2> HIDE DEF i
  <2>14. \A k \in DOMAIN t.calls : Placed(d1, t.calls[k], "call")
    BY <2>3, <2>9, <2>10 DEF BlocksKnown, Placed
  <2>15. \A j, k \in DOMAIN t.calls : t.calls[j] = t.calls[k] => j = k
    <3>1. \A k \in DOMAIN q.calls : q.calls[k] # i
      BY <2>3, <2>8 DEF BlocksKnown, Placed
    <3>2. \A j, k \in DOMAIN q.calls : q.calls[j] = q.calls[k] => j = k
      BY <2>3 DEF BlocksKnown
    <3> QED BY <2>10, <3>1, <3>2
  <2>16. IsFiniteSet(DOMAIN t.calls) /\ DOMAIN t.calls \subseteq Int
    BY <2>3, <2>10, FS_AddElement DEF BlocksKnown
  <2>17. d.open = OpenBlocks(q)
    BY <2>3 DEF BlocksKnown
  <2>18. BlocksKnown(t, d1)
    BY <2>5, <2>7, <2>9, <2>11, <2>12, <2>13, <2>14, <2>15, <2>16, <2>17 DEF BlocksKnown
  <2> QED BY <2>1, <2>3, <2>6, <2>7, <2>10, <2>18
<1> QED BY <1>1, <1>2

\* ByIndex goes through the indices of a function, each once.
LEMMA NthIsUnique ==
    ASSUME NEW D, IsFiniteSet(D), D \subseteq Int
    PROVE  LET n == Cardinality(D)
           IN  /\ n \in Nat
               /\ \A i \in 1..n : Nth(D, i) \in D
               /\ \A i, j \in 1..n : Nth(D, i) = Nth(D, j) => i = j
               /\ \A k \in D : \E i \in 1..n : Nth(D, i) = k
<1> DEFINE n == Cardinality(D)
<1> DEFINE Below(k) == {j \in D : j < k}
<1> DEFINE rank == [k \in D |-> Cardinality(Below(k))]
<1>1. n \in Nat
  BY FS_CardinalityType
<1>2. ASSUME NEW k \in D PROVE IsFiniteSet(Below(k)) /\ rank[k] \in Nat /\ rank[k] < n
  <2>1. Below(k) \subseteq D /\ k \in D /\ k \notin Below(k)
    OBVIOUS
  <2> HIDE DEF Below
  <2>2. /\ IsFiniteSet(Below(k)) /\ Cardinality(Below(k)) <= n
        /\ (Cardinality(Below(k)) = n => Below(k) = D)
    BY <2>1, FS_Subset
  <2>3. Cardinality(Below(k)) \in Nat
    BY <2>2, FS_CardinalityType
  <2> QED BY <1>1, <2>1, <2>2, <2>3
<1>3. ASSUME NEW j \in D, NEW k \in D, j < k PROVE rank[j] < rank[k]
  <2>1. Below(j) \subseteq Below(k) /\ j \in Below(k) /\ j \notin Below(j)
    <3>1. \A l \in D : l < j => l < k
      <4>1. j \in Int /\ k \in Int /\ \A l \in D : l \in Int
        OBVIOUS
      <4> QED BY <1>3, <4>1
    <3>2. ~ (j < j)
      <4>1. j \in Int
        OBVIOUS
      <4> QED BY <4>1
    <3> QED BY <1>3, <3>1, <3>2
  <2>2. IsFiniteSet(Below(k)) /\ rank[j] \in Nat /\ rank[k] \in Nat
    BY <1>2
  <2> HIDE DEF Below
  <2>3. /\ Cardinality(Below(j)) <= Cardinality(Below(k))
        /\ (Cardinality(Below(j)) = Cardinality(Below(k)) => Below(j) = Below(k))
    BY <2>1, <2>2, FS_Subset
  <2> QED BY <2>1, <2>2, <2>3
<1>4. rank \in Injection(D, 0..(n - 1))
  <2>1. \A k \in D : rank[k] \in 0..(n - 1)
    BY <1>1, <1>2
  <2>2. \A j, k \in D : rank[j] = rank[k] => j = k
    <3>1. SUFFICES ASSUME NEW j \in D, NEW k \in D, j # k PROVE rank[j] # rank[k]
      OBVIOUS
    <3>2. j < k \/ k < j
      BY <3>1
    <3>3. rank[j] \in Nat /\ rank[k] \in Nat
      BY <1>2
    <3> HIDE DEF rank
    <3> QED BY <1>3, <3>2, <3>3
  <2>3. rank \in [D -> 0..(n - 1)]
    BY <2>1
  <2> HIDE DEF rank
  <2> QED BY <2>2, <2>3 DEF Injection, IsInjective
<1>5. rank \in Surjection(D, 0..(n - 1))
  <2>1. IsFiniteSet(0..(n - 1)) /\ Cardinality(0..(n - 1)) = n
    BY <1>1, FS_Interval
  <2> HIDE DEF rank
  <2> QED BY <1>4, <2>1, FS_Injection
<1>6. ASSUME NEW i \in 1..n PROVE \E k \in D : rank[k] = i - 1
  <2>1. i - 1 \in 0..(n - 1)
    BY <1>1
  <2> HIDE DEF rank
  <2> QED BY <1>5, <2>1 DEF Surjection
<1>7. ASSUME NEW i \in 1..n PROVE Nth(D, i) \in D /\ rank[Nth(D, i)] = i - 1
  <2>1. \E k \in D : Cardinality(Below(k)) = i - 1
    BY <1>6
  <2>2. Nth(D, i) = CHOOSE k \in D : Cardinality(Below(k)) = i - 1
    BY DEF Nth
  <2> HIDE DEF Below
  <2> QED BY <2>1, <2>2
<1>8. ASSUME NEW k \in D PROVE \E i \in 1..n : Nth(D, i) = k
  <2>1. rank[k] + 1 \in 1..n /\ (rank[k] + 1) - 1 = rank[k]
    BY <1>1, <1>2
  <2>2. Nth(D, rank[k] + 1) \in D /\ rank[Nth(D, rank[k] + 1)] = rank[k]
    BY <2>1, <1>7
  <2>3. Nth(D, rank[k] + 1) = k
    <3> HIDE DEF rank
    <3> QED BY <2>2, <1>4 DEF Injection, IsInjective
  <2> QED BY <2>1, <2>3
<1>9. ASSUME NEW i \in 1..n, NEW j \in 1..n, Nth(D, i) = Nth(D, j) PROVE i = j
  <2>1. i - 1 = j - 1
    BY <1>7, <1>9
  <2> QED BY <1>1, <2>1
<1> HIDE DEF rank
<1> QED BY <1>1, <1>7, <1>8, <1>9
\* A sequence of events that is emitted at once is taken one by one.
LEMMA EmitsEach ==
    ASSUME NEW c, NEW o, IsSeq(o), NEW out, IsSeq(out), NEW n \in Nat, NEW evs, DOMAIN evs = 1..n,
           NEW i \in 1..n
    PROVE  LET Pre(m) == [k \in 1..m |-> evs[k]]
           IN  /\ IsSeq(out \o Pre(i - 1)) /\ IsSeq(out \o Pre(i))
               /\ Reached(c, o \o (out \o Pre(i))) = Take(Reached(c, o \o (out \o Pre(i - 1))), evs[i])
<1> DEFINE Pre(m) == [k \in 1..m |-> evs[k]]
<1> DEFINE S == {evs[k] : k \in 1..n}
<1>1. Pre(i - 1) \in Seq(S) /\ evs[i] \in S
  <2>1. i - 1 \in Nat /\ Pre(i - 1) \in [1..(i - 1) -> S]
    OBVIOUS
  <2> HIDE DEF Pre
  <2> QED BY <2>1
<1>2. Pre(i) = Append(Pre(i - 1), evs[i])
  <2>1. Len(Pre(i - 1)) = i - 1
    OBVIOUS
  <2> QED BY <1>1, <2>1
<1> HIDE DEF Pre
<1> DEFINE a == Pre(i - 1)
<1> DEFINE x == out \o a
<1>3. IsSeq(a)
  <2> HIDE DEF a
  <2>1. a \in Seq(S)
    BY <1>1 DEF a
  <2> QED BY <2>1, AnySeq
<1> HIDE DEF a
<1>4. IsSeq(x)
  BY <1>3, JoinIsSeq
<1>5. out \o Append(a, evs[i]) = Append(x, evs[i])
  BY <1>3, JoinOfAppend
<1> HIDE DEF x
<1>6. IsSeq(Append(x, evs[i]))
  BY <1>4, AppendIsSeq
<1>7. Reached(c, o \o Append(x, evs[i])) = Take(Reached(c, o \o x), evs[i])
  BY <1>4, ReachedNext
<1>8. out \o Pre(i) = Append(x, evs[i]) /\ out \o Pre(i - 1) = x
  BY <1>2, <1>5 DEF a, x
<1> QED BY <1>4, <1>6, <1>7, <1>8 DEF Pre

\* All calls are closed at the end, each once: the client follows.
LEMMA CallsClose ==
    ASSUME inbound # "openai", NEW c, NEW o, IsSeq(o), NEW s, BlocksKnown(s, Reached(c, o \o s.out)),
           s.text = NoBlock, s.thinking = NoBlock
    PROVE  LET t == CloseCalls(s)
               d == Reached(c, o \o t.out)
           IN  /\ DOMAIN t = AnthropicFields /\ IsSeq(t.out)
               /\ Listening(d) /\ d.open = {}
<1> DEFINE D == DOMAIN s.calls
<1> DEFINE n == Cardinality(D)
<1> DEFINE block == [i \in 1..n |-> s.calls[Nth(D, i)]]
<1> DEFINE evs == [i \in 1..n |-> E("stop", block[i], 0)]
<1>0. evs = [i \in 1..n |-> evs[i]]
  OBVIOUS
<1> DEFINE Pre(m) == [k \in 1..m |-> evs[k]]
<1> DEFINE d(m) == Reached(c, o \o (s.out \o Pre(m)))
<1>1. /\ n \in Nat /\ IsSeq(s.out) /\ DOMAIN s = AnthropicFields
      /\ Listening(Reached(c, o \o s.out))
  BY NthIsUnique DEF BlocksKnown
<1>2. /\ \A i, j \in 1..n : block[i] = block[j] => i = j
      /\ Reached(c, o \o s.out).open = {block[i] : i \in 1..n}
  <2>1. /\ \A i \in 1..n : Nth(D, i) \in D
        /\ \A i, j \in 1..n : Nth(D, i) = Nth(D, j) => i = j
        /\ \A k \in D : \E i \in 1..n : Nth(D, i) = k
    BY NthIsUnique DEF BlocksKnown
  <2>2. \A i, j \in 1..n : block[i] = block[j] => i = j
    BY <2>1 DEF BlocksKnown
  <2>3. Reached(c, o \o s.out).open = {s.calls[k] : k \in D}
    BY DEF BlocksKnown, OpenBlocks
  <2> HIDE DEF D
  <2>4. {s.calls[k] : k \in D} = {block[i] : i \in 1..n}
    BY <2>1
  <2> QED BY <2>2, <2>3, <2>4
<1>3. CloseCalls(s) = Emit(s, evs)
  BY DEF CloseCalls, ByIndex
<1> HIDE DEF block
<1>4. DOMAIN evs = 1..n /\ \A i \in 1..n : evs[i] = E("stop", block[i], 0)
  OBVIOUS
<1> HIDE DEF evs, n, D
<1> DEFINE h == [m \in 0..n |-> Listening(d(m)) /\ d(m).open = {block[i] : i \in (m + 1)..n}]
<1>5. h[0]
  <2>1. Pre(0) = <<>>
    OBVIOUS
  <2>2. s.out \o Pre(0) = s.out
    <3> HIDE DEF Pre
    <3> QED BY <1>1, <2>1, JoinOfNone
  <2>3. d(0) = Reached(c, o \o s.out)
    BY <2>2
  <2> HIDE DEF d
  <2>4. Listening(d(0)) /\ d(0).open = {block[i] : i \in (0 + 1)..n} /\ 0 \in 0..n
    BY <1>1, <1>2, <2>3
  <2> QED BY <2>4
<1>6. ASSUME NEW m \in 1..n, h[m - 1] PROVE h[m]
  <2>1. m - 1 \in 0..n /\ m \in 0..n /\ (m - 1) + 1 = m
    BY <1>1
  <2>2. d(m) = Take(d(m - 1), E("stop", block[m], 0))
    BY <1>1, <1>4, EmitsEach
  <2> HIDE DEF d
  <2>3. Listening(d(m - 1)) /\ d(m - 1).open = {block[i] : i \in m..n}
    BY <2>1, <1>6
  <2>4. m \in m..n
    BY <1>1
  <2>5. Listening(d(m)) /\ d(m).open = d(m - 1).open \ {block[m]}
    BY <2>2, <2>3, <2>4, TakesOther
  <2>6. {block[i] : i \in m..n} \ {block[m]} = {block[i] : i \in (m + 1)..n}
    BY <1>1, <1>2
  <2>7. Listening(d(m)) /\ d(m).open = {block[i] : i \in (m + 1)..n}
    BY <2>3, <2>5, <2>6
  <2> HIDE DEF h
  <2>8. h[m] <=> Listening(d(m)) /\ d(m).open = {block[i] : i \in (m + 1)..n}
    BY <2>1 DEF h
  <2> QED BY <2>7, <2>8
<1>7. h[n]
  <2> HIDE DEF h
  <2> QED BY <1>1, <1>5, <1>6, UpTo
<1>8. Listening(d(n)) /\ d(n).open = {}
  <2>1. n \in 0..n /\ {block[i] : i \in (n + 1)..n} = {}
    BY <1>1
  <2> HIDE DEF d
  <2> QED BY <2>1, <1>7
<1>9. Pre(n) = evs
  BY <1>0
<1>10. IsSeq(s.out \o evs)
  <2>1. evs \in Seq(Elements(evs))
    <3>1. evs \in [1..n -> Elements(evs)]
      BY <1>0 DEF Elements
    <3> QED BY <1>1, <3>1
  <2>2. IsSeq(evs)
    BY <2>1 DEF IsSeq
  <2> QED BY <1>1, <2>2, JoinIsSeq
<1>11. Emit(s, evs).out = s.out \o evs /\ DOMAIN Emit(s, evs) = AnthropicFields
  BY <1>1 DEF Emit, AnthropicFields
<1> HIDE DEF Pre
<1> QED BY <1>3, <1>8, <1>9, <1>10, <1>11
\* A chunk of the hub, as far as the writers care.
IsChunk(e) ==
    e.type = "call" => e.index \in Int /\ (e.data.args = <<>> \/ \E p : e.data.args = <<p>>)

\* A client of the Anthropic dialect, served by a writer.
Served(s, d) ==
    /\ DOMAIN s = AnthropicFields /\ IsSeq(s.out) /\ d.astray = FALSE
    /\ s.over # TRUE => BlocksKnown(s, d)
    /\ s.over = TRUE => d.end # "none"

\* A client whose blocks the writer knows is served.
LEMMA KnownIsServed ==
    ASSUME NEW s, NEW d, BlocksKnown(s, d), s.over # TRUE
    PROVE  Served(s, d)
<1>1. DOMAIN s = AnthropicFields /\ IsSeq(s.out) /\ d.astray = FALSE
  BY DEF BlocksKnown, Listening
<1> QED BY <1>1 DEF Served

\* A delta of a block that is open finds it.
LEMMA EmitsDelta ==
    ASSUME inbound # "openai", NEW c, NEW o, IsSeq(o), NEW s, BlocksKnown(s, Reached(c, o \o s.out)),
           s.over # TRUE, NEW type \in DeltaTypes, NEW i \in OpenBlocks(s), NEW x,
           Placed(Reached(c, o \o s.out), i, TypeOfDelta[type])
    PROVE  LET t == Emit(s, <<E(type, i, x)>>) IN Served(t, Reached(c, o \o t.out))
<1> DEFINE d == Reached(c, o \o s.out)
<1> DEFINE f == E(type, i, x)
<1> DEFINE t == Emit(s, <<f>>)
<1> DEFINE d1 == Take(d, f)
<1>1. DOMAIN s = AnthropicFields /\ IsSeq(s.out) /\ Listening(d) /\ i \in d.open
  BY DEF BlocksKnown
<1> HIDE DEF f
<1>2. /\ DOMAIN t = AnthropicFields /\ IsSeq(t.out) /\ \A k \in AnthropicFields \ {"out"} : t[k] = s[k]
  BY <1>1, Emits DEF AnthropicFields
<1>3. Reached(c, o \o t.out) = d1
  BY <1>1, Reaches DEF AnthropicFields
<1> HIDE DEF t
<1>4. /\ t.text = s.text /\ t.thinking = s.thinking /\ t.calls = s.calls
      /\ t.next = s.next /\ t.over = s.over
  BY <1>2 DEF AnthropicFields
<1> HIDE DEF d
<1>5. Listening(d1) /\ d1.open = d.open /\ SameBlocks(d, d1)
  <2>1. Placed(d, i, TypeOfDelta[type])
    BY DEF d
  <2> QED BY <1>1, <2>1, TakesDelta DEF f
<1> HIDE DEF d1
<1>6. OpenBlocks(t) = OpenBlocks(s)
  BY <1>4 DEF OpenBlocks
<1>7. BlocksKnown(t, d1)
  BY <1>2, <1>4, <1>5, <1>6 DEF BlocksKnown, SameBlocks, Placed, d
<1>8. Served(t, d1)
  BY <1>4, <1>7, KnownIsServed
<1> QED BY <1>3, <1>8 DEF t, f

\* What each kind of chunk makes of a client whose blocks the writer knows
\* (openai_stream_to_anthropic).
LEMMA WritesReasoning ==
    ASSUME inbound # "openai", NEW c, NEW o, IsSeq(o), NEW s, BlocksKnown(s, Reached(c, o \o s.out)),
           s.over # TRUE, NEW e, e.type = "reasoning"
    PROVE  LET t == WriteAnthropic(s, e) IN Served(t, Reached(c, o \o t.out))
<1> DEFINE q == OpenThinking(s)
<1> DEFINE d == Reached(c, o \o q.out)
<1>1. BlocksKnown(q, d) /\ q.over # TRUE
  BY ThinkingOpens
<1> DEFINE f == E("thinking", q.thinking, e.data)
<1>2. WriteAnthropic(s, e) = IF q.thinking = NoBlock THEN q ELSE Emit(q, <<f>>)
  BY DEF WriteAnthropic
<1> HIDE DEF q
<1>3. CASE q.thinking = NoBlock
  BY <1>1, <1>2, <1>3, KnownIsServed
<1>4. CASE q.thinking # NoBlock
  <2> DEFINE t == Emit(q, <<f>>)
  <2>1. q.thinking \in OpenBlocks(q) /\ Placed(d, q.thinking, "thinking")
    BY <1>1, <1>4 DEF BlocksKnown, OpenBlocks
  <2>2. "thinking" \in DeltaTypes /\ TypeOfDelta["thinking"] = "thinking"
    BY DEF DeltaTypes, TypeOfDelta
  <2>3. Served(t, Reached(c, o \o t.out))
    BY <1>1, <2>1, <2>2, EmitsDelta
  <2> QED BY <1>2, <1>4, <2>3
<1> QED BY <1>3, <1>4

LEMMA WritesContent ==
    ASSUME inbound # "openai", NEW c, NEW o, IsSeq(o), NEW s, BlocksKnown(s, Reached(c, o \o s.out)),
           s.over # TRUE, NEW e, e.type = "content"
    PROVE  LET t == WriteAnthropic(s, e) IN Served(t, Reached(c, o \o t.out))
<1> DEFINE p == CloseThinking(s)
<1> DEFINE q == OpenText(p)
<1> DEFINE f == E("text", q.text, e.data)
<1> DEFINE t == Emit(q, <<f>>)
<1> DEFINE d == Reached(c, o \o q.out)
<1>1. BlocksKnown(p, Reached(c, o \o p.out)) /\ p.over # TRUE
  BY ThinkingCloses
<1>2. WriteAnthropic(s, e) = t
  BY DEF WriteAnthropic
<1> HIDE DEF p
<1>3. BlocksKnown(q, d) /\ q.text # NoBlock /\ q.over # TRUE
  BY <1>1, TextOpens
<1> HIDE DEF q
<1>4. q.text \in OpenBlocks(q) /\ Placed(d, q.text, "text")
  BY <1>3 DEF BlocksKnown, OpenBlocks
<1>5. "text" \in DeltaTypes /\ TypeOfDelta["text"] = "text"
  BY DEF DeltaTypes, TypeOfDelta
<1>6. Served(t, Reached(c, o \o t.out))
  BY <1>3, <1>4, <1>5, EmitsDelta
<1> QED BY <1>2, <1>6

LEMMA WritesCall ==
    ASSUME inbound # "openai", NEW c, NEW o, IsSeq(o), NEW s, BlocksKnown(s, Reached(c, o \o s.out)),
           s.over # TRUE, NEW e, e.type = "call", IsChunk(e)
    PROVE  LET t == WriteAnthropic(s, e) IN Served(t, Reached(c, o \o t.out))
<1> DEFINE q == OpenCall(s, e)
<1> DEFINE d == Reached(c, o \o q.out)
<1> DEFINE i == q.calls[e.index]
<1>1. BlocksKnown(q, d) /\ e.index \in DOMAIN q.calls /\ q.over # TRUE
  <2>1. e.index \in Int
    BY DEF IsChunk
  <2> QED BY <2>1, CallOpens
<1>2. WriteAnthropic(s, e) = Emit(q, Each("json", i, e.data.args))
  BY DEF WriteAnthropic
<1> HIDE DEF q
<1>3. CASE e.data.args = <<>>
  <2>1. Each("json", i, <<>>) = <<>>
    BY DEF Each
  <2> DEFINE t == Emit(q, <<>>)
  <2>2. DOMAIN q = AnthropicFields /\ IsSeq(q.out)
    BY <1>1 DEF BlocksKnown
  <2>3. DOMAIN t = AnthropicFields /\ t.out = q.out \o <<>> /\ \A k \in AnthropicFields \ {"out"} : t[k] = q[k]
    BY <2>2 DEF Emit, AnthropicFields
  <2> HIDE DEF t
  <2>4. t.out = q.out
    BY <2>2, <2>3, JoinOfNone
  <2>5. /\ t.text = q.text /\ t.thinking = q.thinking /\ t.calls = q.calls
        /\ t.next = q.next /\ t.over = q.over
    BY <2>3 DEF AnthropicFields
  <2>6. Served(t, d)
    <3> HIDE DEF d
    <3>1. OpenBlocks(t) = OpenBlocks(q)
      BY <2>5 DEF OpenBlocks
    <3>2. BlocksKnown(t, d)
      BY <1>1, <2>3, <2>4, <2>5, <3>1 DEF BlocksKnown
    <3> QED BY <1>1, <2>5, <3>2, KnownIsServed
  <2> QED BY <1>2, <1>3, <2>1, <2>4, <2>6 DEF t
<1>4. ASSUME NEW p, e.data.args = <<p>>
      PROVE  LET t == WriteAnthropic(s, e) IN Served(t, Reached(c, o \o t.out))
  <2> DEFINE f == E("json", i, p)
  <2> DEFINE t == Emit(q, <<f>>)
  <2>1. Each("json", i, <<p>>) = <<f>>
    BY DEF Each
  <2>2. i \in OpenBlocks(q) /\ Placed(d, i, "call")
    BY <1>1 DEF BlocksKnown, OpenBlocks
  <2>3. "json" \in DeltaTypes /\ TypeOfDelta["json"] = "call"
    BY DEF DeltaTypes, TypeOfDelta
  <2>4. Served(t, Reached(c, o \o t.out))
    BY <1>1, <2>2, <2>3, EmitsDelta
  <2> QED BY <1>2, <1>4, <2>1, <2>4
<1> QED BY <1>3, <1>4 DEF IsChunk

LEMMA WritesEnd ==
    ASSUME inbound # "openai", NEW c, NEW o, IsSeq(o), NEW s, BlocksKnown(s, Reached(c, o \o s.out)),
           s.over # TRUE, NEW e, e.type = "done" \/ e.type = "eof"
    PROVE  LET t == WriteAnthropic(s, e) IN Served(t, Reached(c, o \o t.out))
<1> DEFINE p == CloseThinking(s)
<1> DEFINE q == CloseText(p)
<1> DEFINE r == CloseCalls(q)
<1> DEFINE d == Reached(c, o \o r.out)
<1> DEFINE f == E("message_delta", 0, [stop |-> r.stop, usage |-> r.usage])
<1> DEFINE g == E("message_stop", 0, 0)
<1> DEFINE u == [r EXCEPT !.over = TRUE]
<1> DEFINE v == Emit(u, <<f>>)
<1> DEFINE w == Emit(v, <<g>>)
<1>1. WriteAnthropic(s, e) = Emit(u, <<f, g>>)
  BY DEF WriteAnthropic, Over
<1>2. BlocksKnown(p, Reached(c, o \o p.out)) /\ p.thinking = NoBlock
  BY ThinkingCloses
<1> HIDE DEF p
<1>3. BlocksKnown(q, Reached(c, o \o q.out)) /\ q.text = NoBlock /\ q.thinking = NoBlock
  BY <1>2, TextCloses
<1> HIDE DEF q
<1>4. DOMAIN r = AnthropicFields /\ IsSeq(r.out) /\ Listening(d) /\ d.open = {}
  BY <1>3, CallsClose
<1> HIDE DEF r, f, g
<1>5. DOMAIN u = AnthropicFields /\ IsSeq(u.out) /\ u.out = r.out /\ u.over = TRUE
  BY <1>4 DEF AnthropicFields
<1> HIDE DEF u
<1>6. Emit(u, <<f, g>>) = w
  BY <1>5, EmitsTwo DEF AnthropicFields
<1>7. /\ DOMAIN v = AnthropicFields /\ IsSeq(v.out) /\ \A k \in AnthropicFields \ {"out"} : v[k] = u[k]
  BY <1>5, Emits DEF AnthropicFields
<1>8. Reached(c, o \o v.out) = Take(d, f)
  <2>1. Reached(c, o \o v.out) = Take(Reached(c, o \o u.out), f)
    BY <1>5, Reaches DEF AnthropicFields
  <2> QED BY <1>5, <2>1
<1> HIDE DEF v, d
<1>9. /\ DOMAIN w = AnthropicFields /\ IsSeq(w.out) /\ \A k \in AnthropicFields \ {"out"} : w[k] = v[k]
  BY <1>7, Emits DEF AnthropicFields
<1>10. Reached(c, o \o w.out) = Take(Take(d, f), g)
  BY <1>7, <1>8, Reaches DEF AnthropicFields
<1> HIDE DEF w
<1>11. Listening(Take(d, f))
  BY <1>4, TakesOther DEF f
<1> DEFINE d1 == Take(d, f)
<1> HIDE DEF d1
<1>12. Take(d1, g).astray = FALSE /\ Take(d1, g).end = "complete"
  BY <1>11, TakesEnd DEF g, d1
<1>13. w.over = TRUE
  BY <1>5, <1>7, <1>9 DEF AnthropicFields
<1> QED BY <1>1, <1>6, <1>9, <1>10, <1>12, <1>13 DEF Served, d1

\* Any chunk at all.
LEMMA WritesOne ==
    ASSUME inbound # "openai", NEW c, NEW o, IsSeq(o), NEW s, Served(s, Reached(c, o \o s.out)),
           NEW e, IsChunk(e)
    PROVE  LET t == WriteAnthropic(s, e) IN Served(t, Reached(c, o \o t.out))
<1> DEFINE d == Reached(c, o \o s.out)
<1>1. CASE s.over = TRUE
  <2>1. WriteAnthropic(s, e) = s
    BY <1>1 DEF WriteAnthropic
  <2> QED BY <2>1
<1>2. CASE s.over # TRUE /\ e.type \in {"reasoning", "content", "call", "done", "eof"}
  <2>1. BlocksKnown(s, Reached(c, o \o s.out))
    BY <1>2 DEF Served
  <2>2. CASE e.type = "reasoning"
    BY <1>2, <2>1, <2>2, WritesReasoning
  <2>3. CASE e.type = "content"
    BY <1>2, <2>1, <2>3, WritesContent
  <2>4. CASE e.type = "call"
    BY <1>2, <2>1, <2>4, WritesCall
  <2>5. CASE e.type \in {"done", "eof"}
    <3>1. e.type = "done" \/ e.type = "eof"
      BY <2>5
    <3> QED BY <1>2, <2>1, <3>1, WritesEnd
  <2> QED BY <1>2, <2>2, <2>3, <2>4, <2>5
<1>3. CASE s.over # TRUE /\ e.type = "cut"
  <2> DEFINE r == [s EXCEPT !.over = TRUE]
  <2> DEFINE t == Emit(r, <<Cut>>)
  <2>1. WriteAnthropic(s, e) = t
    BY <1>3 DEF WriteAnthropic, Over
  <2>2. DOMAIN r = AnthropicFields /\ r.out = s.out /\ IsSeq(r.out) /\ r.over = TRUE
    BY DEF Served, AnthropicFields
  <2>3. Listening(d)
    BY <1>3 DEF Served, BlocksKnown
  <2> HIDE DEF r
  <2>4. DOMAIN t = AnthropicFields /\ IsSeq(t.out) /\ \A k \in AnthropicFields \ {"out"} : t[k] = r[k]
    BY <2>2, Emits DEF AnthropicFields
  <2>5. Reached(c, o \o t.out) = Take(d, Cut)
    <3>1. Reached(c, o \o t.out) = Take(Reached(c, o \o r.out), Cut)
      BY <2>2, Reaches DEF AnthropicFields
    <3> QED BY <2>2, <3>1
  <2> HIDE DEF t, d
  <2>6. Take(d, Cut).astray = FALSE /\ Take(d, Cut).end = "cut"
    BY <2>3, TakesEnd DEF Cut
  <2>7. t.over = TRUE
    BY <2>2, <2>4 DEF AnthropicFields
  <2> QED BY <2>1, <2>4, <2>5, <2>6, <2>7 DEF Served
<1>4. CASE s.over # TRUE /\ e.type \notin {"reasoning", "content", "call", "done", "eof", "cut"}
  <2> DEFINE t == WriteAnthropic(s, e)
  <2>1. DOMAIN s = AnthropicFields /\ BlocksKnown(s, d)
    BY <1>4 DEF Served
  <2>2. /\ DOMAIN t = AnthropicFields /\ t.text = s.text /\ t.thinking = s.thinking
        /\ t.calls = s.calls /\ t.next = s.next /\ t.over = s.over /\ t.out = s.out
    BY <1>4, <2>1 DEF WriteAnthropic, AnthropicFields
  <2> HIDE DEF t, d
  <2>3. OpenBlocks(t) = OpenBlocks(s)
    BY <2>2 DEF OpenBlocks
  <2>4. BlocksKnown(t, d)
    BY <2>1, <2>2, <2>3 DEF BlocksKnown
  <2>5. Served(t, d)
    BY <1>4, <2>2, <2>4, KnownIsServed
  <2> QED BY <2>2, <2>5 DEF t, d
<1> QED BY <1>1, <1>2, <1>3, <1>4

\* The client of an Anthropic stream is served through a whole list of chunks.
LEMMA WritesAnthropic ==
    ASSUME inbound = "anthropic", NEW c, NEW o, IsSeq(o), NEW s, Served(s, Reached(c, o)),
           NEW chunks, IsSeq(chunks), \A i \in DOMAIN chunks : IsChunk(chunks[i])
    PROVE  LET w == WriteAll("anthropic", s, chunks) IN Served(Quiet(w), Reached(c, o \o w.out))
<1> DEFINE n == Len(chunks)
<1> DEFINE q == Quiet(s)
<1>1. n \in Nat /\ DOMAIN chunks = 1..n
  BY Shape
<1> HIDE DEF n
<1>2. WriteAll("anthropic", s, chunks) = Folds("write", "anthropic", q, chunks)
  BY WritesAreFolds DEF WriteAll
<1>a. PICK g : AreSteps(g, "write", "anthropic", q, n, chunks)
  BY <1>1, FoldSteps
<1>3. /\ g[0] = q
      /\ \A i \in 1..n : g[i] = Stage("write", "anthropic", g[i - 1], chunks[i])
      /\ WriteAll("anthropic", s, chunks) = g[n]
  BY <1>a, <1>2 DEF AreSteps
<1>4. o \o <<>> = o
  BY JoinOfOne, LiteralSeqs
<1>5. Served(q, Reached(c, o \o q.out))
  <2>1. /\ DOMAIN q = AnthropicFields /\ q.out = <<>> /\ q.text = s.text /\ q.thinking = s.thinking
        /\ q.calls = s.calls /\ q.next = s.next /\ q.over = s.over
    BY DEF Quiet, Served, AnthropicFields
  <2> HIDE DEF q
  <2>2. o \o q.out = o /\ IsSeq(q.out)
    BY <2>1, <1>4, LiteralSeqs
  <2>3. OpenBlocks(q) = OpenBlocks(s)
    BY <2>1 DEF OpenBlocks
  <2>4. BlocksKnown(s, Reached(c, o)) => BlocksKnown(q, Reached(c, o))
    BY <2>1, <2>2, <2>3 DEF BlocksKnown
  <2> QED BY <2>1, <2>2, <2>4 DEF Served
<1> DEFINE h == [i \in 0..n |-> Served(g[i], Reached(c, o \o g[i].out))]
<1>6. h[0]
  <2>1. 0 \in 0..n
    BY <1>1
  <2> QED BY <1>3, <1>5, <2>1, Zenon
<1>7. ASSUME NEW i \in 1..n, h[i - 1] PROVE h[i]
  <2>1. i - 1 \in 0..n /\ i \in 0..n
    BY <1>1
  <2>2. Served(g[i - 1], Reached(c, o \o g[i - 1].out))
    BY <2>1, <1>7, Zenon
  <2>3. g[i] = WriteAnthropic(g[i - 1], chunks[i])
    BY <1>3 DEF Stage, WriteEvent
  <2>4. Served(g[i], Reached(c, o \o g[i].out))
    BY <1>1, <2>2, <2>3, WritesOne
  <2> QED BY <2>1, <2>4, Zenon
<1>8. Served(g[n], Reached(c, o \o g[n].out))
  <2>1. h[n]
    <3> HIDE DEF h
    <3> QED BY <1>1, <1>6, <1>7, UpTo
  <2>2. n \in 0..n
    BY <1>1
  <2> QED BY <2>1, <2>2, Zenon
<1> DEFINE w == g[n]
<1> DEFINE d == Reached(c, o \o w.out)
<1>9. Served(Quiet(w), d)
  <2>1. DOMAIN w = AnthropicFields
    BY <1>8 DEF Served
  <2> DEFINE v == Quiet(w)
  <2>2. /\ DOMAIN v = AnthropicFields /\ v.out = <<>> /\ v.text = w.text /\ v.thinking = w.thinking
        /\ v.calls = w.calls /\ v.next = w.next /\ v.over = w.over
    BY <2>1 DEF Quiet, AnthropicFields
  <2>3. Served(w, d)
    BY <1>8
  <2> HIDE DEF v, w, d
  <2>4. OpenBlocks(v) = OpenBlocks(w) /\ IsSeq(v.out)
    BY <2>2, LiteralSeqs DEF OpenBlocks
  <2>5. w.over # TRUE => BlocksKnown(v, d)
    BY <2>2, <2>3, <2>4 DEF Served, BlocksKnown
  <2>6. d.astray = FALSE /\ (w.over = TRUE => d.end # "none")
    BY <2>3 DEF Served
  <2>7. Served(v, d)
    BY <2>2, <2>4, <2>5, <2>6 DEF Served
  <2> QED BY <2>7 DEF v
<1> QED BY <1>3, <1>9

-----------------------------------------------------------------------------
ReaderFields == {"envelope", "started", "calls", "over", "out"}

IsReader(r) ==
    /\ DOMAIN r = ReaderFields /\ IsSeq(r.out)
    /\ IsFiniteSet(DOMAIN r.calls) /\ \A k \in DOMAIN r.calls : r.calls[k] \in Int
    /\ \A i \in DOMAIN r.out : IsChunk(r.out[i])

\* A reader emits chunks (anthropic_stream_to_openai, responses_stream_to_openai).
LEMMA EmitsChunks ==
    ASSUME NEW r, IsReader(r), NEW evs, IsSeq(evs), \A i \in DOMAIN evs : IsChunk(evs[i])
    PROVE  LET t == Emit(r, evs)
           IN  /\ IsReader(t) /\ t.out = r.out \o evs
               /\ t.envelope = r.envelope /\ t.started = r.started
               /\ t.calls = r.calls /\ t.over = r.over
<1> DEFINE t == Emit(r, evs)
<1>1. /\ DOMAIN t = ReaderFields /\ t.out = r.out \o evs
      /\ t.envelope = r.envelope /\ t.started = r.started /\ t.calls = r.calls /\ t.over = r.over
  BY DEF Emit, IsReader, ReaderFields
<1> HIDE DEF t
<1>2. IsSeq(r.out \o evs) /\ \A i \in DOMAIN (r.out \o evs) : IsChunk((r.out \o evs)[i])
  <2> DEFINE S == {x \in Elements(r.out) \cup Elements(evs) : IsChunk(x)}
  <2>1. \A i \in DOMAIN r.out : r.out[i] \in S
    BY DEF IsReader, Elements
  <2>2. \A i \in DOMAIN evs : evs[i] \in S
    BY DEF Elements
  <2>3. \A x \in S : IsChunk(x)
    OBVIOUS
  <2> HIDE DEF S
  <2> DEFINE a == r.out \o evs
  <2>4. r.out \in Seq(S) /\ evs \in Seq(S)
    BY <2>1, <2>2, Wider DEF IsReader
  <2>5. a \in Seq(S)
    BY <2>4
  <2>6. IsSeq(a)
    <3> HIDE DEF a
    <3> QED BY <2>5, AnySeq
  <2>7. \A i \in DOMAIN a : a[i] \in S
    <3> HIDE DEF a
    <3> QED BY <2>5
  <2> QED BY <2>3, <2>6, <2>7
<1> QED BY <1>1, <1>2 DEF IsReader, t

LEMMA EmitsChunk ==
    ASSUME NEW r, IsReader(r), NEW e, IsChunk(e)
    PROVE  IsReader(Emit(r, <<e>>))
<1> DEFINE evs == <<e>>
<1>1. IsSeq(evs) /\ \A i \in DOMAIN evs : IsChunk(evs[i])
  <2>1. IsSeq(evs)
    BY LiteralSeqs
  <2> QED BY <2>1
<1> HIDE DEF evs
<1>2. IsReader(Emit(r, evs))
  BY <1>1, EmitsChunks
<1> QED BY <1>2 DEF evs

LEMMA EmitsTwoChunks ==
    ASSUME NEW r, IsReader(r), NEW d, NEW e, IsChunk(d), IsChunk(e)
    PROVE  IsReader(Emit(r, <<d, e>>))
<1> DEFINE evs == <<d, e>>
<1>1. IsSeq(evs) /\ \A i \in DOMAIN evs : IsChunk(evs[i])
  <2>1. IsSeq(evs)
    BY LiteralSeqs
  <2> QED BY <2>1
<1> HIDE DEF evs
<1>2. IsReader(Emit(r, evs))
  BY <1>1, EmitsChunks
<1> QED BY <1>2 DEF evs

\* The chunks that carry no call.
LEMMA SomeChunks ==
    ASSUME NEW i, NEW x, NEW n \in Int, NEW id, NEW p
    PROVE  /\ IsChunk(E("role", i, x)) /\ IsChunk(E("content", i, x)) /\ IsChunk(E("reasoning", i, x))
           /\ IsChunk(E("last", i, x)) /\ IsChunk(Cut) /\ IsChunk(Done)
           /\ IsChunk(CallChunk(n, id, <<>>)) /\ IsChunk(CallChunk(n, id, <<p>>))
BY DEF IsChunk, E, Cut, Done, CallChunk

\* The fields a reader changes without writing anything.
LEMMA ReaderMoves ==
    ASSUME NEW r, IsReader(r), NEW x
    PROVE  /\ IsReader([r EXCEPT !.started = x]) /\ IsReader([r EXCEPT !.over = x])
           /\ IsReader([r EXCEPT !.envelope = x])
BY DEF IsReader, ReaderFields

\* A call is opened with the number of calls so far.
LEMMA OpensCallChunk ==
    ASSUME NEW r, IsReader(r), NEW e
    PROVE  IsReader(OpensCall(r, e))
<1> DEFINE n == Cardinality(DOMAIN r.calls)
<1> DEFINE t == [r EXCEPT !.calls = With(@, e.index, n)]
<1>1. n \in Int
  BY FS_CardinalityType DEF IsReader
<1> HIDE DEF n
<1>2. DOMAIN With(r.calls, e.index, n) = DOMAIN r.calls \cup {e.index}
  BY DEF With
<1>3. IsFiniteSet(DOMAIN r.calls \cup {e.index})
  BY FS_AddElement DEF IsReader
<1>4. \A k \in DOMAIN r.calls \cup {e.index} : With(r.calls, e.index, n)[k] \in Int
  BY <1>1 DEF With, IsReader
<1>5. /\ DOMAIN t = ReaderFields /\ t.out = r.out /\ t.calls = With(r.calls, e.index, n)
  BY DEF IsReader, ReaderFields
<1> HIDE DEF t
<1>6. IsReader(t)
  BY <1>2, <1>3, <1>4, <1>5 DEF IsReader
<1>7. IsChunk(CallChunk(n, e.data, <<>>))
  BY <1>1, SomeChunks
<1>8. IsReader(Emit(t, <<CallChunk(n, e.data, <<>>)>>))
  BY <1>6, <1>7, EmitsChunk
<1> QED BY <1>8 DEF OpensCall, t, n

\* The first chunk of a Responses stream is the role, sent once.
LEMMA BeginsReader ==
    ASSUME NEW r, IsReader(r) PROVE IsReader(Begin(r))
<1> DEFINE t == [r EXCEPT !.started = TRUE]
<1>1. IsReader(t)
  BY ReaderMoves
<1>2. IsChunk(E("role", 0, 0))
  BY DEF IsChunk, E
<1> HIDE DEF t
<1>3. IsReader(Emit(t, <<E("role", 0, 0)>>))
  BY <1>1, <1>2, EmitsChunk
<1> QED BY <1>3 DEF Begin, t

\* A reader makes chunks of any event of an Anthropic stream.
LEMMA ReadsAnthropic ==
    ASSUME NEW r, IsReader(r), NEW e
    PROVE  IsReader(ReadAnthropic(r, e))
<1> DEFINE t == ReadAnthropic(r, e)
<1>1. CASE r.over
  <2>1. t = r
    BY <1>1 DEF ReadAnthropic
  <2> QED BY <2>1
<1>2. CASE ~r.over /\ e.type = "message_start"
  <2> DEFINE u == [r EXCEPT !.started = TRUE]
  <2>1. t = Emit(u, <<E("role", 0, 0)>>)
    BY <1>2 DEF ReadAnthropic
  <2>2. IsReader(u)
    BY ReaderMoves
  <2>3. IsChunk(E("role", 0, 0))
    BY DEF IsChunk, E
  <2> HIDE DEF t, u
  <2> QED BY <2>1, <2>2, <2>3, EmitsChunk DEF t
<1>3. CASE ~r.over /\ e.type = "start_call"
  <2>1. t = OpensCall(r, e)
    BY <1>3 DEF ReadAnthropic
  <2> QED BY <2>1, OpensCallChunk
<1>4. CASE ~r.over /\ e.type \in {"text", "thinking", "json", "message_delta"}
  <2>1. PICK x : t = Emit(r, <<x>>) /\ IsChunk(x)
    <3>1. CASE e.type = "text"
      <4>1. t = Emit(r, <<E("content", 0, e.data)>>)
        BY <1>4, <3>1 DEF ReadAnthropic
      <4>2. IsChunk(E("content", 0, e.data))
        BY DEF IsChunk, E
      <4> QED BY <4>1, <4>2
    <3>2. CASE e.type = "thinking"
      <4>1. t = Emit(r, <<E("reasoning", 0, e.data)>>)
        BY <1>4, <3>2 DEF ReadAnthropic
      <4>2. IsChunk(E("reasoning", 0, e.data))
        BY DEF IsChunk, E
      <4> QED BY <4>1, <4>2
    <3>3. CASE e.type = "json"
      <4>1. t = Emit(r, <<CallChunk(CallOf(r, e), NoId, <<e.data>>)>>)
        BY <1>4, <3>3 DEF ReadAnthropic
      <4>2. IsChunk(CallChunk(CallOf(r, e), NoId, <<e.data>>))
        <5>1. CallOf(r, e) \in Int
          BY DEF CallOf, IsReader
        <5> QED BY <5>1, SomeChunks
      <4> QED BY <4>1, <4>2
    <3>4. CASE e.type = "message_delta"
      <4>1. t = Emit(r, <<Finishes(FinishOf(e.data.stop), e.data.usage)>>)
        BY <1>4, <3>4 DEF ReadAnthropic
      <4>2. IsChunk(Finishes(FinishOf(e.data.stop), e.data.usage))
        BY DEF IsChunk, E, Finishes
      <4> QED BY <4>1, <4>2
    <3> QED BY <1>4, <3>1, <3>2, <3>3, <3>4
  <2> HIDE DEF t
  <2> QED BY <2>1, EmitsChunk DEF t
<1>5. CASE ~r.over /\ e.type = "error"
  <2> DEFINE u == [r EXCEPT !.over = TRUE]
  <2>1. t = Emit(u, <<Cut>>)
    BY <1>5 DEF ReadAnthropic, Over
  <2>2. IsReader(u)
    BY ReaderMoves
  <2>3. IsChunk(Cut)
    BY DEF IsChunk, E, Cut
  <2> HIDE DEF t, u
  <2> QED BY <2>1, <2>2, <2>3, EmitsChunk DEF t
<1>6. CASE ~r.over /\ e.type \in {"message_stop", "eof"}
  <2> DEFINE u == [r EXCEPT !.over = TRUE]
  <2> DEFINE a == IF r.started THEN <<>> ELSE <<E("role", 0, 0), Finishes("stop", NoUsage)>>
  <2> DEFINE evs == a \o <<Done>>
  <2>1. t = Emit(u, evs)
    BY <1>6 DEF ReadAnthropic, Over
  <2>2. IsReader(u)
    BY ReaderMoves
  <2> DEFINE S == {x \in {E("role", 0, 0), Finishes("stop", NoUsage), Done} : IsChunk(x)}
  <2>3. IsChunk(E("role", 0, 0)) /\ IsChunk(Finishes("stop", NoUsage)) /\ IsChunk(Done)
    BY DEF IsChunk, E, Finishes, Done
  <2>4. a \in Seq(S) /\ <<Done>> \in Seq(S)
    <3> DEFINE x == E("role", 0, 0)
    <3> DEFINE y == Finishes("stop", NoUsage)
    <3>1. x \in S /\ y \in S /\ Done \in S
      BY <2>3
    <3> HIDE DEF S, x, y
    <3>2. <<>> \in Seq(S) /\ <<x, y>> \in Seq(S) /\ <<Done>> \in Seq(S)
      BY <3>1
    <3> QED BY <3>2 DEF x, y
  <2>5. \A x \in S : IsChunk(x)
    OBVIOUS
  <2> HIDE DEF a, S, t, u
  <2>6. evs \in Seq(S)
    BY <2>4
  <2> HIDE DEF evs
  <2>7. IsSeq(evs) /\ \A i \in DOMAIN evs : IsChunk(evs[i])
    <3>1. IsSeq(evs)
      BY <2>6, AnySeq
    <3> QED BY <2>5, <2>6, <3>1
  <2>8. IsReader(Emit(u, evs))
    BY <2>2, <2>7, EmitsChunks
  <2> QED BY <2>1, <2>8 DEF t
<1>7. CASE /\ ~r.over
           /\ e.type \notin {"message_start", "start_call", "text", "thinking", "json", "message_delta",
                             "error", "message_stop", "eof"}
  <2>1. t = r
    BY <1>7 DEF ReadAnthropic
  <2> QED BY <2>1
<1> QED BY <1>1, <1>2, <1>3, <1>4, <1>5, <1>6, <1>7

\* What a Responses stream ends with are chunks.
LEMMA EndsReader ==
    ASSUME NEW r, IsReader(r), NEW why, NEW usage
    PROVE  IsReader(EndChunks(r, why, usage))
<1> DEFINE u == Begin(r)
<1> DEFINE v == [u EXCEPT !.over = TRUE]
<1> DEFINE x == Finishes(IF r.calls # <<>> /\ why = "stop" THEN "tool_calls" ELSE why, usage)
<1>1. EndChunks(r, why, usage) = Emit(v, <<x, Done>>)
  BY DEF EndChunks, Over
<1>2. IsReader(u)
  BY BeginsReader
<1> HIDE DEF u
<1>3. IsReader(v)
  BY <1>2, ReaderMoves
<1>4. IsChunk(x) /\ IsChunk(Done)
  BY DEF IsChunk, E, Finishes, Done
<1> HIDE DEF v, x
<1>5. IsReader(Emit(v, <<x, Done>>))
  BY <1>3, <1>4, EmitsTwoChunks
<1> QED BY <1>1, <1>5

\* A reader makes chunks of any event of a Responses stream.
LEMMA ReadsResponse ==
    ASSUME NEW r, IsReader(r), NEW e
    PROVE  IsReader(ReadResponseEvent(r, e))
<1> DEFINE t == ReadResponseEvent(r, e)
<1> DEFINE b == Begin(r)
<1>0. IsReader(b)
  BY BeginsReader
<1>1. CASE r.over
  <2>1. t = r
    BY <1>1 DEF ReadResponseEvent
  <2> QED BY <2>1
<1>2. CASE ~r.over /\ e.type = "created"
  <2>1. t = b
    BY <1>2 DEF ReadResponseEvent
  <2> QED BY <1>0, <2>1
<1>3. CASE ~r.over /\ e.type = "added_call"
  <2>1. t = OpensCall(b, e)
    BY <1>3 DEF ReadResponseEvent
  <2> HIDE DEF t, b
  <2> QED BY <1>0, <2>1, OpensCallChunk DEF t
<1>4. CASE ~r.over /\ e.type \in {"text", "reasoning"}
  <2> DEFINE x == E(IF e.type = "text" THEN "content" ELSE "reasoning", 0, e.data)
  <2>1. t = Emit(b, <<x>>)
    BY <1>4 DEF ReadResponseEvent
  <2>2. IsChunk(x)
    BY DEF IsChunk, E
  <2> HIDE DEF t, b, x
  <2> QED BY <1>0, <2>1, <2>2, EmitsChunk DEF t
<1>5. CASE ~r.over /\ e.type = "args"
  <2> DEFINE x == CallChunk(CallOf(r, e), NoId, <<e.data>>)
  <2>1. t = Emit(r, <<x>>)
    BY <1>5 DEF ReadResponseEvent
  <2>2. IsChunk(x)
    <3>1. CallOf(r, e) \in Int
      BY DEF CallOf, IsReader
    <3> QED BY <3>1, SomeChunks
  <2> HIDE DEF t, x
  <2> QED BY <2>1, <2>2, EmitsChunk DEF t
<1>6. CASE ~r.over /\ e.type \in {"completed", "incomplete", "failed"}
  <2>1. CASE StoppedShort(e)
    <3> DEFINE u == [r EXCEPT !.over = TRUE]
    <3>1. t = Emit(u, <<Cut>>)
      BY <1>6, <2>1 DEF ReadResponseEvent, Over
    <3>2. IsReader(u)
      BY ReaderMoves
    <3>3. IsChunk(Cut)
      BY DEF IsChunk, E, Cut
    <3> HIDE DEF t, u
    <3> QED BY <3>1, <3>2, <3>3, EmitsChunk DEF t
  <2>2. CASE ~StoppedShort(e)
    <3>1. t = EndChunks(r, FinishOfResponse(e.data, r.calls # <<>>), e.data.usage)
      BY <1>6, <2>2 DEF ReadResponseEvent
    <3> QED BY <3>1, EndsReader
  <2> QED BY <2>1, <2>2
<1>7. CASE ~r.over /\ e.type = "eof"
  <2>1. t = EndChunks(r, "stop", NoUsage)
    BY <1>7 DEF ReadResponseEvent
  <2> QED BY <2>1, EndsReader
<1>8. CASE /\ ~r.over
           /\ e.type \notin {"created", "added_call", "text", "reasoning", "args", "completed",
                             "incomplete", "failed", "eof"}
  <2>1. t = r
    BY <1>8 DEF ReadResponseEvent
  <2> QED BY <2>1
<1> QED BY <1>1, <1>2, <1>3, <1>4, <1>5, <1>6, <1>7, <1>8

\* Any event of any upstream, and any sequence of them.
LEMMA ReadsOne ==
    ASSUME NEW dialect, NEW r, IsReader(r), NEW e,
           dialect \notin {"anthropic", "responses"} => IsChunk(e)
    PROVE  IsReader(ReadEvent(dialect, r, e))
<1>1. CASE dialect = "anthropic"
  BY <1>1, ReadsAnthropic DEF ReadEvent
<1>2. CASE dialect = "responses"
  <2> DEFINE envelope == IF r.envelope # "" THEN r.envelope
                         ELSE IF e.type \in AnthropicOpening THEN "anthropic" ELSE "responses"
  <2> DEFINE t == [r EXCEPT !.envelope = envelope]
  <2>1. ReadEvent(dialect, r, e)
          = IF envelope = "anthropic" THEN ReadAnthropic(t, e) ELSE ReadResponseEvent(t, e)
    BY <1>2 DEF ReadEvent, ReadResponses
  <2> HIDE DEF envelope
  <2>2. IsReader(t)
    BY ReaderMoves
  <2> HIDE DEF t
  <2> QED BY <2>1, <2>2, ReadsAnthropic, ReadsResponse
<1>3. CASE dialect \notin {"anthropic", "responses"}
  <2>1. ReadEvent(dialect, r, e) = Emit(r, <<e>>)
    BY <1>3 DEF ReadEvent, ReadOpenAI
  <2> QED BY <1>3, <2>1, EmitsChunk
<1> QED BY <1>1, <1>2, <1>3

LEMMA ReadsMany ==
    ASSUME NEW dialect, NEW r, IsReader(r), NEW evs, IsSeq(evs),
           dialect \notin {"anthropic", "responses"} => \A i \in DOMAIN evs : IsChunk(evs[i])
    PROVE  LET t == ReadAll(dialect, r, evs) IN IsReader(t) /\ IsReader(Quiet(t))
<1> DEFINE n == Len(evs)
<1> DEFINE q == Quiet(r)
<1>1. n \in Nat /\ DOMAIN evs = 1..n
  BY Shape
<1> HIDE DEF n
<1>2. ReadAll(dialect, r, evs) = Folds("read", dialect, q, evs)
  BY ReadsAreFolds DEF ReadAll
<1>3. ASSUME NEW x, IsReader(x) PROVE IsReader(Quiet(x))
  <2>1. DOMAIN Quiet(x) = ReaderFields /\ Quiet(x).out = <<>> /\ Quiet(x).calls = x.calls
    BY <1>3 DEF Quiet, IsReader, ReaderFields
  <2>2. IsSeq(<<>>) /\ DOMAIN <<>> = {}
    <3>1. IsSeq(<<>>)
      BY LiteralSeqs
    <3> QED BY <3>1
  <2> QED BY <1>3, <2>1, <2>2 DEF IsReader
<1>4. IsReader(q)
  BY <1>3
<1> HIDE DEF q
<1>a. PICK g : AreSteps(g, "read", dialect, q, n, evs)
  BY <1>1, FoldSteps
<1>5. /\ g[0] = q
      /\ \A i \in 1..n : g[i] = Stage("read", dialect, g[i - 1], evs[i])
      /\ ReadAll(dialect, r, evs) = g[n]
  BY <1>a, <1>2 DEF AreSteps
<1> DEFINE h == [i \in 0..n |-> IsReader(g[i])]
<1>6. h[0]
  <2>1. 0 \in 0..n
    BY <1>1
  <2> QED BY <1>4, <1>5, <2>1, Zenon
<1>7. ASSUME NEW i \in 1..n, h[i - 1] PROVE h[i]
  <2>1. i - 1 \in 0..n /\ i \in 0..n
    BY <1>1
  <2>2. IsReader(g[i - 1])
    BY <2>1, <1>7, Zenon
  <2>3. g[i] = ReadEvent(dialect, g[i - 1], evs[i])
    BY <1>5 DEF Stage
  <2>4. IsReader(g[i])
    BY <1>1, <2>2, <2>3, ReadsOne
  <2> QED BY <2>1, <2>4, Zenon
<1>8. IsReader(g[n])
  <2>1. h[n]
    <3> HIDE DEF h
    <3> QED BY <1>1, <1>6, <1>7, UpTo
  <2>2. n \in 0..n
    BY <1>1
  <2> QED BY <2>1, <2>2, Zenon
<1>9. IsReader(Quiet(g[n]))
  BY <1>3, <1>8
<1> QED BY <1>5, <1>8, <1>9

-----------------------------------------------------------------------------
\* A client that gets nothing, and one that gets one event.
LEMMA NoneReached ==
    ASSUME NEW c
    PROVE  Reached(c, <<>>) = c
BY FoldOfNone DEF Reached

LEMMA OneReached ==
    ASSUME NEW c, NEW e
    PROVE  Reached(c, <<e>>) = Take(c, e)
<1> DEFINE a == <<>>
<1>1. a \o Append(a, e) = <<e>> /\ a \o a = a
  OBVIOUS
<1>2. IsSeq(a) /\ Reached(c, a) = c
  BY LiteralSeqs, NoneReached
<1> HIDE DEF a
<1>3. Reached(c, a \o Append(a, e)) = Take(Reached(c, a \o a), e)
  BY <1>2, ReachedNext
<1> QED BY <1>1, <1>2, <1>3

\* Whatever an upstream transmits, an Anthropic client stays served.
LEMMA AnthropicServed ==
    ASSUME inbound = "anthropic", Served(writer, client), IsReader(reader),
           NEW evs, IsSeq(evs), upstream = "openai" => \A i \in DOMAIN evs : IsChunk(evs[i]),
           upstream \in Dialect, Transmit(evs)
    PROVE  IsReader(reader') /\ Served(writer', client')
<1> DEFINE r == ReadAll(upstream, reader, evs)
<1> DEFINE opening == IF client.end = "none" /\ inbound # "openai" THEN Writer(inbound).out ELSE <<>>
<1> DEFINE w == WriteAll("anthropic", writer, r.out)
<1>1. reader' = Quiet(r) /\ writer' = Quiet(w) /\ client' = FoldLeft(Take, client, opening \o w.out)
  BY DEF Transmit
<1>2. IsReader(r) /\ IsReader(Quiet(r))
  <2>1. upstream \notin {"anthropic", "responses"} => \A i \in DOMAIN evs : IsChunk(evs[i])
    BY DEF Dialect
  <2> QED BY <2>1, ReadsMany
<1> HIDE DEF r
<1>3. IsSeq(r.out) /\ \A i \in DOMAIN r.out : IsChunk(r.out[i])
  BY <1>2 DEF IsReader
<1>4. IsSeq(opening) /\ Served(writer, Reached(client, opening))
  <2>1. CASE client.end = "none"
    <3> DEFINE e == E("message_start", 0, 0)
    <3>1. opening = <<e>>
      BY <2>1 DEF Writer, AnthropicWriter
    <3>2. Reached(client, opening) = Take(client, e) /\ IsSeq(opening)
      BY <3>1, OneReached, LiteralSeqs
    <3>3. writer.over # TRUE /\ BlocksKnown(writer, client)
      BY <2>1 DEF Served
    <3> DEFINE d == Take(client, e)
    <3>4. Listening(d) /\ d.blocks = client.blocks /\ d.open = client.open
      BY <3>3, TakesOther DEF BlocksKnown
    <3> HIDE DEF d
    <3>5. BlocksKnown(writer, d)
      BY <3>3, <3>4 DEF BlocksKnown, Placed
    <3>6. Served(writer, d)
      BY <3>3, <3>5, KnownIsServed
    <3> QED BY <3>2, <3>6 DEF d
  <2>2. CASE client.end # "none"
    <3>1. opening = <<>>
      BY <2>2
    <3>2. IsSeq(opening)
      BY <3>1, LiteralSeqs
    <3>3. Reached(client, opening) = client
      BY <3>1, NoneReached
    <3> QED BY <3>2, <3>3
  <2> QED BY <2>1, <2>2
<1> HIDE DEF opening
<1>5. Served(Quiet(w), Reached(client, opening \o w.out))
  BY <1>3, <1>4, WritesAnthropic
<1>6. client' = Reached(client, opening \o w.out)
  BY <1>1, TakesAreFolds DEF Reached
<1> HIDE DEF w
<1> QED BY <1>1, <1>2, <1>5, <1>6

-----------------------------------------------------------------------------
\* A client that has got nothing is served by a writer that has written nothing.
LEMMA FreshWriter ==
    ASSUME NEW w, DOMAIN w = AnthropicFields, IsSeq(w.out), w.over = FALSE, w.next = 0,
           w.text = NoBlock, w.thinking = NoBlock, w.calls = <<>>
    PROVE  Served(w, NoClient)
<1>2. DOMAIN w.calls = {}
  OBVIOUS
<1>3. IsFiniteSet(DOMAIN w.calls)
  BY <1>2, FS_EmptySet
<1>4. /\ DOMAIN NoClient = ClientFields /\ NoClient.end = "none" /\ NoClient.astray = FALSE
      /\ NoClient.open = {} /\ DOMAIN NoClient.blocks = {}
  BY DEF NoClient, ClientFields
<1>5. OpenBlocks(w) = {}
  BY <1>2 DEF OpenBlocks
<1>6. Listening(NoClient)
  BY <1>4 DEF Listening
<1>7. BlocksKnown(w, NoClient)
  BY <1>2, <1>3, <1>4, <1>5, <1>6 DEF BlocksKnown
<1> QED BY <1>7, KnownIsServed

\* A reader that has read nothing is one.
LEMMA FreshReader == IsReader(Reader)
<1>1. /\ DOMAIN Reader = ReaderFields /\ Reader.out = <<>> /\ DOMAIN Reader.calls = {}
      /\ DOMAIN Reader.out = {}
  BY DEF Reader, ReaderFields
<1>2. IsSeq(Reader.out)
  BY <1>1, LiteralSeqs
<1>3. IsFiniteSet(DOMAIN Reader.calls)
  BY <1>1, FS_EmptySet
<1> QED BY <1>1, <1>2, <1>3 DEF IsReader

LEMMA NewWriter ==
    ASSUME inbound = "anthropic"
    PROVE  Served(Writer(inbound), NoClient) /\ Served(Quiet(Writer(inbound)), NoClient)
<1> DEFINE w == Writer(inbound)
<1>1. /\ DOMAIN w = AnthropicFields /\ w.over = FALSE /\ w.next = 0 /\ w.calls = <<>>
      /\ w.text = NoBlock /\ w.thinking = NoBlock /\ w.out = <<E("message_start", 0, 0)>>
  BY DEF Writer, AnthropicWriter, AnthropicFields
<1> HIDE DEF w
<1> DEFINE q == Quiet(w)
<1>2. /\ DOMAIN q = AnthropicFields /\ q.over = FALSE /\ q.next = 0 /\ q.calls = <<>>
      /\ q.text = NoBlock /\ q.thinking = NoBlock /\ q.out = <<>>
  BY <1>1 DEF Quiet, AnthropicFields
<1> HIDE DEF q
<1>3. IsSeq(w.out) /\ IsSeq(q.out)
  BY <1>1, <1>2, LiteralSeqs
<1>4. Served(w, NoClient) /\ Served(q, NoClient)
  BY <1>1, <1>2, <1>3, FreshWriter
<1> QED BY <1>4 DEF w, q

\* What the invariant of a conversation with an Anthropic client says.
ServedInv ==
    /\ scenario \in Scenarios /\ IsSeq(said) /\ IsReader(reader)
    /\ inbound = "anthropic" => Served(writer, client)

\* An OpenAI upstream sends chunks on the wire.
LEMMA Chunked ==
    ASSUME scenario \in Scenarios
    PROVE  upstream \in Dialect /\ (upstream = "openai" => wire = "openai") /\ wire \in Dialect
BY DialogueConstants DEF upstream, wire, Dialect

\* A step in which the upstream sends something.
LEMMA SendingServes ==
    ASSUME ServedInv, NEW evs, IsSeq(evs), Transmit(evs), scenario' = scenario, IsSeq(said'),
           wire = "openai" => \A i \in DOMAIN evs : IsChunk(evs[i])
    PROVE  ServedInv'
<1>1. upstream \in Dialect /\ (upstream = "openai" => \A i \in DOMAIN evs : IsChunk(evs[i]))
  BY Chunked DEF ServedInv
<1>2. inbound' = inbound /\ scenario' \in Scenarios
  BY DEF inbound, ServedInv
<1>3. IsReader(reader')
  <2>1. IsReader(Quiet(ReadAll(upstream, reader, evs)))
    <3>1. upstream \notin {"anthropic", "responses"} => \A i \in DOMAIN evs : IsChunk(evs[i])
      BY <1>1 DEF Dialect
    <3> QED BY <3>1, ReadsMany DEF ServedInv
  <2> QED BY <2>1 DEF Transmit
<1>4. inbound = "anthropic" => Served(writer', client')
  BY <1>1, AnthropicServed DEF ServedInv
<1> QED BY <1>2, <1>3, <1>4 DEF ServedInv

\* The number of a call is a number; what an OpenAI upstream sends are chunks.
LEMMA CallIndexIsInt ==
    ASSUME NEW n \in Nat
    PROVE  CallIndex(n) \in Int
<1>1. IsFiniteSet(1..(n - 1))
  BY FS_Interval
<1>2. IsFiniteSet({i \in 1..(n - 1) : said[i].type = "call"})
  BY <1>1, FS_Subset
<1> QED BY <1>2, FS_CardinalityType DEF CallIndex

LEMMA CallChunkIsChunk ==
    ASSUME NEW i \in Int, NEW id, NEW args, args = <<>> \/ \E p : args = <<p>>
    PROVE  IsChunk(CallChunk(i, id, args))
BY DEF IsChunk, CallChunk, E

LEMMA PlainIsChunk ==
    ASSUME NEW e, e.type # "call"
    PROVE  IsChunk(e)
BY DEF IsChunk

\* An OpenAI upstream closes no block.
LEMMA ClosesIsSeq == IsSeq(Closes) /\ (wire = "openai" => Closes = <<>>)
<1>1. \/ Closes = <<>> \/ \E x : Closes = <<x>>
  BY DEF Closes
<1>2. IsSeq(Closes)
  BY <1>1, LiteralSeqs
<1>3. wire = "openai" => Closes = <<>>
  BY DEF Closes
<1> QED BY <1>2, <1>3

\* The invariant holds at first and every step keeps it.
LEMMA ServedInit == Init => ServedInv
<1> SUFFICES ASSUME Init PROVE ServedInv
  OBVIOUS
<1>1. IsSeq(said)
  BY LiteralSeqs DEF Init
<1> QED BY <1>1, FreshReader, NewWriter DEF Init, ServedInv

LEMMA ServedNext == ServedInv /\ [Next]_vars => ServedInv'
<1> SUFFICES ASSUME ServedInv, [Next]_vars PROVE ServedInv'
  OBVIOUS
<1>a. scenario \in Scenarios /\ IsSeq(said)
  BY DEF ServedInv
<1>b. IsSeq(<<>>)
  BY LiteralSeqs
<1>1. CASE Ask
  <2>1. scenario' = scenario /\ said' = <<>> /\ reader' = Reader /\ writer' = Writer(inbound) /\ client' = NoClient
    BY <1>1 DEF Ask
  <2>2. inbound' = inbound
    BY <2>1 DEF inbound
  <2> QED BY <2>1, <2>2, <1>a, <1>b, FreshReader, NewWriter DEF ServedInv
<1>2. CASE UpstreamBegins
  <2> DEFINE evs == CASE wire = "anthropic" -> <<E("message_start", 0, 0)>>
                      [] wire = "responses" -> <<E("created", 0, 0)>>
                      [] OTHER -> <<E("role", 0, 0)>>
  <2>1. scenario' = scenario /\ said' = said /\ Transmit(evs)
    BY <1>2 DEF UpstreamBegins
  <2>2. \E x : evs = <<x>>
    OBVIOUS
  <2>3. wire = "openai" => evs = <<E("role", 0, 0)>>
    OBVIOUS
  <2>4. wire = "openai" => \A i \in DOMAIN evs : IsChunk(evs[i])
    BY <2>3, PlainIsChunk DEF E
  <2> HIDE DEF evs
  <2>5. IsSeq(evs)
    BY <2>2, LiteralSeqs
  <2> QED BY <2>1, <2>4, <2>5, <1>a, SendingServes
<1>3. CASE UpstreamOpens
  <2>1. PICK type \in {"text", "thinking", "call"} :
          LET n == Len(said) + 1
              id == IF type = "call" THEN count + 1 ELSE NoId
          IN  /\ said' = Append(said, Block(type, id, <<>>))
              /\ Transmit(Closes \o
                    CASE wire = "anthropic" -> <<E(StartName[type], Index(n), id)>>
                      [] wire = "responses" -> <<E(AddedName[type], Index(n), id)>>
                      [] OTHER -> IF type = "call" THEN <<CallChunk(CallIndex(n), id, <<>>)>> ELSE <<>>)
    BY <1>3 DEF UpstreamOpens
  <2> DEFINE n == Len(said) + 1
  <2> DEFINE id == IF type = "call" THEN count + 1 ELSE NoId
  <2> DEFINE opens == CASE wire = "anthropic" -> <<E(StartName[type], Index(n), id)>>
                        [] wire = "responses" -> <<E(AddedName[type], Index(n), id)>>
                        [] OTHER -> IF type = "call" THEN <<CallChunk(CallIndex(n), id, <<>>)>> ELSE <<>>
  <2> DEFINE evs == Closes \o opens
  <2>2. scenario' = scenario /\ Transmit(evs) /\ said' = Append(said, Block(type, id, <<>>))
    BY <1>3, <2>1 DEF UpstreamOpens
  <2>3. IsSeq(said')
    BY <2>2, <1>a, AppendIsSeq
  <2>4. n \in Nat
    BY <1>a, Shape
  <2>5. opens = <<>> \/ \E x : opens = <<x>>
    OBVIOUS
  <2>6. IsSeq(opens)
    <3> HIDE DEF opens
    <3> QED BY <2>5, LiteralSeqs
  <2>7. wire = "openai" => opens = <<>> \/ opens = <<CallChunk(CallIndex(n), id, <<>>)>>
    OBVIOUS
  <2> HIDE DEF opens, n, id
  <2>8. IsSeq(evs)
    BY <2>6, ClosesIsSeq, JoinIsSeq
  <2>9. ASSUME wire = "openai" PROVE \A i \in DOMAIN evs : IsChunk(evs[i])
    <3>1. Closes = <<>>
      BY <2>9, ClosesIsSeq
    <3>2. evs = opens
      BY <3>1, <2>6 DEF IsSeq
    <3> DEFINE e == CallChunk(CallIndex(n), id, <<>>)
    <3>3. IsChunk(e)
      BY <2>4, CallIndexIsInt, CallChunkIsChunk
    <3>4. opens = <<>> \/ opens = <<e>>
      BY <2>7, <2>9
    <3> HIDE DEF evs, e
    <3> QED BY <3>2, <3>3, <3>4
  <2> HIDE DEF evs
  <2> QED BY <2>2, <2>3, <2>8, <2>9, SendingServes
<1>4. CASE UpstreamContinues
  <2>1. PICK n \in DOMAIN said :
          /\ said' = [said EXCEPT ![n].data = Append(@, count + 1)]
          /\ Transmit(CASE wire = "anthropic" -> <<E(DeltaName[said[n].type], Index(n), count + 1)>>
                        [] wire = "responses" -> <<E(ItemDeltaName[said[n].type], Index(n), count + 1)>>
                        [] OTHER -> <<ChunkOf(n, count + 1)>>)
    BY <1>4 DEF UpstreamContinues
  <2> DEFINE evs == CASE wire = "anthropic" -> <<E(DeltaName[said[n].type], Index(n), count + 1)>>
                      [] wire = "responses" -> <<E(ItemDeltaName[said[n].type], Index(n), count + 1)>>
                      [] OTHER -> <<ChunkOf(n, count + 1)>>
  <2>2. scenario' = scenario /\ Transmit(evs)
    BY <1>4, <2>1 DEF UpstreamContinues
  <2>3. IsSeq(said')
    <3> DEFINE S == Elements(said) \cup {said'[n]}
    <3>1. said' = [said EXCEPT ![n] = said'[n]] /\ n \in 1..Len(said) /\ Len(said) \in Nat
      BY <2>1, <1>a, Shape
    <3>2. said \in Seq(S)
      <4>1. \A i \in DOMAIN said : said[i] \in S
        BY DEF Elements
      <4> HIDE DEF S
      <4> QED BY <4>1, <1>a, Wider
    <3>3. said'[n] \in S
      OBVIOUS
    <3> HIDE DEF S
    <3>4. said' \in Seq(S)
      BY <3>1, <3>2, <3>3
    <3> QED BY <3>4, AnySeq
  <2>4. \E x : evs = <<x>>
    OBVIOUS
  <2>5. wire = "openai" => evs = <<ChunkOf(n, count + 1)>>
    OBVIOUS
  <2> HIDE DEF evs
  <2>6. IsSeq(evs)
    BY <2>4, LiteralSeqs
  <2>7. n \in Nat
    BY <1>a, Shape
  <2>8. IsChunk(ChunkOf(n, count + 1))
    <3>1. IsChunk(CallChunk(CallIndex(n), NoId, <<count + 1>>))
      BY <2>7, CallIndexIsInt, CallChunkIsChunk
    <3>2. IsChunk(E("content", 0, count + 1)) /\ IsChunk(E("reasoning", 0, count + 1))
      BY DEF IsChunk, E
    <3> QED BY <3>1, <3>2 DEF ChunkOf
  <2>9. wire = "openai" => \A i \in DOMAIN evs : IsChunk(evs[i])
    BY <2>5, <2>8
  <2> QED BY <2>2, <2>3, <2>6, <2>9, SendingServes
<1>5. CASE UpstreamEnds
  <2>1. PICK why :
          LET status == StatusOfFinish(why)
          IN Transmit(Closes \o
                    CASE wire = "anthropic" ->
                            <<E("message_delta", 0, [stop |-> StopOf(why), usage |-> Reported]),
                              E("message_stop", 0, 0)>>
                      [] wire = "responses" ->
                            <<E(status, 0, [status |-> status, reason |-> ReasonOfFinish(why),
                                            output |-> IF scenario.sparse THEN <<>> ELSE said,
                                            usage |-> Reported])>>
                      [] OTHER -> <<Finishes(why, NoUsage), Finishes("", Reported), Done>>)
    BY <1>5 DEF UpstreamEnds
  <2> DEFINE status == StatusOfFinish(why)
  <2> DEFINE ends == CASE wire = "anthropic" ->
                            <<E("message_delta", 0, [stop |-> StopOf(why), usage |-> Reported]),
                              E("message_stop", 0, 0)>>
                      [] wire = "responses" ->
                            <<E(status, 0, [status |-> status, reason |-> ReasonOfFinish(why),
                                            output |-> IF scenario.sparse THEN <<>> ELSE said,
                                            usage |-> Reported])>>
                      [] OTHER -> <<Finishes(why, NoUsage), Finishes("", Reported), Done>>
  <2> DEFINE evs == Closes \o ends
  <2>2. scenario' = scenario /\ said' = said /\ Transmit(evs)
    BY <1>5, <2>1 DEF UpstreamEnds
  <2>3. \E x, y, z : ends = <<x>> \/ ends = <<x, y>> \/ ends = <<x, y, z>>
    OBVIOUS
  <2>4. wire = "openai" => ends = <<Finishes(why, NoUsage), Finishes("", Reported), Done>>
    OBVIOUS
  <2> HIDE DEF ends
  <2>5. IsSeq(ends)
    <3>1. ASSUME NEW x, NEW y, NEW z PROVE IsSeq(<<x, y, z>>)
      <4>1. <<x, y, z>> \in Seq({x, y, z})
        OBVIOUS
      <4> QED BY <4>1, AnySeq
    <3> QED BY <2>3, <3>1, LiteralSeqs
  <2>6. IsSeq(evs)
    BY <2>5, ClosesIsSeq, JoinIsSeq
  <2>7. ASSUME wire = "openai" PROVE \A i \in DOMAIN evs : IsChunk(evs[i])
    <3>1. Closes = <<>>
      BY <2>7, ClosesIsSeq
    <3>2. evs = ends
      BY <3>1, <2>5 DEF IsSeq
    <3>3. IsChunk(Finishes(why, NoUsage)) /\ IsChunk(Finishes("", Reported)) /\ IsChunk(Done)
      BY DEF IsChunk, Finishes, Done, E
    <3> DEFINE a == Finishes(why, NoUsage)
    <3> DEFINE b == Finishes("", Reported)
    <3>4. evs = <<a, b, Done>>
      BY <3>2, <2>4, <2>7
    <3>5. IsChunk(a) /\ IsChunk(b)
      BY <3>3
    <3> HIDE DEF evs, a, b
    <3>6. DOMAIN evs = 1..3 /\ evs[1] = a /\ evs[2] = b /\ evs[3] = Done
      BY <3>4
    <3>7. \A i \in 1..3 : i = 1 \/ i = 2 \/ i = 3
      OBVIOUS
    <3>8. \A i \in 1..3 : IsChunk(evs[i])
      BY <3>3, <3>5, <3>6, <3>7
    <3> QED BY <3>6, <3>8
  <2> HIDE DEF evs
  <2> QED BY <2>2, <2>6, <2>7, <1>a, SendingServes
<1>6. CASE UpstreamFails
  <2> DEFINE data == [status |-> "failed", reason |-> "", output |-> <<>>, usage |-> NoUsage]
  <2>1. \E e : Transmit(<<e>>) /\ (e = E("error", 0, 0) \/ e = E("failed", 0, data))
    BY <1>6 DEF UpstreamFails
  <2> HIDE DEF data
  <2>2. PICK e : Transmit(<<e>>) /\ (e = E("error", 0, 0) \/ e = E("failed", 0, data))
    BY <2>1
  <2>3. IsChunk(e)
    BY <2>2 DEF IsChunk, E
  <2> DEFINE evs == <<e>>
  <2>4. IsSeq(evs) /\ \A i \in DOMAIN evs : IsChunk(evs[i])
    <3>1. IsSeq(evs)
      BY LiteralSeqs
    <3> QED BY <2>3, <3>1
  <2>5. scenario' = scenario /\ said' = said /\ Transmit(evs)
    BY <1>6, <2>2 DEF UpstreamFails
  <2> HIDE DEF evs
  <2> QED BY <2>4, <2>5, <1>a, SendingServes
<1>7. CASE ConnectionCloses
  <2> DEFINE evs == <<Eof>>
  <2>1. IsChunk(Eof)
    BY DEF IsChunk, E, Eof
  <2>2. IsSeq(evs) /\ \A i \in DOMAIN evs : IsChunk(evs[i])
    <3>1. IsSeq(evs)
      BY LiteralSeqs
    <3> QED BY <2>1, <3>1
  <2>3. scenario' = scenario /\ said' = said /\ Transmit(evs)
    BY <1>7 DEF ConnectionCloses
  <2> HIDE DEF evs
  <2> QED BY <2>2, <2>3, <1>a, SendingServes
<1>8. CASE Keep
  <2>1. scenario' = scenario /\ said' = said /\ reader' = Reader /\ writer' = Quiet(Writer(inbound)) /\ client' = NoClient
    BY <1>8 DEF Keep
  <2>2. inbound' = inbound
    BY <2>1 DEF inbound
  <2> QED BY <2>1, <2>2, <1>a, FreshReader, NewWriter DEF ServedInv
<1>9. CASE UNCHANGED vars
  <2>1. scenario' = scenario /\ said' = said /\ reader' = reader /\ writer' = writer /\ client' = client
    BY <1>9 DEF vars
  <2>2. inbound' = inbound
    BY <2>1 DEF inbound
  <2> QED BY <2>1, <2>2 DEF ServedInv
<1> QED BY <1>1, <1>2, <1>3, <1>4, <1>5, <1>6, <1>7, <1>8, <1>9 DEF Next

(***************************************************************************)
(* The clients of the other dialects.  A chunk says which call it belongs to, *)
(* so the readers must keep to a discipline: a call is opened once, under a    *)
(* number of its own, and pieces belong to a call that was opened (Fine).      *)
(* What is told of a stream is a run of such chunks (Tells), from one state of *)
(* the stream to another: the calls it opened, and whether it is over.  A      *)
(* reader keeps to it when its upstream does (Reads, of an upstream that opened *)
(* certain blocks as calls), the upstream does (SentFine), and a client of     *)
(* either dialect can follow (Attends).                                       *)
(*                                                                          *)
(* A Responses writer keeps one item of text, which it closes before the first *)
(* call; a text after a call opens an item beside those of the calls.  So it    *)
(* has to be known that no call comes after such a text: the answer is late     *)
(* when a text came after a call, and no call is opened when it is.            *)
(***************************************************************************)
\* The discipline of the hub's chunks.  What a stream has said so far is, for the
\* writers, which calls were opened, by their index, and whether it is over.
State(known, over) == [known |-> known, over |-> over]

\* A piece of a call, and a call that is opened.
CallFine(p, e, q, late) ==
    \/ /\ e.data.id = NoId /\ e.index \in p.known /\ (\E x : e.data.args = <<x>>)
       /\ q = p
    \/ /\ e.data.id # NoId /\ e.index \in Nat /\ e.index \notin p.known /\ e.data.args = <<>>
       /\ inbound = "responses" => ~late
       /\ q = State(p.known \cup {e.index}, FALSE)

\* A chunk e that takes a stream from p to q.  A Responses writer that is over hears no
\* more; a text comes before all calls or makes the answer late.
Fine(p, e, q, late) ==
    \/ p.over /\ inbound = "responses" /\ q = p
    \/ ~p.over /\ e.type = "call" /\ CallFine(p, e, q, late)
    \/ ~p.over /\ e.type \in {"done", "eof", "cut"} /\ q = State(p.known, TRUE)
    \/ /\ ~p.over /\ e.type \notin {"call", "done", "eof", "cut"} /\ q = p
       /\ e.type = "content" => p.known = {} \/ late

\* A list of chunks that keeps to it, from one state of the stream to another.
Tells(p, chunks, q, late) ==
    \E f : /\ f[0] = p /\ f[Len(chunks)] = q
           /\ \A i \in 1..Len(chunks) : Fine(f[i - 1], chunks[i], f[i], late)

\* Nothing told, and one chunk more.
LEMMA TellsNone ==
    ASSUME NEW p, NEW late
    PROVE  Tells(p, <<>>, p, late)
<1> DEFINE f == [i \in 0..0 |-> p]
<1>1. Len(<<>>) = 0 /\ 1..0 = {} /\ f[0] = p
  OBVIOUS
<1> QED BY <1>1 DEF Tells

LEMMA TellsMore ==
    ASSUME NEW p, NEW s, IsSeq(s), NEW q, NEW late, Tells(p, s, q, late), NEW e, NEW r,
           Fine(q, e, r, late)
    PROVE  Tells(p, Append(s, e), r, late)
<1> DEFINE n == Len(s)
<1> DEFINE t == Append(s, e)
<1>1. n \in Nat /\ DOMAIN s = 1..n
  BY Shape
<1>2. Len(t) = n + 1 /\ t[n + 1] = e /\ \A i \in 1..n : t[i] = s[i]
  <2>1. s \in Seq({s[i] : i \in DOMAIN s} \cup {e})
    BY Wider
  <2> QED BY <2>1
<1>3. PICK f : f[0] = p /\ f[n] = q /\ \A i \in 1..n : Fine(f[i - 1], s[i], f[i], late)
  BY DEF Tells
<1> HIDE DEF t, n
<1> DEFINE g == [i \in 0..(n + 1) |-> IF i = n + 1 THEN r ELSE f[i]]
<1>4. g[0] = p /\ g[n + 1] = r /\ \A i \in 0..n : g[i] = f[i]
  BY <1>1, <1>3
<1>5. ASSUME NEW i \in 1..(n + 1) PROVE Fine(g[i - 1], t[i], g[i], late)
  <2>1. CASE i = n + 1
    <3>1. i - 1 = n /\ n \in 0..n
      BY <1>1, <2>1
    <3>2. g[i - 1] = q /\ t[i] = e /\ g[i] = r
      BY <3>1, <2>1, <1>2, <1>3, <1>4
    <3> QED BY <3>2
  <2>2. CASE i # n + 1
    <3>1. i \in 1..n /\ i - 1 \in 0..n /\ i \in 0..n
      BY <1>1, <2>2
    <3>2. g[i - 1] = f[i - 1] /\ t[i] = s[i] /\ g[i] = f[i]
      BY <3>1, <1>2, <1>4
    <3> QED BY <3>1, <3>2, <1>3
  <2> QED BY <2>1, <2>2
<1> HIDE DEF g
<1>6. Tells(p, t, r, late)
  BY <1>2, <1>4, <1>5 DEF Tells
<1> QED BY <1>6 DEF t

\* The chunks of a stream that is not over, and what they make of it.
LEMMA FineChunks ==
    ASSUME NEW p, ~p.over, NEW late
    PROVE  /\ \A i, x : Fine(p, E("role", i, x), p, late)
           /\ \A i, x : Fine(p, E("reasoning", i, x), p, late)
           /\ \A i, x : Fine(p, E("last", i, x), p, late)
           /\ \A x, y : Fine(p, Finishes(x, y), p, late)
           /\ \A i, x : p.known = {} \/ late => Fine(p, E("content", i, x), p, late)
           /\ \A i \in p.known : \A x : Fine(p, CallChunk(i, NoId, <<x>>), p, late)
           /\ Fine(p, Done, State(p.known, TRUE), late) /\ Fine(p, Cut, State(p.known, TRUE), late)
           /\ Fine(p, Eof, State(p.known, TRUE), late)
<1>1. \A type, i, x : E(type, i, x).type = type
  BY EventFields
<1>2. ASSUME NEW i \in p.known, NEW x PROVE Fine(p, CallChunk(i, NoId, <<x>>), p, late)
  <2>1. LET e == CallChunk(i, NoId, <<x>>)
        IN  e.type = "call" /\ e.index = i /\ e.data.id = NoId /\ e.data.args = <<x>>
    BY DEF CallChunk, E
  <2> QED BY <2>1 DEF Fine, CallFine
<1>3. ASSUME NEW e, e.type \in {"role", "reasoning", "last"} PROVE Fine(p, e, p, late)
  BY <1>3 DEF Fine
<1>4. ASSUME NEW e, e.type = "content", p.known = {} \/ late PROVE Fine(p, e, p, late)
  BY <1>4 DEF Fine
<1>5. ASSUME NEW e, e.type = "done" \/ e.type = "cut" \/ e.type = "eof" PROVE Fine(p, e, State(p.known, TRUE), late)
  BY <1>5 DEF Fine
<1>6. /\ \A i, x : Fine(p, E("role", i, x), p, late)
      /\ \A i, x : Fine(p, E("reasoning", i, x), p, late)
      /\ \A i, x : Fine(p, E("last", i, x), p, late)
  BY <1>1, <1>3
<1>7. \A x, y : Fine(p, Finishes(x, y), p, late)
  BY <1>1, <1>3 DEF Finishes
<1>8. \A i, x : p.known = {} \/ late => Fine(p, E("content", i, x), p, late)
  BY <1>1, <1>4
<1>9. Done.type = "done" /\ Cut.type = "cut" /\ Eof.type = "eof"
  BY <1>1 DEF Done, Cut, Eof
<1>10. /\ Fine(p, Done, State(p.known, TRUE), late) /\ Fine(p, Cut, State(p.known, TRUE), late)
       /\ Fine(p, Eof, State(p.known, TRUE), late)
  BY <1>5, <1>9, Zenon
<1> QED BY <1>2, <1>6, <1>7, <1>8, <1>10

\* A chunk that opens a call.
LEMMA FineOpening ==
    ASSUME NEW p, ~p.over, NEW late, NEW i \in Nat, i \notin p.known, NEW id, id # NoId,
           inbound = "responses" => ~late
    PROVE  Fine(p, CallChunk(i, id, <<>>), State(p.known \cup {i}, FALSE), late)
<1>1. LET e == CallChunk(i, id, <<>>)
      IN  e.type = "call" /\ e.index = i /\ e.data.id = id /\ e.data.args = <<>>
  BY DEF CallChunk, E
<1> QED BY <1>1 DEF Fine, CallFine

-----------------------------------------------------------------------------
\* The numbers of the calls a reader knows.
Numbers(r) == 0..(Cardinality(DOMAIN r.calls) - 1)
\* What a reader has told.
StateOf(r) == State(Numbers(r), r.over = TRUE)

\* What a reader has read of an upstream that opened the blocks in C as calls, and what
\* it has told of it since the stream was at p.
Reads(r, C, p, late) ==
    /\ DOMAIN r = ReaderFields /\ IsSeq(r.out) /\ r.over \in BOOLEAN
    /\ IsFiniteSet(DOMAIN r.calls) /\ \A k \in DOMAIN r.calls : r.calls[k] \in Numbers(r)
    /\ ~r.over => DOMAIN r.calls = C
    /\ Tells(p, r.out, StateOf(r), late)

\* The fields of a state.
LEMMA StateFields ==
    ASSUME NEW known, NEW over
    PROVE  State(known, over).known = known /\ State(known, over).over = over
BY DEF State

\* What a reader does, step by step, keeps to the discipline: a chunk that changes
\* nothing, a field that is not its own, its first chunk, a new call, its end.
LEMMA ReadsEmits ==
    ASSUME NEW r, NEW C, NEW p, NEW late, Reads(r, C, p, late), NEW e,
           Fine(StateOf(r), e, StateOf(r), late)
    PROVE  LET t == Emit(r, <<e>>)
           IN  /\ Reads(t, C, p, late) /\ StateOf(t) = StateOf(r)
               /\ t.over = r.over /\ t.calls = r.calls /\ t.envelope = r.envelope
<1> DEFINE t == Emit(r, <<e>>)
<1>1. /\ DOMAIN t = ReaderFields /\ \A f \in ReaderFields \ {"out"} : t[f] = r[f]
      /\ t.out = Append(r.out, e) /\ IsSeq(t.out)
  BY Emits DEF Reads, ReaderFields
<1> HIDE DEF t
<1>2. t.over = r.over /\ t.calls = r.calls /\ t.envelope = r.envelope
  BY <1>1 DEF ReaderFields
<1>3. StateOf(t) = StateOf(r) /\ Numbers(t) = Numbers(r)
  BY <1>2 DEF StateOf, Numbers
<1>4. Tells(p, t.out, StateOf(t), late)
  BY <1>1, <1>3, TellsMore DEF Reads
<1> QED BY <1>1, <1>2, <1>3, <1>4 DEF Reads, t

LEMMA ReadsMoves ==
    ASSUME NEW r, NEW C, NEW p, NEW late, Reads(r, C, p, late), NEW t, DOMAIN t = ReaderFields,
           t.over = r.over, t.calls = r.calls, t.out = r.out
    PROVE  Reads(t, C, p, late) /\ StateOf(t) = StateOf(r)
<1>1. StateOf(t) = StateOf(r) /\ Numbers(t) = Numbers(r)
  BY DEF StateOf, Numbers
<1> QED BY <1>1 DEF Reads

LEMMA ReadsBegin ==
    ASSUME NEW r, NEW C, NEW p, NEW late, Reads(r, C, p, late), ~r.over
    PROVE  LET t == Begin(r)
           IN  /\ Reads(t, C, p, late) /\ StateOf(t) = StateOf(r)
               /\ t.over = r.over /\ t.calls = r.calls /\ t.envelope = r.envelope
<1>1. CASE r.started
  BY <1>1 DEF Begin
<1>2. CASE ~r.started
  <2> DEFINE u == [r EXCEPT !.started = TRUE]
  <2> DEFINE e == E("role", 0, 0)
  <2>1. Begin(r) = Emit(u, <<e>>)
    BY <1>2 DEF Begin
  <2>2. /\ DOMAIN u = ReaderFields /\ u.over = r.over /\ u.calls = r.calls /\ u.out = r.out
        /\ u.envelope = r.envelope
    BY DEF Reads, ReaderFields
  <2> HIDE DEF u
  <2>3. Reads(u, C, p, late) /\ StateOf(u) = StateOf(r)
    BY <2>2, ReadsMoves
  <2>4. ~StateOf(u).over
    BY <2>2, StateFields DEF StateOf
  <2>5. Fine(StateOf(u), e, StateOf(u), late)
    BY <2>4, FineChunks
  <2> HIDE DEF e
  <2> QED BY <2>1, <2>2, <2>3, <2>5, ReadsEmits
<1> QED BY <1>1, <1>2

LEMMA ReadsOpens ==
    ASSUME NEW r, NEW C, NEW p, NEW late, Reads(r, C, p, late), ~r.over,
           NEW e, e.index \notin C, e.data # NoId, inbound = "responses" => ~late
    PROVE  LET t == OpensCall(r, e)
           IN  Reads(t, C \cup {e.index}, p, late) /\ t.over = r.over /\ t.envelope = r.envelope
<1> DEFINE n == Cardinality(DOMAIN r.calls)
<1> DEFINE u == [r EXCEPT !.calls = With(@, e.index, n)]
<1> DEFINE x == CallChunk(n, e.data, <<>>)
<1> DEFINE t == Emit(u, <<x>>)
<1>1. n \in Nat /\ DOMAIN r.calls = C
  BY FS_CardinalityType DEF Reads
<1>2. Fine(StateOf(r), x, State(Numbers(r) \cup {n}, FALSE), late)
  <2>1. StateOf(r).known = Numbers(r) /\ ~StateOf(r).over
    BY StateFields DEF StateOf
  <2>2. n \notin Numbers(r)
    BY <1>1 DEF Numbers
  <2> HIDE DEF n
  <2> QED BY <1>1, <2>1, <2>2, FineOpening
<1>3. /\ DOMAIN u = ReaderFields /\ u.over = r.over /\ u.calls = With(r.calls, e.index, n)
      /\ u.out = r.out /\ u.envelope = r.envelope
  BY DEF Reads, ReaderFields
<1> HIDE DEF u, x
<1>4. /\ DOMAIN t = ReaderFields /\ \A f \in ReaderFields \ {"out"} : t[f] = u[f]
      /\ t.out = Append(r.out, x) /\ IsSeq(t.out)
  BY <1>3, Emits DEF Reads, ReaderFields
<1> HIDE DEF t
<1>5. /\ t.over = r.over /\ t.calls = With(r.calls, e.index, n) /\ t.envelope = r.envelope
  BY <1>3, <1>4 DEF ReaderFields
<1>6. /\ DOMAIN t.calls = DOMAIN r.calls \cup {e.index} /\ t.calls[e.index] = n
      /\ \A k \in DOMAIN r.calls : t.calls[k] = r.calls[k]
  BY <1>1, <1>5 DEF With
<1>7. IsFiniteSet(DOMAIN t.calls) /\ Cardinality(DOMAIN t.calls) = n + 1
  BY <1>1, <1>6, FS_AddElement DEF Reads
<1>8. Numbers(t) = Numbers(r) \cup {n}
  <2>1. Numbers(t) = 0..((n + 1) - 1) /\ Numbers(r) = 0..(n - 1)
    BY <1>7 DEF Numbers
  <2> HIDE DEF n
  <2> QED BY <1>1, <2>1
<1>9. StateOf(t) = State(Numbers(r) \cup {n}, FALSE)
  BY <1>5, <1>8 DEF StateOf
<1>10. Tells(p, t.out, StateOf(t), late)
  BY <1>2, <1>4, <1>9, TellsMore DEF Reads
<1>11. \A k \in DOMAIN t.calls : t.calls[k] \in Numbers(t)
  BY <1>6, <1>8 DEF Reads
<1> HIDE DEF n
<1>12. Reads(t, C \cup {e.index}, p, late)
  BY <1>1, <1>4, <1>5, <1>6, <1>7, <1>10, <1>11 DEF Reads
<1> QED BY <1>5, <1>12 DEF OpensCall, t, u, x, n

\* A reader that is over needs nothing of the calls.
LEMMA ReadsOver ==
    ASSUME NEW r, NEW C, NEW p, NEW late, Reads(r, C, p, late), r.over, NEW D
    PROVE  Reads(r, D, p, late)
BY DEF Reads

\* What is told before the end, and an end.
Prelude(pre, q, late) ==
    \E a, b : pre \in {<<>>, <<a>>, <<a, b>>} /\ Fine(q, a, q, late) /\ Fine(q, b, q, late)
Ends(t, r, pre, e) ==
    DOMAIN t = ReaderFields /\ t.over = TRUE /\ t.calls = r.calls /\ t.out = r.out \o (pre \o <<e>>)

\* The last chunk, with up to two before it.
LEMMA ReadsEnd ==
    ASSUME NEW r, NEW C, NEW p, NEW late, Reads(r, C, p, late), ~r.over,
           NEW pre, Prelude(pre, StateOf(r), late),
           NEW e, Fine(StateOf(r), e, State(Numbers(r), TRUE), late),
           NEW t, Ends(t, r, pre, e), NEW D
    PROVE  Reads(t, D, p, late)
<1>0. /\ DOMAIN t = ReaderFields /\ t.over = TRUE /\ t.calls = r.calls
      /\ t.out = r.out \o (pre \o <<e>>)
  BY DEF Ends
<1>a. PICK a, b : /\ pre \in {<<>>, <<a>>, <<a, b>>}
                  /\ Fine(StateOf(r), a, StateOf(r), late) /\ Fine(StateOf(r), b, StateOf(r), late)
  BY DEF Prelude
<1> DEFINE o == r.out
<1> DEFINE q == StateOf(r)
<1>1. IsSeq(o) /\ Tells(p, o, q, late)
  BY DEF Reads
<1>2. StateOf(t) = State(Numbers(r), TRUE) /\ Numbers(t) = Numbers(r)
  BY <1>0 DEF StateOf, Numbers
<1> DEFINE s == o \o pre
<1> HIDE DEF o, q
<1>3. IsSeq(pre) /\ IsSeq(s) /\ Tells(p, s, q, late)
  <2>1. CASE pre = <<>>
    <3>1. s = o
      BY <1>1, <2>1, JoinOfNone
    <3>2. IsSeq(pre)
      BY <2>1, LiteralSeqs
    <3> QED BY <1>1, <3>1, <3>2
  <2>2. CASE pre = <<a>>
    <3>1. s = Append(o, a) /\ pre # <<>>
      BY <1>1, <2>2, JoinOfOne
    <3>2. IsSeq(pre)
      BY <2>2, LiteralSeqs
    <3>3. Fine(q, a, q, late)
      BY <1>a DEF q
    <3> HIDE DEF s
    <3> QED BY <1>1, <3>1, <3>2, <3>3, TellsMore, AppendIsSeq
  <2>3. CASE pre = <<a, b>>
    <3> DEFINE m == Append(o, a)
    <3>1. s = Append(m, b) /\ pre # <<>>
      BY <1>1, <2>3, JoinOfTwo
    <3>2. IsSeq(pre)
      BY <2>3, LiteralSeqs
    <3>3. Fine(q, a, q, late) /\ Fine(q, b, q, late)
      BY <1>a DEF q
    <3>4. IsSeq(m) /\ Tells(p, m, q, late)
      BY <1>1, <3>3, TellsMore, AppendIsSeq
    <3> HIDE DEF s, m
    <3> QED BY <3>1, <3>2, <3>3, <3>4, TellsMore, AppendIsSeq
  <2> QED BY <1>a, <2>1, <2>2, <2>3
<1>4. t.out = Append(s, e)
  <2>1. pre \o <<e>> = Append(pre, e)
    BY <1>3, JoinOfOne
  <2>2. o \o Append(pre, e) = Append(o \o pre, e)
    BY <1>1, <1>3, JoinOfAppend
  <2> QED BY <1>0, <2>1, <2>2 DEF o
<1> HIDE DEF s
<1>5. Tells(p, t.out, State(Numbers(r), TRUE), late)
  BY <1>3, <1>4, TellsMore DEF q
<1>6. IsSeq(t.out)
  BY <1>3, <1>4, AppendIsSeq
<1> QED BY <1>0, <1>2, <1>5, <1>6 DEF Reads

\* The discipline of an upstream's events.  C: the blocks it has opened as calls, D: those
\* it has opened with e.
EventFine(e, C, D, late) ==
    /\ e.type \in {"start_call", "added_call"} =>
          /\ e.index \notin C /\ e.data # NoId /\ D = C \cup {e.index}
          /\ inbound = "responses" => ~late
    /\ e.type \notin {"start_call", "added_call"} => D = C
    /\ e.type \in {"json", "args"} => e.index \in C
    /\ e.type = "text" => C = {} \/ late

\* The state of a reader that is not over.
LEMMA ReaderState ==
    ASSUME NEW r, NEW C, NEW p, NEW late, Reads(r, C, p, late), ~r.over
    PROVE  /\ ~StateOf(r).over /\ StateOf(r).known = Numbers(r)
           /\ C = {} => Numbers(r) = {}
           /\ \A e : e.index \in C => CallOf(r, e) \in Numbers(r)
<1>1. ~StateOf(r).over /\ StateOf(r).known = Numbers(r)
  BY StateFields DEF StateOf
<1>2. DOMAIN r.calls = C
  BY DEF Reads
<1>3. C = {} => Numbers(r) = {}
  BY <1>2, FS_EmptySet DEF Numbers
<1>4. \A e : e.index \in C => CallOf(r, e) \in Numbers(r)
  BY <1>2 DEF CallOf, Reads
<1> QED BY <1>1, <1>3, <1>4

\* What a reader of an Anthropic stream makes of an event (anthropic_stream_to_openai).
LEMMA AnthropicRead ==
    ASSUME NEW r, NEW C, NEW p, NEW late, Reads(r, C, p, late), NEW e, NEW D,
           ~r.over => EventFine(e, C, D, late) /\ e.type # "added_call"
    PROVE  LET t == ReadAnthropic(r, e)
           IN  Reads(t, D, p, late) /\ (~t.over => t.envelope = r.envelope)
<1> DEFINE t == ReadAnthropic(r, e)
<1>1. CASE r.over
  <2>1. t = r
    BY <1>1 DEF ReadAnthropic
  <2> QED BY <1>1, <2>1, ReadsOver
<1>2. CASE ~r.over /\ e.type = "message_start"
  <2> DEFINE u == [r EXCEPT !.started = TRUE]
  <2> DEFINE x == E("role", 0, 0)
  <2>1. t = Emit(u, <<x>>)
    BY <1>2 DEF ReadAnthropic
  <2>2. /\ DOMAIN u = ReaderFields /\ u.over = r.over /\ u.calls = r.calls /\ u.out = r.out
        /\ u.envelope = r.envelope
    BY DEF Reads, ReaderFields
  <2> HIDE DEF u
  <2>3. Reads(u, C, p, late) /\ StateOf(u) = StateOf(r)
    BY <2>2, ReadsMoves
  <2>4. Fine(StateOf(u), x, StateOf(u), late)
    <3>1. ~StateOf(r).over
      BY <1>2, ReaderState
    <3> QED BY <2>3, <3>1, FineChunks
  <2>5. D = C
    BY <1>2 DEF EventFine
  <2> HIDE DEF t, x
  <2>6. Reads(t, C, p, late) /\ t.envelope = u.envelope
    BY <2>1, <2>3, <2>4, ReadsEmits
  <2> QED BY <2>2, <2>5, <2>6 DEF t
<1>3. CASE ~r.over /\ e.type = "start_call"
  <2>1. t = OpensCall(r, e)
    BY <1>3 DEF ReadAnthropic
  <2>2. e.index \notin C /\ e.data # NoId /\ D = C \cup {e.index} /\ (inbound = "responses" => ~late)
    BY <1>3 DEF EventFine
  <2>3. Reads(OpensCall(r, e), C \cup {e.index}, p, late) /\ OpensCall(r, e).envelope = r.envelope
    BY <1>3, <2>2, ReadsOpens
  <2> QED BY <2>1, <2>2, <2>3
<1>4. CASE ~r.over /\ e.type \in {"text", "thinking", "json", "message_delta"}
  <2>1. PICK x : t = Emit(r, <<x>>) /\ Fine(StateOf(r), x, StateOf(r), late)
    <3>0. ~StateOf(r).over /\ StateOf(r).known = Numbers(r)
      BY <1>4, ReaderState
    <3>1. CASE e.type = "text"
      <4>1. t = Emit(r, <<E("content", 0, e.data)>>)
        BY <1>4, <3>1 DEF ReadAnthropic
      <4>2. Numbers(r) = {} \/ late
        <5>1. C = {} \/ late
          BY <1>4, <3>1 DEF EventFine
        <5> QED BY <1>4, <5>1, ReaderState
      <4>3. Fine(StateOf(r), E("content", 0, e.data), StateOf(r), late)
        BY <3>0, <4>2, FineChunks
      <4> QED BY <4>1, <4>3
    <3>2. CASE e.type = "thinking"
      <4>1. t = Emit(r, <<E("reasoning", 0, e.data)>>)
        BY <1>4, <3>2 DEF ReadAnthropic
      <4>2. Fine(StateOf(r), E("reasoning", 0, e.data), StateOf(r), late)
        BY <3>0, FineChunks
      <4> QED BY <4>1, <4>2
    <3>3. CASE e.type = "json"
      <4>1. t = Emit(r, <<CallChunk(CallOf(r, e), NoId, <<e.data>>)>>)
        BY <1>4, <3>3 DEF ReadAnthropic
      <4>2. CallOf(r, e) \in Numbers(r)
        <5>1. e.index \in C
          BY <1>4, <3>3 DEF EventFine
        <5> QED BY <1>4, <5>1, ReaderState
      <4>3. Fine(StateOf(r), CallChunk(CallOf(r, e), NoId, <<e.data>>), StateOf(r), late)
        BY <3>0, <4>2, FineChunks
      <4> QED BY <4>1, <4>3
    <3>4. CASE e.type = "message_delta"
      <4>1. t = Emit(r, <<Finishes(FinishOf(e.data.stop), e.data.usage)>>)
        BY <1>4, <3>4 DEF ReadAnthropic
      <4>2. Fine(StateOf(r), Finishes(FinishOf(e.data.stop), e.data.usage), StateOf(r), late)
        BY <3>0, FineChunks
      <4> QED BY <4>1, <4>2
    <3> QED BY <1>4, <3>1, <3>2, <3>3, <3>4
  <2>2. D = C
    BY <1>4 DEF EventFine
  <2> HIDE DEF t
  <2>3. Reads(t, C, p, late) /\ t.envelope = r.envelope
    BY <2>1, ReadsEmits
  <2> QED BY <2>2, <2>3 DEF t
<1>5. CASE ~r.over /\ e.type \in {"error", "message_stop", "eof"}
  <2> DEFINE a == E("role", 0, 0)
  <2> DEFINE b == Finishes("stop", NoUsage)
  <2> DEFINE pre == IF e.type = "error" \/ r.started THEN <<>> ELSE <<a, b>>
  <2> DEFINE x == IF e.type = "error" THEN Cut ELSE Done
  <2>1. t = [[r EXCEPT !.over = TRUE] EXCEPT !.out = @ \o (pre \o <<x>>)]
    <3>1. <<>> \o <<Cut>> = <<Cut>>
      OBVIOUS
    <3> QED BY <1>5, <3>1 DEF ReadAnthropic, Over, Emit
  <2>2. Ends(t, r, pre, x)
    BY <2>1 DEF Reads, ReaderFields, Ends
  <2>3. Prelude(pre, StateOf(r), late) /\ Fine(StateOf(r), x, State(Numbers(r), TRUE), late)
    <3>1. ~StateOf(r).over /\ StateOf(r).known = Numbers(r)
      BY <1>5, ReaderState
    <3>2. Fine(StateOf(r), a, StateOf(r), late) /\ Fine(StateOf(r), b, StateOf(r), late)
      BY <3>1, FineChunks
    <3>3. Fine(StateOf(r), x, State(Numbers(r), TRUE), late)
      BY <3>1, FineChunks
    <3>4. pre \in {<<>>, <<a>>, <<a, b>>}
      OBVIOUS
    <3> HIDE DEF a, b, pre, x
    <3> QED BY <3>2, <3>3, <3>4 DEF Prelude
  <2>4. t.over
    BY <2>2 DEF Ends
  <2> HIDE DEF t, pre, x, a, b
  <2>5. Reads(t, D, p, late)
    BY <1>5, <2>2, <2>3, ReadsEnd
  <2> QED BY <2>4, <2>5 DEF t
<1>6. CASE /\ ~r.over
           /\ e.type \notin {"message_start", "start_call", "text", "thinking", "json", "message_delta",
                             "error", "message_stop", "eof"}
  <2>1. t = r
    BY <1>6 DEF ReadAnthropic
  <2>2. D = C
    BY <1>6 DEF EventFine
  <2> QED BY <2>1, <2>2
<1> QED BY <1>1, <1>2, <1>3, <1>4, <1>5, <1>6

\* The end of a Responses stream.
LEMMA EndRead ==
    ASSUME NEW r, NEW C, NEW p, NEW late, Reads(r, C, p, late), ~r.over, NEW why, NEW usage, NEW D
    PROVE  LET t == EndChunks(r, why, usage) IN Reads(t, D, p, late) /\ t.over
<1> DEFINE b == Begin(r)
<1> DEFINE x == Finishes(IF r.calls # <<>> /\ why = "stop" THEN "tool_calls" ELSE why, usage)
<1> DEFINE pre == <<x>>
<1> DEFINE t == EndChunks(r, why, usage)
<1>1. Reads(b, C, p, late) /\ ~b.over
  BY ReadsBegin
<1>2. t = [[b EXCEPT !.over = TRUE] EXCEPT !.out = @ \o <<x, Done>>]
  BY DEF EndChunks, Over, Emit
<1>3. <<x, Done>> = pre \o <<Done>>
  OBVIOUS
<1> HIDE DEF b, t, x
<1>4. Ends(t, b, pre, Done)
  BY <1>1, <1>2, <1>3 DEF Reads, ReaderFields, Ends
<1>5. ~StateOf(b).over /\ StateOf(b).known = Numbers(b)
  BY <1>1, ReaderState
<1>6. Fine(StateOf(b), x, StateOf(b), late) /\ Fine(StateOf(b), Done, State(Numbers(b), TRUE), late)
  BY <1>5, FineChunks DEF x
<1>7. Prelude(pre, StateOf(b), late)
  BY <1>6 DEF Prelude
<1> HIDE DEF pre
<1>8. Reads(t, D, p, late)
  BY <1>1, <1>4, <1>6, <1>7, ReadsEnd
<1> QED BY <1>4, <1>8 DEF Ends, t

\* What a reader of a Responses stream makes of an event (responses_stream_to_openai).
LEMMA ResponseRead ==
    ASSUME NEW r, NEW C, NEW p, NEW late, Reads(r, C, p, late), NEW e, NEW D,
           ~r.over => EventFine(e, C, D, late) /\ e.type # "start_call"
    PROVE  LET t == ReadResponseEvent(r, e)
           IN  Reads(t, D, p, late) /\ (~t.over => t.envelope = r.envelope)
<1> DEFINE t == ReadResponseEvent(r, e)
<1> DEFINE b == Begin(r)
<1>0. ASSUME ~r.over
      PROVE  /\ Reads(b, C, p, late) /\ ~b.over /\ b.envelope = r.envelope
             /\ ~StateOf(b).over /\ StateOf(b).known = Numbers(b)
             /\ C = {} => Numbers(b) = {}
  <2>1. Reads(b, C, p, late) /\ ~b.over /\ b.envelope = r.envelope
    BY <1>0, ReadsBegin
  <2> HIDE DEF b
  <2> QED BY <2>1, ReaderState
<1>1. CASE r.over
  <2>1. t = r
    BY <1>1 DEF ReadResponseEvent
  <2> QED BY <1>1, <2>1, ReadsOver
<1>2. CASE ~r.over /\ e.type = "created"
  <2>1. t = b
    BY <1>2 DEF ReadResponseEvent
  <2>2. D = C
    BY <1>2 DEF EventFine
  <2> QED BY <1>0, <1>2, <2>1, <2>2
<1>3. CASE ~r.over /\ e.type = "added_call"
  <2>1. t = OpensCall(b, e)
    BY <1>3 DEF ReadResponseEvent
  <2>2. e.index \notin C /\ e.data # NoId /\ D = C \cup {e.index} /\ (inbound = "responses" => ~late)
    BY <1>3 DEF EventFine
  <2> HIDE DEF b
  <2>3. Reads(OpensCall(b, e), C \cup {e.index}, p, late) /\ OpensCall(b, e).envelope = b.envelope
    BY <1>0, <1>3, <2>2, ReadsOpens
  <2> QED BY <1>0, <1>3, <2>1, <2>2, <2>3
<1>4. CASE ~r.over /\ e.type \in {"text", "reasoning"}
  <2> DEFINE x == E(IF e.type = "text" THEN "content" ELSE "reasoning", 0, e.data)
  <2>1. t = Emit(b, <<x>>)
    BY <1>4 DEF ReadResponseEvent
  <2>2. D = C /\ (e.type = "text" => C = {} \/ late)
    BY <1>4 DEF EventFine
  <2> HIDE DEF b
  <2>3. Fine(StateOf(b), x, StateOf(b), late)
    <3>1. CASE e.type = "text"
      <4>1. StateOf(b).known = {} \/ late
        BY <1>0, <1>4, <2>2, <3>1
      <4> QED BY <1>0, <1>4, <3>1, <4>1, FineChunks
    <3>2. CASE e.type # "text"
      BY <1>0, <1>4, <3>2, FineChunks
    <3> QED BY <3>1, <3>2
  <2> HIDE DEF t, x
  <2>4. Reads(t, C, p, late) /\ t.envelope = b.envelope
    BY <1>0, <1>4, <2>1, <2>3, ReadsEmits
  <2> QED BY <1>0, <1>4, <2>2, <2>4 DEF t
<1>5. CASE ~r.over /\ e.type = "args"
  <2> DEFINE x == CallChunk(CallOf(r, e), NoId, <<e.data>>)
  <2>1. t = Emit(r, <<x>>)
    BY <1>5 DEF ReadResponseEvent
  <2>2. D = C /\ e.index \in C
    BY <1>5 DEF EventFine
  <2>3. Fine(StateOf(r), x, StateOf(r), late)
    <3>1. ~StateOf(r).over /\ CallOf(r, e) \in StateOf(r).known
      BY <1>5, <2>2, ReaderState
    <3> QED BY <3>1, FineChunks
  <2> HIDE DEF t, x
  <2>4. Reads(t, C, p, late) /\ t.envelope = r.envelope
    BY <2>1, <2>3, ReadsEmits
  <2> QED BY <2>2, <2>4 DEF t
<1>6. CASE ~r.over /\ e.type \in {"completed", "incomplete", "failed"} /\ StoppedShort(e)
  <2>1. t = [[r EXCEPT !.over = TRUE] EXCEPT !.out = @ \o <<Cut>>] /\ <<>> \o <<Cut>> = <<Cut>>
    BY <1>6 DEF ReadResponseEvent, Over, Emit
  <2>2. Ends(t, r, <<>>, Cut)
    BY <2>1 DEF Reads, ReaderFields, Ends
  <2>3. Prelude(<<>>, StateOf(r), late) /\ Fine(StateOf(r), Cut, State(Numbers(r), TRUE), late)
    <3>1. ~StateOf(r).over /\ StateOf(r).known = Numbers(r)
      BY <1>6, ReaderState
    <3>2. Fine(StateOf(r), E("role", 0, 0), StateOf(r), late)
      BY <3>1, FineChunks
    <3>3. Fine(StateOf(r), Cut, State(Numbers(r), TRUE), late)
      BY <3>1, FineChunks
    <3> QED BY <3>2, <3>3 DEF Prelude
  <2> HIDE DEF t
  <2>4. Reads(t, D, p, late)
    BY <1>6, <2>2, <2>3, ReadsEnd
  <2> QED BY <2>2, <2>4 DEF Ends, t
<1>7. CASE ~r.over /\ (e.type = "eof" \/ (e.type \in {"completed", "incomplete", "failed"} /\ ~StoppedShort(e)))
  <2>1. \E why, usage : t = EndChunks(r, why, usage)
    BY <1>7 DEF ReadResponseEvent
  <2> QED BY <1>7, <2>1, EndRead
<1>8. CASE /\ ~r.over
           /\ e.type \notin {"created", "added_call", "text", "reasoning", "args", "completed",
                             "incomplete", "failed", "eof"}
  <2>1. t = r
    BY <1>8 DEF ReadResponseEvent
  <2>2. D = C
    BY <1>8 DEF EventFine
  <2> QED BY <2>1, <2>2
<1> QED BY <1>1, <1>2, <1>3, <1>4, <1>5, <1>6, <1>7, <1>8

\* The envelope an event is read with.
EnvelopeOf(r, e) ==
    IF upstream = "anthropic" THEN "anthropic"
    ELSE IF r.envelope # "" THEN r.envelope
    ELSE IF e.type \in AnthropicOpening THEN "anthropic" ELSE "responses"

\* The same, and it reads in the envelope d.
Heeds(r, C, p, late, d) ==
    /\ Reads(r, C, p, late)
    /\ ~r.over /\ upstream = "responses" => r.envelope = d

\* The discipline, for a stream in the envelope d.
SentFine(e, C, D, late, d) ==
    /\ EventFine(e, C, D, late)
    /\ e.type = "start_call" => d = "anthropic"
    /\ e.type = "added_call" => d # "anthropic"

\* The same, whichever envelope the stream is in.
LEMMA ReadNext ==
    ASSUME upstream \in {"anthropic", "responses"},
           NEW r, NEW C, NEW p, NEW late, Reads(r, C, p, late), NEW e, NEW D, NEW d,
           EnvelopeOf(r, e) = d, ~r.over => SentFine(e, C, D, late, d)
    PROVE  Heeds(ReadEvent(upstream, r, e), D, p, late, d)
<1>1. CASE upstream = "anthropic"
  <2>1. ReadEvent(upstream, r, e) = ReadAnthropic(r, e)
    BY <1>1 DEF ReadEvent
  <2>2. ~r.over => EventFine(e, C, D, late) /\ e.type # "added_call"
    BY <1>1 DEF EnvelopeOf, SentFine
  <2> QED BY <1>1, <2>1, <2>2, AnthropicRead DEF Heeds
<1>2. CASE upstream = "responses"
  <2> DEFINE t == [r EXCEPT !.envelope = d]
  <2>1. ReadEvent(upstream, r, e) = IF d = "anthropic" THEN ReadAnthropic(t, e) ELSE ReadResponseEvent(t, e)
    BY <1>2 DEF ReadEvent, ReadResponses, EnvelopeOf
  <2>2. /\ DOMAIN t = ReaderFields /\ t.over = r.over /\ t.calls = r.calls /\ t.out = r.out
        /\ t.envelope = d
    BY DEF Reads, ReaderFields
  <2> HIDE DEF t
  <2>3. Reads(t, C, p, late)
    BY <2>2, ReadsMoves
  <2>4. CASE d = "anthropic"
    <3>1. ~t.over => EventFine(e, C, D, late) /\ e.type # "added_call"
      BY <2>2, <2>4 DEF SentFine
    <3> QED BY <2>1, <2>2, <2>3, <2>4, <3>1, AnthropicRead DEF Heeds
  <2>5. CASE d # "anthropic"
    <3>1. ~t.over => EventFine(e, C, D, late) /\ e.type # "start_call"
      BY <2>2, <2>5 DEF SentFine
    <3> QED BY <2>1, <2>2, <2>3, <2>5, <3>1, ResponseRead DEF Heeds
  <2> QED BY <2>4, <2>5
<1> QED BY <1>1, <1>2

\* Reading nothing, and one event more.
LEMMA ReadAllNone ==
    ASSUME NEW dialect, NEW r
    PROVE  ReadAll(dialect, r, <<>>) = Quiet(r)
<1> DEFINE q == Quiet(r)
<1>1. ReadAll(dialect, r, <<>>) = Folds("read", dialect, q, <<>>)
  BY ReadsAreFolds DEF ReadAll
<1>2. \A kind : Folds(kind, dialect, q, <<>>) = q
  BY FoldOfNone
<1> HIDE DEF q
<1>3. Folds("read", dialect, q, <<>>) = q
  BY <1>2
<1> QED BY <1>1, <1>3 DEF q

LEMMA ReadAllMore ==
    ASSUME NEW dialect, NEW r, NEW s, IsSeq(s), NEW e
    PROVE  ReadAll(dialect, r, Append(s, e)) = ReadEvent(dialect, ReadAll(dialect, r, s), e)
<1> DEFINE q == Quiet(r)
<1> DEFINE t == Append(s, e)
<1>1. ReadAll(dialect, r, t) = Folds("read", dialect, q, t) /\ ReadAll(dialect, r, s) = Folds("read", dialect, q, s)
  BY ReadsAreFolds DEF ReadAll
<1>2. ASSUME NEW kind PROVE Folds(kind, dialect, q, t) = Stage(kind, dialect, Folds(kind, dialect, q, s), e)
  BY FoldOfMore
<1>3. Folds("read", dialect, q, t) = Stage("read", dialect, Folds("read", dialect, q, s), e)
  BY <1>2
<1> QED BY <1>1, <1>3 DEF Stage

IsNamed(d) == d # ""

\* An event more of a stream whose envelope is known.
LEMMA ReadsMore ==
    ASSUME upstream \in {"anthropic", "responses"},
           NEW r, NEW s, IsSeq(s), NEW C, NEW p, NEW late, NEW d,
           Heeds(ReadAll(upstream, r, s), C, p, late, d), IsNamed(d), upstream = "anthropic" => d = "anthropic",
           NEW e, NEW D, SentFine(e, C, D, late, d)
    PROVE  Heeds(ReadAll(upstream, r, Append(s, e)), D, p, late, d)
<1> DEFINE t == ReadAll(upstream, r, s)
<1>1. ReadAll(upstream, r, Append(s, e)) = ReadEvent(upstream, t, e)
  BY ReadAllMore
<1>2. Reads(t, C, p, late) /\ (~t.over /\ upstream = "responses" => t.envelope = d)
  BY DEF Heeds
<1> HIDE DEF t
<1>3. CASE ~t.over
  <2>1. EnvelopeOf(t, e) = d
    BY <1>2, <1>3, Zenon DEF EnvelopeOf, IsNamed
  <2> QED BY <1>1, <1>2, <2>1, ReadNext
<1>4. CASE t.over
  <2> DEFINE c == EnvelopeOf(t, e)
  <2> DEFINE u == ReadEvent(upstream, t, e)
  <2>1. Heeds(u, D, p, late, c)
    BY <1>2, <1>4, ReadNext
  <2>2. u.over
    <3>1. CASE upstream = "anthropic"
      BY <1>4, <3>1 DEF ReadEvent, ReadAnthropic
    <3>2. CASE upstream = "responses"
      <4> DEFINE v == [t EXCEPT !.envelope = c]
      <4>1. u = IF c = "anthropic" THEN ReadAnthropic(v, e) ELSE ReadResponseEvent(v, e)
        BY <3>2 DEF ReadEvent, ReadResponses, EnvelopeOf
      <4>2. v.over
        BY <1>2, <1>4 DEF Reads, ReaderFields
      <4> HIDE DEF u, v
      <4> QED BY <4>1, <4>2 DEF ReadAnthropic, ReadResponseEvent
    <3> QED BY <3>1, <3>2
  <2> QED BY <1>1, <2>1, <2>2 DEF Heeds
<1> QED BY <1>3, <1>4

-----------------------------------------------------------------------------
\* The calls among the blocks of an answer: their places, their numbers among the calls,
\* and whether a text came after one.
CallsOf(s) == {m \in DOMAIN s : s[m].type = "call"}
Rank(s, n) == Cardinality({i \in 1..(n - 1) : s[i].type = "call"})
CallPlaces(s) == {Index(n) : n \in CallsOf(s)}
CallNumbers(s) == {Rank(s, n) : n \in CallsOf(s)}
Late(s) == \E i, j \in DOMAIN s : i < j /\ s[i].type = "call" /\ s[j].type = "text"

\* The calls of an answer of the same kinds.
LEMMA SameKinds ==
    ASSUME NEW s, IsSeq(s), NEW t, DOMAIN t = DOMAIN s, \A i \in DOMAIN s : t[i].type = s[i].type
    PROVE  CallPlaces(t) = CallPlaces(s) /\ CallNumbers(t) = CallNumbers(s) /\ Late(t) = Late(s)
<1>1. CallsOf(t) = CallsOf(s)
  BY DEF CallsOf
<1>2. DOMAIN s = 1..Len(s) /\ Len(s) \in Nat
  BY Shape
<1>3. ASSUME NEW n \in CallsOf(s) PROVE Rank(t, n) = Rank(s, n)
  <2>1. \A i \in 1..(n - 1) : i \in DOMAIN s
    BY <1>2 DEF CallsOf
  <2>2. {i \in 1..(n - 1) : t[i].type = "call"} = {i \in 1..(n - 1) : s[i].type = "call"}
    BY <2>1
  <2> QED BY <2>2 DEF Rank
<1>4. CallPlaces(t) = CallPlaces(s) /\ CallNumbers(t) = CallNumbers(s)
  BY <1>1, <1>3 DEF CallPlaces, CallNumbers
<1>5. Late(t) = Late(s)
  BY DEF Late
<1> QED BY <1>4, <1>5

\* An answer of one block more.
LEMMA OneMore ==
    ASSUME NEW s, IsSeq(s), NEW b
    PROVE  LET t == Append(s, b) n == Len(s)
           IN  /\ CallsOf(t) = CallsOf(s) \cup (IF b.type = "call" THEN {n + 1} ELSE {})
               /\ n + 1 \notin CallsOf(s)
               /\ CallPlaces(t) = CallPlaces(s) \cup (IF b.type = "call" THEN {n} ELSE {})
               /\ n \notin CallPlaces(s)
               /\ \A m \in CallsOf(t) : Rank(t, m) = Rank(s, m)
               /\ Late(s) => Late(t)
<1> DEFINE t == Append(s, b)
<1> DEFINE n == Len(s)
<1>1. n \in Nat /\ DOMAIN s = 1..n
  BY Shape
<1>2. DOMAIN t = 1..(n + 1) /\ t[n + 1] = b /\ \A i \in 1..n : t[i] = s[i]
  <2>1. s \in Seq({s[i] : i \in DOMAIN s} \cup {b})
    BY Wider
  <2> QED BY <2>1
<1> HIDE DEF t, n
<1>3. CallsOf(t) = CallsOf(s) \cup (IF b.type = "call" THEN {n + 1} ELSE {}) /\ n + 1 \notin CallsOf(s)
  <2>1. \A m \in 1..(n + 1) : m = n + 1 \/ m \in 1..n
    BY <1>1
  <2>2. n + 1 \notin 1..n /\ n + 1 \in 1..(n + 1) /\ \A m \in 1..n : m \in 1..(n + 1)
    BY <1>1
  <2> QED BY <1>1, <1>2, <2>1, <2>2 DEF CallsOf
<1>4. /\ CallPlaces(t) = CallPlaces(s) \cup (IF b.type = "call" THEN {n} ELSE {})
      /\ n \notin CallPlaces(s)
  <2>1. Index(n + 1) = n /\ \A m \in CallsOf(s) : Index(m) # n
    BY <1>1, <1>3 DEF Index, CallsOf
  <2> QED BY <1>3, <2>1 DEF CallPlaces
<1>5. ASSUME NEW m \in CallsOf(t) PROVE Rank(t, m) = Rank(s, m)
  <2>1. \A i \in 1..(m - 1) : i \in 1..n
    BY <1>1, <1>2 DEF CallsOf
  <2>2. {i \in 1..(m - 1) : t[i].type = "call"} = {i \in 1..(m - 1) : s[i].type = "call"}
    BY <1>2, <2>1
  <2> QED BY <2>2 DEF Rank
<1>6. Late(s) => Late(t)
  <2>1. \A i \in DOMAIN s : i \in DOMAIN t /\ t[i] = s[i]
    BY <1>1, <1>2
  <2> QED BY <2>1 DEF Late
<1> QED BY <1>3, <1>4, <1>5, <1>6 DEF t, n

\* A new call has a number of its own.
LEMMA FreshNumber ==
    ASSUME NEW s, IsSeq(s), NEW b, b.type = "call"
    PROVE  LET n == Len(s) + 1 t == Append(s, b)
           IN  /\ Rank(s, n) \in Nat /\ Rank(s, n) \notin CallNumbers(s)
               /\ CallNumbers(t) = CallNumbers(s) \cup {Rank(s, n)}
<1> DEFINE n == Len(s) + 1
<1> DEFINE t == Append(s, b)
<1> DEFINE Before(m) == {i \in 1..(m - 1) : s[i].type = "call"}
<1>1. n \in Nat /\ DOMAIN s = 1..(n - 1)
  BY Shape
<1>2. /\ CallsOf(t) = CallsOf(s) \cup {n}
      /\ \A m \in CallsOf(t) : Rank(t, m) = Rank(s, m)
  BY OneMore
<1> HIDE DEF t, n
<1>3. ASSUME NEW m \in Nat PROVE IsFiniteSet(Before(m)) /\ Cardinality(Before(m)) = Rank(s, m) /\ Rank(s, m) \in Nat
  <2>1. IsFiniteSet(1..(m - 1))
    BY FS_Interval
  <2>2. Before(m) \subseteq 1..(m - 1)
    OBVIOUS
  <2>3. Cardinality(Before(m)) = Rank(s, m)
    BY DEF Rank
  <2> HIDE DEF Before
  <2> QED BY <2>1, <2>2, <2>3, FS_Subset, FS_CardinalityType
<1>4. ASSUME NEW m \in CallsOf(s) PROVE Rank(s, m) # Rank(s, n)
  <2>1. m \in Nat /\ m \in 1..(n - 1) /\ s[m].type = "call"
    BY <1>1 DEF CallsOf
  <2>2. Before(m) \subseteq Before(n) /\ m \in Before(n) /\ m \notin Before(m)
    <3>1. \A i \in 1..(m - 1) : i \in 1..(n - 1)
      BY <1>1, <2>1
    <3>2. m \notin 1..(m - 1)
      BY <2>1
    <3> QED BY <2>1, <3>1, <3>2
  <2>3. IsFiniteSet(Before(n)) /\ Cardinality(Before(n)) = Rank(s, n) /\ Cardinality(Before(m)) = Rank(s, m)
    BY <1>1, <1>3, <2>1
  <2> HIDE DEF Before
  <2> QED BY <2>2, <2>3, FS_Subset
<1>5. Rank(s, n) \notin CallNumbers(s)
  BY <1>4 DEF CallNumbers
<1>6. CallNumbers(t) = CallNumbers(s) \cup {Rank(s, n)}
  BY <1>2 DEF CallNumbers
<1> QED BY <1>1, <1>3, <1>5, <1>6 DEF t, n

-----------------------------------------------------------------------------
\* A client of the OpenAI dialect has a block for each of the calls in K.
Follows(K, c) ==
    /\ DOMAIN c = ClientFields /\ c.end \in {"none", "open"} /\ c.astray = FALSE
    /\ DOMAIN c.blocks \ {TextAt, ThinkingAt} = K

\* What a client of the OpenAI dialect makes of a chunk.
LEMMA TakesPieceChunk ==
    ASSUME NEW K, NEW c, Follows(K, c), NEW e, e.type \in {"content", "reasoning"}
    PROVE  Follows(K, TakeChunk(c, e))
<1> DEFINE i == IF e.type = "content" THEN TextAt ELSE ThinkingAt
<1> DEFINE type == IF e.type = "content" THEN "text" ELSE "thinking"
<1> DEFINE b == IF i \in DOMAIN c.blocks THEN c
                ELSE [c EXCEPT !.blocks = With(@, i, Block(type, NoId, <<>>))]
<1> DEFINE t == AppendPiece(b, i, e.data)
<1>1. TakeChunk(c, e) = t
  BY DEF TakeChunk
<1>2. DOMAIN b = ClientFields /\ b.end = c.end /\ b.astray = c.astray /\ DOMAIN b.blocks = DOMAIN c.blocks \cup {i}
  BY DEF Follows, ClientFields, With
<1> HIDE DEF b
<1>3. t = [b EXCEPT !.blocks[i].data = Append(@, e.data)]
  BY DEF AppendPiece
<1> HIDE DEF t
<1>4. DOMAIN t = ClientFields /\ t.end = b.end /\ t.astray = b.astray /\ DOMAIN t.blocks = DOMAIN b.blocks
  BY <1>2, <1>3 DEF ClientFields
<1>5. DOMAIN t.blocks \ {TextAt, ThinkingAt} = K
  BY <1>2, <1>4 DEF Follows
<1> HIDE DEF i
<1> QED BY <1>1, <1>2, <1>4, <1>5 DEF Follows

LEMMA TakesCallChunk ==
    ASSUME NEW p, p.known \subseteq Nat, NEW c, Follows(p.known, c), NEW e, e.type = "call", NEW q, NEW late,
           CallFine(p, e, q, late)
    PROVE  Follows(q.known, TakeChunk(c, e))
<1> DEFINE i == e.index
<1> DEFINE t == TakeChunk(c, e)
<1>0. TextAt \notin Nat /\ ThinkingAt \notin Nat
  BY DEF TextAt, ThinkingAt
<1>1. CASE e.data.id = NoId
  <2>1. i \in DOMAIN c.blocks /\ q = p
    BY <1>1 DEF CallFine, Follows
  <2>2. t = [c EXCEPT !.blocks[i].data = @ \o e.data.args]
    BY <1>1, <2>1 DEF TakeChunk, Unless
  <2> HIDE DEF t
  <2>3. DOMAIN t = ClientFields /\ t.end = c.end /\ t.astray = c.astray /\ DOMAIN t.blocks = DOMAIN c.blocks
    BY <2>1, <2>2 DEF Follows, ClientFields
  <2> QED BY <2>1, <2>3 DEF Follows, t
<1>2. CASE e.data.id # NoId
  <2>1. i \in Nat /\ i \notin p.known /\ q.known = p.known \cup {i}
    <3>1. i \in Nat /\ i \notin p.known /\ q = State(p.known \cup {i}, FALSE)
      BY <1>2 DEF CallFine
    <3> QED BY <3>1, StateFields
  <2>2. i \notin DOMAIN c.blocks
    BY <1>0, <2>1 DEF Follows
  <2> DEFINE b == Block("call", e.data.id, e.data.args)
  <2>3. t = [c EXCEPT !.blocks = With(@, i, b)]
    BY <1>2, <2>2 DEF TakeChunk, Unless
  <2> HIDE DEF t, b
  <2>4. DOMAIN t = ClientFields /\ t.end = c.end /\ t.astray = c.astray /\ t.blocks = With(c.blocks, i, b)
    BY <2>3 DEF Follows, ClientFields
  <2>5. DOMAIN t.blocks = DOMAIN c.blocks \cup {i}
    BY <2>4 DEF With
  <2>6. DOMAIN t.blocks \ {TextAt, ThinkingAt} = q.known
    BY <1>0, <2>1, <2>5 DEF Follows
  <2> HIDE DEF i
  <2> QED BY <2>4, <2>6 DEF Follows, t
<1> QED BY <1>1, <1>2

\* Any chunk at all.
LEMMA TakesChunk ==
    ASSUME inbound = "openai", NEW p, ~p.over, p.known \subseteq Nat, NEW c, Follows(p.known, c),
           NEW e, NEW q, NEW late, Fine(p, e, q, late)
    PROVE  LET t == Take(c, e) IN t.astray = FALSE /\ (~q.over => Follows(q.known, t))
<1> DEFINE o == Heard(c)
<1> DEFINE t == Take(c, e)
<1>1. /\ e.type # "cut" => t = TakeChunk(o, e)
      /\ e.type = "cut" => t = [o EXCEPT !.end = "cut"]
  BY DEF Take, Heard
<1>2. Follows(p.known, o)
  BY DEF Follows, Heard, ClientFields
<1> HIDE DEF o, t
<1>3. CASE e.type = "cut"
  <2>1. q.over
    BY <1>3, StateFields DEF Fine
  <2> QED BY <1>1, <1>2, <1>3, <2>1 DEF Follows, ClientFields, t
<1>4. CASE e.type = "done"
  <2>1. q.over /\ t = [o EXCEPT !.end = "complete"]
    BY <1>1, <1>4, StateFields DEF Fine, TakeChunk
  <2> QED BY <1>2, <2>1 DEF Follows, ClientFields, t
<1>5. CASE e.type = "eof"
  <2>1. q.over /\ t = o
    <3>1. q.over
      BY <1>5, StateFields DEF Fine
    <3>2. t = o
      BY <1>1, <1>5 DEF TakeChunk
    <3> QED BY <3>1, <3>2
  <2> QED BY <1>2, <2>1 DEF Follows, t
<1>6. CASE e.type = "call"
  <2>1. CallFine(p, e, q, late)
    BY <1>6 DEF Fine
  <2>2. Follows(q.known, t)
    BY <1>1, <1>2, <1>6, <2>1, TakesCallChunk
  <2> QED BY <2>2 DEF Follows, t
<1>7. CASE e.type \in {"content", "reasoning"}
  <2>1. q = p
    BY <1>7 DEF Fine
  <2>2. Follows(p.known, t)
    BY <1>1, <1>2, <1>7, TakesPieceChunk
  <2> QED BY <2>1, <2>2 DEF Follows, t
<1>8. CASE e.type = "last"
  <2>1. q = p /\ t = [o EXCEPT !.finish = e.data.finish, !.usage = e.data.usage]
    BY <1>1, <1>8 DEF Fine, TakeChunk
  <2>2. Follows(p.known, t)
    BY <1>2, <2>1 DEF Follows, ClientFields
  <2> QED BY <2>1, <2>2 DEF Follows, t
<1>9. CASE e.type \notin {"cut", "done", "eof", "call", "content", "reasoning", "last"}
  <2>1. q = p /\ t = o
    BY <1>1, <1>9 DEF Fine, TakeChunk
  <2> QED BY <1>2, <2>1 DEF Follows, t
<1> QED BY <1>3, <1>4, <1>5, <1>6, <1>7, <1>8, <1>9

-----------------------------------------------------------------------------
\* The state of a Responses writer, of its calls, and the items it has open.
ResponsesFields == {"open", "buffer", "calls", "item", "output", "finish", "usage", "over", "out"}
CallFields == {"item", "id", "args"}
OpenItems(s) == (IF s.open THEN {s.item} ELSE {}) \cup {s.calls[k].item : k \in DOMAIN s.calls}

\* The writer knows the items of a client of the Responses dialect.
ItemsKnown(s, d) ==
    /\ DOMAIN s = ResponsesFields /\ IsSeq(s.out) /\ s.item \in Nat /\ s.open \in BOOLEAN
    /\ IsFiniteSet(DOMAIN s.calls) /\ DOMAIN s.calls \subseteq Int
    /\ s.calls = <<>> \/ DOMAIN s.calls # {}
    /\ Listening(d) /\ d.open = OpenItems(s)
    /\ \A i \in DOMAIN d.blocks : i \in Nat /\ (i < s.item \/ (s.open /\ i = s.item))
    /\ s.open => Placed(d, s.item, "text") /\ d.blocks[s.item].data = s.buffer
    /\ ~s.open => s.buffer = <<>>
    /\ \A k \in DOMAIN s.calls :
          /\ DOMAIN s.calls[k] = CallFields /\ IsSeq(s.calls[k].args)
          /\ s.calls[k].item \in Nat /\ s.calls[k].item < s.item
          /\ Placed(d, s.calls[k].item, "call") /\ d.blocks[s.calls[k].item].data = s.calls[k].args
    /\ \A j, k \in DOMAIN s.calls : s.calls[j].item = s.calls[k].item => j = k

\* The block x is what the client has got of its open block i.
Delivers(c, i, x) == i \in c.open /\ Placed(c, i, x.type) /\ c.blocks[i].data = x.data

\* A client takes the end of an item that it has got as it is.
LEMMA TakesDone ==
    ASSUME inbound # "openai", NEW c, Listening(c), NEW i, NEW x, Delivers(c, i, x)
    PROVE  LET d == Take(c, E("done_item", i, x))
           IN  Listening(d) /\ d.blocks = c.blocks /\ d.open = c.open \ {i}
<1> DEFINE e == E("done_item", i, x)
<1> DEFINE o == Heard(c)
<1> DEFINE d == [o EXCEPT !.open = @ \ {i}]
<1>1. e.type = "done_item" /\ e.index = i /\ e.data = x
  BY EventFields
<1>2. /\ DOMAIN o = ClientFields /\ o.end = "open" /\ o.astray = FALSE
      /\ o.blocks = c.blocks /\ o.open = c.open
  BY HeardFields
<1> HIDE DEF e, o
<1>3. Take(c, e) = TakeBlockEvent(o, e)
  BY <1>1, Hears DEF o
<1>4. TakeBlockEvent(o, e) = d
  BY <1>1, <1>2, TypeNames DEF TakeBlockEvent, Unless, StartTypes, DeltaTypes, Placed, Delivers
<1>5. /\ DOMAIN d = ClientFields /\ d.end = "open" /\ d.astray = FALSE /\ d.blocks = c.blocks
      /\ d.open = c.open \ {i}
  BY <1>2 DEF ClientFields
<1> HIDE DEF d
<1>6. Listening(d)
  BY <1>5 DEF Listening
<1> QED BY <1>3, <1>4, <1>5, <1>6 DEF e

\* The items open and close: the client follows.
LEMMA ItemOpens ==
    ASSUME inbound # "openai", NEW c, NEW o, IsSeq(o), NEW s, ItemsKnown(s, Reached(c, o \o s.out))
    PROVE  LET t == OpenItem(s)
           IN  /\ ItemsKnown(t, Reached(c, o \o t.out))
               /\ t.open /\ t.calls = s.calls /\ t.over = s.over
<1> DEFINE d == Reached(c, o \o s.out)
<1>1. CASE s.open
  <2>1. OpenItem(s) = s
    BY <1>1 DEF OpenItem
  <2> QED BY <1>1, <2>1
<1>2. CASE ~s.open
  <2> DEFINE i == s.item
  <2> DEFINE e == E("added_text", i, 0)
  <2> DEFINE r == [s EXCEPT !.open = TRUE]
  <2> DEFINE t == Emit(r, <<e>>)
  <2> DEFINE d1 == Take(d, e)
  <2> HIDE DEF e
  <2>1. /\ DOMAIN r = ResponsesFields /\ IsSeq(r.out) /\ r.out = s.out /\ r.open = TRUE
        /\ r.item = i /\ r.calls = s.calls /\ r.buffer = s.buffer /\ r.over = s.over
    BY DEF ItemsKnown, ResponsesFields
  <2>2. OpenItem(s) = t
    BY <1>2 DEF OpenItem, e
  <2> HIDE DEF r
  <2>3. /\ DOMAIN t = ResponsesFields /\ IsSeq(t.out) /\ \A k \in ResponsesFields \ {"out"} : t[k] = r[k]
    BY <2>1, Emits DEF ResponsesFields
  <2>4. Reached(c, o \o t.out) = d1
    BY <2>1, Reaches DEF ResponsesFields
  <2> HIDE DEF t
  <2>5. /\ t.open = TRUE /\ t.item = i /\ t.calls = s.calls /\ t.buffer = s.buffer /\ t.over = s.over
    BY <2>1, <2>3 DEF ResponsesFields
  <2>6. /\ i \notin DOMAIN d.blocks /\ Listening(d) /\ i \in Nat /\ s.buffer = <<>>
        /\ \A j \in DOMAIN d.blocks : j \in Nat /\ j < i
    BY <1>2 DEF ItemsKnown
  <2> HIDE DEF d
  <2>7. /\ Listening(d1) /\ d1.open = d.open \cup {i}
        /\ DOMAIN d1.blocks = DOMAIN d.blocks \cup {i} /\ Placed(d1, i, "text") /\ d1.blocks[i].data = <<>>
        /\ \A j \in DOMAIN d.blocks : d1.blocks[j] = d.blocks[j]
    <3>1. "added_text" \in StartTypes /\ TypeOfStart["added_text"] = "text"
      BY DEF StartTypes, TypeOfStart
    <3> QED BY <2>6, <3>1, TakesStart DEF e
  <2> HIDE DEF d1
  <2>8. OpenItems(t) = OpenItems(s) \cup {i}
    BY <1>2, <2>5 DEF OpenItems
  <2>9. d.open = OpenItems(s)
    BY DEF ItemsKnown, d
  <2>10. \A j \in DOMAIN d1.blocks : j \in Nat /\ (j < t.item \/ (t.open /\ j = t.item))
    BY <2>5, <2>6, <2>7
  <2>11. \A k \in DOMAIN t.calls :
          /\ DOMAIN t.calls[k] = CallFields /\ IsSeq(t.calls[k].args)
          /\ t.calls[k].item \in Nat /\ t.calls[k].item < t.item
          /\ Placed(d1, t.calls[k].item, "call") /\ d1.blocks[t.calls[k].item].data = t.calls[k].args
    <3>1. \A k \in DOMAIN s.calls :
          /\ DOMAIN s.calls[k] = CallFields /\ IsSeq(s.calls[k].args)
          /\ s.calls[k].item \in Nat /\ s.calls[k].item < s.item
          /\ Placed(d, s.calls[k].item, "call") /\ d.blocks[s.calls[k].item].data = s.calls[k].args
      BY DEF ItemsKnown, d
    <3> QED BY <2>5, <2>7, <3>1 DEF Placed
  <2>12. /\ IsFiniteSet(DOMAIN t.calls) /\ DOMAIN t.calls \subseteq Int
         /\ t.calls = <<>> \/ DOMAIN t.calls # {}
         /\ \A j, k \in DOMAIN t.calls : t.calls[j].item = t.calls[k].item => j = k
    BY <2>5 DEF ItemsKnown
  <2>13. Placed(d1, t.item, "text") /\ d1.blocks[t.item].data = t.buffer
    BY <2>5, <2>6, <2>7
  <2> HIDE DEF i
  <2>14. ItemsKnown(t, d1)
    BY <2>3, <2>5, <2>6, <2>7, <2>8, <2>9, <2>10, <2>11, <2>12, <2>13 DEF ItemsKnown
  <2> QED BY <2>2, <2>4, <2>5, <2>14
<1> QED BY <1>1, <1>2

LEMMA ItemCloses ==
    ASSUME inbound # "openai", NEW c, NEW o, IsSeq(o), NEW s, ItemsKnown(s, Reached(c, o \o s.out))
    PROVE  LET t == CloseItem(s)
           IN  /\ ItemsKnown(t, Reached(c, o \o t.out))
               /\ ~t.open /\ t.calls = s.calls /\ t.over = s.over
<1> DEFINE d == Reached(c, o \o s.out)
<1>1. CASE ~s.open
  <2>1. CloseItem(s) = s
    BY <1>1 DEF CloseItem
  <2> QED BY <1>1, <2>1
<1>2. CASE s.open
  <2> DEFINE i == s.item
  <2> DEFINE b == Block("text", NoId, s.buffer)
  <2> DEFINE e == E("done_item", i, b)
  <2> DEFINE r == [s EXCEPT !.open = FALSE, !.buffer = <<>>, !.item = @ + 1, !.output = Append(@, b)]
  <2> DEFINE t == Emit(r, <<e>>)
  <2> DEFINE d1 == Take(d, e)
  <2> HIDE DEF e
  <2>1. /\ DOMAIN r = ResponsesFields /\ IsSeq(r.out) /\ r.out = s.out /\ r.open = FALSE
        /\ r.item = i + 1 /\ r.calls = s.calls /\ r.buffer = <<>> /\ r.over = s.over
    BY DEF ItemsKnown, ResponsesFields
  <2>2. CloseItem(s) = t
    BY <1>2 DEF CloseItem, e
  <2> HIDE DEF r
  <2>3. /\ DOMAIN t = ResponsesFields /\ IsSeq(t.out) /\ \A k \in ResponsesFields \ {"out"} : t[k] = r[k]
    BY <2>1, Emits DEF ResponsesFields
  <2>4. Reached(c, o \o t.out) = d1
    BY <2>1, Reaches DEF ResponsesFields
  <2> HIDE DEF t
  <2>5. /\ t.open = FALSE /\ t.item = i + 1 /\ t.calls = s.calls /\ t.buffer = <<>> /\ t.over = s.over
    BY <2>1, <2>3 DEF ResponsesFields
  <2>6. /\ i \in d.open /\ Placed(d, i, "text") /\ Listening(d) /\ i \in Nat /\ d.blocks[i].data = s.buffer
        /\ \A j \in DOMAIN d.blocks : j \in Nat /\ (j < i \/ j = i)
    BY <1>2 DEF ItemsKnown, OpenItems
  <2> HIDE DEF d
  <2>7. Listening(d1) /\ d1.blocks = d.blocks /\ d1.open = d.open \ {i}
    <3>1. b.type = "text" /\ b.data = s.buffer
      BY DEF Block
    <3> HIDE DEF b
    <3>2. Delivers(d, i, b)
      BY <2>6, <3>1 DEF Delivers
    <3> QED BY <2>6, <3>2, TakesDone DEF e
  <2> HIDE DEF d1
  <2>8. OpenItems(t) = OpenItems(s) \ {i}
    <3>1. \A k \in DOMAIN s.calls : s.calls[k].item # i
      <4>1. \A k \in DOMAIN s.calls : s.calls[k].item \in Nat /\ s.calls[k].item < i
        BY DEF ItemsKnown
      <4> QED BY <2>6, <4>1
    <3> HIDE DEF i
    <3>2. OpenItems(s) = {i} \cup {s.calls[k].item : k \in DOMAIN s.calls}
      BY <1>2 DEF OpenItems, i
    <3>3. OpenItems(t) = {s.calls[k].item : k \in DOMAIN s.calls}
      BY <2>5 DEF OpenItems
    <3> QED BY <3>1, <3>2, <3>3
  <2>9. d.open = OpenItems(s)
    BY DEF ItemsKnown, d
  <2>10. t.item \in Nat /\ \A j \in DOMAIN d1.blocks : j \in Nat /\ j < t.item
    BY <2>5, <2>6, <2>7
  <2>11. \A k \in DOMAIN t.calls :
          /\ DOMAIN t.calls[k] = CallFields /\ IsSeq(t.calls[k].args)
          /\ t.calls[k].item \in Nat /\ t.calls[k].item < t.item
          /\ Placed(d1, t.calls[k].item, "call") /\ d1.blocks[t.calls[k].item].data = t.calls[k].args
    <3>1. \A k \in DOMAIN s.calls :
          /\ DOMAIN s.calls[k] = CallFields /\ IsSeq(s.calls[k].args)
          /\ s.calls[k].item \in Nat /\ s.calls[k].item < i
          /\ Placed(d, s.calls[k].item, "call") /\ d.blocks[s.calls[k].item].data = s.calls[k].args
      BY DEF ItemsKnown, d
    <3> HIDE DEF i
    <3>2. \A k \in DOMAIN s.calls : s.calls[k].item < i + 1
      BY <2>6, <3>1
    <3> QED BY <2>5, <2>7, <3>1, <3>2 DEF Placed
  <2>12. /\ IsFiniteSet(DOMAIN t.calls) /\ DOMAIN t.calls \subseteq Int
         /\ t.calls = <<>> \/ DOMAIN t.calls # {}
         /\ \A j, k \in DOMAIN t.calls : t.calls[j].item = t.calls[k].item => j = k
    BY <2>5 DEF ItemsKnown
  <2> HIDE DEF i
  <2>13. ItemsKnown(t, d1)
    BY <2>3, <2>5, <2>7, <2>8, <2>9, <2>10, <2>11, <2>12 DEF ItemsKnown
  <2> QED BY <2>2, <2>4, <2>5, <2>13
<1> QED BY <1>1, <1>2

\* A new call of a client that has no text open, or had no call.
LEMMA CallItemOpens ==
    ASSUME inbound # "openai", NEW c, NEW o, IsSeq(o), NEW s, ItemsKnown(s, Reached(c, o \o s.out)),
           NEW e, e.index \in Int, e.index \notin DOMAIN s.calls, DOMAIN s.calls # {} => ~s.open
    PROVE  LET t == OpenCallItem(s, e)
           IN  /\ ItemsKnown(t, Reached(c, o \o t.out)) /\ ~t.open
               /\ DOMAIN t.calls = DOMAIN s.calls \cup {e.index} /\ t.over = s.over
<1> DEFINE q == IF s.calls = <<>> THEN CloseItem(s) ELSE s
<1> DEFINE d == Reached(c, o \o q.out)
<1> DEFINE i == q.item
<1> DEFINE x == [item |-> i, id |-> e.data.id, args |-> <<>>]
<1> DEFINE f == E("added_call", i, e.data.id)
<1> DEFINE r == [q EXCEPT !.calls = With(@, e.index, x), !.item = @ + 1]
<1> DEFINE t == Emit(r, <<f>>)
<1> DEFINE d1 == Take(d, f)
<1>1. OpenCallItem(s, e) = t
  BY DEF OpenCallItem
<1> HIDE DEF f
<1>2. ItemsKnown(q, d) /\ ~q.open /\ q.calls = s.calls /\ q.over = s.over
  <2>1. CASE s.calls = <<>>
    BY <2>1, ItemCloses
  <2>2. CASE s.calls # <<>>
    <3>1. q = s
      BY <2>2
    <3>2. ~s.open
      BY <2>2 DEF ItemsKnown
    <3> QED BY <3>1, <3>2
  <2> QED BY <2>1, <2>2
<1> HIDE DEF q
<1>3. DOMAIN x = CallFields /\ x.item = i /\ x.args = <<>>
  BY DEF CallFields
<1> HIDE DEF x
<1>4. /\ DOMAIN r = ResponsesFields /\ IsSeq(r.out) /\ r.out = q.out /\ r.open = q.open
      /\ r.item = i + 1 /\ r.calls = With(q.calls, e.index, x) /\ r.buffer = q.buffer /\ r.over = q.over
  BY <1>2 DEF ItemsKnown, ResponsesFields
<1> HIDE DEF r
<1>5. /\ DOMAIN t = ResponsesFields /\ IsSeq(t.out) /\ \A k \in ResponsesFields \ {"out"} : t[k] = r[k]
  BY <1>4, Emits DEF ResponsesFields
<1>6. Reached(c, o \o t.out) = d1
  BY <1>4, Reaches DEF ResponsesFields
<1> HIDE DEF t
<1>7. /\ t.open = q.open /\ t.item = i + 1 /\ t.calls = With(q.calls, e.index, x)
      /\ t.buffer = q.buffer /\ t.over = q.over
  BY <1>4, <1>5 DEF ResponsesFields
<1>8. /\ i \notin DOMAIN d.blocks /\ Listening(d) /\ i \in Nat /\ q.buffer = <<>>
      /\ \A j \in DOMAIN d.blocks : j \in Nat /\ j < i
  BY <1>2 DEF ItemsKnown
<1> HIDE DEF d
<1>9. /\ Listening(d1) /\ d1.open = d.open \cup {i}
      /\ DOMAIN d1.blocks = DOMAIN d.blocks \cup {i} /\ Placed(d1, i, "call") /\ d1.blocks[i].data = <<>>
      /\ \A j \in DOMAIN d.blocks : d1.blocks[j] = d.blocks[j]
  <2>1. "added_call" \in StartTypes /\ TypeOfStart["added_call"] = "call"
    BY DEF StartTypes, TypeOfStart
  <2> QED BY <1>8, <2>1, TakesStart DEF f
<1> HIDE DEF d1
<1>10. /\ DOMAIN t.calls = DOMAIN q.calls \cup {e.index} /\ t.calls[e.index] = x
       /\ \A k \in DOMAIN q.calls : t.calls[k] = q.calls[k]
  BY <1>2, <1>7 DEF With
<1>11. OpenItems(t) = OpenItems(q) \cup {i}
  <2>1. OpenItems(t) = {t.calls[k].item : k \in DOMAIN t.calls}
    BY <1>2, <1>7 DEF OpenItems
  <2>2. OpenItems(q) = {q.calls[k].item : k \in DOMAIN q.calls}
    BY <1>2 DEF OpenItems
  <2> HIDE DEF i
  <2> QED BY <2>1, <2>2, <1>10, <1>3
<1>12. t.item \in Nat /\ \A j \in DOMAIN d1.blocks : j \in Nat /\ j < t.item
  <2> HIDE DEF i
  <2> QED BY <1>7, <1>8, <1>9
<1>13. \A k \in DOMAIN q.calls :
          /\ DOMAIN q.calls[k] = CallFields /\ IsSeq(q.calls[k].args)
          /\ q.calls[k].item \in Nat /\ q.calls[k].item < i
          /\ Placed(d, q.calls[k].item, "call") /\ d.blocks[q.calls[k].item].data = q.calls[k].args
  BY <1>2 DEF ItemsKnown
<1>14. \A k \in DOMAIN t.calls :
          /\ DOMAIN t.calls[k] = CallFields /\ IsSeq(t.calls[k].args)
          /\ t.calls[k].item \in Nat /\ t.calls[k].item < t.item
          /\ Placed(d1, t.calls[k].item, "call") /\ d1.blocks[t.calls[k].item].data = t.calls[k].args
  <2> HIDE DEF i
  <2>1. IsSeq(<<>>)
    BY LiteralSeqs
  <2>2. i < i + 1 /\ \A k \in DOMAIN q.calls : q.calls[k].item < i + 1
    BY <1>8, <1>13
  <2>3. ASSUME NEW k \in DOMAIN q.calls
        PROVE  /\ DOMAIN t.calls[k] = CallFields /\ IsSeq(t.calls[k].args)
               /\ t.calls[k].item \in Nat /\ t.calls[k].item < t.item
               /\ Placed(d1, t.calls[k].item, "call") /\ d1.blocks[t.calls[k].item].data = t.calls[k].args
    BY <1>7, <1>9, <1>10, <1>13, <2>2 DEF Placed
  <2> QED BY <1>3, <1>7, <1>8, <1>9, <1>10, <2>1, <2>2, <2>3
<1>15. IsFiniteSet(DOMAIN t.calls) /\ DOMAIN t.calls \subseteq Int /\ DOMAIN t.calls # {}
  BY <1>2, <1>10, FS_AddElement DEF ItemsKnown
<1>16. \A j, k \in DOMAIN t.calls : t.calls[j].item = t.calls[k].item => j = k
  <2>1. \A k \in DOMAIN q.calls : q.calls[k].item # i
    BY <1>8, <1>13
  <2>2. \A j, k \in DOMAIN q.calls : q.calls[j].item = q.calls[k].item => j = k
    BY <1>2 DEF ItemsKnown
  <2> HIDE DEF i
  <2> QED BY <1>3, <1>10, <2>1, <2>2
<1>17. d.open = OpenItems(q)
  BY <1>2 DEF ItemsKnown
<1> HIDE DEF i
<1>18. ItemsKnown(t, d1)
  BY <1>2, <1>5, <1>7, <1>8, <1>9, <1>11, <1>12, <1>14, <1>15, <1>16, <1>17 DEF ItemsKnown
<1> QED BY <1>1, <1>2, <1>6, <1>7, <1>10, <1>18

\* All calls are closed at the end, each with its arguments.
LEMMA CallItemsClose ==
    ASSUME inbound # "openai", NEW c, NEW o, IsSeq(o), NEW s, ItemsKnown(s, Reached(c, o \o s.out)), ~s.open
    PROVE  LET t == CloseCallItems(s)
               d == Reached(c, o \o t.out)
           IN  /\ DOMAIN t = ResponsesFields /\ IsSeq(t.out)
               /\ Listening(d) /\ d.open = {}
<1> DEFINE D == DOMAIN s.calls
<1> DEFINE n == Cardinality(D)
<1> DEFINE cs == ByIndex(s.calls)
<1> DEFINE bs == [i \in DOMAIN cs |-> Block("call", cs[i].id, cs[i].args)]
<1> DEFINE evs == [i \in DOMAIN cs |-> E("done_item", cs[i].item, bs[i])]
<1> DEFINE Pre(m) == [k \in 1..m |-> evs[k]]
<1> DEFINE d(m) == Reached(c, o \o (s.out \o Pre(m)))
<1> DEFINE d0 == Reached(c, o \o s.out)
<1>1. n \in Nat /\ IsSeq(s.out) /\ DOMAIN s = ResponsesFields /\ Listening(d0)
  BY NthIsUnique DEF ItemsKnown
<1>2. /\ \A i \in 1..n : Nth(D, i) \in D
      /\ \A i, j \in 1..n : Nth(D, i) = Nth(D, j) => i = j
      /\ \A k \in D : \E i \in 1..n : Nth(D, i) = k
  BY NthIsUnique DEF ItemsKnown
<1>3. DOMAIN cs = 1..n /\ \A i \in 1..n : cs[i] = s.calls[Nth(D, i)]
  BY DEF ByIndex
<1>4. CloseCallItems(s) = Emit([s EXCEPT !.output = @ \o bs], evs)
  BY DEF CloseCallItems
<1> HIDE DEF cs
<1>5. \A i, j \in 1..n : cs[i].item = cs[j].item => i = j
  BY <1>2, <1>3 DEF ItemsKnown
<1>6. d0.open = {cs[i].item : i \in 1..n}
  <2>1. d0.open = {s.calls[k].item : k \in D}
    BY DEF ItemsKnown, OpenItems
  <2> HIDE DEF D, d0
  <2> QED BY <1>2, <1>3, <2>1
<1>7. \A i \in 1..n : Placed(d0, cs[i].item, "call") /\ d0.blocks[cs[i].item].data = cs[i].args
  BY <1>2, <1>3 DEF ItemsKnown
<1>8. DOMAIN evs = 1..n /\ \A i \in 1..n : evs[i] = E("done_item", cs[i].item, Block("call", cs[i].id, cs[i].args))
  BY <1>3
<1>9. evs = [i \in 1..n |-> evs[i]]
  BY <1>3
<1> HIDE DEF evs, n, D, d0, bs
<1> DEFINE h == [m \in 0..n |-> /\ Listening(d(m)) /\ d(m).blocks = d0.blocks
                                /\ d(m).open = {cs[i].item : i \in (m + 1)..n}]
<1>10. h[0]
  <2>1. Pre(0) = <<>>
    OBVIOUS
  <2>2. s.out \o Pre(0) = s.out
    <3> HIDE DEF Pre
    <3> QED BY <1>1, <2>1, JoinOfNone
  <2>3. d(0) = d0
    BY <2>2 DEF d0
  <2> HIDE DEF d
  <2>4. /\ Listening(d(0)) /\ d(0).open = {cs[i].item : i \in (0 + 1)..n} /\ 0 \in 0..n
        /\ d(0).blocks = d0.blocks
    BY <1>1, <1>6, <2>3
  <2> QED BY <2>4
<1>11. ASSUME NEW m \in 1..n, h[m - 1] PROVE h[m]
  <2>1. m - 1 \in 0..n /\ m \in 0..n /\ (m - 1) + 1 = m /\ m \in m..n
    BY <1>1
  <2>2. d(m) = Take(d(m - 1), evs[m])
    BY <1>1, <1>8, EmitsEach
  <2> DEFINE a == d(m - 1)
  <2> DEFINE b == d(m)
  <2>3. Listening(a) /\ a.blocks = d0.blocks /\ a.open = {cs[i].item : i \in m..n}
    <3> HIDE DEF d
    <3> QED BY <2>1, <1>11
  <2>4. h[m] <=> Listening(b) /\ b.blocks = d0.blocks /\ b.open = {cs[i].item : i \in (m + 1)..n}
    <3> HIDE DEF d
    <3> QED BY <2>1
  <2>5. b = Take(a, E("done_item", cs[m].item, Block("call", cs[m].id, cs[m].args)))
    BY <1>8, <2>2
  <2> HIDE DEF a, b, h
  <2>6. cs[m].item \in a.open /\ Placed(a, cs[m].item, "call") /\ a.blocks[cs[m].item].data = cs[m].args
    BY <1>7, <2>1, <2>3 DEF Placed
  <2>7. Listening(b) /\ b.blocks = a.blocks /\ b.open = a.open \ {cs[m].item}
    <3> DEFINE x == Block("call", cs[m].id, cs[m].args)
    <3>1. x.type = "call" /\ x.data = cs[m].args
      BY DEF Block
    <3>2. Delivers(a, cs[m].item, x)
      BY <2>6, <3>1 DEF Delivers
    <3> HIDE DEF x
    <3> QED BY <2>3, <2>5, <3>2, TakesDone DEF x
  <2>8. {cs[i].item : i \in m..n} \ {cs[m].item} = {cs[i].item : i \in (m + 1)..n}
    BY <1>1, <1>5
  <2> QED BY <2>3, <2>4, <2>7, <2>8
<1>12. h[n]
  <2> HIDE DEF h
  <2> QED BY <1>1, <1>10, <1>11, UpTo
<1>13. Listening(d(n)) /\ d(n).open = {}
  <2>1. n \in 0..n /\ {cs[i].item : i \in (n + 1)..n} = {}
    BY <1>1
  <2> HIDE DEF d
  <2> QED BY <2>1, <1>12
<1>14. Pre(n) = evs
  BY <1>9
<1>15. IsSeq(s.out \o evs)
  <2>1. evs \in Seq(Elements(evs))
    <3>1. evs \in [1..n -> Elements(evs)]
      BY <1>9, <1>8 DEF Elements
    <3> QED BY <1>1, <3>1
  <2>2. IsSeq(evs)
    BY <2>1 DEF IsSeq
  <2> QED BY <1>1, <2>2, JoinIsSeq
<1> DEFINE t == Emit([s EXCEPT !.output = @ \o bs], evs)
<1>16. t.out = s.out \o evs /\ DOMAIN t = ResponsesFields
  BY <1>1 DEF Emit, ResponsesFields
<1> HIDE DEF Pre, t
<1> QED BY <1>4, <1>13, <1>14, <1>15, <1>16 DEF t

\* The items of t are those of s.
SameItems(s, t) ==
    /\ DOMAIN t = ResponsesFields /\ IsSeq(t.out)
    /\ t.open = s.open /\ t.item = s.item /\ t.buffer = s.buffer
    /\ DOMAIN t.calls = DOMAIN s.calls /\ (t.calls = <<>> \/ DOMAIN t.calls # {})
    /\ \A k \in DOMAIN s.calls :
          DOMAIN t.calls[k] = CallFields /\ t.calls[k].item = s.calls[k].item /\ t.calls[k].args = s.calls[k].args

\* What else changes is not the client's.
LEMMA ItemsStay ==
    ASSUME NEW s, NEW d, ItemsKnown(s, d), NEW t, SameItems(s, t)
    PROVE  ItemsKnown(t, d)
<1>1. OpenItems(t) = OpenItems(s)
  BY DEF OpenItems, SameItems
<1>2. \A k \in DOMAIN t.calls :
          /\ DOMAIN t.calls[k] = CallFields /\ IsSeq(t.calls[k].args)
          /\ t.calls[k].item \in Nat /\ t.calls[k].item < t.item
          /\ Placed(d, t.calls[k].item, "call") /\ d.blocks[t.calls[k].item].data = t.calls[k].args
  BY DEF ItemsKnown, SameItems
<1>3. \A j, k \in DOMAIN t.calls : t.calls[j].item = t.calls[k].item => j = k
  BY DEF ItemsKnown, SameItems
<1> QED BY <1>1, <1>2, <1>3 DEF ItemsKnown, SameItems

\* t is s after a piece x of its text, or of the arguments of call n.
TextGrows(s, t, x) == t = Emit([s EXCEPT !.buffer = Append(@, x)], <<E("text", s.item, x)>>)
ArgsGrow(s, t, n, x) == t = Emit([s EXCEPT !.calls[n].args = @ \o <<x>>], <<E("args", s.calls[n].item, x)>>)

\* A piece of a text or of the arguments of a call.
LEMMA ItemGrows ==
    ASSUME inbound # "openai", NEW c, NEW o, IsSeq(o), NEW s, ItemsKnown(s, Reached(c, o \o s.out)), s.open,
           NEW t, NEW x, TextGrows(s, t, x)
    PROVE  ItemsKnown(t, Reached(c, o \o t.out)) /\ t.open /\ t.calls = s.calls /\ t.over = s.over
<1> DEFINE d == Reached(c, o \o s.out)
<1> DEFINE i == s.item
<1> DEFINE e == E("text", i, x)
<1> DEFINE r == [s EXCEPT !.buffer = Append(@, x)]
<1> DEFINE d1 == Take(d, e)
<1>0. t = Emit(r, <<e>>)
  BY DEF TextGrows
<1> HIDE DEF e
<1>1. /\ DOMAIN r = ResponsesFields /\ IsSeq(r.out) /\ r.out = s.out /\ r.open = s.open
      /\ r.item = i /\ r.calls = s.calls /\ r.buffer = Append(s.buffer, x) /\ r.over = s.over
  BY DEF ItemsKnown, ResponsesFields
<1> HIDE DEF r
<1>2. /\ DOMAIN t = ResponsesFields /\ IsSeq(t.out) /\ \A k \in ResponsesFields \ {"out"} : t[k] = r[k]
  BY <1>0, <1>1, Emits DEF ResponsesFields
<1>3. Reached(c, o \o t.out) = d1
  BY <1>0, <1>1, Reaches DEF ResponsesFields
<1>4. /\ t.open = s.open /\ t.item = i /\ t.calls = s.calls /\ t.buffer = Append(s.buffer, x) /\ t.over = s.over
  BY <1>1, <1>2 DEF ResponsesFields
<1>5. i \in d.open /\ Placed(d, i, "text") /\ Listening(d) /\ i \in Nat /\ d.blocks[i].data = s.buffer
  BY DEF ItemsKnown, OpenItems
<1>6. \A j \in DOMAIN d.blocks : j \in Nat /\ (j < i \/ j = i)
  BY DEF ItemsKnown
<1>7. d.open = OpenItems(s) /\ OpenItems(t) = OpenItems(s)
  BY <1>4 DEF ItemsKnown, OpenItems
<1>8. \A k \in DOMAIN s.calls :
          /\ DOMAIN s.calls[k] = CallFields /\ IsSeq(s.calls[k].args)
          /\ s.calls[k].item \in Nat /\ s.calls[k].item < i
          /\ Placed(d, s.calls[k].item, "call") /\ d.blocks[s.calls[k].item].data = s.calls[k].args
  BY DEF ItemsKnown
<1> HIDE DEF d
<1>9. /\ Listening(d1) /\ d1.open = d.open /\ SameBlocks(d, d1)
      /\ d1.blocks[i].data = Append(d.blocks[i].data, x)
      /\ \A j \in DOMAIN d.blocks \ {i} : d1.blocks[j] = d.blocks[j]
  <2> DEFINE type == "text"
  <2>1. type \in DeltaTypes /\ TypeOfDelta[type] = "text" /\ e = E(type, i, x)
    BY DEF DeltaTypes, TypeOfDelta, e
  <2>2. Placed(d, i, TypeOfDelta[type])
    BY <1>5, <2>1
  <2>4. i \in d.open /\ Listening(d) /\ type \in DeltaTypes
    BY <1>5, <2>1
  <2> HIDE DEF type, i
  <2>3. LET g == Take(d, E(type, i, x))
        IN  /\ Listening(g) /\ g.open = d.open /\ SameBlocks(d, g)
            /\ g.blocks[i].data = Append(d.blocks[i].data, x)
            /\ \A j \in DOMAIN d.blocks \ {i} : g.blocks[j] = d.blocks[j]
    BY <2>2, <2>4, TakesDelta
  <2> QED BY <2>1, <2>3
<1> HIDE DEF d1
<1>10. \A k \in DOMAIN t.calls :
          /\ DOMAIN t.calls[k] = CallFields /\ IsSeq(t.calls[k].args)
          /\ t.calls[k].item \in Nat /\ t.calls[k].item < t.item
          /\ Placed(d1, t.calls[k].item, "call") /\ d1.blocks[t.calls[k].item].data = t.calls[k].args
  <2>1. \A k \in DOMAIN s.calls : s.calls[k].item # i
    BY <1>5, <1>8
  <2> HIDE DEF i
  <2> QED BY <1>4, <1>8, <1>9, <2>1 DEF SameBlocks, Placed
<1>11. Placed(d1, t.item, "text") /\ d1.blocks[t.item].data = t.buffer
  BY <1>4, <1>5, <1>9 DEF SameBlocks, Placed
<1>12. \A j \in DOMAIN d1.blocks : j \in Nat /\ (j < t.item \/ (t.open /\ j = t.item))
  <2> HIDE DEF i
  <2> QED BY <1>4, <1>6, <1>9 DEF SameBlocks
<1>13. /\ IsFiniteSet(DOMAIN t.calls) /\ DOMAIN t.calls \subseteq Int
       /\ t.calls = <<>> \/ DOMAIN t.calls # {}
       /\ \A j, k \in DOMAIN t.calls : t.calls[j].item = t.calls[k].item => j = k
  BY <1>4 DEF ItemsKnown
<1> HIDE DEF i
<1>14. ItemsKnown(t, d1)
  BY <1>2, <1>4, <1>5, <1>7, <1>9, <1>10, <1>11, <1>12, <1>13 DEF ItemsKnown
<1> QED BY <1>3, <1>4, <1>14

LEMMA CallItemGrows ==
    ASSUME inbound # "openai", NEW c, NEW o, IsSeq(o), NEW s, ItemsKnown(s, Reached(c, o \o s.out)),
           NEW t, NEW n \in DOMAIN s.calls, NEW x, ArgsGrow(s, t, n, x)
    PROVE  /\ ItemsKnown(t, Reached(c, o \o t.out)) /\ t.open = s.open
           /\ DOMAIN t.calls = DOMAIN s.calls /\ t.over = s.over
<1> DEFINE d == Reached(c, o \o s.out)
<1> DEFINE i == s.calls[n].item
<1> DEFINE e == E("args", i, x)
<1> DEFINE r == [s EXCEPT !.calls[n].args = @ \o <<x>>]
<1> DEFINE d1 == Take(d, e)
<1>0. t = Emit(r, <<e>>)
  BY DEF ArgsGrow
<1> HIDE DEF e
<1>1. /\ DOMAIN r = ResponsesFields /\ IsSeq(r.out) /\ r.out = s.out /\ r.open = s.open
      /\ r.item = s.item /\ r.buffer = s.buffer /\ r.over = s.over
      /\ r.calls = [s.calls EXCEPT ![n].args = @ \o <<x>>]
  BY DEF ItemsKnown, ResponsesFields
<1>a. \A k \in DOMAIN s.calls :
          /\ DOMAIN s.calls[k] = CallFields /\ IsSeq(s.calls[k].args)
          /\ s.calls[k].item \in Nat /\ s.calls[k].item < s.item
          /\ Placed(d, s.calls[k].item, "call") /\ d.blocks[s.calls[k].item].data = s.calls[k].args
  BY DEF ItemsKnown
<1>b. /\ DOMAIN r.calls = DOMAIN s.calls
      /\ \A k \in DOMAIN s.calls : DOMAIN r.calls[k] = CallFields /\ r.calls[k].item = s.calls[k].item
      /\ r.calls[n].args = Append(s.calls[n].args, x)
      /\ \A k \in DOMAIN s.calls \ {n} : r.calls[k].args = s.calls[k].args
  <2>1. s.calls[n].args \o <<x>> = Append(s.calls[n].args, x)
    BY <1>a, JoinOfOne
  <2> HIDE DEF r, d
  <2> QED BY <1>1, <1>a, <2>1 DEF CallFields
<1> HIDE DEF r
<1>2. /\ DOMAIN t = ResponsesFields /\ IsSeq(t.out) /\ \A k \in ResponsesFields \ {"out"} : t[k] = r[k]
  BY <1>0, <1>1, Emits DEF ResponsesFields
<1>3. Reached(c, o \o t.out) = d1
  BY <1>0, <1>1, Reaches DEF ResponsesFields
<1>4. /\ t.open = s.open /\ t.item = s.item /\ t.calls = r.calls /\ t.buffer = s.buffer /\ t.over = s.over
  BY <1>1, <1>2 DEF ResponsesFields
<1>5. i \in d.open /\ Placed(d, i, "call") /\ Listening(d) /\ i \in Nat /\ d.blocks[i].data = s.calls[n].args
  BY DEF ItemsKnown, OpenItems
<1>6. \A j \in DOMAIN d.blocks : j \in Nat /\ (j < s.item \/ (s.open /\ j = s.item))
  BY DEF ItemsKnown
<1>7. d.open = OpenItems(s) /\ OpenItems(t) = OpenItems(s)
  <2>1. d.open = OpenItems(s)
    BY DEF ItemsKnown
  <2> HIDE DEF d
  <2> QED BY <2>1, <1>b, <1>4 DEF OpenItems
<1>8. s.item \in Nat /\ (s.open => Placed(d, s.item, "text") /\ d.blocks[s.item].data = s.buffer)
  BY DEF ItemsKnown
<1> HIDE DEF d
<1>9. /\ Listening(d1) /\ d1.open = d.open /\ SameBlocks(d, d1)
      /\ d1.blocks[i].data = Append(d.blocks[i].data, x)
      /\ \A j \in DOMAIN d.blocks \ {i} : d1.blocks[j] = d.blocks[j]
  <2>1. "args" \in DeltaTypes /\ TypeOfDelta["args"] = "call"
    BY DEF DeltaTypes, TypeOfDelta
  <2> QED BY <1>5, <2>1, TakesDelta DEF e
<1> HIDE DEF d1
<1>d. \A j, k \in DOMAIN s.calls : s.calls[j].item = s.calls[k].item => j = k
  BY DEF ItemsKnown
<1>10. ASSUME NEW k \in DOMAIN t.calls
       PROVE  /\ DOMAIN t.calls[k] = CallFields /\ IsSeq(t.calls[k].args)
              /\ t.calls[k].item \in Nat /\ t.calls[k].item < t.item
              /\ Placed(d1, t.calls[k].item, "call") /\ d1.blocks[t.calls[k].item].data = t.calls[k].args
  <2>1. CASE k = n
    <3>1. IsSeq(Append(s.calls[n].args, x))
      BY <1>a, AppendIsSeq
    <3> QED BY <1>a, <1>b, <1>4, <1>5, <1>9, <2>1, <3>1 DEF SameBlocks, Placed
  <2>2. CASE k # n
    <3>1. s.calls[k].item # i
      BY <1>b, <1>d, <1>4, <2>2
    <3> HIDE DEF i
    <3> QED BY <1>a, <1>b, <1>4, <1>9, <2>2, <3>1 DEF SameBlocks, Placed
  <2> QED BY <2>1, <2>2
<1>11. t.open => Placed(d1, t.item, "text") /\ d1.blocks[t.item].data = t.buffer
  <2>1. s.item # i
    BY <1>a, <1>8
  <2> HIDE DEF i
  <2> QED BY <1>4, <1>8, <1>9, <2>1 DEF SameBlocks, Placed
<1>12. \A j \in DOMAIN d1.blocks : j \in Nat /\ (j < t.item \/ (t.open /\ j = t.item))
  <2> HIDE DEF i
  <2> QED BY <1>4, <1>6, <1>9 DEF SameBlocks
<1>13. /\ IsFiniteSet(DOMAIN t.calls) /\ DOMAIN t.calls \subseteq Int /\ DOMAIN t.calls # {}
       /\ \A j, k \in DOMAIN t.calls : t.calls[j].item = t.calls[k].item => j = k
  BY <1>b, <1>4 DEF ItemsKnown
<1>14. t.open \in BOOLEAN /\ (~t.open => t.buffer = <<>>) /\ t.item \in Nat
  BY <1>4 DEF ItemsKnown
<1> HIDE DEF i
<1>15. ItemsKnown(t, d1)
  BY <1>2, <1>7, <1>9, <1>10, <1>11, <1>12, <1>13, <1>14 DEF ItemsKnown
<1> QED BY <1>b, <1>3, <1>4, <1>15

\* A client of the Responses dialect, served by a writer that was told p.
Received(s, d, p, late) ==
    /\ DOMAIN s = ResponsesFields /\ IsSeq(s.out) /\ d.astray = FALSE
    /\ s.over \in BOOLEAN /\ p.over = s.over
    /\ s.over => d.end # "none"
    /\ ~s.over => ItemsKnown(s, d) /\ DOMAIN s.calls = p.known /\ (s.open /\ DOMAIN s.calls # {} => late)

\* A client whose items the writer knows is served.
LEMMA KnownIsReceived ==
    ASSUME NEW s, NEW d, ItemsKnown(s, d), s.over = FALSE, NEW p, p.over = FALSE, DOMAIN s.calls = p.known,
           NEW late, s.open /\ DOMAIN s.calls # {} => late
    PROVE  Received(s, d, p, late)
<1>1. DOMAIN s = ResponsesFields /\ IsSeq(s.out) /\ d.astray = FALSE
  BY DEF ItemsKnown, Listening
<1> QED BY <1>1 DEF Received

\* What each kind of chunk makes of such a client (openai_stream_to_responses).
LEMMA ReceivesContent ==
    ASSUME inbound # "openai", NEW c, NEW o, IsSeq(o), NEW s, NEW p, NEW late,
           Received(s, Reached(c, o \o s.out), p, late), ~s.over, NEW e, e.type = "content",
           p.known = {} \/ late
    PROVE  LET t == WriteResponses(s, e) IN Received(t, Reached(c, o \o t.out), p, late)
<1> DEFINE q == OpenItem(s)
<1> DEFINE x == e.data
<1> DEFINE t == Emit([q EXCEPT !.buffer = Append(@, x)], <<E("text", q.item, x)>>)
<1>1. WriteResponses(s, e) = t
  BY DEF WriteResponses
<1>2. ItemsKnown(s, Reached(c, o \o s.out)) /\ DOMAIN s.calls = p.known /\ p.over = FALSE /\ s.over = FALSE
  BY DEF Received
<1>3. ItemsKnown(q, Reached(c, o \o q.out)) /\ q.open /\ q.calls = s.calls /\ q.over = s.over
  BY <1>2, ItemOpens
<1> HIDE DEF q, x
<1>a. TextGrows(q, t, x)
  BY DEF TextGrows
<1> HIDE DEF t
<1>4. ItemsKnown(t, Reached(c, o \o t.out)) /\ t.open /\ t.calls = q.calls /\ t.over = q.over
  BY <1>3, <1>a, ItemGrows
<1>5. Received(t, Reached(c, o \o t.out), p, late)
  BY <1>2, <1>3, <1>4, KnownIsReceived
<1> QED BY <1>1, <1>5

LEMMA ReceivesCall ==
    ASSUME inbound = "responses", NEW c, NEW o, IsSeq(o), NEW s, NEW p, p.known \subseteq Nat, NEW late,
           Received(s, Reached(c, o \o s.out), p, late), ~s.over, NEW e, e.type = "call",
           NEW q, CallFine(p, e, q, late)
    PROVE  LET t == WriteResponses(s, e) IN Received(t, Reached(c, o \o t.out), q, late)
<1> DEFINE n == e.index
<1> DEFINE u == OpenCallItem(s, e)
<1> DEFINE v == [u EXCEPT !.calls[n].args = @ \o e.data.args]
<1> DEFINE t == Emit(v, Each("args", u.calls[n].item, e.data.args))
<1>1. WriteResponses(s, e) = t
  BY DEF WriteResponses
<1>2. /\ ItemsKnown(s, Reached(c, o \o s.out)) /\ DOMAIN s.calls = p.known /\ p.over = FALSE /\ s.over = FALSE
      /\ s.open /\ DOMAIN s.calls # {} => late
  BY DEF Received
<1>3. CASE e.data.id = NoId
  <2>1. n \in p.known /\ (\E x : e.data.args = <<x>>) /\ q = p
    BY <1>3 DEF CallFine
  <2>2. PICK x : e.data.args = <<x>>
    BY <2>1
  <2>3. u = s
    BY <1>2, <2>1 DEF OpenCallItem
  <2>4. Each("args", s.calls[n].item, <<x>>) = <<E("args", s.calls[n].item, x)>>
    BY DEF Each
  <2>5. t = Emit([s EXCEPT !.calls[n].args = @ \o <<x>>], <<E("args", s.calls[n].item, x)>>)
    BY <2>2, <2>3, <2>4
  <2> HIDE DEF t
  <2>a. ArgsGrow(s, t, n, x) /\ n \in DOMAIN s.calls
    BY <1>2, <2>1, <2>5 DEF ArgsGrow
  <2> HIDE DEF n
  <2>6. /\ ItemsKnown(t, Reached(c, o \o t.out)) /\ t.open = s.open
        /\ DOMAIN t.calls = DOMAIN s.calls /\ t.over = s.over
    BY <1>2, <2>a, CallItemGrows
  <2>7. Received(t, Reached(c, o \o t.out), q, late)
    BY <1>2, <2>1, <2>6, KnownIsReceived
  <2> QED BY <1>1, <2>7
<1>4. CASE e.data.id # NoId
  <2>1. n \in Nat /\ n \notin p.known /\ e.data.args = <<>> /\ ~late /\ q = State(p.known \cup {n}, FALSE)
    BY <1>4 DEF CallFine
  <2>2. q.known = p.known \cup {n} /\ q.over = FALSE
    BY <2>1, StateFields
  <2>3. /\ ItemsKnown(u, Reached(c, o \o u.out)) /\ ~u.open
        /\ DOMAIN u.calls = DOMAIN s.calls \cup {n} /\ u.over = s.over
    <3>1. n \in Int /\ n \notin DOMAIN s.calls /\ (DOMAIN s.calls # {} => ~s.open)
      BY <1>2, <2>1
    <3> QED BY <1>2, <3>1, CallItemOpens
  <2> HIDE DEF u
  <2> DEFINE w == [u EXCEPT !.calls[n].args = @ \o <<>>]
  <2>4. Each("args", u.calls[n].item, <<>>) = <<>>
    BY DEF Each
  <2>5. t = Emit(w, <<>>)
    BY <2>1, <2>4
  <2> HIDE DEF t
  <2>6. /\ DOMAIN u = ResponsesFields /\ IsSeq(u.out) /\ n \in DOMAIN u.calls
        /\ \A k \in DOMAIN u.calls : DOMAIN u.calls[k] = CallFields /\ IsSeq(u.calls[k].args)
    BY <2>3 DEF ItemsKnown
  <2>7. /\ DOMAIN w = ResponsesFields /\ w.open = u.open /\ w.item = u.item /\ w.buffer = u.buffer
        /\ w.over = u.over /\ w.out = u.out /\ w.calls = [u.calls EXCEPT ![n].args = @ \o <<>>]
    BY <2>6 DEF ResponsesFields
  <2>8. /\ DOMAIN w.calls = DOMAIN u.calls
        /\ \A k \in DOMAIN u.calls :
              DOMAIN w.calls[k] = CallFields /\ w.calls[k].item = u.calls[k].item /\ w.calls[k].args = u.calls[k].args
    <3>1. u.calls[n].args \o <<>> = u.calls[n].args
      BY <2>6, JoinOfNone
    <3> HIDE DEF w
    <3> QED BY <2>6, <2>7, <3>1 DEF CallFields
  <2> HIDE DEF w
  <2>9. /\ DOMAIN t = ResponsesFields /\ t.out = w.out \o <<>>
        /\ t.open = w.open /\ t.item = w.item /\ t.buffer = w.buffer /\ t.over = w.over /\ t.calls = w.calls
    BY <2>5, <2>7 DEF Emit, ResponsesFields
  <2>10. t.out = u.out
    BY <2>6, <2>7, <2>9, JoinOfNone
  <2>11. SameItems(u, t)
    BY <2>6, <2>7, <2>8, <2>9, <2>10 DEF SameItems
  <2>12. ItemsKnown(t, Reached(c, o \o t.out))
    BY <2>3, <2>10, <2>11, ItemsStay
  <2>13. DOMAIN t.calls = q.known /\ t.over = FALSE /\ ~t.open
    BY <1>2, <2>2, <2>3, <2>7, <2>8, <2>9
  <2>14. Received(t, Reached(c, o \o t.out), q, late)
    BY <2>2, <2>12, <2>13, KnownIsReceived
  <2> QED BY <1>1, <2>14
<1> QED BY <1>3, <1>4

IsEnd(e) == e.type \in {"done", "eof", "cut"}

LEMMA ReceivesEnd ==
    ASSUME inbound = "responses", NEW c, NEW o, IsSeq(o), NEW s, ItemsKnown(s, Reached(c, o \o s.out)),
           ~s.over, NEW e, IsEnd(e)
    PROVE  LET t == WriteResponses(s, e)
               d == Reached(c, o \o t.out)
           IN  DOMAIN t = ResponsesFields /\ IsSeq(t.out) /\ t.over = TRUE /\ d.astray = FALSE /\ d.end # "none"
<1>1. CASE e.type \in {"done", "eof"}
  <2> DEFINE a == CloseItem(s)
  <2> DEFINE r == CloseCallItems(a)
  <2> DEFINE d == Reached(c, o \o r.out)
  <2> DEFINE type == StatusOfFinish(r.finish)
  <2> DEFINE x == [status |-> type, reason |-> ReasonOfFinish(r.finish), output |-> r.output, usage |-> r.usage]
  <2> DEFINE f == E(type, 0, x)
  <2> DEFINE u == [r EXCEPT !.over = TRUE]
  <2> DEFINE t == Emit(u, <<f>>)
  <2>1. WriteResponses(s, e) = t
    BY <1>1 DEF WriteResponses, Over
  <2>2. type \in {"completed", "incomplete"}
    BY DEF StatusOfFinish
  <2> HIDE DEF x, type
  <2>3. ItemsKnown(a, Reached(c, o \o a.out)) /\ ~a.open
    BY ItemCloses
  <2> HIDE DEF a
  <2>4. DOMAIN r = ResponsesFields /\ IsSeq(r.out) /\ Listening(d) /\ d.open = {}
    BY <2>3, CallItemsClose
  <2> HIDE DEF r, f
  <2>5. DOMAIN u = ResponsesFields /\ u.out = r.out /\ u.over = TRUE
    BY <2>4 DEF ResponsesFields
  <2> HIDE DEF u
  <2>6. DOMAIN t = ResponsesFields /\ IsSeq(t.out) /\ \A k \in ResponsesFields \ {"out"} : t[k] = u[k]
    BY <2>4, <2>5, Emits DEF ResponsesFields
  <2>7. Reached(c, o \o t.out) = Take(d, f)
    <3>1. Reached(c, o \o t.out) = Take(Reached(c, o \o u.out), f)
      BY <2>4, <2>5, Reaches DEF ResponsesFields
    <3> QED BY <2>5, <3>1
  <2> HIDE DEF t, d
  <2>8. Take(d, f).astray = FALSE /\ Take(d, f).end = "complete"
    <3>2. CASE type = "completed"
      BY <2>4, <3>2, TakesEnd DEF f
    <3>3. CASE type = "incomplete"
      BY <2>4, <3>3, TakesEnd DEF f
    <3> QED BY <2>2, <3>2, <3>3
  <2>9. t.over = TRUE
    BY <2>5, <2>6 DEF ResponsesFields
  <2> QED BY <2>1, <2>6, <2>7, <2>8, <2>9
<1>2. CASE e.type = "cut"
  <2> DEFINE d == Reached(c, o \o s.out)
  <2> DEFINE r == [s EXCEPT !.over = TRUE]
  <2> DEFINE t == Emit(r, <<Cut>>)
  <2>1. WriteResponses(s, e) = t
    BY <1>2 DEF WriteResponses, Over
  <2>2. DOMAIN r = ResponsesFields /\ r.out = s.out /\ IsSeq(r.out) /\ r.over = TRUE
    BY DEF ItemsKnown, ResponsesFields
  <2>3. Listening(d)
    BY DEF ItemsKnown
  <2> HIDE DEF r
  <2>4. DOMAIN t = ResponsesFields /\ IsSeq(t.out) /\ \A k \in ResponsesFields \ {"out"} : t[k] = r[k]
    BY <2>2, Emits DEF ResponsesFields
  <2>5. Reached(c, o \o t.out) = Take(d, Cut)
    <3>1. Reached(c, o \o t.out) = Take(Reached(c, o \o r.out), Cut)
      BY <2>2, Reaches DEF ResponsesFields
    <3> QED BY <2>2, <3>1
  <2> HIDE DEF t, d
  <2>6. Take(d, Cut).astray = FALSE /\ Take(d, Cut).end = "cut"
    BY <2>3, TakesEnd DEF Cut
  <2>7. t.over = TRUE
    BY <2>2, <2>4 DEF ResponsesFields
  <2> QED BY <2>1, <2>4, <2>5, <2>6, <2>7
<1> QED BY <1>1, <1>2 DEF IsEnd

\* Any chunk at all.
LEMMA ReceivesOne ==
    ASSUME inbound = "responses", NEW c, NEW o, IsSeq(o), NEW s, NEW p, p.known \subseteq Nat, NEW late,
           Received(s, Reached(c, o \o s.out), p, late), NEW e, NEW q, Fine(p, e, q, late)
    PROVE  LET t == WriteResponses(s, e) IN Received(t, Reached(c, o \o t.out), q, late)
<1> DEFINE d == Reached(c, o \o s.out)
<1>0. s.over \in BOOLEAN /\ p.over = s.over
  BY DEF Received
<1>1. CASE s.over
  <2>1. WriteResponses(s, e) = s /\ q = p
    BY <1>0, <1>1 DEF WriteResponses, Fine
  <2> QED BY <2>1
<1>2. CASE ~s.over /\ e.type = "call"
  <2>1. CallFine(p, e, q, late)
    BY <1>0, <1>2 DEF Fine
  <2> QED BY <1>2, <2>1, ReceivesCall
<1>3. CASE ~s.over /\ e.type \in {"done", "eof", "cut"}
  <2>1. q.over = TRUE
    BY <1>0, <1>3, StateFields DEF Fine
  <2>2. ItemsKnown(s, d)
    BY <1>3 DEF Received
  <2> DEFINE t == WriteResponses(s, e)
  <2>3. /\ DOMAIN t = ResponsesFields /\ IsSeq(t.out) /\ t.over = TRUE
        /\ Reached(c, o \o t.out).astray = FALSE /\ Reached(c, o \o t.out).end # "none"
    <3>1. ~s.over /\ IsEnd(e)
      BY <1>3 DEF IsEnd
    <3> QED BY <2>2, <3>1, ReceivesEnd
  <2> HIDE DEF t
  <2>4. Received(t, Reached(c, o \o t.out), q, late)
    BY <2>1, <2>3 DEF Received
  <2> QED BY <2>4 DEF t
<1>4. CASE ~s.over /\ e.type = "content"
  <2>1. q = p /\ (p.known = {} \/ late)
    BY <1>0, <1>4 DEF Fine
  <2>2. LET t == WriteResponses(s, e) IN Received(t, Reached(c, o \o t.out), p, late)
    BY <1>4, <2>1, ReceivesContent
  <2> QED BY <2>1, <2>2
<1>5. CASE ~s.over /\ e.type \notin {"content", "call", "done", "eof", "cut"}
  <2> DEFINE t == WriteResponses(s, e)
  <2>1. q = p
    BY <1>0, <1>5 DEF Fine
  <2>2. DOMAIN s = ResponsesFields /\ ItemsKnown(s, d)
    BY <1>5 DEF Received
  <2>3. /\ DOMAIN t = ResponsesFields /\ t.open = s.open /\ t.item = s.item /\ t.buffer = s.buffer
        /\ t.calls = s.calls /\ t.over = s.over /\ t.out = s.out
    BY <1>5, <2>2 DEF WriteResponses, ResponsesFields
  <2> HIDE DEF t, d
  <2>4. SameItems(s, t)
    BY <2>2, <2>3 DEF SameItems, ItemsKnown
  <2>5. ItemsKnown(t, d)
    BY <2>2, <2>4, ItemsStay
  <2>6. Received(t, d, p, late)
    BY <2>3, <2>5 DEF Received, d
  <2> QED BY <2>1, <2>3, <2>6 DEF t, d
<1> QED BY <1>0, <1>1, <1>2, <1>3, <1>4, <1>5

-----------------------------------------------------------------------------
\* The calls of a stream are numbered.
LEMMA KnownGrows ==
    ASSUME NEW p, p.known \subseteq Nat, NEW e, NEW q, NEW late, Fine(p, e, q, late)
    PROVE  q.known \subseteq Nat
<1>1. CASE q = p
  BY <1>1
<1>2. CASE q = State(p.known, TRUE)
  BY <1>2, StateFields
<1>3. CASE q = State(p.known \cup {e.index}, FALSE) /\ e.index \in Nat
  <2> DEFINE K == p.known \cup {e.index}
  <2>1. K \subseteq Nat /\ q = State(K, FALSE)
    BY <1>3
  <2> HIDE DEF K
  <2>2. q.known = K
    BY <2>1, StateFields
  <2> QED BY <2>1, <2>2
<1> QED BY <1>1, <1>2, <1>3 DEF Fine, CallFine

\* A client of the OpenAI or the Responses dialect, served by a writer that was told p.
Attends(s, d, p, late) ==
    /\ p.known \subseteq Nat
    /\ inbound = "openai" => "out" \in DOMAIN s /\ IsSeq(s.out) /\ d.astray = FALSE /\ (~p.over => Follows(p.known, d))
    /\ inbound = "responses" => Received(s, d, p, late)

\* A chunk more, a new request, and all the chunks of a step.
LEMMA AttendsOne ==
    ASSUME inbound \in {"openai", "responses"}, NEW c, NEW o, IsSeq(o), NEW s, NEW p, NEW late,
           Attends(s, Reached(c, o \o s.out), p, late), NEW e, NEW q, Fine(p, e, q, late)
    PROVE  LET t == WriteEvent(inbound, s, e) IN Attends(t, Reached(c, o \o t.out), q, late)
<1> DEFINE d == Reached(c, o \o s.out)
<1>0. p.known \subseteq Nat /\ q.known \subseteq Nat
  <2>1. p.known \subseteq Nat
    BY DEF Attends
  <2> QED BY <2>1, KnownGrows
<1>1. CASE inbound = "openai"
  <2> DEFINE t == Emit(s, <<e>>)
  <2>1. WriteEvent(inbound, s, e) = t
    BY <1>1 DEF WriteEvent, WriteOpenAI
  <2>2. "out" \in DOMAIN s /\ IsSeq(s.out) /\ (~p.over => Follows(p.known, d))
    BY <1>1 DEF Attends
  <2>3. ~p.over
    BY <1>1 DEF Fine
  <2>4. DOMAIN t = DOMAIN s /\ IsSeq(t.out)
    BY <2>2, Emits
  <2>5. Reached(c, o \o t.out) = Take(d, e)
    BY <2>2, Reaches
  <2> HIDE DEF t, d
  <2>6. Take(d, e).astray = FALSE /\ (~q.over => Follows(q.known, Take(d, e)))
    BY <1>0, <1>1, <2>2, <2>3, TakesChunk
  <2> QED BY <1>0, <1>1, <2>1, <2>2, <2>4, <2>5, <2>6 DEF Attends
<1>2. CASE inbound = "responses"
  <2> DEFINE t == WriteResponses(s, e)
  <2>1. WriteEvent(inbound, s, e) = t
    BY <1>2 DEF WriteEvent
  <2>2. Received(s, d, p, late)
    BY <1>2 DEF Attends
  <2>3. Received(t, Reached(c, o \o t.out), q, late)
    BY <1>0, <1>2, <2>2, ReceivesOne
  <2> HIDE DEF t
  <2> QED BY <1>0, <1>2, <2>1, <2>3 DEF Attends
<1> QED BY <1>1, <1>2

LEMMA QuietAttends ==
    ASSUME inbound \in {"openai", "responses"}, NEW s, NEW p, NEW late, NEW d, Attends(s, d, p, late)
    PROVE  Attends(Quiet(s), d, p, late) /\ Quiet(s).out = <<>>
<1> DEFINE v == Quiet(s)
<1>1. IsSeq(<<>>)
  BY LiteralSeqs
<1>2. CASE inbound = "openai"
  <2>1. "out" \in DOMAIN s
    BY <1>2 DEF Attends
  <2>2. "out" \in DOMAIN v /\ v.out = <<>>
    BY <2>1 DEF Quiet
  <2> HIDE DEF v
  <2> QED BY <1>1, <1>2, <2>2 DEF Attends, v
<1>3. CASE inbound = "responses"
  <2>1. Received(s, d, p, late) /\ DOMAIN s = ResponsesFields
    BY <1>3 DEF Attends, Received
  <2>2. /\ DOMAIN v = ResponsesFields /\ v.open = s.open /\ v.item = s.item /\ v.buffer = s.buffer
        /\ v.calls = s.calls /\ v.over = s.over /\ v.out = <<>>
    BY <2>1 DEF Quiet, ResponsesFields
  <2> HIDE DEF v
  <2>3. ItemsKnown(s, d) => ItemsKnown(v, d)
    <3>1. ItemsKnown(s, d) => SameItems(s, v)
      BY <1>1, <2>2 DEF SameItems, ItemsKnown
    <3> QED BY <3>1, ItemsStay
  <2>4. Received(v, d, p, late)
    BY <1>1, <2>1, <2>2, <2>3 DEF Received
  <2> QED BY <1>3, <2>2, <2>4 DEF Attends, v
<1> QED BY <1>2, <1>3

LEMMA WritesAttended ==
    ASSUME inbound \in {"openai", "responses"}, NEW c, NEW o, IsSeq(o), NEW s, NEW p, NEW late,
           Attends(s, Reached(c, o), p, late), NEW chunks, IsSeq(chunks), NEW q, Tells(p, chunks, q, late)
    PROVE  LET w == WriteAll(inbound, s, chunks) IN Attends(Quiet(w), Reached(c, o \o w.out), q, late)
<1> DEFINE n == Len(chunks)
<1> DEFINE z == Quiet(s)
<1> DEFINE b == inbound
<1>1. n \in Nat /\ DOMAIN chunks = 1..n
  BY Shape
<1>b. PICK f : f[0] = p /\ f[n] = q /\ \A i \in 1..n : Fine(f[i - 1], chunks[i], f[i], late)
  BY DEF Tells
<1> HIDE DEF n
<1>2. WriteAll(b, s, chunks) = Folds("write", b, z, chunks)
  BY WritesAreFolds DEF WriteAll
<1> HIDE DEF z, b
<1>a. PICK g : AreSteps(g, "write", b, z, n, chunks)
  BY <1>1, FoldSteps
<1>3. /\ g[0] = z
      /\ \A i \in 1..n : g[i] = Stage("write", b, g[i - 1], chunks[i])
      /\ WriteAll(b, s, chunks) = g[n]
  BY <1>a, <1>2 DEF AreSteps
<1>4. o \o <<>> = o
  BY JoinOfNone
<1>5. Attends(z, Reached(c, o \o z.out), f[0], late)
  <2>1. Attends(z, Reached(c, o), p, late) /\ z.out = <<>>
    BY QuietAttends DEF z
  <2> QED BY <2>1, <1>4, <1>b
<1> DEFINE h == [i \in 0..n |-> Attends(g[i], Reached(c, o \o g[i].out), f[i], late)]
<1>6. h[0]
  <2>1. 0 \in 0..n
    BY <1>1
  <2> QED BY <1>3, <1>5, <2>1, Zenon
<1>7. ASSUME NEW i \in 1..n, h[i - 1] PROVE h[i]
  <2>1. i - 1 \in 0..n /\ i \in 0..n
    BY <1>1
  <2>2. Attends(g[i - 1], Reached(c, o \o g[i - 1].out), f[i - 1], late)
    BY <2>1, <1>7, Zenon
  <2>3. g[i] = WriteEvent(inbound, g[i - 1], chunks[i])
    BY <1>3 DEF Stage, b
  <2>4. Fine(f[i - 1], chunks[i], f[i], late)
    BY <1>b
  <2> DEFINE x == g[i - 1]
  <2> DEFINE y == g[i]
  <2> DEFINE e == chunks[i]
  <2> DEFINE u == f[i - 1]
  <2> DEFINE v == f[i]
  <2>5. Attends(x, Reached(c, o \o x.out), u, late) /\ Fine(u, e, v, late) /\ y = WriteEvent(inbound, x, e)
    BY <2>2, <2>3, <2>4
  <2> HIDE DEF x, y, e, u, v
  <2>6. Attends(y, Reached(c, o \o y.out), v, late)
    BY <2>5, AttendsOne
  <2>7. Attends(g[i], Reached(c, o \o g[i].out), f[i], late)
    BY <2>6 DEF y, v
  <2> QED BY <2>1, <2>7, Zenon
<1>8. Attends(g[n], Reached(c, o \o g[n].out), f[n], late)
  <2>1. h[n]
    <3> HIDE DEF h
    <3> QED BY <1>1, <1>6, <1>7, UpTo
  <2>2. n \in 0..n
    BY <1>1
  <2> QED BY <2>1, <2>2, Zenon
<1> DEFINE w == g[n]
<1>9. Attends(w, Reached(c, o \o w.out), q, late)
  BY <1>8, <1>b
<1>c. w = WriteAll(inbound, s, chunks)
  BY <1>3 DEF b
<1> HIDE DEF w
<1>10. Attends(Quiet(w), Reached(c, o \o w.out), q, late)
  BY <1>9, QuietAttends
<1> QED BY <1>10, <1>c

-----------------------------------------------------------------------------
\* What the client gets first of a stream leaves the writer's knowledge true.
LEMMA OpeningAttended ==
    ASSUME inbound \in {"openai", "responses"}, NEW p, NEW late, Attends(writer, client, p, late), NEW opening,
           opening = IF client.end = "none" /\ inbound # "openai" THEN Writer(inbound).out ELSE <<>>
    PROVE  IsSeq(opening) /\ Attends(writer, Reached(client, opening), p, late)
<1>1. CASE client.end = "none" /\ inbound = "responses"
  <2> DEFINE e == E("created", 0, 0)
  <2> DEFINE d == Take(client, e)
  <2>1. opening = <<e>>
    BY <1>1 DEF Writer, ResponsesWriter
  <2>2. Reached(client, opening) = d /\ IsSeq(opening)
    BY <2>1, OneReached, LiteralSeqs
  <2>3. /\ Received(writer, client, p, late) /\ writer.over = FALSE /\ p.over = FALSE /\ ItemsKnown(writer, client)
        /\ DOMAIN writer.calls = p.known /\ (writer.open /\ DOMAIN writer.calls # {} => late) /\ p.known \subseteq Nat
    BY <1>1 DEF Attends, Received
  <2>4. Listening(d) /\ d.blocks = client.blocks /\ d.open = client.open
    BY <1>1, <2>3, TakesOther DEF ItemsKnown
  <2> HIDE DEF d
  <2>5. ItemsKnown(writer, d)
    BY <2>3, <2>4 DEF ItemsKnown, Placed
  <2>6. Received(writer, d, p, late)
    BY <2>3, <2>5, KnownIsReceived
  <2> QED BY <1>1, <2>2, <2>3, <2>6 DEF Attends
<1>2. CASE ~(client.end = "none" /\ inbound = "responses")
  <2>1. opening = <<>>
    BY <1>2
  <2>2. IsSeq(opening)
    BY <2>1, LiteralSeqs
  <2>3. Reached(client, opening) = client
    BY <2>1, NoneReached
  <2> QED BY <2>2, <2>3
<1> QED BY <1>1, <1>2

\* A step in which the reader tells the writer something.
LEMMA TalkGoesOn ==
    ASSUME inbound \in {"openai", "responses"}, NEW evs, Transmit(evs), NEW p, NEW late,
           Attends(writer, client, p, late), NEW q,
           IsSeq(ReadAll(upstream, reader, evs).out), Tells(p, ReadAll(upstream, reader, evs).out, q, late)
    PROVE  Attends(writer', client', q, late)
<1> DEFINE r == ReadAll(upstream, reader, evs)
<1> DEFINE opening == IF client.end = "none" /\ inbound # "openai" THEN Writer(inbound).out ELSE <<>>
<1> DEFINE w == WriteAll(inbound, writer, r.out)
<1>1. writer' = Quiet(w) /\ client' = FoldLeft(Take, client, opening \o w.out)
  BY DEF Transmit
<1>2. IsSeq(opening) /\ Attends(writer, Reached(client, opening), p, late)
  BY OpeningAttended
<1> DEFINE chunks == r.out
<1>3. IsSeq(chunks) /\ Tells(p, chunks, q, late) /\ w = WriteAll(inbound, writer, chunks)
  OBVIOUS
<1> HIDE DEF opening, chunks, r, w
<1>4. Attends(Quiet(w), Reached(client, opening \o w.out), q, late)
  BY <1>2, <1>3, WritesAttended
<1>5. client' = Reached(client, opening \o w.out)
  BY <1>1, TakesAreFolds DEF Reached
<1> QED BY <1>1, <1>4, <1>5

-----------------------------------------------------------------------------
\* An OpenAI upstream's chunks are passed on as they are.
Passes(s) ==
    IsSeq(s) /\ "out" \in DOMAIN ReadAll(upstream, reader, s) /\ ReadAll(upstream, reader, s).out = s

\* Nothing is passed on, and one chunk more.
LEMMA PassesNone ==
    ASSUME "out" \in DOMAIN reader
    PROVE  Passes(<<>>)
<1>1. ReadAll(upstream, reader, <<>>) = Quiet(reader)
  BY ReadAllNone
<1>2. "out" \in DOMAIN Quiet(reader) /\ Quiet(reader).out = <<>>
  BY DEF Quiet
<1>3. IsSeq(<<>>)
  BY LiteralSeqs
<1> QED BY <1>1, <1>2, <1>3 DEF Passes

LEMMA PassesMore ==
    ASSUME upstream = "openai", NEW s, Passes(s), NEW e
    PROVE  Passes(Append(s, e))
<1> DEFINE r == ReadAll(upstream, reader, s)
<1>1. ReadAll(upstream, reader, Append(s, e)) = ReadEvent(upstream, r, e)
  BY ReadAllMore DEF Passes
<1>2. ReadEvent(upstream, r, e) = Emit(r, <<e>>)
  BY DEF ReadEvent, ReadOpenAI
<1>3. "out" \in DOMAIN r /\ r.out = s /\ IsSeq(s)
  BY DEF Passes
<1> HIDE DEF r
<1> DEFINE t == Emit(r, <<e>>)
<1>4. DOMAIN t = DOMAIN r /\ t.out = Append(s, e) /\ IsSeq(t.out)
  BY <1>3, Emits
<1> HIDE DEF t
<1> QED BY <1>1, <1>2, <1>3, <1>4 DEF t, Passes

\* A step of an OpenAI upstream.
LEMMA ChunksPass ==
    ASSUME upstream = "openai", inbound = "responses", "out" \in DOMAIN reader,
           NEW evs, Passes(evs), Transmit(evs), NEW p, NEW late, Attends(writer, client, p, late),
           NEW q, Tells(p, evs, q, late)
    PROVE  Attends(writer', client', q, late) /\ "out" \in DOMAIN reader'
<1> DEFINE r == ReadAll(upstream, reader, evs)
<1>1. "out" \in DOMAIN r /\ r.out = evs /\ IsSeq(evs)
  BY DEF Passes
<1>2. reader' = Quiet(r)
  BY DEF Transmit
<1>3. "out" \in DOMAIN reader'
  BY <1>1, <1>2 DEF Quiet
<1>4. Attends(writer', client', q, late)
  BY <1>1, TalkGoesOn
<1> QED BY <1>3, <1>4

-----------------------------------------------------------------------------
\* A reader with nothing to hand on, that knows the calls C and the envelope d.
AtRest(r, C, d) ==
    /\ DOMAIN r = ReaderFields /\ r.out = <<>> /\ r.over \in BOOLEAN
    /\ IsFiniteSet(DOMAIN r.calls) /\ \A k \in DOMAIN r.calls : r.calls[k] \in Numbers(r)
    /\ ~r.over => DOMAIN r.calls = C
    /\ ~r.over /\ upstream = "responses" => r.envelope = d

\* Between two steps a reader is idle; an idle reader is ready for the next.
LEMMA QuietIsIdle ==
    ASSUME NEW r, NEW C, NEW p, NEW late, NEW d, Heeds(r, C, p, late, d)
    PROVE  AtRest(Quiet(r), C, d) /\ StateOf(Quiet(r)) = StateOf(r)
<1> DEFINE t == Quiet(r)
<1>1. Reads(r, C, p, late) /\ DOMAIN r = ReaderFields
  BY DEF Heeds, Reads
<1>2. DOMAIN t = ReaderFields /\ t.over = r.over /\ t.calls = r.calls /\ t.envelope = r.envelope /\ t.out = <<>>
  BY <1>1 DEF Quiet, ReaderFields
<1> HIDE DEF t
<1>3. StateOf(t) = StateOf(r) /\ Numbers(t) = Numbers(r)
  BY <1>2 DEF StateOf, Numbers
<1>4. AtRest(t, C, d)
  BY <1>1, <1>2, <1>3 DEF Heeds, Reads, AtRest
<1> QED BY <1>3, <1>4 DEF t

LEMMA IdleHeeds ==
    ASSUME NEW r, NEW C, NEW d, AtRest(r, C, d), NEW late
    PROVE  Heeds(Quiet(r), C, StateOf(r), late, d)
<1> DEFINE t == Quiet(r)
<1>1. DOMAIN r = ReaderFields
  BY DEF AtRest
<1>2. DOMAIN t = ReaderFields /\ t.over = r.over /\ t.calls = r.calls /\ t.envelope = r.envelope /\ t.out = <<>>
  BY <1>1 DEF Quiet, ReaderFields
<1> HIDE DEF t
<1>3. StateOf(t) = StateOf(r) /\ Numbers(t) = Numbers(r)
  BY <1>2 DEF StateOf, Numbers
<1>4. IsSeq(<<>>)
  BY LiteralSeqs
<1>5. Tells(StateOf(r), t.out, StateOf(t), late)
  BY <1>2, <1>3, TellsNone
<1>6. Reads(t, C, StateOf(r), late)
  BY <1>2, <1>3, <1>4, <1>5 DEF Reads, AtRest
<1>7. Heeds(t, C, StateOf(r), late, d)
  BY <1>2, <1>6 DEF Heeds, AtRest
<1> QED BY <1>7 DEF t

\* One to three events, of which the last alone may open a call.
Leads(evs, C, D, late, d) ==
    \E a, b, e : /\ SentFine(a, C, C, late, d) /\ SentFine(b, C, C, late, d) /\ SentFine(e, C, D, late, d)
                 /\ evs \in {<<e>>, <<a, e>>, <<a, b, e>>}

\* What a reader makes of such events.
LEMMA ReadsLed ==
    ASSUME upstream \in {"anthropic", "responses"}, NEW r, NEW C, NEW late, NEW d, AtRest(r, C, d), IsNamed(d),
           upstream = "anthropic" => d = "anthropic", NEW evs, NEW D, Leads(evs, C, D, late, d)
    PROVE  Heeds(ReadAll(upstream, r, evs), D, StateOf(r), late, d)
<1> DEFINE p == StateOf(r)
<1> DEFINE none == <<>>
<1>1. PICK a, b, e : /\ SentFine(a, C, C, late, d) /\ SentFine(b, C, C, late, d) /\ SentFine(e, C, D, late, d)
                     /\ evs \in {<<e>>, <<a, e>>, <<a, b, e>>}
  BY DEF Leads
<1>2. Heeds(ReadAll(upstream, r, none), C, p, late, d) /\ IsSeq(none)
  <2>1. ReadAll(upstream, r, <<>>) = Quiet(r)
    BY ReadAllNone
  <2>2. Heeds(Quiet(r), C, StateOf(r), late, d)
    BY IdleHeeds
  <2>3. IsSeq(<<>>)
    BY LiteralSeqs
  <2> QED BY <2>1, <2>2, <2>3
<1>3. <<e>> = Append(none, e) /\ <<a>> = Append(none, a)
  OBVIOUS
<1>4. <<a, e>> = Append(<<a>>, e) /\ <<a, b>> = Append(<<a>>, b) /\ <<a, b, e>> = Append(<<a, b>>, e)
  OBVIOUS
<1> HIDE DEF none, p
<1>5. CASE evs = <<e>>
  BY <1>1, <1>2, <1>3, <1>5, ReadsMore DEF p
<1> DEFINE s == <<a>>
<1>6. Heeds(ReadAll(upstream, r, s), C, p, late, d) /\ IsSeq(s)
  <2>1. IsSeq(<<a>>)
    BY LiteralSeqs
  <2> QED BY <1>1, <1>2, <1>3, <2>1, ReadsMore
<1> DEFINE t == <<a, b>>
<1>7. CASE evs = <<a, e>>
  <2>1. evs = Append(s, e)
    BY <1>4, <1>7
  <2> HIDE DEF s
  <2> QED BY <1>1, <1>6, <2>1, ReadsMore DEF p
<1>8. CASE evs = <<a, b, e>>
  <2>1. evs = Append(t, e) /\ t = Append(s, b)
    BY <1>4, <1>8
  <2>2. IsSeq(t)
    BY LiteralSeqs
  <2> HIDE DEF s, t
  <2>3. Heeds(ReadAll(upstream, r, t), C, p, late, d)
    BY <1>1, <1>6, <2>1, ReadsMore
  <2> QED BY <1>1, <2>1, <2>2, <2>3, ReadsMore DEF p
<1> QED BY <1>1, <1>5, <1>7, <1>8

\* A step of an upstream that is read.
LEMMA ReaderGoesOn ==
    ASSUME inbound \in {"openai", "responses"}, NEW evs, Transmit(evs), NEW late,
           Attends(writer, client, StateOf(reader), late), NEW D, NEW d,
           Heeds(ReadAll(upstream, reader, evs), D, StateOf(reader), late, d)
    PROVE  Attends(writer', client', StateOf(reader'), late) /\ AtRest(reader', D, d)
<1> DEFINE r == ReadAll(upstream, reader, evs)
<1> DEFINE p == StateOf(reader)
<1>1. reader' = Quiet(r)
  BY DEF Transmit
<1>2. IsSeq(r.out) /\ Tells(p, r.out, StateOf(r), late)
  BY DEF Heeds, Reads
<1>3. AtRest(Quiet(r), D, d) /\ StateOf(Quiet(r)) = StateOf(r)
  BY QuietIsIdle
<1>4. Attends(writer', client', StateOf(r), late)
  BY <1>2, TalkGoesOn
<1> QED BY <1>1, <1>3, <1>4

\* What a chunk says to a Responses client, whether the stream is over or not: K were
\* the calls opened before it, D are with it.
Chunk(e, K, D, late) ==
    \A p : p.over \/ p.known = K => \E q : Fine(p, e, q, late) /\ (q.over \/ q.known = D)

\* What the chunks say that open no call, and one that does.
LEMMA SomeSay ==
    ASSUME inbound = "responses", NEW K, NEW late
    PROVE  /\ \A e : e.type \notin {"call", "done", "eof", "cut", "content"} => Chunk(e, K, K, late)
           /\ \A e : e.type = "content" /\ (K = {} \/ late) => Chunk(e, K, K, late)
           /\ \A e : e.type \in {"done", "eof"} => Chunk(e, K, K, late)
           /\ \A i \in K : \A x : Chunk(CallChunk(i, NoId, <<x>>), K, K, late)
<1>1. ASSUME NEW p, p.over PROVE \A e : Fine(p, e, p, late)
  BY <1>1 DEF Fine
<1>2. ASSUME NEW e, e.type \notin {"call", "done", "eof", "cut", "content"} PROVE Chunk(e, K, K, late)
  <2>1. \A p : ~p.over => Fine(p, e, p, late)
    BY <1>2 DEF Fine
  <2> QED BY <1>1, <2>1 DEF Chunk
<1>3. ASSUME NEW e, e.type = "content", K = {} \/ late PROVE Chunk(e, K, K, late)
  <2>1. \A p : ~p.over /\ p.known = K => Fine(p, e, p, late)
    BY <1>3 DEF Fine
  <2> QED BY <1>1, <2>1 DEF Chunk
<1>4. ASSUME NEW e, e.type \in {"done", "eof"} PROVE Chunk(e, K, K, late)
  <2>1. \A p : ~p.over => Fine(p, e, State(p.known, TRUE), late) /\ State(p.known, TRUE).over
    BY <1>4, StateFields DEF Fine
  <2> QED BY <1>1, <2>1 DEF Chunk
<1>5. ASSUME NEW i \in K, NEW x PROVE Chunk(CallChunk(i, NoId, <<x>>), K, K, late)
  <2> DEFINE e == CallChunk(i, NoId, <<x>>)
  <2>1. \A p : ~p.over /\ p.known = K => Fine(p, e, p, late)
    BY FineChunks
  <2> HIDE DEF e
  <2> QED BY <1>1, <2>1 DEF Chunk, e
<1> QED BY <1>2, <1>3, <1>4, <1>5

LEMMA OpeningSays ==
    ASSUME inbound = "responses", NEW K, NEW late, ~late, NEW i \in Nat, i \notin K, NEW id, id # NoId
    PROVE  Chunk(CallChunk(i, id, <<>>), K, K \cup {i}, late)
<1> DEFINE e == CallChunk(i, id, <<>>)
<1>1. ASSUME NEW p, p.over PROVE Fine(p, e, p, late)
  BY <1>1 DEF Fine
<1>2. ASSUME NEW p, ~p.over, p.known = K PROVE \E q : Fine(p, e, q, late) /\ (q.over \/ q.known = K \cup {i})
  <2>1. Fine(p, e, State(K \cup {i}, FALSE), late)
    BY <1>2, FineOpening
  <2>2. State(K \cup {i}, FALSE).known = K \cup {i}
    BY StateFields
  <2> QED BY <2>1, <2>2
<1> HIDE DEF e
<1>3. Chunk(e, K, K \cup {i}, late)
  BY <1>1, <1>2 DEF Chunk
<1> QED BY <1>3 DEF e

\* One chunk, or three of which the last alone may open a call, or none.
ChunksLead(evs, K, D, late) ==
    \/ evs = <<>> /\ K = D
    \/ \E a, b, e : /\ Chunk(a, K, K, late) /\ Chunk(b, K, K, late) /\ Chunk(e, K, D, late)
                    /\ evs \in {<<e>>, <<a, b, e>>}

\* Such chunks are told as they are.
LEMMA ChunksAreTold ==
    ASSUME upstream = "openai", "out" \in DOMAIN reader, NEW evs, NEW K, NEW D, NEW late,
           ChunksLead(evs, K, D, late), NEW p, p.over \/ p.known = K
    PROVE  Passes(evs) /\ \E q : Tells(p, evs, q, late) /\ (q.over \/ q.known = D)
<1> DEFINE none == <<>>
<1>1. Passes(none) /\ IsSeq(none) /\ Tells(p, none, p, late)
  BY PassesNone, TellsNone, LiteralSeqs
<1>2. CASE evs = <<>> /\ K = D
  BY <1>1, <1>2
<1>3. CASE ~(evs = <<>> /\ K = D)
  <2>1. PICK a, b, e : /\ Chunk(a, K, K, late) /\ Chunk(b, K, K, late) /\ Chunk(e, K, D, late)
                       /\ evs \in {<<e>>, <<a, b, e>>}
    BY <1>3 DEF ChunksLead
  <2>2. <<e>> = Append(none, e) /\ <<a>> = Append(none, a)
    OBVIOUS
  <2>3. <<a, b>> = Append(<<a>>, b) /\ <<a, b, e>> = Append(<<a, b>>, e)
    OBVIOUS
  <2> HIDE DEF none
  <2>4. CASE evs = <<e>>
    <3>1. PICK q : Fine(p, e, q, late) /\ (q.over \/ q.known = D)
      BY <2>1 DEF Chunk
    <3>2. Tells(p, Append(none, e), q, late)
      BY <1>1, <3>1, TellsMore
    <3>3. Passes(Append(none, e))
      BY <1>1, PassesMore
    <3> QED BY <2>2, <2>4, <3>1, <3>2, <3>3
  <2>5. CASE evs = <<a, b, e>>
    <3> DEFINE s == <<a>>
    <3> DEFINE t == <<a, b>>
    <3>1. PICK x : Fine(p, a, x, late) /\ (x.over \/ x.known = K)
      BY <2>1 DEF Chunk
    <3>2. PICK y : Fine(x, b, y, late) /\ (y.over \/ y.known = K)
      BY <2>1, <3>1 DEF Chunk
    <3>3. PICK q : Fine(y, e, q, late) /\ (q.over \/ q.known = D)
      BY <2>1, <3>2 DEF Chunk
    <3>4. s = Append(none, a) /\ t = Append(s, b) /\ evs = Append(t, e)
      BY <2>2, <2>3, <2>5
    <3>5. IsSeq(s) /\ IsSeq(t)
      BY LiteralSeqs
    <3> HIDE DEF s, t
    <3>6. Tells(p, s, x, late) /\ Passes(s)
      BY <1>1, <3>1, <3>4, TellsMore, PassesMore
    <3>7. Tells(p, t, y, late) /\ Passes(t)
      BY <3>2, <3>4, <3>5, <3>6, TellsMore, PassesMore
    <3>8. Tells(p, evs, q, late) /\ Passes(evs)
      BY <3>3, <3>4, <3>5, <3>7, TellsMore, PassesMore
    <3> QED BY <3>3, <3>8
  <2> QED BY <2>1, <2>4, <2>5
<1> QED BY <1>2, <1>3

\* An answer that is late stays so.
LEMMA AttendsLater ==
    ASSUME inbound \in {"openai", "responses"}, NEW s, NEW d, NEW p, NEW late, Attends(s, d, p, late),
           NEW then, late => then
    PROVE  Attends(s, d, p, then)
BY DEF Attends, Received

-----------------------------------------------------------------------------
\* No text comes between the calls of an answer.
NoTextBetweenCalls ==
    \A shape \in Shapes : \A i, j, k \in DOMAIN shape :
        i < j /\ j < k /\ shape[i] = "call" /\ shape[k] = "call" => shape[j] # "text"

\* Whom the invariant is about.
Orderly == inbound # "anthropic" /\ (inbound = "responses" => NoTextBetweenCalls)

\* What the writer was told so far.
Told(p) == IF upstream = "openai" THEN p.over \/ p.known = CallNumbers(said) ELSE p = StateOf(reader)

\* Before its first event nothing has been read; while it streams, the client follows
\* what the writer was told, and the reader knows the calls of the answer.
Talks ==
    /\ stage = "asked" => said = <<>> /\ reader = Reader
    /\ stage # "quiet" => \E p : Attends(writer, client, p, Late(said)) /\ Told(p)
    /\ stage \notin {"quiet", "asked"} /\ upstream # "openai" => AtRest(reader, CallPlaces(said), wire)
    /\ "out" \in DOMAIN reader /\ client.astray = FALSE

\* What the invariant of a conversation says.
TalkInv ==
    /\ scenario \in Scenarios /\ IsSeq(said) /\ count \in Nat
    /\ \A i \in DOMAIN said : DOMAIN said[i] = BlockFields /\ said[i].type \in {"text", "thinking", "call"}
    /\ Orderly => Talks

\* Who may talk to whom.
LEMMA Scene ==
    ASSUME scenario \in Scenarios
    PROVE  /\ {inbound, upstream, wire} \subseteq Dialect /\ inbound # upstream
           /\ wire = upstream \/ (upstream = "responses" /\ wire = "anthropic")
BY DialogueConstants DEF upstream, wire, inbound

LEMMA WireIsNamed ==
    ASSUME scenario \in Scenarios
    PROVE  IsNamed(wire)
<1>1. wire \in {"openai", "anthropic", "responses"}
  BY Scene DEF Dialect
<1>2. "openai" # "" /\ "anthropic" # "" /\ "responses" # ""
  BY Zenon
<1> QED BY <1>1, <1>2, Zenon DEF IsNamed

\* A client that is attended to is not astray.
LEMMA AttendedIsNotAstray ==
    ASSUME inbound \in {"openai", "responses"}, NEW s, NEW d, NEW p, NEW late, Attends(s, d, p, late)
    PROVE  d.astray = FALSE
BY DEF Attends, Received

\* A step in which an upstream of another dialect sends something.
LEMMA ReaderTalks ==
    ASSUME inbound \in {"openai", "responses"}, upstream \in {"anthropic", "responses"}, scenario' = scenario,
           NEW evs, Transmit(evs), NEW p, Attends(writer, client, p, Late(said)), Told(p),
           Late(said) => Late(said'), stage' \notin {"quiet", "asked"},
           Heeds(ReadAll(upstream, reader, evs), CallPlaces(said'), StateOf(reader), Late(said'), wire)
    PROVE  Talks'
<1>1. p = StateOf(reader)
  BY DEF Told
<1>2. Attends(writer, client, StateOf(reader), Late(said'))
  BY <1>1, AttendsLater
<1> DEFINE late == Late(said')
<1> DEFINE D == CallPlaces(said')
<1> HIDE DEF late, D
<1>3. Attends(writer', client', StateOf(reader'), late) /\ AtRest(reader', D, wire)
  BY <1>2, ReaderGoesOn DEF late, D
<1>4. inbound' = inbound /\ upstream' = upstream /\ wire' = wire
  BY DEF inbound, upstream, wire
<1>5. "out" \in DOMAIN reader'
  BY <1>3 DEF AtRest, ReaderFields
<1>6. client'.astray = FALSE
  BY <1>3, AttendedIsNotAstray
<1>7. (\E q : Attends(writer, client, q, Late(said)) /\ Told(q))'
  <2>1. Attends(writer, client, StateOf(reader), Late(said))'
    BY <1>3, <1>4 DEF late, Attends, Received, ItemsKnown
  <2>2. Told(StateOf(reader))'
    BY <1>4 DEF Told
  <2> QED BY <2>1, <2>2
<1>8. AtRest(reader, CallPlaces(said), wire)'
  BY <1>3, <1>4 DEF D, AtRest
<1> QED BY <1>5, <1>6, <1>7, <1>8 DEF Talks

\* The same of an OpenAI upstream.
LEMMA ChunksTalk ==
    ASSUME inbound = "responses", upstream = "openai", scenario' = scenario, "out" \in DOMAIN reader,
           NEW evs, Transmit(evs), NEW p, Attends(writer, client, p, Late(said)), Told(p),
           Late(said) => Late(said'), stage' \notin {"quiet", "asked"},
           ChunksLead(evs, CallNumbers(said), CallNumbers(said'), Late(said'))
    PROVE  Talks'
<1> DEFINE late == Late(said')
<1> DEFINE K == CallNumbers(said)
<1> DEFINE D == CallNumbers(said')
<1>1. p.over \/ p.known = K
  BY DEF Told
<1>2. Attends(writer, client, p, late)
  BY AttendsLater
<1> HIDE DEF late, K, D
<1>3. Passes(evs) /\ \E q : Tells(p, evs, q, late) /\ (q.over \/ q.known = D)
  BY <1>1, ChunksAreTold DEF late, K, D
<1>4. PICK q : Tells(p, evs, q, late) /\ (q.over \/ q.known = D)
  BY <1>3
<1>5. Attends(writer', client', q, late) /\ "out" \in DOMAIN reader'
  BY <1>2, <1>3, <1>4, ChunksPass
<1>6. inbound' = inbound /\ upstream' = upstream /\ wire' = wire
  BY DEF inbound, upstream, wire
<1>7. client'.astray = FALSE
  BY <1>5, AttendedIsNotAstray
<1>8. Attends(writer, client, q, Late(said))'
  BY <1>5, <1>6 DEF late, Attends
<1>9. Told(q)'
  BY <1>4, <1>6 DEF Told, D
<1>10. (\E x : Attends(writer, client, x, Late(said)) /\ Told(x))'
  BY <1>8, <1>9
<1> QED BY <1>5, <1>6, <1>7, <1>10 DEF Talks

-----------------------------------------------------------------------------
\* The events that open no call.
LEMMA SomeSent ==
    ASSUME NEW C, NEW late, NEW d
    PROVE  /\ \A e : e.type \notin {"start_call", "added_call", "json", "args", "text"} => SentFine(e, C, C, late, d)
           /\ \A e : e.type = "text" /\ (C = {} \/ late) => SentFine(e, C, C, late, d)
           /\ \A e : e.type \in {"json", "args"} /\ e.index \in C => SentFine(e, C, C, late, d)
BY DEF SentFine, EventFine

\* What joining short tuples gives.
Join(x, a, e) ==
    /\ <<>> \o <<e>> = <<e>> /\ <<x>> \o <<e>> = <<x, e>>
    /\ <<>> \o <<a, e>> = <<a, e>> /\ <<x>> \o <<a, e>> = <<x, a, e>>

\* Joining short tuples.
LEMMA ShortJoins == ASSUME NEW x, NEW a, NEW e PROVE Join(x, a, e)
<1>1. <<e>> = Append(<<>>, e)
  OBVIOUS
<1>2. <<x, e>> = Append(<<x>>, e)
  OBVIOUS
<1>3. <<a, e>> = Append(Append(<<>>, a), e)
  OBVIOUS
<1>4. <<x, a, e>> = Append(Append(<<x>>, a), e)
  OBVIOUS
<1>5. IsSeq(<<>>) /\ IsSeq(<<x>>)
  BY LiteralSeqs
<1>6. ASSUME NEW s, IsSeq(s) PROVE s \o <<e>> = Append(s, e) /\ s \o <<a, e>> = Append(Append(s, a), e)
  BY <1>6, JoinOfOne, JoinOfTwo
<1> DEFINE none == <<>>
<1> DEFINE one == <<x>>
<1>7. none \o <<e>> = Append(none, e) /\ none \o <<a, e>> = Append(Append(none, a), e)
  BY <1>5, <1>6
<1>8. one \o <<e>> = Append(one, e) /\ one \o <<a, e>> = Append(Append(one, a), e)
  BY <1>5, <1>6
<1> QED BY <1>1, <1>2, <1>3, <1>4, <1>7, <1>8 DEF Join

\* The end of a block comes before what follows it.
LEMMA ClosesThen ==
    ASSUME wire # "openai", NEW e, NEW C, NEW D, NEW late, NEW d, SentFine(e, C, D, late, d)
    PROVE  /\ Leads(<<e>>, C, D, late, d)
           /\ Leads(Closes \o <<e>>, C, D, late, d)
           /\ \A a : SentFine(a, C, C, late, d) => Leads(Closes \o <<a, e>>, C, D, late, d)
<1>1. Closes = <<>> \/ \E x : Closes = <<x>> /\ x.type \in {"stop", "done_item"}
  BY DEF Closes, E
<1>2. \A x : x.type \in {"stop", "done_item"} => SentFine(x, C, C, late, d)
  BY SomeSent
<1>3. PICK x : SentFine(x, C, C, late, d) /\ (Closes = <<>> \/ Closes = <<x>>)
  <2>1. SentFine(Eof, C, C, late, d)
    BY SomeSent DEF Eof, E
  <2> QED BY <1>1, <1>2, <2>1
<1>j. \A a : Join(x, a, e)
  BY ShortJoins
<1>4. Closes \o <<e>> = <<e>> \/ Closes \o <<e>> = <<x, e>>
  BY <1>3, <1>j, Zenon DEF Join
<1>5. ASSUME NEW a PROVE Closes \o <<a, e>> = <<a, e>> \/ Closes \o <<a, e>> = <<x, a, e>>
  BY <1>3, <1>j, Zenon DEF Join
<1>6. Leads(<<e>>, C, D, late, d)
  BY <1>3 DEF Leads
<1>7. Leads(Closes \o <<e>>, C, D, late, d)
  <2> DEFINE s == Closes \o <<e>>
  <2>1. s = <<e>> \/ s = <<x, e>>
    BY <1>4
  <2> HIDE DEF s
  <2>2. Leads(s, C, D, late, d)
    BY <1>3, <2>1 DEF Leads
  <2> QED BY <2>2 DEF s
<1>8. ASSUME NEW a, SentFine(a, C, C, late, d) PROVE Leads(Closes \o <<a, e>>, C, D, late, d)
  <2> DEFINE s == Closes \o <<a, e>>
  <2>1. s = <<a, e>> \/ s = <<x, a, e>>
    BY <1>5
  <2> HIDE DEF s
  <2>2. Leads(s, C, D, late, d)
    BY <1>3, <1>8, <2>1 DEF Leads
  <2> QED BY <2>2 DEF s
<1> QED BY <1>6, <1>7, <1>8

\* Before its first event an upstream has no envelope.
LEMMA FirstEnvelope ==
    ASSUME upstream \in {"anthropic", "responses"}, NEW e
    PROVE  EnvelopeOf(Quiet(Reader), e)
              = IF upstream = "anthropic" \/ e.type \in AnthropicOpening THEN "anthropic" ELSE "responses"
<1>1. DOMAIN Reader = ReaderFields
  BY DEF Reader, ReaderFields
<1>2. Quiet(Reader).envelope = Reader.envelope
  BY <1>1 DEF Quiet, ReaderFields
<1>3. Reader.envelope = ""
  BY Zenon DEF Reader
<1>4. Quiet(Reader).envelope = ""
  BY <1>2, <1>3, Zenon
<1> QED BY <1>4, Zenon DEF EnvelopeOf

\* The reader of a new request, and its first event.
LEMMA ReaderIsIdle ==
    ASSUME NEW d, d = Reader.envelope
    PROVE  AtRest(Reader, {}, d) /\ StateOf(Reader).known = {} /\ StateOf(Reader).over = FALSE
<1>b. DOMAIN Reader = ReaderFields
  BY FreshReader DEF IsReader
<1>c. Reader.out = <<>> /\ Reader.calls = <<>>
  BY Zenon DEF Reader
<1>d. DOMAIN <<>> = {}
  OBVIOUS
<1>0. DOMAIN Reader = ReaderFields /\ Reader.out = <<>> /\ DOMAIN Reader.calls = {}
  BY <1>b, <1>c, <1>d
<1>a. Reader.over = FALSE
  BY Zenon DEF Reader
<1>1. /\ DOMAIN Reader = ReaderFields /\ Reader.out = <<>> /\ DOMAIN Reader.calls = {}
      /\ Reader.over = FALSE
  BY <1>0, <1>a
<1>2. IsFiniteSet(DOMAIN Reader.calls) /\ Cardinality(DOMAIN Reader.calls) = 0
  BY <1>1, FS_EmptySet
<1>3. Numbers(Reader) = {}
  BY <1>2 DEF Numbers
<1>4. StateOf(Reader).known = {} /\ StateOf(Reader).over = FALSE
  BY <1>1, <1>3, StateFields DEF StateOf
<1> QED BY <1>1, <1>2, <1>4 DEF AtRest

LEMMA FirstRead ==
    ASSUME upstream \in {"anthropic", "responses"}, NEW e, NEW late, NEW d, SentFine(e, {}, {}, late, d),
           d = IF upstream = "anthropic" \/ e.type \in AnthropicOpening THEN "anthropic" ELSE "responses"
    PROVE  Heeds(ReadAll(upstream, Reader, <<e>>), {}, StateOf(Reader), late, d)
<1> DEFINE r == Quiet(Reader)
<1> DEFINE none == <<>>
<1> DEFINE v == Reader.envelope
<1>1. AtRest(Reader, {}, v)
  BY ReaderIsIdle
<1>2. Heeds(r, {}, StateOf(Reader), late, v)
  BY <1>1, IdleHeeds
<1>3. Reads(r, {}, StateOf(Reader), late)
  BY <1>2 DEF Heeds
<1>4. EnvelopeOf(r, e) = d
  BY FirstEnvelope
<1>a. IsSeq(none)
  BY LiteralSeqs
<1>b. <<e>> = Append(none, e)
  OBVIOUS
<1>c. ReadAll(upstream, Reader, none) = r
  BY ReadAllNone
<1>5. IsSeq(none) /\ <<e>> = Append(none, e) /\ ReadAll(upstream, Reader, none) = r
  BY <1>a, <1>b, <1>c
<1> HIDE DEF none, r
<1>d. ASSUME NEW s, IsSeq(s) PROVE ReadAll(upstream, Reader, Append(s, e)) = ReadEvent(upstream, ReadAll(upstream, Reader, s), e)
  BY <1>d, ReadAllMore
<1>6. ReadAll(upstream, Reader, <<e>>) = ReadEvent(upstream, r, e)
  BY <1>5, <1>d
<1>7. Heeds(ReadEvent(upstream, r, e), {}, StateOf(Reader), late, d)
  BY <1>3, <1>4, ReadNext
<1> QED BY <1>6, <1>7

\* Before anything is said.
LEMMA NothingSaid == CallPlaces(<<>>) = {} /\ CallNumbers(<<>>) = {} /\ ~Late(<<>>)
<1>1. CallsOf(<<>>) = {}
  BY DEF CallsOf
<1>2. ~Late(<<>>)
  BY DEF Late
<1> QED BY <1>1, <1>2 DEF CallPlaces, CallNumbers

\* The dialects of a conversation the invariant speaks of.
LEMMA TalkScene ==
    ASSUME TalkInv, Orderly
    PROVE  /\ inbound \in {"openai", "responses"} /\ IsNamed(wire) /\ Talks
           /\ \/ upstream \in {"anthropic", "responses"} /\ wire \in {"anthropic", "responses"}
                 /\ (upstream = "anthropic" => wire = "anthropic")
              \/ upstream = "openai" /\ wire = "openai" /\ inbound = "responses"
<1>1. scenario \in Scenarios /\ Talks
  BY DEF TalkInv
<1>2. /\ {inbound, upstream, wire} \subseteq Dialect /\ inbound # upstream
      /\ wire = upstream \/ (upstream = "responses" /\ wire = "anthropic")
  BY <1>1, Scene
<1>3. inbound # "anthropic"
  BY DEF Orderly
<1>4. IsNamed(wire)
  BY <1>1, WireIsNamed
<1> QED BY <1>1, <1>2, <1>3, <1>4 DEF Dialect

\* A step of an upstream that is being read, and one of an OpenAI upstream.
LEMMA ReaderStep ==
    ASSUME TalkInv, Orderly, upstream \in {"anthropic", "responses"}, scenario' = scenario,
           stage \notin {"quiet", "asked"}, stage' \notin {"quiet", "asked"}, NEW evs, Transmit(evs),
           Late(said) => Late(said'), Leads(evs, CallPlaces(said), CallPlaces(said'), Late(said'), wire)
    PROVE  Talks'
<1>1. /\ inbound \in {"openai", "responses"} /\ IsNamed(wire) /\ Talks
      /\ upstream = "anthropic" => wire = "anthropic"
  BY TalkScene
<1>2. AtRest(reader, CallPlaces(said), wire)
  BY <1>1 DEF Talks
<1>3. PICK p : Attends(writer, client, p, Late(said)) /\ Told(p)
  BY <1>1 DEF Talks
<1> DEFINE late == Late(said')
<1> DEFINE C == CallPlaces(said)
<1> DEFINE D == CallPlaces(said')
<1> DEFINE d == wire
<1> DEFINE r == reader
<1>4. AtRest(r, C, d) /\ IsNamed(d) /\ Leads(evs, C, D, late, d) /\ (upstream = "anthropic" => d = "anthropic")
  BY <1>1, <1>2
<1> HIDE DEF late, C, D, d, r
<1>5. Heeds(ReadAll(upstream, r, evs), D, StateOf(r), late, d)
  BY <1>4, ReadsLed
<1>6. Heeds(ReadAll(upstream, reader, evs), CallPlaces(said'), StateOf(reader), Late(said'), wire)
  BY <1>5 DEF late, C, D, d, r
<1> QED BY <1>1, <1>3, <1>6, ReaderTalks

LEMMA ChunkStep ==
    ASSUME TalkInv, Orderly, upstream = "openai", scenario' = scenario,
           stage # "quiet", stage' \notin {"quiet", "asked"}, NEW evs, Transmit(evs),
           Late(said) => Late(said'), ChunksLead(evs, CallNumbers(said), CallNumbers(said'), Late(said'))
    PROVE  Talks'
<1>1. inbound = "responses" /\ Talks
  BY TalkScene
<1>2. "out" \in DOMAIN reader
  BY <1>1 DEF Talks
<1>3. PICK p : Attends(writer, client, p, Late(said)) /\ Told(p)
  BY <1>1 DEF Talks
<1> QED BY <1>1, <1>2, <1>3, ChunksTalk

\* The first step of an upstream that is read.
LEMMA FirstStep ==
    ASSUME TalkInv, Orderly, upstream \in {"anthropic", "responses"}, scenario' = scenario, said' = said,
           stage = "asked", stage' \notin {"quiet", "asked"}, NEW e, Transmit(<<e>>),
           Heeds(ReadAll(upstream, Reader, <<e>>), {}, StateOf(Reader), Late(<<>>), wire)
    PROVE  Talks'
<1>1. inbound \in {"openai", "responses"} /\ Talks
  BY TalkScene
<1>2. said = <<>> /\ reader = Reader
  BY <1>1 DEF Talks
<1>3. PICK p : Attends(writer, client, p, Late(said)) /\ Told(p)
  BY <1>1 DEF Talks
<1>4. CallPlaces(said') = {} /\ Late(said') = Late(<<>>)
  BY <1>2, NothingSaid
<1> DEFINE evs == <<e>>
<1>5. Heeds(ReadAll(upstream, reader, evs), CallPlaces(said'), StateOf(reader), Late(said'), wire) /\ Transmit(evs)
  BY <1>2, <1>4
<1> HIDE DEF evs
<1> QED BY <1>1, <1>3, <1>5, ReaderTalks

-----------------------------------------------------------------------------
\* Each step of an upstream leaves the client served.
LEMMA TalkBegins ==
    ASSUME TalkInv, Orderly, UpstreamBegins
    PROVE  Talks'
<1>1. /\ stage = "asked" /\ stage' = "open" /\ scenario' = scenario /\ said' = said
      /\ Transmit(CASE wire = "anthropic" -> <<E("message_start", 0, 0)>>
                    [] wire = "responses" -> <<E("created", 0, 0)>>
                    [] OTHER -> <<E("role", 0, 0)>>)
  BY DEF UpstreamBegins
<1>2. CASE upstream # "openai"
  <2>1. /\ upstream \in {"anthropic", "responses"} /\ wire \in {"anthropic", "responses"}
        /\ upstream = "anthropic" => wire = "anthropic"
    BY <1>2, TalkScene
  <2> DEFINE e == IF wire = "anthropic" THEN E("message_start", 0, 0) ELSE E("created", 0, 0)
  <2>2. Transmit(<<e>>)
    BY <1>1, <2>1
  <2>3. e.type = IF wire = "anthropic" THEN "message_start" ELSE "created"
    BY DEF E
  <2> HIDE DEF e
  <2>4. SentFine(e, {}, {}, Late(<<>>), wire)
    BY <2>3, SomeSent
  <2>5. wire = IF upstream = "anthropic" \/ e.type \in AnthropicOpening THEN "anthropic" ELSE "responses"
    BY <2>1, <2>3 DEF AnthropicOpening
  <2> DEFINE late == Late(<<>>)
  <2> DEFINE d == wire
  <2> HIDE DEF late, d
  <2>6. Heeds(ReadAll(upstream, Reader, <<e>>), {}, StateOf(Reader), late, d)
    BY <2>1, <2>4, <2>5, FirstRead DEF late, d
  <2> QED BY <1>1, <2>1, <2>2, <2>6, FirstStep DEF late, d
<1>3. CASE upstream = "openai"
  <2>1. wire = "openai" /\ inbound = "responses"
    BY <1>3, TalkScene
  <2> DEFINE e == E("role", 0, 0)
  <2> DEFINE evs == <<e>>
  <2>2. Transmit(evs)
    BY <1>1, <2>1
  <2>3. e.type = "role"
    BY DEF E
  <2> DEFINE K == CallNumbers(said)
  <2> DEFINE late == Late(said)
  <2>4. CallNumbers(said') = K /\ Late(said') = late
    BY <1>1
  <2> HIDE DEF e, K, late
  <2>5. Chunk(e, K, K, late)
    BY <2>1, <2>3, SomeSay
  <2>6. ChunksLead(evs, K, K, late)
    BY <2>5 DEF ChunksLead
  <2> HIDE DEF evs
  <2>7. ChunksLead(evs, CallNumbers(said), CallNumbers(said'), Late(said')) /\ (Late(said) => Late(said'))
    BY <2>4, <2>6 DEF K, late
  <2> QED BY <1>1, <1>3, <2>2, <2>7, ChunkStep
<1> QED BY <1>2, <1>3

\* Where no text comes between calls, none comes before a call that follows a call.
LEMMA CallsComeFirst ==
    ASSUME NoTextBetweenCalls, NEW s, IsSeq(s), \A i \in DOMAIN s : s[i].type \in {"text", "thinking", "call"},
           NEW b, b.type = "call",
           NEW shape \in Shapes, IsPrefix(Append([i \in DOMAIN s |-> s[i].type], "call"), shape)
    PROVE  ~Late(Append(s, b))
<1> DEFINE K == {"text", "thinking", "call"}
<1> DEFINE n == Len(s)
<1> DEFINE t == Append(s, b)
<1> DEFINE u == [i \in DOMAIN s |-> s[i].type]
<1> DEFINE v == Append(u, "call")
<1>1. n \in Nat /\ DOMAIN s = 1..n
  BY Shape
<1>2. DOMAIN t = 1..(n + 1) /\ t[n + 1] = b /\ \A i \in 1..n : t[i] = s[i]
  <2>1. s \in Seq(Elements(s) \cup {b})
    BY Wider DEF Elements
  <2> QED BY <2>1
<1> HIDE DEF n
<1>3. u \in Seq(K) /\ Len(u) = n /\ \A i \in 1..n : u[i] = s[i].type
  BY <1>1
<1> HIDE DEF u
<1>4. v \in Seq(K) /\ Len(v) = n + 1 /\ v[n + 1] = "call" /\ \A i \in 1..n : v[i] = s[i].type
  BY <1>1, <1>3
<1>5. shape \in Seq(K) /\ IsPrefix(v, shape)
  BY DialogueConstants DEF u
<1> HIDE DEF v, t
<1>6. Len(shape) \in Nat /\ n + 1 <= Len(shape) /\ DOMAIN shape = 1..Len(shape) /\ \A i \in 1..(n + 1) : shape[i] = v[i]
  <2>1. n + 1 <= Len(shape) /\ SubSeq(v, 1, n + 1) = SubSeq(shape, 1, n + 1)
    BY <1>4, <1>5 DEF IsPrefix
  <2>2. \A i \in 1..(n + 1) : SubSeq(v, 1, n + 1)[i] = v[i] /\ SubSeq(shape, 1, n + 1)[i] = shape[i]
    BY <1>1, <1>4, <1>5, <2>1
  <2>3. Len(shape) \in Nat /\ DOMAIN shape = 1..Len(shape)
    BY <1>5
  <2>4. \A i \in 1..(n + 1) : shape[i] = v[i]
    BY <2>1, <2>2, Zenon
  <2> QED BY <2>1, <2>3, <2>4
<1>7. ASSUME NEW i \in 1..(n + 1), NEW j \in 1..(n + 1), i < j, t[i].type = "call", t[j].type = "text" PROVE FALSE
  <2>1. j # n + 1
    BY <1>2, <1>7
  <2>2. i \in 1..n /\ j \in 1..n /\ i < j /\ j < n + 1
    BY <1>1, <1>7, <2>1
  <2>3. shape[i] = "call" /\ shape[j] = "text" /\ shape[n + 1] = "call"
    BY <1>1, <1>2, <1>4, <1>6, <1>7, <2>2
  <2>4. {i, j, n + 1} \subseteq DOMAIN shape
    BY <1>1, <1>6, <2>2
  <2> QED BY <2>2, <2>3, <2>4 DEF NoTextBetweenCalls
<1> QED BY <1>2, <1>7 DEF Late, t

\* The block the upstream opens next, and the event that says so.
LEMMA OpeningOf ==
    ASSUME TalkInv, UpstreamOpens
    PROVE  \E type \in {"text", "thinking", "call"} : \E id :
              /\ type = "call" => id # NoId
              /\ \E shape \in Shapes : IsPrefix(Append([i \in DOMAIN said |-> said[i].type], type), shape)
              /\ said' = Append(said, Block(type, id, <<>>))
              /\ Transmit(Closes \o
                    CASE wire = "anthropic" -> <<E(StartName[type], Index(Len(said) + 1), id)>>
                      [] wire = "responses" -> <<E(AddedName[type], Index(Len(said) + 1), id)>>
                      [] OTHER -> IF type = "call" THEN <<CallChunk(CallIndex(Len(said) + 1), id, <<>>)>> ELSE <<>>)
<1>1. count + 1 # NoId
  BY DEF TalkInv, NoId
<1> QED BY <1>1 DEF UpstreamOpens

\* The index of the next block.
LEMMA NextIndex ==
    ASSUME NEW s, IsSeq(s)
    PROVE  Index(Len(s) + 1) = Len(s)
<1>1. Len(s) \in Nat
  BY Shape
<1> QED BY <1>1 DEF Index

\* What is known of the answer when a block was opened.
LEMMA OneSaid ==
    ASSUME TalkInv, NEW type \in {"text", "thinking", "call"}, NEW id, said' = Append(said, Block(type, id, <<>>)),
           NEW shape \in Shapes, IsPrefix(Append([i \in DOMAIN said |-> said[i].type], type), shape)
    PROVE  LET n == Len(said) i == CallIndex(n + 1)
           IN  /\ Late(said) => Late(said')
               /\ n \notin CallPlaces(said)
               /\ CallPlaces(said') = CallPlaces(said) \cup (IF type = "call" THEN {n} ELSE {})
               /\ type = "call" => i \in Nat /\ i \notin CallNumbers(said) /\ CallNumbers(said') = CallNumbers(said) \cup {i}
               /\ type # "call" => CallNumbers(said') = CallNumbers(said)
               /\ type = "call" /\ NoTextBetweenCalls => ~Late(said')
<1> DEFINE b == Block(type, id, <<>>)
<1> DEFINE n == Len(said)
<1> DEFINE t == Append(said, b)
<1>1. b.type = type /\ IsSeq(said) /\ said' = t
  BY DEF Block, TalkInv
<1> HIDE DEF b
<1>2. /\ CallsOf(t) = CallsOf(said) \cup (IF b.type = "call" THEN {n + 1} ELSE {})
      /\ CallPlaces(t) = CallPlaces(said) \cup (IF b.type = "call" THEN {n} ELSE {})
      /\ n \notin CallPlaces(said) /\ (\A m \in CallsOf(t) : Rank(t, m) = Rank(said, m))
      /\ Late(said) => Late(t)
  BY <1>1, OneMore
<1>3. CallIndex(n + 1) = Rank(said, n + 1)
  BY DEF CallIndex, Rank
<1>4. ASSUME type = "call"
      PROVE  LET i == Rank(said, n + 1)
             IN  i \in Nat /\ i \notin CallNumbers(said) /\ CallNumbers(t) = CallNumbers(said) \cup {i}
  BY <1>1, <1>4, FreshNumber
<1>5. ASSUME type # "call" PROVE CallNumbers(t) = CallNumbers(said)
  <2>1. CallsOf(t) = CallsOf(said)
    BY <1>1, <1>2, <1>5
  <2> HIDE DEF t
  <2> QED BY <1>2, <2>1 DEF CallNumbers
<1>6. ASSUME type = "call", NoTextBetweenCalls PROVE ~Late(t)
  <2>1. \A i \in DOMAIN said : said[i].type \in {"text", "thinking", "call"}
    BY DEF TalkInv
  <2> QED BY <1>1, <1>6, <2>1, CallsComeFirst
<1> HIDE DEF t, n
<1> QED BY <1>1, <1>2, <1>3, <1>4, <1>5, <1>6 DEF n

\* The names of the events that open a block.
LEMMA OpeningNames ==
    ASSUME NEW type \in {"text", "thinking", "call"}
    PROVE  /\ StartName[type] = (IF type = "call" THEN "start_call" ELSE IF type = "text" THEN "start_text" ELSE "start_thinking")
           /\ AddedName[type] = (IF type = "call" THEN "added_call" ELSE IF type = "text" THEN "added_text" ELSE "added_reasoning")
BY DEF StartName, AddedName

\* The event that opens a block is as the readers expect it.
LEMMA OpeningSent ==
    ASSUME wire \in {"anthropic", "responses"}, NEW type \in {"text", "thinking", "call"}, NEW id, NEW n, NEW C, NEW late,
           type = "call" => n \notin C /\ id # NoId /\ (inbound = "responses" => ~late)
    PROVE  SentFine(E(IF wire = "anthropic" THEN StartName[type] ELSE AddedName[type], n, id),
                    C, C \cup (IF type = "call" THEN {n} ELSE {}), late, wire)
<1> DEFINE e == E(IF wire = "anthropic" THEN StartName[type] ELSE AddedName[type], n, id)
<1> DEFINE D == C \cup (IF type = "call" THEN {n} ELSE {})
<1>1. /\ e.type = (IF wire = "anthropic" THEN StartName[type] ELSE AddedName[type])
      /\ e.index = n /\ e.data = id
  BY DEF E
<1>2. /\ type = "call" => e.type = (IF wire = "anthropic" THEN "start_call" ELSE "added_call")
      /\ type # "call" => e.type \in {"start_text", "start_thinking", "added_text", "added_reasoning"}
  BY <1>1, OpeningNames
<1>3. D = IF type = "call" THEN C \cup {n} ELSE C
  OBVIOUS
<1> HIDE DEF e, D
<1>4. ASSUME type = "call" PROVE SentFine(e, C, D, late, wire)
  BY <1>1, <1>2, <1>3, <1>4 DEF SentFine, EventFine
<1>5. ASSUME type # "call" PROVE SentFine(e, C, D, late, wire)
  BY <1>1, <1>2, <1>3, <1>5 DEF SentFine, EventFine
<1>6. SentFine(e, C, D, late, wire)
  BY <1>4, <1>5
<1> QED BY <1>6 DEF e, D

\* A block is opened.
LEMMA TalkOpens ==
    ASSUME TalkInv, Orderly, UpstreamOpens
    PROVE  Talks'
<1>a. PICK type \in {"text", "thinking", "call"} : \E id :
         /\ type = "call" => id # NoId
         /\ \E shape \in Shapes : IsPrefix(Append([i \in DOMAIN said |-> said[i].type], type), shape)
         /\ said' = Append(said, Block(type, id, <<>>))
         /\ Transmit(Closes \o
               CASE wire = "anthropic" -> <<E(StartName[type], Index(Len(said) + 1), id)>>
                 [] wire = "responses" -> <<E(AddedName[type], Index(Len(said) + 1), id)>>
                 [] OTHER -> IF type = "call" THEN <<CallChunk(CallIndex(Len(said) + 1), id, <<>>)>> ELSE <<>>)
  BY OpeningOf
<1>1. PICK id :
         /\ type = "call" => id # NoId
         /\ \E shape \in Shapes : IsPrefix(Append([i \in DOMAIN said |-> said[i].type], type), shape)
         /\ said' = Append(said, Block(type, id, <<>>))
         /\ Transmit(Closes \o
               CASE wire = "anthropic" -> <<E(StartName[type], Index(Len(said) + 1), id)>>
                 [] wire = "responses" -> <<E(AddedName[type], Index(Len(said) + 1), id)>>
                 [] OTHER -> IF type = "call" THEN <<CallChunk(CallIndex(Len(said) + 1), id, <<>>)>> ELSE <<>>)
  BY <1>a
<1>2. scenario' = scenario /\ stage = "open" /\ stage' = "open"
  BY DEF UpstreamOpens
<1> DEFINE n == Len(said)
<1> DEFINE j == CallIndex(n + 1)
<1> DEFINE C == CallPlaces(said)
<1> DEFINE D == CallPlaces(said')
<1> DEFINE late == Late(said')
<1>3. /\ Late(said) => late
      /\ n \notin C /\ D = C \cup (IF type = "call" THEN {n} ELSE {})
      /\ type = "call" => j \in Nat /\ j \notin CallNumbers(said) /\ CallNumbers(said') = CallNumbers(said) \cup {j}
      /\ type # "call" => CallNumbers(said') = CallNumbers(said)
      /\ type = "call" /\ NoTextBetweenCalls => ~late
  BY <1>1, OneSaid
<1>4. inbound = "responses" => NoTextBetweenCalls
  BY DEF Orderly
<1>5. CASE upstream # "openai"
  <2>1. upstream \in {"anthropic", "responses"} /\ wire \in {"anthropic", "responses"}
    BY <1>5, TalkScene
  <2> DEFINE e == E(IF wire = "anthropic" THEN StartName[type] ELSE AddedName[type], n, id)
  <2> DEFINE evs == Closes \o <<e>>
  <2>2. Index(n + 1) = n
    BY NextIndex DEF TalkInv
  <2>3. Transmit(evs)
    BY <1>1, <2>1, <2>2
  <2>4. SentFine(e, C, D, late, wire)
    <3> DEFINE m == n
    <3> DEFINE B == C
    <3> DEFINE after == late
    <3>1. D = B \cup (IF type = "call" THEN {m} ELSE {})
      BY <1>3
    <3>2. type = "call" => m \notin B /\ id # NoId /\ (inbound = "responses" => ~after)
      BY <1>1, <1>3, <1>4
    <3> HIDE DEF m, B, after, D
    <3>3. SentFine(E(IF wire = "anthropic" THEN StartName[type] ELSE AddedName[type], m, id),
                    B, B \cup (IF type = "call" THEN {m} ELSE {}), after, wire)
      BY <2>1, <3>2, OpeningSent
    <3> QED BY <3>1, <3>3 DEF m, B, after
  <2> HIDE DEF C, D, late, e
  <2>5. Leads(evs, C, D, late, wire)
    BY <2>1, <2>4, ClosesThen
  <2> HIDE DEF evs
  <2> QED BY <1>2, <1>3, <2>1, <2>3, <2>5, ReaderStep DEF C, D, late
<1>6. CASE upstream = "openai"
  <2>1. wire = "openai" /\ inbound = "responses"
    BY <1>6, TalkScene
  <2> DEFINE opens == IF type = "call" THEN <<CallChunk(j, id, <<>>)>> ELSE <<>>
  <2>2. Transmit(opens)
    <3>1. Closes = <<>> /\ IsSeq(opens)
      BY <2>1, LiteralSeqs DEF Closes
    <3>2. Closes \o opens = opens
      BY <3>1 DEF IsSeq
    <3>3. Transmit(Closes \o opens)
      BY <1>1, <2>1
    <3> QED BY <3>2, <3>3
  <2> DEFINE K == CallNumbers(said)
  <2> DEFINE M == CallNumbers(said')
  <2>3. ASSUME type = "call" PROVE ChunksLead(opens, K, M, late)
    <3> DEFINE e == CallChunk(j, id, <<>>)
    <3>1. opens = <<e>>
      BY <2>3
    <3>2. ~late /\ id # NoId /\ j \in Nat /\ j \notin K /\ M = K \cup {j}
      BY <1>1, <1>3, <1>4, <2>1, <2>3
    <3> HIDE DEF j, K, M, late
    <3>3. Chunk(e, K, M, late)
      BY <2>1, <3>2, OpeningSays
    <3> HIDE DEF e
    <3>4. Chunk(Eof, K, K, late)
      BY <2>1, SomeSay DEF Eof, E
    <3>5. ChunksLead(<<e>>, K, M, late)
      BY <3>3, <3>4 DEF ChunksLead
    <3> QED BY <3>1, <3>5
  <2>4. ASSUME type # "call" PROVE ChunksLead(opens, K, M, late)
    <3>1. opens = <<>> /\ M = K
      BY <1>3, <2>4
    <3> QED BY <3>1 DEF ChunksLead
  <2>5. ChunksLead(opens, K, M, late)
    BY <2>3, <2>4
  <2> HIDE DEF opens
  <2> QED BY <1>2, <1>3, <1>6, <2>2, <2>5, ChunkStep
<1> QED BY <1>5, <1>6

\* A text that goes on comes before all calls or makes the answer late.
LEMMA LastText ==
    ASSUME NEW s, IsSeq(s), NEW n \in DOMAIN s, n = Len(s), s[n].type = "text"
    PROVE  (CallPlaces(s) = {} /\ CallNumbers(s) = {}) \/ Late(s)
<1>1. n \in Nat /\ DOMAIN s = 1..n
  BY Shape
<1>2. CASE CallsOf(s) = {}
  BY <1>2 DEF CallPlaces, CallNumbers
<1>3. CASE CallsOf(s) # {}
  <2>1. PICK m \in DOMAIN s : s[m].type = "call"
    BY <1>3 DEF CallsOf
  <2>2. m < n
    BY <1>1, <2>1
  <2> QED BY <1>1, <2>1, <2>2 DEF Late
<1> QED BY <1>2, <1>3

Extends(t, s, n, x) == t = [s EXCEPT ![n].data = Append(@, x)]

\* A piece more of a block changes no kind.
LEMMA KindsStay ==
    ASSUME NEW s, IsSeq(s), NEW n \in DOMAIN s, DOMAIN s[n] = BlockFields, NEW x, NEW t, Extends(t, s, n, x)
    PROVE  /\ CallPlaces(t) = CallPlaces(s) /\ CallNumbers(t) = CallNumbers(s) /\ Late(t) = Late(s)
           /\ DOMAIN t = DOMAIN s /\ \A i \in DOMAIN s : t[i].type = s[i].type /\ DOMAIN t[i] = DOMAIN s[i]
<1>1. DOMAIN t = DOMAIN s /\ \A i \in DOMAIN s : t[i].type = s[i].type /\ DOMAIN t[i] = DOMAIN s[i]
  BY DEF BlockFields, Extends
<1>2. \A i \in DOMAIN s : t[i].type = s[i].type
  BY <1>1
<1> QED BY <1>1, <1>2, SameKinds

\* The names of the events that carry a piece.
LEMMA DeltaNames ==
    ASSUME NEW type \in {"text", "thinking", "call"}
    PROVE  /\ DeltaName[type] = (IF type = "call" THEN "json" ELSE type)
           /\ ItemDeltaName[type] = (IF type = "call" THEN "args" ELSE IF type = "text" THEN "text" ELSE "reasoning")
BY DEF DeltaName, ItemDeltaName

\* The event that carries a piece is as the readers expect it.
LEMMA PieceSent ==
    ASSUME wire \in {"anthropic", "responses"}, NEW type \in {"text", "thinking", "call"}, NEW i, NEW x, NEW C, NEW late,
           type = "call" => i \in C, type = "text" => C = {} \/ late
    PROVE  SentFine(E(IF wire = "anthropic" THEN DeltaName[type] ELSE ItemDeltaName[type], i, x), C, C, late, wire)
<1> DEFINE e == E(IF wire = "anthropic" THEN DeltaName[type] ELSE ItemDeltaName[type], i, x)
<1>1. e.type = (IF wire = "anthropic" THEN DeltaName[type] ELSE ItemDeltaName[type]) /\ e.index = i
  BY DEF E
<1>2. /\ type = "call" => e.type \in {"json", "args"}
      /\ type = "text" => e.type = "text"
      /\ type = "thinking" => e.type \in {"thinking", "reasoning"}
  BY <1>1, DeltaNames
<1> HIDE DEF e
<1>3. SentFine(e, C, C, late, wire)
  BY <1>1, <1>2 DEF SentFine, EventFine
<1> QED BY <1>3 DEF e

\* The same of the chunks of an OpenAI upstream.
LEMMA PieceSays ==
    ASSUME inbound = "responses", TalkInv, NEW n \in DOMAIN said, NEW x, NEW late,
           said[n].type = "text" => CallNumbers(said) = {} \/ late
    PROVE  LET K == CallNumbers(said) IN Chunk(ChunkOf(n, x), K, K, late)
<1> DEFINE K == CallNumbers(said)
<1>1. said[n].type \in {"text", "thinking", "call"}
  BY DEF TalkInv
<1>2. CASE said[n].type = "text"
  <2> DEFINE e == E("content", 0, x)
  <2>1. ChunkOf(n, x) = e
    BY <1>2 DEF ChunkOf
  <2>2. e.type = "content" /\ (K = {} \/ late)
    BY <1>2 DEF E
  <2> HIDE DEF e, K
  <2>3. Chunk(e, K, K, late)
    BY <2>2, SomeSay
  <2> QED BY <2>1, <2>3 DEF K
<1>3. CASE said[n].type = "thinking"
  <2> DEFINE e == E("reasoning", 0, x)
  <2>1. ChunkOf(n, x) = e
    BY <1>3 DEF ChunkOf
  <2>2. e.type = "reasoning"
    BY DEF E
  <2> HIDE DEF e, K
  <2>3. Chunk(e, K, K, late)
    BY <2>2, SomeSay
  <2> QED BY <2>1, <2>3 DEF K
<1>4. CASE said[n].type = "call"
  <2> DEFINE i == CallIndex(n)
  <2>1. ChunkOf(n, x) = CallChunk(i, NoId, <<x>>)
    BY <1>4 DEF ChunkOf
  <2>2. n \in CallsOf(said) /\ i = Rank(said, n)
    BY <1>4 DEF CallsOf, CallIndex, Rank
  <2>3. i \in K
    BY <2>2 DEF CallNumbers
  <2> HIDE DEF i, K
  <2>4. Chunk(CallChunk(i, NoId, <<x>>), K, K, late)
    BY <2>3, SomeSay
  <2> QED BY <2>1, <2>4 DEF K
<1> QED BY <1>1, <1>2, <1>3, <1>4

\* A block goes on.
LEMMA TalkContinues ==
    ASSUME TalkInv, Orderly, UpstreamContinues
    PROVE  Talks'
<1> DEFINE x == count + 1
<1>1. PICK n \in DOMAIN said :
        /\ n = Len(said) \/ (wire = "openai" /\ said[n].type = "call")
        /\ said' = [said EXCEPT ![n].data = Append(@, x)]
        /\ Transmit(CASE wire = "anthropic" -> <<E(DeltaName[said[n].type], Index(n), x)>>
                      [] wire = "responses" -> <<E(ItemDeltaName[said[n].type], Index(n), x)>>
                      [] OTHER -> <<ChunkOf(n, x)>>)
  BY DEF UpstreamContinues
<1>2. scenario' = scenario /\ stage = "open" /\ stage' = "open"
  BY DEF UpstreamContinues
<1>3. IsSeq(said) /\ DOMAIN said[n] = BlockFields /\ said[n].type \in {"text", "thinking", "call"}
  BY DEF TalkInv
<1> HIDE DEF x
<1> DEFINE C == CallPlaces(said)
<1> DEFINE K == CallNumbers(said)
<1> DEFINE late == Late(said)
<1>4. CallPlaces(said') = C /\ CallNumbers(said') = K /\ Late(said') = late
  <2> DEFINE s == said
  <2> DEFINE t == said'
  <2>1. IsSeq(s) /\ n \in DOMAIN s /\ DOMAIN s[n] = BlockFields /\ Extends(t, s, n, x)
    BY <1>1, <1>3 DEF Extends
  <2> HIDE DEF s, t
  <2>2. CallPlaces(t) = CallPlaces(s) /\ CallNumbers(t) = CallNumbers(s) /\ Late(t) = Late(s)
    BY <2>1, KindsStay
  <2> QED BY <2>2 DEF s, t
<1>5. said[n].type = "text" => (C = {} /\ K = {}) \/ late
  BY <1>1, <1>3, LastText
<1>6. CASE upstream # "openai"
  <2>1. upstream \in {"anthropic", "responses"} /\ wire \in {"anthropic", "responses"}
    BY <1>6, TalkScene
  <2> DEFINE type == said[n].type
  <2> DEFINE i == Index(n)
  <2> DEFINE e == E(IF wire = "anthropic" THEN DeltaName[type] ELSE ItemDeltaName[type], i, x)
  <2> DEFINE evs == <<e>>
  <2>2. Transmit(evs)
    BY <1>1, <2>1
  <2>3. type = "call" => i \in C
    BY DEF CallPlaces, CallsOf
  <2>4. type \in {"text", "thinking", "call"} /\ (type = "text" => C = {} \/ late)
    BY <1>3, <1>5
  <2> HIDE DEF type, i, C, late
  <2>5. SentFine(e, C, C, late, wire)
    BY <2>1, <2>3, <2>4, PieceSent
  <2> HIDE DEF e
  <2>6. Leads(evs, C, C, late, wire)
    BY <2>1, <2>5, ClosesThen
  <2> HIDE DEF evs
  <2>7. Leads(evs, CallPlaces(said), CallPlaces(said'), Late(said'), wire) /\ (Late(said) => Late(said'))
    BY <1>4, <2>6 DEF C, late
  <2> QED BY <1>2, <2>1, <2>2, <2>7, ReaderStep
<1>7. CASE upstream = "openai"
  <2>1. wire = "openai" /\ inbound = "responses"
    BY <1>7, TalkScene
  <2> DEFINE e == ChunkOf(n, x)
  <2> DEFINE evs == <<e>>
  <2>2. Transmit(evs)
    BY <1>1, <2>1
  <2>3. Chunk(e, K, K, late)
    BY <1>5, <2>1, PieceSays
  <2> HIDE DEF e, K, late
  <2>4. ChunksLead(evs, K, K, late)
    BY <2>3 DEF ChunksLead
  <2> HIDE DEF evs
  <2>5. ChunksLead(evs, CallNumbers(said), CallNumbers(said'), Late(said')) /\ (Late(said) => Late(said'))
    BY <1>4, <2>4 DEF K, late
  <2> QED BY <1>2, <1>7, <2>2, <2>5, ChunkStep
<1> QED BY <1>6, <1>7

\* What an upstream sends when it has finished.
LEMMA EndingOf ==
    ASSUME UpstreamEnds
    PROVE  /\ wire = "anthropic" =>
                 \E a, e : Transmit(Closes \o <<a, e>>) /\ a.type = "message_delta" /\ e.type = "message_stop"
           /\ wire = "responses" => \E e : Transmit(Closes \o <<e>>) /\ e.type \in {"completed", "incomplete"}
           /\ wire \notin {"anthropic", "responses"} =>
                 \E a, b, e : Transmit(Closes \o <<a, b, e>>) /\ a.type = "last" /\ b.type = "last" /\ e.type = "done"
<1>1. PICK why :
        LET status == StatusOfFinish(why)
        IN Transmit(Closes \o
                  CASE wire = "anthropic" ->
                          <<E("message_delta", 0, [stop |-> StopOf(why), usage |-> Reported]),
                            E("message_stop", 0, 0)>>
                    [] wire = "responses" ->
                          <<E(status, 0, [status |-> status, reason |-> ReasonOfFinish(why),
                                          output |-> IF scenario.sparse THEN <<>> ELSE said,
                                          usage |-> Reported])>>
                    [] OTHER -> <<Finishes(why, NoUsage), Finishes("", Reported), Done>>)
  BY DEF UpstreamEnds
<1> DEFINE status == StatusOfFinish(why)
<1> DEFINE m == E("message_delta", 0, [stop |-> StopOf(why), usage |-> Reported])
<1> DEFINE s == E("message_stop", 0, 0)
<1> DEFINE r == E(status, 0, [status |-> status, reason |-> ReasonOfFinish(why),
                              output |-> IF scenario.sparse THEN <<>> ELSE said, usage |-> Reported])
<1> DEFINE f == Finishes(why, NoUsage)
<1> DEFINE u == Finishes("", Reported)
<1>2. /\ wire = "anthropic" => Transmit(Closes \o <<m, s>>)
      /\ wire = "responses" => Transmit(Closes \o <<r>>)
      /\ wire \notin {"anthropic", "responses"} => Transmit(Closes \o <<f, u, Done>>)
  BY <1>1
<1>3. m.type = "message_delta" /\ s.type = "message_stop"
  BY DEF E
<1>4. r.type \in {"completed", "incomplete"}
  <2>1. status \in {"completed", "incomplete"}
    BY DEF StatusOfFinish
  <2> HIDE DEF status
  <2> QED BY <2>1 DEF E
<1>5. f.type = "last" /\ Done.type = "done"
  BY DEF Finishes, Done, E
<1>6. u.type = "last"
  <2>1. \A x, y : Finishes(x, y).type = "last"
    BY DEF Finishes, E
  <2> QED BY <2>1, Zenon
<1> HIDE DEF m, s, r, f, u
<1> QED BY <1>2, <1>3, <1>4, <1>5, <1>6

\* The upstream finishes, fails, or is cut off.
LEMMA TalkEnds ==
    ASSUME TalkInv, Orderly, UpstreamEnds
    PROVE  Talks'
<1>1. scenario' = scenario /\ said' = said /\ stage = "open" /\ stage' = "ended"
  BY DEF UpstreamEnds
<1> DEFINE C == CallPlaces(said)
<1> DEFINE K == CallNumbers(said)
<1> DEFINE late == Late(said)
<1>2. CallPlaces(said') = C /\ CallNumbers(said') = K /\ Late(said') = late
  BY <1>1
<1>3. CASE upstream # "openai"
  <2>1. upstream \in {"anthropic", "responses"} /\ wire \in {"anthropic", "responses"}
    BY <1>3, TalkScene
  <2>2. \E evs : Transmit(evs) /\ Leads(evs, C, C, late, wire)
    <3> HIDE DEF C, late
    <3>1. CASE wire = "anthropic"
      <4>1. PICK a, e : Transmit(Closes \o <<a, e>>) /\ a.type = "message_delta" /\ e.type = "message_stop"
        BY <3>1, EndingOf
      <4>2. SentFine(a, C, C, late, wire) /\ SentFine(e, C, C, late, wire)
        BY <4>1, SomeSent
      <4>3. Leads(Closes \o <<a, e>>, C, C, late, wire)
        BY <2>1, <4>2, ClosesThen
      <4> QED BY <4>1, <4>3
    <3>2. CASE wire = "responses"
      <4>1. PICK e : Transmit(Closes \o <<e>>) /\ e.type \in {"completed", "incomplete"}
        BY <3>2, EndingOf
      <4>2. SentFine(e, C, C, late, wire)
        BY <4>1, SomeSent
      <4>3. Leads(Closes \o <<e>>, C, C, late, wire)
        BY <2>1, <4>2, ClosesThen
      <4> QED BY <4>1, <4>3
    <3> QED BY <2>1, <3>1, <3>2
  <2>3. PICK evs : Transmit(evs) /\ Leads(evs, C, C, late, wire)
    BY <2>2
  <2> HIDE DEF C, late
  <2>4. Leads(evs, CallPlaces(said), CallPlaces(said'), Late(said'), wire) /\ (Late(said) => Late(said'))
    BY <1>2, <2>3 DEF C, late
  <2> QED BY <1>1, <2>1, <2>3, <2>4, ReaderStep
<1>4. CASE upstream = "openai"
  <2>1. wire = "openai" /\ inbound = "responses"
    BY <1>4, TalkScene
  <2>a. wire \notin {"anthropic", "responses"}
    BY <2>1
  <2>b. \E a, b, e : Transmit(Closes \o <<a, b, e>>) /\ a.type = "last" /\ b.type = "last" /\ e.type = "done"
    BY <2>a, EndingOf
  <2>2. PICK a, b, e : Transmit(Closes \o <<a, b, e>>) /\ a.type = "last" /\ b.type = "last" /\ e.type = "done"
    BY <2>b
  <2> DEFINE evs == <<a, b, e>>
  <2>3. Transmit(evs)
    <3>1. Closes = <<>>
      BY <2>1 DEF Closes
    <3>2. <<>> \o evs = evs
      OBVIOUS
    <3> QED BY <2>2, <3>1, <3>2
  <2> HIDE DEF K, late
  <2>4. Chunk(a, K, K, late) /\ Chunk(b, K, K, late) /\ Chunk(e, K, K, late)
    BY <2>1, <2>2, SomeSay
  <2>5. ChunksLead(evs, K, K, late)
    BY <2>4 DEF ChunksLead
  <2> HIDE DEF evs
  <2>6. ChunksLead(evs, CallNumbers(said), CallNumbers(said'), Late(said')) /\ (Late(said) => Late(said'))
    BY <1>2, <2>5 DEF K, late
  <2> QED BY <1>1, <1>4, <2>3, <2>6, ChunkStep
<1> QED BY <1>3, <1>4

LEMMA TalkFails ==
    ASSUME TalkInv, Orderly, UpstreamFails
    PROVE  Talks'
<1>1. scenario' = scenario /\ said' = said /\ stage = "open" /\ stage' = "failed"
  BY DEF UpstreamFails
<1> DEFINE data == [status |-> "failed", reason |-> "", output |-> <<>>, usage |-> NoUsage]
<1>2. \E e : Transmit(<<e>>) /\ (e = E("error", 0, 0) \/ e = E("failed", 0, data))
  BY DEF UpstreamFails
<1> HIDE DEF data
<1>3. PICK e : Transmit(<<e>>) /\ (e = E("error", 0, 0) \/ e = E("failed", 0, data))
  BY <1>2
<1>4. e.type \in {"error", "failed"}
  BY <1>3 DEF E
<1> DEFINE C == CallPlaces(said)
<1> DEFINE K == CallNumbers(said)
<1> DEFINE late == Late(said)
<1> DEFINE evs == <<e>>
<1>5. CallPlaces(said') = C /\ CallNumbers(said') = K /\ Late(said') = late
  BY <1>1
<1>6. CASE upstream # "openai"
  <2>1. upstream \in {"anthropic", "responses"} /\ wire \in {"anthropic", "responses"}
    BY <1>6, TalkScene
  <2> HIDE DEF C, late
  <2>2. SentFine(e, C, C, late, wire)
    BY <1>4, SomeSent
  <2>3. Leads(evs, C, C, late, wire)
    BY <2>1, <2>2, ClosesThen
  <2>4. Transmit(evs)
    BY <1>3
  <2> HIDE DEF evs
  <2>5. Leads(evs, CallPlaces(said), CallPlaces(said'), Late(said'), wire) /\ (Late(said) => Late(said'))
    BY <1>5, <2>3 DEF C, late
  <2> QED BY <1>1, <2>1, <2>4, <2>5, ReaderStep
<1>7. CASE upstream = "openai"
  <2>1. wire = "openai" /\ inbound = "responses"
    BY <1>7, TalkScene
  <2> HIDE DEF K, late
  <2>2. Chunk(e, K, K, late)
    BY <1>4, <2>1, SomeSay
  <2>3. ChunksLead(evs, K, K, late)
    BY <2>2 DEF ChunksLead
  <2>4. Transmit(evs)
    BY <1>3
  <2> HIDE DEF evs
  <2>5. ChunksLead(evs, CallNumbers(said), CallNumbers(said'), Late(said')) /\ (Late(said) => Late(said'))
    BY <1>5, <2>3 DEF K, late
  <2> QED BY <1>1, <1>7, <2>4, <2>5, ChunkStep
<1> QED BY <1>6, <1>7

\* A stream that ends before its first event.
LEMMA FirstEof ==
    ASSUME upstream \in {"anthropic", "responses"}, wire \in {"anthropic", "responses"}, upstream = "anthropic" => wire = "anthropic",
           NEW late
    PROVE  Heeds(ReadAll(upstream, Reader, <<Eof>>), {}, StateOf(Reader), late, wire)
<1> DEFINE e == Eof
<1> DEFINE b == upstream
<1> DEFINE r == ReadAll(b, Reader, <<e>>)
<1>1. e.type = "eof" /\ e.type \notin AnthropicOpening
  BY DEF Eof, E, AnthropicOpening
<1> HIDE DEF e
<1>2. CASE b = "anthropic"
  <2>1. SentFine(e, {}, {}, late, "anthropic")
    BY <1>1, SomeSent
  <2> DEFINE d == "anthropic"
  <2>2. SentFine(e, {}, {}, late, d) /\ d = IF upstream = "anthropic" \/ e.type \in AnthropicOpening THEN "anthropic" ELSE "responses"
    BY <1>2, <2>1
  <2> HIDE DEF d
  <2>3. Heeds(r, {}, StateOf(Reader), late, d)
    BY <1>2, <2>2, FirstRead
  <2> QED BY <1>2, <2>3 DEF d, e
<1>3. CASE b = "responses"
  <2> DEFINE d == "responses"
  <2>1. SentFine(e, {}, {}, late, d) /\ d = IF upstream = "anthropic" \/ e.type \in AnthropicOpening THEN "anthropic" ELSE "responses"
    BY <1>1, <1>3, SomeSent
  <2> HIDE DEF d
  <2>2. Heeds(r, {}, StateOf(Reader), late, d)
    BY <1>3, <2>1, FirstRead
  <2>3. r.over = TRUE
    <3> DEFINE q == Quiet(Reader)
    <3> DEFINE none == <<>>
    <3> DEFINE v == [q EXCEPT !.envelope = "responses"]
    <3>1. IsSeq(none)
      BY LiteralSeqs
    <3>2. <<e>> = Append(none, e)
      OBVIOUS
    <3>3. ReadAll(b, Reader, none) = q
      BY ReadAllNone
    <3> HIDE DEF none
    <3>4. ASSUME NEW s, IsSeq(s) PROVE ReadAll(b, Reader, Append(s, e)) = ReadEvent(b, ReadAll(b, Reader, s), e)
      BY <3>4, ReadAllMore
    <3>5. r = ReadEvent(b, q, e)
      BY <3>1, <3>2, <3>3, <3>4
    <3>6. EnvelopeOf(q, e) = "responses"
      BY <1>1, <1>3, FirstEnvelope
    <3> HIDE DEF q
    <3>7. ReadEvent(b, q, e) = ReadResponseEvent(v, e)
      <4>1. ReadEvent(b, q, e) = ReadResponses(q, e)
        BY <1>3 DEF ReadEvent
      <4>2. ReadResponses(q, e) = LET t == [q EXCEPT !.envelope = EnvelopeOf(q, e)]
                                  IN IF EnvelopeOf(q, e) = "anthropic" THEN ReadAnthropic(t, e) ELSE ReadResponseEvent(t, e)
        BY <1>3, Zenon DEF ReadResponses, EnvelopeOf
      <4> QED BY <3>6, <4>1, <4>2
    <3>8. AtRest(Reader, {}, Reader.envelope) /\ Reader.over = FALSE
      <4>1. \A k : k = Reader.envelope => AtRest(Reader, {}, k)
        BY ReaderIsIdle
      <4>2. StateOf(Reader).over = FALSE
        BY ReaderIsIdle
      <4>3. Reader.over = FALSE
        BY Zenon DEF Reader
      <4> QED BY <4>1, <4>3
    <3>9. DOMAIN q = ReaderFields /\ q.over = FALSE /\ q.calls = Reader.calls /\ q.out = <<>>
      BY <3>8 DEF AtRest, Quiet, ReaderFields, q
    <3>10. DOMAIN v = ReaderFields /\ v.over = FALSE
      BY <3>9 DEF ReaderFields
    <3> HIDE DEF v
    <3>11. ReadResponseEvent(v, e) = EndChunks(v, "stop", NoUsage)
      BY <1>1, <3>10 DEF ReadResponseEvent
    <3> DEFINE m == Begin(v)
    <3>12. DOMAIN m = ReaderFields
      BY <3>10 DEF Begin, Emit, ReaderFields
    <3> HIDE DEF m
    <3>13. ASSUME NEW c PROVE Over(m, c).over = TRUE
      BY <3>12 DEF Over, Emit, ReaderFields
    <3>14. EndChunks(v, "stop", NoUsage).over = TRUE
      BY <3>13 DEF EndChunks, m
    <3> HIDE DEF r
    <3> QED BY <3>5, <3>7, <3>11, <3>14
  <2> HIDE DEF r
  <2>4. Heeds(r, {}, StateOf(Reader), late, wire)
    BY <2>2, <2>3 DEF Heeds
  <2> QED BY <1>3, <2>4 DEF r, e
<1> QED BY <1>2, <1>3

LEMMA TalkCloses ==
    ASSUME TalkInv, Orderly, ConnectionCloses
    PROVE  Talks'
<1> DEFINE e == Eof
<1> DEFINE evs == <<e>>
<1>1. /\ scenario' = scenario /\ said' = said /\ stage # "quiet" /\ Transmit(evs)
      /\ stage' = IF stage \in {"asked", "open"} THEN "lost" ELSE stage
  BY DEF ConnectionCloses
<1>2. e.type = "eof"
  BY DEF Eof, E
<1>3. stage' \notin {"quiet", "asked"}
  BY <1>1
<1> DEFINE C == CallPlaces(said)
<1> DEFINE K == CallNumbers(said)
<1> DEFINE late == Late(said)
<1>4. CallPlaces(said') = C /\ CallNumbers(said') = K /\ Late(said') = late
  BY <1>1
<1>5. CASE upstream # "openai" /\ stage = "asked"
  <2>1. /\ upstream \in {"anthropic", "responses"} /\ wire \in {"anthropic", "responses"}
        /\ upstream = "anthropic" => wire = "anthropic"
    BY <1>5, TalkScene
  <2> DEFINE after == Late(<<>>)
  <2> HIDE DEF after
  <2>2. Heeds(ReadAll(upstream, Reader, <<Eof>>), {}, StateOf(Reader), after, wire)
    BY <2>1, FirstEof
  <2> HIDE DEF e
  <2>3. Heeds(ReadAll(upstream, Reader, <<e>>), {}, StateOf(Reader), Late(<<>>), wire)
    BY <2>2 DEF after, e
  <2> QED BY <1>1, <1>3, <1>5, <2>1, <2>3, FirstStep
<1>6. CASE upstream # "openai" /\ stage # "asked"
  <2>1. upstream \in {"anthropic", "responses"} /\ wire \in {"anthropic", "responses"}
    BY <1>6, TalkScene
  <2> HIDE DEF C, late, e
  <2>2. SentFine(e, C, C, late, wire)
    BY <1>2, SomeSent
  <2>3. Leads(evs, C, C, late, wire)
    BY <2>1, <2>2, ClosesThen
  <2> HIDE DEF evs
  <2>4. Leads(evs, CallPlaces(said), CallPlaces(said'), Late(said'), wire) /\ (Late(said) => Late(said'))
    BY <1>4, <2>3 DEF C, late
  <2> QED BY <1>1, <1>3, <1>6, <2>1, <2>4, ReaderStep
<1>7. CASE upstream = "openai"
  <2>1. inbound = "responses"
    BY <1>7, TalkScene
  <2> HIDE DEF K, late, e
  <2>2. Chunk(e, K, K, late)
    BY <1>2, <2>1, SomeSay
  <2>3. ChunksLead(evs, K, K, late)
    BY <2>2 DEF ChunksLead
  <2> HIDE DEF evs
  <2>4. ChunksLead(evs, CallNumbers(said), CallNumbers(said'), Late(said')) /\ (Late(said) => Late(said'))
    BY <1>4, <2>3 DEF K, late
  <2> QED BY <1>1, <1>3, <1>7, <2>4, ChunkStep
<1> QED BY <1>5, <1>6, <1>7

\* A new request: nothing is said, and the writer knows its client.
LEMMA NewClient ==
    /\ DOMAIN NoClient = ClientFields /\ NoClient.end = "none" /\ NoClient.astray = FALSE
    /\ NoClient.open = {} /\ DOMAIN NoClient.blocks = {}
BY DEF NoClient, ClientFields

LEMMA FreshAttends ==
    ASSUME inbound \in {"openai", "responses"}, NEW p, p.known = {}, p.over = FALSE, NEW late
    PROVE  Attends(Writer(inbound), NoClient, p, late)
<1> DEFINE c == NoClient
<1>1. /\ DOMAIN c = ClientFields /\ c.end = "none" /\ c.astray = FALSE
      /\ c.open = {} /\ DOMAIN c.blocks = {}
  BY NewClient
<1> HIDE DEF c
<1>2. CASE inbound = "openai"
  <2> DEFINE w == [out |-> <<>>]
  <2>1. Writer(inbound) = w
    BY <1>2 DEF Writer
  <2>2. "out" \in DOMAIN w /\ w.out = <<>>
    OBVIOUS
  <2> HIDE DEF w
  <2>3. IsSeq(w.out)
    BY <2>2, LiteralSeqs
  <2>4. Follows(p.known, c)
    BY <1>1 DEF Follows
  <2> QED BY <1>1, <1>2, <2>1, <2>2, <2>3, <2>4 DEF Attends, c
<1>3. CASE inbound = "responses"
  <2> DEFINE w == ResponsesWriter
  <2>1. Writer(inbound) = w
    BY <1>3 DEF Writer
  <2>2. /\ DOMAIN w = ResponsesFields /\ w.open = FALSE /\ w.item = 0 /\ w.calls = <<>> /\ w.buffer = <<>>
        /\ w.over = FALSE /\ w.out = <<E("created", 0, 0)>>
    BY DEF ResponsesWriter, ResponsesFields
  <2> HIDE DEF w
  <2>3. DOMAIN w.calls = {} /\ IsSeq(w.out) /\ IsFiniteSet(DOMAIN w.calls)
    <3>1. DOMAIN w.calls = {}
      BY <2>2
    <3>2. IsSeq(w.out)
      BY <2>2, LiteralSeqs
    <3> QED BY <3>1, <3>2, FS_EmptySet
  <2>4. OpenItems(w) = {} /\ Listening(c)
    BY <1>1, <2>2, <2>3 DEF OpenItems, Listening
  <2>5. ItemsKnown(w, c)
    <3>1. w.item \in Nat /\ w.open \in BOOLEAN /\ DOMAIN w.calls \subseteq Int /\ c.open = OpenItems(w)
      BY <1>1, <2>2, <2>3, <2>4
    <3>2. \A i \in DOMAIN c.blocks : i \in Nat /\ (i < w.item \/ (w.open /\ i = w.item))
      BY <1>1
    <3>3. /\ w.open => Placed(c, w.item, "text") /\ c.blocks[w.item].data = w.buffer
          /\ ~w.open => w.buffer = <<>>
      BY <2>2
    <3>4. \A k : k \notin DOMAIN w.calls
      BY <2>3
    <3> QED BY <2>2, <2>3, <2>4, <3>1, <3>2, <3>3, <3>4 DEF ItemsKnown
  <2>6. Received(w, c, p, late)
    BY <2>2, <2>3, <2>5, KnownIsReceived
  <2> QED BY <1>3, <2>1, <2>6 DEF Attends, c
<1> QED BY <1>2, <1>3

LEMMA TalkAsks ==
    ASSUME TalkInv, Orderly, Ask
    PROVE  Talks'
<1>1. /\ scenario' = scenario /\ said' = <<>> /\ stage' = "asked"
      /\ reader' = Reader /\ writer' = Writer(inbound) /\ client' = NoClient
  BY DEF Ask
<1>2. inbound' = inbound /\ upstream' = upstream /\ wire' = wire
  BY <1>1 DEF inbound, upstream, wire
<1>3. inbound \in {"openai", "responses"}
  BY TalkScene
<1> DEFINE p == StateOf(Reader)
<1>4. p.known = {} /\ p.over = FALSE
  BY ReaderIsIdle
<1> HIDE DEF p
<1>5. Attends(Writer(inbound), NoClient, p, Late(<<>>))
  BY <1>3, <1>4, FreshAttends
<1>6. Attends(writer, client, p, Late(said))'
  <2> DEFINE w == Writer(inbound)
  <2> DEFINE c == NoClient
  <2> DEFINE late == Late(<<>>)
  <2>1. Attends(w, c, p, late) /\ writer' = w /\ client' = c /\ Late(said') = late
    BY <1>1, <1>5
  <2> HIDE DEF w, c, late
  <2> QED BY <1>2, <2>1 DEF Attends, Received, ItemsKnown
<1>7. Told(p)'
  BY <1>1, <1>2, <1>4, NothingSaid DEF Told, p
<1>8. (\E q : Attends(writer, client, q, Late(said)) /\ Told(q))'
  BY <1>6, <1>7
<1>9. "out" \in DOMAIN reader'
  BY <1>1, FreshReader DEF IsReader, ReaderFields
<1>10. client'.astray = FALSE
  BY <1>1, NewClient
<1> QED BY <1>1, <1>8, <1>9, <1>10 DEF Talks

\* Before the first request and after a kept answer nobody talks.
LEMMA NobodyTalks ==
    ASSUME stage = "quiet", reader = Reader, client = NoClient
    PROVE  Talks
<1>1. "out" \in DOMAIN reader
  BY FreshReader DEF IsReader, ReaderFields
<1>2. client.astray = FALSE
  BY NewClient
<1> QED BY <1>1, <1>2 DEF Talks

\* The invariant holds at first and of every step.
LEMMA TalkInit == Init => TalkInv
<1> SUFFICES ASSUME Init PROVE TalkInv
  OBVIOUS
<1>1. scenario \in Scenarios /\ said = <<>> /\ count = 0 /\ stage = "quiet" /\ reader = Reader /\ client = NoClient
  BY DEF Init
<1>2. IsSeq(said)
  BY <1>1, LiteralSeqs
<1>3. Talks
  BY <1>1, NobodyTalks
<1> QED BY <1>1, <1>2, <1>3 DEF TalkInv

\* The blocks the upstream generates, whoever listens.
LEMMA WordsKept ==
    ASSUME TalkInv, [Next]_vars
    PROVE  /\ scenario' = scenario /\ IsSeq(said') /\ count' \in Nat
           /\ \A i \in DOMAIN said' : DOMAIN said'[i] = BlockFields /\ said'[i].type \in {"text", "thinking", "call"}
<1>a. /\ IsSeq(said) /\ count \in Nat
      /\ \A i \in DOMAIN said : DOMAIN said[i] = BlockFields /\ said[i].type \in {"text", "thinking", "call"}
  BY DEF TalkInv
<1>1. CASE Ask
  <2>1. scenario' = scenario /\ said' = <<>> /\ count' = count
    BY <1>1 DEF Ask
  <2>2. IsSeq(<<>>)
    BY LiteralSeqs
  <2> QED BY <1>a, <2>1, <2>2
<1>2. CASE UpstreamOpens
  <2>a. PICK type \in {"text", "thinking", "call"} : \E id : said' = Append(said, Block(type, id, <<>>))
    BY <1>2, OpeningOf
  <2>1. PICK id : said' = Append(said, Block(type, id, <<>>))
    BY <2>a
  <2>2. scenario' = scenario /\ count' \in Nat
    BY <1>2, <1>a DEF UpstreamOpens
  <2> DEFINE b == Block(type, id, <<>>)
  <2> DEFINE n == Len(said)
  <2> DEFINE S == Elements(said) \cup {b}
  <2>3. b.type = type /\ DOMAIN b = BlockFields
    BY DEF Block, BlockFields
  <2>4. said' = Append(said, b)
    BY <2>1
  <2>5. n \in Nat /\ DOMAIN said = 1..n
    BY <1>a, Shape
  <2>6. said \in Seq(S) /\ b \in S
    <3>1. (\A i \in DOMAIN said : said[i] \in S) /\ b \in S
      BY DEF Elements
    <3> HIDE DEF S
    <3> QED BY <3>1, <1>a, Wider
  <2> HIDE DEF S, b
  <2>7. said' \in Seq(S) /\ DOMAIN said' = 1..(n + 1) /\ said'[n + 1] = b /\ \A i \in 1..n : said'[i] = said[i]
    BY <2>4, <2>6
  <2>8. IsSeq(said')
    BY <2>7, AnySeq
  <2> HIDE DEF n
  <2>9. \A i \in 1..(n + 1) : i = n + 1 \/ i \in 1..n
    BY <2>5
  <2> QED BY <1>a, <2>2, <2>3, <2>5, <2>7, <2>8, <2>9
<1>3. CASE UpstreamContinues
  <2>1. PICK n \in DOMAIN said : Extends(said', said, n, count + 1)
    BY <1>3 DEF UpstreamContinues, Extends
  <2>2. scenario' = scenario /\ count' \in Nat
    BY <1>3, <1>a DEF UpstreamContinues
  <2> DEFINE s == said
  <2> DEFINE t == said'
  <2> DEFINE x == count + 1
  <2>3. IsSeq(s) /\ n \in DOMAIN s /\ DOMAIN s[n] = BlockFields /\ Extends(t, s, n, x)
    BY <1>a, <2>1
  <2>4. /\ IsSeq(s)
        /\ \A i \in DOMAIN s : DOMAIN s[i] = BlockFields /\ s[i].type \in {"text", "thinking", "call"}
    BY <1>a
  <2> HIDE DEF s, t, x
  <2>5. DOMAIN t = DOMAIN s /\ \A i \in DOMAIN s : t[i].type = s[i].type /\ DOMAIN t[i] = DOMAIN s[i]
    BY <2>3, KindsStay
  <2>6. IsSeq(t)
    <3>1. t = [s EXCEPT ![n] = t[n]] /\ n \in 1..Len(s) /\ Len(s) \in Nat
      BY <2>3, Shape DEF Extends
    <3> DEFINE S == Elements(s) \cup {t[n]}
    <3>2. (\A i \in DOMAIN s : s[i] \in S) /\ t[n] \in S
      BY DEF Elements
    <3> HIDE DEF S
    <3>3. s \in Seq(S)
      BY <2>3, <3>2, Wider
    <3>4. t \in Seq(S)
      BY <3>1, <3>2, <3>3
    <3> QED BY <3>4, AnySeq
  <2>7. \A i \in DOMAIN t : DOMAIN t[i] = BlockFields /\ t[i].type \in {"text", "thinking", "call"}
    BY <2>4, <2>5
  <2> QED BY <2>2, <2>6, <2>7 DEF t
<1>4. CASE UpstreamBegins \/ UpstreamEnds \/ UpstreamFails \/ ConnectionCloses \/ Keep \/ UNCHANGED vars
  <2>1. scenario' = scenario /\ said' = said /\ count' = count
    BY <1>4 DEF UpstreamBegins, UpstreamEnds, UpstreamFails, ConnectionCloses, Keep, vars
  <2> QED BY <1>a, <2>1
<1> QED BY <1>1, <1>2, <1>3, <1>4 DEF Next

LEMMA TalkNext == TalkInv /\ [Next]_vars => TalkInv'
<1> SUFFICES ASSUME TalkInv, [Next]_vars PROVE TalkInv'
  OBVIOUS
<1>1. /\ scenario' = scenario /\ IsSeq(said') /\ count' \in Nat
      /\ \A i \in DOMAIN said' : DOMAIN said'[i] = BlockFields /\ said'[i].type \in {"text", "thinking", "call"}
  BY WordsKept
<1>2. scenario' \in Scenarios /\ Orderly' = Orderly /\ inbound' = inbound /\ upstream' = upstream /\ wire' = wire
  BY <1>1 DEF TalkInv, Orderly, NoTextBetweenCalls, inbound, upstream, wire
<1>3. ASSUME Orderly PROVE Talks'
  <2>1. CASE Keep
    <3>1. stage' = "quiet" /\ reader' = Reader /\ client' = NoClient
      BY <2>1 DEF Keep
    <3>2. "out" \in DOMAIN reader'
      BY <3>1, FreshReader DEF IsReader, ReaderFields
    <3>3. client'.astray = FALSE
      BY <3>1, NewClient
    <3> QED BY <3>1, <3>2, <3>3 DEF Talks
  <2>2. CASE UNCHANGED vars
    <3>1. /\ said' = said /\ stage' = stage /\ reader' = reader /\ writer' = writer /\ client' = client
      BY <2>2 DEF vars
    <3>2. Talks
      BY <1>3 DEF TalkInv
    <3> QED BY <1>2, <3>1, <3>2 DEF Talks, Told, Attends, Received, ItemsKnown, AtRest
  <2> QED BY <1>3, <2>1, <2>2, TalkAsks, TalkBegins, TalkOpens, TalkContinues, TalkEnds, TalkFails, TalkCloses DEF Next
<1> QED BY <1>1, <1>2, <1>3 DEF TalkInv

\* Every client can read what it is sent, whatever the order of the blocks of an answer,
\* but one: a client of the Responses dialect needs an answer that puts no text between
\* its calls.  (openai_stream_to_responses, transform.py:1273; the run MCDialogueItems
\* has the answer it cannot read.)
THEOREM ClientsServed ==
    Spec => []((inbound = "responses" => NoTextBetweenCalls) => DeltasFindTheirBlock)
<1>1. TalkInv => (inbound # "anthropic" /\ (inbound = "responses" => NoTextBetweenCalls) => DeltasFindTheirBlock)
  BY DEF TalkInv, Talks, Orderly, DeltasFindTheirBlock
<1>2. ServedInv => (inbound = "anthropic" => DeltasFindTheirBlock)
  BY DEF ServedInv, Served, DeltasFindTheirBlock
<1>3. TalkInv /\ ServedInv => ((inbound = "responses" => NoTextBetweenCalls) => DeltasFindTheirBlock)
  BY <1>1, <1>2
<1> QED BY ServedInit, ServedNext, TalkInit, TalkNext, <1>3, PTL DEF Spec
=============================================================================
