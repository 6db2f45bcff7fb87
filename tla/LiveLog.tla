------------------------------ MODULE LiveLog ------------------------------
(***************************************************************************)
(* The live view of the request log (_stream_request_log_events of           *)
(* api/admin/logs.py): one client's stream polls the table for rows with an  *)
(* id it has not reached yet, and for the end of those it has shown pending. *)
(*                                                                          *)
(* A row gets its id when it is inserted and is visible when its transaction *)
(* commits; transactions overlap.  The filters match every row.              *)
(***************************************************************************)
EXTENDS Naturals, FiniteSets, FiniteSetsExt

CONSTANTS
    MaxRows,
    Batch      \* _STREAM_BATCH

ASSUME LiveLogConstants == MaxRows \in Nat /\ Batch \in Nat \ {0}

Log == 1..MaxRows

VARIABLES
    log,       \* log[i]: the row with id i
    last,      \* last_id
    watched,   \* watched_pending
    shown,     \* shown[i]: what the client has been sent of row i last
    skipped    \* whether a poll has failed

liveVars == <<log, last, watched, shown, skipped>>

LiveInit ==
    /\ log = [i \in Log |-> "none"]
    /\ last = 0
    /\ watched = {}
    /\ shown = [i \in Log |-> "none"]
    /\ skipped = FALSE

-----------------------------------------------------------------------------
(* The dispatcher, which may run in another process.                        *)

Visible(i) == log[i] \in {"pending", "final"}

InsertRow(i) ==
    /\ log[i] = "none"
    /\ \A j \in Log : j < i => log[j] # "none"
    /\ log' = [log EXCEPT ![i] = "inserted"]
    /\ UNCHANGED <<last, watched, shown, skipped>>

\* A stream's row is pending at first, another is written when all is over.
CommitRow(i) ==
    /\ log[i] = "inserted"
    /\ \E state \in {"pending", "final"} : log' = [log EXCEPT ![i] = state]
    /\ UNCHANGED <<last, watched, shown, skipped>>

FinishRow(i) ==
    /\ log[i] = "pending"
    /\ log' = [log EXCEPT ![i] = "final"]
    /\ UNCHANGED <<last, watched, shown, skipped>>

-----------------------------------------------------------------------------
(* One poll.                                                                *)

\* The first Batch of a set of ids.
Some(ids) == {i \in ids : Cardinality({j \in ids : j < i}) < Batch}

NewRows == Some({i \in Log : Visible(i) /\ i > last})
Updates == Some({i \in watched : log[i] = "final"}) \ NewRows
Rows == NewRows \cup Updates

Watching == {i \in watched \cup Rows : i \in Rows => log[i] = "pending"}

\* Mutated form: every visible row is taken for one that has been sent.
NewestVisible == Max({last} \cup {i \in Log : Visible(i)})

\* The id of the last of all rows: updates come after the new ones.
Newest == Max({last} \cup (IF Updates # {} THEN {Max(Updates)} ELSE NewRows))

Poll ==
    /\ Rows # {}
    /\ shown' = [i \in Log |-> IF i \in Rows THEN log[i] ELSE shown[i]]
    /\ watched' = Watching
    /\ last' = Newest
    /\ UNCHANGED <<log, skipped>>

\* The names of the rows cannot be looked up: the poll is skipped, after the watch
\* list has been changed.
PollFails ==
    /\ Rows # {}
    /\ watched' = Watching
    /\ skipped' = TRUE
    /\ UNCHANGED <<log, last, shown>>

LiveNext == \/ \E i \in Log : InsertRow(i) \/ CommitRow(i) \/ FinishRow(i)
            \/ Poll
            \/ PollFails

LiveSpec == LiveInit /\ [][LiveNext]_liveVars

-----------------------------------------------------------------------------
InOrder == \A i, j \in Log : i < j /\ Visible(j) => Visible(i)

\* What the stream will not ask for again has been shown, and as it is, unless it was
\* pending and its end is still watched for.
NothingPassedOver ==
    \A i \in Log : Visible(i) /\ i <= last =>
        shown[i] = log[i] \/ (shown[i] = "pending" /\ i \in watched)

UpToDate ==
    \A i \in Log :
        /\ Visible(i) => shown[i] # "none"
        /\ log[i] = "final" => shown[i] = "final"

\* Where rows commit in the order of their ids and no poll fails, the client catches up
\* again and again: every row is shown, and its end too, however many come at once and
\* however new rows and the ends of older ones mix in a poll
\* (_stream_request_log_events), and so nothing is ever passed over.  Otherwise rows may
\* be lost: a late row below last, an end that a failed poll has struck off the watch
\* list.
RowsArrive == [](InOrder /\ ~skipped) => []<>UpToDate
=============================================================================
