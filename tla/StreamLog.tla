----------------------------- MODULE StreamLog -----------------------------
(***************************************************************************)
(* From the response headers of an upstream to the accounted request         *)
(* (services/dispatcher.py, services/usage_rollup.py, tasks/log_cleanup.py).  *)
(*                                                                          *)
(* A response is read in one of three ways: streamed on to the client, folded *)
(* into one answer for a client that does not stream, or read whole.  A      *)
(* provider may have its streams spooled until the first content.  The end of *)
(* a stream is accounted in a database session of its own, any other answer   *)
(* in the request's.                                                         *)
(***************************************************************************)
EXTENDS Integers, Sequences, FiniteSets

CONSTANTS
    Request, NoRequest,
    Conversation,      \* session keys
    ConversationOf,    \* [Request -> Conversation]
    Tokens,            \* [Request -> Nat]: usage a complete answer reports
    Scenarios,         \* how the requests of a behaviour are read, and its crashes
    Chunks,            \* chunks of a complete answer; the last has content and usage
    MaxTries,          \* attempts per request
    ResponseTimeout,   \* response_timeout_seconds
    SavesMax,          \* _STREAM_USAGE_PERSIST_ATTEMPTS
    RequestRetention,  \* request_log_retention_days
    Midnight,          \* when the second day begins
    Ahead, MaxTime     \* bounds: chunks not yet taken, time

Mode == [reads : {"stream", "fold", "whole"}, spool : BOOLEAN]

ASSUME StreamConstants ==
    /\ NoRequest \notin Request /\ IsFiniteSet(Request)
    /\ ConversationOf \in [Request -> Conversation]
    /\ Tokens \in [Request -> Nat \ {0}]
    /\ Scenarios \subseteq [mode : [Request -> Mode], crashes : Nat]
    /\ {Chunks, MaxTries, ResponseTimeout, SavesMax, RequestRetention, Ahead} \subseteq Nat \ {0}
    /\ {MaxTime, Midnight} \subseteq Nat

End == 0        \* the upstream has closed the stream
Fault == -1     \* the connection broke
Days == {1, 2}
Day(t) == IF t < Midnight THEN 1 ELSE 2
NoRow == [status |-> "none", at |-> 0, began |-> 0, tokens |-> 0]

VARIABLES
    now, up,
    crashes,   \* crashes left
    mode,      \* mode[r]
    phase,     \* phase[r]: where r's coroutine is
    tries,     \* attempts made
    open,      \* open[r]: an upstream response of r is open
    began,     \* began[r]: when the dispatch of r began
    sent,      \* what the upstream has sent in this attempt
    queue,     \* what is not yet taken from the connection or the spool's queue
    prefix,    \* what the spool has taken
    out,       \* what was passed on (or folded)
    how,       \* how[r]: req_status to be written
    saves,     \* attempts to persist the end of the stream
    seen,      \* seen[r]: the token's totals as r's session read them
    rollup,    \* rollup[r]: what becomes of r's part in the rollups
    lock,      \* lock[d]: who has updated day d's rollup row and not committed
    log,       \* log[r]: r's row of request_logs
    daily,     \* usage_daily
    span,      \* session_spans
    total      \* the void token's total_requests and total_tokens

clockVars == <<now, up, crashes, mode>>
wireVars == <<sent, queue, prefix, out>>
dbVars == <<log, daily, span, total>>
txVars == <<seen, rollup, lock>>
vars == <<clockVars, phase, tries, open, began, wireVars, how, saves, txVars, dbVars>>

Zero == [requests |-> 0, tokens |-> 0]

Init ==
    /\ now = 0 /\ up = TRUE
    /\ \E s \in Scenarios : mode = s.mode /\ crashes = s.crashes
    /\ phase = [r \in Request |-> "idle"]
    /\ tries = [r \in Request |-> 0] /\ saves = [r \in Request |-> 0]
    /\ open = [r \in Request |-> FALSE]
    /\ began = [r \in Request |-> 0]
    /\ sent = [r \in Request |-> 0]
    /\ queue = [r \in Request |-> <<>>] /\ prefix = queue /\ out = queue
    /\ how = [r \in Request |-> "none"]
    /\ seen = [r \in Request |-> Zero]
    /\ rollup = [r \in Request |-> "counts"]
    /\ lock = [d \in Days |-> NoRequest]
    /\ log = [r \in Request |-> NoRow]
    /\ daily = [d \in Days |-> Zero]
    /\ span = [c \in Conversation |-> [requests |-> 0, started |-> 0, last |-> 0]]
    /\ total = Zero

Moves(r, from, to) == up /\ phase[r] = from /\ phase' = [phase EXCEPT ![r] = to]
Late(r) == now - began[r] >= ResponseTimeout
Put(f, r, v) == [f EXCEPT ![r] = v]

-----------------------------------------------------------------------------
(* An attempt.                                                              *)

\* Authentication has loaded the token's row into the request's session.
Starts(r) ==
    IF tries[r] > 0 THEN UNCHANGED <<began, seen>>
    ELSE /\ now + ResponseTimeout <= MaxTime      \* a bound
         /\ began' = Put(began, r, now)
         /\ seen' = Put(seen, r, total)

\* 200: the headers of a response.  The deadline is the request's.
Attempt(r) ==
    /\ Moves(r, "idle", IF mode[r].spool /\ mode[r].reads # "whole" THEN "spooling"
                        ELSE "opened")
    /\ tries[r] < MaxTries
    /\ tries' = Put(tries, r, tries[r] + 1)
    /\ Starts(r)
    /\ open' = Put(open, r, TRUE)
    /\ sent' = Put(sent, r, 0)
    /\ queue' = Put(queue, r, <<>>) /\ prefix' = Put(prefix, r, <<>>)
    /\ out' = Put(out, r, <<>>)
    /\ UNCHANGED <<clockVars, how, saves, rollup, lock, dbVars>>

\* No response, or one that is not worth another attempt: the failure is logged.
GiveUp(r) ==
    /\ Moves(r, "idle", "failed")
    /\ Starts(r)
    /\ UNCHANGED <<clockVars, tries, open, wireVars, how, saves, rollup, lock, dbVars>>

\* The upstream sends a chunk, closes or breaks; it may stop anywhere.
Arrive(r, item) ==
    /\ open[r]
    /\ Len(queue[r]) < Ahead /\ \A i \in 1..Len(queue[r]) : queue[r][i] > 0
    /\ item \in {End, Fault} \/ item = sent[r] + 1
    /\ sent' = Put(sent, r, IF item > 0 THEN item ELSE sent[r])
    /\ queue' = Put(queue, r, Append(queue[r], item))
    /\ UNCHANGED <<clockVars, phase, tries, open, began, prefix, out, how, saves,
                   txVars, dbVars>>

Closed(r) ==
    /\ open' = Put(open, r, FALSE)
    /\ queue' = Put(queue, r, <<>>) /\ prefix' = Put(prefix, r, <<>>)

\* What a request that is over no longer needs.
Done(r) ==
    /\ began' = Put(began, r, 0) /\ how' = Put(how, r, "none")
    /\ saves' = Put(saves, r, 0) /\ seen' = Put(seen, r, Zero)

Retried(r) ==
    /\ phase' = Put(phase, r, "idle")
    /\ Closed(r)
    /\ UNCHANGED <<clockVars, tries, began, sent, out, how, saves, txVars, dbVars>>

\* Mutated form: the empty response is not closed.
SpoolEmptyLeft(r) ==
    /\ Moves(r, "spooling", "idle")
    /\ queue[r] # <<>> /\ Head(queue[r]) <= 0
    /\ UNCHANGED <<clockVars, tries, open, began, wireVars, how, saves, txVars, dbVars>>

\* The stream ends (or breaks) before any content: the next attempt.
SpoolEmpty(r) ==
    /\ up /\ phase[r] = "spooling"
    /\ queue[r] # <<>> /\ Head(queue[r]) <= 0
    /\ Retried(r)

SpoolTake(r) ==
    /\ up /\ phase[r] = "spooling"
    /\ queue[r] # <<>> /\ Head(queue[r]) > 0
    /\ prefix' = Put(prefix, r, Append(prefix[r], Head(queue[r])))
    /\ queue' = Put(queue, r, Tail(queue[r]))
    /\ phase' = IF Head(queue[r]) = Chunks THEN Put(phase, r, "opened") ELSE phase
    /\ UNCHANGED <<clockVars, tries, open, began, sent, out, how, saves, txVars, dbVars>>

\* Five seconds without content: it is forwarded as it is.
SpoolQuiet(r) ==
    /\ Moves(r, "spooling", "opened") /\ ~Late(r)
    /\ UNCHANGED <<clockVars, tries, open, began, wireVars, how, saves, txVars, dbVars>>

SpoolLate(r) == up /\ phase[r] = "spooling" /\ Late(r) /\ Retried(r)

\* Mutated form: the spooled prefix is left out.
UpcomingQueue(r) == queue[r]

\* aiter_bytes: the prefix, then the queue.
Upcoming(r) == prefix[r] \o queue[r]

Take(r) ==
    /\ Upcoming(r) # <<>> /\ Head(Upcoming(r)) > 0
    /\ out' = Put(out, r, Append(out[r], Head(Upcoming(r))))
    /\ prefix' = Put(prefix, r, <<>>)
    /\ queue' = Put(queue, r, Tail(Upcoming(r)))
    /\ UNCHANGED sent

Complete(r) == \E i \in 1..Len(out[r]) : out[r][i] = Chunks
AtEnd(r, item) == Upcoming(r) # <<>> /\ Head(Upcoming(r)) = item

-----------------------------------------------------------------------------
(* Answers read whole or folded.                                            *)

Reading(r) == up /\ phase[r] = "opened" /\ mode[r].reads # "stream"

ReadMore(r) ==
    /\ Reading(r) /\ Take(r)
    /\ UNCHANGED <<clockVars, phase, tries, open, began, how, saves, txVars, dbVars>>

\* A folded stream is whole with its terminal event only.
Whole(r) == AtEnd(r, End) /\ (mode[r].reads = "fold" => Complete(r))

ReadAll(r) ==
    /\ Reading(r) /\ Whole(r)
    /\ phase' = Put(phase, r, "answering")
    /\ Closed(r)
    /\ UNCHANGED <<clockVars, tries, began, sent, out, how, saves, txVars, dbVars>>

\* A fault, an end before the terminal event, the deadline: closed, the next attempt.
ReadFails(r) ==
    /\ Reading(r)
    /\ AtEnd(r, Fault) \/ (AtEnd(r, End) /\ ~Whole(r)) \/ Late(r)
    /\ Retried(r)

Usage(r) == IF Complete(r) THEN Tokens[r] ELSE 0

\* record_usage: two upserts, unless it has failed (below); the second may fail alone.
Recorded(r, d, at, tokens) ==
    IF rollup[r] # "counts" THEN UNCHANGED <<daily, span>>
    ELSE /\ daily' = [daily EXCEPT ![d] = [requests |-> @.requests + 1, tokens |-> @.tokens + tokens]]
         /\ span' \in {span, [span EXCEPT ![ConversationOf[r]] =
                [requests |-> @.requests + 1, started |-> IF @.requests = 0 THEN at ELSE @.started,
                 last |-> at]]}

\* The row of the day is locked until the commit.  A failure, as that of waiting for the
\* lock too long, is swallowed, and the transaction goes on without the rollups.
Locks(r, d) ==
    \/ lock[d] = NoRequest /\ lock' = Put(lock, d, r) /\ rollup' = Put(rollup, r, "counts")
    \/ UNCHANGED lock /\ rollup' = Put(rollup, r, "fails")

Unlocked(r) == [d \in Days |-> IF lock[d] = r THEN NoRequest ELSE lock[d]]

Bumped(r) == [requests |-> seen[r].requests + 1, tokens |-> seen[r].tokens + Usage(r)]

\* _log_request in the request's transaction.
Log(r) ==
    /\ Moves(r, "answering", "logged") \/ Moves(r, "failed", "failing")
    /\ Locks(r, Day(now))
    /\ UNCHANGED <<clockVars, tries, open, began, wireVars, how, saves, seen, dbVars>>

\* A success is also added to the totals of the token, as they were when the
\* request was authenticated.
Answer(r) ==
    /\ mode[r].reads # "stream"
    /\ Moves(r, "logged", "saved")
    /\ log' = Put(log, r, [status |-> "completed", at |-> now, began |-> began[r],
                           tokens |-> Usage(r)])
    /\ Recorded(r, Day(now), now, Usage(r))
    /\ total' = Bumped(r)
    /\ lock' = Unlocked(r) /\ Done(r)
    /\ UNCHANGED <<clockVars, tries, open, wireVars, rollup>>

\* A failed request has used nothing.
AnswerFailure(r) ==
    /\ Moves(r, "failing", "refused")
    /\ log' = Put(log, r, [status |-> "error", at |-> now, began |-> began[r], tokens |-> 0])
    /\ Recorded(r, Day(now), now, 0)
    /\ lock' = Unlocked(r) /\ Done(r)
    /\ UNCHANGED <<clockVars, tries, open, wireVars, rollup, total>>

\* The client goes, or the commit fails: rolled back, and what is open is closed.
GoneEarly(r) ==
    /\ up
    /\ \/ phase[r] \in {"spooling", "answering", "failed", "failing"}
       \/ phase[r] = "idle" /\ tries[r] > 0
       \/ phase[r] = "logged" /\ mode[r].reads # "stream"
       \/ Reading(r)
    /\ phase' = Put(phase, r, "gone")
    /\ Closed(r) /\ Done(r)
    /\ lock' = Unlocked(r) /\ rollup' = Put(rollup, r, "counts")
    /\ UNCHANGED <<clockVars, tries, sent, out, dbVars>>

-----------------------------------------------------------------------------
(* Streams.                                                                 *)

\* _finalise_success: a pending row, flushed.
Finalise(r) ==
    /\ mode[r].reads = "stream"
    /\ Moves(r, "opened", "logged")
    /\ UNCHANGED <<clockVars, tries, open, began, wireVars, how, saves, txVars, dbVars>>

Pending(r) == [status |-> "pending", at |-> now, began |-> began[r], tokens |-> 0]

\* The middleware commits before the response starts.
StartResponse(r) ==
    /\ mode[r].reads = "stream"
    /\ Moves(r, "logged", "streaming")
    /\ log' = Put(log, r, Pending(r))
    /\ UNCHANGED <<clockVars, tries, open, began, wireVars, how, saves, txVars, daily, span,
                   total>>

\* The client goes, or a commit fails, after the response was opened and before its
\* iterator was started: nobody closes it.
Abandon(r) ==
    /\ mode[r].reads = "stream"
    /\ up /\ phase[r] \in {"opened", "logged"}
    /\ phase' = Put(phase, r, "abandoned")
    /\ log' \in {log, Put(log, r, Pending(r))}
    /\ log' # log => phase[r] = "logged"
    /\ UNCHANGED <<clockVars, tries, open, began, wireVars, how, saves, txVars, daily, span,
                   total>>

\* A piece is yielded: the generator stands still until the client takes it.
Piece(r) ==
    /\ Moves(r, "streaming", "offering") /\ ~Late(r)
    /\ Take(r)
    /\ UNCHANGED <<clockVars, tries, open, began, how, saves, txVars, dbVars>>

\* The client has room again, now or much later.
ClientTakes(r) ==
    /\ Moves(r, "offering", "streaming")
    /\ UNCHANGED <<clockVars, tries, open, began, wireVars, how, saves, txVars, dbVars>>

Leaves(r, from, status) ==
    /\ Moves(r, from, "closing")
    /\ how' = Put(how, r, status)
    /\ UNCHANGED <<clockVars, tries, open, began, wireVars, saves, txVars, dbVars>>

Ends(r, status) == Leaves(r, "streaming", status)

\* Mutated form: a stream is cut only when there is something to pass on.
CutAtPiece(r) == Late(r) /\ Upcoming(r) # <<>> /\ Ends(r, "terminated")

StreamEnds(r) == ~Late(r) /\ AtEnd(r, End) /\ Ends(r, "completed")
StreamBreaks(r) == ~Late(r) /\ AtEnd(r, Fault) /\ Ends(r, "error")
Cut(r) == Late(r) /\ Ends(r, "terminated")
Disconnect(r) == \E from \in {"streaming", "offering"} : Leaves(r, from, "cancelled")

\* _stream_cleanup, shielded from the cancellation.
CloseUpstream(r) ==
    /\ Moves(r, "closing", "saving")
    /\ Closed(r)
    /\ UNCHANGED <<clockVars, tries, began, sent, out, how, saves, txVars, dbVars>>

\* _persist_stream_usage, in a session of its own: the row, the rollups if there is
\* one, the token's totals.
SaveBegin(r) ==
    /\ Moves(r, "saving", "writing")
    /\ IF log[r] = NoRow THEN UNCHANGED lock /\ rollup' = Put(rollup, r, "rowless")
       ELSE Locks(r, Day(log[r].at))
    /\ seen' = Put(seen, r, total)
    /\ UNCHANGED <<clockVars, tries, open, began, wireVars, how, saves, dbVars>>

\* The UPDATE of a row that has been deleted since fails.
Committed(r) ==
    /\ IF rollup[r] = "rowless" THEN UNCHANGED log
       ELSE /\ log[r] # NoRow
            /\ log' = [log EXCEPT ![r] = [@ EXCEPT !.status = how[r], !.tokens = Usage(r)]]
    /\ Recorded(r, Day(log[r].at), log[r].at, Usage(r))
    /\ total' = Bumped(r)

Save(r) ==
    /\ Moves(r, "writing", "saved")
    /\ Committed(r)
    /\ lock' = Unlocked(r) /\ Done(r)
    /\ UNCHANGED <<clockVars, tries, open, wireVars, rollup>>

NotSaved(r) ==
    /\ Moves(r, "writing", IF saves[r] + 1 < SavesMax THEN "saving" ELSE "unsaved")
    /\ saves' = Put(saves, r, saves[r] + 1)
    /\ lock' = Unlocked(r)
    /\ UNCHANGED <<clockVars, tries, open, began, wireVars, how, seen, rollup>>

\* Mutated form: the rollup was committed on its own before the failure.
SaveFailsHalfway(r) == NotSaved(r) /\ Recorded(r, Day(log[r].at), log[r].at, Usage(r))
                       /\ UNCHANGED <<log, total>>

SaveFails(r) == NotSaved(r) /\ UNCHANGED dbVars

-----------------------------------------------------------------------------
(* Time, the process, retention.                                            *)

\* A unit of time is the better part of the response timeout: what takes the
\* gateway milliseconds, or the seconds of the retries, ends before it does.
Busy(r) == \/ phase[r] \in {"answering", "failed", "logged", "failing", "closing", "saving", "writing"}
           \/ open[r] /\ phase[r] \notin {"abandoned", "offering"} /\ Late(r)

Tick ==
    /\ now < MaxTime
    /\ \A r \in Request : ~Busy(r)
    /\ now' = now + 1
    /\ UNCHANGED <<up, crashes, mode, phase, tries, open, began, wireVars, how, saves, txVars,
                   dbVars>>

Ended == {"saved", "unsaved", "refused", "gone"}

Survives(r) == phase[r] \in Ended \/ (phase[r] = "idle" /\ tries[r] = 0)
Kept(f, zero) == [r \in Request |-> IF Survives(r) THEN f[r] ELSE zero]

\* The kernel closes the sockets, the database rolls back.
Crash ==
    /\ up /\ crashes > 0
    /\ up' = FALSE /\ crashes' = crashes - 1
    /\ phase' = Kept(phase, "lost")
    /\ open' = Kept(open, FALSE)
    /\ sent' = Kept(sent, 0) /\ out' = Kept(out, <<>>)
    /\ queue' = Kept(queue, <<>>) /\ prefix' = Kept(prefix, <<>>)
    /\ began' = Kept(began, 0) /\ how' = Kept(how, "none")
    /\ saves' = Kept(saves, 0) /\ seen' = Kept(seen, Zero)
    /\ rollup' = Kept(rollup, "counts") /\ lock' = [d \in Days |-> NoRequest]
    /\ UNCHANGED <<now, mode, tries, dbVars>>

\* reconcile_pending_request_logs, at boot.
Boot ==
    /\ ~up /\ up' = TRUE
    /\ log' = [r \in Request |->
          IF log[r].status = "pending" /\ log[r].began < now - ResponseTimeout
          THEN [log[r] EXCEPT !.status = "terminated"] ELSE log[r]]
    /\ UNCHANGED <<now, crashes, mode, phase, tries, open, began, wireVars, how, saves, txVars,
                   daily, span, total>>

\* run_log_cleanup's request_logs part; the rollups keep for a year and more.
Cleanup ==
    /\ up
    /\ \E r \in Request : log[r] # NoRow /\ log[r].at < now - RequestRetention
    /\ log' = [r \in Request |-> IF log[r].at < now - RequestRetention THEN NoRow ELSE log[r]]
    /\ UNCHANGED <<clockVars, phase, tries, open, began, wireVars, how, saves, txVars, daily,
                   span, total>>

Step(r) ==
    \/ Attempt(r) \/ GiveUp(r)
    \/ SpoolEmpty(r) \/ SpoolTake(r) \/ SpoolQuiet(r) \/ SpoolLate(r)
    \/ ReadMore(r) \/ ReadAll(r) \/ ReadFails(r)
    \/ Log(r) \/ Answer(r) \/ AnswerFailure(r)
    \/ Finalise(r) \/ StartResponse(r)
    \/ Piece(r) \/ StreamEnds(r) \/ StreamBreaks(r) \/ Cut(r)
    \/ CloseUpstream(r) \/ SaveBegin(r) \/ Save(r) \/ SaveFails(r)

Environment(r) ==
    \/ \E item \in {End, Fault} \cup 1..Chunks : Arrive(r, item)
    \/ GoneEarly(r) \/ Abandon(r) \/ ClientTakes(r) \/ Disconnect(r)

Next == (\E r \in Request : Step(r) \/ Environment(r)) \/ Tick \/ Crash \/ Boot \/ Cleanup

Spec == Init /\ [][Next]_vars

\* The event loop runs what can run, and time passes.  The upstream does not have to do
\* anything, nor the client: a piece it does not take stays where it is.
Fairness == WF_vars(Tick) /\ \A r \in Request : WF_vars(Step(r))

FairSpec == Spec /\ Fairness

-----------------------------------------------------------------------------
Statuses == {"none", "pending", "completed", "terminated", "cancelled", "error"}

TypeOK ==
    /\ now \in 0..MaxTime /\ up \in BOOLEAN /\ crashes \in Nat
    /\ mode \in [Request -> Mode]
    /\ phase \in [Request -> Ended \cup {"idle", "spooling", "opened", "answering", "failed",
          "logged", "failing", "streaming", "offering", "closing", "saving", "writing", "abandoned", "lost"}]
    /\ tries \in [Request -> 0..MaxTries] /\ saves \in [Request -> 0..SavesMax]
    /\ open \in [Request -> BOOLEAN]
    /\ sent \in [Request -> 0..Chunks]
    /\ how \in [Request -> Statuses]
    /\ \A r \in Request : log[r].status \in Statuses
    /\ rollup \in [Request -> {"counts", "fails", "rowless"}]
    /\ \A d \in Days : lock[d] \in Request \cup {NoRequest}

\* An upstream response is open only while the coroutine that closes it on every way out
\* has not left it, be it held up by its client; a stream abandoned before its iterator
\* was started is the exception, nobody closes it.
ResponseOwned ==
    \A r \in Request : open[r] =>
        \/ phase[r] \in {"spooling", "opened", "streaming", "offering", "closing", "abandoned"}
        \/ phase[r] = "logged" /\ mode[r].reads = "stream"

\* Together with the type invariant.
ResponsesSound == TypeOK /\ ResponseOwned

\* What the client gets (or the fold takes) is what the upstream sent, in its order
\* and without a hole, through the spool's prefix and queue; a stream recorded as
\* completed has passed on everything.
DeliveredInOrder ==
    \A r \in Request :
        /\ out[r] = [i \in 1..Len(out[r]) |-> i]
        /\ log[r].status = "completed" => Len(out[r]) = sent[r]

\* Whatever fails and is retried, a request is in the rollups once when it has been saved
\* and not before, with the usage of its row, unless the rollup itself failed or its row
\* was deleted while its client held it up; and the token's totals never run ahead.
AccountedOnce ==
    LET saved == {r \in Request : phase[r] = "saved"}
        rolled == {r \in Request : phase[r] \in {"saved", "refused"} /\ rollup[r] = "counts"}
        used(R) == Cardinality(UNION {{r} \X (1..Usage(r)) : r \in R})
    IN  /\ daily[1].requests + daily[2].requests = Cardinality(rolled)
        /\ daily[1].tokens + daily[2].tokens = used(saved \cap rolled)
        /\ total.tokens <= used(saved) /\ total.requests <= Cardinality(saved)
        /\ \A r \in saved : log[r] # NoRow => log[r].tokens = Usage(r)

\* No upstream or database holds a response open for ever, with a response timeout in
\* force; nor does a client that takes each piece sooner or later, or goes (the deadline
\* is looked at between two pieces only).
EveryResponseEnds ==
    \A r \in Request :
        []<>(phase[r] # "offering") => (open[r] ~> (~open[r] \/ phase[r] = "abandoned"))

\* "started_at is pinned to the first request of the session and last_at advances
\* to the latest" (models/db.py:935)
SpanInOrder ==
    \A c \in Conversation : span[c].started <= span[c].last
=============================================================================
