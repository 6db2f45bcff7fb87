-------------------------- MODULE StreamLogProofs --------------------------
(***************************************************************************)
(* Proofs about StreamLog: responses are owned, bytes arrive in order and    *)
(* every request is accounted once, for any number of requests, chunks,      *)
(* attempts and saves that fail, and any crashes.                           *)
(***************************************************************************)
EXTENDS StreamLog, FiniteSetTheorems, SequenceTheorems, TLAPS

Item == {End, Fault} \cup 1..Chunks
Totals == [requests : Nat, tokens : Nat]
Row == [status : Statuses, at : Nat, began : Nat, tokens : Nat]

Phase == Ended \cup {"idle", "spooling", "opened", "answering", "failed", "logged", "failing",
    "streaming", "offering", "closing", "saving", "writing", "abandoned", "lost"}

Control ==
    /\ now \in 0..MaxTime /\ up \in BOOLEAN /\ crashes \in Nat
    /\ mode \in [Request -> Mode] /\ phase \in [Request -> Phase]
    /\ tries \in [Request -> 0..MaxTries] /\ saves \in [Request -> 0..SavesMax]
    /\ open \in [Request -> BOOLEAN] /\ how \in [Request -> Statuses]
    /\ lock \in [Days -> Request \cup {NoRequest}]
    /\ rollup \in [Request -> {"counts", "fails", "rowless"}]

Wires ==
    /\ sent \in [Request -> 0..Chunks] /\ queue \in [Request -> Seq(Item)]
    /\ prefix \in [Request -> Seq(Item)] /\ out \in [Request -> Seq(Item)]

Records ==
    /\ began \in [Request -> Nat] /\ seen \in [Request -> Totals]
    /\ log \in [Request -> Row]
    /\ daily \in [Days -> Totals] /\ total \in Totals

Facts == Control /\ Wires /\ Records

\* The response of r is open exactly while r's coroutine is where it closes it.
Holding(r) == \/ phase[r] \in {"spooling", "opened", "streaming", "offering", "closing",
                               "abandoned"}
              \/ phase[r] = "logged" /\ mode[r].reads = "stream"

Places ==
    \A r \in Request :
        /\ open[r] = Holding(r)
        /\ phase[r] = "answering" => mode[r].reads # "stream"
        /\ phase[r] # "unsaved" => saves[r] < SavesMax

\* u continues what was passed on, k chunks, up to s, and only its last item may end it.
InOrder(k, u, s) ==
    /\ \A i \in 1..Len(u) : u[i] = k + i \/ (i = Len(u) /\ u[i] \in {End, Fault})
    /\ s = IF u # <<>> /\ u[Len(u)] <= 0 THEN k + Len(u) - 1 ELSE k + Len(u)

Bytes ==
    \A r \in Request :
        /\ \A i \in 1..Len(out[r]) : out[r][i] = i
        /\ open[r] => /\ InOrder(Len(out[r]), Upcoming(r), sent[r])
                      /\ \A i \in 1..Len(prefix[r]) : prefix[r][i] > 0

\* Where nothing of the response is missing.
Entire ==
    \A r \in Request :
        /\ phase[r] \in {"answering", "logged"} /\ mode[r].reads # "stream" => Len(out[r]) = sent[r]
        /\ phase[r] = "closing" /\ how[r] = "completed" => AtEnd(r, End)
        /\ phase[r] \in {"saving", "writing"} /\ how[r] = "completed" => Len(out[r]) = sent[r]
        /\ log[r].status = "completed" => phase[r] = "saved" /\ Len(out[r]) = sent[r]

\* A stream whose row was gone when its saving began has none when it is saved.
RowsStand ==
    \A r \in Request : phase[r] = "writing" /\ rollup[r] = "rowless" => log[r] = NoRow

Saved == {r \in Request : phase[r] = "saved"}
Rolled == {r \in Request : phase[r] \in {"saved", "refused"} /\ rollup[r] = "counts"}
usage == [r \in Request |-> Usage(r)]
Spent(S, u) == UNION {{r} \X (1..u[r]) : r \in S}
Used == Spent(Saved, usage)
UsedRolled == Spent(Saved \cap Rolled, usage)

Books ==
    /\ IsFiniteSet(Used) /\ IsFiniteSet(UsedRolled)
    /\ daily[1].requests + daily[2].requests = Cardinality(Rolled)
    /\ daily[1].tokens + daily[2].tokens = Cardinality(UsedRolled)
    /\ total.tokens <= Cardinality(Used) /\ total.requests <= Cardinality(Saved)
    /\ \A r \in Request : /\ seen[r].tokens <= Cardinality(Used)
                          /\ seen[r].requests <= Cardinality(Saved)
    /\ \A r \in Saved : log[r] # NoRow => log[r].tokens = Usage(r)
-----------------------------------------------------------------------------
(* The constants, and sequences.                                            *)

\* What the proofs use of the constants.
LEMMA Parameters ==
    /\ NoRequest \notin Request /\ IsFiniteSet(Request)
    /\ Chunks \in Nat \ {0} /\ MaxTries \in Nat \ {0} /\ SavesMax \in Nat \ {0}
    /\ ResponseTimeout \in Nat \ {0} /\ RequestRetention \in Nat \ {0}
    /\ MaxTime \in Nat
    /\ \A r \in Request : ConversationOf[r] \in Conversation /\ Tokens[r] \in Nat \ {0}
    /\ \A s \in Scenarios : s.mode \in [Request -> Mode] /\ s.crashes \in Nat
BY StreamConstants

\* Taking the first item of the queue into the prefix leaves what is still to come.
LEMMA Shifted ==
    ASSUME NEW S, NEW p \in Seq(S), NEW q \in Seq(S), q # <<>>
    PROVE  Append(p, Head(q)) \o Tail(q) = p \o q
<1> DEFINE h == Head(q)
           t == Tail(q)
           a == Append(p, h)
<1>1. /\ h \in S /\ t \in Seq(S) /\ Len(t) = Len(q) - 1 /\ h = q[1]
      /\ \A i \in 1..Len(t) : t[i] = q[i + 1]
    BY HeadTailProperties
<1>2. Len(q) \in Nat \ {0} /\ Len(p) \in Nat
    BY EmptySeq, LenProperties
<1> HIDE DEF h, t
<1>3. /\ a \in Seq(S) /\ Len(a) = Len(p) + 1
      /\ \A i \in 1..Len(p) : a[i] = p[i]
      /\ a[Len(p) + 1] = h
    BY <1>1, AppendProperties
<1> HIDE DEF a
<1> DEFINE u == p \o q
           v == a \o t
<1>4. /\ u \in Seq(S) /\ Len(u) = Len(p) + Len(q)
      /\ \A i \in 1..Len(u) : u[i] = IF i <= Len(p) THEN p[i] ELSE q[i - Len(p)]
    BY ConcatProperties
<1>5. /\ v \in Seq(S) /\ Len(v) = Len(a) + Len(t)
      /\ \A i \in 1..Len(v) : v[i] = IF i <= Len(a) THEN a[i] ELSE t[i - Len(a)]
  <2>1. a \in Seq(S) /\ t \in Seq(S)
    BY <1>1, <1>3
  <2> QED BY <2>1, ConcatProperties
<1> HIDE DEF u, v
<1>6. Len(v) = Len(u)
    BY <1>1, <1>2, <1>3, <1>4, <1>5
<1>7. ASSUME NEW i \in 1..Len(v) PROVE v[i] = u[i]
  <2>1. CASE i <= Len(p)
    <3>1. i \in 1..Len(p) /\ i <= Len(a) /\ i \in 1..Len(u)
      BY <2>1, <1>2, <1>3, <1>4, <1>6
    <3> QED BY <2>1, <3>1, <1>3, <1>4, <1>5
  <2>2. CASE i = Len(p) + 1
    BY <2>2, <1>1, <1>2, <1>3, <1>4, <1>5, <1>6
  <2>3. CASE i > Len(p) + 1
    <3>1. i - Len(a) \in 1..Len(t) /\ i - Len(a) + 1 = i - Len(p)
      BY <2>3, <1>1, <1>2, <1>3, <1>5
    <3>2. i \in 1..Len(u) /\ ~(i <= Len(a)) /\ ~(i <= Len(p))
      BY <2>3, <1>2, <1>3, <1>6
    <3>3. v[i] = t[i - Len(a)] /\ u[i] = q[i - Len(p)]
      BY <3>2, <1>4, <1>5
    <3>4. t[i - Len(a)] = q[i - Len(a) + 1]
      BY <3>1, <1>1
    <3> QED BY <3>1, <3>3, <3>4
  <2> QED BY <2>1, <2>2, <2>3, <1>2, <1>5, <1>1, <1>3
<1>8. v = u
    BY <1>4, <1>5, <1>6, <1>7, SeqEqual
<1> QED BY <1>8 DEF u, v, a, h, t

\* What arrives comes after what is still to be taken.
LEMMA Extended ==
    ASSUME NEW S, NEW p \in Seq(S), NEW q \in Seq(S), NEW e \in S
    PROVE  p \o Append(q, e) = Append(p \o q, e)
<1>1. /\ <<e>> \in Seq(S) /\ p \o q \in Seq(S)
    BY ConcatProperties
<1>2. p \o Append(q, e) = p \o (q \o <<e>>)
    BY AppendIsConcat
<1>3. p \o (q \o <<e>>) = (p \o q) \o <<e>>
    BY <1>1, ConcatAssociative
<1> QED BY <1>1, <1>2, <1>3, AppendIsConcat
-----------------------------------------------------------------------------
(* Types.                                                                   *)

\* A request's step keeps phases, counters and the clock in their types.
LEMMA ControlKept ==
    ASSUME Facts, Places, NEW r \in Request, Step(r) \/ Environment(r)
    PROVE  Control'
<1>1. CASE Attempt(r)
    BY <1>1, Parameters DEF Facts, Control, Attempt, Phase, clockVars, Put, Moves
<1>2. CASE GiveUp(r)
    BY <1>2, Parameters DEF Facts, Control, GiveUp, Phase, clockVars, Moves
<1>3. CASE SpoolEmpty(r)
    BY <1>3, Parameters DEF Facts, Control, SpoolEmpty, Retried, Closed, Phase, clockVars,
       txVars, Put
<1>4. CASE SpoolTake(r)
    BY <1>4, Parameters DEF Facts, Control, SpoolTake, Phase, clockVars, txVars, Put
<1>5. CASE SpoolQuiet(r)
    BY <1>5, Parameters DEF Facts, Control, SpoolQuiet, Phase, clockVars, txVars, Moves
<1>6. CASE SpoolLate(r)
    BY <1>6, Parameters DEF Facts, Control, SpoolLate, Retried, Closed, Phase, clockVars,
       txVars, Put
<1>7. CASE ReadMore(r)
    BY <1>7, Parameters DEF Facts, Control, ReadMore, clockVars, txVars
<1>8. CASE ReadAll(r)
    BY <1>8, Parameters DEF Facts, Control, ReadAll, Closed, Phase, clockVars, txVars, Put
<1>9. CASE ReadFails(r)
    BY <1>9, Parameters DEF Facts, Control, ReadFails, Retried, Closed, Phase, clockVars,
       txVars, Put
<1>10. CASE Log(r)
    BY <1>10, Parameters DEF Facts, Control, Log, Locks, Phase, clockVars, Put, Moves
<1>11. CASE Answer(r)
    BY <1>11, Parameters DEF Facts, Control, Answer, Unlocked, Done, Phase, Ended,
       Statuses, clockVars, Put, Moves
<1>12. CASE AnswerFailure(r)
    BY <1>12, Parameters DEF Facts, Control, AnswerFailure, Unlocked, Done, Phase, Ended,
       Statuses, clockVars, Put, Moves
<1>13. CASE Finalise(r)
    BY <1>13, Parameters DEF Facts, Control, Finalise, Phase, clockVars, txVars, Moves
<1>14. CASE StartResponse(r)
    BY <1>14, Parameters DEF Facts, Control, StartResponse, Phase, clockVars, txVars, Moves
<1>15. CASE Piece(r)
    BY <1>15, Parameters DEF Facts, Control, Piece, Phase, clockVars, txVars, Moves
<1>16. CASE StreamEnds(r)
    BY <1>16, Parameters DEF Facts, Control, StreamEnds, Ends, Leaves, Phase, Statuses, clockVars,
       txVars, Put, Moves
<1>17. CASE StreamBreaks(r)
    BY <1>17, Parameters DEF Facts, Control, StreamBreaks, Ends, Leaves, Phase, Statuses,
       clockVars, txVars, Put, Moves
<1>18. CASE Cut(r)
    BY <1>18, Parameters DEF Facts, Control, Cut, Ends, Leaves, Phase, Statuses, clockVars,
       txVars, Put, Moves
<1>19. CASE CloseUpstream(r)
    BY <1>19, Parameters DEF Facts, Control, CloseUpstream, Closed, Phase, clockVars,
       txVars, Put, Moves
<1>20. CASE SaveBegin(r)
    BY <1>20, Parameters DEF Facts, Control, SaveBegin, Locks, Phase, clockVars, Put, Moves
<1>21. CASE Save(r)
    BY <1>21, Parameters DEF Facts, Control, Save, Unlocked, Done, Phase, Ended, Statuses,
       clockVars, Put, Moves
<1>22. CASE SaveFails(r)
    BY <1>22, Parameters DEF Facts, Control, Places, SaveFails, NotSaved, Unlocked, Phase,
       Ended, clockVars, Put, Moves
<1>23. CASE \E item \in {End, Fault} \cup 1..Chunks : Arrive(r, item)
    BY <1>23, Parameters DEF Facts, Control, Arrive, clockVars, txVars
<1>24. CASE GoneEarly(r)
    BY <1>24, Parameters DEF Facts, Control, GoneEarly, Closed, Done, Unlocked, Phase,
       Ended, Statuses, clockVars, Put
<1>25. CASE Abandon(r)
    BY <1>25, Parameters DEF Facts, Control, Abandon, Phase, clockVars, txVars, Put
<1>26. CASE Disconnect(r)
    BY <1>26, Parameters DEF Facts, Control, Disconnect, Leaves, Phase, Statuses, clockVars,
       txVars, Put, Moves
<1>27. CASE ClientTakes(r)
    BY <1>27, Parameters DEF Facts, Control, ClientTakes, Phase, clockVars, txVars, Moves
<1> QED BY <1>1, <1>2, <1>3, <1>4, <1>5, <1>6, <1>7, <1>8, <1>9, <1>10, <1>11, <1>12,
        <1>13, <1>14, <1>15, <1>16, <1>17, <1>18, <1>19, <1>20, <1>21, <1>22, <1>23,
        <1>24, <1>25, <1>26, <1>27 DEF Step, Environment
\* What the step of a request may do with what is on the way to it.
Fresh(r) ==
    /\ sent' = Put(sent, r, 0) /\ out' = Put(out, r, <<>>)
    /\ queue' = Put(queue, r, <<>>) /\ prefix' = Put(prefix, r, <<>>)
    /\ phase[r] = "idle" /\ open' = Put(open, r, TRUE)

Dropped(r) == Closed(r) /\ UNCHANGED <<sent, out>>

Arrived(r, item) ==
    /\ open[r] /\ \A i \in 1..Len(queue[r]) : queue[r][i] > 0
    /\ item \in {End, Fault} \/ item = sent[r] + 1
    /\ sent' = Put(sent, r, IF item > 0 THEN item ELSE sent[r])
    /\ queue' = Put(queue, r, Append(queue[r], item))
    /\ UNCHANGED <<prefix, out, open, phase>>

Spooled(r) ==
    /\ phase[r] = "spooling" /\ queue[r] # <<>> /\ Head(queue[r]) > 0
    /\ prefix' = Put(prefix, r, Append(prefix[r], Head(queue[r])))
    /\ queue' = Put(queue, r, Tail(queue[r]))
    /\ UNCHANGED <<sent, out, open>>

Taken(r) == Take(r) /\ UNCHANGED open /\ phase[r] \in {"opened", "streaming"}

\* What a step may do to the bytes of its request: nothing, or one of the five
\* things named above.
LEMMA WireStep ==
    ASSUME NEW r \in Request, Step(r) \/ Environment(r)
    PROVE  \/ Fresh(r) \/ Dropped(r) \/ (\E item \in Item : Arrived(r, item))
           \/ Spooled(r) \/ Taken(r) \/ UNCHANGED <<wireVars, open>>
<1>1. CASE Attempt(r)
    BY <1>1 DEF Fresh, Attempt, Moves
<1>2. CASE GiveUp(r)
    BY <1>2 DEF GiveUp
<1>3. CASE SpoolEmpty(r)
    BY <1>3 DEF Dropped, SpoolEmpty, Retried
<1>4. CASE SpoolTake(r)
    BY <1>4 DEF Spooled, SpoolTake
<1>5. CASE SpoolQuiet(r)
    BY <1>5 DEF SpoolQuiet
<1>6. CASE SpoolLate(r)
    BY <1>6 DEF Dropped, SpoolLate, Retried
<1>7. CASE ReadMore(r)
    BY <1>7 DEF Taken, ReadMore, Reading
<1>8. CASE ReadAll(r)
    BY <1>8 DEF Dropped, ReadAll
<1>9. CASE ReadFails(r)
    BY <1>9 DEF Dropped, ReadFails, Retried
<1>10. CASE Log(r)
    BY <1>10 DEF Log
<1>11. CASE Answer(r)
    BY <1>11 DEF Answer
<1>12. CASE AnswerFailure(r)
    BY <1>12 DEF AnswerFailure
<1>13. CASE Finalise(r)
    BY <1>13 DEF Finalise
<1>14. CASE StartResponse(r)
    BY <1>14 DEF StartResponse
<1>15. CASE Piece(r)
    BY <1>15 DEF Taken, Piece, Moves
<1>16. CASE StreamEnds(r)
    BY <1>16 DEF StreamEnds, Ends, Leaves
<1>17. CASE StreamBreaks(r)
    BY <1>17 DEF StreamBreaks, Ends, Leaves
<1>18. CASE Cut(r)
    BY <1>18 DEF Cut, Ends, Leaves
<1>19. CASE CloseUpstream(r)
    BY <1>19 DEF Dropped, CloseUpstream
<1>20. CASE SaveBegin(r)
    BY <1>20 DEF SaveBegin
<1>21. CASE Save(r)
    BY <1>21 DEF Save
<1>22. CASE SaveFails(r)
    BY <1>22 DEF SaveFails, NotSaved
<1>23. CASE \E item \in {End, Fault} \cup 1..Chunks : Arrive(r, item)
    BY <1>23 DEF Arrived, Item, Arrive
<1>24. CASE GoneEarly(r)
    BY <1>24 DEF Dropped, GoneEarly
<1>25. CASE Abandon(r)
    BY <1>25 DEF Abandon
<1>26. CASE Disconnect(r)
    BY <1>26 DEF Disconnect, Leaves
<1>27. CASE ClientTakes(r)
    BY <1>27 DEF ClientTakes
<1> QED BY <1>1, <1>2, <1>3, <1>4, <1>5, <1>6, <1>7, <1>8, <1>9, <1>10, <1>11, <1>12,
        <1>13, <1>14, <1>15, <1>16, <1>17, <1>18, <1>19, <1>20, <1>21, <1>22, <1>23,
        <1>24, <1>25, <1>26, <1>27 DEF Step, Environment

\* What is taken is of the right kind, and so is what remains.
LEMMA TakeTypes ==
    ASSUME Wires, NEW r \in Request, Upcoming(r) # <<>>
    PROVE  /\ Upcoming(r) \in Seq(Item) /\ Len(Upcoming(r)) \in Nat \ {0}
           /\ Head(Upcoming(r)) = Upcoming(r)[1] /\ Head(Upcoming(r)) \in Item
           /\ Tail(Upcoming(r)) \in Seq(Item)
           /\ Len(Tail(Upcoming(r))) = Len(Upcoming(r)) - 1
           /\ \A i \in 1..Len(Tail(Upcoming(r))) :
                 Tail(Upcoming(r))[i] = Upcoming(r)[i + 1]
<1>1. queue[r] \in Seq(Item) /\ prefix[r] \in Seq(Item)
    BY DEF Wires
<1>2. Upcoming(r) \in Seq(Item)
    BY <1>1, ConcatProperties DEF Upcoming
<1> QED BY <1>2, EmptySeq, HeadTailProperties

\* A request's step keeps the spool, the queue and the output in their types.
LEMMA WiresKept ==
    ASSUME Facts, NEW r \in Request, Step(r) \/ Environment(r)
    PROVE  Wires'
<1> USE DEF Put
<1>0. <<>> \in Seq(Item)
    BY EmptySeq
<1>1. CASE Fresh(r)
    BY <1>0, <1>1, Parameters DEF Fresh, Facts, Wires
<1>2. CASE Dropped(r)
    BY <1>0, <1>2 DEF Dropped, Closed, Facts, Wires
<1>3. ASSUME NEW item \in Item, Arrived(r, item) PROVE Wires'
  <2>1. Append(queue[r], item) \in Seq(Item)
    BY AppendProperties DEF Facts, Wires
  <2>2. (IF item > 0 THEN item ELSE sent[r]) \in 0..Chunks
    BY Parameters DEF Facts, Wires, Item, End, Fault
  <2> QED BY <1>3, <2>1, <2>2 DEF Arrived, Facts, Wires
<1>4. CASE Spooled(r)
  <2>1. queue[r] \in Seq(Item) /\ prefix[r] \in Seq(Item) /\ queue[r] # <<>>
    BY <1>4 DEF Facts, Wires, Spooled
  <2>2. Head(queue[r]) \in Item /\ Tail(queue[r]) \in Seq(Item)
    BY <2>1, HeadTailProperties
  <2>3. Append(prefix[r], Head(queue[r])) \in Seq(Item)
    BY <2>1, <2>2, AppendProperties
  <2> QED BY <1>4, <2>2, <2>3 DEF Spooled, Facts, Wires
<1>5. CASE Taken(r)
  <2>1. Head(Upcoming(r)) \in Item /\ Tail(Upcoming(r)) \in Seq(Item)
    BY <1>5, TakeTypes DEF Taken, Take, Facts
  <2>2. Append(out[r], Head(Upcoming(r))) \in Seq(Item)
    BY <2>1, AppendProperties DEF Facts, Wires
  <2> QED BY <1>0, <1>5, <2>1, <2>2 DEF Taken, Take, Facts, Wires
<1>6. CASE UNCHANGED <<wireVars, open>>
    BY <1>6 DEF wireVars, Facts, Wires
<1> QED BY <1>1, <1>2, <1>3, <1>4, <1>5, <1>6, WireStep
-----------------------------------------------------------------------------
(* Rows.                                                                    *)

\* What the step of a request may do with the database.
Quiet(r) ==
    /\ UNCHANGED dbVars
    /\ \/ UNCHANGED <<phase, rollup>>
       \/ /\ phase[r] \notin {"saved", "refused"}
          /\ \E p \in Phase \ {"saved", "refused"} : phase' = Put(phase, r, p)

Listed(r) ==
    /\ mode[r].reads = "stream" /\ up
    /\ \/ phase[r] = "logged" /\ phase' = Put(phase, r, "streaming")
       \/ phase[r] = "logged" /\ phase' = Put(phase, r, "abandoned")
    /\ log' = Put(log, r, Pending(r)) /\ UNCHANGED <<daily, span, total, wireVars, rollup>>

Ledger(r) == Quiet(r) \/ Listed(r) \/ Answer(r) \/ AnswerFailure(r) \/ Save(r)

\* What a step may do to the row of its request.
LEMMA LedgerStep ==
    ASSUME NEW r \in Request, Step(r) \/ Environment(r)
    PROVE  Ledger(r)
<1>1. CASE Attempt(r)
    BY <1>1 DEF Ledger, Quiet, Attempt, Phase, Moves, Put
<1>2. CASE GiveUp(r)
    BY <1>2 DEF Ledger, Quiet, GiveUp, Phase, Moves, Put
<1>3. CASE SpoolEmpty(r)
    BY <1>3 DEF Ledger, Quiet, SpoolEmpty, Retried, Phase
<1>4. CASE SpoolTake(r)
    BY <1>4 DEF Ledger, Quiet, SpoolTake, Phase, txVars
<1>5. CASE SpoolQuiet(r)
    BY <1>5 DEF Ledger, Quiet, SpoolQuiet, Phase, Moves, Put
<1>6. CASE SpoolLate(r)
    BY <1>6 DEF Ledger, Quiet, SpoolLate, Retried, Phase
<1>7. CASE ReadMore(r)
    BY <1>7 DEF Ledger, Quiet, ReadMore, txVars
<1>8. CASE ReadAll(r)
    BY <1>8 DEF Ledger, Quiet, ReadAll, Reading, Phase
<1>9. CASE ReadFails(r)
    BY <1>9 DEF Ledger, Quiet, ReadFails, Reading, Retried, Phase
<1>10. CASE Log(r)
    BY <1>10 DEF Ledger, Quiet, Log, Phase, Moves, Put
<1>11. CASE Answer(r)
    BY <1>11 DEF Ledger
<1>12. CASE AnswerFailure(r)
    BY <1>12 DEF Ledger
<1>13. CASE Finalise(r)
    BY <1>13 DEF Ledger, Quiet, Finalise, Phase, Moves, Put
<1>14. CASE StartResponse(r)
    BY <1>14 DEF Ledger, Listed, StartResponse, Put, Moves, txVars
<1>15. CASE Piece(r)
    BY <1>15 DEF Ledger, Quiet, Piece, Phase, Moves, Put
<1>16. CASE StreamEnds(r)
    BY <1>16 DEF Ledger, Quiet, StreamEnds, Ends, Leaves, Phase, Moves, Put
<1>17. CASE StreamBreaks(r)
    BY <1>17 DEF Ledger, Quiet, StreamBreaks, Ends, Leaves, Phase, Moves, Put
<1>18. CASE Cut(r)
    BY <1>18 DEF Ledger, Quiet, Cut, Ends, Leaves, Phase, Moves, Put
<1>19. CASE CloseUpstream(r)
    BY <1>19 DEF Ledger, Quiet, CloseUpstream, Phase, Moves, Put
<1>20. CASE SaveBegin(r)
    BY <1>20 DEF Ledger, Quiet, SaveBegin, Phase, Moves, Put
<1>21. CASE Save(r)
    BY <1>21 DEF Ledger
<1>22. CASE SaveFails(r)
    BY <1>22 DEF Ledger, Quiet, SaveFails, NotSaved, Phase, Ended, Moves, Put
<1>23. CASE \E item \in {End, Fault} \cup 1..Chunks : Arrive(r, item)
    BY <1>23 DEF Ledger, Quiet, Arrive, txVars
<1>24. CASE GoneEarly(r)
    BY <1>24 DEF Ledger, Quiet, GoneEarly, Reading, Phase, Ended
<1>25. CASE Abandon(r)
    BY <1>25 DEF Ledger, Listed, Quiet, Abandon, Phase, dbVars, txVars
<1>26. CASE Disconnect(r)
    BY <1>26 DEF Ledger, Quiet, Disconnect, Leaves, Phase, Moves, Put
<1>27. CASE ClientTakes(r)
    BY <1>27 DEF Ledger, Quiet, ClientTakes, Phase, Moves, Put
<1> QED BY <1>1, <1>2, <1>3, <1>4, <1>5, <1>6, <1>7, <1>8, <1>9, <1>10, <1>11, <1>12,
        <1>13, <1>14, <1>15, <1>16, <1>17, <1>18, <1>19, <1>20, <1>21, <1>22, <1>23,
        <1>24, <1>25, <1>26, <1>27 DEF Step, Environment

\* ... and with what its session remembers of it.
LEMMA SessionStep ==
    ASSUME NEW r \in Request, Step(r) \/ Environment(r)
    PROVE  /\ UNCHANGED clockVars
           /\ began' \in {began, Put(began, r, now), Put(began, r, 0)}
           /\ seen' \in {seen, Put(seen, r, total), Put(seen, r, Zero)}
<1>1. CASE Attempt(r)
    BY <1>1 DEF Attempt, Starts
<1>2. CASE GiveUp(r)
    BY <1>2 DEF GiveUp, Starts
<1>3. CASE SpoolEmpty(r)
    BY <1>3 DEF SpoolEmpty, Retried, txVars
<1>4. CASE SpoolTake(r)
    BY <1>4 DEF SpoolTake, txVars
<1>5. CASE SpoolQuiet(r)
    BY <1>5 DEF SpoolQuiet, txVars
<1>6. CASE SpoolLate(r)
    BY <1>6 DEF SpoolLate, Retried, txVars
<1>7. CASE ReadMore(r)
    BY <1>7 DEF ReadMore, txVars
<1>8. CASE ReadAll(r)
    BY <1>8 DEF ReadAll, txVars
<1>9. CASE ReadFails(r)
    BY <1>9 DEF ReadFails, Retried, txVars
<1>10. CASE Log(r)
    BY <1>10 DEF Log
<1>11. CASE Answer(r)
    BY <1>11 DEF Answer, Done
<1>12. CASE AnswerFailure(r)
    BY <1>12 DEF AnswerFailure, Done
<1>13. CASE Finalise(r)
    BY <1>13 DEF Finalise, txVars
<1>14. CASE StartResponse(r)
    BY <1>14 DEF StartResponse, txVars
<1>15. CASE Piece(r)
    BY <1>15 DEF Piece, txVars
<1>16. CASE StreamEnds(r)
    BY <1>16 DEF StreamEnds, Ends, Leaves, txVars
<1>17. CASE StreamBreaks(r)
    BY <1>17 DEF StreamBreaks, Ends, Leaves, txVars
<1>18. CASE Cut(r)
    BY <1>18 DEF Cut, Ends, Leaves, txVars
<1>19. CASE CloseUpstream(r)
    BY <1>19 DEF CloseUpstream, txVars
<1>20. CASE SaveBegin(r)
    BY <1>20 DEF SaveBegin
<1>21. CASE Save(r)
    BY <1>21 DEF Save, Done
<1>22. CASE SaveFails(r)
    BY <1>22 DEF SaveFails, NotSaved
<1>23. CASE \E item \in {End, Fault} \cup 1..Chunks : Arrive(r, item)
    BY <1>23 DEF Arrive, txVars
<1>24. CASE GoneEarly(r)
    BY <1>24 DEF GoneEarly, Done
<1>25. CASE Abandon(r)
    BY <1>25 DEF Abandon, txVars
<1>26. CASE Disconnect(r)
    BY <1>26 DEF Disconnect, Leaves, txVars
<1>27. CASE ClientTakes(r)
    BY <1>27 DEF ClientTakes, txVars
<1> QED BY <1>1, <1>2, <1>3, <1>4, <1>5, <1>6, <1>7, <1>8, <1>9, <1>10, <1>11, <1>12,
        <1>13, <1>14, <1>15, <1>16, <1>17, <1>18, <1>19, <1>20, <1>21, <1>22, <1>23,
        <1>24, <1>25, <1>26, <1>27 DEF Step, Environment

\* A sum of counts stays one.
LEMMA RecordedType ==
    ASSUME Records, NEW r \in Request, NEW d \in Days, NEW at, NEW n \in Nat,
           Recorded(r, d, at, n), rollup[r] = "counts"
    PROVE  /\ daily' \in [Days -> Totals]
           /\ \A e \in Days : e # d => daily'[e] = daily[e]
           /\ daily'[d].requests = daily[d].requests + 1
           /\ daily'[d].tokens = daily[d].tokens + n
<1>1. daily[d] \in Totals
    BY DEF Records
<1>2. [requests |-> daily[d].requests + 1, tokens |-> daily[d].tokens + n] \in Totals
    BY <1>1 DEF Totals
<1> QED BY <1>2 DEF Recorded, Records

\* Whether it is added to or not.
LEMMA RecordedKept ==
    ASSUME Records, NEW r \in Request, NEW d \in Days, NEW at, NEW n \in Nat,
           Recorded(r, d, at, n)
    PROVE  daily' \in [Days -> Totals]
<1>1. CASE rollup[r] # "counts"
    BY <1>1 DEF Recorded, Records
<1> QED BY <1>1, RecordedType

\* What a request has used is a number.
LEMMA UsageType == ASSUME NEW r \in Request PROVE Usage(r) \in Nat
BY Parameters DEF Usage

\* Every time lies on a day.
LEMMA DayType == \A t : Day(t) \in Days
BY DEF Day, Days

\* The conversation's totals with a request added to them.
LEMMA BumpedType ==
    ASSUME Records, NEW r \in Request
    PROVE  /\ Bumped(r) \in Totals
           /\ Bumped(r).requests = seen[r].requests + 1
           /\ Bumped(r).tokens = seen[r].tokens + Usage(r)
<1>1. seen[r] \in Totals
    BY DEF Records
<1> QED BY <1>1, UsageType DEF Bumped, Totals

\* A request's step keeps rows, roll-ups and totals in their types.
LEMMA RecordsKept ==
    ASSUME Facts, NEW r \in Request, Step(r) \/ Environment(r)
    PROVE  Records'
<1> USE DEF Put
<1>0. now \in Nat /\ Zero \in Totals
    BY Parameters DEF Facts, Control, Zero, Totals
<1>1. began' \in [Request -> Nat] /\ seen' \in [Request -> Totals]
    BY <1>0, SessionStep DEF Facts, Records
<1>2. log' \in [Request -> Row] /\ daily' \in [Days -> Totals] /\ total' \in Totals
  <2>1. CASE Quiet(r)
    BY <2>1 DEF Quiet, dbVars, Facts, Records
  <2>2. CASE Listed(r)
    <3>1. Pending(r) \in Row
      BY <1>0 DEF Pending, Row, Statuses, Facts, Records
    <3> QED BY <2>2, <3>1 DEF Listed, Facts, Records
  <2>3. CASE Answer(r)
    <3>1. [status |-> "completed", at |-> now, began |-> began[r], tokens |-> Usage(r)] \in Row
      BY <1>0, UsageType DEF Row, Statuses, Facts, Records
    <3>2. total' \in Totals
      BY <2>3, BumpedType DEF Answer, Facts
    <3>3. daily' \in [Days -> Totals]
      BY <2>3, UsageType, DayType, RecordedKept DEF Answer, Facts
    <3> QED BY <2>3, <3>1, <3>2, <3>3 DEF Answer, Facts, Records
  <2>4. CASE AnswerFailure(r)
    <3>1. [status |-> "error", at |-> now, began |-> began[r], tokens |-> 0] \in Row
      BY <1>0 DEF Row, Statuses, Facts, Records
    <3>2. daily' \in [Days -> Totals]
      BY <2>4, DayType, RecordedKept DEF AnswerFailure, Facts
    <3> QED BY <2>4, <3>1, <3>2 DEF AnswerFailure, Facts, Records
  <2>5. CASE Save(r)
    <3>1. [[log[r] EXCEPT !.status = how[r]] EXCEPT !.tokens = Usage(r)] \in Row
      BY UsageType DEF Row, Facts, Control, Records
    <3>2. total' \in Totals
      BY <2>5, BumpedType DEF Save, Committed, Facts
    <3>3. daily' \in [Days -> Totals]
      BY <2>5, UsageType, DayType, RecordedKept DEF Save, Committed, Facts, Records
    <3>4. log' \in [Request -> Row]
      BY <2>5, <3>1 DEF Save, Committed, Facts, Records
    <3> QED BY <3>2, <3>3, <3>4
  <2> QED BY <2>1, <2>2, <2>3, <2>4, <2>5, LedgerStep DEF Ledger
<1> QED BY <1>1, <1>2 DEF Records
-----------------------------------------------------------------------------
(* Where requests are.                                                      *)

\* A request moves itself alone.
LEMMA Elsewhere ==
    ASSUME Facts, NEW r \in Request, Step(r) \/ Environment(r), NEW q \in Request \ {r}
    PROVE  /\ phase'[q] = phase[q] /\ how'[q] = how[q] /\ saves'[q] = saves[q]
           /\ open'[q] = open[q] /\ tries'[q] = tries[q] /\ rollup'[q] = rollup[q]
<1>1. CASE Attempt(r)
    BY <1>1 DEF Attempt, Put, Moves
<1>2. CASE GiveUp(r)
    BY <1>2 DEF GiveUp, Moves
<1>3. CASE SpoolEmpty(r)
    BY <1>3 DEF SpoolEmpty, Retried, Closed, Put, txVars
<1>4. CASE SpoolTake(r)
    BY <1>4 DEF SpoolTake, Put, txVars
<1>5. CASE SpoolQuiet(r)
    BY <1>5 DEF SpoolQuiet, Moves, txVars
<1>6. CASE SpoolLate(r)
    BY <1>6 DEF SpoolLate, Retried, Closed, Put, txVars
<1>7. CASE ReadMore(r)
    BY <1>7 DEF ReadMore, txVars
<1>8. CASE ReadAll(r)
    BY <1>8 DEF ReadAll, Closed, Put, txVars
<1>9. CASE ReadFails(r)
    BY <1>9 DEF ReadFails, Retried, Closed, Put, txVars
<1>10. CASE Log(r)
    BY <1>10 DEF Facts, Control, Log, Moves, Put, Locks
<1>11. CASE Answer(r)
    BY <1>11 DEF Answer, Done, Put, Moves
<1>12. CASE AnswerFailure(r)
    BY <1>12 DEF AnswerFailure, Done, Put, Moves
<1>13. CASE Finalise(r)
    BY <1>13 DEF Finalise, Moves, txVars
<1>14. CASE StartResponse(r)
    BY <1>14 DEF StartResponse, Moves, txVars
<1>15. CASE Piece(r)
    BY <1>15 DEF Piece, Moves, txVars
<1>16. CASE StreamEnds(r)
    BY <1>16 DEF StreamEnds, Ends, Leaves, Put, Moves, txVars
<1>17. CASE StreamBreaks(r)
    BY <1>17 DEF StreamBreaks, Ends, Leaves, Put, Moves, txVars
<1>18. CASE Cut(r)
    BY <1>18 DEF Cut, Ends, Leaves, Put, Moves, txVars
<1>19. CASE CloseUpstream(r)
    BY <1>19 DEF CloseUpstream, Closed, Put, Moves, txVars
<1>20. CASE SaveBegin(r)
    BY <1>20 DEF Facts, Control, SaveBegin, Moves, Put, Locks
<1>21. CASE Save(r)
    BY <1>21 DEF Save, Done, Put, Moves
<1>22. CASE SaveFails(r)
    BY <1>22 DEF SaveFails, NotSaved, Put, Moves
<1>23. CASE \E item \in {End, Fault} \cup 1..Chunks : Arrive(r, item)
    BY <1>23 DEF Arrive, txVars
<1>24. CASE GoneEarly(r)
    BY <1>24 DEF GoneEarly, Closed, Done, Put
<1>25. CASE Abandon(r)
    BY <1>25 DEF Abandon, Put, txVars
<1>26. CASE Disconnect(r)
    BY <1>26 DEF Disconnect, Leaves, Put, Moves, txVars
<1>27. CASE ClientTakes(r)
    BY <1>27 DEF ClientTakes, Moves, txVars
<1> QED BY <1>1, <1>2, <1>3, <1>4, <1>5, <1>6, <1>7, <1>8, <1>9, <1>10, <1>11, <1>12,
        <1>13, <1>14, <1>15, <1>16, <1>17, <1>18, <1>19, <1>20, <1>21, <1>22, <1>23,
        <1>24, <1>25, <1>26, <1>27 DEF Step, Environment

\* Nor does it touch the bytes of another request,
LEMMA WiresElsewhere ==
    ASSUME Facts, NEW r \in Request, Step(r) \/ Environment(r), NEW q \in Request \ {r}
    PROVE  /\ sent'[q] = sent[q] /\ out'[q] = out[q]
           /\ queue'[q] = queue[q] /\ prefix'[q] = prefix[q]
<1> USE DEF Put, Facts, Wires
<1>1. CASE Fresh(r)
    BY <1>1 DEF Fresh
<1>2. CASE Dropped(r)
    BY <1>2 DEF Dropped, Closed
<1>3. CASE \E item \in Item : Arrived(r, item)
    BY <1>3 DEF Arrived
<1>4. CASE Spooled(r)
    BY <1>4 DEF Spooled
<1>5. CASE Taken(r)
    BY <1>5 DEF Taken, Take
<1>6. CASE UNCHANGED <<wireVars, open>>
    BY <1>6 DEF wireVars
<1> QED BY <1>1, <1>2, <1>3, <1>4, <1>5, <1>6, WireStep

\* nor another request's row or copy of the totals.
LEMMA RecordsElsewhere ==
    ASSUME Facts, NEW r \in Request, Step(r) \/ Environment(r), NEW q \in Request \ {r}
    PROVE  log'[q] = log[q] /\ began'[q] = began[q] /\ seen'[q] = seen[q]
<1> USE DEF Put, Facts, Records
<1>1. began'[q] = began[q] /\ seen'[q] = seen[q]
    BY SessionStep
<1>2. log'[q] = log[q]
  <2>1. CASE Quiet(r) \/ Listed(r)
    BY <2>1 DEF Quiet, Listed, dbVars
  <2>2. CASE Answer(r) \/ AnswerFailure(r)
    BY <2>2 DEF Answer, AnswerFailure
  <2>3. CASE Save(r)
    BY <2>3 DEF Save, Committed
  <2> QED BY <2>1, <2>2, <2>3, LedgerStep DEF Ledger
<1> QED BY <1>1, <1>2

\* Every action leaves the request where what it has open will be closed.
LEMMA PlacesAt ==
    ASSUME Facts, Places, NEW r \in Request, Step(r) \/ Environment(r)
    PROVE  /\ open'[r] = Holding(r)'
           /\ phase'[r] = "answering" => mode'[r].reads # "stream"
           /\ phase'[r] # "unsaved" => saves'[r] < SavesMax
<1>0. /\ open[r] = Holding(r)
      /\ phase[r] = "answering" => mode[r].reads # "stream"
      /\ phase[r] # "unsaved" => saves[r] < SavesMax
      /\ saves[r] \in Nat /\ SavesMax \in Nat \ {0}
    BY Parameters DEF Places, Facts, Control
<1>1. CASE Attempt(r)
    BY <1>0, <1>1 DEF Facts, Control, Holding, Attempt, Put, Moves
<1>2. CASE GiveUp(r)
    BY <1>0, <1>2 DEF Facts, Control, Holding, GiveUp, Moves
<1>3. CASE SpoolEmpty(r)
    BY <1>0, <1>3 DEF Facts, Control, Holding, SpoolEmpty, Retried, Closed, Put
<1>4. CASE SpoolTake(r)
    BY <1>0, <1>4 DEF Facts, Control, Holding, SpoolTake, Put
<1>5. CASE SpoolQuiet(r)
    BY <1>0, <1>5 DEF Facts, Control, Holding, SpoolQuiet, Moves
<1>6. CASE SpoolLate(r)
    BY <1>0, <1>6 DEF Facts, Control, Holding, SpoolLate, Retried, Closed, Put
<1>7. CASE ReadMore(r)
    BY <1>0, <1>7 DEF Holding, ReadMore, Reading
<1>8. CASE ReadAll(r)
    BY <1>0, <1>8 DEF Facts, Control, Holding, ReadAll, Reading, Closed, Put, clockVars
<1>9. CASE ReadFails(r)
    BY <1>0, <1>9 DEF Facts, Control, Holding, ReadFails, Reading, Retried, Closed, Put
<1>10. CASE Log(r)
    BY <1>0, <1>10 DEF Facts, Control, Holding, Log, Moves, clockVars
<1>11. CASE Answer(r)
  <2>1. /\ mode[r].reads # "stream" /\ phase[r] = "logged" /\ phase' = Put(phase, r, "saved")
        /\ saves' = Put(saves, r, 0) /\ UNCHANGED <<open, mode>>
    BY <1>11 DEF Answer, Done, Put, Moves, clockVars
  <2>2. phase'[r] = "saved" /\ saves'[r] = 0 /\ open'[r] = open[r]
    BY <2>1 DEF Facts, Control, Put
  <2>3. open'[r] = FALSE
    BY <1>0, <2>1, <2>2 DEF Holding
  <2> QED BY <1>0, <2>2, <2>3 DEF Holding
<1>12. CASE AnswerFailure(r)
    BY <1>0, <1>12 DEF Facts, Control, Holding, AnswerFailure, Done, Put, Moves
<1>13. CASE Finalise(r)
    BY <1>0, <1>13 DEF Facts, Control, Holding, Finalise, Moves, clockVars
<1>14. CASE StartResponse(r)
    BY <1>0, <1>14 DEF Facts, Control, Holding, StartResponse, Moves
<1>15. CASE Piece(r)
    BY <1>0, <1>15 DEF Facts, Control, Holding, Piece, Moves
<1>16. CASE StreamEnds(r)
    BY <1>0, <1>16 DEF Facts, Control, Holding, StreamEnds, Ends, Leaves, Moves
<1>17. CASE StreamBreaks(r)
    BY <1>0, <1>17 DEF Facts, Control, Holding, StreamBreaks, Ends, Leaves, Moves
<1>18. CASE Cut(r)
    BY <1>0, <1>18 DEF Facts, Control, Holding, Cut, Ends, Leaves, Moves
<1>19. CASE CloseUpstream(r)
    BY <1>0, <1>19 DEF Facts, Control, Holding, CloseUpstream, Closed, Put, Moves
<1>20. CASE SaveBegin(r)
    BY <1>0, <1>20 DEF Facts, Control, Holding, SaveBegin, Moves
<1>21. CASE Save(r)
    BY <1>0, <1>21 DEF Facts, Control, Holding, Save, Done, Put, Moves
<1>22. CASE SaveFails(r)
    BY <1>0, <1>22 DEF Facts, Control, Holding, SaveFails, NotSaved, Put, Moves
<1>23. CASE \E item \in {End, Fault} \cup 1..Chunks : Arrive(r, item)
    BY <1>0, <1>23 DEF Holding, Arrive, clockVars
<1>24. CASE GoneEarly(r)
    BY <1>0, <1>24 DEF Facts, Control, Holding, GoneEarly, Closed, Done, Put
<1>25. CASE Abandon(r)
    BY <1>0, <1>25 DEF Facts, Control, Holding, Abandon, Put
<1>26. CASE Disconnect(r)
    BY <1>0, <1>26 DEF Facts, Control, Holding, Disconnect, Leaves, Moves
<1>27. CASE ClientTakes(r)
    BY <1>0, <1>27 DEF Facts, Control, Holding, ClientTakes, Moves
<1> QED BY <1>1, <1>2, <1>3, <1>4, <1>5, <1>6, <1>7, <1>8, <1>9, <1>10, <1>11, <1>12,
        <1>13, <1>14, <1>15, <1>16, <1>17, <1>18, <1>19, <1>20, <1>21, <1>22, <1>23,
        <1>24, <1>25, <1>26, <1>27 DEF Step, Environment

\* PlacesAt for every request.
LEMMA PlacesKept ==
    ASSUME Facts, Places, NEW r \in Request, Step(r) \/ Environment(r)
    PROVE  Places'
<1>1. UNCHANGED mode
    BY SessionStep DEF clockVars
<1>2. ASSUME NEW q \in Request \ {r}
      PROVE  /\ open'[q] = Holding(q)'
             /\ phase'[q] = "answering" => mode'[q].reads # "stream"
             /\ phase'[q] # "unsaved" => saves'[q] < SavesMax
    BY <1>1, Elsewhere, ZenonT(60) DEF Places, Holding
<1> QED BY <1>2, PlacesAt DEF Places
-----------------------------------------------------------------------------
(* Bytes.                                                                   *)

BytesAt(r) ==
    /\ \A i \in 1..Len(out[r]) : out[r][i] = i
    /\ open[r] => /\ InOrder(Len(out[r]), Upcoming(r), sent[r])
                  /\ \A i \in 1..Len(prefix[r]) : prefix[r][i] > 0

\* What arrives continues what was sent.
LEMMA ArrivedInOrder ==
    ASSUME Wires, NEW r \in Request, BytesAt(r), NEW item \in Item, Arrived(r, item)
    PROVE  BytesAt(r)'
<1> DEFINE p == prefix[r]
           q == queue[r]
           u == p \o q
           v == Append(u, item)
           k == Len(out[r])
           s == sent[r]
           t == IF item > 0 THEN item ELSE s
<1>1. p \in Seq(Item) /\ q \in Seq(Item) /\ s \in Nat /\ out[r] \in Seq(Item)
    BY Parameters DEF Wires
<1>2. k \in Nat /\ Len(p) \in Nat /\ Len(q) \in Nat
    BY <1>1, LenProperties
<1>3. /\ u \in Seq(Item) /\ Len(u) = Len(p) + Len(q)
      /\ \A i \in 1..Len(u) : u[i] = IF i <= Len(p) THEN p[i] ELSE q[i - Len(p)]
    BY <1>1, ConcatProperties, ZenonT(60)
<1>4. open[r] /\ (item \in {End, Fault} \/ item = s + 1)
      /\ \A i \in 1..Len(q) : q[i] > 0
    BY DEF Arrived
<1>5. /\ InOrder(k, u, s) /\ \A i \in 1..Len(p) : p[i] > 0
      /\ \A i \in 1..k : out[r][i] = i
    BY <1>4 DEF BytesAt, Upcoming
<1>6. /\ out'[r] = out[r] /\ prefix'[r] = p /\ queue'[r] = Append(q, item) /\ open'[r]
      /\ sent'[r] = t
    BY <1>4 DEF Arrived, Put, Wires
<1>7. Upcoming(r)' = v
  <2> HIDE DEF p, q
  <2>1. p \o Append(q, item) = v
    BY <1>1, Extended
  <2> QED BY <1>6, <2>1 DEF Upcoming
<1> HIDE DEF p, q, u, v, k, s
<1>8. /\ v \in Seq(Item) /\ v # <<>> /\ Len(v) = Len(u) + 1
      /\ \A i \in 1..Len(u) : v[i] = u[i]
      /\ v[Len(u) + 1] = item
  <2> QED BY <1>3, AppendProperties DEF v
<1>9. \A i \in 1..Len(u) : u[i] > 0
    BY <1>2, <1>3, <1>4, <1>5
<1>10. /\ \A i \in 1..Len(u) : u[i] = k + i
       /\ s = k + Len(u)
  <2>1. Len(u) \in Nat
    BY <1>2, <1>3
  <2>2. u # <<>> => Len(u) \in 1..Len(u)
    BY <1>3, EmptySeq
  <2> QED BY <1>2, <1>5, <1>9, <2>1, <2>2 DEF InOrder, End, Fault
<1>11. InOrder(k, v, t)
  <2>1. Len(u) \in Nat
    BY <1>2, <1>3
  <2>2. ASSUME NEW i \in 1..Len(v)
        PROVE  v[i] = k + i \/ (i = Len(v) /\ v[i] \in {End, Fault})
    <3>1. CASE i \in 1..Len(u)
      BY <3>1, <1>8, <1>10
    <3>2. CASE i = Len(u) + 1
      BY <3>2, <1>1, <1>2, <1>4, <1>8, <1>10, <2>1
    <3> QED BY <3>1, <3>2, <2>1, <1>8
  <2>3. t = IF v # <<>> /\ v[Len(v)] <= 0 THEN k + Len(v) - 1 ELSE k + Len(v)
    BY <1>2, <1>4, <1>8, <1>10, <2>1 DEF End, Fault
  <2> QED BY <2>2, <2>3 DEF InOrder
<1>12. Len(out'[r]) = k /\ \A i \in 1..Len(out'[r]) : out'[r][i] = i
    BY <1>5, <1>6 DEF k
<1>13. \A i \in 1..Len(prefix'[r]) : prefix'[r][i] > 0
    BY <1>5, <1>6
<1> QED BY <1>6, <1>7, <1>11, <1>12, <1>13 DEF BytesAt

\* Spooling moves the boundary between prefix and queue, nothing else.
LEMMA SpooledInOrder ==
    ASSUME Wires, NEW r \in Request, BytesAt(r), Spooled(r)
    PROVE  BytesAt(r)'
<1> DEFINE p == prefix[r]
           q == queue[r]
<1>1. p \in Seq(Item) /\ q \in Seq(Item) /\ q # <<>> /\ Head(q) > 0
    BY DEF Wires, Spooled
<1>2. /\ out'[r] = out[r] /\ sent'[r] = sent[r] /\ open'[r] = open[r]
      /\ prefix'[r] = Append(p, Head(q)) /\ queue'[r] = Tail(q)
    BY DEF Wires, Spooled, Put
<1>3. Upcoming(r)' = Upcoming(r)
    BY <1>1, <1>2, Shifted DEF Upcoming
<1>4. /\ Len(Append(p, Head(q))) = Len(p) + 1
      /\ \A i \in 1..Len(p) : Append(p, Head(q))[i] = p[i]
      /\ Append(p, Head(q))[Len(p) + 1] = Head(q)
      /\ Len(p) \in Nat
  <2>1. Head(q) \in Item
    BY <1>1, HeadTailProperties
  <2> QED BY <1>1, <2>1, AppendProperties, LenProperties
<1>5. (\A i \in 1..Len(p) : p[i] > 0) => \A i \in 1..Len(prefix'[r]) : prefix'[r][i] > 0
  <2> DEFINE a == Append(p, Head(q))
             h == Head(q)
  <2>1. prefix'[r] = a
    BY <1>2
  <2>2. Len(a) = Len(p) + 1 /\ a[Len(p) + 1] = h /\ h > 0 /\ Len(p) \in Nat
        /\ \A i \in 1..Len(p) : a[i] = p[i]
    BY <1>1, <1>4
  <2> HIDE DEF p, q, a, h
  <2> QED BY <2>1, <2>2
<1> QED BY <1>2, <1>3, <1>5 DEF BytesAt

\* What is taken is the next chunk.
LEMMA TakenInOrder ==
    ASSUME Wires, NEW r \in Request, BytesAt(r), Take(r), open[r], open'[r]
    PROVE  BytesAt(r)'
<1> DEFINE u == Upcoming(r)
           w == Tail(u)
           h == Head(u)
           o == out[r]
           k == Len(o)
           s == sent[r]
<1>1. /\ u \in Seq(Item) /\ u # <<>> /\ Len(u) \in Nat \ {0} /\ h = u[1] /\ h \in Item /\ h > 0
      /\ w \in Seq(Item) /\ Len(w) = Len(u) - 1 /\ \A i \in 1..Len(w) : w[i] = u[i + 1]
    BY TakeTypes DEF Take
<1>2. o \in Seq(Item) /\ k \in Nat /\ s \in Nat
    BY LenProperties, Parameters DEF Wires
<1>3. InOrder(k, u, s) /\ \A i \in 1..k : o[i] = i
    BY DEF BytesAt
<1>4. /\ out'[r] = Append(o, h) /\ prefix'[r] = <<>> /\ queue'[r] = w /\ sent'[r] = s
    BY DEF Take, Put, Wires
<1>5. Upcoming(r)' = w
    BY <1>1, <1>4, ConcatEmptySeq DEF Upcoming
<1>6. /\ Len(Append(o, h)) = k + 1 /\ \A i \in 1..k : Append(o, h)[i] = o[i]
      /\ Append(o, h)[k + 1] = h
    BY <1>1, <1>2, AppendProperties
<1> DEFINE a == Append(o, h)
<1>7. out'[r] = a /\ Len(a) = k + 1 /\ a[k + 1] = h /\ \A i \in 1..k : a[i] = o[i]
    BY <1>4, <1>6
<1>8. w = <<>> <=> Len(w) = 0
    BY <1>1, EmptySeq
<1> HIDE DEF u, w, h, o, k, s, a
<1>9. h = k + 1
    BY <1>1, <1>2, <1>3 DEF InOrder, End, Fault
<1>10. \A i \in 1..Len(a) : a[i] = i
  <2> SUFFICES ASSUME NEW i \in 1..Len(a) PROVE a[i] = i
    OBVIOUS
  <2>1. i \in 1..k \/ i = k + 1
    BY <1>2, <1>7
  <2> QED BY <2>1, <1>3, <1>7, <1>9
<1>11. InOrder(k + 1, w, s)
  <2>1. ASSUME NEW i \in 1..Len(w)
        PROVE  w[i] = k + 1 + i \/ (i = Len(w) /\ w[i] \in {End, Fault})
    <3>1. i + 1 \in 1..Len(u) /\ w[i] = u[i + 1] /\ i \in Int
      BY <1>1
    <3> QED BY <3>1, <1>1, <1>2, <1>3 DEF InOrder
  <2>2. s = IF w # <<>> /\ w[Len(w)] <= 0 THEN k + 1 + Len(w) - 1 ELSE k + 1 + Len(w)
    <3>1. CASE Len(w) = 0
      <4>1. Len(u) = 1 /\ u[1] > 0 /\ u[1] = k + 1
        BY <3>1, <1>1, <1>9
      <4>2. w = <<>>
        BY <3>1, <1>8
      <4>3. s = k + 1
        BY <4>1, <1>2, <1>3 DEF InOrder
      <4> QED BY <4>2, <4>3, <3>1, <1>2
    <3>2. CASE Len(w) # 0
      <4>1. w[Len(w)] = u[Len(u)]
        BY <3>2, <1>1
      <4> QED BY <3>2, <4>1, <1>1, <1>2, <1>3, <1>8 DEF InOrder
    <3> QED BY <3>1, <3>2
  <2> QED BY <2>1, <2>2 DEF InOrder
<1>12. \A i \in 1..Len(prefix'[r]) : prefix'[r][i] > 0
    BY <1>4
<1> QED BY <1>4, <1>5, <1>7, <1>10, <1>11, <1>12 DEF BytesAt

\* A request's step keeps the bytes of every request in order.
LEMMA BytesKept ==
    ASSUME Facts, Places, Bytes, NEW r \in Request, Step(r) \/ Environment(r)
    PROVE  Bytes'
<1>0. BytesAt(r) /\ \A q \in Request : BytesAt(q)
    BY DEF Bytes, BytesAt
<1>1. ASSUME NEW q \in Request \ {r} PROVE BytesAt(q)'
  <2>1. /\ sent'[q] = sent[q] /\ out'[q] = out[q] /\ open'[q] = open[q]
        /\ queue'[q] = queue[q] /\ prefix'[q] = prefix[q]
    BY Elsewhere, WiresElsewhere
  <2>2. Upcoming(q)' = Upcoming(q)
    BY <2>1 DEF Upcoming
  <2> QED BY <1>0, <2>1, <2>2 DEF BytesAt
<1>2. BytesAt(r)'
  <2>1. CASE Fresh(r)
    <3>1. out'[r] = <<>> /\ queue'[r] = <<>> /\ prefix'[r] = <<>> /\ sent'[r] = 0
      BY <2>1 DEF Fresh, Put, Facts, Wires
    <3>2. Len(<<>>) = 0 /\ <<>> \o <<>> = <<>>
      BY EmptySeq, ConcatEmptySeq
    <3>3. Upcoming(r)' = <<>>
      BY <3>1, <3>2 DEF Upcoming
    <3>4. InOrder(0, <<>>, 0)
      BY <3>2 DEF InOrder
    <3> QED BY <3>1, <3>2, <3>3, <3>4 DEF BytesAt
  <2>2. CASE Dropped(r)
    <3>1. open'[r] = FALSE /\ out'[r] = out[r]
      BY <2>2 DEF Dropped, Closed, Put, Facts, Control
    <3> QED BY <1>0, <3>1 DEF BytesAt
  <2>3. ASSUME NEW item \in Item, Arrived(r, item) PROVE BytesAt(r)'
    BY <1>0, <2>3, ArrivedInOrder DEF Facts
  <2>4. CASE Spooled(r)
    BY <1>0, <2>4, SpooledInOrder DEF Facts
  <2>5. CASE Taken(r)
    <3>1. open[r] /\ open'[r]
      BY <2>5 DEF Taken, Places, Holding
    <3> QED BY <1>0, <2>5, <3>1, TakenInOrder DEF Facts, Taken
  <2>6. CASE UNCHANGED <<wireVars, open>>
    <3>1. /\ out'[r] = out[r] /\ open'[r] = open[r] /\ sent'[r] = sent[r]
          /\ prefix'[r] = prefix[r] /\ Upcoming(r)' = Upcoming(r)
      BY <2>6 DEF wireVars, Upcoming
    <3> QED BY <1>0, <3>1 DEF BytesAt
  <2> QED BY <2>1, <2>2, <2>3, <2>4, <2>5, <2>6, WireStep
<1> QED BY <1>1, <1>2 DEF Bytes, BytesAt

\* Where the upstream's end is next, nothing else is under way.
LEMMA EndIsLast ==
    ASSUME Facts, NEW r \in Request, BytesAt(r), open[r], AtEnd(r, End)
    PROVE  Len(out[r]) = sent[r] /\ ~(\A i \in 1..Len(queue[r]) : queue[r][i] > 0)
<1> DEFINE p == prefix[r]
           q == queue[r]
           u == p \o q
           k == Len(out[r])
<1>1. p \in Seq(Item) /\ q \in Seq(Item) /\ out[r] \in Seq(Item)
    BY DEF Facts, Wires
<1>2. k \in Nat /\ Len(p) \in Nat /\ Len(q) \in Nat
    BY <1>1, LenProperties
<1>3. /\ u \in Seq(Item) /\ Len(u) = Len(p) + Len(q)
      /\ \A i \in 1..Len(u) : u[i] = IF i <= Len(p) THEN p[i] ELSE q[i - Len(p)]
  <2> HIDE DEF p, q
  <2> QED BY <1>1, ConcatProperties
<1>4. Len(u) \in Nat \ {0} /\ u[1] = End /\ u # <<>>
  <2>1. u # <<>> /\ Head(u) = End
    BY DEF AtEnd, Upcoming
  <2> QED BY <1>3, <2>1, EmptySeq, TakeTypes DEF AtEnd, Upcoming, Facts
<1>5. InOrder(k, u, sent[r]) /\ \A i \in 1..Len(p) : p[i] > 0
    BY DEF BytesAt, Upcoming
<1> HIDE DEF p, q, u, k
<1>6. Len(u) = 1 /\ sent[r] = k
  <2>1. 1 \in 1..Len(u) /\ u[1] # k + 1
    BY <1>2, <1>4 DEF End
  <2>2. Len(u) = 1
    BY <2>1, <1>5 DEF InOrder
  <2> QED BY <2>2, <1>2, <1>4, <1>5 DEF InOrder, End
<1>7. Len(p) = 0
    BY <1>2, <1>3, <1>4, <1>5, <1>6 DEF End
<1>8. 1 \in 1..Len(q) /\ q[1] = 0
    BY <1>2, <1>3, <1>4, <1>6, <1>7 DEF End
<1> QED BY <1>6, <1>8 DEF k, q

-----------------------------------------------------------------------------
(* Whole answers.                                                           *)

EntireAt(r) ==
    /\ phase[r] \in {"answering", "logged"} /\ mode[r].reads # "stream" => Len(out[r]) = sent[r]
    /\ phase[r] = "closing" /\ how[r] = "completed" => AtEnd(r, End)
    /\ phase[r] \in {"saving", "writing"} /\ how[r] = "completed" => Len(out[r]) = sent[r]
    /\ log[r].status = "completed" => phase[r] = "saved" /\ Len(out[r]) = sent[r]

\* What the upstream sends after its end changes nothing.
LEMMA EntireArrived ==
    ASSUME Facts, Places, NEW r \in Request, BytesAt(r), EntireAt(r), NEW item \in Item,
           Arrived(r, item), UNCHANGED <<mode, how, log>>
    PROVE  EntireAt(r)'
<1>1. Holding(r)
    BY DEF Arrived, Places
<1>2. ~AtEnd(r, End)
    BY EndIsLast DEF Arrived
<1> QED BY <1>1, <1>2 DEF EntireAt, Arrived, Holding

\* A request's step keeps what a finished response consists of.
LEMMA EntireStep ==
    ASSUME Facts, Places, NEW r \in Request, BytesAt(r), EntireAt(r),
           Step(r) \/ Environment(r)
    PROVE  EntireAt(r)'
<1>1. CASE Attempt(r)
    BY <1>1 DEF EntireAt, Attempt, Moves, dbVars
<1>2. CASE GiveUp(r)
    BY <1>2 DEF EntireAt, GiveUp, Moves, dbVars
<1>3. CASE SpoolEmpty(r)
    BY <1>3 DEF EntireAt, SpoolEmpty, Retried, Put, dbVars
<1>4. CASE SpoolTake(r)
    BY <1>4 DEF EntireAt, SpoolTake, Put, dbVars
<1>5. CASE SpoolQuiet(r)
    BY <1>5 DEF EntireAt, SpoolQuiet, Moves, dbVars
<1>6. CASE SpoolLate(r)
    BY <1>6 DEF EntireAt, SpoolLate, Retried, Put, dbVars
<1>7. CASE ReadMore(r)
    BY <1>7 DEF EntireAt, ReadMore, Reading, dbVars
<1>8. CASE ReadAll(r)
  <2>1. phase[r] = "opened" /\ AtEnd(r, End) /\ log[r].status # "completed"
    BY <1>8 DEF ReadAll, Reading, Whole, EntireAt
  <2>2. open[r] = TRUE
    BY <2>1 DEF Places, Holding
  <2>3. Len(out[r]) = sent[r]
    BY <2>1, <2>2, EndIsLast
  <2>4. phase'[r] = "answering" /\ UNCHANGED <<sent, out, log>>
    BY <1>8 DEF ReadAll, Put, Facts, Control, dbVars
  <2> QED BY <2>1, <2>3, <2>4 DEF EntireAt
<1>9. CASE ReadFails(r)
    BY <1>9 DEF EntireAt, ReadFails, Reading, Retried, Put, dbVars
<1>10. CASE Log(r)
    BY <1>10 DEF Facts, Control, EntireAt, Log, Moves, clockVars, wireVars, dbVars
<1>11. CASE Answer(r)
    BY <1>11 DEF Facts, Control, EntireAt, Answer, Moves, wireVars
<1>12. CASE AnswerFailure(r)
    BY <1>12 DEF EntireAt, AnswerFailure, Put, Moves
<1>13. CASE Finalise(r)
    BY <1>13 DEF EntireAt, Finalise, Moves, clockVars, dbVars
<1>14. CASE StartResponse(r)
  <2>1. phase'[r] = "streaming" /\ log'[r] = Pending(r)
    BY <1>14 DEF StartResponse, Moves, Put, Facts, Control, Records
  <2> QED BY <2>1 DEF EntireAt, Pending
<1>15. CASE Piece(r)
    BY <1>15 DEF EntireAt, Piece, Moves, dbVars
<1>16. CASE StreamEnds(r)
  <2>1. /\ phase[r] = "streaming" /\ phase'[r] = "closing" /\ log'[r] = log[r]
        /\ AtEnd(r, End) /\ Upcoming(r)' = Upcoming(r)
    BY <1>16 DEF StreamEnds, Ends, Leaves, Moves, Facts, Control, dbVars, wireVars, Upcoming
  <2>2. AtEnd(r, End)'
    BY <2>1 DEF AtEnd
  <2> QED BY <2>1, <2>2 DEF EntireAt
<1>17. CASE StreamBreaks(r)
    BY <1>17 DEF Facts, Control, EntireAt, StreamBreaks, Ends, Leaves, Put, Moves, dbVars
<1>18. CASE Cut(r)
    BY <1>18 DEF Facts, Control, EntireAt, Cut, Ends, Leaves, Put, Moves, dbVars
<1>19. CASE CloseUpstream(r)
  <2>1. phase[r] = "closing" /\ phase'[r] = "saving" /\ UNCHANGED <<sent, out, how, log>>
    BY <1>19 DEF CloseUpstream, Moves, Facts, Control, dbVars
  <2>2. open[r] = TRUE
    BY <2>1 DEF Places, Holding
  <2>3. how[r] = "completed" => Len(out[r]) = sent[r]
    BY <2>1, <2>2, EndIsLast DEF EntireAt
  <2> QED BY <2>1, <2>3 DEF EntireAt
<1>20. CASE SaveBegin(r)
    BY <1>20 DEF EntireAt, SaveBegin, Moves, wireVars, dbVars
<1>21. CASE Save(r)
  <2>1. /\ phase[r] = "writing" /\ phase'[r] = "saved" /\ UNCHANGED <<sent, out>>
        /\ log'[r] = log[r] \/ log'[r].status = how[r]
    BY <1>21 DEF Save, Committed, Moves, Facts, Control, Records, Row, wireVars
  <2> QED BY <2>1 DEF EntireAt
<1>22. CASE SaveFails(r)
    BY <1>22 DEF EntireAt, SaveFails, NotSaved, Moves, wireVars, dbVars
<1>23. CASE \E item \in {End, Fault} \cup 1..Chunks : Arrive(r, item)
  <2>1. PICK item \in {End, Fault} \cup 1..Chunks : Arrive(r, item)
    BY <1>23
  <2>2. item \in Item /\ Arrived(r, item) /\ UNCHANGED <<mode, how, log>>
    BY <2>1 DEF Arrive, Arrived, Item, clockVars, dbVars
  <2> QED BY <2>2, EntireArrived
<1>24. CASE GoneEarly(r)
    BY <1>24 DEF Facts, Control, EntireAt, GoneEarly, Reading, Put, dbVars
<1>25. CASE Abandon(r)
  <2>1. /\ phase[r] \in {"opened", "logged"} /\ phase'[r] = "abandoned"
        /\ log'[r] \in {log[r], Pending(r)}
    BY <1>25 DEF Abandon, Put, Facts, Control, Records
  <2> QED BY <2>1 DEF EntireAt, Pending
<1>26. CASE Disconnect(r)
    BY <1>26 DEF Facts, Control, EntireAt, Disconnect, Leaves, Put, Moves, dbVars
<1>27. CASE ClientTakes(r)
    BY <1>27 DEF EntireAt, ClientTakes, Moves, dbVars
<1> QED BY <1>1, <1>2, <1>3, <1>4, <1>5, <1>6, <1>7, <1>8, <1>9, <1>10, <1>11, <1>12,
        <1>13, <1>14, <1>15, <1>16, <1>17, <1>18, <1>19, <1>20, <1>21, <1>22, <1>23,
        <1>24, <1>25, <1>26, <1>27 DEF Step, Environment

\* EntireStep for every request.
LEMMA EntireKept ==
    ASSUME Facts, Places, Bytes, Entire, NEW r \in Request, Step(r) \/ Environment(r)
    PROVE  Entire'
<1>1. ASSUME NEW q \in Request \ {r} PROVE EntireAt(q)'
  <2>1. /\ sent'[q] = sent[q] /\ out'[q] = out[q] /\ how'[q] = how[q] /\ log'[q] = log[q]
        /\ queue'[q] = queue[q] /\ prefix'[q] = prefix[q] /\ phase'[q] = phase[q]
    BY Elsewhere, WiresElsewhere, RecordsElsewhere
  <2>2. Upcoming(q)' = Upcoming(q) /\ mode' = mode
    BY <2>1, SessionStep DEF Upcoming, clockVars
  <2>3. AtEnd(q, End)' = AtEnd(q, End)
    BY <2>2 DEF AtEnd, End
  <2> QED BY <2>1, <2>2, <2>3 DEF Entire, EntireAt
<1>2. EntireAt(r)'
    BY EntireStep DEF Bytes, BytesAt, Entire, EntireAt
<1> QED BY <1>1, <1>2 DEF Entire, EntireAt

-----------------------------------------------------------------------------
(* Rows that are gone.                                                      *)

RowsAt(r) == phase[r] = "writing" /\ rollup[r] = "rowless" => log[r] = NoRow

\* A request's step keeps the row that its phase says there is.
LEMMA RowsStep ==
    ASSUME Facts, NEW r \in Request, RowsAt(r), Step(r) \/ Environment(r)
    PROVE  RowsAt(r)'
<1>1. CASE Attempt(r)
    BY <1>1 DEF Facts, Control, RowsAt, Attempt, Moves
<1>2. CASE GiveUp(r)
    BY <1>2 DEF Facts, Control, RowsAt, GiveUp, Moves
<1>3. CASE SpoolEmpty(r)
    BY <1>3 DEF Facts, Control, RowsAt, SpoolEmpty, Retried, Put
<1>4. CASE SpoolTake(r)
    BY <1>4 DEF Facts, Control, RowsAt, SpoolTake, Put
<1>5. CASE SpoolQuiet(r)
    BY <1>5 DEF Facts, Control, RowsAt, SpoolQuiet, Moves
<1>6. CASE SpoolLate(r)
    BY <1>6 DEF Facts, Control, RowsAt, SpoolLate, Retried, Put
<1>7. CASE ReadMore(r)
    BY <1>7 DEF RowsAt, ReadMore, Reading, txVars, dbVars
<1>8. CASE ReadAll(r)
    BY <1>8 DEF Facts, Control, RowsAt, ReadAll, Reading, Put
<1>9. CASE ReadFails(r)
    BY <1>9 DEF Facts, Control, RowsAt, ReadFails, Reading, Retried, Put
<1>10. CASE Log(r)
    BY <1>10 DEF Facts, Control, RowsAt, Log, Moves
<1>11. CASE Answer(r)
    BY <1>11 DEF Facts, Control, RowsAt, Answer, Moves
<1>12. CASE AnswerFailure(r)
    BY <1>12 DEF Facts, Control, RowsAt, AnswerFailure, Moves
<1>13. CASE Finalise(r)
    BY <1>13 DEF Facts, Control, RowsAt, Finalise, Moves
<1>14. CASE StartResponse(r)
    BY <1>14 DEF Facts, Control, RowsAt, StartResponse, Moves
<1>15. CASE Piece(r)
    BY <1>15 DEF Facts, Control, RowsAt, Piece, Moves, dbVars
<1>16. CASE StreamEnds(r)
    BY <1>16 DEF Facts, Control, RowsAt, StreamEnds, Ends, Leaves, Moves, dbVars
<1>17. CASE StreamBreaks(r)
    BY <1>17 DEF Facts, Control, RowsAt, StreamBreaks, Ends, Leaves, Moves, dbVars
<1>18. CASE Cut(r)
    BY <1>18 DEF Facts, Control, RowsAt, Cut, Ends, Leaves, Moves, dbVars
<1>19. CASE CloseUpstream(r)
    BY <1>19 DEF Facts, Control, RowsAt, CloseUpstream, Moves, dbVars
<1>20. CASE SaveBegin(r)
    BY <1>20 DEF Facts, Control, RowsAt, SaveBegin, Moves, dbVars, Locks, Put
<1>21. CASE Save(r)
    BY <1>21 DEF Facts, Control, RowsAt, Save, Moves
<1>22. CASE SaveFails(r)
    BY <1>22 DEF Facts, Control, RowsAt, SaveFails, NotSaved, Moves, dbVars
<1>23. CASE \E item \in {End, Fault} \cup 1..Chunks : Arrive(r, item)
    BY <1>23 DEF RowsAt, Arrive, dbVars, txVars
<1>24. CASE GoneEarly(r)
    BY <1>24 DEF Facts, Control, RowsAt, GoneEarly, Put
<1>25. CASE Abandon(r)
    BY <1>25 DEF Facts, Control, RowsAt, Abandon, Put
<1>26. CASE Disconnect(r)
    BY <1>26 DEF Facts, Control, RowsAt, Disconnect, Leaves, Moves, dbVars
<1>27. CASE ClientTakes(r)
    BY <1>27 DEF Facts, Control, RowsAt, ClientTakes, Moves, dbVars
<1> QED BY <1>1, <1>2, <1>3, <1>4, <1>5, <1>6, <1>7, <1>8, <1>9, <1>10, <1>11, <1>12,
        <1>13, <1>14, <1>15, <1>16, <1>17, <1>18, <1>19, <1>20, <1>21, <1>22, <1>23,
        <1>24, <1>25, <1>26, <1>27 DEF Step, Environment

\* RowsStep for every request.
LEMMA RowsStandKept ==
    ASSUME Facts, RowsStand, NEW r \in Request, Step(r) \/ Environment(r)
    PROVE  RowsStand'
<1>1. ASSUME NEW q \in Request \ {r} PROVE RowsAt(q)'
  <2>1. phase'[q] = phase[q] /\ rollup'[q] = rollup[q] /\ log'[q] = log[q]
    BY Elsewhere, RecordsElsewhere
  <2> QED BY <2>1 DEF RowsStand, RowsAt
<1>2. RowsAt(r)'
    BY RowsStep DEF RowsStand, RowsAt
<1> QED BY <1>1, <1>2 DEF RowsStand, RowsAt

-----------------------------------------------------------------------------
(* Accounts.                                                                *)

\* A request that is accounted does not get another answer.
LEMMA UsageStands ==
    ASSUME Facts, NEW r \in Request, Step(r) \/ Environment(r), NEW q \in Request,
           q # r \/ phase[q] \notin {"idle", "opened", "streaming"}
    PROVE  Usage(q)' = Usage(q)
<1>1. out'[q] = out[q]
  <2>1. CASE q # r
    BY <2>1, WiresElsewhere
  <2>2. CASE q = r
    BY <2>2, WireStep DEF Fresh, Dropped, Arrived, Spooled, Taken, wireVars
  <2> QED BY <2>1, <2>2
<1> QED BY <1>1 DEF Usage, Complete

\* What the requests of S have used is as much as their usages say.
LEMMA SpentFinite ==
    ASSUME NEW S, NEW u, NEW r \in Request, r \notin S, u[r] \in Nat, IsFiniteSet(Spent(S, u))
    PROVE  /\ IsFiniteSet(Spent(S \cup {r}, u))
           /\ Cardinality(Spent(S \cup {r}, u)) = Cardinality(Spent(S, u)) + u[r]
<1> DEFINE n == u[r]
           part == {r} \X (1..n)
           old == Spent(S, u)
<1>0. n \in Nat /\ IsFiniteSet(old)
    OBVIOUS
<1>4. old \cap part = {}
    BY DEF Spent
<1>5. Spent(S \cup {r}, u) = old \cup part
  <2>1. \A x : x \in Spent(S \cup {r}, u) <=> \E q \in S \cup {r} : x \in {q} \X (1..u[q])
    BY DEF Spent
  <2>2. \A x : x \in old \cup part <=> \E q \in S \cup {r} : x \in {q} \X (1..u[q])
    BY DEF Spent
  <2> QED BY <2>1, <2>2
<1> HIDE DEF n, old
<1>1. IsFiniteSet({r}) /\ Cardinality({r}) = 1
    BY FS_Singleton
<1>2. IsFiniteSet(1..n) /\ Cardinality(1..n) = n
    BY <1>0, FS_Interval
<1>3. IsFiniteSet(part) /\ Cardinality(part) = n
  <2> DEFINE one == {r}
             to == 1..n
  <2>1. IsFiniteSet(one) /\ Cardinality(one) = 1 /\ IsFiniteSet(to) /\ Cardinality(to) = n
    BY <1>1, <1>2
  <2>2. part = one \X to
    OBVIOUS
  <2> HIDE DEF one, to, part
  <2>3. IsFiniteSet(one \X to) /\ Cardinality(one \X to) = Cardinality(one) * Cardinality(to)
    BY <2>1, FS_Product
  <2>4. Cardinality(one) * Cardinality(to) = n
    BY <1>0, <2>1
  <2> QED BY <2>2, <2>3, <2>4
<1> HIDE DEF part
<1>6. /\ IsFiniteSet(old \cup part)
      /\ Cardinality(old \cup part) = Cardinality(old) + Cardinality(part) - Cardinality({})
    BY <1>0, <1>3, <1>4, FS_Union
<1>7. Cardinality(old \cup part) = Cardinality(old) + n
    BY <1>0, <1>3, <1>6, FS_EmptySet, FS_CardinalityType
<1> QED BY <1>5, <1>6, <1>7 DEF n, old

\* It depends on their usages alone.
LEMMA SpentSame ==
    ASSUME NEW S, NEW u, NEW v, \A q \in S : u[q] = v[q]
    PROVE  Spent(S, u) = Spent(S, v)
<1>1. \A x : x \in Spent(S, u) <=> \E q \in S : x \in {q} \X (1..u[q])
    BY DEF Spent
<1>2. \A x : x \in Spent(S, v) <=> \E q \in S : x \in {q} \X (1..v[q])
    BY DEF Spent
<1> QED BY <1>1, <1>2

\* A usage that stands, stands in the table of them.
LEMMA UsageAt == ASSUME NEW q \in Request PROVE usage[q] = Usage(q) /\ usage'[q] = Usage(q)'
BY DEF usage

\* One more request of a set has used what its own usage says.
LEMMA OneMore ==
    ASSUME NEW S, NEW r \in Request, r \notin S, S \subseteq Request, IsFiniteSet(Spent(S, usage)),
           \A q \in S \cup {r} : Usage(q)' = Usage(q)
    PROVE  /\ IsFiniteSet(Spent(S \cup {r}, usage'))
           /\ Cardinality(Spent(S \cup {r}, usage')) = Cardinality(Spent(S, usage)) + Usage(r)
<1>1. usage[r] = Usage(r) /\ usage[r] \in Nat
    BY UsageType, UsageAt
<1>2. \A q \in S \cup {r} : usage'[q] = usage[q]
    BY UsageAt
<1>3. Spent(S \cup {r}, usage') = Spent(S \cup {r}, usage)
    BY <1>2, SpentSame
<1> QED BY <1>1, <1>3, SpentFinite

\* The same requests have used the same.
LEMMA AsMany ==
    ASSUME NEW S, S \subseteq Request, \A q \in S : Usage(q)' = Usage(q)
    PROVE  Spent(S, usage') = Spent(S, usage)
BY UsageAt, SpentSame

\* The sums over the days grow by what is recorded for one of them, or stay.
LEMMA SumsGrow ==
    ASSUME Records, NEW r \in Request, NEW d \in Days, NEW at, NEW n \in Nat,
           Recorded(r, d, at, n)
    PROVE  /\ daily' \in [Days -> Totals]
           /\ rollup[r] # "counts" => daily' = daily
           /\ rollup[r] = "counts" =>
                 /\ daily'[1].requests + daily'[2].requests
                       = daily[1].requests + daily[2].requests + 1
                 /\ daily'[1].tokens + daily'[2].tokens = daily[1].tokens + daily[2].tokens + n
<1>1. daily[1] \in Totals /\ daily[2] \in Totals
    BY DEF Records, Days
<1>2. /\ daily[1].requests \in Nat /\ daily[2].requests \in Nat
      /\ daily[1].tokens \in Nat /\ daily[2].tokens \in Nat
    BY <1>1 DEF Totals
<1>3. CASE rollup[r] # "counts"
    BY <1>3 DEF Recorded, Records
<1>4. CASE rollup[r] = "counts"
  <2>1. /\ daily' \in [Days -> Totals]
        /\ \A e \in Days : e # d => daily'[e] = daily[e]
        /\ daily'[d].requests = daily[d].requests + 1
        /\ daily'[d].tokens = daily[d].tokens + n
    BY <1>4, RecordedType
  <2>2. CASE d = 1
    BY <1>2, <1>4, <2>1, <2>2 DEF Days
  <2>3. CASE d = 2
    BY <1>2, <1>4, <2>1, <2>3 DEF Days
  <2> QED BY <2>2, <2>3 DEF Days
<1> QED BY <1>3, <1>4

\* The sets of the books are finite, and what they count are numbers.
LEMMA BookTypes ==
    ASSUME Facts, Books
    PROVE  /\ IsFiniteSet(Saved) /\ IsFiniteSet(Rolled)
           /\ Cardinality(Saved) \in Nat /\ Cardinality(Rolled) \in Nat
           /\ Cardinality(Used) \in Nat /\ Cardinality(UsedRolled) \in Nat
           /\ \A q \in Request : seen[q].tokens \in Nat /\ seen[q].requests \in Nat
<1>1. IsFiniteSet(Saved) /\ IsFiniteSet(Rolled)
    BY Parameters, FS_Subset DEF Saved, Rolled
<1>2. \A q \in Request : seen[q] \in Totals
    BY DEF Facts, Records
<1> QED BY <1>1, <1>2, FS_CardinalityType DEF Books, Totals

\* What r's end adds to the rollups, when they count it.
LEMMA RolledUp ==
    ASSUME Facts, Books, NEW r \in Request, r \notin Rolled, UNCHANGED rollup,
           NEW p \in {"saved", "refused"}, phase' = Put(phase, r, p),
           \A q \in Saved \cup {r} : Usage(q)' = Usage(q),
           NEW d \in Days, NEW at, NEW n \in Nat, n = IF p = "saved" THEN Usage(r) ELSE 0,
           Recorded(r, d, at, n), r \notin Saved
    PROVE  /\ IsFiniteSet(UsedRolled')
           /\ daily'[1].requests + daily'[2].requests = Cardinality(Rolled')
           /\ daily'[1].tokens + daily'[2].tokens = Cardinality(UsedRolled')
<1> DEFINE S == Saved \cap Rolled
<1>0. S \subseteq Request /\ r \notin S /\ \A q \in S \cup {r} : Usage(q)' = Usage(q)
    BY DEF Saved
<1>1. CASE rollup[r] # "counts"
  <2>1. Rolled' = Rolled /\ (Saved \cap Rolled)' = S
    BY <1>1 DEF Saved, Rolled, Put, Facts, Control
  <2>2. UsedRolled' = Spent(S, usage')
    BY <2>1 DEF UsedRolled
  <2>3. UsedRolled' = UsedRolled
    BY <2>2, <1>0, AsMany DEF UsedRolled
  <2>4. daily' = daily
    BY <1>1, SumsGrow DEF Facts
  <2> QED BY <2>1, <2>3, <2>4 DEF Books
<1>2. CASE rollup[r] = "counts"
  <2>1. Rolled' = Rolled \cup {r}
    BY <1>2 DEF Rolled, Put, Facts, Control
  <2>2. Cardinality(Rolled') = Cardinality(Rolled) + 1
    BY <2>1, BookTypes, FS_AddElement
  <2>3. /\ daily'[1].requests + daily'[2].requests = daily[1].requests + daily[2].requests + 1
        /\ daily'[1].tokens + daily'[2].tokens = daily[1].tokens + daily[2].tokens + n
    BY <1>2, SumsGrow DEF Facts
  <2>4. IsFiniteSet(UsedRolled') /\ Cardinality(UsedRolled') = Cardinality(UsedRolled) + n
    <3>1. CASE p = "saved"
      <4>1. (Saved \cap Rolled)' = S \cup {r}
        BY <1>2, <3>1 DEF Saved, Rolled, Put, Facts, Control
      <4>2. UsedRolled' = Spent(S \cup {r}, usage')
        BY <4>1 DEF UsedRolled
      <4>3. IsFiniteSet(Spent(S, usage)) /\ UsedRolled = Spent(S, usage)
        BY DEF Books, UsedRolled
      <4>4. n = Usage(r)
        BY <3>1
      <4> HIDE DEF S
      <4> QED BY <1>0, <4>2, <4>3, <4>4, OneMore
    <3>2. CASE p = "refused"
      <4>1. (Saved \cap Rolled)' = S
        BY <3>2 DEF Saved, Rolled, Put, Facts, Control
      <4>2. UsedRolled' = Spent(S, usage')
        BY <4>1 DEF UsedRolled
      <4>3. UsedRolled' = UsedRolled /\ n = 0
        BY <3>2, <4>2, <1>0, AsMany DEF UsedRolled
      <4> QED BY <4>3, BookTypes DEF Books
    <3> QED BY <3>1, <3>2
  <2> QED BY <2>2, <2>3, <2>4 DEF Books
<1> QED BY <1>1, <1>2

\* A request that is saved is accounted, with its tokens; its session's totals were
\* those of requests that are.
LEMMA Accounted ==
    ASSUME Facts, Books, NEW r \in Request, r \notin Rolled, r \notin Saved, UNCHANGED rollup,
           phase' = Put(phase, r, "saved"), \A q \in Saved \cup {r} : Usage(q)' = Usage(q),
           seen' \in {seen, Put(seen, r, Zero)},
           NEW d \in Days, NEW at, Recorded(r, d, at, Usage(r)), total' = Bumped(r),
           \A q \in Saved : log'[q] = log[q],
           log'[r] = NoRow \/ log'[r].tokens = Usage(r)
    PROVE  Books'
<1>1. Saved' = Saved \cup {r}
    BY DEF Saved, Put, Facts, Control
<1>2. Cardinality(Saved') = Cardinality(Saved) + 1
    BY <1>1, BookTypes, FS_AddElement
<1>3. IsFiniteSet(Used') /\ Cardinality(Used') = Cardinality(Used) + Usage(r)
  <2>1. Used' = Spent(Saved \cup {r}, usage')
    BY <1>1 DEF Used
  <2>2. IsFiniteSet(Spent(Saved, usage)) /\ Used = Spent(Saved, usage) /\ Saved \subseteq Request
    BY DEF Books, Used, Saved
  <2> QED BY <2>1, <2>2, OneMore
<1>4. /\ Usage(r) \in Nat /\ Cardinality(Used) \in Nat /\ Cardinality(Saved) \in Nat
    BY UsageType, BookTypes
<1>5. /\ IsFiniteSet(UsedRolled')
      /\ daily'[1].requests + daily'[2].requests = Cardinality(Rolled')
      /\ daily'[1].tokens + daily'[2].tokens = Cardinality(UsedRolled')
  <2> DEFINE p == "saved"
  <2>1. p \in {"saved", "refused"} /\ phase' = Put(phase, r, p)
        /\ Usage(r) = IF p = "saved" THEN Usage(r) ELSE 0
    OBVIOUS
  <2> HIDE DEF p
  <2> QED BY <2>1, <1>4, RolledUp
<1>7. /\ seen[r].tokens \in Nat /\ seen[r].requests \in Nat
      /\ seen[r].tokens <= Cardinality(Used) /\ seen[r].requests <= Cardinality(Saved)
    BY BookTypes DEF Books
<1>8. total'.tokens <= Cardinality(Used') /\ total'.requests <= Cardinality(Saved')
    BY <1>2, <1>3, <1>4, <1>7, BumpedType DEF Facts
<1>9. ASSUME NEW q \in Request
      PROVE  seen'[q].tokens <= Cardinality(Used') /\ seen'[q].requests <= Cardinality(Saved')
  <2>1. /\ seen[q].tokens \in Nat /\ seen[q].requests \in Nat
        /\ seen[q].tokens <= Cardinality(Used) /\ seen[q].requests <= Cardinality(Saved)
    BY BookTypes DEF Books
  <2>2. seen'[q] = seen[q] \/ seen'[q] = Zero
    BY DEF Facts, Records, Put
  <2> QED BY <1>2, <1>3, <1>4, <2>1, <2>2 DEF Zero
<1>10. \A q \in Saved' : log'[q] # NoRow => log'[q].tokens = Usage(q)'
    BY <1>1 DEF Books
<1> QED BY <1>3, <1>5, <1>8, <1>9, <1>10 DEF Books, NoRow

\* What is accounted stays as it is while nothing is recorded.
LEMMA Undisturbed ==
    ASSUME Facts, Books, Saved' = Saved, Rolled' = Rolled,
           \A q \in Saved : Usage(q)' = Usage(q), UNCHANGED <<daily, total>>,
           \A q \in Request : seen'[q] \in {seen[q], total, Zero},
           \A q \in Saved : log'[q] = NoRow \/ log'[q].tokens = log[q].tokens,
           \A q \in Saved : log[q] = NoRow => log'[q] = NoRow
    PROVE  Books'
<1>1. Used' = Used /\ UsedRolled' = UsedRolled
  <2>1. Used' = Spent(Saved, usage') /\ UsedRolled' = Spent(Saved \cap Rolled, usage')
    BY DEF Used, UsedRolled
  <2>2. Saved \subseteq Request /\ Saved \cap Rolled \subseteq Request
    BY DEF Saved
  <2> QED BY <2>1, <2>2, AsMany DEF Used, UsedRolled
<1>4. ASSUME NEW q \in Request
      PROVE  seen'[q].tokens <= Cardinality(Used') /\ seen'[q].requests <= Cardinality(Saved')
    BY <1>1, BookTypes DEF Books, Zero
<1>5. \A q \in Saved' : log'[q] # NoRow => log'[q].tokens = Usage(q)'
    BY DEF Books
<1> QED BY <1>1, <1>4, <1>5 DEF Books, NoRow

\* A request's step keeps the books.
LEMMA BooksKept ==
    ASSUME Facts, RowsStand, Books, NEW r \in Request, Step(r) \/ Environment(r)
    PROVE  Books'
<1>1. /\ \A q \in Request \ {r} : log'[q] = log[q]
      /\ \A q \in Request : q # r \/ phase[q] \notin {"idle", "opened", "streaming"}
            => Usage(q)' = Usage(q)
      /\ \A q \in Request : seen'[q] \in {seen[q], total, Zero}
  <2>1. \A q \in Request : seen'[q] \in {seen[q], total, Zero}
    BY SessionStep DEF Put, Facts, Records
  <2> QED BY <2>1, RecordsElsewhere, UsageStands
<1>2. \A q \in Saved : Usage(q)' = Usage(q)
    BY <1>1 DEF Saved
<1>3. CASE Quiet(r)
  <2>0. \A q \in Request \ {r} : rollup'[q] = rollup[q]
    BY Elsewhere
  <2>1. Saved' = Saved /\ Rolled' = Rolled
    BY <1>3, <2>0 DEF Quiet, Saved, Rolled, Put, Facts, Control
  <2>2. UNCHANGED <<log, daily, total>>
    BY <1>3 DEF Quiet, dbVars
  <2> QED BY <1>1, <1>2, <2>1, <2>2, Undisturbed
<1>4. CASE Listed(r)
  <2>1. Saved' = Saved /\ Rolled' = Rolled /\ r \notin Saved
    BY <1>4 DEF Listed, Saved, Rolled, Put, Facts, Control
  <2>2. UNCHANGED <<daily, total>> /\ \A q \in Saved : log'[q] = log[q]
    BY <1>1, <1>4, <2>1 DEF Listed, Saved
  <2> QED BY <1>1, <1>2, <2>1, <2>2, Undisturbed
<1>5. CASE Answer(r)
  <2>1. /\ phase[r] = "logged" /\ phase' = Put(phase, r, "saved")
        /\ r \notin Rolled /\ r \notin Saved /\ UNCHANGED rollup
        /\ seen' = Put(seen, r, Zero) /\ total' = Bumped(r)
        /\ Recorded(r, Day(now), now, Usage(r))
    BY <1>5 DEF Answer, Moves, Done, Rolled, Saved, Put
  <2>2. log'[r].tokens = Usage(r)
    BY <1>5 DEF Answer, Put, Facts, Records
  <2>3. \A q \in Saved \cup {r} : Usage(q)' = Usage(q)
    BY <1>1, <2>1 DEF Saved
  <2>4. \A q \in Saved : log'[q] = log[q]
    BY <1>1, <2>1 DEF Saved
  <2> QED BY <2>1, <2>2, <2>3, <2>4, DayType, Accounted
<1>6. CASE AnswerFailure(r)
  <2>1. /\ phase[r] = "failing" /\ phase' = Put(phase, r, "refused") /\ UNCHANGED rollup
        /\ Recorded(r, Day(now), now, 0) /\ UNCHANGED total
    BY <1>6 DEF AnswerFailure, Moves, Put
  <2>2. Saved' = Saved /\ r \notin Rolled /\ r \notin Saved
    BY <2>1 DEF Saved, Rolled, Put, Facts, Control
  <2>3. \A q \in Saved \cup {r} : Usage(q)' = Usage(q)
    BY <1>1, <2>1 DEF Saved
  <2>4. /\ IsFiniteSet(UsedRolled')
        /\ daily'[1].requests + daily'[2].requests = Cardinality(Rolled')
        /\ daily'[1].tokens + daily'[2].tokens = Cardinality(UsedRolled')
    <3> DEFINE p == "refused"
    <3>1. p \in {"saved", "refused"} /\ phase' = Put(phase, r, p)
          /\ 0 = IF p = "saved" THEN Usage(r) ELSE 0
      BY <2>1
    <3> HIDE DEF p
    <3> QED BY <2>1, <2>2, <2>3, <3>1, DayType, RolledUp
  <2>5. Used' = Used
    <3>1. Used' = Spent(Saved, usage') /\ Saved \subseteq Request
      BY <2>2 DEF Used, Saved
    <3> QED BY <3>1, <1>2, AsMany DEF Used
  <2>8. ASSUME NEW q \in Request
        PROVE  seen'[q].tokens <= Cardinality(Used') /\ seen'[q].requests <= Cardinality(Saved')
    BY <1>1, <2>2, <2>5, BookTypes DEF Books, Zero
  <2>9. \A q \in Saved' : log'[q] # NoRow => log'[q].tokens = Usage(q)'
    BY <1>1, <1>2, <2>2 DEF Books, Saved
  <2> QED BY <2>1, <2>2, <2>4, <2>5, <2>8, <2>9 DEF Books, NoRow
<1>7. CASE Save(r)
  <2>1. /\ phase[r] = "writing" /\ phase' = Put(phase, r, "saved") /\ UNCHANGED rollup
        /\ r \notin Rolled /\ r \notin Saved
        /\ seen' = Put(seen, r, Zero) /\ Committed(r)
    BY <1>7 DEF Save, Moves, Done, Rolled, Saved, Put
  <2>2. Recorded(r, Day(log[r].at), log[r].at, Usage(r)) /\ total' = Bumped(r)
    BY <2>1 DEF Committed
  <2>3. log'[r] = NoRow \/ log'[r].tokens = Usage(r)
    <3>1. CASE rollup[r] = "rowless"
      BY <3>1, <2>1 DEF Committed, RowsStand
    <3>2. CASE rollup[r] # "rowless"
      BY <3>2, <2>1, ZenonT(60) DEF Committed, Facts, Records, Row
    <3> QED BY <3>1, <3>2
  <2>4. \A q \in Saved \cup {r} : Usage(q)' = Usage(q)
    BY <1>1, <2>1 DEF Saved
  <2>5. \A q \in Saved : log'[q] = log[q]
    BY <1>1, <2>1 DEF Saved
  <2> QED BY <2>1, <2>2, <2>3, <2>4, <2>5, DayType, Accounted
<1> QED BY <1>3, <1>4, <1>5, <1>6, <1>7, LedgerStep DEF Ledger
-----------------------------------------------------------------------------
(* Time, the process, retention.                                            *)

\* What the steps that belong to no request leave alone.
LEMMA WorldFacts ==
    ASSUME Facts, Tick \/ Crash \/ Boot \/ Cleanup
    PROVE  Facts'
<1> USE DEF Facts, Control, Wires, Records
<1>1. CASE Tick
    BY <1>1, Parameters DEF Tick, wireVars, dbVars, txVars
<1>2. CASE Crash
  <2>1. <<>> \in Seq(Item) /\ Zero \in Totals
    BY EmptySeq DEF Zero, Totals
  <2>2. Wires'
    BY <1>2, <2>1, Parameters DEF Crash, Kept
  <2>3. Records'
    BY <1>2, <2>1 DEF Crash, Kept, dbVars
  <2>4. Control'
    <3>1. phase' \in [Request -> Phase] /\ open' \in [Request -> BOOLEAN]
      BY <1>2 DEF Crash, Kept, Phase
    <3>2. how' \in [Request -> Statuses] /\ saves' \in [Request -> 0..SavesMax]
      BY <1>2, Parameters DEF Crash, Kept, Statuses
    <3>3. /\ lock' \in [Days -> Request \cup {NoRequest}]
          /\ rollup' \in [Request -> {"counts", "fails", "rowless"}]
      BY <1>2 DEF Crash, Kept
    <3>4. crashes > 0 /\ crashes' = crashes - 1 /\ up' = FALSE /\ UNCHANGED <<now, mode, tries>>
      BY <1>2 DEF Crash
    <3>5. crashes' \in Nat
      BY <3>4
    <3> QED BY <3>1, <3>2, <3>3, <3>4, <3>5
  <2> QED BY <2>2, <2>3, <2>4
<1>3. CASE Boot
  <2>1. \A r \in Request : [log[r] EXCEPT !.status = "terminated"] \in Row
    BY ZenonT(60) DEF Row, Statuses
  <2>2. log' \in [Request -> Row]
    BY <1>3, <2>1 DEF Boot
  <2> QED BY <1>3, <2>2 DEF Boot, wireVars, txVars
<1>4. CASE Cleanup
  <2>1. NoRow \in Row
    BY DEF NoRow, Row, Statuses
  <2>2. log' \in [Request -> Row]
    BY <1>4, <2>1 DEF Cleanup
  <2> QED BY <1>4, <2>2 DEF Cleanup, clockVars, wireVars, txVars
<1> QED BY <1>1, <1>2, <1>3, <1>4

\* A crash closes what is open and leaves what has ended.
LEMMA CrashEffect ==
    ASSUME Facts, Places, Crash, NEW r \in Request
    PROVE  /\ open'[r] = FALSE /\ mode' = mode /\ log' = log
           /\ \/ /\ phase[r] \in Ended \/ (phase[r] = "idle" /\ tries[r] = 0)
                 /\ phase'[r] = phase[r] /\ out'[r] = out[r] /\ sent'[r] = sent[r]
                 /\ seen'[r] = seen[r] /\ rollup'[r] = rollup[r] /\ saves'[r] = saves[r]
              \/ /\ ~Survives(r)
                 /\ phase'[r] = "lost" /\ out'[r] = <<>> /\ seen'[r] = Zero /\ saves'[r] = 0
<1>1. CASE Survives(r)
  <2>1. phase[r] \in Ended \/ (phase[r] = "idle" /\ tries[r] = 0)
    BY <1>1 DEF Survives
  <2>2. open[r] = FALSE
    BY <2>1 DEF Places, Holding, Ended
  <2> QED BY <1>1, <2>1, <2>2 DEF Crash, Kept, dbVars
<1>2. CASE ~Survives(r)
    BY <1>2 DEF Crash, Kept, dbVars
<1> QED BY <1>1, <1>2

\* Time, a crash, the boot and retention keep the places,
LEMMA WorldPlaces ==
    ASSUME Facts, Places, Tick \/ Crash \/ Boot \/ Cleanup
    PROVE  Places'
<1>1. CASE Crash
  <2> SUFFICES ASSUME NEW r \in Request
               PROVE  /\ open'[r] = Holding(r)'
                      /\ phase'[r] = "answering" => mode'[r].reads # "stream"
                      /\ phase'[r] # "unsaved" => saves'[r] < SavesMax
    BY DEF Places
  <2>1. saves'[r] \in {saves[r], 0} /\ (phase'[r] # "unsaved" => saves'[r] < SavesMax)
    <3>1. saves[r] < SavesMax \/ phase[r] = "unsaved"
      BY DEF Places
    <3>2. 0 < SavesMax
      BY Parameters
    <3>3. \/ saves'[r] = saves[r] /\ phase'[r] = phase[r]
          \/ saves'[r] = 0
      BY <1>1, CrashEffect
    <3> QED BY <3>1, <3>2, <3>3
  <2>2. phase'[r] \in Ended \cup {"idle", "lost"} /\ open'[r] = FALSE
    BY <1>1, CrashEffect
  <2> QED BY <2>1, <2>2 DEF Holding, Ended
<1>2. CASE Tick \/ Boot \/ Cleanup
    BY <1>2 DEF Tick, Boot, Cleanup, clockVars, Places, Holding
<1> QED BY <1>1, <1>2

\* the bytes in order,
LEMMA WorldBytes ==
    ASSUME Facts, Places, Bytes, Tick \/ Crash \/ Boot \/ Cleanup
    PROVE  Bytes'
<1>1. CASE Crash
  <2> SUFFICES ASSUME NEW r \in Request
               PROVE  \A i \in 1..Len(out'[r]) : out'[r][i] = i
    BY <1>1, CrashEffect DEF Bytes
  <2>1. out'[r] = out[r] \/ out'[r] = <<>>
    BY <1>1, CrashEffect
  <2> QED BY <2>1, EmptySeq DEF Bytes
<1>2. CASE Tick \/ Boot \/ Cleanup
    BY <1>2 DEF Tick, Boot, Cleanup, wireVars, Bytes, Upcoming
<1> QED BY <1>1, <1>2

\* No row becomes completed without its request.
LEMMA WorldEntire ==
    ASSUME Facts, Places, Entire, Tick \/ Crash \/ Boot \/ Cleanup
    PROVE  Entire'
<1> SUFFICES ASSUME NEW r \in Request PROVE EntireAt(r)'
    BY DEF Entire, EntireAt
<1>0. EntireAt(r)
    BY DEF Entire, EntireAt
<1>1. CASE Crash
    BY <1>0, <1>1, CrashEffect DEF EntireAt, Ended, Survives
<1>2. CASE Tick \/ Boot \/ Cleanup
  <2>1. /\ phase' = phase /\ how' = how /\ mode' = mode /\ sent' = sent /\ out' = out
        /\ AtEnd(r, End)' = AtEnd(r, End)
    BY <1>2 DEF Tick, Boot, Cleanup, clockVars, wireVars, AtEnd, Upcoming, End
  <2>2. log'[r].status = "completed" => log[r].status = "completed"
    BY <1>2 DEF Tick, Boot, Cleanup, dbVars, NoRow, Facts, Records, Row
  <2> QED BY <1>0, <2>1, <2>2 DEF EntireAt
<1> QED BY <1>1, <1>2

\* no row where none was,
LEMMA WorldRows ==
    ASSUME Facts, Places, RowsStand, Tick \/ Crash \/ Boot \/ Cleanup
    PROVE  RowsStand'
<1> SUFFICES ASSUME NEW r \in Request PROVE RowsAt(r)'
    BY DEF RowsStand, RowsAt
<1>0. RowsAt(r)
    BY DEF RowsStand, RowsAt
<1>1. CASE Crash
    BY <1>0, <1>1, CrashEffect DEF RowsAt, Ended
<1>2. CASE Tick
    BY <1>0, <1>2 DEF RowsAt, Tick, txVars, dbVars
<1>3. CASE Boot \/ Cleanup
  <2>1. UNCHANGED <<phase, rollup>> /\ (log[r] = NoRow => log'[r] = NoRow)
    BY <1>3 DEF Boot, Cleanup, txVars, NoRow
  <2> QED BY <1>0, <2>1 DEF RowsAt
<1> QED BY <1>1, <1>2, <1>3

\* and the books.
LEMMA WorldBooks ==
    ASSUME Facts, Places, Books, Tick \/ Crash \/ Boot \/ Cleanup
    PROVE  Books'
<1>1. UNCHANGED <<daily, total>>
    BY DEF Tick, Crash, Boot, Cleanup, dbVars
<1>2. /\ Saved' = Saved /\ Rolled' = Rolled
      /\ \A q \in Saved : out'[q] = out[q]
      /\ \A q \in Request : seen'[q] \in {seen[q], total, Zero}
  <2>1. CASE Crash
    <3>1. \A q \in Request : \/ phase'[q] = phase[q] /\ rollup'[q] = rollup[q]
                             \/ phase'[q] = "lost" /\ ~Survives(q)
      BY <2>1, CrashEffect
    <3>2. Saved' = Saved /\ Rolled' = Rolled
      BY <3>1 DEF Saved, Rolled, Survives, Ended
    <3>3. \A q \in Saved : out'[q] = out[q]
      BY <2>1, CrashEffect DEF Saved, Survives, Ended
    <3>4. \A q \in Request : seen'[q] \in {seen[q], total, Zero}
      BY <2>1, CrashEffect
    <3> QED BY <3>2, <3>3, <3>4
  <2>2. CASE Tick \/ Boot \/ Cleanup
    BY <2>2 DEF Tick, Boot, Cleanup, wireVars, txVars, Saved, Rolled
  <2> QED BY <2>1, <2>2
<1>3. \A q \in Saved : Usage(q)' = Usage(q)
    BY <1>2 DEF Usage, Complete
<1>4. /\ \A q \in Saved : log'[q] = NoRow \/ log'[q].tokens = log[q].tokens
      /\ \A q \in Saved : log[q] = NoRow => log'[q] = NoRow
  <2>1. CASE Tick \/ Crash
    BY <2>1 DEF Tick, Crash, dbVars
  <2>2. CASE Boot
    <3> SUFFICES ASSUME NEW q \in Saved
                 PROVE  log'[q].tokens = log[q].tokens /\ (log[q] = NoRow => log'[q] = NoRow)
      OBVIOUS
    <3>1. q \in Request /\ log[q] \in Row
      BY DEF Saved, Facts, Records
    <3>2. \/ log'[q] = log[q]
          \/ log'[q] = [log[q] EXCEPT !.status = "terminated"] /\ log[q].status = "pending"
      BY <2>2, <3>1 DEF Boot
    <3> QED BY <3>1, <3>2 DEF Row, NoRow
  <2>3. CASE Cleanup
    BY <2>3 DEF Cleanup, Saved
  <2> QED BY <2>1, <2>2, <2>3
<1> QED BY <1>1, <1>2, <1>3, <1>4, Undisturbed
-----------------------------------------------------------------------------
(* The invariants.                                                          *)

Stream == Facts /\ Places /\ Bytes /\ Entire
Account == RowsStand /\ Books

\* The initial states satisfy both invariants.
LEMMA Inits == Init => Stream /\ Account
<1> SUFFICES ASSUME Init PROVE Stream /\ Account
    OBVIOUS
<1> USE DEF Init
<1>1. Facts
  <2>1. <<>> \in Seq(Item) /\ Zero \in Totals /\ NoRow \in Row
    BY EmptySeq DEF Zero, Totals, NoRow, Row, Statuses
  <2>2. Control
    BY Parameters DEF Control, Phase, Statuses
  <2>3. Wires
    BY <2>1, Parameters DEF Wires
  <2>4. Records
    BY <2>1 DEF Records
  <2> QED BY <2>2, <2>3, <2>4 DEF Facts
<1>2. Places
    BY Parameters DEF Places, Holding
<1>3. Bytes
    BY EmptySeq DEF Bytes
<1>4. Entire
    BY DEF Entire, NoRow
<1>5. RowsStand
    BY DEF RowsStand, Survives
<1>6. Books
  <2>1. Saved = {} /\ Rolled = {}
    BY DEF Saved, Rolled
  <2>2. Used = {} /\ UsedRolled = {}
    BY <2>1 DEF Used, UsedRolled, Spent
  <2>3. IsFiniteSet({}) /\ Cardinality({}) = 0
    BY FS_EmptySet
  <2> QED BY <2>1, <2>2, <2>3 DEF Books, Zero, Days
<1> QED BY <1>1, <1>2, <1>3, <1>4, <1>5, <1>6 DEF Stream, Account

\* The first invariant is inductive,
LEMMA StreamKept == Stream /\ [Next]_vars => Stream'
<1> SUFFICES ASSUME Stream, [Next]_vars PROVE Stream'
    OBVIOUS
<1> USE DEF Stream
<1>1. ASSUME NEW r \in Request, Step(r) \/ Environment(r) PROVE Stream'
  <2>1. Facts'
    BY <1>1, ControlKept, WiresKept, RecordsKept DEF Facts
  <2> QED BY <1>1, <2>1, PlacesKept, BytesKept, EntireKept
<1>2. CASE Tick \/ Crash \/ Boot \/ Cleanup
    BY <1>2, WorldFacts, WorldPlaces, WorldBytes, WorldEntire
<1>3. CASE UNCHANGED vars
  <2> USE <1>3 DEF vars, clockVars, wireVars, txVars, dbVars
  <2>1. Facts'
    BY DEF Facts, Control, Wires, Records
  <2>2. Places'
    BY DEF Places, Holding
  <2>3. Bytes' /\ Entire'
    BY DEF Bytes, Entire, Upcoming, AtEnd
  <2> QED BY <2>1, <2>2, <2>3
<1> QED BY <1>1, <1>2, <1>3 DEF Next

\* and so is the second beside it.
LEMMA AccountKept == Stream /\ Account /\ [Next]_vars => Account'
<1> SUFFICES ASSUME Stream, Account, [Next]_vars PROVE Account'
    OBVIOUS
<1> USE DEF Stream, Account
<1>1. ASSUME NEW r \in Request, Step(r) \/ Environment(r) PROVE Account'
    BY <1>1, RowsStandKept, BooksKept
<1>2. CASE Tick \/ Crash \/ Boot \/ Cleanup
    BY <1>2, WorldRows, WorldBooks
<1>3. CASE UNCHANGED vars
  <2> USE <1>3 DEF vars, clockVars, wireVars, txVars, dbVars
  <2>1. RowsStand'
    BY DEF RowsStand, Survives
  <2>2. Books'
    <3>1. Saved' = Saved /\ Rolled' = Rolled
      BY DEF Saved, Rolled
    <3>2. \A q \in Saved : Usage(q)' = Usage(q)
      BY DEF Usage, Complete
    <3> QED BY <3>1, <3>2, Undisturbed
  <2> QED BY <2>1, <2>2
<1> QED BY <1>1, <1>2, <1>3 DEF Next

\* The part of the invariant that is about responses,
THEOREM StreamAlways == Spec => []Stream
<1>1. Init => Stream
    BY Inits
<1> QED BY <1>1, StreamKept, PTL DEF Spec

\* and the part that is about rows and sums.
THEOREM AccountAlways == Spec => []Account
<1>1. Init => Stream /\ Account
    BY Inits
<1>2. Stream /\ Account /\ [Next]_vars => (Stream /\ Account)'
    BY StreamKept, AccountKept
<1>3. Spec => [](Stream /\ Account)
    BY <1>1, <1>2, PTL DEF Spec
<1> QED BY <1>3, PTL

-----------------------------------------------------------------------------
(* What follows.                                                            *)

\* All is of its type, and a response is open only while the coroutine that closes it has
\* not left it, or when it was abandoned before its iterator was started: nobody closes
\* it then (_do_dispatch, _stream_cleanup).
THEOREM ResponsesClosed == Spec => []ResponsesSound
<1>1. Stream => ResponsesSound
  <2> SUFFICES ASSUME Stream PROVE TypeOK /\ ResponseOwned
      BY DEF ResponsesSound
  <2>1. TypeOK
      BY DEF Stream, Facts, Control, Wires, Records, TypeOK, Phase, Row
  <2>2. ResponseOwned
      BY DEF Stream, Places, Holding, ResponseOwned
  <2> QED BY <2>1, <2>2
<1> QED BY <1>1, StreamAlways, PTL

\* Every chunk is passed on once and in order, through the prefix of the spool and its
\* queue, and a completed stream is complete (_SpooledStream, _stream_response).
THEOREM ChunksInOrder == Spec => []DeliveredInOrder
<1>1. Stream => DeliveredInOrder
  <2> SUFFICES ASSUME Stream, NEW r \in Request
               PROVE  /\ out[r] = [i \in 1..Len(out[r]) |-> i]
                      /\ log[r].status = "completed" => Len(out[r]) = sent[r]
      BY DEF DeliveredInOrder
  <2>1. out[r] \in Seq(Item) /\ \A i \in 1..Len(out[r]) : out[r][i] = i
      BY DEF Stream, Facts, Wires, Bytes
  <2>2. out[r] = [i \in DOMAIN out[r] |-> out[r][i]] /\ DOMAIN out[r] = 1..Len(out[r])
      BY <2>1, LenProperties
  <2>3. out[r] = [i \in 1..Len(out[r]) |-> i]
      BY <2>1, <2>2
  <2> QED BY <2>3 DEF Stream, Entire
<1> QED BY <1>1, StreamAlways, PTL

\* Whatever saves fail and are tried again, however often the process is killed and
\* whatever the cleanup deletes, a request is in the rollups once when it has been saved
\* and not before, unless its rollup failed or its row was gone; the totals of the token
\* do not run ahead (record_usage, _persist_stream_usage, _log_request).
THEOREM RequestsAccounted == Spec => []AccountedOnce
<1>1. Stream /\ Account => AccountedOnce
  <2> SUFFICES ASSUME Stream, Account PROVE AccountedOnce
      OBVIOUS
  <2>1. \A R : R \subseteq Request => UNION {{r} \X (1..Usage(r)) : r \in R} = Spent(R, usage)
    <3> SUFFICES ASSUME NEW R, R \subseteq Request
                 PROVE  UNION {{r} \X (1..Usage(r)) : r \in R} = Spent(R, usage)
        OBVIOUS
    <3>1. \A q \in R : usage[q] = Usage(q)
        BY UsageAt
    <3>2. \A x : x \in Spent(R, usage) <=> \E q \in R : x \in {q} \X (1..usage[q])
        BY DEF Spent
    <3>3. \A x : x \in UNION {{r} \X (1..Usage(r)) : r \in R}
                   <=> \E q \in R : x \in {q} \X (1..Usage(q))
        OBVIOUS
    <3> QED BY <3>1, <3>2, <3>3
  <2>2. Saved \subseteq Request /\ Saved \cap Rolled \subseteq Request
      BY DEF Saved
  <2>3. /\ UNION {{r} \X (1..Usage(r)) : r \in Saved} = Used
        /\ UNION {{r} \X (1..Usage(r)) : r \in Saved \cap Rolled} = UsedRolled
      BY <2>1, <2>2 DEF Used, UsedRolled
  <2> QED BY <2>3 DEF Account, Books, AccountedOnce, Saved, Rolled
<1> QED BY <1>1, StreamAlways, AccountAlways, PTL
=============================================================================
