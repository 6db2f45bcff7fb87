------------------------------- MODULE Nodes -------------------------------
(***************************************************************************)
(* Requests over the outbound nodes of a group (services/network.py), the    *)
(* background task that revives disabled nodes (tasks/node_resurrector.py)   *)
(* and the operators' edits (api/admin/nodes.py).                            *)
(*                                                                          *)
(* Each of them works in a database session of its own: it loads the node    *)
(* rows, changes its copies while it waits for the network, and at the end   *)
(* writes the columns it has changed.                                        *)
(***************************************************************************)
EXTENDS NodeGroups, Sequences

CONSTANTS
    Request,
    Reviver,         \* run_node_resurrector, in the process that holds its lease
    Inspector,       \* an operator's probe of one node
    Latency,         \* latencies the instance tells apart
    MaxProxyFailures, NetworkMaxAttempts,
    Alpha, Beta, Gamma,   \* node_rank_alpha, _beta, _gamma
    Start,           \* the default group's first list
    Budgets          \* how many edits a behaviour has room for, among which sessions

Prober == {Reviver, Inspector}
Session == Request \cup Prober

ASSUME NodesConstants ==
    /\ Reviver # Inspector /\ {Reviver, Inspector} \cap Request = {}
    /\ Latency \subseteq Nat \ {0}
    /\ MaxProxyFailures \in Nat \ {0} /\ NetworkMaxAttempts \in Nat \ {0}
    /\ {Alpha, Beta, Gamma} \subseteq Nat
    /\ Budgets \subseteq [edits : Nat, sessions : SUBSET Session]
    /\ Start \in Lists /\ {m.source : m \in Start} \subseteq {System, NoGroup}
    /\ IsFiniteSet(Node)

\* latency_ewma is 0 as long as nothing has been measured.
NodeRowType == [enabled : BOOLEAN, status : {"active", "disabled"},
                failed : 0..MaxProxyFailures, ewma : Latency \cup {0}]
Direct == 0

NewRows == [n \in Node |-> [enabled |-> TRUE, status |-> "active", failed |-> 0, ewma |-> 0]]

VARIABLES
    node,      \* node[n]: the committed row
    reaches,   \* reaches[n]: whether a connection over n comes about
    base,      \* base[s]: the rows as session s loaded them
    view,      \* view[s]: its copies of them
    phase,     \* phase[s]
    todo,      \* todo[s]: the routes still to try, or the nodes still to probe
    strict,    \* strict[r]: whether r inspects the response (retry_response)
    kept,      \* kept[r]: whether a blocked response has been kept (last_http)
    open,      \* open[r]: whether a response is open
    faulty,    \* faulty[r]: nodes over which r had a connection fault
    edits      \* edits left

session == <<base, view, phase, todo, strict, kept, open, faulty>>
vars == <<groupVars, node, reaches, session, edits>>

-----------------------------------------------------------------------------
(* Ranking and the changes of a row.                                        *)

\* rank_nodes' score, times the threshold; the part it bounds by the threshold is
\* never above it here.
Score(r) == MaxProxyFailures * (Alpha * r.ewma + Beta * r.failed)
            + Gamma * r.failed

\* Pinned nodes first, then the score, then the id (all weights are 1 here).
Before(pinned) ==
    [p \in Node \X Node |->
        LET m == p[1]  n == p[2]
        IN  \/ m \in pinned /\ n \notin pinned
            \/ /\ (m \in pinned) = (n \in pinned)
               /\ \/ Score(node[m]) < Score(node[n])
                  \/ Score(node[m]) = Score(node[n]) /\ m < n]

Usable(g) == {n \in pool : n \in Collect[g].nodes /\ node[n].enabled /\ node[n].status = "active"}

\* The ways to order a set of nodes.
Orders(S) ==
    {s \in [1..Cardinality(S) -> S] : \A i, j \in 1..Cardinality(S) : i # j => s[i] # s[j]}

\* group_routes: the best nodes in their order, as many as the attempts allow (the
\* order is total, so one list qualifies); without a usable node, direct.
Routes(g) ==
    LET usable == Usable(g)
        before == Before(Collect[g].pinned)
        tries  == IF Cardinality(usable) < NetworkMaxAttempts THEN Cardinality(usable)
                  ELSE NetworkMaxAttempts
        ranked == {s \in Orders(usable) :
                      \A i, j \in 1..Cardinality(usable) : i < j => before[<<s[i], s[j]>>]}
    IN  IF usable = {} THEN {<<Direct>>} ELSE {SubSeq(s, 1, tries) : s \in ranked}

Reward(r) == [r EXCEPT !.failed = 0]

Penalize(r) ==
    LET failed == IF r.failed < MaxProxyFailures THEN r.failed + 1 ELSE MaxProxyFailures
    IN  [r EXCEPT !.failed = failed,
                  !.status = IF failed = MaxProxyFailures THEN "disabled" ELSE r.status]

\* update_node_latency moves the average towards the sample by a fifth; on the
\* instance's few latencies it stays or gets there.
Measured(r, sample) ==
    {[r EXCEPT !.ewma = e] : e \in IF r.ewma = 0 THEN {sample} ELSE {r.ewma, sample}}

-----------------------------------------------------------------------------
Init ==
    /\ GroupsInit(Start)
    /\ node = NewRows
    /\ reaches \in [Node -> BOOLEAN]
    /\ base = [s \in Session |-> node] /\ view = base
    /\ todo = [s \in Session |-> <<>>]
    /\ strict \in [Request -> BOOLEAN]
    /\ kept = [r \in Request |-> FALSE]
    /\ open = [r \in Request |-> FALSE]
    /\ faulty = [r \in Request |-> {}]
    /\ \E b \in Budgets :
          /\ edits = b.edits
          /\ phase = [s \in Session |-> IF s \in b.sessions THEN "idle" ELSE "ended"]

Leaves(s) ==
    /\ base' = [base EXCEPT ![s] = NewRows]
    /\ view' = [view EXCEPT ![s] = NewRows]

RequestGone(r) ==
    /\ Leaves(r)
    /\ todo' = [todo EXCEPT ![r] = <<>>]
    /\ kept' = [kept EXCEPT ![r] = FALSE]
    /\ open' = [open EXCEPT ![r] = FALSE]
    /\ faulty' = [faulty EXCEPT ![r] = {}]

Moves(s, from, next) == phase[s] = from /\ phase' = [phase EXCEPT ![s] = next]

Loads(s) ==
    /\ base' = [base EXCEPT ![s] = node]
    /\ view' = [view EXCEPT ![s] = node]

-----------------------------------------------------------------------------
(* execute_request.                                                         *)

Resolve(r, p) ==
    /\ Moves(r, "idle", "trying")
    /\ Loads(r)
    /\ \E routes \in Routes(GroupOf(p)) : todo' = [todo EXCEPT ![r] = routes]
    /\ UNCHANGED <<groupVars, node, reaches, strict, kept, open, faulty, edits>>

Via(r) == Head(todo[r])

Changes(r, rows) ==
    IF Via(r) = Direct THEN UNCHANGED view
    ELSE \E row \in rows : view' = [view EXCEPT ![r][Via(r)] = row]

\* Any HTTP status: the node has done its work.  A caller that does not look at
\* the response takes it over at once.
HeadersArrive(r) ==
    /\ todo[r] # <<>>
    /\ Via(r) # Direct => reaches[Via(r)]
    /\ Moves(r, "trying", IF strict[r] THEN "reading" ELSE "owner")
    /\ \E sample \in Latency : Changes(r, Measured(Reward(view[r][Via(r)]), sample))
    /\ open' = [open EXCEPT ![r] = TRUE]
    /\ UNCHANGED <<groupVars, node, reaches, base, todo, strict, kept, faulty, edits>>

\* After the last route: the response that was kept, or NetworkExhausted.
NextRoute(r) ==
    /\ todo' = [todo EXCEPT ![r] = Tail(todo[r])]
    /\ phase' = [phase EXCEPT ![r] = IF Len(todo[r]) > 1 THEN "trying"
                                    ELSE IF kept'[r] THEN "owner" ELSE "exhausted"]

\* A connection fault, a timeout of the attempt, or one of either while the body
\* of an inspected response is read.
Fault(r) ==
    /\ phase[r] \in {"trying", "reading"}
    /\ Changes(r, {Penalize(view[r][Via(r)])})
    /\ faulty' = [faulty EXCEPT ![r] = @ \cup {Via(r)}]
    /\ open' = [open EXCEPT ![r] = FALSE]
    /\ UNCHANGED kept
    /\ NextRoute(r)
    /\ UNCHANGED <<groupVars, node, reaches, base, strict, edits>>

\* The response has been read: a block or a 5xx is kept and the next route is tried.
Blocked(r) ==
    /\ phase[r] = "reading"
    /\ kept' = [kept EXCEPT ![r] = TRUE]
    /\ open' = [open EXCEPT ![r] = FALSE]
    /\ NextRoute(r)
    /\ UNCHANGED <<groupVars, node, reaches, base, view, strict, faulty, edits>>

Accepted(r) ==
    /\ Moves(r, "reading", "owner")
    /\ UNCHANGED <<groupVars, node, reaches, base, view, todo, strict, kept, open, faulty, edits>>

\* Mutated form: a full pool is taken for a fault of the node.
PoolFullPenalizes(r) ==
    /\ Moves(r, "trying", IF kept[r] THEN "owner" ELSE "exhausted")
    /\ Changes(r, {Penalize(view[r][Via(r)])})
    /\ UNCHANGED <<groupVars, node, reaches, base, todo, strict, kept, open, faulty, edits>>

\* No connection of the local pool is free: no other route is tried.
PoolFull(r) ==
    /\ Moves(r, "trying", IF kept[r] THEN "owner" ELSE "exhausted")
    /\ UNCHANGED <<groupVars, node, reaches, base, view, todo, strict, kept, open, faulty, edits>>

\* Mutated form: the response being read is left open.
DeadlineLeaves(r) ==
    /\ phase[r] \in {"trying", "reading"}
    /\ phase' = [phase EXCEPT ![r] = "exhausted"]
    /\ UNCHANGED <<groupVars, node, reaches, base, view, todo, strict, kept, open, faulty, edits>>

DeadlinePasses(r) ==
    /\ phase[r] \in {"trying", "reading"}
    /\ phase' = [phase EXCEPT ![r] = "exhausted"]
    /\ open' = [open EXCEPT ![r] = FALSE]
    /\ UNCHANGED <<groupVars, node, reaches, base, view, todo, strict, kept, faulty, edits>>

\* The client is gone; the session is rolled back.
Cancelled(r) ==
    /\ phase[r] \in {"trying", "reading"}
    /\ phase' = [phase EXCEPT ![r] = "ended"]
    /\ RequestGone(r)
    /\ UNCHANGED <<groupVars, node, reaches, strict, edits>>

-----------------------------------------------------------------------------
(* The end of a session.                                                    *)

\* Mutated form: the whole row is written.
WrittenWhole(n, s) == view[s][n]

\* Only the columns whose value differs from the loaded one.
Written(n, s) ==
    [enabled |-> node[n].enabled,
     status  |-> IF view[s][n].status # base[s][n].status THEN view[s][n].status ELSE node[n].status,
     failed  |-> IF view[s][n].failed # base[s][n].failed THEN view[s][n].failed ELSE node[n].failed,
     ewma    |-> IF view[s][n].ewma # base[s][n].ewma THEN view[s][n].ewma ELSE node[n].ewma]

\* An UPDATE of a row that is gone fails, and the transaction with it.
Commits(s) ==
    node' = IF \A n \in Node : view[s][n] # base[s][n] => n \in pool
            THEN [n \in Node |-> Written(n, s)]
            ELSE node

EndRequest(r) ==
    /\ phase[r] \in {"owner", "exhausted"}
    /\ phase' = [phase EXCEPT ![r] = "ended"]
    /\ Commits(r)
    /\ RequestGone(r)              \* the owner closes what it took over
    /\ UNCHANGED <<groupVars, reaches, strict, edits>>

-----------------------------------------------------------------------------
(* Probes.                                                                  *)

\* Mutated form: the nodes that are still serving are probed.
ReviveActive ==
    /\ Moves(Reviver, "idle", "probing")
    /\ Loads(Reviver)
    /\ \E order \in Orders({n \in pool : node[n].enabled /\ node[n].status = "active"}) :
          todo' = [todo EXCEPT ![Reviver] = order]
    /\ UNCHANGED <<groupVars, node, reaches, strict, kept, open, faulty, edits>>

Revive ==
    /\ Moves(Reviver, "idle", "probing")
    /\ \E n \in pool : node[n].enabled /\ node[n].status = "disabled"
    /\ Loads(Reviver)
    /\ \E order \in Orders({n \in pool : node[n].enabled /\ node[n].status = "disabled"}) :
          todo' = [todo EXCEPT ![Reviver] = order]
    /\ UNCHANGED <<groupVars, node, reaches, strict, kept, open, faulty, edits>>

Inspect(n) ==
    /\ n \in pool
    /\ Moves(Inspector, "idle", "probing")
    /\ Loads(Inspector)
    /\ todo' = [todo EXCEPT ![Inspector] = <<n>>]
    /\ UNCHANGED <<groupVars, node, reaches, strict, kept, open, faulty, edits>>

\* Whatever the outcome, the time it took is taken for a latency.
Probe(s) ==
    /\ phase[s] = "probing" /\ todo[s] # <<>>
    /\ \E sample \in Latency : \E row \in Measured(view[s][Via(s)], sample) :
          view' = [view EXCEPT ![s][Via(s)] =
                IF reaches[Via(s)] THEN [row EXCEPT !.status = "active", !.failed = 0] ELSE row]
    /\ todo' = [todo EXCEPT ![s] = Tail(@)]
    /\ UNCHANGED <<groupVars, node, reaches, base, phase, strict, kept, open, faulty, edits>>

\* One commit after the last probe.
EndProbes(s) ==
    /\ todo[s] = <<>>
    /\ Moves(s, "probing", IF s = Reviver THEN "idle" ELSE "ended")
    /\ Commits(s) /\ Leaves(s)
    /\ UNCHANGED <<groupVars, reaches, todo, strict, kept, open, faulty, edits>>

-----------------------------------------------------------------------------
(* Operators and the network.                                               *)

Enable(n) ==
    node' = [node EXCEPT ![n] = [@ EXCEPT !.enabled = TRUE, !.status = "active", !.failed = 0]]

UpdateNode(n) ==
    /\ n \in pool
    /\ edits > 0 /\ edits' = edits - 1
    /\ \/ Enable(n)
       \/ node' = [node EXCEPT ![n].enabled = FALSE]
       \/ node' = [node EXCEPT ![n].status = "disabled"]
    /\ UNCHANGED <<groupVars, reaches, session>>

\* A node that takes the id of a deleted one starts with a row of its own.
NewNode(n) ==
    /\ edits > 0 /\ edits' = edits - 1
    /\ AddNode(n)
    /\ node' = [node EXCEPT ![n] = NewRows[n]]
    /\ UNCHANGED <<reaches, session>>

Edit ==
    /\ edits > 0 /\ edits' = edits - 1
    /\ EditGroups
    /\ UNCHANGED <<node, reaches, session>>

LinkChanges(n) ==
    /\ reaches' = [reaches EXCEPT ![n] = ~@]
    /\ UNCHANGED <<groupVars, node, session, edits>>

RequestStep(r) ==
    \/ \E p \in Provider : Resolve(r, p)
    \/ HeadersArrive(r) \/ Fault(r) \/ Blocked(r) \/ Accepted(r) \/ PoolFull(r)
    \/ DeadlinePasses(r) \/ Cancelled(r) \/ EndRequest(r)

Next ==
    \/ \E r \in Request : RequestStep(r)
    \/ Revive
    \/ \E n \in Node : Inspect(n) \/ UpdateNode(n) \/ NewNode(n) \/ LinkChanges(n)
    \/ \E s \in Prober : Probe(s) \/ EndProbes(s)
    \/ Edit

\* The task manager starts the task again and again, and a probe ends by its timeout.
Fairness == /\ WF_vars(Revive)
            /\ WF_vars(Probe(Reviver)) /\ WF_vars(EndProbes(Reviver))

Spec == Init /\ [][Next]_vars
FairSpec == Spec /\ Fairness

-----------------------------------------------------------------------------
TypeOK ==
    /\ enforced \in BOOLEAN /\ pool \subseteq Node /\ groups \subseteq Group
    /\ members \in [Group -> SUBSET Row]
    /\ uses \in [Provider -> Group \cup {NoGroup}]
    /\ node \in [Node -> NodeRowType]
    /\ reaches \in [Node -> BOOLEAN]
    /\ base \in [Session -> [Node -> NodeRowType]] /\ view \in [Session -> [Node -> NodeRowType]]
    /\ phase \in [Session -> {"idle", "trying", "reading", "owner", "exhausted",
                             "probing", "ended"}]
    /\ todo \in [Session -> Seq(Node \cup {Direct})]
    /\ strict \in [Request -> BOOLEAN] /\ kept \in [Request -> BOOLEAN]
    /\ open \in [Request -> BOOLEAN]
    /\ faulty \in [Request -> SUBSET (Node \cup {Direct})]
    /\ edits \in Nat

\* A response stays open only while it is read or belongs to the caller: no fault,
\* deadline or cancellation leaves a connection behind (network.py:348).
ResponseOwned ==
    \A r \in Request : open[r] => phase[r] \in {"reading", "owner"}

\* The groups are sound (ExpansionComplete, RowsRefer of NodeGroups; api/admin/nodes.py,
\* services/routing.py), and all is of its type.
GroupsSound == TypeOK /\ ExpansionComplete /\ RowsRefer

\* Only a connection fault of a request counts against a node, whatever the request
\* saw of other nodes: not a full pool, the deadline or a client that went away.
OnlyFaultsCount ==
    [][\A r \in Request, n \in Node :
         EndRequest(r) /\ (node'[n].failed > node[n].failed \/ node'[n].status # node[n].status)
           => n \in faulty[r]]_vars

Ends(s) == IF s \in Request THEN EndRequest(s) ELSE EndProbes(s)

\* What an operator does to a node's switch survives the sessions in flight, which
\* loaded the row before.
SwitchSurvives ==
    [][\A s \in Session : Ends(s) => \A n \in Node : node'[n].enabled = node[n].enabled]_vars

\* A node that stays reachable is in service again sooner or later, unless it is
\* switched off or deleted.
Revived ==
    \A n \in Node :
        <>[](reaches[n] /\ node[n].enabled /\ n \in pool) => []<>(node[n].status = "active")
=============================================================================
