----------------------------- MODULE NodesProofs -----------------------------
(***************************************************************************)
(* Proofs about Nodes: references, responses, penalties and switches, for   *)
(* any number of nodes, groups and requests.                                *)
(***************************************************************************)
EXTENDS Nodes, FiniteSetTheorems, SequenceTheorems, WellFoundedInduction, TLAPS

USE DEF Direct

\* What the proofs need to know of the constants.
LEMMA Parameters ==
    /\ Request \subseteq Session /\ Prober \subseteq Session /\ Prober \cap Request = {}
    /\ Reviver \in Prober /\ Inspector \in Prober
    /\ Node \subseteq Nat \ {0} /\ IsFiniteSet(Node)
    /\ MaxProxyFailures \in Nat \ {0} /\ NetworkMaxAttempts \in Nat \ {0}
BY GroupConstants, NodesConstants DEF Session, Prober

-----------------------------------------------------------------------------
(* The groups.                                                              *)

GroupsOK ==
    /\ enforced \in BOOLEAN /\ pool \subseteq Node /\ groups \subseteq Group
    /\ members \in [Group -> SUBSET Row]
    /\ uses \in [Provider -> Group \cup {NoGroup}]

\* Every edit of an operator leaves rows that refer to what exists, if the database
\* enforces foreign keys.
LEMMA EditsRefer ==
    ASSUME GroupsOK, RowsRefer, EditGroups
    PROVE  GroupsOK' /\ RowsRefer'
<1>1. ASSUME NEW g \in Group, NEW list \in Lists, CreateGroup(g, list) \/ SetMembers(g, list)
      PROVE  GroupsOK' /\ RowsRefer'
  <2>1. /\ Valid(g, list) /\ members' = [members EXCEPT ![g] = list]
        /\ groups \subseteq groups' /\ groups' \subseteq groups \cup {g} /\ g \in groups'
        /\ UNCHANGED <<enforced, pool, uses>>
    BY <1>1 DEF CreateGroup, SetMembers
  <2>2. list \in SUBSET Row
    BY GroupConstants
  <2>3. GroupsOK'
    BY <2>1, <2>2 DEF GroupsOK
  <2>4. \A m \in list : m.node \in pool \cup {0} /\ m.source \in groups \cup {NoGroup}
    BY <2>1 DEF Valid
  <2>5. RowsRefer'
    BY <2>1, <2>4 DEF GroupsOK, RowsRefer
  <2> QED BY <2>3, <2>5
<1>2. ASSUME NEW g \in Group, DeleteGroup(g)
      PROVE  GroupsOK' /\ RowsRefer'
  BY <1>2 DEF DeleteGroup, GroupsOK, RowsRefer
<1>3. ASSUME NEW p \in Provider, NEW g \in Group \cup {NoGroup}, AssignGroup(p, g)
      PROVE  GroupsOK' /\ RowsRefer'
  BY <1>3 DEF AssignGroup, GroupsOK, RowsRefer
<1>4. ASSUME NEW n \in Node, DeleteNode(n)
      PROVE  GroupsOK' /\ RowsRefer'
  BY <1>4 DEF DeleteNode, GroupsOK, RowsRefer
<1> QED BY <1>1, <1>2, <1>3, <1>4 DEF EditGroups

-----------------------------------------------------------------------------
(* Expansion.  What _collect_group finds for g below a path is what the groups *)
(* have that can be reached from g around the path.                          *)

Reach(g, path) ==
    {h \in Group : \A S \in SUBSET Group :
        g \in S /\ (\A s \in S : Sources(s) \ path \subseteq S) => h \in S}

NodesOf(rows) == {m.node : m \in rows}
PinnedOf(rows) == {m.node : m \in {m \in rows : m.pinned}}
FoundIn(rows) == [nodes |-> NodesOf(rows), pinned |-> PinnedOf(rows)]
Found(hs) == FoundIn(UNION {Own(h) : h \in hs})

FoundFrom(g, path) == Found(IF g \in path \/ g \notin groups THEN {} ELSE Reach(g, path))

\* A group reaches itself and what its sources reach without coming back to it.
LEMMA ReachStep ==
    ASSUME GroupsOK, NEW g \in groups, NEW path \in SUBSET Group
    PROVE  Reach(g, path) =
             {g} \cup UNION {Reach(s, path \cup {g}) : s \in Sources(g) \ (path \cup {g})}
<1> DEFINE sources == Sources(g) \ (path \cup {g})
           beyond == UNION {Reach(s, path \cup {g}) : s \in sources}
<1>1. g \in Group /\ \A h \in Group : Sources(h) \subseteq Group
  BY DEF GroupsOK, Sources
<1>2. ASSUME NEW h \in Reach(g, path) PROVE h \in {g} \cup beyond
  <2>1. {g} \cup beyond \in SUBSET Group
    BY <1>1 DEF Reach
  <2>2. \A s \in sources : s \in Reach(s, path \cup {g})
    BY <1>1 DEF Reach
  <2>3. ASSUME NEW s \in sources, NEW t \in Reach(s, path \cup {g}), NEW u \in Sources(t) \ path
        PROVE  u \in {g} \cup beyond
    <3>1. CASE u = g
      BY <3>1
    <3>2. CASE u # g
      <4>1. t \in Group /\ u \in Group
        BY <1>1 DEF Reach
      <4>2. ASSUME NEW S \in SUBSET Group, s \in S,
                   \A v \in S : Sources(v) \ (path \cup {g}) \subseteq S
            PROVE  u \in S
        BY <3>2, <4>2 DEF Reach
      <4>3. u \in Reach(s, path \cup {g})
        BY <4>1, <4>2 DEF Reach
      <4> QED BY <4>3
    <3> QED BY <3>1, <3>2
  <2>4. \A s \in {g} \cup beyond : Sources(s) \ path \subseteq {g} \cup beyond
    <3>1. Sources(g) \ path \subseteq {g} \cup beyond
      BY <2>2
    <3> QED BY <2>3, <3>1
  <2> QED BY <2>1, <2>4 DEF Reach
<1>3. g \in Reach(g, path)
  BY <1>1 DEF Reach
<1>4. ASSUME NEW s \in sources, NEW h \in Reach(s, path \cup {g}) PROVE h \in Reach(g, path)
  <2>1. h \in Group
    BY DEF Reach
  <2>2. ASSUME NEW S \in SUBSET Group, g \in S, \A v \in S : Sources(v) \ path \subseteq S
        PROVE  h \in S
    <3>1. s \in S /\ \A v \in S : Sources(v) \ (path \cup {g}) \subseteq S
      BY <2>2
    <3> QED BY <3>1 DEF Reach
  <2> QED BY <2>1, <2>2 DEF Reach
<1> QED BY <1>2, <1>3, <1>4

\* So FoundFrom satisfies the equation of _collect_group.
LEMMA FoundFromCollects ==
    ASSUME GroupsOK, NEW g \in Group, NEW path \in SUBSET Group,
           NEW from, \A s \in Sources(g) : from[<<s, path \cup {g}>>] = FoundFrom(s, path \cup {g})
    PROVE  CollectGroup(from, g, path) = FoundFrom(g, path)
<1>1. CASE g \in path \/ g \notin groups
  BY <1>1, ZenonT(60) DEF CollectGroup, FoundFrom, Found, FoundIn, NodesOf, PinnedOf
<1>2. CASE g \notin path /\ g \in groups
  <2> DEFINE below == {FoundFrom(s, path \cup {g}) : s \in Sources(g)}
             rowsOf(s) == IF s \in path \cup {g} THEN {}
                          ELSE UNION {Own(h) : h \in Reach(s, path \cup {g})}
             inherited == UNION {rowsOf(s) : s \in Sources(g)}
  <2>1. UNION {Own(h) : h \in Reach(g, path)} = Own(g) \cup inherited
    BY <1>2, ReachStep
  <2>2. FoundFrom(g, path) = FoundIn(Own(g) \cup inherited)
    BY <1>2, <2>1 DEF FoundFrom, Found
  <2>3. CollectGroup(from, g, path) =
            [nodes  |-> NodesOf(Own(g)) \cup UNION {i.nodes : i \in below},
             pinned |-> PinnedOf(Own(g)) \cup UNION {i.pinned : i \in below}]
    <3>1. {from[<<s, path \cup {g}>>] : s \in Sources(g)} = below
      OBVIOUS
    <3> HIDE DEF below
    <3> QED BY <1>2, <3>1 DEF CollectGroup, NodesOf, PinnedOf
  <2>4. \A s \in Sources(g) : FoundFrom(s, path \cup {g}) = FoundIn(rowsOf(s))
    BY DEF FoundFrom, Found, Sources
  <2> HIDE DEF rowsOf
  <2>5. below = {FoundIn(rowsOf(s)) : s \in Sources(g)}
    BY <2>4
  <2> HIDE DEF below
  <2>6. \A rows : FoundIn(rows).nodes = NodesOf(rows) /\ FoundIn(rows).pinned = PinnedOf(rows)
    BY DEF FoundIn
  <2>7. UNION {i.nodes : i \in below} = NodesOf(inherited)
    <3>1. UNION {i.nodes : i \in below} = UNION {NodesOf(rowsOf(s)) : s \in Sources(g)}
      BY <2>5, <2>6
    <3> QED BY <3>1 DEF NodesOf
  <2>8. UNION {i.pinned : i \in below} = PinnedOf(inherited)
    <3>1. UNION {i.pinned : i \in below} = UNION {PinnedOf(rowsOf(s)) : s \in Sources(g)}
      BY <2>5, <2>6
    <3> QED BY <3>1 DEF PinnedOf
  <2> HIDE DEF inherited
  <2>9. /\ NodesOf(Own(g) \cup inherited) = NodesOf(Own(g)) \cup NodesOf(inherited)
        /\ PinnedOf(Own(g) \cup inherited) = PinnedOf(Own(g)) \cup PinnedOf(inherited)
    BY DEF NodesOf, PinnedOf
  <2> QED BY <2>2, <2>3, <2>7, <2>8, <2>9 DEF FoundIn
<1> QED BY <1>1, <1>2

\* The recursion has a solution, and it is FoundFrom: two that differ would differ at
\* a longest path.
LEMMA Collects ==
    ASSUME GroupsOK
    PROVE  Collect = [g \in Group |-> FoundFrom(g, {})]
<1> DEFINE Places == Group \X SUBSET Group
           Solves(f) == f = [at \in Places |-> CollectGroup(f, at[1], at[2])]
           found == [at \in Places |-> FoundFrom(at[1], at[2])]
           from == CHOOSE f : Solves(f)
<1>1. \A g \in Group : Sources(g) \subseteq Group
  BY DEF GroupsOK, Sources
<1>2. ASSUME NEW at \in Places PROVE CollectGroup(found, at[1], at[2]) = FoundFrom(at[1], at[2])
  <2>1. at[1] \in Group /\ at[2] \in SUBSET Group
    OBVIOUS
  <2>2. \A s \in Sources(at[1]) : found[<<s, at[2] \cup {at[1]}>>] = FoundFrom(s, at[2] \cup {at[1]})
    BY <1>1, <2>1
  <2> HIDE DEF found
  <2> QED BY <2>1, <2>2, FoundFromCollects
<1>3. Solves(found)
  BY <1>2
<1>4. Solves(from)
  BY <1>3
<1>5. \A g \in Group, path \in SUBSET Group : from[<<g, path>>] = CollectGroup(from, g, path)
  BY <1>4
<1>6. \A g \in Group, path \in SUBSET Group : from[<<g, path>>] = FoundFrom(g, path)
  <2> DEFINE Differ == {rest \in SUBSET Group :
                          \E g \in Group : from[<<g, Group \ rest>>] # FoundFrom(g, Group \ rest)}
  <2>1. ASSUME Differ # {} PROVE FALSE
    <3>1. PICK rest \in Differ : \A r \in Differ : ~(r \subseteq rest /\ r # rest)
      <4>1. IsWellFoundedOn(StrictSubsetOrdering(Group), SUBSET Group)
        BY FS_StrictSubsetOrderingWellFounded, FS_FiniteSubsetsOfFinite, GroupConstants
      <4>2. PICK rest \in Differ : \A r \in Differ : <<r, rest>> \notin StrictSubsetOrdering(Group)
        BY <2>1, <4>1, WFMin
      <4> QED BY <4>2 DEF StrictSubsetOrdering
    <3>2. PICK g \in Group : from[<<g, Group \ rest>>] # FoundFrom(g, Group \ rest)
      OBVIOUS
    <3> DEFINE path == Group \ rest
    <3>3. CASE g \in path
      <4>1. CollectGroup(from, g, path) = FoundFrom(g, path)
        BY <3>3 DEF CollectGroup, FoundFrom, Found, FoundIn, NodesOf, PinnedOf
      <4> HIDE DEF from
      <4> QED BY <1>5, <3>2, <4>1
    <3>4. CASE g \notin path
      <4>1. rest \ {g} \notin Differ /\ rest \ {g} \in SUBSET Group
        BY <3>1, <3>4
      <4>2. Group \ (rest \ {g}) = path \cup {g}
        OBVIOUS
      <4>3. \A s \in Group : from[<<s, path \cup {g}>>] = FoundFrom(s, path \cup {g})
        BY <4>1, <4>2
      <4> HIDE DEF path, from
      <4>4. CollectGroup(from, g, path) = FoundFrom(g, path)
        BY <1>1, <4>3, FoundFromCollects DEF path
      <4> QED BY <1>5, <3>2, <4>4 DEF path
    <3> QED BY <3>3, <3>4
  <2>2. ASSUME NEW g \in Group, NEW path \in SUBSET Group
        PROVE  from[<<g, path>>] = FoundFrom(g, path)
    <3>1. Group \ path \notin Differ /\ Group \ path \in SUBSET Group
      BY <2>1
    <3>2. Group \ (Group \ path) = path
      OBVIOUS
    <3> HIDE DEF from
    <3> QED BY <3>1, <3>2
  <2> QED BY <2>2
<1>7. Collect = [g \in Group |-> from[<<g, {}>>]]
  BY DEF Collect
<1> HIDE DEF from
<1> QED BY <1>6, <1>7

\* The expansion of a group finds every node below it, and all that pins it.
LEMMA ExpansionFinds == GroupsOK => ExpansionComplete
<1> SUFFICES ASSUME GroupsOK, NEW g \in groups
             PROVE  LET below == UNION {members[h] : h \in Inherited(g) \cap groups}
                        rows  == {m \in below : m.node \in pool}
                    IN  Collect[g] = [nodes  |-> {m.node : m \in rows},
                                      pinned |-> {m.node : m \in {m \in rows : m.pinned}}]
  BY DEF ExpansionComplete
<1>1. g \in Group /\ groups \in SUBSET Group /\ \A s \in groups : Sources(s) \subseteq groups
  BY DEF GroupsOK, Sources
<1>2. Inherited(g) = Reach(g, {})
  BY DEF Inherited, Reach
<1>3. Inherited(g) \cap groups = Inherited(g)
  BY <1>1 DEF Inherited
<1>4. Collect[g] = Found(Reach(g, {}))
  BY <1>1, Collects DEF FoundFrom
<1>5. {m \in UNION {members[h] : h \in Reach(g, {})} : m.node \in pool}
          = UNION {Own(h) : h \in Reach(g, {})}
  BY DEF Own
<1> QED BY <1>2, <1>3, <1>4, <1>5 DEF Found, FoundIn, NodesOf, PinnedOf

-----------------------------------------------------------------------------
(* The inductive invariant.                                                 *)

\* Who is trying or reading has a route to do it over.
RouteInHand ==
    \A r \in Request : phase[r] \in {"trying", "reading"} => todo[r] # <<>>

\* A request's copy of a node over which it had no fault differs from what it loaded
\* by a count that is reset, and not in its status.
FaultlessCopies ==
    \A r \in Request : \A n \in Node \ faulty[r] :
        /\ view[r][n].status = base[r][n].status
        /\ view[r][n].failed \in {base[r][n].failed, 0}

IInv == TypeOK /\ RowsRefer /\ RouteInHand /\ ResponseOwned /\ FaultlessCopies

-----------------------------------------------------------------------------
(* The operators.                                                           *)

\* Every order of a set of nodes is a list of them.
LEMMA OrdersAreLists ==
    ASSUME NEW S \in SUBSET Node, NEW s \in Orders(S)
    PROVE  s \in Seq(S) /\ Len(s) = Cardinality(S) /\ Cardinality(S) \in Nat
<1>1. IsFiniteSet(S)
  BY FS_Subset, Parameters
<1>2. Cardinality(S) \in Nat
  BY <1>1, FS_CardinalityType
<1>3. s \in [1..Cardinality(S) -> S]
  BY DEF Orders
<1> QED BY <1>2, <1>3

\* A resolved route is a list of nodes, or direct, and never empty.
LEMMA RoutesAreLists ==
    ASSUME TypeOK, NEW g, NEW route \in Routes(g)
    PROVE  route \in Seq(Node \cup {Direct}) /\ route # <<>>
<1> DEFINE usable == Usable(g)
           tries == IF Cardinality(usable) < NetworkMaxAttempts THEN Cardinality(usable)
                    ELSE NetworkMaxAttempts
<1>1. usable \in SUBSET Node
  BY DEF Usable, TypeOK
<1>2. CASE usable = {}
  <2>1. route = <<Direct>>
    BY <1>2 DEF Routes
  <2> QED BY <2>1
<1>3. CASE usable # {}
  <2>1. PICK s \in Orders(usable) : route = SubSeq(s, 1, tries)
    BY <1>3 DEF Routes
  <2> HIDE DEF usable
  <2>2. /\ s \in Seq(usable) /\ Len(s) = Cardinality(usable) /\ Cardinality(usable) \in Nat
    BY <1>1, OrdersAreLists
  <2>3. Cardinality(usable) # 0
    BY <1>1, <1>3, FS_Subset, FS_EmptySet, Parameters
  <2>4. tries \in 1..Len(s)
    BY <2>2, <2>3, Parameters
  <2> HIDE DEF tries
  <2>5. SubSeq(s, 1, tries) \in Seq(usable) /\ Len(SubSeq(s, 1, tries)) = tries
    BY <2>2, <2>4, SubSeqProperties
  <2>6. route \in Seq(usable) /\ Len(route) # 0
    BY <2>1, <2>4, <2>5
  <2> QED BY <1>1, <2>6
<1> QED BY <1>2, <1>3

\* A success resets the count, a measurement touches the latency alone.
LEMMA RowChanges ==
    ASSUME NEW r \in NodeRowType, NEW sample \in Latency
    PROVE  /\ Reward(r) \in NodeRowType
           /\ Measured(r, sample) \subseteq NodeRowType
           /\ \A row \in Measured(r, sample) : /\ row.status = r.status /\ row.failed = r.failed
                                              /\ row.enabled = r.enabled
           /\ Reward(r).failed = 0 /\ Reward(r).status = r.status
<1>1. Reward(r) \in NodeRowType /\ Reward(r).failed = 0 /\ Reward(r).status = r.status
  BY Parameters DEF NodeRowType, Reward
<1>2. ASSUME NEW row \in Measured(r, sample)
      PROVE  /\ row \in NodeRowType
             /\ row.status = r.status /\ row.failed = r.failed /\ row.enabled = r.enabled
  <2>1. PICK e \in Latency \cup {0} : row = [r EXCEPT !.ewma = e]
    BY <1>2 DEF Measured, NodeRowType
  <2> QED BY <2>1 DEF NodeRowType
<1> QED BY <1>1, <1>2

\* A penalty stops at the bound.
LEMMA Penalties ==
    ASSUME NEW r \in NodeRowType
    PROVE  Penalize(r) \in NodeRowType
<1> DEFINE failed == IF r.failed < MaxProxyFailures THEN r.failed + 1 ELSE MaxProxyFailures
           status == IF failed = MaxProxyFailures THEN "disabled" ELSE r.status
<1>1. failed \in 0..MaxProxyFailures /\ status \in {"active", "disabled"}
  BY Parameters DEF NodeRowType
<1>2. Penalize(r) = [r EXCEPT !.failed = failed, !.status = status]
  BY DEF Penalize
<1> HIDE DEF failed, status
<1> QED BY <1>1, <1>2 DEF NodeRowType

\* What a successful probe and an operator make of a row.
LEMMA RowEdits ==
    ASSUME NEW r \in NodeRowType
    PROVE  /\ [r EXCEPT !.status = "active", !.failed = 0] \in NodeRowType
           /\ [r EXCEPT !.enabled = TRUE, !.status = "active", !.failed = 0] \in NodeRowType
           /\ [r EXCEPT !.enabled = FALSE] \in NodeRowType
           /\ [r EXCEPT !.status = "disabled"] \in NodeRowType
<1>1. 0 \in 0..MaxProxyFailures
  BY Parameters
<1> QED BY <1>1 DEF NodeRowType

\* The route a request is on is a node or direct, and the rest of its list a list.
LEMMA RouteAhead ==
    ASSUME TypeOK, NEW s \in Session, todo[s] # <<>>
    PROVE  /\ Via(s) \in Node \cup {Direct} /\ Tail(todo[s]) \in Seq(Node \cup {Direct})
           /\ Len(todo[s]) > 1 => Tail(todo[s]) # <<>>
<1>1. todo[s] \in Seq(Node \cup {Direct})
  BY DEF TypeOK
<1> DEFINE list == todo[s]
<1> HIDE DEF list
<1>2. list \in Seq(Node \cup {Direct}) /\ list # <<>>
  BY <1>1 DEF list
<1>3. /\ Head(list) \in Node \cup {Direct} /\ Tail(list) \in Seq(Node \cup {Direct})
      /\ Len(Tail(list)) = Len(list) - 1
  BY <1>2, HeadTailProperties
<1>4. Len(list) > 1 => Tail(list) # <<>>
  <2> DEFINE n == Len(list)
             m == Len(Tail(list))
  <2>1. n \in Nat /\ m = n - 1
    BY <1>2, <1>3
  <2>2. Tail(list) = <<>> => m = 0
    BY <1>3, EmptySeq
  <2> HIDE DEF n, m
  <2>3. n > 1 => m # 0
    BY <2>1
  <2> QED BY <2>2, <2>3, Zenon DEF n
<1> QED BY <1>3, <1>4 DEF Via, list

-----------------------------------------------------------------------------
(* The invariant holds at the start, and every step keeps it.               *)

\* The start satisfies the invariant.
LEMMA Inits == Init => IInv
<1> SUFFICES ASSUME Init PROVE IInv
  OBVIOUS
<1>1. GroupsOK /\ RowsRefer
  <2>1. Start \in SUBSET Row
    BY GroupConstants, NodesConstants
  <2>2. {Default, System} \subseteq Group /\ {m.source : m \in Start} \subseteq {System, NoGroup}
    BY GroupConstants, NodesConstants
  <2>3. \A m \in Start : m.node \in Node \cup {0} /\ m.source \in {System, NoGroup}
    BY <2>1, <2>2 DEF Row
  <2> QED BY <2>1, <2>2, <2>3 DEF Init, GroupsInit, GroupsOK, RowsRefer
<1>2. NewRows \in [Node -> NodeRowType]
  BY Parameters DEF NewRows, NodeRowType
<1>3. phase \in [Session -> {"idle", "ended"}] /\ edits \in Nat
  BY NodesConstants DEF Init
<1>4. /\ todo \in [Session -> Seq(Node \cup {Direct})]
      /\ base \in [Session -> [Node -> NodeRowType]] /\ view = base
      /\ open \in [Request -> BOOLEAN] /\ kept \in [Request -> BOOLEAN]
      /\ faulty \in [Request -> SUBSET (Node \cup {Direct})]
      /\ node \in [Node -> NodeRowType]
  BY <1>2 DEF Init
<1>5. TypeOK
  BY <1>1, <1>3, <1>4 DEF Init, TypeOK, GroupsOK
<1>6. RouteInHand /\ ResponseOwned
  BY <1>3, Parameters DEF Init, RouteInHand, ResponseOwned
<1>7. FaultlessCopies
  BY <1>4, Parameters DEF FaultlessCopies
<1> QED BY <1>1, <1>5, <1>6, <1>7 DEF IInv

\* What a session has written at its end is a row of the database.
LEMMA CommitType ==
    ASSUME TypeOK, NEW s \in Session, Commits(s)
    PROVE  /\ node' \in [Node -> NodeRowType]
           /\ \A n \in Node : node'[n].enabled = node[n].enabled
<1>1. \A n \in Node : Written(n, s) \in NodeRowType /\ Written(n, s).enabled = node[n].enabled
  BY DEF TypeOK, Written, NodeRowType
<1> QED BY <1>1 DEF Commits, TypeOK

\* Only an edit touches the groups; every other step leaves them as they are.
LEMMA GroupsStay ==
    ASSUME IInv, [Next]_vars
    PROVE  GroupsOK' /\ RowsRefer'
<1>1. GroupsOK /\ RowsRefer
  BY DEF IInv, TypeOK, GroupsOK
<1>2. CASE Edit
  BY <1>1, <1>2, EditsRefer DEF Edit
<1>3. CASE UNCHANGED groupVars
  BY <1>1, <1>3 DEF groupVars, GroupsOK, RowsRefer
<1>4. CASE \E n \in Node : NewNode(n)
  BY <1>1, <1>4 DEF NewNode, AddNode, GroupsOK, RowsRefer
<1>5. Edit \/ (\E n \in Node : NewNode(n)) \/ UNCHANGED groupVars
  BY DEF Next, vars, RequestStep, Resolve, HeadersArrive, Fault, Blocked, Accepted,
     PoolFull,
         DeadlinePasses, Cancelled, EndRequest, Revive, Inspect, UpdateNode, NewNode, LinkChanges, Probe,
         EndProbes
<1> QED BY <1>2, <1>3, <1>4, <1>5

\* Copies keep their type when one row of them is set.
Copies == [Session -> [Node -> NodeRowType]]

LEMMA CopiesKept ==
    ASSUME NEW f \in Copies, NEW s \in Session, NEW n, NEW row, n \in Node => row \in NodeRowType
    PROVE  [f EXCEPT ![s][n] = row] \in Copies
<1>1. [f[s] EXCEPT ![n] = row] \in [Node -> NodeRowType]
  BY DEF Copies
<1> QED BY <1>1 DEF Copies

\* So they do when a request sets the row of the node it goes over.
LEMMA ChangesType ==
    ASSUME TypeOK, NEW r \in Request, NEW rows, Changes(r, rows),
           Via(r) \in Node => rows \subseteq NodeRowType
    PROVE  view' \in Copies
<1>1. view \in Copies /\ r \in Session
  BY Parameters DEF TypeOK, Copies
<1>2. CASE Via(r) = Direct
  BY <1>1, <1>2 DEF Changes
<1>3. CASE Via(r) # Direct
  <2>1. PICK row \in rows : view' = [view EXCEPT ![r][Via(r)] = row]
    BY <1>3 DEF Changes
  <2>2. Via(r) \in Node => row \in NodeRowType
    OBVIOUS
  <2> QED BY <1>1, <2>1, <2>2, CopiesKept
<1> QED BY <1>2, <1>3

\* A session's copies, in every step.
LEMMA ViewType ==
    ASSUME IInv, [Next]_vars
    PROVE  view' \in Copies
<1>1. TypeOK /\ view \in Copies /\ node \in [Node -> NodeRowType]
  BY DEF IInv, TypeOK, Copies
<1>2. NewRows \in [Node -> NodeRowType]
  BY Parameters DEF NewRows, NodeRowType
<1>3. \A s \in Session : view' = [view EXCEPT ![s] = NewRows] => view' \in Copies
  BY <1>1, <1>2 DEF Copies
<1>4. \A s \in Session : view' = [view EXCEPT ![s] = node] => view' \in Copies
  BY <1>1 DEF Copies
<1>5. \A s \in Session, n \in Node : view[s][n] \in NodeRowType
  BY <1>1 DEF Copies
<1>6. ASSUME NEW r \in Request, HeadersArrive(r)
      PROVE  view' \in Copies
  <2>1. PICK sample \in Latency : Changes(r, Measured(Reward(view[r][Via(r)]), sample))
    BY <1>6 DEF HeadersArrive
  <2>2. Via(r) \in Node => Measured(Reward(view[r][Via(r)]), sample) \subseteq NodeRowType
    BY <1>5, RowChanges, Parameters
  <2> QED BY <1>1, <2>1, <2>2, ChangesType
<1>7. ASSUME NEW r \in Request, Fault(r)
      PROVE  view' \in Copies
  <2>1. Changes(r, {Penalize(view[r][Via(r)])})
    BY <1>7 DEF Fault
  <2>2. Via(r) \in Node => {Penalize(view[r][Via(r)])} \subseteq NodeRowType
    BY <1>5, Penalties, Parameters
  <2> QED BY <1>1, <2>1, <2>2, ChangesType
<1>8. ASSUME NEW s \in Prober, Probe(s)
      PROVE  view' \in Copies
  <2> PICK sample \in Latency : \E row \in Measured(view[s][Via(s)], sample) :
           view' = [view EXCEPT ![s][Via(s)] =
             IF reaches[Via(s)] THEN [row EXCEPT !.status = "active", !.failed = 0] ELSE row]
    BY <1>8 DEF Probe
  <2>1. PICK row \in Measured(view[s][Via(s)], sample) :
           view' = [view EXCEPT ![s][Via(s)] =
             IF reaches[Via(s)] THEN [row EXCEPT !.status = "active", !.failed = 0] ELSE row]
    OBVIOUS
  <2> DEFINE new == IF reaches[Via(s)] THEN [row EXCEPT !.status = "active", !.failed = 0] ELSE row
  <2>2. Via(s) \in Node => row \in NodeRowType
    BY <1>5, RowChanges, Parameters
  <2>3. Via(s) \in Node => new \in NodeRowType
    <3>1. ASSUME row \in NodeRowType
          PROVE  [row EXCEPT !.status = "active", !.failed = 0] \in NodeRowType
      BY <3>1, RowEdits
    <3> QED BY <2>2, <3>1
  <2>4. view' = [view EXCEPT ![s][Via(s)] = new] /\ s \in Session
    BY <2>1, Parameters
  <2> HIDE DEF new
  <2> QED BY <1>1, <2>3, <2>4, CopiesKept
<1>9. ASSUME NEW r \in Request, RequestStep(r)
      PROVE  view' \in Copies
  <2>1. r \in Session
    BY Parameters
  <2> QED BY <1>1, <1>3, <1>4, <1>6, <1>7, <1>9, <2>1
             DEF RequestStep, Resolve, Loads, Blocked, Accepted, PoolFull, DeadlinePasses,
                 Cancelled, EndRequest, RequestGone, Leaves
<1>10. CASE Revive \/ \E n \in Node : Inspect(n)
  <2>1. Reviver \in Session /\ Inspector \in Session
    BY Parameters
  <2> QED BY <1>4, <1>10, <2>1 DEF Revive, Inspect, Loads
<1>11. ASSUME NEW s \in Prober, EndProbes(s)
       PROVE  view' \in Copies
  <2>1. s \in Session
    BY Parameters
  <2> QED BY <1>3, <1>11, <2>1 DEF EndProbes, Leaves
<1>12. CASE Edit \/ (\E n \in Node : UpdateNode(n) \/ NewNode(n) \/ LinkChanges(n)) \/ UNCHANGED vars
  BY <1>1, <1>12 DEF Edit, UpdateNode, NewNode, LinkChanges, vars, session
<1> QED BY <1>8, <1>9, <1>10, <1>11, <1>12 DEF Next

\* The database, in every step.
LEMMA RowType ==
    ASSUME IInv, [Next]_vars
    PROVE  node' \in [Node -> NodeRowType]
<1>1. TypeOK /\ node \in [Node -> NodeRowType]
  BY DEF IInv, TypeOK
<1>2. ASSUME NEW r \in Request, EndRequest(r)
      PROVE  node' \in [Node -> NodeRowType]
  BY <1>1, <1>2, CommitType, Parameters DEF EndRequest
<1>3. ASSUME NEW s \in Prober, EndProbes(s)
      PROVE  node' \in [Node -> NodeRowType]
  BY <1>1, <1>3, CommitType, Parameters DEF EndProbes
<1>4. ASSUME NEW n \in Node, UpdateNode(n)
      PROVE  node' \in [Node -> NodeRowType]
  <2>1. PICK row \in {[node[n] EXCEPT !.enabled = TRUE, !.status = "active", !.failed = 0],
                      [node[n] EXCEPT !.enabled = FALSE], [node[n] EXCEPT !.status = "disabled"]} :
           node' = [node EXCEPT ![n] = row]
    BY <1>4 DEF UpdateNode, Enable
  <2>2. row \in NodeRowType
    BY <1>1, RowEdits
  <2> QED BY <1>1, <2>1, <2>2
<1>5. CASE UNCHANGED node
  BY <1>1, <1>5
<1>6. ASSUME NEW n \in Node, NewNode(n)
      PROVE  node' \in [Node -> NodeRowType]
  BY <1>1, <1>6, Parameters DEF NewNode, NewRows, NodeRowType
<1> QED BY <1>2, <1>3, <1>4, <1>5, <1>6
           DEF Next, vars, RequestStep, Resolve, HeadersArrive, Fault, Blocked, Accepted, PoolFull,
               DeadlinePasses, Cancelled, Revive, Inspect, LinkChanges, Probe, Edit

\* What any step does to the phase and the list of a session.
ListType ==
    /\ phase \in [Session -> {"idle", "trying", "reading", "owner", "exhausted", "probing", "ended"}]
    /\ todo \in [Session -> Seq(Node \cup {Direct})]
    /\ RouteInHand

\* A request that goes on to its next route has one.
LEMMA NextRouteStep ==
    ASSUME IInv, NEW r \in Request, NextRoute(r), phase[r] \in {"trying", "reading"}
    PROVE  ListType' /\ phase'[r] \in {"trying", "owner", "exhausted"}
<1> DEFINE next == IF Len(todo[r]) > 1 THEN "trying" ELSE IF kept'[r] THEN "owner" ELSE "exhausted"
           rest == Tail(todo[r])
<1>1. r \in Session /\ TypeOK /\ todo[r] # <<>>
  BY Parameters DEF IInv, RouteInHand
<1>2. rest \in Seq(Node \cup {Direct}) /\ (next = "trying" => rest # <<>>)
      /\ next \in {"trying", "owner", "exhausted"}
  BY <1>1, RouteAhead
<1>3. todo' = [todo EXCEPT ![r] = rest] /\ phase' = [phase EXCEPT ![r] = next]
  BY DEF NextRoute
<1> HIDE DEF next, rest
<1>4. \A q \in Request : q \in Session
  BY Parameters
<1> QED BY <1>1, <1>2, <1>3, <1>4 DEF IInv, TypeOK, ListType, RouteInHand

\* Phases and lists keep their type, and who tries has a route.
LEMMA ListsKept ==
    ASSUME IInv, [Next]_vars
    PROVE  ListType'
<1>1. /\ TypeOK /\ RouteInHand
      /\ phase \in [Session -> {"idle", "trying", "reading", "owner", "exhausted", "probing", "ended"}]
      /\ todo \in [Session -> Seq(Node \cup {Direct})]
  BY DEF IInv, TypeOK
<1>2. /\ \A r \in Request : r \in Session
      /\ \A s \in Prober : s \in Session /\ s \notin Request
      /\ Reviver \in Prober /\ Inspector \in Prober
  BY Parameters
<1>3. \A n \in Node : <<n>> \in Seq(Node \cup {Direct})
  OBVIOUS
<1>4. ASSUME NEW r \in Request, NEW p \in Provider, Resolve(r, p)
      PROVE  ListType'
  <2>1. PICK routes \in Routes(GroupOf(p)) : todo' = [todo EXCEPT ![r] = routes]
    BY <1>4 DEF Resolve
  <2>2. routes \in Seq(Node \cup {Direct}) /\ routes # <<>>
    BY <1>1, RoutesAreLists
  <2>3. phase' = [phase EXCEPT ![r] = "trying"]
    BY <1>4 DEF Resolve, Moves
  <2> QED BY <1>1, <1>2, <2>1, <2>2, <2>3 DEF ListType, RouteInHand
<1>5. ASSUME NEW r \in Request, HeadersArrive(r)
      PROVE  ListType'
  <2>1. /\ phase[r] = "trying" /\ todo' = todo
        /\ \E next \in {"reading", "owner"} : phase' = [phase EXCEPT ![r] = next]
    BY <1>5 DEF HeadersArrive, Moves
  <2> QED BY <1>1, <1>2, <2>1 DEF ListType, RouteInHand
<1>6. ASSUME NEW r \in Request, Fault(r) \/ Blocked(r)
      PROVE  ListType'
  BY <1>6, NextRouteStep DEF Fault, Blocked
<1>7. ASSUME NEW r \in Request, Accepted(r) \/ PoolFull(r) \/ DeadlinePasses(r)
      PROVE  ListType'
  <2>1. /\ todo' = todo
        /\ \E next \in {"owner", "exhausted"} : phase' = [phase EXCEPT ![r] = next]
    BY <1>7 DEF Accepted, PoolFull, DeadlinePasses, Moves
  <2> QED BY <1>1, <1>2, <2>1 DEF ListType, RouteInHand
<1>8. ASSUME NEW r \in Request, Cancelled(r) \/ EndRequest(r)
      PROVE  ListType'
  <2>1. /\ todo' = [todo EXCEPT ![r] = <<>>]
        /\ phase' = [phase EXCEPT ![r] = "ended"]
    BY <1>8 DEF Cancelled, EndRequest, RequestGone
  <2>2. <<>> \in Seq(Node \cup {Direct})
    OBVIOUS
  <2> QED BY <1>1, <1>2, <2>1, <2>2 DEF ListType, RouteInHand
<1>9. ASSUME Revive
      PROVE  ListType'
  <2> DEFINE down == {n \in pool : node[n].enabled /\ node[n].status = "disabled"}
  <2>1. PICK order \in Orders(down) : todo' = [todo EXCEPT ![Reviver] = order]
    BY <1>9 DEF Revive
  <2>2. down \in SUBSET Node
    BY <1>1 DEF TypeOK
  <2>3. phase' = [phase EXCEPT ![Reviver] = "probing"]
    BY <1>9 DEF Revive, Moves
  <2> HIDE DEF down
  <2>4. order \in Seq(down)
    BY <2>1, <2>2, OrdersAreLists
  <2>5. order \in Seq(Node \cup {Direct})
    BY <2>2, <2>4
  <2> QED BY <1>1, <1>2, <2>1, <2>3, <2>5 DEF ListType, RouteInHand
<1>10. ASSUME NEW n \in Node, Inspect(n)
       PROVE  ListType'
  <2>1. todo' = [todo EXCEPT ![Inspector] = <<n>>] /\ phase' = [phase EXCEPT ![Inspector] = "probing"]
    BY <1>10 DEF Inspect, Moves
  <2> QED BY <1>1, <1>2, <1>3, <2>1 DEF ListType, RouteInHand
<1>11. ASSUME NEW s \in Prober, Probe(s)
       PROVE  ListType'
  <2>1. Tail(todo[s]) \in Seq(Node \cup {Direct})
    BY <1>1, <1>2, <1>11, RouteAhead DEF Probe
  <2>2. todo' = [todo EXCEPT ![s] = Tail(todo[s])] /\ phase' = phase
    BY <1>11 DEF Probe
  <2> QED BY <1>1, <1>2, <2>1, <2>2 DEF ListType, RouteInHand
<1>12. ASSUME NEW s \in Prober, EndProbes(s)
       PROVE  ListType'
  <2>1. todo' = todo /\ \E next \in {"idle", "ended"} : phase' = [phase EXCEPT ![s] = next]
    BY <1>12 DEF EndProbes, Moves
  <2> QED BY <1>1, <1>2, <2>1 DEF ListType, RouteInHand
<1>13. CASE UNCHANGED <<phase, todo>>
  BY <1>1, <1>13 DEF ListType, RouteInHand
<1>14. CASE Edit \/ (\E n \in Node : UpdateNode(n) \/ NewNode(n) \/ LinkChanges(n)) \/ UNCHANGED vars
  BY <1>13, <1>14 DEF Edit, UpdateNode, NewNode, LinkChanges, vars, session
<1> QED BY <1>4, <1>5, <1>6, <1>7, <1>8, <1>9, <1>10, <1>11, <1>12, <1>14 DEF Next,
        RequestStep

\* The rest of a request's own state.
OwnType ==
    /\ strict \in [Request -> BOOLEAN] /\ kept \in [Request -> BOOLEAN]
    /\ open \in [Request -> BOOLEAN]
    /\ faulty \in [Request -> SUBSET (Node \cup {Direct})]

\* A response is opened for who reads it or owns it, and is closed with every step
\* that leaves the two phases.
LEMMA OwnershipKept ==
    ASSUME IInv, [Next]_vars
    PROVE  OwnType' /\ ResponseOwned'
<1>1. TypeOK /\ RouteInHand /\ ResponseOwned /\ OwnType
  BY DEF IInv, TypeOK, OwnType
<1>2. /\ \A r \in Request : r \in Session
      /\ \A s \in Prober : s \in Session /\ s \notin Request
      /\ Reviver \in Prober /\ Inspector \in Prober
  BY Parameters
<1>3. phase \in [Session -> {"idle", "trying", "reading", "owner", "exhausted", "probing", "ended"}]
  BY <1>1 DEF TypeOK
<1>4. ASSUME NEW r \in Request, NEW p \in Provider, Resolve(r, p)
      PROVE  OwnType' /\ ResponseOwned'
  BY <1>1, <1>2, <1>3, <1>4 DEF Resolve, Moves, OwnType, ResponseOwned
<1>5. ASSUME NEW r \in Request, HeadersArrive(r)
      PROVE  OwnType' /\ ResponseOwned'
  BY <1>1, <1>2, <1>3, <1>5 DEF HeadersArrive, Moves, OwnType, ResponseOwned
<1>6. ASSUME NEW r \in Request, Fault(r)
      PROVE  OwnType' /\ ResponseOwned'
  <2>1. \E next : phase' = [phase EXCEPT ![r] = next]
    BY <1>6 DEF Fault, NextRoute
  <2>2. Via(r) \in Node \cup {Direct}
    BY <1>1, <1>2, <1>6, RouteAhead DEF Fault, RouteInHand
  <2>3. /\ open' = [open EXCEPT ![r] = FALSE] /\ faulty' = [faulty EXCEPT ![r] = @ \cup {Via(r)}]
        /\ UNCHANGED <<kept, strict>>
    BY <1>6 DEF Fault
  <2> QED BY <1>1, <1>2, <1>3, <2>1, <2>2, <2>3 DEF OwnType, ResponseOwned
<1>7. ASSUME NEW r \in Request, Blocked(r)
      PROVE  OwnType' /\ ResponseOwned'
  <2>1. \E next : phase' = [phase EXCEPT ![r] = next]
    BY <1>7 DEF Blocked, NextRoute
  <2> QED BY <1>1, <1>2, <1>3, <1>7, <2>1 DEF Blocked, OwnType, ResponseOwned
<1>8. ASSUME NEW r \in Request, Accepted(r) \/ PoolFull(r) \/ DeadlinePasses(r)
      PROVE  OwnType' /\ ResponseOwned'
  BY <1>1, <1>2, <1>3, <1>8 DEF Accepted, PoolFull, DeadlinePasses, Moves, OwnType,
     ResponseOwned
<1>9. ASSUME NEW r \in Request, Cancelled(r) \/ EndRequest(r)
      PROVE  OwnType' /\ ResponseOwned'
  BY <1>1, <1>2, <1>3, <1>9 DEF Cancelled, EndRequest, RequestGone, OwnType, ResponseOwned
<1>10. CASE Revive \/ \E n \in Node : Inspect(n)
  BY <1>1, <1>2, <1>3, <1>10 DEF Revive, Inspect, Moves, OwnType, ResponseOwned
<1>11. ASSUME NEW s \in Prober, Probe(s) \/ EndProbes(s)
       PROVE  OwnType' /\ ResponseOwned'
  BY <1>1, <1>2, <1>3, <1>11 DEF Probe, EndProbes, Moves, OwnType, ResponseOwned
<1>12. CASE Edit \/ (\E n \in Node : UpdateNode(n) \/ NewNode(n) \/ LinkChanges(n)) \/ UNCHANGED vars
  BY <1>1, <1>12 DEF Edit, UpdateNode, NewNode, LinkChanges, vars, session, OwnType, ResponseOwned
<1> QED BY <1>4, <1>5, <1>6, <1>7, <1>8, <1>9, <1>10, <1>11, <1>12 DEF Next, RequestStep

\* Links, edits and the loaded rows keep their type.
LEMMA SmallType ==
    ASSUME IInv, [Next]_vars
    PROVE  /\ reaches' \in [Node -> BOOLEAN] /\ edits' \in Nat
           /\ base' \in Copies
<1>1. /\ reaches \in [Node -> BOOLEAN] /\ edits \in Nat /\ base \in Copies
      /\ node \in [Node -> NodeRowType]
  BY DEF IInv, TypeOK, Copies
<1>2. NewRows \in [Node -> NodeRowType]
  BY Parameters DEF NewRows, NodeRowType
<1>3. edits' \in Nat
  <2>1. edits' = edits \/ (edits > 0 /\ edits' = edits - 1)
    BY DEF Next, vars, RequestStep, Resolve, HeadersArrive, Fault, Blocked, Accepted,
       PoolFull,
           DeadlinePasses, Cancelled, EndRequest, Revive, Inspect, UpdateNode, NewNode, LinkChanges, Probe,
           EndProbes, Edit
  <2> QED BY <1>1, <2>1
<1>4. reaches' \in [Node -> BOOLEAN]
  <2>1. reaches' = reaches \/ \E n \in Node : reaches' = [reaches EXCEPT ![n] = ~@]
    BY DEF Next, vars, RequestStep, Resolve, HeadersArrive, Fault, Blocked, Accepted,
       PoolFull,
           DeadlinePasses, Cancelled, EndRequest, Revive, Inspect, UpdateNode, NewNode, LinkChanges, Probe,
           EndProbes, Edit
  <2> QED BY <1>1, <2>1
<1>5. base' = base \/ \E s \in Session : \/ base' = [base EXCEPT ![s] = NewRows]
                                         \/ base' = [base EXCEPT ![s] = node]
  BY Parameters
     DEF Next, vars, session, RequestStep, Resolve, HeadersArrive, Fault, Blocked, Accepted, PoolFull,
         DeadlinePasses, Cancelled, EndRequest, Revive, Inspect, UpdateNode, NewNode, LinkChanges, Probe,
         EndProbes, Edit, RequestGone, Leaves, Loads
<1> QED BY <1>1, <1>2, <1>3, <1>4, <1>5 DEF Copies

\* All together.
LEMMA TypeKept ==
    ASSUME IInv, [Next]_vars
    PROVE  TypeOK'
BY GroupsStay, RowType, ViewType, ListsKept, OwnershipKept, SmallType
   DEF TypeOK, GroupsOK, ListType, OwnType, Copies

\* A request changes the status of its copy or raises its count only with a fault.
LEMMA FaultlessKept ==
    ASSUME IInv, [Next]_vars
    PROVE  FaultlessCopies'
<1>1. /\ TypeOK /\ FaultlessCopies /\ RouteInHand
      /\ view \in Copies /\ base \in Copies /\ faulty \in [Request -> SUBSET (Node \cup {Direct})]
  BY DEF IInv, TypeOK, Copies
<1>2. /\ \A r \in Request : r \in Session
      /\ \A s \in Prober : s \in Session /\ s \notin Request
      /\ Reviver \in Prober /\ Inspector \in Prober
  BY Parameters
<1>3. ASSUME NEW s \in Session, NEW rows, base' = [base EXCEPT ![s] = rows],
             view' = [view EXCEPT ![s] = rows],
             faulty' = faulty \/ (s \in Request /\ faulty' = [faulty EXCEPT ![s] = {}])
      PROVE  FaultlessCopies'
  BY <1>1, <1>2, <1>3 DEF FaultlessCopies, Copies
<1>4. ASSUME NEW s \in Prober, NEW rows, view' = [view EXCEPT ![s] = rows], UNCHANGED <<base, faulty>>
      PROVE  FaultlessCopies'
  BY <1>1, <1>2, <1>4 DEF FaultlessCopies, Copies
<1>5. ASSUME NEW r \in Request, NEW p \in Provider, Resolve(r, p)
      PROVE  FaultlessCopies'
  BY <1>2, <1>3, <1>5 DEF Resolve, Loads
<1>6. ASSUME NEW r \in Request, HeadersArrive(r)
      PROVE  FaultlessCopies'
  <2>1. PICK sample \in Latency : Changes(r, Measured(Reward(view[r][Via(r)]), sample))
    BY <1>6 DEF HeadersArrive
  <2>2. UNCHANGED <<base, faulty>>
    BY <1>6 DEF HeadersArrive
  <2>3. CASE Via(r) \in Node
    <3>1. PICK row \in Measured(Reward(view[r][Via(r)]), sample) :
             view' = [view EXCEPT ![r][Via(r)] = row]
      BY <2>1, <2>3, Parameters DEF Changes
    <3>2. view[r][Via(r)] \in NodeRowType
      BY <1>1, <1>2, <2>3 DEF Copies
    <3>3. row.status = view[r][Via(r)].status /\ row.failed = 0
      BY <3>2, RowChanges
    <3> QED BY <1>1, <1>2, <2>2, <3>1, <3>3 DEF FaultlessCopies, Copies
  <2>4. CASE Via(r) = Direct
    BY <1>1, <2>1, <2>2, <2>4 DEF Changes, FaultlessCopies
  <2> QED BY <1>1, <1>2, <1>6, <2>3, <2>4, RouteAhead DEF HeadersArrive
<1>7. ASSUME NEW r \in Request, Fault(r)
      PROVE  FaultlessCopies'
  <2>1. /\ UNCHANGED base /\ faulty' = [faulty EXCEPT ![r] = @ \cup {Via(r)}]
        /\ view' = view \/ \E row : view' = [view EXCEPT ![r][Via(r)] = row]
    BY <1>7 DEF Fault, Changes
  <2> QED BY <1>1, <1>2, <2>1 DEF FaultlessCopies, Copies
<1>8. ASSUME NEW r \in Request, Cancelled(r) \/ EndRequest(r)
      PROVE  FaultlessCopies'
  BY <1>2, <1>3, <1>8 DEF Cancelled, EndRequest, RequestGone, Leaves
<1>9. CASE Revive \/ \E n \in Node : Inspect(n)
  BY <1>2, <1>3, <1>9 DEF Revive, Inspect, Loads
<1>10. ASSUME NEW s \in Prober, Probe(s)
       PROVE  FaultlessCopies'
  <2>1. \E row : view' = [view EXCEPT ![s][Via(s)] = row]
    BY <1>10 DEF Probe
  <2>2. \E rows : view' = [view EXCEPT ![s] = rows]
    BY <2>1
  <2> QED BY <1>4, <1>10, <2>2 DEF Probe
<1>11. ASSUME NEW s \in Prober, EndProbes(s)
       PROVE  FaultlessCopies'
  BY <1>2, <1>3, <1>11 DEF EndProbes, Leaves
<1>12. CASE UNCHANGED <<base, view, faulty>>
  BY <1>1, <1>12 DEF FaultlessCopies
<1>13. CASE \/ \E r \in Request : Blocked(r) \/ Accepted(r) \/ PoolFull(r) \/ DeadlinePasses(r)
            \/ Edit \/ (\E n \in Node : UpdateNode(n) \/ NewNode(n) \/ LinkChanges(n)) \/ UNCHANGED vars
  BY <1>12, <1>13 DEF Blocked, Accepted, PoolFull, DeadlinePasses, Edit, UpdateNode,
     NewNode, LinkChanges,
                      vars, session
<1> QED BY <1>5, <1>6, <1>7, <1>8, <1>9, <1>10, <1>11, <1>13 DEF Next, RequestStep

\* Every step of a request, a probe, an operator or the network keeps the invariant.
THEOREM Inductive == IInv /\ [Next]_vars => IInv'
BY TypeKept, GroupsStay, ListsKept, OwnershipKept, FaultlessKept DEF IInv, ListType

\* The inductive invariant holds in every reachable state.
THEOREM Always == Spec => []IInv
<1>1. Init => IInv
  BY Inits
<1>2. IInv /\ [Next]_vars => IInv'
  BY Inductive
<1> QED BY <1>1, <1>2, PTL DEF Spec

-----------------------------------------------------------------------------
(* What follows.                                                            *)

\* What a request collects from a group is every node of the pool listed there or in a
\* group it inherits from, over whatever chain, and no other, pinned where some list on
\* the way pins it: whatever operators create, edit and delete, cycles of groups
\* included, and whether or not the database deletes the rows that refer to what is
\* gone; where it does, none is left (_collect_group).
THEOREM GroupsAreSound == Spec => []GroupsSound
<1>1. IInv => GroupsSound
  BY ExpansionFinds DEF IInv, TypeOK, GroupsOK, GroupsSound
<1> QED BY <1>1, Always, PTL

\* No fault, deadline or cancellation leaves a response open (execute_request).
THEOREM NothingLeftOpen == Spec => []ResponseOwned
<1>1. IInv => ResponseOwned
  BY DEF IInv
<1> QED BY <1>1, Always, PTL

\* What the end of a request counts against a node comes from its own faults over it
\* (penalize_node, reward_node and the columns a session writes).
THEOREM FaultsAreConnections == Spec => OnlyFaultsCount
<1> DEFINE Step == \A r \in Request, n \in Node :
                     EndRequest(r)
                       /\ (node'[n].failed > node[n].failed \/ node'[n].status # node[n].status)
                       => n \in faulty[r]
<1>1. IInv => Step
  <2> SUFFICES ASSUME IInv, NEW r \in Request, NEW n \in Node, EndRequest(r), n \notin faulty[r]
               PROVE  ~(node'[n].failed > node[n].failed) /\ node'[n].status = node[n].status
    OBVIOUS
  <2>1. /\ node[n] \in NodeRowType /\ view[r][n] \in NodeRowType
        /\ node \in [Node -> NodeRowType]
    BY Parameters DEF IInv, TypeOK
  <2>2. view[r][n].status = base[r][n].status /\ view[r][n].failed \in {base[r][n].failed, 0}
    BY DEF IInv, FaultlessCopies
  <2>3. node'[n] = Written(n, r) \/ node'[n] = node[n]
    BY DEF EndRequest, Commits
  <2>4. Written(n, r).status = node[n].status /\ Written(n, r).failed \in {node[n].failed, 0}
    BY <2>2 DEF Written
  <2>5. node[n].failed \in Nat
    BY <2>1, Parameters DEF NodeRowType
  <2> QED BY <2>3, <2>4, <2>5
<1>2. IInv /\ [Next]_vars => [Step]_vars
  BY <1>1
<1> QED BY <1>2, Always, PTL DEF Spec, OnlyFaultsCount

\* An operator's switch survives the sessions that loaded the row before.
THEOREM SwitchKept == Spec => SwitchSurvives
<1> DEFINE Step == \A s \in Session : Ends(s) => \A n \in Node : node'[n].enabled = node[n].enabled
<1>1. IInv => Step
  <2> SUFFICES ASSUME IInv, NEW s \in Session, Ends(s)
               PROVE  \A n \in Node : node'[n].enabled = node[n].enabled
    OBVIOUS
  <2>1. Commits(s) /\ TypeOK
    BY DEF Ends, EndRequest, EndProbes, IInv
  <2> QED BY <2>1, CommitType
<1>2. IInv /\ [Next]_vars => [Step]_vars
  BY <1>1
<1> QED BY <1>2, Always, PTL DEF Spec, SwitchSurvives
=============================================================================
