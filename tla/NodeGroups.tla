----------------------------- MODULE NodeGroups -----------------------------
(***************************************************************************)
(* Groups of outbound nodes (services/routing.py, api/admin/nodes.py).  A    *)
(* group lists nodes of the pool and other groups whose nodes it inherits,   *)
(* live; a provider names a group or uses the default one.                   *)
(***************************************************************************)
EXTENDS Integers, FiniteSets

CONSTANTS
    Node,      \* node ids, positive
    Group,     \* group ids
    Default,   \* the slugs that cannot be deleted
    System,
    Provider,
    NoGroup,
    Lists      \* the member lists operators may submit

Row == [node : Node \cup {0}, source : Group \cup {NoGroup}, pinned : BOOLEAN]

ASSUME GroupConstants ==
    /\ Node \subseteq Nat \ {0}
    /\ {Default, System} \subseteq Group /\ NoGroup \notin Group /\ IsFiniteSet(Group)
    /\ Lists \subseteq SUBSET Row

VARIABLES
    enforced,  \* whether the database enforces foreign keys: PostgreSQL does, while on
               \* SQLite only create_all switches it on, for the one connection it uses
    pool,      \* the nodes that have a row
    groups,    \* the groups that have one
    members,   \* members[g]: g's member rows
    uses       \* uses[p]: provider p's node_group_id

groupVars == <<enforced, pool, groups, members, uses>>

NodeRow(n, pinned) == [node |-> n, source |-> NoGroup, pinned |-> pinned]
SourceRow(g) == [node |-> 0, source |-> g, pinned |-> FALSE]

\* ensure_seeded_groups, and a first list for the default group.
GroupsInit(list) ==
    /\ enforced \in BOOLEAN
    /\ pool = Node
    /\ groups = {Default, System}
    /\ members = [g \in Group |-> IF g = Default THEN list ELSE {}]
    /\ uses = [p \in Provider |-> NoGroup]

-----------------------------------------------------------------------------
(* Expansion.                                                               *)

\* Mutated form: a row that names a node counts, whether or not the node is there.
OwnByName(g) == {m \in members[g] : m.node # 0}

\* The rows of g that are joined with a node.
Own(g) == {m \in members[g] : m.node \in pool}
Sources(g) == {m.source : m \in members[g]} \cap groups

\* _collect_group of g below the groups of path: the members, then what the calls for
\* its sources return; nothing for a group that is already on the path.
CollectGroup(from, g, path) ==
    IF g \in path \/ g \notin groups
    THEN [nodes |-> {}, pinned |-> {}]
    ELSE LET inherited == {from[<<s, path \cup {g}>>] : s \in Sources(g)}
         IN [nodes  |-> {m.node : m \in Own(g)} \cup UNION {i.nodes : i \in inherited},
             pinned |-> {m.node : m \in {m \in Own(g) : m.pinned}}
                        \cup UNION {i.pinned : i \in inherited}]

Collect ==
    LET from[at \in Group \X SUBSET Group] == CollectGroup(from, at[1], at[2])
    IN [g \in Group |-> from[<<g, {}>>]]

\* provider_routes: the named group if it exists, the default group otherwise.
GroupOf(p) == IF uses[p] \in groups THEN uses[p] ELSE Default

-----------------------------------------------------------------------------
(* The operators' edits.                                                    *)

\* _validate_members' walk from src: it never enters g itself, so it never finds
\* that it has come back to g.
Walked(src, g) ==
    LET from[s \in Group, seen \in SUBSET Group] ==
          IF s \in seen \cup {g} THEN seen
          ELSE UNION ({seen \cup {s}} \cup {from[t, seen \cup {s}] : t \in Sources(s)})
    IN from[src, {}]

Valid(g, list) ==
    /\ \A m \in list : (m.node = 0) # (m.source = NoGroup)
    /\ {m.node : m \in list} \subseteq pool \cup {0}
    /\ {m.source : m \in list} \subseteq groups \cup {NoGroup}
    /\ \A m \in list : m.source # g
    /\ \A m \in list : m.source # NoGroup => g \notin Walked(m.source, g)
    /\ \A m1, m2 \in list :              \* uq_group_node, uq_group_source_group
          m1.node = m2.node /\ m1.source = m2.source => m1 = m2

CreateGroup(g, list) ==
    /\ g \notin groups
    /\ Valid(g, list)
    /\ groups' = groups \cup {g}
    /\ members' = [members EXCEPT ![g] = list]
    /\ UNCHANGED <<enforced, pool, uses>>

SetMembers(g, list) ==
    /\ g \in groups
    /\ Valid(g, list)
    /\ members' = [members EXCEPT ![g] = list]
    /\ UNCHANGED <<enforced, pool, groups, uses>>

\* g's own rows go with it; the rows of other groups that inherit from it are left to
\* the database.
DeleteGroup(g) ==
    /\ g \in groups \ {Default, System}
    /\ groups' = groups \ {g}
    /\ members' = [h \in Group |-> IF h = g THEN {}
                                   ELSE {m \in members[h] : ~(enforced /\ m.source = g)}]
    /\ uses' = [p \in Provider |-> IF uses[p] = g THEN NoGroup ELSE uses[p]]
    /\ UNCHANGED <<enforced, pool>>

AssignGroup(p, g) ==
    /\ g \in groups \cup {NoGroup}
    /\ uses' = [uses EXCEPT ![p] = g]
    /\ UNCHANGED <<enforced, pool, groups, members>>

\* So are the rows that name a node.
DeleteNode(n) ==
    /\ n \in pool
    /\ pool' = pool \ {n}
    /\ members' = [h \in Group |-> {m \in members[h] : ~(enforced /\ m.node = n)}]
    /\ UNCHANGED <<enforced, groups, uses>>

\* SQLite gives a new row the id above the largest one, a deleted one's too; PostgreSQL
\* gives no id twice.
AddNode(n) ==
    /\ ~enforced
    /\ n \notin pool /\ n - 1 \in pool \cup {0} /\ \A m \in pool : m < n
    /\ pool' = pool \cup {n}
    /\ UNCHANGED <<enforced, groups, members, uses>>

EditGroups ==
    \/ \E g \in Group, list \in Lists : CreateGroup(g, list) \/ SetMembers(g, list)
    \/ \E g \in Group : DeleteGroup(g)
    \/ \E p \in Provider, g \in Group \cup {NoGroup} : AssignGroup(p, g)
    \/ \E n \in Node : DeleteNode(n)

-----------------------------------------------------------------------------
\* g and the groups below it: what every set closed under Sources that has g has.
Inherited(g) ==
    {h \in Group : \A S \in SUBSET Group :
        g \in S /\ (\A s \in S : Sources(s) \subseteq S) => h \in S}

\* The path-wise expansion finds every node that is there and is named by a group that
\* can be reached by inheritance, cycles included, and no other, whatever rows of deleted
\* nodes and groups are left; a node pinned in any of these groups is pinned.
ExpansionComplete ==
    LET collected == Collect IN
    \A g \in groups :
        LET below == UNION {members[h] : h \in Inherited(g) \cap groups}
            rows  == {m \in below : m.node \in pool}
        IN  collected[g] = [nodes  |-> {m.node : m \in rows},
                          pinned |-> {m.node : m \in {m \in rows : m.pinned}}]

\* Where foreign keys are enforced, no row refers to a node or group that is gone,
\* however deletions and edits mix.
RowsRefer ==
    enforced =>
        /\ \A g \in Group : members[g] # {} => g \in groups
        /\ \A g \in groups : \A m \in members[g] : m.node \in pool \cup {0}
                                                   /\ m.source \in groups \cup {NoGroup}
        /\ \A p \in Provider : uses[p] \in groups \cup {NoGroup}

\* "Validate a member list: refs exist, exactly one kind per row, no cycles."
\* (api/admin/nodes.py:397)
NoInheritanceCycle == \A g \in groups : \A s \in Sources(g) : g \notin Inherited(s)
=============================================================================
