------------------------------- MODULE MCNodes -------------------------------
(***************************************************************************)
(* Small instances of Nodes: many edits of the groups without requests, or  *)
(* requests among few edits.                                                *)
(***************************************************************************)
EXTENDS Nodes

\* Nodes of one's own, pinned or not, and inheritance in every direction.
MemberLists == {
    {},
    {NodeRow(1, FALSE), NodeRow(2, TRUE)},
    {NodeRow(1, TRUE)},
    {SourceRow("g")},
    {SourceRow("system"), NodeRow(2, FALSE)},
    {SourceRow("default")}}

FirstList == {NodeRow(1, FALSE), NodeRow(2, TRUE)}

Scenarios == {[edits |-> 3, sessions |-> {"reviver"}],
              [edits |-> 1, sessions |-> {"r1", "reviver", "inspector"}],
              [edits |-> 0, sessions |-> {"r1", "r2", "reviver"}]}
=============================================================================
