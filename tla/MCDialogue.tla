----------------------------- MODULE MCDialogue -----------------------------
(***************************************************************************)
(* Every pair of dialects, two answers of at most three blocks.              *)
(***************************************************************************)
EXTENDS Dialogue

Pair(i, u, w, sp, ls) == [inbound |-> i, upstream |-> u, wire |-> w, sparse |-> sp, lists |-> ls]
\* list forms where the translation looks at them
AllPairs ==
    {s \in {Pair(i, u, u, sp, ls) : i \in Dialect, u \in Dialect, sp \in BOOLEAN, ls \in BOOLEAN} :
        /\ s.inbound # s.upstream /\ (s.sparse => s.upstream = "responses")
        /\ s.lists => s.inbound = "responses" \/ (s.inbound = "openai" /\ s.upstream = "anthropic")}
    \cup {Pair(i, "responses", "anthropic", FALSE, FALSE) : i \in {"openai", "anthropic"}}

\* reasoning first, as the comment at transform.py:686 says; no call after a text that
\* follows a call
Orders == {<<"thinking", "text", "call", "call">>, <<"text", "call", "text">>, <<"call", "call">>}
TextBetweenCalls == {<<"call", "text", "call">>}

System == <<[type |-> "text", id |-> 0, data |-> <<1001>>]>>
Begin3 ==
    {[system |-> <<>>, role |-> "system", choice |-> "auto"],
     [system |-> System, role |-> "developer", choice |-> "required"]}

Text == [type |-> "text", id |-> 0, data |-> <<1002>>]
Image == [type |-> "image", id |-> 0, data |-> 1003]
Contents == {<<>>, <<Text, Image>>}
=============================================================================
