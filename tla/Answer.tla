------------------------------- MODULE Answer -------------------------------
(***************************************************************************)
(* What a client may see of an answer, whatever lies between it and the model: *)
(* texts and tool calls that only grow, an end that comes once, nothing after *)
(* it, and the next answer only then.                                       *)
(***************************************************************************)
EXTENDS Sequences

LOCAL INSTANCE SequencesExt

VARIABLES text, thinking, calls, end

vars == <<text, thinking, calls, end>>

Nothing == text = <<>> /\ thinking = <<>> /\ calls = <<>> /\ end = "none"

CallsGrow ==
    /\ Len(calls) <= Len(calls')
    /\ \A i \in DOMAIN calls :
        calls'[i].id = calls[i].id /\ IsPrefix(calls[i].args, calls'[i].args)

Init == Nothing

Grow ==
    /\ end \in {"none", "open"} /\ end' = "open"
    /\ IsPrefix(text, text') /\ IsPrefix(thinking, thinking') /\ CallsGrow

Close ==
    /\ end \in {"none", "open"} /\ end' \in {"complete", "cut"}
    /\ IsPrefix(text, text') /\ IsPrefix(thinking, thinking') /\ CallsGrow

NextAnswer == end = "complete" /\ Nothing'

Next == Grow \/ Close \/ NextAnswer

Spec == Init /\ [][Next]_vars
=============================================================================
