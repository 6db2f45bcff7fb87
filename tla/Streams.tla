------------------------------ MODULE Streams ------------------------------
(***************************************************************************)
(* The stream half of services/transform.py: what each translator does with  *)
(* one event, and the folds that make one answer of a stream.               *)
(*                                                                          *)
(* OpenAI Chat Completions is the hub.  A reader turns the events of an      *)
(* upstream into hub chunks, a writer turns chunks into the events of a       *)
(* client.  Text is a sequence of pieces; a stream that ends is an "eof".    *)
(***************************************************************************)
EXTENDS Integers, SequencesExt

E(type, index, data) == [type |-> type, index |-> index, data |-> data]
Block(type, id, data) == [type |-> type, id |-> id, data |-> data]

Eof == E("eof", 0, 0)
Cut == E("cut", 0, 0)       \* an exception: the connection ends here
Done == E("done", 0, 0)
NoId == 0
NoBlock == -1
NoUsage == [in |-> 0, out |-> 0]
CallChunk(index, id, args) == E("call", index, [id |-> id, args |-> args])
Finishes(finish, usage) == E("last", 0, [finish |-> finish, usage |-> usage])

FinishOfStop ==
    [end_turn |-> "stop", stop_sequence |-> "stop", max_tokens |-> "length", tool_use |-> "tool_calls"]
StopOfFinish ==
    [stop |-> "end_turn", length |-> "max_tokens", tool_calls |-> "tool_use", content_filter |-> "end_turn"]
FinishOf(stop) == IF stop \in DOMAIN FinishOfStop THEN FinishOfStop[stop] ELSE "stop"
StopOf(finish) == IF finish \in DOMAIN StopOfFinish THEN StopOfFinish[finish] ELSE "end_turn"
StatusOfFinish(finish) == IF finish \in {"length", "content_filter"} THEN "incomplete" ELSE "completed"
ReasonOfFinish(finish) ==
    CASE finish = "length" -> "max_output_tokens"
      [] finish = "content_filter" -> "content_filter"
      [] OTHER -> ""
FinishOfResponse(resp, called) ==
    IF resp.status = "incomplete"
    THEN IF resp.reason = "max_output_tokens" THEN "length" ELSE "content_filter"
    ELSE IF called THEN "tool_calls" ELSE "stop"

StoppedShort(e) ==
    e.type = "incomplete" /\ e.data.reason = "max_output_tokens" /\ e.data.output = <<>>

Emit(s, events) == [s EXCEPT !.out = @ \o events]

\* Mutated form: the code reads on behind the end.
ReadsOn(s, events) == Emit(s, events)
Over(s, events) == Emit([s EXCEPT !.over = TRUE], events)
Each(type, index, pieces) == [i \in DOMAIN pieces |-> E(type, index, pieces[i])]

\* f with v at k; the values of f in the order of its (finitely many) indices.
With(f, k, v) == [j \in DOMAIN f \cup {k} |-> IF j = k THEN v ELSE f[j]]
Nth(S, n) == CHOOSE k \in S : Cardinality({j \in S : j < k}) = n - 1
ByIndex(f) == [n \in 1..Cardinality(DOMAIN f) |-> f[Nth(DOMAIN f, n)]]

Of(blocks, type) == SelectSeq(blocks, LAMBDA b : b.type = type)
Joined(blocks, type) ==
    LET bs == Of(blocks, type) IN FlattenSeq([i \in DOMAIN bs |-> bs[i].data])

(***************************************************************************)
(* Readers                                                                  *)
(***************************************************************************)

\* calls: index of a block or item -> index in tool_calls
Reader == [envelope |-> "", started |-> FALSE, calls |-> <<>>, over |-> FALSE, out |-> <<>>]

Begin(s) == IF s.started THEN s ELSE Emit([s EXCEPT !.started = TRUE], <<E("role", 0, 0)>>)
OpensCall(s, e) ==
    LET n == Cardinality(DOMAIN s.calls)
    IN  Emit([s EXCEPT !.calls = With(@, e.index, n)], <<CallChunk(n, e.data, <<>>)>>)

\* Mutated form: the code forgets which call a block belongs to.
FirstCall(s, e) == 0
CallOf(s, e) == IF e.index \in DOMAIN s.calls THEN s.calls[e.index] ELSE 0

ReadAnthropic(s, e) ==
    IF s.over THEN s ELSE
    CASE e.type = "message_start" -> Emit([s EXCEPT !.started = TRUE], <<E("role", 0, 0)>>)
      [] e.type = "start_call" -> OpensCall(s, e)
      [] e.type = "text" -> Emit(s, <<E("content", 0, e.data)>>)
      [] e.type = "thinking" -> Emit(s, <<E("reasoning", 0, e.data)>>)
      [] e.type = "json" -> Emit(s, <<CallChunk(CallOf(s, e), NoId, <<e.data>>)>>)
      [] e.type = "message_delta" -> Emit(s, <<Finishes(FinishOf(e.data.stop), e.data.usage)>>)
      [] e.type = "error" -> Over(s, <<Cut>>)
      [] e.type \in {"message_stop", "eof"} ->
            Over(s, (IF s.started THEN <<>> ELSE <<E("role", 0, 0), Finishes("stop", NoUsage)>>) \o <<Done>>)
      [] OTHER -> s

\* what is written when a Responses stream is at its end
EndChunks(s, finish, usage) ==
    LET called == s.calls # <<>>
    IN  Over(Begin(s), <<Finishes(IF called /\ finish = "stop" THEN "tool_calls" ELSE finish, usage), Done>>)

ReadResponseEvent(s, e) ==
    IF s.over THEN s ELSE
    CASE e.type = "created" -> Begin(s)
      [] e.type = "added_call" -> OpensCall(Begin(s), e)
      [] e.type = "text" -> Emit(Begin(s), <<E("content", 0, e.data)>>)
      [] e.type = "reasoning" -> Emit(Begin(s), <<E("reasoning", 0, e.data)>>)
      [] e.type = "args" -> Emit(s, <<CallChunk(CallOf(s, e), NoId, <<e.data>>)>>)
      [] e.type \in {"completed", "incomplete", "failed"} ->
            IF StoppedShort(e) THEN Over(s, <<Cut>>)
            ELSE EndChunks(s, FinishOfResponse(e.data, s.calls # <<>>), e.data.usage)
      [] e.type = "eof" -> EndChunks(s, "stop", NoUsage)
      [] OTHER -> s

\* A Codex model may answer with the Anthropic envelope: the first event tells.
AnthropicOpening == {"message_start", "start_text", "start_thinking", "start_call", "message_delta", "message_stop"}
ReadResponses(s, e) ==
    LET envelope == IF s.envelope # "" THEN s.envelope
                    ELSE IF e.type \in AnthropicOpening THEN "anthropic" ELSE "responses"
        t == [s EXCEPT !.envelope = envelope]
    IN  IF envelope = "anthropic" THEN ReadAnthropic(t, e) ELSE ReadResponseEvent(t, e)

ReadOpenAI(s, e) == Emit(s, <<e>>)

(***************************************************************************)
(* Writers                                                                  *)
(***************************************************************************)

\* open blocks of the Anthropic message; calls: index in tool_calls -> block index
AnthropicWriter ==
    [text |-> NoBlock, thinking |-> NoBlock, calls |-> <<>>, next |-> 0,
     stop |-> "stop", usage |-> NoUsage, over |-> FALSE, out |-> <<E("message_start", 0, 0)>>]

CloseThinking(s) ==
    IF s.thinking = NoBlock THEN s
    ELSE Emit([s EXCEPT !.thinking = NoBlock], <<E("signature", s.thinking, 0), E("stop", s.thinking, 0)>>)
CloseText(s) ==
    IF s.text = NoBlock THEN s
    ELSE Emit([s EXCEPT !.text = NoBlock], <<E("stop", s.text, 0)>>)
OpenThinking(s) ==
    IF s.thinking # NoBlock \/ s.text # NoBlock \/ s.calls # <<>> THEN s
    ELSE Emit([s EXCEPT !.thinking = s.next, !.next = @ + 1], <<E("start_thinking", s.next, 0)>>)
OpenText(s) ==
    IF s.text # NoBlock THEN s
    ELSE Emit([s EXCEPT !.text = s.next, !.next = @ + 1], <<E("start_text", s.next, 0)>>)

\* Mutated form: a text is not closed before the next call is opened.
OpenCallOverText(s, e) ==
    IF e.index \in DOMAIN s.calls THEN s
    ELSE LET c == CloseThinking(s)
         IN  Emit([c EXCEPT !.calls = With(@, e.index, c.next), !.text = NoBlock],
                  <<E("start_call", c.next, e.data.id)>>)
OpenCall(s, e) ==
    IF e.index \in DOMAIN s.calls THEN s
    ELSE LET c == CloseText(CloseThinking(s))
         IN  Emit([c EXCEPT !.calls = With(@, e.index, c.next), !.next = @ + 1],
                  <<E("start_call", c.next, e.data.id)>>)
CloseCalls(s) == Emit(s, LET bs == ByIndex(s.calls) IN [i \in DOMAIN bs |-> E("stop", bs[i], 0)])

WriteAnthropic(s, e) ==
    IF s.over THEN s ELSE
    CASE e.type = "reasoning" ->
            LET o == OpenThinking(s)
            IN  IF o.thinking = NoBlock THEN o ELSE Emit(o, <<E("thinking", o.thinking, e.data)>>)
      [] e.type = "content" ->
            LET o == OpenText(CloseThinking(s)) IN Emit(o, <<E("text", o.text, e.data)>>)
      [] e.type = "call" ->
            LET o == OpenCall(s, e) IN Emit(o, Each("json", o.calls[e.index], e.data.args))
      [] e.type = "last" ->
            [s EXCEPT !.usage = IF e.data.usage = NoUsage THEN @ ELSE e.data.usage,
                      !.stop = IF e.data.finish = "" THEN @ ELSE StopOf(e.data.finish)]
      [] e.type \in {"done", "eof"} ->
            LET c == CloseCalls(CloseText(CloseThinking(s)))
            IN  Over(c, <<E("message_delta", 0, [stop |-> c.stop, usage |-> c.usage]),
                          E("message_stop", 0, 0)>>)
      [] e.type = "cut" -> Over(s, <<Cut>>)
      [] OTHER -> s

\* calls: index in tool_calls -> [item, id, args]; item: the next output_index
ResponsesWriter ==
    [open |-> FALSE, buffer |-> <<>>, calls |-> <<>>, item |-> 0, output |-> <<>>,
     finish |-> "stop", usage |-> NoUsage, over |-> FALSE, out |-> <<E("created", 0, 0)>>]

OpenItem(s) ==
    IF s.open THEN s ELSE Emit([s EXCEPT !.open = TRUE], <<E("added_text", s.item, 0)>>)
CloseItem(s) ==
    LET b == Block("text", NoId, s.buffer)
    IN  IF ~s.open THEN s
        ELSE Emit([s EXCEPT !.open = FALSE, !.buffer = <<>>, !.item = @ + 1, !.output = Append(@, b)],
                  <<E("done_item", s.item, b)>>)
OpenCallItem(s, e) ==
    LET c == IF s.calls = <<>> THEN CloseItem(s) ELSE s
        call == [item |-> c.item, id |-> e.data.id, args |-> <<>>]
    IN  IF e.index \in DOMAIN s.calls THEN s
        ELSE Emit([c EXCEPT !.calls = With(@, e.index, call), !.item = @ + 1],
                  <<E("added_call", c.item, e.data.id)>>)
CloseCallItems(s) ==
    LET cs == ByIndex(s.calls)
        bs == [i \in DOMAIN cs |-> Block("call", cs[i].id, cs[i].args)]
    IN  Emit([s EXCEPT !.output = @ \o bs], [i \in DOMAIN cs |-> E("done_item", cs[i].item, bs[i])])

WriteResponses(s, e) ==
    IF s.over THEN s ELSE
    CASE e.type = "content" ->
            LET o == OpenItem(s)
            IN  Emit([o EXCEPT !.buffer = Append(@, e.data)], <<E("text", o.item, e.data)>>)
      [] e.type = "call" ->
            LET o == OpenCallItem(s, e)
            IN  Emit([o EXCEPT !.calls[e.index].args = @ \o e.data.args],
                     Each("args", o.calls[e.index].item, e.data.args))
      [] e.type = "last" ->
            [s EXCEPT !.usage = IF e.data.usage = NoUsage THEN @ ELSE e.data.usage,
                      !.finish = IF e.data.finish = "" THEN @ ELSE e.data.finish]
      [] e.type \in {"done", "eof"} ->
            LET c == CloseCallItems(CloseItem(s))
                status == StatusOfFinish(c.finish)
            IN  Over(c, <<E(status, 0, [status |-> status, reason |-> ReasonOfFinish(c.finish),
                                        output |-> c.output, usage |-> c.usage])>>)
      [] e.type = "cut" -> Over(s, <<Cut>>)
      [] OTHER -> s

WriteOpenAI(s, e) == Emit(s, <<e>>)

(***************************************************************************)
(* Composition (dispatcher._translate_stream)                               *)
(***************************************************************************)
Writer(inbound) ==
    CASE inbound = "anthropic" -> AnthropicWriter
      [] inbound = "responses" -> ResponsesWriter
      [] OTHER -> [out |-> <<>>]
ReadEvent(upstream, s, e) ==
    CASE upstream = "anthropic" -> ReadAnthropic(s, e)
      [] upstream = "responses" -> ReadResponses(s, e)
      [] OTHER -> ReadOpenAI(s, e)
WriteEvent(inbound, s, e) ==
    CASE inbound = "anthropic" -> WriteAnthropic(s, e)
      [] inbound = "responses" -> WriteResponses(s, e)
      [] OTHER -> WriteOpenAI(s, e)

Quiet(s) == [s EXCEPT !.out = <<>>]
ReadAll(upstream, s, events) == FoldLeft(LAMBDA t, e : ReadEvent(upstream, t, e), Quiet(s), events)
WriteAll(inbound, s, chunks) == FoldLeft(LAMBDA t, e : WriteEvent(inbound, t, e), Quiet(s), chunks)

(***************************************************************************)
(* Folds: one answer of a stream (dispatcher._aggregate_events).  A fold     *)
(* that raises has failed.                                                  *)
(***************************************************************************)
Failure == [failed |-> TRUE]

\* openai_events_to_response
ChunkFold ==
    [seen |-> FALSE, failed |-> FALSE, text |-> <<>>, thinking |-> <<>>, calls |-> <<>>,
     finish |-> "", usage |-> NoUsage]
FoldChunk(s, e) ==
    LET t == [s EXCEPT !.seen = TRUE]
        known == IF e.type = "call" /\ e.index \in DOMAIN s.calls THEN s.calls[e.index]
                 ELSE [id |-> NoId, args |-> <<>>]
    IN  IF s.failed \/ e.type \in {"done", "eof"} THEN s ELSE
        CASE e.type \in {"error", "cut"} -> [t EXCEPT !.failed = TRUE]
          [] e.type = "content" -> [t EXCEPT !.text = Append(@, e.data)]
          [] e.type = "reasoning" -> [t EXCEPT !.thinking = Append(@, e.data)]
          [] e.type = "call" ->
                [t EXCEPT !.calls =
                    With(@, e.index, [id |-> IF e.data.id # NoId THEN e.data.id ELSE known.id,
                                      args |-> known.args \o e.data.args])]
          [] e.type = "last" ->
                [t EXCEPT !.finish = IF e.data.finish = "" THEN @ ELSE e.data.finish,
                          !.usage = IF e.data.usage = NoUsage THEN @ ELSE e.data.usage]
          [] OTHER -> t
Completion(s) ==
    IF s.failed \/ ~s.seen THEN Failure
    ELSE [failed |-> FALSE, text |-> s.text, thinking |-> s.thinking, calls |-> ByIndex(s.calls),
          finish |-> IF s.finish # "" THEN s.finish
                     ELSE IF s.calls # <<>> THEN "tool_calls" ELSE "stop",
          usage |-> s.usage]
FoldChunks(chunks) == Completion(FoldLeft(FoldChunk, ChunkFold, chunks))

\* responses_events_to_response
EventFold == [items |-> <<>>, text |-> <<>>, terminal |-> Failure, failed |-> FALSE, over |-> FALSE]
FailedEvent(e) == e.type = "failed" \/ StoppedShort(e)
FoldEvent(s, e) ==
    IF s.over THEN s ELSE
    CASE e.type = "text" -> [s EXCEPT !.text = Append(@, e.data)]
      [] e.type = "done_item" -> [s EXCEPT !.items = With(@, e.index, e.data)]
      [] e.type = "error" -> [s EXCEPT !.failed = TRUE, !.over = TRUE]
      [] e.type \in {"completed", "incomplete", "failed"} ->
            [s EXCEPT !.terminal = e.data, !.over = TRUE, !.failed = FailedEvent(e)]
      [] OTHER -> s

\* Mutated form: the items delivered before a sparse terminal event are forgotten.
TerminalOutput(s) == s.terminal.output
MergedOutput(s) ==
    IF s.terminal.output # <<>> THEN s.terminal.output
    ELSE IF s.items # <<>> THEN ByIndex(s.items)
    ELSE IF s.text # <<>> THEN <<Block("text", NoId, s.text)>> ELSE <<>>
FoldEvents(events) ==
    LET s == FoldLeft(FoldEvent, EventFold, events)
    IN  IF s.failed \/ ~s.over THEN Failure
        ELSE [failed |-> FALSE] @@ [s.terminal EXCEPT !.output = MergedOutput(s)]
=============================================================================
