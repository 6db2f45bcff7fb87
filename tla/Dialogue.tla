------------------------------ MODULE Dialogue ------------------------------
(***************************************************************************)
(* A conversation through the gateway between a client of one dialect and an  *)
(* upstream of another (services/dispatcher.py, services/transform.py).      *)
(*                                                                          *)
(* The client sends its whole history; the gateway translates it; the         *)
(* upstream streams an answer; the gateway translates its events one by one,  *)
(* or folds them for a client that does not stream; the client keeps what it  *)
(* received as part of its next request.  Client and upstream are external.   *)
(***************************************************************************)
EXTENDS Requests

CONSTANTS
    Scenarios,    \* set of [inbound, upstream, wire, sparse, lists]
    Shapes,       \* block types an answer may have, in their order
    Openings,     \* beginnings of a conversation: [system, role, choice]
    Inputs,       \* contents of a user message
    MaxCount,     \* bound: pieces and calls of one conversation
    MaxAnswers    \* bound: answers of one conversation

Dialect == {"openai", "anthropic", "responses"}

ASSUME DialogueConstants ==
    /\ \A s \in Scenarios :
        /\ {s.inbound, s.upstream, s.wire} \subseteq Dialect /\ s.inbound # s.upstream
        /\ s.wire = s.upstream \/ (s.upstream = "responses" /\ s.wire = "anthropic")
        /\ {s.sparse, s.lists} \subseteq BOOLEAN
    /\ Shapes \subseteq Seq({"text", "thinking", "call"})
    /\ {MaxCount, MaxAnswers} \subseteq Nat

VARIABLES
    scenario,
    payload,    \* the client's next request, in its dialect
    spoken,     \* what was really said, as utterances
    stage,      \* of the upstream: "quiet", "asked", "open", "ended", "failed" or "lost"
    closed,     \* its connection has been closed
    said,       \* the blocks the upstream has generated
    finish,     \* and why it stopped
    count,      \* pieces and calls so far
    events,     \* what it has sent
    reader, writer,
    client      \* what the client has assembled

vars == <<scenario, payload, spoken, stage, closed, said, finish, count, events, reader, writer, client>>

inbound == scenario.inbound
upstream == scenario.upstream
wire == scenario.wire

(***************************************************************************)
(* The client: it assembles events by their index and notes any it cannot     *)
(* place.                                                                   *)
(***************************************************************************)
NoClient ==
    [blocks |-> <<>>, open |-> {}, end |-> "none", finish |-> "", usage |-> NoUsage,
     output |-> <<>>, astray |-> FALSE]

TypeOfStart ==
    [start_text |-> "text", start_thinking |-> "thinking", start_call |-> "call",
     added_text |-> "text", added_call |-> "call"]
TypeOfDelta == [text |-> "text", thinking |-> "thinking", json |-> "call", args |-> "call"]

Unless(c, proper, then) == IF proper THEN then ELSE [c EXCEPT !.astray = TRUE]
AppendPiece(c, i, piece) == [c EXCEPT !.blocks[i].data = Append(@, piece)]

TakeBlockEvent(c, e) ==
    LET known == e.index \in DOMAIN c.blocks
        isOpen == e.index \in c.open
    IN  CASE e.type \in DOMAIN TypeOfStart ->
                Unless(c, ~known,
                       [c EXCEPT !.blocks = With(@, e.index, Block(TypeOfStart[e.type], e.data, <<>>)),
                                 !.open = @ \cup {e.index}])
          [] e.type \in DOMAIN TypeOfDelta ->
                Unless(c, isOpen /\ c.blocks[e.index].type = TypeOfDelta[e.type],
                       AppendPiece(c, e.index, e.data))
          [] e.type = "signature" -> Unless(c, isOpen /\ c.blocks[e.index].type = "thinking", c)
          [] e.type = "stop" -> Unless(c, isOpen, [c EXCEPT !.open = @ \ {e.index}])
          [] e.type = "done_item" ->
                Unless(c, isOpen /\ c.blocks[e.index].type = e.data.type
                                 /\ c.blocks[e.index].data = e.data.data,
                       [c EXCEPT !.open = @ \ {e.index}])
          [] e.type = "message_delta" ->
                Unless(c, c.open = {}, [c EXCEPT !.finish = FinishOf(e.data.stop), !.usage = e.data.usage])
          [] e.type = "message_stop" -> [c EXCEPT !.end = "complete"]
          [] e.type \in {"completed", "incomplete"} ->
                Unless(c, c.open = {},
                       [c EXCEPT !.end = "complete", !.output = e.data.output, !.usage = e.data.usage,
                                 !.finish = FinishOfResponse(e.data, Of(e.data.output, "call") # <<>>)])
          [] OTHER -> c

\* a chunk names calls only; texts have no index
TextAt == -2
ThinkingAt == -3
TakeChunk(c, e) ==
    LET add(i, type) ==
            AppendPiece(IF i \in DOMAIN c.blocks THEN c
                        ELSE [c EXCEPT !.blocks = With(@, i, Block(type, NoId, <<>>))], i, e.data)
        known == e.index \in DOMAIN c.blocks
    IN  CASE e.type = "content" -> add(TextAt, "text")
          [] e.type = "reasoning" -> add(ThinkingAt, "thinking")
          [] e.type = "call" ->
                IF e.data.id # NoId
                THEN Unless(c, ~known, [c EXCEPT !.blocks = With(@, e.index, Block("call", e.data.id, e.data.args))])
                ELSE Unless(c, known, [c EXCEPT !.blocks[e.index].data = @ \o e.data.args])
          [] e.type = "last" -> [c EXCEPT !.finish = e.data.finish, !.usage = e.data.usage]
          [] e.type = "done" -> [c EXCEPT !.end = "complete"]
          [] OTHER -> c

Take(c, e) ==
    LET o == [c EXCEPT !.end = IF @ = "none" THEN "open" ELSE @,
                       !.astray = @ \/ c.end \in {"complete", "cut"}]
    IN  IF e.type = "cut" THEN [o EXCEPT !.end = "cut"]
        ELSE IF inbound = "openai" THEN TakeChunk(o, e) ELSE TakeBlockEvent(o, e)

Assembled(c) ==
    LET bs == ByIndex(c.blocks)
    IN  [text |-> Joined(bs, "text"), thinking |-> Joined(bs, "thinking"),
         calls |-> MapSeq(CallOfBlock, Of(bs, "call"))]

\* what the client adds to its history: of a stream, of a whole answer
Kept(c) ==
    CASE inbound = "anthropic" -> [content |-> ByIndex(c.blocks)]
      [] inbound = "responses" -> [output |-> c.output]
      [] OTHER -> Assembled(c)
AnswerEntries(resp) ==
    CASE inbound = "anthropic" -> <<AnthropicMessage("assistant", resp.content)>>
      [] inbound = "responses" ->
            LET item(b) == IF b.type = "call"
                           THEN Item("function_call", "", b.id, <<Part("args", b.data)>>)
                           ELSE IF b.type = "thinking"
                           THEN Item("reasoning", "", NoId, <<b>>)
                           ELSE Item("message", "assistant", NoId, <<Part("text", b.data)>>)
            IN  MapSeq(item, resp.output)
      [] OTHER ->
            <<[Message("assistant", IF resp.text = <<>> THEN <<>> ELSE <<Part("text", resp.text)>>)
                EXCEPT !.calls = resp.calls, !.string = ~scenario.lists]>>

FirstPayload(o) ==
    CASE inbound = "anthropic" -> [system |-> o.system, messages |-> <<>>, choice |-> o.choice]
      [] inbound = "responses" -> [instructions |-> o.system, input |-> <<>>, choice |-> o.choice]
      [] OTHER -> [messages |-> IF o.system = <<>> THEN <<>> ELSE <<Message(o.role, o.system)>>,
                   choice |-> o.choice]

\* results: [id, data] of the calls of the last answer.  A client that sends lists
\* gives the output of a call as a list, and an assistant's text beside its calls.
UserEntries(results, content) ==
    CASE inbound = "anthropic" ->
            <<AnthropicMessage("user",
                MapSeq(LAMBDA r : Block("result", r.id, r.data), results) \o content)>>
      [] inbound = "responses" ->
            LET type == IF scenario.lists THEN "input_text" ELSE "text"
            IN  MapSeq(LAMBDA r : Item("function_call_output", "", r.id, <<Part(type, r.data)>>), results)
                \o IF content = <<>> THEN <<>> ELSE <<Item("message", "user", NoId, content)>>
      [] OTHER ->
            MapSeq(LAMBDA r : [Message("tool", <<Part("text", r.data)>>) EXCEPT !.id = r.id], results)
            \o IF content = <<>> THEN <<>> ELSE <<Message("user", content)>>
AddToPayload(entries) ==
    IF inbound = "responses" THEN [payload EXCEPT !.input = @ \o entries]
    ELSE [payload EXCEPT !.messages = @ \o entries]

(***************************************************************************)
(* Utterances: what a request says, whatever its dialect                     *)
(***************************************************************************)
Utter(who, b) ==
    CASE b.type \in {"text", "thinking"} ->
            [i \in DOMAIN b.data |-> [who |-> who, what |-> b.type, id |-> NoId, data |-> b.data[i]]]
      [] OTHER -> <<[who |-> who, what |-> b.type, id |-> b.id, data |-> b.data]>>
UtterAll(who, blocks) == FlattenSeq(MapSeq(LAMBDA b : Utter(who, b), blocks))

SaidInMessage(m) ==
    UtterAll(IF IsSystem(m) THEN "system" ELSE m.role,
             (IF m.thinking = <<>> THEN <<>> ELSE <<Part("thinking", m.thinking)>>)
             \o (IF m.role = "tool" THEN <<>> ELSE m.content) \o MapSeq(CallBlock, m.calls))
    \o IF m.role = "tool" THEN Utter("user", Block("result", m.id, Joined(m.content, "text"))) ELSE <<>>
SaidInItem(it) ==
    CASE it.type = "function_call" -> Utter("assistant", Block("call", it.id, Joined(it.content, "args")))
      [] it.type = "function_call_output" -> Utter("user", Block("result", it.id, Joined(it.content, "text")))
      [] OTHER -> UtterAll(it.role, it.content)
SaidIn(dialect, request) ==
    CASE dialect = "anthropic" ->
            UtterAll("system", request.system)
            \o FlattenSeq(MapSeq(LAMBDA m : UtterAll(m.role, m.content), request.messages))
      [] dialect = "responses" ->
            UtterAll("system", request.instructions) \o FlattenSeq(MapSeq(SaidInItem, request.input))
      [] OTHER -> FlattenSeq(MapSeq(SaidInMessage, request.messages))

(***************************************************************************)
(* The conversation                                                         *)
(***************************************************************************)
Calls(blocks) == Of(blocks, "call")
Answers == Cardinality({i \in DOMAIN spoken : spoken[i].what = "turn"})

Init ==
    /\ scenario \in Scenarios
    /\ \E o \in Openings :
        /\ payload = FirstPayload(o)
        /\ spoken = UtterAll("system", o.system)
    /\ stage = "quiet" /\ closed = FALSE /\ said = <<>> /\ finish = "" /\ count = 0 /\ events = <<>>
    /\ reader = Reader /\ writer = Quiet(Writer(inbound)) /\ client = NoClient

\* the client sends its next user message, with the results of the calls made
Ask ==
    /\ stage = "quiet"
    /\ \E input \in Inputs :
        LET results == MapSeq(LAMBDA b : [id |-> b.id, data |-> <<b.id>>], Calls(said))
            content == IF results = <<>> THEN input ELSE Texts(input)   \* see the README on images
            blocks == MapSeq(LAMBDA r : Block("result", r.id, r.data), results) \o content
        IN  /\ blocks # <<>>
            /\ payload' = AddToPayload(UserEntries(results, content))
            /\ spoken' = spoken \o UtterAll("user", blocks)
    /\ stage' = "asked" /\ closed' = FALSE /\ said' = <<>> /\ finish' = "" /\ events' = <<>>
    /\ reader' = Reader /\ writer' = Writer(inbound) /\ client' = NoClient
    /\ UNCHANGED <<scenario, count>>

\* the upstream sends events; the gateway translates each and the client takes
\* what comes of it
Transmit(evs) ==
    LET r == ReadAll(upstream, reader, evs)
        opening == IF client.end = "none" /\ inbound # "openai" THEN Writer(inbound).out ELSE <<>>
        w == WriteAll(inbound, writer, r.out)
    IN  /\ events' = events \o evs
        /\ reader' = Quiet(r) /\ writer' = Quiet(w)
        /\ client' = FoldLeft(Take, client, opening \o w.out)

UpstreamBegins ==
    /\ stage = "asked" /\ ~closed /\ stage' = "open" /\ Answers < MaxAnswers
    /\ Transmit(CASE wire = "anthropic" -> <<E("message_start", 0, 0)>>
                  [] wire = "responses" -> <<E("created", 0, 0)>>
                  [] OTHER -> <<E("role", 0, 0)>>)
    /\ UNCHANGED <<scenario, closed, payload, spoken, said, finish, count>>

Index(n) == n - 1
CallIndex(n) == Cardinality({i \in 1..(n - 1) : said[i].type = "call"})
Closes ==
    IF said = <<>> \/ wire = "openai" THEN <<>> ELSE
    CASE wire = "anthropic" -> <<E("stop", Index(Len(said)), 0)>>
      [] OTHER -> <<E("done_item", Index(Len(said)), said[Len(said)])>>

StartName == [text |-> "start_text", thinking |-> "start_thinking", call |-> "start_call"]
AddedName == [text |-> "added_text", thinking |-> "added_reasoning", call |-> "added_call"]

UpstreamOpens ==
    /\ stage = "open"
    /\ \E type \in {"text", "thinking", "call"} :
        LET n == Len(said) + 1
            id == IF type = "call" THEN count + 1 ELSE NoId
        IN  /\ type = "call" => count < MaxCount
            /\ \E shape \in Shapes :
                IsPrefix(Append([i \in DOMAIN said |-> said[i].type], type), shape)
            /\ said' = Append(said, Block(type, id, <<>>))
            /\ count' = IF type = "call" THEN count + 1 ELSE count
            /\ Transmit(Closes \o
                    CASE wire = "anthropic" -> <<E(StartName[type], Index(n), id)>>
                      [] wire = "responses" -> <<E(AddedName[type], Index(n), id)>>
                      [] OTHER -> IF type = "call" THEN <<CallChunk(CallIndex(n), id, <<>>)>> ELSE <<>>)
    /\ UNCHANGED <<scenario, closed, payload, spoken, stage, finish>>

DeltaName == [text |-> "text", thinking |-> "thinking", call |-> "json"]
ItemDeltaName == [text |-> "text", thinking |-> "reasoning", call |-> "args"]
ChunkOf(n, p) ==
    CASE said[n].type = "text" -> E("content", 0, p)
      [] said[n].type = "thinking" -> E("reasoning", 0, p)
      [] OTHER -> CallChunk(CallIndex(n), NoId, <<p>>)

\* calls an OpenAI upstream makes in parallel may be interleaved
UpstreamContinues ==
    /\ stage = "open" /\ count < MaxCount
    /\ \E n \in DOMAIN said :
        /\ n = Len(said) \/ (wire = "openai" /\ said[n].type = "call")
        /\ count' = count + 1
        /\ said' = [said EXCEPT ![n].data = Append(@, count + 1)]
        /\ Transmit(CASE wire = "anthropic" -> <<E(DeltaName[said[n].type], Index(n), count + 1)>>
                      [] wire = "responses" -> <<E(ItemDeltaName[said[n].type], Index(n), count + 1)>>
                      [] OTHER -> <<ChunkOf(n, count + 1)>>)
    /\ UNCHANGED <<scenario, closed, payload, spoken, stage, finish>>

Used == [in |-> 3, out |-> 5]
\* an Anthropic upstream reports its input tokens with message_start
Reported == IF wire = "anthropic" THEN [Used EXCEPT !.in = 0] ELSE Used

UpstreamEnds ==
    /\ stage = "open" /\ stage' = "ended"
    /\ \E why \in {"length", IF Calls(said) = <<>> THEN "stop" ELSE "tool_calls"} :
        LET status == StatusOfFinish(why)
        IN  /\ finish' = why
            /\ Transmit(Closes \o
                    CASE wire = "anthropic" ->
                            <<E("message_delta", 0, [stop |-> StopOf(why), usage |-> Reported]),
                              E("message_stop", 0, 0)>>
                      [] wire = "responses" ->
                            <<E(status, 0, [status |-> status, reason |-> ReasonOfFinish(why),
                                            output |-> IF scenario.sparse THEN <<>> ELSE said,
                                            usage |-> Reported])>>
                      [] OTHER -> <<Finishes(why, NoUsage), Finishes("", Reported), Done>>)
    /\ UNCHANGED <<scenario, closed, payload, spoken, said, count>>

UpstreamFails ==
    /\ stage = "open" /\ stage' = "failed"
    /\ \/ Transmit(<<E("error", 0, 0)>>)
       \/ /\ wire = "responses"
          /\ Transmit(<<E("failed", 0, [status |-> "failed", reason |-> "", output |-> <<>>,
                                        usage |-> NoUsage])>>)
    /\ UNCHANGED <<scenario, closed, payload, spoken, said, finish, count>>

ConnectionCloses ==
    /\ stage # "quiet" /\ ~closed /\ closed' = TRUE
    /\ stage' = IF stage \in {"asked", "open"} THEN "lost" ELSE stage
    /\ Transmit(<<Eof>>)
    /\ UNCHANGED <<scenario, payload, spoken, said, finish, count>>

Whole == Folded(inbound, upstream, events)

\* the client keeps a finished answer, the one it assembled or, if it asked for no
\* stream, the folded one
Keep ==
    /\ stage = "ended" /\ stage' = "quiet"
    /\ \/ /\ client.end = "complete"
          /\ payload' = AddToPayload(AnswerEntries(Kept(client)))
       \/ /\ ~Whole.failed
          /\ payload' = AddToPayload(AnswerEntries(Whole))
    /\ spoken' = Append(spoken \o UtterAll("assistant", said),
                        [who |-> "assistant", what |-> "turn", id |-> NoId, data |-> 0])
    /\ events' = <<>> /\ client' = NoClient /\ reader' = Reader /\ writer' = Quiet(Writer(inbound))
    /\ UNCHANGED <<scenario, closed, said, finish, count>>

Next ==
    \/ Ask \/ UpstreamBegins \/ UpstreamOpens \/ UpstreamContinues
    \/ UpstreamEnds \/ UpstreamFails \/ ConnectionCloses \/ Keep

Spec == Init /\ [][Next]_vars

(***************************************************************************)
(* Properties                                                               *)
(***************************************************************************)

\* A translated stream is one its client can read: every delta and every stop names
\* a block that is open and of its kind, no index is used twice, all blocks are
\* closed before the end and nothing follows it.  (openai_stream_to_anthropic,
\* openai_stream_to_responses, transform.py:630 and :1273)
DeltasFindTheirBlock == ~client.astray

\* What the client has assembled is what the upstream has said so far, and stays so
\* whatever happens to the stream: the text, the reasoning (a Responses stream carries
\* none), each call with its own arguments.  Of a finished answer the client also has
\* the reason it stopped and the output tokens.
AnswerArrives ==
    LET a == Assembled(client)
    IN  /\ stage # "quiet" =>
            /\ a.text = Joined(said, "text")
            /\ inbound # "responses" => a.thinking = Joined(said, "thinking")
            /\ a.calls = MapSeq(CallOfBlock, Of(said, "call"))
        /\ stage = "ended" /\ client.end = "complete" =>
            client.finish = finish /\ client.usage.out = Used.out

AsHub(resp) ==
    CASE inbound = "anthropic" -> HubOfAnthropicResponse(resp)
      [] inbound = "responses" -> HubOfResponse(resp)
      [] OTHER -> resp

\* A client that does not stream gets of the same events what a streaming one
\* assembles, however the stream ends, unless it gets an error; and it gets an error
\* wherever the streaming one is cut off.  Of a finished stream of the upstream's own
\* dialect the two agree on the error as well, on the reason and on the usage.  (They
\* take different paths, _translate_stream and _aggregate_stream with
\* _translate_response.)  Not claimed, since the code does otherwise: of a Responses
\* stream that failed or broke off the fold is an error (transform.py:1844) where the
\* streaming client is told that it is complete (:1724), and so it is for Anthropic
\* events in a Responses stream (:1554).
StreamedAsFolded ==
    LET w == AsHub(Whole) a == Assembled(client)
        over == stage \in {"ended", "failed", "lost"}
    IN  /\ over /\ client.end = "cut" => Whole.failed
        /\ over /\ ~Whole.failed =>
            /\ w.text = a.text /\ w.calls = a.calls
            /\ inbound # "responses" => w.thinking = a.thinking
        /\ stage = "ended" /\ wire = upstream =>
            /\ Whole.failed => client.end = "cut"
            /\ ~Whole.failed => w.finish = client.finish /\ w.usage = client.usage

\* A client that asked for no stream never gets an answer of a generation that failed,
\* nor of a Responses stream that ended early; a streaming one is told of the failure
\* of an Anthropic stream.  (UpstreamStreamError, transform.py:590 and :1810.)  The
\* other two translations do not tell it: a failed Responses stream and an OpenAI chunk
\* with an error end for a streaming client as if complete (see the README).
NoFailureFolded ==
    /\ stage = "failed" => Whole.failed
    /\ stage = "lost" /\ upstream = "responses" => Whole.failed
    /\ stage = "failed" /\ wire = "anthropic" => client.end = "cut"

\* The client has what was said, and no failure is folded into an answer.
AnswerIntact == AnswerArrives /\ NoFailureFolded

Request == Translate(inbound, upstream, payload)
Spoken(utterances, who, what) ==
    SelectSeq(utterances, LAMBDA u : u.who = who /\ u.what = what)

\* Two list forms lose their text on the way, and only these: the text an OpenAI client
\* sends beside its calls to an Anthropic upstream (transform.py:139), and the output of
\* a call of a Responses client (_stringify, :826, called at :1095).
Turn(i) == Cardinality({j \in 1..(i - 1) : spoken[j].what = "turn"})
BesideCalls(i) ==
    /\ spoken[i].who = "assistant" /\ spoken[i].what = "text"
    /\ \E j \in DOMAIN spoken : spoken[j].what = "call" /\ Turn(j) = Turn(i)
Conveyed ==
    LET emptied(u) == IF scenario.lists /\ inbound = "responses" /\ u.what = "result"
                      THEN [u EXCEPT !.data = <<>>] ELSE u
        reaches(i) == scenario.lists /\ inbound = "openai" /\ upstream = "anthropic" => ~BesideCalls(i)
    IN  MapSeq(LAMBDA i : emptied(spoken[i]), SelectSeq([i \in DOMAIN spoken |-> i], reaches))

\* The translated request says what was said so far, turn after turn: but for those two
\* forms nothing the client or the upstream said is lost, repeated or put into another
\* mouth, and an Anthropic client gives an OpenAI upstream its reasoning back.
RequestSaysItAll ==
    stage = "asked" =>
        LET there == SaidIn(upstream, Request)
        IN  /\ \A what \in {"text", "image", "result"} :
                Spoken(there, "user", what) = Spoken(Conveyed, "user", what)
            /\ \A what \in {"text", "call"} :
                Spoken(there, "assistant", what) = Spoken(Conveyed, "assistant", what)
            /\ Spoken(there, "system", "text") = Spoken(Conveyed, "system", "text")
            /\ inbound = "anthropic" /\ upstream = "openai" =>
                Spoken(there, "assistant", "thinking") = Spoken(Conveyed, "assistant", "thinking")

\* In the request an upstream gets, every result follows its call with no word of the
\* user between: upstreams reject any other order.
ResultsFollowCalls ==
    stage = "asked" =>
        LET there == SaidIn(upstream, Request)
        IN  \A i \in DOMAIN there : there[i].what = "result" =>
                \E j \in 1..(i - 1) :
                    /\ there[j].what = "call" /\ there[j].id = there[i].id
                    /\ \A k \in j..i : there[k].what \in {"text", "image"} => there[k].who = "assistant"

\* The request an upstream gets says it all, in an order it accepts.
RequestIntact == RequestSaysItAll /\ ResultsFollowCalls

\* What the client sees is an answer as Answer describes one.
Seen == INSTANCE Answer WITH
    text <- Assembled(client).text, thinking <- Assembled(client).thinking,
    calls <- Assembled(client).calls, end <- client.end
IsAnAnswer == Seen!Spec

\* The module's docstring names token usage among what is translated faithfully
\* (transform.py:16).
UsageArrives ==
    stage = "ended" /\ client.end = "complete" => client.usage = Used
=============================================================================
