------------------------------ MODULE Requests ------------------------------
(***************************************************************************)
(* The request and the whole-response half of services/transform.py.         *)
(*                                                                          *)
(* A content is a sequence of parts, a text or image each; a request is what  *)
(* its dialect calls it: messages (OpenAI), a system and messages of blocks   *)
(* (Anthropic), instructions and items (Responses).                         *)
(***************************************************************************)
EXTENDS Streams


(***************************************************************************)
(* Messages                                                                 *)
(***************************************************************************)
\* string: the content is sent as a string, not as a list of parts
Message(role, content) ==
    [role |-> role, content |-> content, string |-> TRUE,
     thinking |-> <<>>, calls |-> <<>>, id |-> NoId]
AnthropicMessage(role, blocks) == [role |-> role, content |-> blocks]
Item(type, role, id, content) == [type |-> type, role |-> role, id |-> id, content |-> content]

\* a part of a list-form output of a Responses client has the type "input_text"
Part(type, data) == Block(type, NoId, data)
Texts(content) == Of(content, "text")
Parts(content) == SelectSeq(content, LAMBDA b : b.type \in {"text", "image"})
CallBlock(call) == Block("call", call.id, call.args)
CallOfBlock(b) == [id |-> b.id, args |-> b.data]
MapSeq(f(_), seq) == [i \in DOMAIN seq |-> f(seq[i])]

\* tool_choice
ChoiceToAnthropic(choice) ==
    CASE choice \in {"required", "any"} -> "any"
      [] choice = "named" -> "named"
      [] OTHER -> "auto"
ChoiceOfAnthropic(choice) ==
    CASE choice = "any" -> "required"
      [] choice = "named" -> "named"
      [] OTHER -> "auto"

(***************************************************************************)
(* anthropic_request_to_openai                                              *)
(***************************************************************************)
HubOfAnthropicMessage(m) ==
    LET calls == MapSeq(CallOfBlock, Of(m.content, "call"))
        results == Of(m.content, "result")
        result(b) == [Message("tool", <<Part("text", b.data)>>) EXCEPT !.id = b.id]
        thinking == IF m.role = "assistant" THEN Joined(m.content, "thinking") ELSE <<>>
    IN  IF m.role = "assistant" /\ calls # <<>>
        THEN <<[Message(m.role, Texts(m.content)) EXCEPT !.calls = calls, !.thinking = thinking]>>
        ELSE IF results # <<>>
        THEN MapSeq(result, results)
             \o IF Texts(m.content) = <<>> THEN <<>> ELSE <<Message(m.role, Texts(m.content))>>
        ELSE <<[Message(m.role, Parts(m.content)) EXCEPT !.thinking = thinking]>>
HubOfAnthropic(request) ==
    [messages |-> (IF request.system = <<>> THEN <<>> ELSE <<Message("system", request.system)>>)
                  \o FlattenSeq(MapSeq(HubOfAnthropicMessage, request.messages)),
     choice |-> ChoiceOfAnthropic(request.choice)]

(***************************************************************************)
(* openai_request_to_anthropic                                              *)
(***************************************************************************)
IsSystem(m) == m.role \in {"system", "developer"}
AnthropicOfHubMessage(m) ==
    CASE m.role = "tool" ->
            AnthropicMessage("user", <<Block("result", m.id, Joined(m.content, "text"))>>)
      [] m.role = "assistant" /\ m.calls # <<>> ->
            AnthropicMessage("assistant", (IF m.string THEN Texts(m.content) ELSE <<>>)
                                          \o MapSeq(CallBlock, m.calls))
      [] OTHER -> AnthropicMessage(m.role, Parts(m.content))

\* Mutated form: developer messages are no system messages.
SystemOfSystem(messages) ==
    FlattenSeq(MapSeq(LAMBDA m : Texts(m.content), SelectSeq(messages, LAMBDA m : m.role = "system")))
SystemOf(messages) ==
    FlattenSeq(MapSeq(LAMBDA m : Texts(m.content), SelectSeq(messages, IsSystem)))
AnthropicOfHub(request) ==
    [system |-> SystemOf(request.messages),
     messages |-> MapSeq(AnthropicOfHubMessage, SelectSeq(request.messages, LAMBDA m : ~IsSystem(m))),
     choice |-> ChoiceToAnthropic(request.choice)]

(***************************************************************************)
(* openai_request_to_responses                                              *)
(***************************************************************************)
ItemsOfHubMessage(m) ==
    LET call(c) == Item("function_call", "", c.id, <<Part("args", c.args)>>)
    IN  CASE m.role = "tool" ->
                <<Item("function_call_output", "", m.id, <<Part("text", Joined(m.content, "text"))>>)>>
          [] m.role = "assistant" ->
                (IF Texts(m.content) = <<>> THEN <<>> ELSE <<Item("message", m.role, NoId, Texts(m.content))>>)
                \o MapSeq(call, m.calls)
          [] OTHER -> <<Item("message", m.role, NoId, Parts(m.content))>>
ResponsesOfHub(request) ==
    [instructions |-> SystemOf(request.messages),
     input |-> FlattenSeq(MapSeq(ItemsOfHubMessage,
                                 SelectSeq(request.messages, LAMBDA m : ~IsSystem(m)))),
     choice |-> request.choice]

(***************************************************************************)
(* responses_request_to_openai: calls that follow one another become one     *)
(* assistant turn.                                                          *)
(***************************************************************************)
Calling(messages) == {i \in DOMAIN messages : messages[i].role = "assistant" /\ messages[i].calls # <<>>}
FoldsInto(messages) == Calling(messages) \cap {Len(messages)}
AddItem(messages, item) ==
    LET call == [id |-> item.id, args |-> Joined(item.content, "args")]
    IN  CASE item.type = "message" -> Append(messages, Message(item.role, Parts(item.content)))
          [] item.type = "function_call" ->
                IF FoldsInto(messages) = {}
                THEN Append(messages, [Message("assistant", <<>>) EXCEPT !.calls = <<call>>])
                ELSE [i \in DOMAIN messages |->
                        IF i \in FoldsInto(messages)
                        THEN [messages[i] EXCEPT !.calls = Append(@, call)] ELSE messages[i]]
          [] item.type = "function_call_output" ->
                Append(messages, [Message("tool", Texts(item.content)) EXCEPT !.id = item.id])
          [] OTHER -> messages
HubOfResponses(request) ==
    [messages |-> FoldLeft(AddItem,
                           IF request.instructions = <<>> THEN <<>>
                           ELSE <<Message("system", request.instructions)>>,
                           request.input),
     choice |-> request.choice]

\* dispatcher._prepare_body: openai_roles_to_system
RolesToSystem(request) ==
    [request EXCEPT !.messages =
        MapSeq(LAMBDA m : IF m.role = "developer" THEN [m EXCEPT !.role = "system"] ELSE m, @)]

\* dispatcher._translate_request
Translate(inbound, upstream, request) ==
    LET hub == CASE inbound = "anthropic" -> HubOfAnthropic(request)
                 [] inbound = "responses" -> HubOfResponses(request)
                 [] OTHER -> request
        body == IF inbound = upstream THEN request ELSE
                CASE upstream = "anthropic" -> AnthropicOfHub(hub)
                  [] upstream = "responses" -> ResponsesOfHub(hub)
                  [] OTHER -> hub
    IN  IF upstream = "openai" THEN RolesToSystem(body) ELSE body

(***************************************************************************)
(* Whole responses (dispatcher._translate_response)                         *)
(***************************************************************************)
HubOfAnthropicResponse(resp) ==
    [failed |-> FALSE,
     text |-> Joined(resp.content, "text"), thinking |-> Joined(resp.content, "thinking"),
     calls |-> MapSeq(CallOfBlock, Of(resp.content, "call")),
     finish |-> FinishOf(resp.stop), usage |-> resp.usage]
AnthropicResponseOfHub(resp) ==
    LET block(type, data) == IF data = <<>> THEN <<>> ELSE <<Part(type, data)>>
    IN  [failed |-> FALSE,
         content |-> block("thinking", resp.thinking) \o block("text", resp.text)
                     \o MapSeq(CallBlock, resp.calls),
         stop |-> StopOf(resp.finish), usage |-> resp.usage]
HubOfResponse(resp) ==
    LET calls == MapSeq(CallOfBlock, Of(resp.output, "call"))
    IN  [failed |-> FALSE,
         text |-> Joined(resp.output, "text"), thinking |-> Joined(resp.output, "thinking"),
         calls |-> calls, finish |-> FinishOfResponse(resp, calls # <<>>), usage |-> resp.usage]
ResponseOfHub(resp) ==
    LET block(type, data) == IF data = <<>> THEN <<>> ELSE <<Part(type, data)>>
    IN  [failed |-> FALSE,
         output |-> block("thinking", resp.thinking) \o block("text", resp.text)
                    \o MapSeq(CallBlock, resp.calls),
         status |-> StatusOfFinish(resp.finish), reason |-> ReasonOfFinish(resp.finish),
         usage |-> resp.usage]

\* _aggregate_stream and then _translate_response: the answer of one stream,
\* in the dialect of a client that did not ask for a stream
FoldStream(upstream, events) ==
    CASE upstream = "responses" -> FoldEvents(events)
      [] upstream = "anthropic" ->
            LET hub == FoldChunks(ReadAll("anthropic", Reader, events).out)
            IN  IF hub.failed THEN Failure ELSE AnthropicResponseOfHub(hub)
      [] OTHER -> FoldChunks(events)
Folded(inbound, upstream, events) ==
    LET resp == FoldStream(upstream, events)
        hub == CASE upstream = "anthropic" -> HubOfAnthropicResponse(resp)
                 [] upstream = "responses" -> HubOfResponse(resp)
                 [] OTHER -> resp
    IN  IF resp.failed \/ inbound = upstream THEN resp ELSE
        CASE inbound = "anthropic" -> AnthropicResponseOfHub(hub)
          [] inbound = "responses" -> ResponseOfHub(hub)
          [] OTHER -> hub
=============================================================================
