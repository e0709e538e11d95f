-------------------------- MODULE ResponsesRequest --------------------------
(***************************************************************************)
(* translate/responses/request.go: a Responses request becomes an OpenAI   *)
(* request, and back.  An item is a message, or has one of the roles       *)
(* function_call, function_call_output and reasoning; an image is          *)
(* input_image.                                                            *)
(***************************************************************************)
EXTENDS RequestBody

(* sanitizeArgs keeps the first of several objects. *)
SanitizeArgs(args) == IF args = <<>> \/ args[1] = "bad" THEN <<"{}">> ELSE <<args[1]>>

NormalizeInput(items) == IF items = <<>> THEN <<Message("user", <<Text(Dots)>>)>> ELSE items

-----------------------------------------------------------------------------
(* Responses to OpenAI.  current is the assistant message that collects    *)
(* calls, if any, and pending the reasoning that waits for its message.    *)

WithReasoning(m, text) ==
    IF text = <<>> THEN m ELSE [m EXCEPT !.reasoning = text, !.as = "reasoning_content"]

(* Reasoning that came behind the first call replaces what came before it. *)
FlushAssistant(x) ==
    IF x.current = <<>> THEN x
    ELSE [out |-> Append(x.out, WithReasoning(x.current[1], x.pending)),
          current |-> <<>>, pending |-> <<>>]

ConvertMessage(x, m) ==
    LET f == FlushAssistant(x)
        content == MapEach(LAMBDA p : IF p.type = "input_image" THEN Part("image_url", p.text) ELSE p,
                           m.content)
        msg == [m EXCEPT !.content = content]
    IN [f EXCEPT !.out = Append(@, IF m.role = "assistant" THEN WithReasoning(msg, f.pending) ELSE msg),
                 !.pending = <<>>]

(* The assistant is there before the call's name is looked at. *)
ConvertFunctionCall(x, m) ==
    LET opened == IF x.current # <<>> THEN x
                  ELSE [x EXCEPT !.current = <<WithReasoning(Message("assistant", <<>>), x.pending)>>,
                                 !.pending = <<>>]
        c == m.calls[1]
        call == Call(ClampCallID(c.id), c.name, SanitizeArgs(c.args))
    IN IF c.name = "" THEN opened ELSE [opened EXCEPT !.current[1].calls = Append(@, call)]

ConvertOutput(x, m) ==
    [FlushAssistant(x) EXCEPT !.out = Append(@, ToolMessage(ClampCallID(m.id), JoinedText(m.content, {"text"})))]

ConvertItem(x, m) ==
    CASE m.role = "function_call" -> ConvertFunctionCall(x, m)
      [] m.role = "function_call_output" -> ConvertOutput(x, m)
      [] m.role = "reasoning" -> [x EXCEPT !.pending = @ \o m.reasoning]
      [] OTHER -> ConvertMessage(x, m)

ConvertItems(items) ==
    FlushAssistant(Loop(ConvertItem, [out |-> <<>>, current |-> <<>>, pending |-> <<>>], items)).out

ResponsesToOpenAI(b) ==
    [b EXCEPT !.format = "openai", !.system = <<>>, !.kept = b.max,
              !.messages = (IF b.system = <<>> THEN <<>> ELSE <<Message("system", <<Text(b.system)>>)>>)
                           \o ConvertItems(NormalizeInput(@)),
              !.effort = IF @ = "none" THEN "" ELSE @]

-----------------------------------------------------------------------------
(* OpenAI to Responses.  Only the first system message is kept.            *)

(* Mutant: only the newer name of the role is known. *)
IsSystemDeveloper(m) == m.role = "developer"

IsSystem(m) == m.role \in {"system", "developer"}

BuildReasoningInput(m) ==
    IF m.reasoning = <<>> THEN <<>> ELSE <<[Message("reasoning", <<>>) EXCEPT !.reasoning = m.reasoning]>>

MessageToItems(m) ==
    LET content == MapEach(LAMBDA p : IF p.type = "image_url" THEN Part("input_image", p.text) ELSE p,
                           Keep(m.content, LAMBDA p : p.type # "bare"))
        item == IF content = <<>> THEN <<>> ELSE <<Message(m.role, content)>>
        call(c) == [Message("function_call", <<>>)
                      EXCEPT !.calls = <<Call(ClampCallID(c.id), c.name, SanitizeArgs(c.args))>>]
    IN CASE IsSystem(m) -> <<>>
         [] m.role = "tool" -> <<[Message("function_call_output", OneText(JoinedText(m.content, {"text"})))
                                    EXCEPT !.id = ClampCallID(m.id)]>>
         [] m.role = "assistant" -> BuildReasoningInput(m) \o item \o MapEach(call, m.calls)
         [] OTHER -> item

MaxOutputTokens(b) ==
    IF b.kept # 0 THEN b.kept ELSE IF b.completion # 0 THEN b.completion ELSE b.max

(* A body that has an input instead of messages is sent by no OpenAI       *)
(* client here; the code keeps such a one, but for the name of its limit.  *)
ResponsesFromOpenAI(b) ==
    LET systems == Keep(b.messages, IsSystem)
    IN [b EXCEPT !.format = "responses",
                 !.system = IF systems = <<>> THEN <<>> ELSE JoinedText(systems[1].content, {"text"}),
                 !.messages = FlatMap(MessageToItems, @),
                 !.max = MaxOutputTokens(b), !.kept = 0, !.completion = 0,
                 !.effort = IF @ = "none" THEN "" ELSE @,
                 !.thinking = NoThinking, !.stop = <<>>, !.usage = FALSE]
=============================================================================
