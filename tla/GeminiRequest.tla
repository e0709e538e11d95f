---------------------------- MODULE GeminiRequest ----------------------------
(***************************************************************************)
(* translate/gemini/request.go: a Gemini request becomes an OpenAI         *)
(* request.  A functionCall is a tool_use without an id, a                 *)
(* functionResponse a tool_result whose id is often missing.               *)
(***************************************************************************)
EXTENDS RequestBody

(* geminiToolCallID makes an id of the name and the part's index. *)
GeminiToolCallID(name, index) == [base |-> name, dirt |-> "call_gemini", n |-> <<index>>]

(* Two texts become a list of strings. *)
GeminiTexts(texts) ==
    IF Len(texts) < 2 THEN texts ELSE MapEach(LAMBDA p : Part("bare", p.text), texts)

(* convertGeminiContent.  Images beside a call are dropped. *)
ConvertGeminiContent(m) ==
    LET role == IF m.role = "model" THEN "assistant" ELSE m.role
        texts == Keep(m.content, LAMBDA p : p.type = "text" /\ p.text # <<>>)
        images == MapEach(LAMBDA p : Part("image_url", p.text), OfType(m.content, {"image"}))
        callAt(i) == Call(GeminiToolCallID(m.content[i].name, i - 1), m.content[i].name, m.content[i].args)
        calls == FlattenSeq([i \in DOMAIN m.content |->
                   IF m.content[i].type = "tool_use" THEN <<callAt(i)>> ELSE <<>>])
        response(p) == ToolMessage(IF p.id = NoID THEN ToolID(p.name, "") ELSE p.id, p.text)
    IN MapEach(response, OfType(m.content, {"tool_result"}))
       \o IF role = "assistant" /\ calls # <<>>
            THEN <<[Message(role, GeminiTexts(texts)) EXCEPT !.calls = calls]>>
            ELSE <<Message(role, IF images = <<>> THEN GeminiTexts(texts) ELSE texts \o images)>>

(* The configuration of thinking, and the tool choice, are not read. *)
GeminiToOpenAI(b) ==
    [b EXCEPT !.format = "openai", !.system = <<>>,
              !.messages = (IF b.system = <<>> THEN <<>> ELSE <<Message("system", <<Text(b.system)>>)>>)
                           \o FlatMap(ConvertGeminiContent, @),
              !.choice = Choice(""), !.thinking = NoThinking, !.effort = ""]
=============================================================================
