---------------------------- MODULE ClaudeRequest ----------------------------
(***************************************************************************)
(* translate/claude/request.go and fromopenai.go: a request in Claude's    *)
(* format becomes an OpenAI request, and back.                             *)
(***************************************************************************)
EXTENDS RequestBody

-----------------------------------------------------------------------------
(* Claude to OpenAI *)

(* convertClaudeContentBlocks.  An image without data has no URL. *)
ConvertClaudeContentBlocks(content) ==
    MapEach(LAMBDA p : IF p.type = "image" THEN Part("image_url", p.text) ELSE p,
            Keep(content, LAMBDA p : p.type = "text" \/ (p.type = "image" /\ p.text # <<>>)))

(* Results become messages of their own, before the text of the message.   *)
(* Images beside a result are dropped.                                     *)
ConvertClaudeUserMessage(m) ==
    LET results == OfType(m.content, {"tool_result"})
        text == JoinedText(m.content, {"text"})
    IN IF results = <<>> THEN <<[m EXCEPT !.content = ConvertClaudeContentBlocks(@)]>>
       ELSE MapEach(LAMBDA p : ToolMessage(ScrubToolID(p.id), p.text), results)
            \o (IF text = <<>> THEN <<>> ELSE <<Message("user", <<Text(text)>>)>>)

(* mustJSON keeps the first object of an input that did not parse. *)
ConvertClaudeAssistantMessage(m) ==
    LET uses == OfType(m.content, {"tool_use"})
        thinking == JoinedText(m.content, {"thinking"})
        call(p) == Call(ScrubToolID(p.id), p.name, RepairToolArgs(p.args))
    IN <<[m EXCEPT !.content = IF uses = <<>> THEN ConvertClaudeContentBlocks(@)
                               ELSE OneText(JoinedText(@, {"text"})),
                   !.calls = MapEach(call, uses),
                   !.reasoning = thinking,
                   !.as = IF thinking = <<>> THEN "" ELSE "reasoning_content"]>>

ConvertClaudeMessages(messages) ==
    FlatMap(LAMBDA m : CASE m.role = "user" -> ConvertClaudeUserMessage(m)
                         [] m.role = "assistant" -> ConvertClaudeAssistantMessage(m)
                         [] OTHER -> <<[m EXCEPT !.id = ScrubToolID(@)]>>,
            messages)

(* "none", which is not Claude's, is read as auto, as is anything else. *)
ConvertClaudeToolChoice(c) ==
    CASE c.type = "" -> c
      [] c.type = "any" -> Choice("required")
      [] c.type = "tool" -> [c EXCEPT !.type = "function"]
      [] OTHER -> Choice("auto")

(* copyThinking and mapEffort: adaptive thinking has no OpenAI form, and   *)
(* an effort that is not OpenAI's is dropped, none among them.             *)
CopyThinking(t) == IF t.type \in {"enabled", "disabled"} THEN t ELSE NoThinking

Efforts == {"minimal", "low", "medium", "high", "xhigh", "max"}

MapEffort(effort) == IF effort \in Efforts THEN effort ELSE ""

SystemMessage(text) == IF text = <<>> THEN <<>> ELSE <<Message("system", <<Text(text)>>)>>

ClaudeToOpenAI(b) ==
    [b EXCEPT !.format = "openai", !.system = <<>>,
              !.messages = SystemMessage(b.system) \o ConvertClaudeMessages(@),
              !.choice = ConvertClaudeToolChoice(@),
              !.thinking = CopyThinking(@), !.effort = MapEffort(@)]

-----------------------------------------------------------------------------
(* OpenAI to Claude *)

(* splitContent: one string among the parts, and none of them is read. *)
SplitContent(content) == IF OfType(content, {"bare"}) # <<>> THEN <<>> ELSE content

UserContentToBlocks(m) ==
    MapEach(LAMBDA p : IF p.type = "image_url" THEN Part("image", p.text) ELSE p,
            Keep(SplitContent(m.content), LAMBDA p :
                \/ p.type = "tool_result"
                \/ p.type \in {"text", "image_url", "image"} /\ p.text # <<>>))

(* The parts of concatenated arguments are calls of their own, numbered. *)
CallToBlocks(c) ==
    LET parts == SplitToolArgs(c.args)
    IN [i \in DOMAIN parts |->
          ToolUse(IF Len(parts) > 1 THEN Numbered(c.id, i) ELSE c.id, c.name, <<parts[i]>>)]

(* Mutant: what an assistant says beside its calls is dropped. *)
AssistantContentToBlocksCallsOnly(m) ==
    IF m.calls # <<>> THEN FlatMap(CallToBlocks, m.calls)
    ELSE Keep(SplitContent(m.content), LAMBDA p : p.type = "text" /\ p.text # <<>>)

AssistantContentToBlocks(m) ==
    Keep(SplitContent(m.content), LAMBDA p :
        \/ p.type \in {"tool_use", "thinking"}
        \/ p.type = "text" /\ p.text # <<>>)
    \o FlatMap(CallToBlocks, m.calls)

OpenAIMessageToBlocks(m) ==
    CASE m.role = "tool" -> <<ToolResult(m.id, JoinedText(m.content, {"text"}))>>
      [] m.role = "user" -> UserContentToBlocks(m)
      [] OTHER -> AssistantContentToBlocks(m)

Flush(x) ==
    [out |-> IF x.role = "" \/ x.blocks = <<>> THEN x.out
             ELSE Append(x.out, Message(x.role, x.blocks)),
     role |-> "", blocks |-> <<>>]

(* Results join the message before them when that has nothing else. *)
PushOrMergeToolResults(out, results) ==
    LET n == Len(out)
    IN IF n > 0 /\ out[n].role = "user" /\ \A p \in Range(out[n].content) : p.type = "tool_result"
         THEN [out EXCEPT ![n].content = @ \o results]
         ELSE Append(out, Message("user", results))

(* Messages of one role are merged; results go alone, and a message with a *)
(* call is closed behind it.                                               *)
PushMessage(x, m) ==
    LET role == IF m.role = "tool" THEN "user" ELSE m.role
        blocks == OpenAIMessageToBlocks(m)
        results == OfType(blocks, {"tool_result"})
        others == Keep(blocks, LAMBDA p : p.type # "tool_result")
        f == IF x.role # role THEN [Flush(x) EXCEPT !.role = role] ELSE x
        g == [f EXCEPT !.blocks = @ \o blocks]
    IN IF m.role = "system" THEN x
       ELSE IF results # <<>>
         THEN [out |-> PushOrMergeToolResults(Flush(x).out, results),
               role |-> IF others = <<>> THEN "" ELSE role, blocks |-> others]
       ELSE IF OfType(blocks, {"tool_use"}) # <<>> THEN Flush(g) ELSE g

BuildClaudeMessages(messages) ==
    Flush(Loop(PushMessage, [out |-> <<>>, role |-> "", blocks |-> <<>>], messages)).out

(* collectSystemParts *)
CollectSystemParts(messages) ==
    FlatMap(LAMBDA m : IF m.role # "system" THEN <<>> ELSE JoinedText(SplitContent(m.content), {"text"}),
            messages)

(* parseToolArgs refuses what is not one JSON value: a call whose          *)
(* arguments make one part is read as it stands, repetition and all.       *)
Unparsable(c) ==
    Len(SplitToolArgs(c.args)) = 1 /\ (Len(c.args) > 1 \/ c.args = <<"bad">>)

RejectedByClaude(b) ==
    \E m \in Range(b.messages) : m.role = "assistant" /\ \E c \in Range(m.calls) : Unparsable(c)

(* reasoningEffortToBudget *)
ReasoningEffortToBudget(effort) ==
    CASE effort = "xhigh" -> 32768
      [] effort = "high" -> 16384
      [] effort = "medium" -> 8192
      [] effort = "low" -> 4096
      [] OTHER -> 0

(* A choice in the shape of Responses is not understood. *)
ConvertOpenAIToolChoice(c) ==
    CASE c.type = "" -> c
      [] c.type = "function" -> [c EXCEPT !.type = "tool"]
      [] c.type = "required" -> Choice("any")
      [] OTHER -> Choice("auto")

OpenAIThinking(b) ==
    IF b.thinking.type # "" THEN b.thinking
    ELSE IF ReasoningEffortToBudget(b.effort) = 0 THEN NoThinking
    ELSE [type |-> "enabled", budget |-> ReasoningEffortToBudget(b.effort)]

(* max_completion_tokens wins over max_tokens, whatever AdjustMaxTokens    *)
(* made of that.                                                           *)
ClaudeMaxTokens(b) == IF b.completion # 0 THEN b.completion ELSE b.max

ClaudeFromOpenAI(b) ==
    [b EXCEPT !.format = "claude",
              !.system = CollectSystemParts(b.messages),
              !.messages = BuildClaudeMessages(@),
              !.tools = IF b.choice.type = "none" THEN <<>> ELSE @,
              !.choice = ConvertOpenAIToolChoice(@),
              !.max = ClaudeMaxTokens(b), !.kept = 0, !.completion = 0,
              !.thinking = OpenAIThinking(b), !.effort = "", !.usage = FALSE]
=============================================================================
