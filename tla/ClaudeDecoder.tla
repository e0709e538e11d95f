---------------------------- MODULE ClaudeDecoder ----------------------------
(***************************************************************************)
(* translate/claude/stream_claude_to_openai.go: the events of a Claude     *)
(* stream become OpenAI chunks.                                            *)
(***************************************************************************)
EXTENDS StreamText

(* calls maps the number of a Claude block to its OpenAI tool call. *)
NewDecoder == [next |-> 0, calls |-> <<>>, thinking |-> None, usage |-> {}, finished |-> FALSE]

Ignored(s) == [s |-> s, out |-> <<>>]

Chunks(s, out) == [s |-> s, out |-> out]

Think(k) == TextChunk(<<[k |-> k, at |-> None]>>)

OnContentBlockStart(s, e) ==
    CASE e.kind = "thinking" -> Chunks([s EXCEPT !.thinking = e.index], <<Think("think")>>)
      [] e.kind = "tool_use" ->
           Chunks([s EXCEPT !.calls = (e.index :> [index |-> s.next, args |-> <<>>]) @@ @,
                            !.next = @ + 1],
                  <<ToolChunk(s.next, e.data, <<>>)>>)
      [] OTHER -> Ignored(s)

(* Arguments wait for the end of their block. *)
OnContentBlockDelta(s, e) ==
    CASE e.kind = "text" -> Chunks(s, <<TextChunk(e.data)>>)
      [] e.kind = "thinking" -> Chunks(s, <<ReasoningChunk(e.data)>>)
      [] e.kind = "input_json" /\ e.index \in DOMAIN s.calls ->
           Ignored([s EXCEPT !.calls[e.index].args = @ \o e.data])
      [] OTHER -> Ignored(s)

OnContentBlockStop(s, e) ==
    IF e.index \in DOMAIN s.calls /\ s.calls[e.index].args # <<>>
      THEN Chunks([s EXCEPT !.calls[e.index].args = <<>>],
                  <<ToolChunk(s.calls[e.index].index, "", s.calls[e.index].args)>>)
    ELSE IF s.thinking = e.index
      THEN Chunks([s EXCEPT !.thinking = None], <<Think("unthink")>>)
    ELSE Ignored(s)

(* The prompt side is that of message_start whenever that has a usage, the *)
(* output side that of message_delta.                                      *)
MergedUsage(s, e) ==
    CASE e.usage = {} -> s.usage
      [] s.usage = {} -> e.usage
      [] OTHER -> (s.usage \cap {"in"}) \cup (e.usage \ {"in"})

OnMessageDelta(s, e) ==
    LET usage == MergedUsage(s, e)
    IN IF e.kind = "" THEN Ignored([s EXCEPT !.usage = usage])
       ELSE Chunks([s EXCEPT !.usage = usage, !.finished = TRUE],
                   <<[FinishChunk(OpenAIReason(e.kind)) EXCEPT
                        !.usage = IF usage = {} THEN {"zero"} ELSE usage]>>)

OnMessageStop(s) ==
    IF s.finished THEN Ignored(s)
    ELSE Chunks([s EXCEPT !.finished = TRUE],
                <<FinishChunk(IF s.calls = <<>> THEN "stop" ELSE "tool_calls")>>)

(* Nothing of the upstream counts after the finish reason. *)
DecodeClaude(s, e) ==
    IF s.finished THEN Ignored(s)
    ELSE CASE e.ev = "message_start" -> Chunks([s EXCEPT !.usage = e.usage], <<NoChunk>>)
           [] e.ev = "block_start" -> OnContentBlockStart(s, e)
           [] e.ev = "delta" -> OnContentBlockDelta(s, e)
           [] e.ev = "block_stop" -> OnContentBlockStop(s, e)
           [] e.ev = "message_delta" -> OnMessageDelta(s, e)
           [] e.ev = "message_stop" -> OnMessageStop(s)
           [] OTHER -> Ignored(s)
=============================================================================
