------------------------------ MODULE MCStreams ------------------------------
EXTENDS StreamPipeline

Formats == {"openai", "claude", "responses"}

Clients == Formats \cup {"gemini"}

(* A labelled response has the format of its wire; one without a label is  *)
(* an answer to an OpenAI request, as OpenAI or as Claude events.          *)
MCRoutes ==
    {[wire |-> w, label |-> w, asked |-> a, client |-> c] :
        w \in Formats, a \in Formats, c \in Clients}
    \cup {[wire |-> "claude", label |-> "", asked |-> "openai", client |-> c] : c \in Clients}

(* The pieces of an item, numbered by their place in the stream. *)
Numbered(kinds, n, base) ==
    [i \in 1..Len(kinds) |-> [k |-> kinds[i], at |-> 100 * n + base + i]]

Text(kinds, n) == TextChunk(Numbered(kinds, n, 30))

Tool(index, id, n, base) ==
    [index |-> index, id |-> id, args |-> Numbered(<<"p">>, n, base)]

(* Prose and the halves of an invoke block, in one delta or in several,    *)
(* reasoning, two parallel calls, usage and finish reasons.  The calls may *)
(* have one id, which only the translator to Claude tells apart.           *)
OpenAIItems(r, s) ==
    LET n == Len(s) + 1
        id == IF "responses" \in {r.asked, r.client} THEN "b" ELSE "a"
    IN IF n > 1 /\ s[n - 1].type = "done" THEN {}
       ELSE {Text(kinds, n) : kinds \in {<<"p", "h">>, <<"t", "p">>, <<"c", "p">>, <<"s">>,
                                         <<"p", "h", "t", "p", "c">>}}
            \cup {ReasoningChunk(Numbered(<<"p">>, n, 0)),
                  [NoChunk EXCEPT !.tools = <<Tool(0, "a", n, 60)>>],
                  [NoChunk EXCEPT !.choices = FALSE, !.usage = {"in", "out"}],
                  FinishChunk("length"), DoneLine}
            \cup (IF \A i \in DOMAIN s : s[i].tools = <<>> THEN {}
                  ELSE {[NoChunk EXCEPT !.tools = <<Tool(0, "", n, 60), Tool(1, id, n, 70)>>]})

(* A Claude stream: blocks one after the other, each with its deltas, then *)
(* message_delta and message_stop.  Some upstreams repeat the end of the   *)
(* last block behind message_stop.                                         *)
ClaudeItems(s) ==
    LET n == Len(s) + 1
        starts == SelectSeq(s, LAMBDA e : e.ev = "block_start")
        stops == SelectSeq(s, LAMBDA e : e.ev = "block_stop")
        last == Len(starts) - 1
        has(ev) == \E i \in DOMAIN s : s[i].ev = ev
        delta == [text |-> "text", thinking |-> "thinking", tool_use |-> "input_json"]
        deltas == {ClaudeEvent("delta", last, delta[starts[last + 1].kind], Numbered(<<"p">>, n, 30))}
    IN IF s = <<>> THEN {[ClaudeEvent("message_start", None, "", <<>>) EXCEPT !.usage = {"in"}]}
       ELSE IF has("message_stop") THEN IF last < 0 THEN {} ELSE
              deltas \cup {ClaudeEvent("block_stop", last, "", <<>>)}
       ELSE IF has("message_delta") THEN {ClaudeEvent("message_stop", None, "", <<>>)}
       ELSE IF Len(starts) > Len(stops) THEN
              deltas \cup {ClaudeEvent("block_stop", last, "", <<>>)}
       ELSE {ClaudeEvent("block_start", last + 1, "text", <<>>),
             ClaudeEvent("block_start", last + 1, "thinking", <<>>),
             ClaudeEvent("block_start", last + 1, "tool_use", "a" \o ToString(n)),
             [ClaudeEvent("message_delta", None, "max_tokens", <<>>) EXCEPT !.usage = {"out"}]}

(* A Responses stream: text, reasoning and two function calls in parallel, *)
(* whose deltas name them by item id and output index or by index alone.   *)
ResponsesItems(s) ==
    LET n == Len(s) + 1
        added == {i \in DOMAIN s : s[i].ev = "item.added"}
        args == Numbered(<<"p">>, n, 60)
        call(i) == ResponsesEvent("delta", "function_call", s[i].item, s[i].output, args)
    IN IF \E i \in DOMAIN s : s[i].ev \in {"completed", "failed"}
         THEN {ResponsesEvent("completed", "", "", None, <<>>)}
       ELSE {ResponsesEvent("delta", "message", "m", 0, Numbered(kinds, n, 30)) :
                kinds \in {<<"p", "h", "t", "p">>, <<"c", "p">>}}
            \cup {ResponsesEvent("delta", "reasoning", "r", 1, Numbered(<<"p">>, n, 0)),
                  ResponsesEvent("failed", "", "", None, <<>>),
                  [ResponsesEvent("completed", "", "", None, <<>>) EXCEPT !.usage = {"in", "out"}]}
            \cup (IF Cardinality(added) = 2 THEN {}
                  ELSE {[ResponsesEvent("item.added", "function_call", "i" \o ToString(n), n + 1, <<>>)
                           EXCEPT !.call = "a" \o ToString(n)]})
            \cup {call(i) : i \in added} \cup {[call(i) EXCEPT !.item = ""] : i \in added}

MCItems(r, s) ==
    CASE r.wire = "openai" -> OpenAIItems(r, s)
      [] r.wire = "claude" -> ClaudeItems(s)
      [] r.wire = "responses" -> ResponsesItems(s)

(* An OpenAI stream that takes one writer may be longer. *)
MCMaxItems(r) ==
    CASE r.wire = "openai" -> IF r.asked = "openai" THEN 4 ELSE 3
      [] r.wire = "claude" -> 7
      [] r.wire = "responses" -> 4
=============================================================================
