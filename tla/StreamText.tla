------------------------------ MODULE StreamText ------------------------------
(***************************************************************************)
(* What the stream translators exchange.                                   *)
(*                                                                         *)
(* Text is a sequence of pieces, each with its place in the upstream       *)
(* stream: "p" is prose, "h" and "t" the two halves of the DSML opener of  *)
(* an invoke block (split inside its sigil), "c" its closer, "s" prose     *)
(* that looks like a growing opener for good ("<i "), "think" and          *)
(* "unthink" the markers <think> and </think>.  An "h" that is not         *)
(* followed by a "t", and a "t" with no "h" before it, are prose.          *)
(* Arguments of tool calls are pieces too: fragments of one JSON object,   *)
(* which the repair of broken JSON leaves alone.                           *)
(*                                                                         *)
(* A usage is the set of the sides that are counted, "in" and "out"; {} is *)
(* no usage at all, {"zero"} one whose counts are zero and {"guess"} an    *)
(* estimate.                                                               *)
(***************************************************************************)
EXTENDS Integers, SequencesExt

None == -1

(* An OpenAI chat chunk: any of reasoning, text, tool call deltas, a       *)
(* finish reason and usage.  Without choices it has usage only.  "done" is *)
(* the line "data: [DONE]".                                                *)
NoChunk == [type |-> "chunk", choices |-> TRUE, reasoning |-> <<>>, text |-> <<>>,
            tools |-> <<>>, finish |-> "", usage |-> {}]

TextChunk(text) == [NoChunk EXCEPT !.text = text]

ReasoningChunk(text) == [NoChunk EXCEPT !.reasoning = text]

ToolChunk(index, id, args) ==
    [NoChunk EXCEPT !.tools = <<[index |-> index, id |-> id, args |-> args]>>]

FinishChunk(reason) == [NoChunk EXCEPT !.finish = reason]

DoneLine == [NoChunk EXCEPT !.type = "done"]

(* A Claude event; the stop reason of a message_delta is its kind. *)
ClaudeEvent(ev, index, kind, data) ==
    [ev |-> ev, index |-> index, kind |-> kind, data |-> data, usage |-> {}]

(* A Responses event.  item, output and call are item_id, output_index and *)
(* call_id.                                                                *)
ResponsesEvent(ev, kind, item, output, data) ==
    [ev |-> ev, kind |-> kind, item |-> item, output |-> output, call |-> "",
     data |-> data, usage |-> {}]

(* The keys of a Go map, in one of the orders a walk may take: up or down. *)
IndexOrder(map, up) ==
    LET keys == SetToSortSeq(DOMAIN map, LAMBDA i, j : i < j)
    IN IF up THEN keys ELSE Reverse(keys)

-----------------------------------------------------------------------------
(* orphanInvokeOpenRe: a whole opener begins at place i. *)
OpenerAt(text, i) == i < Len(text) /\ text[i].k = "h" /\ text[i + 1].k = "t"

(* dsmlPairedRes: place i is between an opener and the closer after it. *)
Paired(text, i) ==
    \E a \in 1..(i - 1) :
      /\ OpenerAt(text, a)
      /\ \A j \in a..i : text[j].k # "c"
      /\ \E b \in (i + 1)..Len(text) : text[b].k = "c"

(* Blocks go with what is in them; openers and closers without the other   *)
(* go alone.                                                               *)
SanitizeAssistantText(text) ==
    LET keep == {i \in 1..Len(text) :
                   /\ text[i].k # "c"
                   /\ ~OpenerAt(text, i)
                   /\ ~(i > 1 /\ OpenerAt(text, i - 1))
                   /\ ~Paired(text, i)}
    IN FoldLeft(LAMBDA t, i : IF i \in keep THEN Append(t, text[i]) ELSE t,
                <<>>, [i \in 1..Len(text) |-> i])

(* mapFinishReason and convertStopReasonOpenAI *)
ClaudeReason(reason) ==
    CASE reason = "length" -> "max_tokens"
      [] reason = "tool_calls" -> "tool_use"
      [] OTHER -> "end_turn"

OpenAIReason(reason) ==
    CASE reason = "max_tokens" -> "length"
      [] reason = "tool_use" -> "tool_calls"
      [] OTHER -> "stop"
=============================================================================
