--------------------------- MODULE ResponsesStream ---------------------------
(***************************************************************************)
(* translate/responses/stream.go, in both directions: OpenAI chunks become *)
(* the events of a Responses stream, and back.                             *)
(*                                                                         *)
(* The events that open and close the part of an item are one with those   *)
(* that open and close the item; a "delta" is the delta of any item.       *)
(***************************************************************************)
EXTENDS StreamText

-----------------------------------------------------------------------------
(* OpenAI to Responses *)

(* One message, one reasoning item, and a function call for each index of  *)
(* a tool call: its id, what came of its arguments, and its two flags.     *)
NewEncoder ==
    [started |-> FALSE, completed |-> FALSE, inThinking |-> FALSE,
     message |-> [added |-> FALSE, done |-> FALSE, text |-> <<>>],
     reasoning |-> [added |-> FALSE, done |-> FALSE, text |-> <<>>],
     calls |-> <<>>]

Event(w, ev, kind, item, output, data) ==
    [w EXCEPT !.out = Append(@, ResponsesEvent(ev, kind, item, output, data))]

Start(w) ==
    IF w.s.started THEN w
    ELSE Event(Event([w EXCEPT !.s.started = TRUE], "created", "", "", None, <<>>),
               "in_progress", "", "", None, <<>>)

StartReasoning(w) ==
    IF w.s.reasoning.added THEN w
    ELSE Event([w EXCEPT !.s.reasoning.added = TRUE],
               "item.added", "reasoning", "rs", 0, <<>>)

EmitReasoningDelta(w, text) ==
    IF text = <<>> THEN w
    ELSE Event([w EXCEPT !.s.reasoning.text = @ \o text], "delta", "reasoning",
               IF w.s.reasoning.added THEN "rs" ELSE "", 0, text)

CloseReasoning(w) ==
    IF ~w.s.reasoning.added \/ w.s.reasoning.done THEN w
    ELSE Event([w EXCEPT !.s.reasoning.done = TRUE],
               "item.done", "reasoning", "rs", 0, w.s.reasoning.text)

EmitTextContent(w, text) ==
    LET a == IF w.s.message.added THEN w
             ELSE Event([w EXCEPT !.s.message.added = TRUE],
                        "item.added", "message", "msg", 0, <<>>)
    IN Event([a EXCEPT !.s.message.text = @ \o text], "delta", "message", "msg", 0, text)

CloseMessage(w) ==
    IF ~w.s.message.added \/ w.s.message.done THEN w
    ELSE Event([w EXCEPT !.s.message.done = TRUE],
               "item.done", "message", "msg", 0, w.s.message.text)

(* Text between <think> and </think> is reasoning. *)
Has(text, k) == \E i \in DOMAIN text : text[i].k = k

EmitContent(w, content) ==
    LET a == IF Has(content, "think") THEN StartReasoning([w EXCEPT !.s.inThinking = TRUE]) ELSE w
        c == SelectSeq(content, LAMBDA t : t.k # "think")
        i == IF Has(c, "unthink") THEN Min({j \in DOMAIN c : c[j].k = "unthink"}) ELSE 0
        b == IF i = 0 THEN a
             ELSE [CloseReasoning(EmitReasoningDelta(a, SubSeq(c, 1, i - 1)))
                     EXCEPT !.s.inThinking = FALSE]
        rest == SubSeq(c, i + 1, Len(c))
    IN IF rest = <<>> THEN b
       ELSE IF b.s.inThinking THEN EmitReasoningDelta(b, rest) ELSE EmitTextContent(b, rest)

(* The delta that adds the item returns at once: its arguments are lost.   *)
(* The code waits for a name too; an upstream's id comes with one here.    *)
EmitToolCall(w, t) ==
    LET known == t.index \in DOMAIN w.s.calls
        old == IF known THEN w.s.calls[t.index]
               ELSE [id |-> "", args |-> <<>>, added |-> FALSE, done |-> FALSE]
        id == IF t.id = "" THEN old.id ELSE t.id
        adds == ~old.added /\ id # ""
        new == [old EXCEPT !.id = id, !.added = @ \/ adds,
                           !.args = IF adds THEN @ ELSE @ \o t.args]
        a == [w EXCEPT !.s.calls = (t.index :> new) @@ @]
    IN CASE adds -> LET b == Event(a, "item.added", "function_call", "fc_" \o id, t.index, <<>>)
                    IN [b EXCEPT !.out[Len(b.out)].call = id]
         [] ~adds /\ old.added /\ t.args # <<>> ->
              Event(a, "delta", "function_call", "fc_" \o id, t.index, t.args)
         [] OTHER -> a

CloseToolCall(w, index) ==
    LET call == w.s.calls[index]
        a == Event([w EXCEPT !.s.calls[index].done = TRUE], "item.done", "function_call",
                   "fc_" \o call.id, index, call.args)
    IN IF call.id = "" \/ call.done THEN w ELSE [a EXCEPT !.out[Len(a.out)].call = call.id]

SendCompleted(w) ==
    IF w.s.completed THEN w
    ELSE Event([w EXCEPT !.s.completed = TRUE], "completed", "", "", None, <<>>)

(* The calls are closed in the order of a Go map. *)
CloseAll(w, up) ==
    FoldLeft(CloseToolCall, CloseReasoning(CloseMessage(w)), IndexOrder(w.s.calls, up))

OpenAIChunkToResponses(w, c, up) ==
    IF ~c.choices THEN w
    ELSE LET a == Start(w)
             b == IF c.reasoning = <<>> THEN a
                  ELSE EmitReasoningDelta(StartReasoning(a), c.reasoning)
             d == IF c.text = <<>> THEN b ELSE EmitContent(b, c.text)
             e == IF c.tools = <<>> THEN d ELSE FoldLeft(EmitToolCall, CloseMessage(d), c.tools)
         IN IF c.finish = "" THEN e ELSE SendCompleted(CloseAll(e, up))

-----------------------------------------------------------------------------
(* Responses to OpenAI *)

(* byItem, byOutput and byCall: what each key of a function call says of   *)
(* its index in the OpenAI stream.                                         *)
NoKeys == [key \in {} |-> 0]

NewResponsesDecoder ==
    [next |-> 0, byItem |-> NoKeys, byOutput |-> NoKeys, byCall |-> NoKeys, finished |-> FALSE]

(* Mutant: every delta belongs to the call that came last. *)
RespToolIndexLast(s, e) ==
    IF e.ev = "item.added" \/ s.next = 0 THEN s.next ELSE s.next - 1

(* respToolIndex: by item id, then by output index, then by call id. *)
RespToolIndex(s, e) ==
    IF e.item \in DOMAIN s.byItem THEN s.byItem[e.item]
    ELSE IF e.output \in DOMAIN s.byOutput THEN s.byOutput[e.output]
    ELSE IF e.call \in DOMAIN s.byCall THEN s.byCall[e.call]
    ELSE s.next

(* What the keys of an event say from now on. *)
Indexed(s, e) ==
    LET i == RespToolIndex(s, e)
        with(map, key, absent) == IF key = absent THEN map ELSE (key :> i) @@ map
    IN IF e.item \in DOMAIN s.byItem THEN s
       ELSE [s EXCEPT !.byItem = with(@, e.item, ""), !.byOutput = with(@, e.output, None),
                      !.byCall = with(@, e.call, ""), !.next = IF i = @ THEN @ + 1 ELSE @]

CallID(s, e) == IF e.call = "" THEN "call_" \o ToString(RespToolIndex(s, e)) ELSE e.call

ResponsesEventToOpenAI(s, e) ==
    LET one(t, c) == [s |-> t, out |-> <<c>>]
    IN CASE e.ev = "delta" /\ e.kind = "message" -> one(s, TextChunk(e.data))
         [] e.ev = "delta" /\ e.kind = "reasoning" -> one(s, ReasoningChunk(e.data))
         [] e.ev = "item.added" /\ e.kind = "function_call" ->
              one(Indexed(s, e), ToolChunk(RespToolIndex(s, e), CallID(s, e), <<>>))
         [] e.ev = "delta" /\ e.kind = "function_call" ->
              one(Indexed(s, e), ToolChunk(RespToolIndex(s, e), "", e.data))
         [] e.ev = "item.done" /\ e.kind = "function_call" ->
              [s |-> Indexed(s, e), out |-> <<>>]
         [] e.ev = "completed" /\ ~s.finished ->
              one([s EXCEPT !.finished = TRUE],
                  [FinishChunk(IF s.next > 0 THEN "tool_calls" ELSE "stop")
                     EXCEPT !.usage = e.usage])
         [] e.ev = "failed" /\ ~s.finished ->
              one([s EXCEPT !.finished = TRUE],
                  [FinishChunk("stop") EXCEPT !.text = <<[k |-> "error", at |-> None]>>])
         [] OTHER -> [s |-> s, out |-> <<>>]
=============================================================================
