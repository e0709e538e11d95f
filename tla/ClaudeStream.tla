----------------------------- MODULE ClaudeStream -----------------------------
(***************************************************************************)
(* translate/claude/stream.go: an OpenAI chat stream becomes a Claude      *)
(* event stream.  ProcessChunk turns one chunk into events, Finalize ends  *)
(* the message at [DONE] or at the end of the upstream stream.             *)
(***************************************************************************)
EXTENDS StreamText

CONSTANTS
    HoldTail,    \* orphanHoldTail, in pieces
    HoldMax      \* orphanHoldMax, in pieces

ASSUME HoldAssumption == HoldTail \in Nat /\ HoldMax \in Nat

(* toolCalls and toolArgBufs are one map here, from the tool's index to    *)
(* its block and the pieces of its arguments.  A block number of None is a *)
(* block that is not open.                                                 *)
NewStreamState ==
    [started |-> FALSE, next |-> 0, text |-> None, thinking |-> None,
     calls |-> <<>>, open |-> <<>>, pending |-> <<>>, hold |-> <<>>,
     recovered |-> FALSE, native |-> FALSE, usage |-> {}, reason |-> "",
     finished |-> FALSE, closed |-> FALSE, ids |-> <<>>]

(* A call's working state w: the stream state and the events it returns.   *)
Emit(w, name, index, kind, data) ==
    [w EXCEPT !.out = Append(@, ClaudeEvent(name, index, kind, data))]

-----------------------------------------------------------------------------
(* Blocks *)

Stop(w, index) == Emit(w, "block_stop", index, "", <<>>)

CloseText(w) ==
    IF w.s.text = None THEN w ELSE [Stop(w, w.s.text) EXCEPT !.s.text = None]

(* closeThinkingBlock sends the signature first. *)
CloseThinking(w) ==
    IF w.s.thinking = None THEN w
    ELSE [Stop(Emit(w, "delta", w.s.thinking, "signature", <<>>), w.s.thinking)
            EXCEPT !.s.thinking = None]

OpenBlock(w, kind, data) ==
    [Emit(w, "block_start", w.s.next, kind, data) EXCEPT !.s.next = @ + 1]

(* Mutant: content closes what is open instead of waiting for it. *)
MustPendNever(w) == FALSE

(* A tool_use block is open: content has to wait. *)
MustPend(w) == w.s.open # <<>>

HandleReasoningContent(w, text) ==
    IF MustPend(w)
      THEN [w EXCEPT !.s.pending = Append(@, [kind |-> "thinking", text |-> text])]
      ELSE LET a == CloseText(w)
               b == IF a.s.thinking # None THEN a
                    ELSE [OpenBlock(a, "thinking", <<>>) EXCEPT !.s.thinking = a.s.next]
           IN Emit(b, "delta", b.s.thinking, "thinking", text)

HandleTextContent(w, text) ==
    IF MustPend(w)
      THEN [w EXCEPT !.s.pending = Append(@, [kind |-> "text", text |-> text])]
      ELSE LET a == CloseThinking(w)
               b == IF a.s.text # None THEN a
                    ELSE [OpenBlock(a, "text", <<>>) EXCEPT !.s.text = a.s.next]
           IN Emit(b, "delta", b.s.text, "text", text)

FlushPendingContent(w) ==
    FoldLeft(LAMBDA v, c : IF c.kind = "text" THEN HandleTextContent(v, c.text)
                           ELSE HandleReasoningContent(v, c.text),
             [w EXCEPT !.s.pending = <<>>], w.s.pending)

-----------------------------------------------------------------------------
(* Orphan invoke blocks *)

(* The complete blocks of text, from the left: the prose before the first, *)
(* the pieces each is made from, and what follows the last.                *)
ExtractOrphanInvokes(text) ==
    LET step(x, i) ==
          IF x.block # <<>> /\ text[i].k = "c"
            THEN [x EXCEPT !.block = <<>>, !.rest = <<>>,
                           !.calls = Append(@, x.block)]
            ELSE [x EXCEPT
                   !.block = IF @ # <<>> \/ OpenerAt(text, i) THEN Append(@, text[i]) ELSE @,
                   !.rest = Append(@, text[i]),
                   !.prose = IF x.calls = <<>> /\ x.block = <<>> /\ ~OpenerAt(text, i)
                               THEN Append(@, text[i]) ELSE @]
    IN FoldLeft(step, [block |-> <<>>, calls |-> <<>>, prose |-> <<>>, rest |-> <<>>],
                [i \in 1..Len(text) |-> i])

(* couldBeInvokeOpener *)
PlausibleAt(text, i) ==
    OpenerAt(text, i) \/ text[i].k = "s" \/ (text[i].k = "h" /\ i = Len(text))

(* The first piece that is, or could still become, an opener; 0 for none. *)
FirstPlausibleOpener(text) ==
    LET at == {i \in 1..Len(text) : PlausibleAt(text, i)}
    IN IF at = {} THEN 0 ELSE Min(at)

(* Anything shaped like a tag of the invoke family, complete or not. *)
HasInvokeOpener(text) == \E i \in 1..Len(text) : text[i].k = "c" \/ OpenerAt(text, i)

ForwardHeldProse(w, text) ==
    IF SanitizeAssistantText(text) = <<>> THEN w
    ELSE HandleTextContent(w, SanitizeAssistantText(text))

(* A turn that ends in a recovered call ends in a tool call. *)
RecoveredReason(reason) == IF reason \in {"", "stop"} THEN "tool_calls" ELSE reason

(* Keys below zero cannot collide with those of the upstream. *)
EmitOrphanToolUse(w, call) ==
    LET a == CloseThinking(CloseText(w))
        i == a.s.next
    IN [OpenBlock(a, "tool_use", "toolu_" \o ToString(i)) EXCEPT
          !.s.recovered = TRUE,
          !.s.calls = (-(i + 1) :> [block |-> i, args |-> call]) @@ @,
          !.s.open = Append(@, i),
          !.s.reason = RecoveredReason(@)]

(* holdTextContent: complete blocks become calls, settled prose goes out,  *)
(* and a possible opener is held back.  Beyond HoldMax it is given up.     *)
SplitAt(i, n) == IF i - 1 > n - HoldTail THEN i - 1 ELSE n - HoldTail

HoldTextContent(w, text) ==
    IF w.s.native THEN HandleTextContent(w, text)
    ELSE LET x == ExtractOrphanInvokes(w.s.hold \o text)
             a == IF x.calls = <<>> \/ x.prose = <<>> \/ w.s.recovered THEN w
                  ELSE ForwardHeldProse(w, x.prose)
             b == FoldLeft(EmitOrphanToolUse, a, x.calls)
             buf == x.rest
             i == FirstPlausibleOpener(buf)
             head == IF i = 0 THEN buf
                     ELSE IF i > 1 \/ Len(buf) > HoldMax
                       THEN SubSeq(buf, 1, SplitAt(i, Len(buf))) ELSE <<>>
             c == [b EXCEPT !.s.hold = SubSeq(buf, Len(head) + 1, Len(buf))]
         IN IF b.s.recovered THEN c ELSE ForwardHeldProse(c, head)

(* flushHold: the end of the text in the hold.  With extract complete      *)
(* blocks become calls; dropTrailing drops the prose that follows one.     *)
FlushHold(w, extract, dropTrailing) ==
    LET buf == w.s.hold
        x == ExtractOrphanInvokes(buf)
        v == [w EXCEPT !.s.hold = <<>>]
        a == IF x.prose = <<>> \/ v.s.recovered THEN v ELSE ForwardHeldProse(v, x.prose)
        b == FoldLeft(EmitOrphanToolUse, a, x.calls)
    IN IF buf = <<>> THEN w
       ELSE IF ~extract THEN ForwardHeldProse(v, buf)
       ELSE IF x.calls = <<>>
         THEN IF dropTrailing /\ v.s.recovered /\ FirstPlausibleOpener(buf) = 0 THEN v
              ELSE ForwardHeldProse(v, buf)
       ELSE IF ~dropTrailing THEN [b EXCEPT !.s.hold = x.rest]
       ELSE IF HasInvokeOpener(x.rest) THEN ForwardHeldProse(b, x.rest) ELSE b

-----------------------------------------------------------------------------
(* Tool calls *)

Count(ids, id) == Len(SelectSeq(ids, LAMBDA x : x = id))

(* A repeated id gets a number. *)
UniqueID(ids, id) ==
    IF Count(ids, id) = 0 THEN id ELSE id \o "_" \o ToString(Count(ids, id))

(* Arguments of an index that has no block are lost. *)
WithArgs(calls, index, args) ==
    IF index \in DOMAIN calls THEN [calls EXCEPT ![index].args = @ \o args] ELSE calls

HandleToolCall(w, t) ==
    LET new == t.id # "" /\ t.index \notin DOMAIN w.s.calls
        a == CloseThinking(CloseText(w))
        i == a.s.next
        b == IF ~new THEN w
             ELSE [OpenBlock(a, "tool_use", UniqueID(a.s.ids, t.id)) EXCEPT
                     !.s.ids = Append(@, t.id),
                     !.s.calls = (t.index :> [block |-> i, args |-> <<>>]) @@ @,
                     !.s.open = Append(@, i)]
    IN [b EXCEPT !.s.calls = WithArgs(@, t.index, t.args)]

HandleToolCalls(w, tools) ==
    FoldLeft(HandleToolCall, [w EXCEPT !.s.native = TRUE], tools)

(* The arguments of a block go out in one delta, just before its stop. *)
CloseOpenToolBlocks(w) ==
    LET args(i) == (CHOOSE k \in DOMAIN w.s.calls : w.s.calls[k].block = i)
        close(v, i) ==
          Stop(IF w.s.calls[args(i)].args = <<>> THEN v
               ELSE Emit(v, "delta", i, "input_json", w.s.calls[args(i)].args), i)
    IN [FoldLeft(close, w, w.s.open) EXCEPT !.s.open = <<>>, !.s.calls = <<>>]

-----------------------------------------------------------------------------
(* ProcessChunk and Finalize *)

Starts(s) == ~s.started /\ ~s.finished

MessageStart(w) ==
    [w EXCEPT !.s.started = TRUE,
              !.out = Append(@, [ClaudeEvent("message_start", None, "", <<>>)
                                   EXCEPT !.usage = IF w.s.usage = {} THEN {"zero"} ELSE w.s.usage])]

ForwardReasoning(w, text) ==
    IF SanitizeAssistantText(text) = <<>> THEN w
    ELSE HandleReasoningContent(w, SanitizeAssistantText(text))

(* Reasoning ends the text before it, and is never searched for calls; the *)
(* calls of the upstream turn the text that is held into prose.            *)
Content(w, c) ==
    LET reason(v) == IF c.reasoning = <<>> THEN v
                     ELSE ForwardReasoning(FlushHold(v, TRUE, FALSE), c.reasoning)
        say(v) == IF c.text = <<>> THEN v ELSE HoldTextContent(v, c.text)
        call(v) == IF c.tools = <<>> THEN v ELSE HandleToolCalls(FlushHold(v, FALSE, FALSE), c.tools)
    IN call(say(reason(w)))

(* A recovered call is not downgraded by the reason the upstream gives. *)
Finished(s, reason) ==
    IF reason = "" \/ s.finished THEN s
    ELSE [s EXCEPT !.finished = TRUE, !.reason = IF @ = "tool_calls" THEN @ ELSE reason]

(* Mutant: usage that comes after the finish reason is ignored. *)
SawUsageEarly(s, c) == IF c.usage = {} \/ s.finished THEN s.usage ELSE c.usage

SawUsage(s, c) == IF c.usage = {} THEN s.usage ELSE c.usage

ProcessChunk(w, c) ==
    LET start(v) == IF Starts(v.s) THEN MessageStart(v) ELSE v
        content(v) == IF v.s.finished THEN v ELSE Content(v, c)
        count(v) == [v EXCEPT !.s.usage = SawUsage(v.s, c)]
        finish(v) == [v EXCEPT !.s = Finished(@, c.finish)]
    IN IF c.choices THEN finish(count(content(start(w))))
       ELSE IF c.usage # {} /\ ~w.s.started THEN MessageStart(count(w))
       ELSE count(w)

(* Mutant: what waits behind the tool blocks is forgotten. *)
ReplayNever(w) == w

Replay(w) == FlushPendingContent(w)

(* Without counts from upstream the output side is an estimate. *)
HandleFinish(w) ==
    LET close(v) == CloseThinking(CloseText(v))
        delta(s) == [ClaudeEvent("message_delta", None, ClaudeReason(s.reason), <<>>)
                       EXCEPT !.usage = IF s.usage = {} THEN {"guess"} ELSE s.usage]
        stop(v) == Emit([v EXCEPT !.out = Append(@, delta(v.s))], "message_stop", None, "", <<>>)
    IN stop(close(Replay(CloseOpenToolBlocks(close(FlushHold(w, ~w.s.native, TRUE))))))

(* [DONE], or Close at the end of the upstream stream. *)
Finalize(w) ==
    IF w.s.closed THEN w
    ELSE [IF w.s.finished THEN HandleFinish(w) ELSE FlushHold(w, ~w.s.native, TRUE)
            EXCEPT !.s.closed = TRUE]
=============================================================================
