--------------------------- MODULE OpenAINormalizer ---------------------------
(***************************************************************************)
(* infrastructure/proxy/normalize_openai.go: an OpenAI stream on its way   *)
(* from the upstream to the writer.  The arguments of tool calls are kept  *)
(* back until the finish reason and sent whole, text is sanitised delta by *)
(* delta, and a stream that stops without a finish reason is given one.    *)
(***************************************************************************)
EXTENDS StreamText

(* args has an entry for every index seen (toolSeen), meta is metaCaptured *)
(* and flushed the flag called finished in the code.                       *)
NewNormalizer ==
    [args |-> <<>>, meta |-> FALSE, flushed |-> FALSE, finish |-> FALSE, usage |-> {}]

(* bufferToolArgs *)
Buffered(args, tools) ==
    FoldLeft(LAMBDA a, t : (t.index :> ((IF t.index \in DOMAIN a THEN a[t.index] ELSE <<>>)
                                          \o t.args)) @@ a,
             args, tools)

Stripped(tools) == [i \in DOMAIN tools |-> [tools[i] EXCEPT !.args = <<>>]]

(* emitRepaired.  It walks a Go map.                                       *)
Repaired(n, up) ==
    IF n.flushed THEN <<>>
    ELSE LET some == SelectSeq(IndexOrder(n.args, up), LAMBDA i : n.args[i] # <<>>)
         IN [j \in DOMAIN some |-> ToolChunk(some[j], "", n.args[some[j]])]

(* The finish reason of a stream that has none. *)
Synthesised(n) ==
    IF n.finish \/ ~(n.meta \/ n.args # <<>>) THEN <<>>
    ELSE <<FinishChunk(IF n.args # <<>> THEN "tool_calls" ELSE "stop")>>

(* extractUsageFromSSE *)
LastUsage(usage, c) == IF c.usage = {} THEN usage ELSE c.usage

Normalized(c) ==
    [c EXCEPT !.text = SanitizeAssistantText(@), !.reasoning = SanitizeAssistantText(@),
              !.tools = Stripped(@)]

(* One line of the upstream.  [DONE] does not count as a finish reason.    *)
NormalizeLine(n, c, up) ==
    IF c.type = "done"
      THEN [s |-> [n EXCEPT !.flushed = TRUE],
            out |-> Repaired(n, up) \o Synthesised(n) \o <<DoneLine>>]
      ELSE LET m == [n EXCEPT !.meta = TRUE,
                              !.args = Buffered(@, c.tools),
                              !.usage = LastUsage(@, c),
                              !.finish = @ \/ c.finish # ""]
           IN IF c.finish = "" THEN [s |-> m, out |-> <<Normalized(c)>>]
              ELSE [s |-> [m EXCEPT !.flushed = TRUE],
                    out |-> Repaired(m, up) \o <<Normalized(c)>>]

(* The end of the body, and a read that failed. *)
NormalizeEnd(n, up) ==
    IF Synthesised(n) = <<>> THEN <<>> ELSE Repaired(n, up) \o Synthesised(n)
=============================================================================
