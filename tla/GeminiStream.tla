----------------------------- MODULE GeminiStream -----------------------------
(***************************************************************************)
(* translate/gemini/stream.go: OpenAI chunks become Gemini chunks.  Tool   *)
(* calls have no part in them.  The stream is closed by the finish reason. *)
(***************************************************************************)
EXTENDS StreamText

NewGemini == [reason |-> "", usage |-> {}, closed |-> FALSE]

(* MapFinishReasonGemini *)
GeminiReason(reason) == IF reason = "length" THEN "MAX_TOKENS" ELSE "STOP"

OpenAIChunkToGemini(s, c) ==
    LET t == [s EXCEPT !.reason = IF c.finish = "" THEN @ ELSE c.finish,
                       !.usage = IF c.usage = {} THEN @ ELSE c.usage]
    IN IF s.closed \/ ~c.choices THEN [s |-> s, out |-> <<>>]
       ELSE IF c.text = <<>> /\ c.reasoning = <<>> /\ t.reason = "" THEN [s |-> t, out |-> <<>>]
       ELSE [s |-> [t EXCEPT !.closed = t.reason # ""],
             out |-> <<[thought |-> c.reasoning, text |-> c.text, usage |-> t.usage,
                        reason |-> IF t.reason = "" THEN "" ELSE GeminiReason(t.reason)]>>]
=============================================================================
