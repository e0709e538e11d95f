---------------------------- MODULE ResponseWriter ----------------------------
(***************************************************************************)
(* translate/response_writer.go: the writer that translates a stream while *)
(* it is written.  The handler puts one between the format it asked the    *)
(* upstream for and the client's, ProxyChat another between the format the *)
(* upstream used and the one asked for.                                    *)
(***************************************************************************)
EXTENDS ClaudeStream, OpenAINormalizer, ClaudeDecoder, ResponsesStream, GeminiStream

(* writeStream: the translators a pair of formats goes through.  A pair    *)
(* that is not listed passes through.                                      *)
Hops(src, dst) ==
    CASE src = "openai" /\ dst = "claude" -> <<"openai_claude">>
      [] src = "claude" /\ dst = "openai" -> <<"claude_openai">>
      [] src = "openai" /\ dst = "gemini" -> <<"openai_gemini">>
      [] src = "openai" /\ dst = "responses" -> <<"openai_responses">>
      [] src = "responses" /\ dst = "openai" -> <<"responses_openai">>
      [] src = "claude" /\ dst = "responses" -> <<"claude_openai", "openai_responses">>
      [] src = "responses" /\ dst = "claude" -> <<"responses_openai", "openai_claude">>
      [] OTHER -> <<>>

Supported(src, dst) == src = dst \/ Hops(src, dst) # <<>>

NewState(hop) ==
    CASE hop = "openai_claude" -> NewStreamState
      [] hop = "claude_openai" -> NewDecoder
      [] hop = "openai_gemini" -> NewGemini
      [] hop = "openai_responses" -> NewEncoder
      [] hop = "responses_openai" -> NewResponsesDecoder

NewWriter(src, dst) ==
    LET hops == Hops(src, dst)
    IN [hops |-> hops, states |-> [i \in DOMAIN hops |-> NewState(hops[i])],
        src |-> src, dst |-> dst, doneSent |-> FALSE, used |-> FALSE]

Fresh(s) == [s |-> s, out |-> <<>>]

(* One line through one translator.  [DONE] ends a Claude message, makes   *)
(* sure that a Responses stream is completed, and is dropped by the rest.  *)
Translate(hop, s, item, up) ==
    CASE hop = "openai_claude" ->
           IF s.closed THEN Fresh(s)
           ELSE IF item.type = "done" THEN Finalize(Fresh(s)) ELSE ProcessChunk(Fresh(s), item)
      [] hop = "claude_openai" ->
           IF "ev" \notin DOMAIN item THEN Fresh(s) ELSE DecodeClaude(s, item)
      [] hop = "openai_gemini" ->
           IF item.type = "done" THEN Fresh(s) ELSE OpenAIChunkToGemini(s, item)
      [] hop = "openai_responses" ->
           IF s.completed THEN Fresh(s)
           ELSE LET c == IF item.type = "done" THEN FinishChunk("stop") ELSE item
                IN OpenAIChunkToResponses(Fresh(s), c, up)
      [] hop = "responses_openai" ->
           IF "ev" \notin DOMAIN item THEN Fresh(s) ELSE ResponsesEventToOpenAI(s, item)

(* A stage's next state and what it passed on, behind what it did before. *)
Behind(r, x) == [s |-> x.s, out |-> r.out \o x.out]

TranslateAll(hop, s, items, up) ==
    FoldLeft(LAMBDA r, item : Behind(r, Translate(hop, r.s, item, up)), Fresh(s), items)

(* A Claude stream that ends in message_stop ends in [DONE] for an OpenAI  *)
(* client.                                                                 *)
StopLine(w, item) ==
    w.hops = <<"claude_openai">> /\ ~w.doneSent /\ "ev" \in DOMAIN item /\ item.ev = "message_stop"

(* A data line that is no JSON is passed on as it is; upstreams send none  *)
(* here.                                                                   *)
WriteLine(w, item, up) ==
    LET hop(x, y) == [states |-> Append(x.states, y.s), out |-> y.out]
        written(r) ==
          [s |-> [w EXCEPT !.states = r.states, !.used = TRUE, !.doneSent = @ \/ StopLine(w, item)],
           out |-> IF StopLine(w, item) THEN Append(r.out, DoneLine) ELSE r.out]
    IN written(FoldLeft(LAMBDA x, i : hop(x, TranslateAll(w.hops[i], w.states[i], x.out, up)),
                        [states |-> <<>>, out |-> <<item>>], [i \in DOMAIN w.hops |-> i]))

(* Write: any number of lines. *)
WriteLines(w, items, up) ==
    FoldLeft(LAMBDA x, item : Behind(x, WriteLine(x.s, item, up)), Fresh(w), items)

(* Close, of a stream; nothing was written to a writer that is not used.   *)
CloseWriter(w) ==
    LET last == Len(w.hops)
        done == IF w.used /\ w.src # "openai" /\ w.dst = "openai" /\ ~w.doneSent
                THEN <<DoneLine>> ELSE <<>>
        tail == IF w.used /\ w.dst = "claude" /\ w.hops # <<>>
                THEN Finalize(Fresh(w.states[last])) ELSE Fresh(NewStreamState)
    IN done \o tail.out
=============================================================================
