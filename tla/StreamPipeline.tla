---------------------------- MODULE StreamPipeline ----------------------------
(***************************************************************************)
(* One streamed answer, from the upstream to the client: the normaliser    *)
(* that copyNormalizedDomainWithContext picks, the writer ProxyChat adds   *)
(* when the upstream's format is not the one asked for, and the handler's  *)
(* writer to the client's format.                                          *)
(***************************************************************************)
EXTENDS ResponseWriter

CONSTANTS
    Routes,      \* the routes a stream may take
    Items(_, _), \* what an upstream may send next, by the route and what it sent
    MaxItems(_)  \* bound: items in a stream, by the route

VARIABLES
    route,       \* formats: wire (what the upstream sends), label (what the
                 \*   response says of it), asked (of the upstream), client
    norm,        \* the normaliser
    inner,       \* the writer of ProxyChat
    outer,       \* the writer of the handler
    phase,       \* "open", or how the stream ended
    sent,        \* history: what the upstream sent
    out,         \* what the client was sent
    tokens       \* the usage that is recorded for the request

vars == <<route, norm, inner, outer, phase, sent, out, tokens>>

(* copyNormalizedDomainWithContext *)
Normalizer(r) ==
    CASE r.label = "claude" \/ r.wire = "responses" -> "copy"
      [] r.label # "claude" /\ r.wire = "claude" -> "decode"
      [] OTHER -> "openai"

NewNorm(r) ==
    CASE Normalizer(r) = "openai" -> NewNormalizer
      [] Normalizer(r) = "decode" -> [decoder |-> NewDecoder, stopped |-> FALSE, usage |-> {}]
      [] Normalizer(r) = "copy" -> [usage |-> {}]

(* An upstream that says nothing of its format is read as OpenAI. *)
Label(r) == IF r.label = "" THEN r.asked ELSE r.label

Init ==
    /\ route \in Routes
    /\ norm = NewNorm(route)
    /\ inner = NewWriter(Label(route), route.asked)
    /\ outer = NewWriter(route.asked, route.client)
    /\ phase = "open"
    /\ sent = <<>>
    /\ out = <<>>
    /\ tokens = {}

Counts(usage) == usage \cap {"in", "out"}

(* copyPassthroughStream and copyPassthroughClaudeStream *)
CopyLine(n, e) == [s |-> [n EXCEPT !.usage = @ \cup Counts(e.usage)], out |-> <<e>>]

(* normalizeClaudeStreamWithContext: message_stop is the end, whatever     *)
(* follows it.  Of message_start it looks for the counts in the wrong      *)
(* place.                                                                  *)
DecodeLine(n, e) ==
    IF n.stopped THEN [s |-> n, out |-> <<>>]
    ELSE LET x == DecodeClaude(n.decoder, e)
         IN [s |-> [n EXCEPT !.stopped = e.ev = "message_stop", !.decoder = x.s,
                             !.usage = IF e.ev = "message_delta" THEN @ \cup Counts(e.usage) ELSE @],
             out |-> x.out]

NormLine(n, e, up) ==
    CASE Normalizer(route) = "openai" ->
           NormalizeLine(n, e, up)
      [] Normalizer(route) = "decode" -> DecodeLine(n, e)
      [] Normalizer(route) = "copy" -> CopyLine(n, e)

NormEnd(n, up) ==
    CASE Normalizer(route) = "openai" -> NormalizeEnd(n, up)
      [] Normalizer(route) = "decode" -> <<DoneLine>>
      [] OTHER -> <<>>

(* Two calls in the maps of the normaliser: both orders. *)
Ups == IF Normalizer(route) = "openai" /\ Cardinality(DOMAIN norm.args) > 1 THEN BOOLEAN ELSE {TRUE}

(* Lines through both writers, each closed behind them if it is over. *)
Write(items, up, over) ==
    LET closed(w) == [w EXCEPT !.out = IF over THEN @ \o CloseWriter(w.s) ELSE @]
        next(x, w) == [writers |-> Append(x.writers, w.s), out |-> w.out]
        written(x) == /\ inner' = x.writers[1]
                      /\ outer' = x.writers[2]
                      /\ out' = out \o x.out
    IN written(FoldLeft(LAMBDA x, w : next(x, closed(WriteLines(w, x.out, up))),
                        [writers |-> <<>>, out |-> items], <<inner, outer>>))

(* The next line of the upstream, through the normaliser and both writers. *)
Receive(e, up) ==
    /\ norm' = NormLine(norm, e, up).s
    /\ Write(NormLine(norm, e, up).out, up, FALSE)
    /\ sent' = Append(sent, e)
    /\ UNCHANGED <<route, phase, tokens>>

Upstream ==
    /\ phase = "open"
    /\ Len(sent) < MaxItems(route)
    /\ \E e \in Items(route, sent), up \in Ups : Receive(e, up)

(* The body ends or a read fails: the normaliser ends the stream, ProxyChat *)
(* closes its writer and the handler then its own.                          *)
Finish(how, last, up) ==
    /\ phase' = how
    /\ Write(last, up, TRUE)
    /\ tokens' = norm.usage
    /\ UNCHANGED <<route, norm, sent>>

End == phase = "open" /\ \E up \in Ups : Finish("ended", NormEnd(norm, up), up)

(* The client has gone: the normaliser returns at once. *)
Cancel == phase = "open" /\ Finish("cancelled", <<>>, TRUE)

Next == Upstream \/ End \/ Cancel

Spec == Init /\ [][Next]_vars

-----------------------------------------------------------------------------
(* What a side of the pipeline holds: a reader for each format. *)

Concat(items, P(_), F(_)) ==
    FlattenSeq([i \in DOMAIN items |-> IF P(items[i]) THEN F(items[i]) ELSE <<>>])

Shown(text) == SelectSeq(text, LAMBDA t : t.k \in {"p", "s"})

ReadOpenAI(items) ==
    LET chunks == SelectSeq(items, LAMBDA c : c.type = "chunk")
        deltas == Concat(chunks, LAMBDA c : TRUE, LAMBDA c : c.tools)
        opens == SelectSeq([j \in DOMAIN deltas |-> j], LAMBDA j :
                   /\ deltas[j].id # ""
                   /\ \A i \in 1..(j - 1) : deltas[i].index = deltas[j].index => deltas[i].id = "")
        args(j) == Concat(deltas, LAMBDA d : d.index = deltas[j].index, LAMBDA d : d.args)
    IN [text |-> Concat(chunks, LAMBDA c : TRUE, LAMBDA c : c.text),
        thinking |-> Concat(chunks, LAMBDA c : TRUE, LAMBDA c : c.reasoning),
        calls |-> [n \in DOMAIN opens |-> [id |-> deltas[opens[n]].id, args |-> args(opens[n])]],
        reasons |-> Concat(chunks, LAMBDA c : c.finish # "", LAMBDA c : <<c.finish>>),
        usage |-> UNION {c.usage : c \in Range(chunks)}]

ReadClaude(items) ==
    LET deltas(kind) == Concat(items, LAMBDA e : e.ev = "delta" /\ e.kind = kind, LAMBDA e : e.data)
        starts == SelectSeq(items, LAMBDA e : e.ev = "block_start" /\ e.kind = "tool_use")
        args(i) == Concat(items, LAMBDA e : e.kind = "input_json" /\ e.index = i, LAMBDA e : e.data)
    IN [text |-> deltas("text"), thinking |-> deltas("thinking"),
        calls |-> [n \in DOMAIN starts |-> [id |-> starts[n].data, args |-> args(starts[n].index)]],
        reasons |-> Concat(items, LAMBDA e : e.ev = "message_delta" /\ e.kind # "",
                           LAMBDA e : <<OpenAIReason(e.kind)>>),
        usage |-> UNION {e.usage : e \in Range(items)}]

ReadResponses(items) ==
    LET deltas(kind) == Concat(items, LAMBDA e : e.ev = "delta" /\ e.kind = kind, LAMBDA e : e.data)
        starts == SelectSeq(items, LAMBDA e : e.ev = "item.added" /\ e.kind = "function_call")
        args(s) == Concat(items, LAMBDA e : e.ev = "delta" /\ e.kind = "function_call"
                                              /\ e.output = s.output, LAMBDA e : e.data)
    IN [text |-> deltas("message"), thinking |-> deltas("reasoning"),
        calls |-> [n \in DOMAIN starts |-> [id |-> starts[n].call, args |-> args(starts[n])]],
        reasons |-> Concat(items, LAMBDA e : e.ev = "completed",
                           LAMBDA e : <<IF starts = <<>> THEN "stop" ELSE "tool_calls">>),
        usage |-> UNION {e.usage : e \in Range(items)}]

ReadGemini(items) ==
    [text |-> Concat(items, LAMBDA e : TRUE, LAMBDA e : e.text),
     thinking |-> Concat(items, LAMBDA e : TRUE, LAMBDA e : e.thought),
     calls |-> <<>>,
     reasons |-> Concat(items, LAMBDA e : e.reason # "",
                        LAMBDA e : <<IF e.reason = "STOP" THEN "stop" ELSE "length">>),
     usage |-> UNION {e.usage : e \in Range(items)}]

Read(format, items) ==
    CASE format = "openai" -> ReadOpenAI(items)
      [] format = "claude" -> ReadClaude(items)
      [] format = "responses" -> ReadResponses(items)
      [] format = "gemini" -> ReadGemini(items)

-----------------------------------------------------------------------------
(* Properties *)

(* What ends the upstream's turn. *)
Ends(e) ==
    CASE route.wire = "openai" -> e.finish # ""
      [] route.wire = "claude" -> e.ev = "message_delta" /\ e.kind # ""
      [] route.wire = "responses" -> e.ev \in {"completed", "failed"}

(* Content counts up to the end of the turn. *)
Counted ==
    LET ends == {n \in DOMAIN sent : Ends(sent[n])}
    IN IF ends = {} THEN sent ELSE SubSeq(sent, 1, Min(ends))

Asked == Read(route.wire, Counted)

Got == Read(route.client, out)

Translators == Range(inner.hops) \cup Range(outer.hops)

Recovered == \E w \in {inner, outer}, i \in 1..2 :
               /\ i \in DOMAIN w.hops
               /\ w.hops[i] = "openai_claude"
               /\ w.states[i].recovered

(* The client has all it will get of a turn that came to its end.  The     *)
(* OpenAI normaliser ends every turn that has begun.                       *)
Delivered ==
    /\ phase = "ended"
    /\ Supported(route.asked, route.client)
    /\ IF Normalizer(route) = "openai" THEN \E n \in DOMAIN sent : sent[n].type = "chunk"
       ELSE \E n \in DOMAIN sent : Ends(sent[n])

Translated == Translators # {} \/ Normalizer(route) # "copy"

At(P(_)) == {a \in DOMAIN out : P(out[a])}

DeltaKinds == [text |-> {"text"}, thinking |-> {"thinking", "signature"},
               tool_use |-> {"input_json"}]

(* One message_start, first; blocks numbered in the order they open;       *)
(* deltas only inside an open block and of its kind; text and thinking     *)
(* blocks alone; and at the end every block is stopped once, then one      *)
(* message_delta, one message_stop and nothing more.                       *)
ClaudeGrammar ==
    LET at(ev) == At(LAMBDA e : e.ev = ev)
        of(ev, i) == At(LAMBDA e : e.ev = ev /\ e.index = i)
        blocks == {out[a].index : a \in at("block_start")}
        kind(i) == out[CHOOSE a \in of("block_start", i) : TRUE].kind
    IN /\ at("message_start") = IF out = <<>> THEN {} ELSE {1}
       /\ blocks = 0..(Cardinality(at("block_start")) - 1)
       /\ \A i \in blocks : \A a \in of("block_start", i) :
            /\ \A b \in of("block_stop", i) : a < b
            /\ \A j \in 0..(i - 1) :
                 /\ \A b \in of("block_start", j) : b < a
                 /\ "tool_use" # kind(i) \/ "tool_use" # kind(j) =>
                      \E b \in of("block_stop", j) : b < a
       /\ \A a \in at("delta") :
            /\ out[a].index \in blocks
            /\ out[a].kind \in DeltaKinds[kind(out[a].index)]
            /\ \E b \in of("block_start", out[a].index) : b < a
            /\ \A b \in of("block_stop", out[a].index) : a < b
       /\ Delivered =>
            /\ \A i \in blocks : \E a \in of("block_stop", i) :
                 of("block_stop", i) = {a} /\ a < Len(out) - 1
            /\ at("message_delta") = {Len(out) - 1}
            /\ at("message_stop") = {Len(out)}

(* response.created and in_progress first; an item is added once, before   *)
(* its deltas, and done at most once, with all that was sent of it so far; *)
(* and response.completed is the last, when every item is done.            *)
ResponsesGrammar ==
    LET at(ev) == At(LAMBDA e : e.ev = ev)
        of(ev, item) == At(LAMBDA e : e.ev = ev /\ e.item = item)
        items == {out[a].item : a \in at("item.added")}
    IN /\ Len(out) >= 2 => at("created") = {1} /\ at("in_progress") = {2}
       /\ \A a \in at("delta") \cup at("item.done") : out[a].item \in items
       /\ \A x \in items : \E a \in of("item.added", x) :
            /\ of("item.added", x) = {a}
            /\ \A b \in of("delta", x) : a < b
            /\ \A b \in of("item.done", x) :
                 /\ of("item.done", x) = {b}
                 /\ out[b].data = FlattenSeq([j \in 1..(b - 1) |->
                                    IF j \in of("delta", x) THEN out[j].data ELSE <<>>])
       /\ Delivered => /\ at("completed") = {Len(out)}
                       /\ \A x \in items : of("item.done", x) # {}

(* The first delta of a tool call has its id; content comes before the     *)
(* finish reason and the finish reason, once, before [DONE].               *)
OpenAIGrammar ==
    LET done == At(LAMBDA c : c.type = "done")
        ends == At(LAMBDA c : c.finish # "")
        body == At(LAMBDA c : c.text # <<>> \/ c.reasoning # <<>> \/ c.tools # <<>>)
        first(a, t) == \A b \in 1..(a - 1) : \A u \in Range(out[b].tools) : u.index # t.index
    IN /\ Cardinality(done) <= 1
       /\ \A a \in body : \A t \in Range(out[a].tools) : first(a, t) => t.id # ""
       /\ \A a \in body, d \in done : a < d
       /\ Delivered => \E a \in ends : /\ \A b \in body : b <= a
                                       /\ \A d \in done : a < d
                                       /\ \A b \in ends \ {a} : done # {} /\ b > Max(done)

GeminiGrammar ==
    LET ends == At(LAMBDA e : e.reason # "")
    IN ends \in {{}, {Len(out)}} /\ (Delivered => ends # {})

(* The OpenAI upstream itself has no more than usage after its finish.     *)
Orderly ==
    \A n \in (Len(Counted) + 1)..Len(sent) :
      route.wire = "openai" => sent[n].type = "done" \/ ~sent[n].choices

(* What the translators, one behind the other, send is a stream of the     *)
(* client's format, whatever the upstream's, also when the upstream stops  *)
(* half way or the client goes.                                            *)
EventGrammar ==
    phase # "open" /\ Translated /\ Supported(route.asked, route.client) =>
      CASE route.client = "claude" -> ClaudeGrammar
        [] route.client = "responses" -> ResponsesGrammar
        [] route.client = "openai" -> Orderly => OpenAIGrammar
        [] route.client = "gemini" -> GeminiGrammar

(* The text of the upstream that is prose: the OpenAI normaliser takes the *)
(* scaffolding out of every delta.                                         *)
AskedText ==
    Shown(IF Normalizer(route) # "openai" THEN Asked.text
          ELSE FlattenSeq([n \in DOMAIN Counted |-> SanitizeAssistantText(Counted[n].text)]))

(* Text and reasoning are delayed around tool calls and around markers     *)
(* that turn out to be prose, and cross up to four translators; they are   *)
(* neither lost, repeated nor reordered.  When a call was recovered from   *)
(* text, what became the call is not shown as text too.                    *)
ContentDelivered ==
    phase # "open" /\ Translated /\ Supported(route.asked, route.client) =>
      LET shown == Shown(Got.text)
          args == UNION {Range(c.args) : c \in Range(Got.calls)}
      IN /\ \A a, b \in DOMAIN shown : a < b => shown[a].at < shown[b].at
         /\ Range(shown) \cap args = {}
         /\ Delivered /\ Orderly /\ ~Recovered => shown = AskedText
         /\ Delivered /\ Orderly => Got.thinking = Asked.thinking

(* A tool call reaches the client once, with all the arguments the         *)
(* upstream sent for it, whatever came in between: parallel calls, text,   *)
(* reasoning, deltas that repeat the id or name the call by another key,   *)
(* a replay of the last block behind the end of the message, no finish     *)
(* reason at all.  Clients match results by id, so no two calls have the   *)
(* same when the Claude translator has numbered them.                      *)
ToolCallsComplete ==
    Delivered /\ Orderly /\ Translated /\ route.client # "gemini" =>
      LET orphan(c) == c.args # <<>> /\ c.args[1].k = "h"
          calls == SelectSeq(Got.calls, LAMBDA c : ~orphan(c))
      IN /\ Len(calls) = Len(Asked.calls)
         /\ \A n \in DOMAIN calls : calls[n].args = Asked.calls[n].args
         /\ IF "openai_claude" \in Translators
              THEN \A a, b \in DOMAIN Got.calls : a # b => Got.calls[a].id # Got.calls[b].id
              ELSE \A n \in DOMAIN calls : calls[n].id = Asked.calls[n].id

(* The reason the client should see: that of the upstream, or the one the  *)
(* normaliser makes up.                                                    *)
AskedReason ==
    IF Asked.reasons # <<>> THEN Asked.reasons[1]
    ELSE IF Asked.calls # <<>> THEN "tool_calls" ELSE "stop"

(* A usage that is not there, for the formats that cannot hold it. *)
Lossy == Translators \cap {"openai_responses", "openai_gemini"} # {}

(* What the client is told of the turn is true: the reason is that of the  *)
(* upstream unless a call was recovered, and then never that the turn is   *)
(* simply over; and the counts of the upstream arrive whenever it sent     *)
(* some, also behind the finish reason (of the prompt side not when the    *)
(* stream is made a Claude one and then an OpenAI one).  The same counts   *)
(* are recorded.                                                           *)
TurnReported ==
    Delivered /\ Orderly =>
      LET usage == Counts(Read(route.wire, sent).usage)
          roundTrip == "openai_claude" \in Range(inner.hops) /\ "claude_openai" \in Range(outer.hops)
      IN /\ Translated => Got.reasons # <<>>
         /\ Lossy \/ route.wire = "responses" \/ Recovered \/ Got.reasons[1] = AskedReason
         /\ Recovered => Got.reasons[1] # "stop"
         /\ Lossy \/ (usage \ (IF roundTrip THEN {"in"} ELSE {})) \subseteq Counts(Got.usage)
         /\ Counts(Got.usage) \subseteq usage
         /\ tokens \subseteq usage
         /\ Normalizer(route) # "decode" => tokens = usage
=============================================================================
