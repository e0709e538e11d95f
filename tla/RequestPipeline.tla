--------------------------- MODULE RequestPipeline ---------------------------
(***************************************************************************)
(* A request on its way up: the client composes it in its own format,      *)
(* handler/chat.go brings it into the format its model is served in, and   *)
(* it goes to that model's provider, or to the tiers of a combo, each of   *)
(* which may want another format.                                          *)
(***************************************************************************)
EXTENDS ClaudeRequest, ResponsesRequest, GeminiRequest, PrePost, OpenCodeRequest

CONSTANTS
    Clients,    \* the formats clients speak
    Turns,      \* the kinds of turn a conversation is made of
    Settings,   \* what a request has beside its messages; a limit or budget of 0 is none
    MaxTurns,   \* bound on the turns of a conversation
    Models,     \* [kind, family]: the API a model is served by, and its maker
    Tiers       \* [provider, model, anonymous]

ASSUME PipelineAssumption ==
    /\ Clients \subseteq Formats
    /\ MaxTurns \in Nat
    /\ \A s \in Settings :
         /\ s.system \in Seq(Int) /\ s.tools \in Seq([name : STRING, def : {"own", "opencode"}])
         /\ s.choice \in STRING /\ s.effort \in STRING /\ s.stream \in BOOLEAN
         /\ s.max \in Nat /\ s.completion \in Nat /\ s.budget \in Nat
         /\ \A key \in Range(FingerprintToolNames) :   \* AliasNames is long enough
              \E i \in DOMAIN AliasNames[key] : \A t \in Range(s.tools) : t.name # AliasNames[key][i]
    /\ \A m \in Models : m.kind \in {"chat", "responses", "messages"}
    /\ \A t \in Tiers : t.model \in Models /\ t.provider \in {"opencode", "plain"} /\ t.anonymous \in BOOLEAN

VARIABLES client, setting, turns, asked, body, tier, out, aliases, phase

vars == <<client, setting, turns, asked, body, tier, out, aliases, phase>>

NoAliases == [n \in {} |-> ""]
NoModel == [kind |-> "", family |-> ""]
NoTier == [provider |-> "", model |-> NoModel, anonymous |-> FALSE]

-----------------------------------------------------------------------------
(* The client.  Turn k of a conversation is one or two messages; the k-th  *)
(* turn's texts are the numbers from 10 * k, so that a text tells its turn *)
(* and what it was: 1 a user's, 2 an assistant's, 3, 4 and 8 results, 5 a  *)
(* system message, 6 an image, 7 thinking.                                 *)

TurnOf(token) == token \div 10

Said(role, texts) ==
    [role |-> role, texts |-> texts, image |-> <<>>, thinking |-> <<>>, calls |-> <<>>, results |-> <<>>]

ID(base, dirt, k) == [base |-> base, dirt |-> dirt, n |-> <<k>>]

Result(id, name, text) == [id |-> id, name |-> name, text |-> text]

TurnMessages(kind, k) ==
    LET user == <<10 * k + 1>>
        assistant == <<10 * k + 2>>
        a == ID("a", "", k)
        b == ID("b", ".", k)
        callA == Call(a, "read", <<"x">>)
        callB == Call(b, "grep", <<"y">>)
        same == ToolID("call", "")
        resultA == Result(a, "read", <<10 * k + 3>>)
        resultB == Result(b, "grep", <<10 * k + 4>>)
        calls(cs) == [Said("assistant", <<>>) EXCEPT !.calls = cs]
        results(rs) == [Said("user", <<>>) EXCEPT !.results = rs]
    IN CASE kind = "ask" -> <<Said("user", <<user>>)>>
         [] kind = "show" -> <<[Said("user", <<user>>) EXCEPT !.image = <<10 * k + 6>>]>>
         [] kind = "say" -> <<[Said("assistant", <<assistant>>) EXCEPT !.thinking = <<10 * k + 7>>]>>
         [] kind = "blank" -> <<Said("assistant", <<<<>>>>), Said("user", <<user>>)>>
         [] kind = "use" -> <<[calls(<<callA>>) EXCEPT !.texts = <<assistant>>],
                              [results(<<resultA>>) EXCEPT !.texts = <<user>>]>>
         [] kind = "two" -> <<calls(<<callA, callB>>), results(<<resultB, resultA>>)>>
         [] kind = "same" -> <<calls(<<Call(same, "read", <<"x">>), Call(same, "grep", <<"y">>)>>),
                               results(<<Result(same, "read", <<10 * k + 3>>),
                                         Result(same, "grep", <<10 * k + 4>>)>>)>>
         [] kind = "taken" -> <<calls(<<Call(same, "read", <<"x">>), Call(same, "grep", <<"y">>),
                                        Call(Numbered(same, 1), "grep", <<"x">>)>>),
                                results(<<Result(same, "read", <<10 * k + 3>>),
                                          Result(same, "grep", <<10 * k + 4>>),
                                          Result(Numbered(same, 1), "grep", <<10 * k + 8>>)>>)>>
         [] kind = "held" -> <<calls(<<Call(same, "read", <<"x">>)>>)>>
         [] kind = "lost" -> <<calls(<<callA, callB>>), results(<<resultB>>)>>
         [] kind = "gone" -> <<calls(<<callA>>)>>
         [] kind = "glued" -> <<calls(<<Call(a, "read", <<"x", "y">>)>>), results(<<resultA>>)>>
         [] kind = "cut" -> <<results(<<resultA>>)>>
         [] OTHER -> <<Said("system", <<<<10 * k + 5>>>>)>>

(* A message in the client's format. *)
Encode(format, m) ==
    LET texts == MapEach(Text, m.texts)
        image(type) == IF m.image = <<>> THEN <<>> ELSE <<Part(type, m.image)>>
        thinking == IF m.thinking = <<>> THEN <<>> ELSE <<Part("thinking", m.thinking)>>
        result(r) == [ToolResult(r.id, r.text) EXCEPT !.name = r.name]
        use(c) == ToolUse(c.id, c.name, c.args)
        output(r) == [Message("function_call_output", <<Text(r.text)>>) EXCEPT !.id = r.id]
        call(c) == [Message("function_call", <<>>) EXCEPT !.calls = <<c>>]
        said(type) == IF m.texts = <<>> /\ m.image = <<>> THEN <<>>
                      ELSE <<Message(m.role, texts \o image(type))>>
    IN CASE format = "openai" ->
              MapEach(LAMBDA r : ToolMessage(r.id, r.text), m.results)
              \o IF m.role = "assistant"
                 THEN <<[Message(m.role, texts) EXCEPT !.calls = m.calls, !.reasoning = m.thinking,
                           !.as = IF m.thinking = <<>> THEN "" ELSE "reasoning"]>>
                 ELSE said("image_url")
         [] format = "responses" ->
              MapEach(output, m.results)
              \o (IF m.thinking = <<>> THEN <<>>
                  ELSE <<[Message("reasoning", <<>>) EXCEPT !.reasoning = m.thinking]>>)
              \o said("input_image") \o MapEach(call, m.calls)
         [] format = "claude" ->
              <<Message(m.role, MapEach(result, m.results) \o thinking \o texts \o image("image")
                                \o MapEach(use, m.calls))>>
         [] OTHER ->
              <<Message(IF m.role = "assistant" THEN "model" ELSE m.role,
                        MapEach(LAMBDA r : [result(r) EXCEPT !.id = NoID], m.results)
                        \o texts \o image("image")
                        \o MapEach(LAMBDA c : [use(c) EXCEPT !.id = NoID], m.calls))>>

ChoiceShape(format) ==
    CASE format = "claude" -> "tool" [] format = "openai" -> "function" [] OTHER -> "named"

(* The request as the client sends it. *)
Original ==
    LET said == FlattenSeq([k \in DOMAIN turns |-> TurnMessages(turns[k], k)])
        gemini == client = "gemini"
        system == IF client = "openai" /\ setting.system # <<>>
                  THEN <<Message("system", <<Text(setting.system)>>)>> ELSE <<>>
    IN [EmptyBody(client) EXCEPT
          !.system = IF client = "openai" THEN <<>> ELSE setting.system,
          !.messages = system \o FlatMap(LAMBDA m : Encode(client, m), said),
          !.tools = setting.tools, !.max = setting.max, !.stream = setting.stream,
          !.completion = IF client = "openai" THEN setting.completion ELSE 0,
          !.choice = IF gemini THEN Choice("")
                     ELSE IF setting.choice \in {"none", ""} THEN Choice(setting.choice)
                     ELSE [type |-> ChoiceShape(client), name |-> setting.choice],
          !.thinking = IF client \in {"claude", "openai"} /\ setting.budget > 0
                       THEN [type |-> "enabled", budget |-> setting.budget] ELSE NoThinking,
          !.effort = IF gemini THEN "" ELSE setting.effort]

-----------------------------------------------------------------------------
(* translate.Request *)

SourceToOpenAI(b) ==
    CASE b.format = "claude" -> ClaudeToOpenAI(b)
      [] b.format = "gemini" -> GeminiToOpenAI(b)
      [] b.format = "responses" -> ResponsesToOpenAI(b)
      [] OTHER -> b

OpenAIToTarget(b, target) ==
    CASE target = "claude" -> ClaudeFromOpenAI(b)
      [] target = "responses" -> ResponsesFromOpenAI(b)
      [] OTHER -> b

PreProcess(b) ==
    LET t == NormalizeThinkingConfig([b EXCEPT !.messages = NormalizeRoles(@)])
    IN AdjustMaxTokens([t EXCEPT !.messages =
         FixMissingToolResponses(EnsureToolCallIds(SanitizeToolHistory(@)))])

Rejected(b, target) == target = "claude" /\ RejectedByClaude(PreProcess(SourceToOpenAI(b)))

Request(b, target) ==
    LET translated == OpenAIToTarget(PreProcess(SourceToOpenAI(b)), target)
    IN IF target = "claude" THEN PrepareClaudeRequest(translated) ELSE translated

(* targetFormatForModel *)
TargetFormat(model) ==
    CASE model.kind = "responses" -> "responses"
      [] model.kind = "messages" -> "claude"
      [] OTHER -> "openai"

(* What the handler and a combo do to a request in its target format. *)
Prepare(b, model) ==
    CASE b.format = "openai" -> PrepareUpstreamWithModel(b, model.family)
      [] b.format = "claude" -> NormalizeClaudeContent(b)
      [] OTHER -> b

-----------------------------------------------------------------------------
Init ==
    /\ client \in Clients
    /\ setting \in Settings
    /\ turns = <<>>
    /\ asked = NoModel
    /\ body = EmptyBody("openai")
    /\ tier = NoTier
    /\ out = EmptyBody("openai")
    /\ aliases = NoAliases
    /\ phase = "compose"

(* Only a conversation's head is cut off, and only OpenAI and Responses    *)
(* have system messages among the others.                                  *)
Compose ==
    /\ phase = "compose"
    /\ Len(turns) < MaxTurns
    /\ \E kind \in Turns :
         /\ kind = "cut" => turns = <<>>
         /\ kind = "rule" => client \in {"openai", "responses"}
         /\ turns' = Append(turns, kind)
    /\ UNCHANGED <<client, setting, asked, body, tier, out, aliases, phase>>

(* handler/chat.go, up to ProxyChat. *)
Chat(model) ==
    LET target == TargetFormat(model)
        b == Original
        translated == IF client = target THEN b ELSE Request(b, target)
    IN /\ phase = "compose"
       /\ turns # <<>>
       /\ asked' = model
       /\ IF client # target /\ Rejected(b, target)
            THEN phase' = "rejected" /\ UNCHANGED body
            ELSE phase' = "asked" /\ body' = Prepare(translated, model)
       /\ UNCHANGED <<client, setting, turns, tier, out, aliases>>

(* The upstream's ChatCompletion. *)
Send(t, b) ==
    LET sent == IF t.provider = "plain" THEN [body |-> b, aliases |-> NoAliases]
                ELSE OpenCodeSend(b, t.model.kind, t.anonymous)
    IN out' = sent.body /\ aliases' = sent.aliases

(* A provider that serves the model itself gets the request as it is. *)
Direct(t) ==
    /\ phase = "asked"
    /\ t.model = asked
    /\ t.provider = "opencode" \/ asked.kind = "chat"
    /\ tier' = t
    /\ Send(t, body)
    /\ phase' = "direct"
    /\ UNCHANGED <<client, setting, turns, asked, body>>

(* A tier of a combo, the first or after the failure of another: each      *)
(* starts from the request the handler prepared.                           *)
TryTier(t) ==
    LET target == IF t.provider = "opencode" THEN BuildURL(t.model.kind, body) ELSE "openai"
        translated == IF body.format = target THEN body ELSE Request(body, target)
    IN /\ phase \in {"asked", "sent", "skipped"}
       /\ t # tier
       /\ tier' = t
       /\ IF body.format # target /\ Rejected(body, target)
            THEN phase' = "skipped" /\ out' = EmptyBody("openai") /\ aliases' = NoAliases
            ELSE phase' = "sent" /\ Send(t, Prepare(translated, t.model))
       /\ UNCHANGED <<client, setting, turns, asked, body>>

Next ==
    \/ Compose
    \/ \E model \in Models : Chat(model)
    \/ \E t \in Tiers : Direct(t) \/ TryTier(t)

Spec == Init /\ [][Next]_vars

-----------------------------------------------------------------------------
(* What was sent, as a sequence of calls, results and other blocks.        *)

IsSent == phase \in {"sent", "direct"}

(* Whether a translation, which repairs a conversation, was on the way. *)
Translated == client # body.format \/ body.format # out.format

Block(what, id) == [what |-> what, id |-> id]

Blocks(m) ==
    LET kindOf(p) == CASE p.type = "tool_use" -> "call" [] p.type = "tool_result" -> "result" [] OTHER -> "other"
    IN CASE m.role \in {"system", "reasoning"} -> <<>>
         [] m.role \in {"tool", "function_call_output"} -> <<Block("result", m.id)>>
         [] OTHER -> MapEach(LAMBDA p : Block(kindOf(p), p.id), m.content)
                     \o MapEach(LAMBDA c : Block("call", c.id), m.calls)

Sent == FlatMap(Blocks, out.messages)

Texts(m) == FlatMap(LAMBDA p : p.text, m.content)

SentTexts == FlatMap(Texts, out.messages)

(* Some call's id is that of a result, and nothing else is between them. *)
Answers(s, i, j) ==
    /\ i < j
    /\ s[i].what = "call" /\ s[j].what = "result" /\ s[i].id = s[j].id
    /\ \A k \in i .. j : s[k].what # "other"

(* Every call is answered by exactly one result, in the messages right     *)
(* behind it, and every result answers exactly one call.                   *)
Paired ==
    LET s == Sent
    IN /\ \A i \in DOMAIN s : s[i].what = "call" =>
            Cardinality({j \in DOMAIN s : Answers(s, i, j)}) = 1
       /\ \A j \in DOMAIN s : s[j].what = "result" =>
            Cardinality({i \in DOMAIN s : Answers(s, i, j)}) = 1

(* What a translation can pair.  Not Gemini's calls, whose results do not  *)
(* name them; nor a cut head behind a system message, or concatenated      *)
(* arguments that become two Claude calls.                                 *)
Pairable ==
    /\ IsSent /\ Translated
    /\ client # "gemini"
    /\ ~(turns[1] = "cut" /\ setting.system # <<>>)
    /\ ~("glued" \in Range(turns) /\ "claude" \in {body.format, out.format})

CalledIDs(k) == {c.id : c \in UNION {Range(m.calls) : m \in Range(TurnMessages(turns[k], k))}}
AnsweredIDs(k) == {r.id : r \in UNION {Range(m.results) : m \in Range(TurnMessages(turns[k], k))}}

(* A turn calls with an id whose call in an earlier turn has no result. *)
ReusesOpenID ==
    \E j, k \in DOMAIN turns : j < k /\ (CalledIDs(j) \ AnsweredIDs(j)) \cap CalledIDs(k) # {}

(* An id of the client is what EnsureToolCallIds makes of another one. *)
TakesNumber ==
    LET ids == UNION {CalledIDs(k) : k \in DOMAIN turns}
    IN \E c, d \in ids : d.n # <<>> /\ d = Numbered(c, Last(d.n))

(* However the client's history was cut, and also if its calls share an    *)
(* id, in one message or in several, they are paired behind a translation. *)
(* Two uses of ids are left out: EnsureToolCallIds counts calls and        *)
(* results with an id apart and over the whole history, so one that is     *)
(* used again behind a call without result gives the result to that call;  *)
(* and it does not see that the name it gives is taken.                    *)
ToolTurnsPaired == Pairable /\ ~ReusesOpenID /\ ~TakesNumber => Paired

(* What the client said, thinking left out. *)
SystemTexts == Range(setting.system) \cup {10 * k + 5 : k \in {j \in DOMAIN turns : turns[j] = "rule"}}

ClientTexts ==
    LET said(m) == FlattenSeq(m.texts) \o m.image \o FlatMap(LAMBDA r : r.text, m.results)
    IN SystemTexts \cup UNION {Range(FlatMap(said, TurnMessages(turns[k], k))) : k \in DOMAIN turns}

(* What may be missing: the results of a head that was cut off, for        *)
(* Responses all system messages but the first, and the images of a Claude *)
(* form that is translated for another tier.                               *)
Droppable ==
    (IF turns[1] = "cut" THEN {13} ELSE {})
    \cup (IF "responses" \in {body.format, out.format}
          THEN {t \in SystemTexts : \E u \in SystemTexts : u < t} ELSE {})
    \cup (IF body.format = "claude" /\ out.format # "claude"
          THEN {10 * k + 6 : k \in DOMAIN turns} ELSE {})

(* No translation loses, repeats or moves to another turn what a user, the *)
(* model or a tool said.                                                   *)
ContentKept ==
    IsSent =>
        LET sent == SelectSeq(SentTexts, LAMBDA t : t > 0)
            said == Range(sent) \cup Range(out.system)
        IN /\ ClientTexts \ said \subseteq Droppable
           /\ \A i, j \in DOMAIN sent : i < j => sent[i] # sent[j]
           /\ \A i, j \in {k \in DOMAIN sent : sent[k] % 10 \in 1 .. 4} :
                i < j => TurnOf(sent[i]) <= TurnOf(sent[j])

(* A request for the Messages API keeps its rules: no text is empty, and   *)
(* only a last assistant is.  One that was translated also has alternating *)
(* roles, results first in their message, and nothing but calls behind a   *)
(* call.                                                                   *)
ClaudeAccepts ==
    (IsSent /\ out.format = "claude") =>
        /\ \A i \in DOMAIN out.messages :
             LET m == out.messages[i]
                 c == m.content
             IN /\ c = <<>> => i = Len(out.messages) /\ m.role = "assistant"
                /\ \A p \in Range(c) : p.type = "text" => p.text # <<>>
                /\ Translated => \A j \in 1 .. Len(c) - 1 :
                     /\ c[j + 1].type = "tool_result" => c[j].type = "tool_result"
                     /\ c[j].type = "tool_use" => c[j + 1].type = "tool_use"
        /\ Translated => \A i \in 1 .. Len(out.messages) - 1 :
             out.messages[i].role # out.messages[i + 1].role

(* A translated request has only roles and parts of the upstream's format, *)
(* each where it may be: calls come from the assistant, results from the   *)
(* user.  Strings among the parts are left of a Gemini request.            *)
SpeaksFormat ==
    (IsSent /\ Translated) =>
        \A m \in Range(out.messages) :
          LET types == {p.type : p \in Range(m.content)}
          IN CASE out.format = "openai" ->
                    /\ m.role \in {"system", "user", "assistant", "tool"}
                    /\ types \subseteq {"text", "image_url"} \cup (IF client = "gemini" THEN {"bare"} ELSE {})
                    /\ m.calls # <<>> => m.role = "assistant"
               [] out.format = "claude" ->
                    /\ m.role \in {"user", "assistant"}
                    /\ types \subseteq IF m.role = "user" THEN {"text", "image", "tool_result"}
                                       ELSE {"text", "thinking", "tool_use"}
                    /\ m.calls = <<>>
               [] OTHER ->
                    /\ m.role \in {"user", "assistant", "reasoning", "function_call", "function_call_output"}
                    /\ types \subseteq {"text", "input_image"}
                    /\ m.calls # <<>> <=> m.role = "function_call"

(* The gate for requests without a key: exactly OpenCode's read and shell, *)
(* no name twice (but for another name that the caller has twice), an env  *)
(* block, a stream, and neither a choice nor an effort of none.            *)
GateAccepts ==
    (IsSent /\ tier.provider = "opencode" /\ tier.anonymous) =>
        /\ \A n \in {"read", "shell"} : \E t \in Range(out.tools) : t = Tool(n, "opencode")
        /\ \A i, j \in DOMAIN out.tools :
             i # j /\ out.tools[i].name = out.tools[j].name =>
               /\ out.tools[i].name \notin {"read", "shell"}
               /\ \E k, l \in DOMAIN setting.tools :
                    k # l /\ setting.tools[k].name = out.tools[i].name
                          /\ setting.tools[l].name = out.tools[i].name
        /\ Env[1] \in Range(out.system) \cup Range(SentTexts)
        /\ out.stream
        /\ out.choice.type # "none" /\ out.effort # "none"

(* Unless the caller chose none, every tool of it is offered, the names in *)
(* the answer are restored to the caller's own, and earlier calls and an   *)
(* explicit choice mean the caller's tool, not OpenCode's.  The history of *)
(* a Claude request is not renamed.  Of a name that has two definitions in *)
(* the caller's list only the first is sent, and nothing is said of it.    *)
NamesRestored ==
    LET restored(name) == IF name \in DOMAIN aliases THEN aliases[name] ELSE name
        own == {t.name : t \in {x \in Range(setting.tools) : x.def = "own"}}
        calls == {c.name : c \in UNION {Range(m.calls) : m \in Range(out.messages)}}
        named == IF out.choice.type \in {"tool", "named", "function"} THEN {out.choice.name} ELSE {}
        definite == \A t, u \in Range(setting.tools) : t.name = u.name => t = u
    IN (/\ IsSent /\ tier.provider = "opencode" /\ out.tools # <<>>
        /\ setting.choice # "none" /\ definite) =>
        /\ \A t \in Range(out.tools) :
             t.def = "own" => restored(t.name) \in own
        /\ \A n \in own : \E t \in Range(out.tools) : restored(t.name) = n
        /\ \A n \in (calls \cup named) :
             restored(n) \in own => \E t \in Range(out.tools) : t.name = n /\ t.def = "own"
        /\ setting.choice \in own /\ named # {} => restored(out.choice.name) = setting.choice

(* Whether the client named a limit, and for a max_completion_tokens one   *)
(* that its own budget leaves room in.                                     *)
NamesLimit ==
    IF client = "openai" /\ setting.completion # 0 THEN setting.completion > setting.budget
    ELSE setting.max # 0

FitsBudget == out.thinking.type = "enabled" => out.max > out.thinking.budget

(* The Messages API refuses max_tokens that thinking could use up, so      *)
(* AdjustMaxTokens raises them, however small the client's are; a          *)
(* max_completion_tokens overrides what it made.  A max_tokens the gateway *)
(* chooses, or a budget made of an effort, is not compared.                *)
BudgetFits ==
    (IsSent /\ out.format = "claude" /\ Translated /\ NamesLimit /\ setting.effort = "") => FitsBudget
=============================================================================
