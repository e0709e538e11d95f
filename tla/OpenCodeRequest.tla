--------------------------- MODULE OpenCodeRequest ---------------------------
(***************************************************************************)
(* infrastructure/upstream/opencode.go and opencode_tools.go: what the     *)
(* OpenCode provider does to a prepared request.  Without a key, requests  *)
(* are served only if they look like OpenCode's own: they declare its read *)
(* and shell tools, have an env block, do not choose "none" and stream.  A *)
(* caller's tool with one of those names travels under an alias.           *)
(***************************************************************************)
EXTENDS RequestBody, Functions

FingerprintToolNames == <<"read", "shell">>

(* key_client, key_client2, ... as far as they are needed. *)
AliasNames ==
    [read |-> <<"read_client", "read_client2", "read_client3">>,
     shell |-> <<"shell_client", "shell_client2", "shell_client3">>]

(* buildURL, as the format its endpoint has: the model's name decides, and *)
(* for a plain model the shape of the body.                                *)
BuildURL(kind, b) ==
    CASE kind = "responses" -> "responses"
      [] kind = "messages" -> "claude"
      [] OTHER -> IF b.format = "responses" THEN "responses" ELSE "openai"

StripNoneReasoningEffort(b) == [b EXCEPT !.effort = IF @ = "none" THEN "" ELSE @]

(* The code looks for the field's name anywhere in the body; no text or    *)
(* schema of a client has it here.                                         *)
EnsureMessagesMaxTokens(b) == [b EXCEPT !.max = IF @ = 0 THEN 4096 ELSE @]

(* Mutant: the first alias is used even if a caller's tool has it. *)
AliasForTaken(key, taken) == AliasNames[key][1]

AliasFor(key, taken) ==
    LET free == {i \in DOMAIN AliasNames[key] : AliasNames[key][i] \notin taken}
    IN AliasNames[key][CHOOSE i \in free : \A j \in free : i <= j]

(* aliases maps the name that is sent to the caller's. *)
ConcealTool(x, t) ==
    LET alias == AliasFor(t.name, x.taken)
    IN IF t.name \notin Range(FingerprintToolNames) THEN [x EXCEPT !.out = Append(@, t)]
       ELSE IF t.name \in x.seen THEN x
       ELSE IF t.def = "opencode" THEN [x EXCEPT !.out = Append(@, t), !.seen = @ \cup {t.name}]
       ELSE [out |-> Append(x.out, [t EXCEPT !.name = alias]),
             taken |-> x.taken \cup {alias}, seen |-> x.seen \cup {t.name},
             aliases |-> [n \in DOMAIN x.aliases \cup {alias} |->
                            IF n = alias THEN t.name ELSE x.aliases[n]]]

ConcealFingerprintToolNames(tools) ==
    Loop(ConcealTool, [out |-> <<>>, taken |-> {t.name : t \in Range(tools)},
                       seen |-> {}, aliases |-> [n \in {} |-> ""]], tools)

MissingFingerprintTools(tools) ==
    Keep(FingerprintToolNames, LAMBDA n : \A t \in Range(tools) : t.name # n)

(* A caller's name as it is sent: aliasesByOriginal. *)
SentName(aliases, name) ==
    IF \E alias \in DOMAIN aliases : aliases[alias] = name
    THEN CHOOSE alias \in DOMAIN aliases : aliases[alias] = name ELSE name

(* Mutant: the choice keeps the caller's name. *)
RetargetToolChoiceNever(c, aliases) == c

RetargetToolChoice(c, aliases) ==
    IF c.type \in {"tool", "named", "function"} THEN [c EXCEPT !.name = SentName(aliases, @)] ELSE c

(* Calls of earlier turns; the blocks of a Claude request are not read. *)
AliasCall(c, aliases) == [c EXCEPT !.name = SentName(aliases, @)]

AliasHistoryToolCalls(messages, aliases) ==
    MapEach(LAMBDA m : [m EXCEPT !.calls = MapEach(LAMBDA c : AliasCall(c, aliases), @)], messages)

(* noteUnavailableTools and ensureOpenCodeEnv add to the prompt: a field,  *)
(* or the system message at the head of an OpenAI request.                 *)
AppendPrompt(b, endpoint, text) ==
    IF endpoint # "openai" THEN [b EXCEPT !.system = @ \o text]
    ELSE IF b.messages # <<>> /\ b.messages[1].role = "system"
      THEN [b EXCEPT !.messages[1].content = Append(@, Text(text))]
      ELSE [b EXCEPT !.messages = <<Message("system", <<Text(text)>>)>> \o @]

HasOpenCodeEnv(b) ==
    \/ Env[1] \in Range(b.system)
    \/ b.messages # <<>> /\ b.messages[1].role = "system"
       /\ \E p \in Range(b.messages[1].content) : Env[1] \in Range(p.text)

EnsureOpenCodeEnv(b, endpoint) == IF HasOpenCodeEnv(b) THEN b ELSE AppendPrompt(b, endpoint, Env)

StripNoneToolChoice(c) == IF c.type = "none" THEN Choice("") ELSE c

(* applyFingerprintTools: the request, and the aliases for its answer. *)
ApplyFingerprintTools(b, endpoint) ==
    LET concealed == ConcealFingerprintToolNames(b.tools)
        missing == MissingFingerprintTools(concealed.out)
        choice == RetargetToolChoice(StripNoneToolChoice(b.choice), concealed.aliases)
        named == [b EXCEPT !.tools = concealed.out \o MapEach(LAMBDA n : Tool(n, "opencode"), missing),
                           !.messages = AliasHistoryToolCalls(@, concealed.aliases),
                           !.choice = IF choice.type = "" /\ endpoint = "responses"
                                      THEN Choice("auto") ELSE choice]
        noted == IF missing = <<>> THEN named ELSE AppendPrompt(named, endpoint, Note)
    IN [body |-> EnsureOpenCodeEnv(noted, endpoint), aliases |-> concealed.aliases]

EnsureStreamRequest(b, endpoint) ==
    [b EXCEPT !.stream = TRUE, !.usage = @ \/ endpoint = "openai"]

(* ChatCompletion, up to the request that is posted. *)
OpenCodeSend(b, kind, anonymous) ==
    LET endpoint == BuildURL(kind, b)
        plain == StripNoneReasoningEffort(b)
        capped == IF kind = "messages" THEN EnsureMessagesMaxTokens(plain) ELSE plain
        marked == ApplyFingerprintTools(capped, endpoint)
    IN IF ~anonymous THEN [body |-> capped, aliases |-> [n \in {} |-> ""]]
       ELSE IF marked.body.stream THEN marked
       ELSE [marked EXCEPT !.body = EnsureStreamRequest(@, endpoint)]

(* restoreToolNamesInJSON: the name of a call in the answer. *)
RestoreToolName(aliases, name) == IF name \in DOMAIN aliases THEN aliases[name] ELSE name
=============================================================================
