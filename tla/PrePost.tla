------------------------------- MODULE PrePost -------------------------------
(***************************************************************************)
(* translate/internal/prepost: what is done to a request between the       *)
(* translators (on its OpenAI form), behind the one to Claude, and before  *)
(* it is sent.                                                             *)
(***************************************************************************)
EXTENDS RequestBody

DefaultMinTokens == 4096

(* How much more than the thinking budget max_tokens is made. *)
BudgetMargin == 1024

(* maxOpenAIStops, and the literal that closes DeepSeek's tool calls. *)
MaxStops == 4
DSMLCloser == "dsml"

NormalizeRoles(messages) ==
    MapEach(LAMBDA m : IF m.role = "developer" THEN [m EXCEPT !.role = "system"] ELSE m, messages)

(* normalizeThinkingConfig: no thinking unless a user speaks last. *)
NormalizeThinkingConfig(b) ==
    IF b.thinking.type = "enabled" /\ b.messages # <<>> /\ Last(b.messages).role # "user"
    THEN [b EXCEPT !.thinking = NoThinking] ELSE b

-----------------------------------------------------------------------------
(* The ids of the results in a message. *)
CollectRespondedIDs(m) ==
    (IF m.role = "tool" THEN {m.id} ELSE {})
    \cup {p.id : p \in {q \in Range(m.content) : q.type = "tool_result"}}

HasValidContent(m) ==
    \/ m.calls # <<>>
    \/ \E p \in Range(m.content) :
         \/ p.type \in {"tool_use", "tool_result", "image"}
         \/ p.type = "text" /\ p.text # <<>>

IsOnlyToolResults(m) == m.content # <<>> /\ \A p \in Range(m.content) : p.type = "tool_result"

(* What is left of a sequence when its longest head of such members goes.  *)
DropWhile(P(_), seq) ==
    LET keep == {i \in DOMAIN seq : ~P(seq[i])}
    IN IF keep = {} THEN <<>> ELSE SubSeq(seq, CHOOSE i \in keep : \A j \in keep : i <= j, Len(seq))

DropOrphans(messages) ==
    DropWhile(LAMBDA m : m.role = "user" /\ IsOnlyToolResults(m),
              DropWhile(LAMBDA m : m.role = "tool", messages))

(* The results at the head of a history that was cut go, and the calls of  *)
(* the last assistant if nothing behind it is a result.                    *)
SanitizeToolHistory(messages) ==
    LET msgs == DropOrphans(messages)
        assistants == {i \in DOMAIN msgs : msgs[i].role = "assistant"}
        last == CHOOSE i \in assistants : \A j \in assistants : j <= i
        responded == UNION {CollectRespondedIDs(msgs[j]) : j \in last + 1 .. Len(msgs)}
    IN IF assistants = {} \/ msgs[last].calls = <<>> \/ responded # {} THEN msgs
       ELSE [msgs EXCEPT ![last].calls = <<>>,
                         ![last].content = IF HasValidContent([msgs[last] EXCEPT !.calls = <<>>])
                                           THEN @ ELSE <<Text(Truncated)>>]

-----------------------------------------------------------------------------
EnsureID(id, name, i, j) ==
    IF StripID(id).base # "" THEN StripID(id)
    ELSE [base |-> "call_msg", dirt |-> name, n |-> <<i - 1, j - 1>>]

(* Mutant: a result always gets the id of the first call it could mean. *)
ResultIDFirst(ids, results, r) ==
    LET finals == Keep(ids, LAMBDA e : e.def = r)
    IN IF finals # <<>> THEN finals[1].final ELSE r

(* The n-th result with an id goes to the n-th call that had it. *)
ResultID(ids, results, r) ==
    LET finals == Keep(ids, LAMBDA e : e.def = r)
        n == Len(Keep(results, LAMBDA e : e = r))
    IN IF n < Len(finals) THEN finals[n + 1].final
       ELSE IF n = 0 THEN r ELSE Numbered(r, n)

(* A call whose id was seen before gets a number; ids is all calls so far  *)
(* with the id they had and the one they got.                              *)
NameCall(ids, def) ==
    LET n == Len(Keep(ids, LAMBDA e : e.def = def))
    IN Append(ids, [def |-> def, final |-> IF n = 0 THEN def ELSE Numbered(def, n)])

(* Claude's blocks are treated the same way; a body has none of them when  *)
(* it comes here.                                                          *)
EnsureMessage(x, m) ==
    LET i == Len(x.out) + 1
        ids == Loop(NameCall, x.ids,
                    [j \in DOMAIN m.calls |-> EnsureID(m.calls[j].id, m.calls[j].name, i, j)])
        r == EnsureID(m.id, "", i, 1)
        answers == m.role = "tool" /\ m.id # NoID
        calls == [j \in DOMAIN m.calls |-> [m.calls[j] EXCEPT !.id = ids[Len(x.ids) + j].final]]
    IN [out |-> Append(x.out, [m EXCEPT !.calls = calls,
                                        !.id = IF answers THEN ResultID(ids, x.results, r) ELSE @]),
        ids |-> ids,
        results |-> IF answers THEN Append(x.results, r) ELSE x.results]

EnsureToolCallIds(messages) ==
    Loop(EnsureMessage, [out |-> <<>>, ids |-> <<>>, results |-> <<>>], messages).out

(* The ids answered behind message i: by tool messages, and by the user    *)
(* message that ends them.                                                 *)
Responded(messages, i) ==
    LET scanned(j) == \A k \in i + 1 .. j - 1 : messages[k].role = "tool"
    IN UNION {CollectRespondedIDs(messages[j]) :
                j \in {k \in i + 1 .. Len(messages) : scanned(k) /\ messages[k].role \in {"tool", "user"}}}

(* A result is made up for each call that has none. *)
FixMissingToolResponses(messages) ==
    FlattenSeq([i \in DOMAIN messages |->
        LET m == messages[i]
            missing == Keep(m.calls, LAMBDA c : c.id # NoID /\ c.id \notin Responded(messages, i))
        IN IF m.role # "assistant" THEN <<m>>
           ELSE <<m>> \o MapEach(LAMBDA c : ToolMessage(c.id, SyntheticToolContent), missing)])

(* Mutant: max_tokens may be as small as the budget. *)
AdjustMaxTokensEqual(b) ==
    LET min == IF b.tools # <<>> /\ b.max < DefaultMinTokens THEN DefaultMinTokens ELSE b.max
    IN IF b.max = 0 THEN [b EXCEPT !.max = min]
       ELSE [b EXCEPT !.max = IF min < b.thinking.budget THEN b.thinking.budget + BudgetMargin ELSE min]

(* The budget is looked at only if the request came with a max_tokens. *)
AdjustMaxTokens(b) ==
    LET min == IF b.tools # <<>> /\ b.max < DefaultMinTokens THEN DefaultMinTokens ELSE b.max
    IN IF b.max = 0 THEN [b EXCEPT !.max = min]
       ELSE [b EXCEPT !.max = IF b.thinking.budget # 0 /\ min <= b.thinking.budget
                              THEN b.thinking.budget + BudgetMargin ELSE min]

-----------------------------------------------------------------------------
(* A block the Claude API refuses.  A thinking block without text has no   *)
(* signature here, and clients send no redacted thinking.                  *)
IsRejectableBlock(p) == p.type \in {"text", "thinking"} /\ p.text = <<>>

StripRejectableBlocks(messages) ==
    MapEach(LAMBDA m : [m EXCEPT !.content =
              Keep(@, LAMBDA p : p.type # "bare" /\ ~IsRejectableBlock(p))], messages)

(* An empty message goes, unless it is an assistant's and the last. *)
DropEmptyMessages(messages) ==
    FlattenSeq([i \in DOMAIN messages |->
        IF HasValidContent(messages[i]) \/ (i = Len(messages) /\ messages[i].role = "assistant")
        THEN <<messages[i]>> ELSE <<>>])

(* What an assistant says behind its first call goes. *)
FixToolUseOrdering(m) ==
    LET uses == {i \in DOMAIN m.content : m.content[i].type = "tool_use"}
        keep(i) == m.content[i].type \in {"tool_use", "thinking"} \/ \A j \in uses : i < j
    IN IF m.role # "assistant" THEN m
       ELSE [m EXCEPT !.content =
               FlattenSeq([i \in DOMAIN m.content |-> IF keep(i) THEN <<m.content[i]>> ELSE <<>>])]

(* Results go first. *)
MergeInto(dst, src) ==
    LET all == dst.content \o src.content
    IN [dst EXCEPT !.content = OfType(all, {"tool_result"})
                               \o Keep(all, LAMBDA p : p.type # "tool_result")]

(* Mutant: a message with results is left alone. *)
MergeSameRoleNoResults(out, m) ==
    IF out # <<>> /\ Last(out).role = m.role /\ OfType(Last(out).content, {"tool_result"}) = <<>>
    THEN [out EXCEPT ![Len(out)] = MergeInto(@, m)] ELSE Append(out, m)

(* mergeConsecutiveSameRole *)
MergeSameRole(out, m) ==
    IF out # <<>> /\ Last(out).role = m.role
    THEN [out EXCEPT ![Len(out)] = MergeInto(@, m)] ELSE Append(out, m)

MergeConsecutiveSameRole(messages) == Loop(MergeSameRole, <<>>, messages)

PrepareClaudeRequest(b) ==
    [b EXCEPT !.messages = MergeConsecutiveSameRole(
                             MapEach(FixToolUseOrdering, DropEmptyMessages(StripRejectableBlocks(@))))]

NormalizeClaudeContent(b) ==
    [b EXCEPT !.messages = DropEmptyMessages(StripRejectableBlocks(@))]

-----------------------------------------------------------------------------
(* ensureDSMLToolStop *)
EnsureDSMLToolStop(stop) ==
    IF DSMLCloser \in Range(stop) \/ Len(stop) >= MaxStops THEN stop ELSE Append(stop, DSMLCloser)

(* An assistant's reasoning is in reasoning_content; DeepSeek wants one    *)
(* from every assistant, empty or not.                                     *)
SyncReasoning(m, deepseek) ==
    IF m.role = "assistant" /\ (m.as = "reasoning" \/ (m.as = "" /\ deepseek))
    THEN [m EXCEPT !.as = "reasoning_content"] ELSE m

PrepareUpstreamWithModel(b, model) ==
    LET deepseek == model \in {"deepseek", "flash"}
    IN [b EXCEPT !.messages = MapEach(LAMBDA m : SyncReasoning(m, deepseek), NormalizeRoles(@)),
                 !.usage = @ \/ b.stream,
                 !.topP = @ \/ model = "flash",
                 !.stop = IF deepseek /\ b.tools # <<>> THEN EnsureDSMLToolStop(@) ELSE @]
=============================================================================
