----------------------------- MODULE RequestBody -----------------------------
(***************************************************************************)
(* What the request translators exchange.  Text is a sequence of numbers,  *)
(* one for each place of the client's request it comes from, so that       *)
(* joining two texts is joining two sequences and "" is <<>>.  A request   *)
(* has the same fields in all four formats: messages is the messages of    *)
(* OpenAI and Claude, the input of Responses and the contents of Gemini;   *)
(* system is what Claude, Responses and Gemini keep apart from them.       *)
(***************************************************************************)
EXTENDS Integers, SequencesExt

Formats == {"openai", "claude", "responses", "gemini"}

(* The id of a tool call: a name, the characters in it that not every      *)
(* upstream accepts, and the numbers that were put behind it.              *)
ToolID(base, dirt) == [base |-> base, dirt |-> dirt, n |-> <<>>]

NoID == ToolID("", "")

Numbered(id, n) == [id EXCEPT !.n = Append(@, n)]

(* scrubToolID puts "_" for a character that is not allowed, ensureID      *)
(* leaves it out, and clampCallID cuts what is beyond 64 bytes, where "1"  *)
(* and "2" stand for ids that differ only there.                           *)
ScrubToolID(id) == IF id.dirt \in {".", ":"} THEN [id EXCEPT !.dirt = "_"] ELSE id

StripID(id) == IF id.dirt \in {".", ":"} THEN [id EXCEPT !.dirt = ""] ELSE id

ClampCallID(id) == IF id.dirt \in {"1", "2"} THEN [id EXCEPT !.dirt = ""] ELSE id

(* A content part.  type is text, image (Claude's), image_url (a data URL, *)
(* OpenAI's), thinking, tool_use, tool_result, or bare: a string where a   *)
(* part should be.  Arguments are the JSON objects in the string, one      *)
(* behind the other: "bad" is one that does not parse.                     *)
Part(type, text) == [type |-> type, text |-> text, id |-> NoID, name |-> "", args |-> <<>>]

Text(text) == Part("text", text)

ToolResult(id, text) == [Part("tool_result", text) EXCEPT !.id = id]

ToolUse(id, name, args) == [Part("tool_use", <<>>) EXCEPT !.id = id, !.name = name, !.args = args]

Call(id, name, args) == [id |-> id, name |-> name, args |-> args]

(* as is the field that holds the reasoning, "" for none. *)
Message(role, content) ==
    [role |-> role, content |-> content, calls |-> <<>>, id |-> NoID,
     reasoning |-> <<>>, as |-> ""]

ToolMessage(id, text) == [Message("tool", <<Text(text)>>) EXCEPT !.id = id]

(* max 0 is no max_tokens; kept is the max_output_tokens that is left in   *)
(* an OpenAI body, and completion its max_completion_tokens.  choice is    *)
(* "", a word, or a tool by its name: tool, function and named are the     *)
(* shapes of Claude, OpenAI and Responses.                                 *)
NoThinking == [type |-> "", budget |-> 0]

(* A tool, and whose definition it has: the caller's own or OpenCode's. *)
Tool(name, def) == [name |-> name, def |-> def]

(* The texts the gateway writes into a request are the negative numbers. *)
SyntheticToolContent == <<-1>>
Truncated == <<-2>>
Note == <<-3>>
Env == <<-4>>
Dots == <<-5>>

EmptyBody(format) ==
    [format |-> format, system |-> <<>>, messages |-> <<>>, tools |-> <<>>,
     choice |-> [type |-> "", name |-> ""], max |-> 0, kept |-> 0, completion |-> 0,
     thinking |-> NoThinking,
     effort |-> "", stream |-> FALSE, usage |-> FALSE, stop |-> <<>>, topP |-> FALSE]

Choice(type) == [type |-> type, name |-> ""]

-----------------------------------------------------------------------------
(* The members of a sequence that pass a test, and a loop over a sequence, *)
(* in forms that proofs can unfold.                                        *)
Keep(seq, Test(_)) == FlattenSeq([i \in DOMAIN seq |-> IF Test(seq[i]) THEN <<seq[i]>> ELSE <<>>])

Loop(Step(_, _), base, seq) ==
    LET upTo[n \in 0 .. Len(seq)] == IF n = 0 THEN base ELSE Step(upTo[n - 1], seq[n])
    IN upTo[Len(seq)]

OfType(content, types) == Keep(content, LAMBDA p : p.type \in types)

(* Texts put together; a string and a list of one text are the same.       *)
JoinedText(content, types) ==
    FlattenSeq([i \in DOMAIN OfType(content, types) |-> OfType(content, types)[i].text])

OneText(text) == IF text = <<>> THEN <<>> ELSE <<Text(text)>>

MapEach(F(_), seq) == [i \in DOMAIN seq |-> F(seq[i])]

FlatMap(F(_), seq) == FlattenSeq(MapEach(F, seq))

(* repairToolArgs of one object, and of a string with several. *)
RepairObject(o) == IF o = "bad" THEN "fixed" ELSE o

RepairToolArgs(args) == IF args = <<>> THEN <<"{}">> ELSE <<RepairObject(args[1])>>

(* splitToolArgs finds the first boundary only, and drops a repetition.    *)
SplitToolArgs(args) ==
    CASE args = <<>> -> <<"{}">>
      [] Len(args) = 1 -> <<RepairObject(args[1])>>
      [] OTHER -> IF RepairObject(args[1]) = RepairObject(args[2]) THEN <<RepairObject(args[1])>>
                  ELSE <<RepairObject(args[1]), RepairObject(args[2])>>
=============================================================================
