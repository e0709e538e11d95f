----------------------------- MODULE MCRequests -----------------------------
(***************************************************************************)
(* RequestPipeline with conversations of two turns.                        *)
(***************************************************************************)
EXTENDS RequestPipeline

MCTurns == {"ask", "show", "say", "blank", "use", "two", "same", "taken", "held", "lost", "gone",
             "glued", "cut", "rule"}

Chatty(family) == [kind |-> "chat", family |-> family]

MCModels == {Chatty(""), Chatty("flash"), [kind |-> "responses", family |-> ""],
             [kind |-> "messages", family |-> ""]}

Upstream(provider, model, anonymous) ==
    [provider |-> provider, model |-> model, anonymous |-> anonymous]

MCTiers ==
    {Upstream("plain", Chatty("flash"), FALSE), Upstream("opencode", Chatty(""), TRUE),
     Upstream("opencode", [kind |-> "responses", family |-> ""], TRUE),
     Upstream("opencode", [kind |-> "messages", family |-> ""], TRUE),
     Upstream("opencode", [kind |-> "messages", family |-> ""], FALSE)}

Setting(system, tools, choice, max, completion, budget, effort, stream) ==
    [system |-> system, tools |-> tools, choice |-> choice, max |-> max, completion |-> completion,
     budget |-> budget, effort |-> effort, stream |-> stream]

(* No tools; tools with a name of OpenCode's, and its alias taken; one     *)
(* declared twice; a budget above max_tokens, one equal to it, and one     *)
(* above and one below max_completion_tokens.                              *)
MCSettings ==
    {Setting(<<>>, <<>>, "", 0, 0, 0, "", TRUE),
     Setting(<<>>, <<Tool("read", "own"), Tool("grep", "own"), Tool("read_client", "own")>>,
             "read", 100, 7000, 5000, "", TRUE),
     Setting(<<5>>, <<Tool("shell", "opencode"), Tool("grep", "own")>>, "none", 6000, 0, 6000, "", FALSE),
     Setting(<<5>>, <<Tool("read", "own"), Tool("read", "own"), Tool("shell", "own")>>,
             "", 0, 0, 0, "none", FALSE),
     Setting(<<>>, <<>>, "", 8000, 1000, 5000, "", TRUE)}
=============================================================================
