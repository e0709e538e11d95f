---------------------------- MODULE ComboUpstream -----------------------------
(***************************************************************************)
(* internal/infrastructure/upstream/combo_upstream.go: a combo walks its   *)
(* tiers in order, retries a tier once on a transport error, fails over to *)
(* the next one, and keeps a cooldown map shared by all requests so that a *)
(* tier that just failed is skipped while a fresh one remains below it.    *)
(*                                                                         *)
(* Requests run concurrently; each lock section of the code and each call  *)
(* to a tier's upstream is one step.                                       *)
(***************************************************************************)
EXTENDS Integers, FiniteSets

CONSTANTS
    Requests,      \* concurrent ChatCompletion calls
    NTiers,        \* len(u.tiers)
    TTL,           \* comboTierCooldownTTL, in ticks
    MaxTime        \* bound: the clock stops here

ASSUME ComboAssumption == NTiers \in Nat \ {0} /\ TTL \in Nat /\ MaxTime \in Nat

Tiers == 1..NTiers

NotCooled == -1

VARIABLES
    now,           \* time.Now()
    cooled,        \* cooled[i]: end of tier i's cooldown, or NotCooled
    req,           \* the ChatCompletion calls
    faulted        \* tiers that have failed by their own fault (history)

vars == <<now, cooled, req, faulted>>

IdleRequest ==
    [pc |-> "idle",            \* "decide", "prepare", "call", "handle", "done"
     tier |-> 1,               \* the loop index i
     attempt |-> 0,            \* the same-tier retry, 0 or 1
     outcome |-> "none",       \* what the tier returned: "ok", "retryable", "err", "nil"
     canceled |-> FALSE,       \* ctx.Err() # nil
     result |-> "none",        \* "response", "error", "unprepared" or "ctx"
     tried |-> {},             \* tiers whose upstream was called (history)
     open |-> {}]              \* tiers whose response body is still open

Init ==
    /\ now = 0
    /\ cooled = [i \in Tiers |-> NotCooled]
    /\ req = [r \in Requests |-> IdleRequest]
    /\ faulted = {}

-----------------------------------------------------------------------------
(* The cooldown map *)

InCooldown(i) == cooled[i] # NotCooled /\ ~(now > cooled[i])

(* Mutant: a cooled tier is skipped whatever remains below it. *)
AlwaysFresh(from) == TRUE

HasFreshTierFrom(from) == \E j \in from..NTiers : ~InCooldown(j)

(* inCooldownLocked deletes the entry it finds expired. *)
DropExpired(i) ==
    cooled' = IF InCooldown(i) THEN cooled ELSE [cooled EXCEPT ![i] = NotCooled]

MarkCooldown(i) == cooled' = [cooled EXCEPT ![i] = now + TTL]

-----------------------------------------------------------------------------
(* ChatCompletion *)

Last(r) == req[r].tier = NTiers

Begin(r) ==
    /\ req[r].pc = "idle"
    /\ req' = [req EXCEPT ![r] = [IdleRequest EXCEPT !.pc = "decide"]]
    /\ UNCHANGED <<now, cooled, faulted>>

(* The client disconnects: its context is canceled at any moment. *)
Cancel(r) ==
    /\ req[r].pc \notin {"idle", "done"}
    /\ ~req[r].canceled
    /\ req' = [req EXCEPT ![r].canceled = TRUE]
    /\ UNCHANGED <<now, cooled, faulted>>

(* continue: the next tier of the loop. *)
NextTier(r) == [req[r] EXCEPT !.pc = "decide", !.tier = @ + 1, !.outcome = "none"]

(* return: the call ends with result. *)
Return(r, result) == [req[r] EXCEPT !.pc = "done", !.result = result]

(* Skip a cooled tier while a fresh one remains below it; otherwise go on  *)
(* with it, cooled or not.  The loop cannot run past the last tier: it has *)
(* no tier below it.                                                       *)
Decide(r) ==
    LET i == req[r].tier
        skip == InCooldown(i) /\ HasFreshTierFrom(i + 1)
    IN
    /\ req[r].pc = "decide"
    /\ DropExpired(i)
    /\ req' = [req EXCEPT ![r] =
         IF ~skip THEN [@ EXCEPT !.pc = "prepare"]
         ELSE IF Last(r) THEN Return(r, "error")
         ELSE NextTier(r)]
    /\ UNCHANGED <<now, faulted>>

(* rewriteModel, translate.Request, PrepareForUpstreamWithModel and        *)
(* NormalizeClaudeContent: any of them may reject the body for this tier.  *)
PrepareFails(r) ==
    /\ req[r].pc = "prepare"
    /\ req' = [req EXCEPT ![r] =
         IF Last(r) THEN Return(r, "unprepared") ELSE NextTier(r)]
    /\ UNCHANGED <<now, cooled, faulted>>

Prepared(r) ==
    /\ req[r].pc = "prepare"
    /\ req' = [req EXCEPT ![r].pc = "call", ![r].attempt = 0]
    /\ UNCHANGED <<now, cooled, faulted>>

(* The tier's upstream answers. *)
CallAnswers(r, outcome) ==
    /\ req[r].pc = "call"
    /\ outcome \in {"ok", "retryable"}
    /\ req' = [req EXCEPT ![r].pc = "handle", ![r].outcome = outcome,
                          ![r].tried = @ \cup {req[r].tier},
                          ![r].open = @ \cup {req[r].tier}]
    /\ faulted' = IF outcome = "retryable" THEN faulted \cup {req[r].tier} ELSE faulted
    /\ UNCHANGED <<now, cooled>>

(* The tier's upstream has been called. *)
Tried(r) == [req[r] EXCEPT !.tried = @ \cup {req[r].tier}]

(* It fails, by its own fault or, once the context is canceled, because of *)
(* that; a first failure is retried unless the context is gone.            *)
CallFails(r, outcome, fault) ==
    /\ req[r].pc = "call"
    /\ outcome \in {"err", "nil"}
    /\ fault \/ (req[r].canceled /\ outcome = "err")
    /\ faulted' = IF fault THEN faulted \cup {req[r].tier} ELSE faulted
    /\ req' = [req EXCEPT ![r] =
         IF req[r].canceled \/ req[r].attempt = 1
           THEN [Tried(r) EXCEPT !.pc = "handle", !.outcome = outcome]
           ELSE [Tried(r) EXCEPT !.attempt = 1]]
    /\ UNCHANGED <<now, cooled>>

(* Mutant: the canceled context is not told apart from an upstream fault. *)
HandleErrorBlaming(r) ==
    /\ req[r].pc = "handle"
    /\ req[r].outcome = "err"
    /\ MarkCooldown(req[r].tier)
    /\ req' = [req EXCEPT ![r] = IF Last(r) THEN Return(r, "error") ELSE NextTier(r)]
    /\ UNCHANGED <<now, faulted>>

(* A canceled context ends the call without blaming the tier. *)
HandleError(r) ==
    /\ req[r].pc = "handle"
    /\ req[r].outcome = "err"
    /\ IF req[r].canceled
         THEN /\ req' = [req EXCEPT ![r] = Return(r, "ctx")]
              /\ UNCHANGED cooled
         ELSE /\ MarkCooldown(req[r].tier)
              /\ req' = [req EXCEPT ![r] =
                   IF Last(r) THEN Return(r, "error") ELSE NextTier(r)]
    /\ UNCHANGED <<now, faulted>>

HandleNil(r) ==
    /\ req[r].pc = "handle"
    /\ req[r].outcome = "nil"
    /\ MarkCooldown(req[r].tier)
    /\ req' = [req EXCEPT ![r] = IF Last(r) THEN Return(r, "error") ELSE NextTier(r)]
    /\ UNCHANGED <<now, faulted>>

(* Mutant: the rejected response is not closed. *)
HandleRetryableLeaking(r) ==
    /\ req[r].pc = "handle"
    /\ req[r].outcome = "retryable"
    /\ ~Last(r)
    /\ MarkCooldown(req[r].tier)
    /\ req' = [req EXCEPT ![r] = NextTier(r)]
    /\ UNCHANGED <<now, faulted>>

(* A retryable status closes the response and fails over... *)
HandleRetryable(r) ==
    /\ req[r].pc = "handle"
    /\ req[r].outcome = "retryable"
    /\ ~Last(r)
    /\ MarkCooldown(req[r].tier)
    /\ req' = [req EXCEPT ![r] = [NextTier(r) EXCEPT !.open = @ \ {req[r].tier}]]
    /\ UNCHANGED <<now, faulted>>

(* ... but on the last tier it is returned like a success, and like a      *)
(* success it clears the tier's cooldown.                                  *)
HandleResponse(r) ==
    /\ req[r].pc = "handle"
    /\ \/ req[r].outcome = "ok"
       \/ req[r].outcome = "retryable" /\ Last(r)
    /\ cooled' = [cooled EXCEPT ![req[r].tier] = NotCooled]
    /\ req' = [req EXCEPT ![r] = Return(r, "response")]
    /\ UNCHANGED <<now, faulted>>

(* The caller has consumed the result. *)
Finish(r) ==
    /\ req[r].pc = "done"
    /\ req' = [req EXCEPT ![r] = IdleRequest]
    /\ UNCHANGED <<now, cooled, faulted>>

Tick ==
    /\ now < MaxTime
    /\ now' = now + 1
    /\ UNCHANGED <<cooled, req, faulted>>

ChatCompletion(r) ==
    \/ Decide(r)
    \/ PrepareFails(r)
    \/ Prepared(r)
    \/ \E outcome \in {"ok", "retryable"} : CallAnswers(r, outcome)
    \/ \E outcome \in {"err", "nil"}, fault \in BOOLEAN : CallFails(r, outcome, fault)
    \/ HandleError(r)
    \/ HandleNil(r)
    \/ HandleRetryable(r)
    \/ HandleResponse(r)

Next ==
    \/ \E r \in Requests : Begin(r) \/ Cancel(r) \/ ChatCompletion(r) \/ Finish(r)
    \/ Tick

Spec == Init /\ [][Next]_vars

-----------------------------------------------------------------------------
(* Properties *)

(* "If every remaining tier is cooled, fall through and try anyway rather  *)
(* than failing fast with no attempt": whatever other requests do to the   *)
(* cooldown map between two of its decisions, a call that ends in an error *)
(* has called the last tier.                                               *)
NeverFailsFast ==
    \A r \in Requests : req[r].result = "error" => NTiers \in req[r].tried

(* "A canceled request context is the client disconnecting, not an         *)
(* upstream fault": a tier is in cooldown only if it has itself failed.    *)
OnlyFaultsCool == \A i \in Tiers : cooled[i] # NotCooled => i \in faulted

(* The response bodies a call leaves open are exactly the one it returns. *)
ResponsesAccounted ==
    \A r \in Requests :
      req[r].pc = "done" =>
        req[r].open = IF req[r].result = "response" THEN {req[r].tier} ELSE {}
=============================================================================
