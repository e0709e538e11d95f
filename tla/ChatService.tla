---------------------------- MODULE ChatService ----------------------------
(***************************************************************************)
(* ChatService.ProxyChat, the request pipeline of application/chat.go,     *)
(* with the counters of infrastructure/metrics and the handler that calls  *)
(* it.  Requests run concurrently and share only the metrics; a client may *)
(* disconnect at any moment.                                               *)
(*                                                                         *)
(* An upstream answers "ok" (below 400), "rejected" (a 4xx that is final), *)
(* "retryable" (429, 5xx or a free-tier rejection), or fails: "error" for  *)
(* a transport error, "nil" for the nil response the contract forbids.     *)
(***************************************************************************)
EXTENDS Integers, Sequences, FiniteSets, SequencesExt

CONSTANTS
    Requests,
    Upstreams,
    Chains          \* the candidate lists that SelectChain and Select give

VARIABLES
    total, errors,  \* TotalRequests and UpstreamErrors
    tokens,         \* InputTokens and OutputTokens, as one counter
    perUp,          \* name -> its counter: the object's number, 0 for none
    counter,        \* counter object -> value
    req,            \* request -> where ProxyChat is
    canceled,       \* requests whose client went away
    open,           \* response bodies not yet closed
    logged,         \* request log: the statuses recorded for the request
    usage,          \* request log: the tokens recorded for the request
    client,         \* the status the client was sent, "none" so far
    answers,        \* history: what the candidates answered, in order
    left            \* history: the answers there were when the client left

vars == <<total, errors, tokens, perUp, counter, req, canceled, open, logged, usage, client, answers,
          left>>
metrics == <<total, errors, tokens, perUp, counter, usage>>

Objects == 1..(2 * Cardinality(Requests) * Cardinality(Upstreams))
Answers == {"ok", "rejected", "retryable", "error", "nil"}

Init ==
    /\ total = 0 /\ errors = 0 /\ tokens = 0
    /\ perUp = [u \in Upstreams |-> 0]
    /\ counter = [o \in Objects |-> 0]
    /\ req = [r \in Requests |-> [pc |-> "new", chain |-> <<>>, at |-> 0]]
    /\ canceled = {}
    /\ open = [r \in Requests |-> 0]
    /\ logged = [r \in Requests |-> <<>>]
    /\ usage = [r \in Requests |-> 0]
    /\ client = [r \in Requests |-> "none"]
    /\ answers = [r \in Requests |-> <<>>]
    /\ left = [r \in Requests |-> 0]

Goto(r, pc) == req' = [req EXCEPT ![r].pc = pc]
Candidate(r) == req[r].chain[req[r].at]

(* Mutant: the last candidate is not seen to be the last. *)
IsLastLate(r) == req[r].at > Len(req[r].chain)

IsLast(r) == req[r].at = Len(req[r].chain)

(* Mutant: a request whose client went away is not logged. *)
LogUnlessGone(r, status) ==
    logged' = IF status = "499" THEN logged ELSE [logged EXCEPT ![r] = Append(@, status)]

(* The deferred logger: one entry, when ProxyChat returns. *)
Log(r, status) == logged' = [logged EXCEPT ![r] = Append(@, status)]

Disconnect(r) ==
    /\ req[r].pc \notin {"new", "done"} /\ r \notin canceled
    /\ canceled' = canceled \cup {r}
    /\ left' = [left EXCEPT ![r] = Len(answers[r])]
    /\ UNCHANGED <<metrics, req, open, logged, client, answers>>

-----------------------------------------------------------------------------
(* ProxyChat up to the first candidate *)

Begin(r) ==
    /\ req[r].pc = "new"
    /\ total' = total + 1
    /\ \E chain \in Chains :
         \/ /\ chain # <<>>
            /\ req' = [req EXCEPT ![r] = [pc |-> "lookup", chain |-> chain, at |-> 1]]
            /\ UNCHANGED <<errors, logged>>
         \/ /\ chain = <<>>
            /\ errors' = errors + 1
            /\ Log(r, "502")
            /\ Goto(r, "failed")
    /\ UNCHANGED <<tokens, perUp, counter, canceled, open, usage, client, answers, left>>

-----------------------------------------------------------------------------
(* IncrUpstream: look up, insert with a second look, add *)

(* The call that follows runs on the request's context: when that is done  *)
(* already, every upstream returns its error without asking the provider.  *)
CallStarts(r) == IF r \in canceled THEN "refused" ELSE "call"

LookupCounter(r) ==
    /\ req[r].pc = "lookup"
    /\ Goto(r, IF perUp[Candidate(r)] = 0 THEN "insert" ELSE CallStarts(r))
    /\ counter' = IF perUp[Candidate(r)] = 0 THEN counter
                  ELSE [counter EXCEPT ![perUp[Candidate(r)]] = @ + 1]
    /\ UNCHANGED <<total, errors, tokens, perUp, canceled, open, logged, usage, client, answers, left>>

Allocated == {perUp[u] : u \in Upstreams} \cup {o \in Objects : counter[o] > 0}

(* Mutant: the map is not looked at again under the write lock. *)
CounterAgain(u) == 0

(* The second look, under the write lock. *)
CounterOf(u) == perUp[u]

InsertCounter(r) ==
    /\ req[r].pc = "insert"
    /\ LET u == Candidate(r)
           o == IF CounterOf(u) # 0 THEN CounterOf(u)
                ELSE CHOOSE x \in Objects : x \notin Allocated
       IN /\ perUp' = [perUp EXCEPT ![u] = o]
          /\ counter' = [counter EXCEPT ![o] = @ + 1]
    /\ Goto(r, CallStarts(r))
    /\ UNCHANGED <<total, errors, tokens, canceled, open, logged, usage, client, answers, left>>

-----------------------------------------------------------------------------
(* u.ChatCompletion returns *)

HasBody(answer) == answer \notin {"error", "nil"}

(* Mutant: a retryable answer of the last but one candidate is kept. *)
TriesNextEarly(r, answer) ==
    \/ answer \in {"error", "nil"} /\ ~IsLast(r)
    \/ answer = "retryable" /\ req[r].at < Len(req[r].chain) - 1

(* A candidate failed and another one is left. *)
TriesNext(r, answer) == answer \in {"error", "nil", "retryable"} /\ ~IsLast(r)

(* Mutant: the next candidate is asked although the client is gone. *)
GivesUpNever(r, answer) == FALSE

(* ctx.Err() is looked at after a transport error only: a nil response or  *)
(* a retryable status leads to the next candidate all the same.            *)
GivesUp(r, answer) == answer = "error" /\ r \in canceled

Answered(r, answer) ==
    /\ req[r].pc = "call" \/ (req[r].pc = "refused" /\ answer = "error")
    /\ answers' = [answers EXCEPT ![r] = Append(@, answer)]

(* Mutant: the response that is passed over is not closed. *)
LeftOpenAll(answer) == IF HasBody(answer) THEN 1 ELSE 0

(* rsp.Close() before the next candidate *)
LeftOpen(answer) == 0

TryNext(r, answer) ==
    /\ Answered(r, answer)
    /\ TriesNext(r, answer) /\ ~GivesUp(r, answer)
    /\ open' = [open EXCEPT ![r] = @ + LeftOpen(answer)]
    /\ req' = [req EXCEPT ![r].pc = "lookup", ![r].at = @ + 1]
    /\ UNCHANGED <<metrics, canceled, logged, client, left>>

CountFailure(r) == errors' = errors + 1

FailCanceled(r, answer) ==
    /\ Answered(r, answer)
    /\ GivesUp(r, answer)
    /\ CountFailure(r)
    /\ Log(r, "499")
    /\ Goto(r, "failed")
    /\ UNCHANGED <<total, tokens, perUp, counter, canceled, open, usage, client, left>>

FailLast(r, answer) ==
    /\ Answered(r, answer)
    /\ ~HasBody(answer) /\ IsLast(r) /\ ~GivesUp(r, answer)
    /\ CountFailure(r)
    /\ Log(r, "502")
    /\ Goto(r, "failed")
    /\ UNCHANGED <<total, tokens, perUp, counter, canceled, open, usage, client, left>>

(* The response is kept: resp = rsp, and its Close is deferred. *)
Keep(r, answer) ==
    /\ Answered(r, answer)
    /\ HasBody(answer) /\ ~TriesNext(r, answer)
    /\ open' = [open EXCEPT ![r] = @ + 1]
    /\ Goto(r, answer)
    /\ UNCHANGED <<metrics, canceled, logged, client, left>>

-----------------------------------------------------------------------------
(* The response goes to the client *)

Deliver(r, status) ==
    /\ client' = [client EXCEPT ![r] = status]
    /\ open' = [open EXCEPT ![r] = @ - 1]
    /\ Log(r, status)
    /\ Goto(r, "done")
    /\ UNCHANGED <<total, perUp, counter, canceled, answers, left>>

(* PassThroughDomainError: a status of 400 or more, counted and forwarded. *)
PassThrough(r) ==
    \E status \in {"rejected", "retryable"} :
      /\ req[r].pc = status
      /\ errors' = errors + 1
      /\ Deliver(r, status)
      /\ UNCHANGED <<tokens, usage>>

(* NormalizeDomainResponseWithContext writes the header before the body: a *)
(* body that breaks off leaves the status as it is, and no usage.          *)
Normalize(r) ==
    /\ req[r].pc = "ok"
    /\ Deliver(r, "ok")
    /\ \E n \in 0..1 : tokens' = tokens + n /\ usage' = [usage EXCEPT ![r] = n]
    /\ UNCHANGED errors

(* ProxyChat returned an error: the handler writes a gateway error. *)
WriteChatError(r) ==
    /\ req[r].pc = "failed"
    /\ client' = [client EXCEPT ![r] = "502"]
    /\ Goto(r, "done")
    /\ UNCHANGED <<metrics, canceled, open, logged, answers, left>>

Step(r) ==
    \/ Begin(r) \/ LookupCounter(r) \/ InsertCounter(r)
    \/ \E answer \in Answers :
         TryNext(r, answer) \/ FailCanceled(r, answer) \/ FailLast(r, answer) \/ Keep(r, answer)
    \/ PassThrough(r) \/ Normalize(r) \/ WriteChatError(r)

Next == \E r \in Requests : Step(r) \/ Disconnect(r)

Spec == Init /\ [][Next]_vars

(* An upstream call ends: the HTTP client has a timeout. *)
FairSpec == Spec /\ \A r \in Requests : WF_vars(Step(r))

-----------------------------------------------------------------------------
(* Properties *)

TypeOK ==
    /\ total \in 0..Cardinality(Requests)
    /\ errors \in 0..Cardinality(Requests)
    /\ tokens \in Nat
    /\ perUp \in [Upstreams -> {0} \cup Objects]
    /\ counter \in [Objects -> Nat]
    /\ \A r \in Requests :
         /\ req[r].pc \in {"new", "lookup", "insert", "call", "refused", "ok",
                           "rejected", "retryable", "failed", "done"}
         /\ req[r].chain \in Chains \cup {<<>>}
         /\ req[r].at \in 0..Len(req[r].chain)
    /\ canceled \subseteq Requests
    /\ open \in [Requests -> Nat]
    /\ logged \in [Requests -> Seq({"ok", "rejected", "retryable", "502", "499"})]
    /\ usage \in [Requests -> 0..1]
    /\ client \in [Requests -> {"none", "ok", "rejected", "retryable", "502"}]
    /\ answers \in [Requests -> Seq(Answers)]
    /\ left \in [Requests -> Nat]

Done == {r \in Requests : req[r].pc = "done"}

(* No response body leaks and none is closed twice: while a response is    *)
(* forwarded it is the only open one, and before and after there is none.  *)
BodiesClosed ==
    \A r \in Requests : open[r] = IF req[r].pc \in {"ok", "rejected", "retryable"} THEN 1 ELSE 0

(* The calls of all requests to u, each by its place in the chain, and the *)
(* tokens of the request log, one by one.                                  *)
Calls(u) == UNION {{r} \X {i \in 1..req[r].at : req[r].chain[i] = u} : r \in Requests}
Used == UNION {{r} \X (1..usage[r]) : r \in Requests}

(* No counter of the dashboard is wrong.  IncrUpstream loses no increment, *)
(* also when two requests meet a new name at the same time.  And counters  *)
(* and request log agree: each request that ended with a status of 400 or  *)
(* more is counted once as an error, no other is, and the tokens are those *)
(* of the log.                                                             *)
CountersExact ==
    /\ (\A r \in Requests : req[r].pc \notin {"lookup", "insert"}) =>
         \A u \in Upstreams :
           IF perUp[u] = 0 THEN Calls(u) = {} ELSE counter[perUp[u]] = Cardinality(Calls(u))
    /\ Done = Requests =>
         /\ total = Cardinality(Requests)
         /\ errors = Cardinality({r \in Requests : logged[r] # <<"ok">>})
         /\ tokens = Cardinality(Used)

(* "the first success - or the last failure when exhausted - is passed     *)
(* through": every answer before the last one made for a failover, and the *)
(* client gets the last one, which is final or came from the last          *)
(* candidate.                                                              *)
FirstSuccessOrLastFailure ==
    \A r \in Done :
      LET n == Len(answers[r])
          final == answers[r][n]
      IN req[r].chain # <<>> =>
           /\ n = req[r].at
           /\ \A i \in 1..(n - 1) : answers[r][i] \in {"error", "nil", "retryable"}
           /\ logged[r] # <<"499">> /\ final \in {"error", "nil", "retryable"} => n = Len(req[r].chain)
           /\ client[r] = IF final \in {"error", "nil"} THEN "502" ELSE final

(* "do not walk the remaining candidates - each would dial a fresh         *)
(* upstream for a request nobody is waiting for": however long the chain   *)
(* and whenever the client leaves, a request asks at most two more         *)
(* candidates - the one whose call is running, and one more if that call   *)
(* ends with a nil response or a retryable status, after which ctx.Err()   *)
(* is not looked at.  That second call is refused, and ends the request,   *)
(* which is logged as closed by the client and not as the upstream's       *)
(* failure.                                                                *)
GoneClientEndsChain ==
    \A r \in canceled :
      LET asked == Len(answers[r]) - left[r]
      IN /\ asked <= 2
         /\ asked = 2 => req[r].pc \in {"failed", "done"} /\ logged[r] = <<"499">>

(* "one entry per completed proxied request": every request that started   *)
(* is logged, once, and its client is answered.                            *)
EveryRequestLogged ==
    \A r \in Requests : req[r].pc # "new" ~> (Len(logged[r]) = 1 /\ client[r] # "none")
=============================================================================
