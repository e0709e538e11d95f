-------------------------------- MODULE MCChat --------------------------------
(***************************************************************************)
(* The request pipeline (ChatService) and the ring buffer that keeps the   *)
(* dashboard's request log (RingBuffer).  What a request logs is one push, *)
(* and the ring does not look at it: a behaviour is about the pipeline or  *)
(* about the ring, and subject says which.                                 *)
(***************************************************************************)
EXTENDS RingBuffer, FiniteSets

CONSTANTS u1, u2, Requests, Upstreams, Chains

VARIABLES
    subject,       \* "pipeline" or "ring"
    total, errors, tokens, perUp, counter, req, canceled, open, logged, usage,
    client, answers, left

(* No candidate, one, and a chain that comes back to its first. *)
SomeChains == {<<>>, <<u2>>, <<u1, u2, u1>>}

Chat == INSTANCE ChatService

ASSUME ChatAssumption ==
    /\ IsFiniteSet(Requests)
    /\ IsFiniteSet(Upstreams)
    /\ Chains \subseteq Seq(Upstreams)

chatVars == <<total, errors, tokens, perUp, counter, req, canceled, open,
              logged, usage, client, answers, left>>

allVars == <<vars, subject, chatVars>>

ChatInit ==
    /\ Init
    /\ Chat!Init
    /\ subject \in {"pipeline", "ring"}

RingStep == subject = "ring" /\ Next /\ UNCHANGED <<subject, chatVars>>

Pipeline(step) == subject = "pipeline" /\ step /\ UNCHANGED <<subject, vars>>

ChatStep == Pipeline(Chat!Next)

(* An upstream call ends (the HTTP client has a timeout) and the goroutine *)
(* of a request goes on.                                                   *)
ChatFairness == \A r \in Requests : WF_allVars(Pipeline(Chat!Step(r)))

ChatSpec == ChatInit /\ [][RingStep \/ ChatStep]_allVars /\ ChatFairness

-----------------------------------------------------------------------------
(* The pipeline's and the ring's state are well formed. *)
ChatTypeOK == TypeOK /\ Chat!TypeOK

(* No upstream response leaks and none is closed twice. *)
BodiesClosed == Chat!BodiesClosed

(* The counters lose no increment and agree with the request log. *)
CountersExact == Chat!CountersExact

(* The client gets the first success or the last failure. *)
FirstSuccessOrLastFailure == Chat!FirstSuccessOrLastFailure

(* A client that left costs its running call and one that is refused. *)
GoneClientEndsChain == Chat!GoneClientEndsChain

(* Every request that began is logged once and its client answered. *)
EveryRequestLogged == Chat!EveryRequestLogged
=============================================================================
