---------------------------- MODULE ProviderManager ----------------------------
(***************************************************************************)
(* internal/infrastructure/upstream/manager.go: the custom upstreams that  *)
(* are live, and the background refresher goroutine of each.  Rebuild      *)
(* (called by concurrent admin requests) replaces every upstream object    *)
(* and restarts its refresher; Start and Stop run with the server, and     *)
(* Stop joins the goroutines while admin requests are still being served.  *)
(*                                                                         *)
(* An upstream object is the number of the Rebuild that created it, so     *)
(* 0 is no object.  refs holds every refresher ever started; runs[name] is *)
(* the position of the one whose cancel function the manager keeps.  A     *)
(* refresher's pc follows Refresher.Run: the check at the top of the loop, *)
(* the call, the sleep.                                                    *)
(***************************************************************************)
EXTENDS Integers, Sequences, FiniteSets, SequencesExt

CONSTANTS
    Names,         \* provider names
    Rebuilders,    \* goroutines calling Rebuild
    MaxRebuilds,   \* bound: Rebuild calls that publish
    MaxRefs        \* bound: refreshers started

ASSUME ManagerAssumption ==
    /\ IsFiniteSet(Names)
    /\ MaxRebuilds \in Nat
    /\ MaxRefs \in Nat

VARIABLES
    rows,          \* names with an enabled row in the database
    customs,       \* customs[n]: the live object, 0 for none
    runs,          \* runs[n]: the refresher n's cancel function belongs to, 0 for none
    refs,          \* every refresher started
    runCtx,        \* "none" (not started, or stopped) or "live"
    rootDone,      \* the context that runCtx derives from is cancelled
    gen,           \* objects created so far
    reb,           \* Rebuild calls
    stop           \* Stop's progress

vars == <<rows, customs, runs, refs, runCtx, rootDone, gen, reb, stop>>

(* server.New has rebuilt once, before anything runs concurrently; the     *)
(* manager is not started.                                                 *)
Init ==
    /\ rows \in SUBSET Names
    /\ gen = 1
    /\ customs = [n \in Names |-> IF n \in rows THEN 1 ELSE 0]
    /\ runs = [n \in Names |-> 0]
    /\ refs = <<>>
    /\ runCtx = "none"
    /\ rootDone = FALSE
    /\ reb = [r \in Rebuilders |-> [pc |-> "idle", rows |-> {}]]
    /\ stop = "new"

Live == {n \in Names : customs[n] # 0}

-----------------------------------------------------------------------------
(* startOne, for every live upstream: the new refreshers, in some order.   *)
Started == SetToSeq({[name |-> n, obj |-> customs[n], cancelled |-> FALSE, pc |-> "top"]
                       : n \in Live})

Position(n) == CHOOSE i \in 1..Len(Started) : Started[i].name = n

(* Mutant: off by one. *)
HandleNext(n) == Len(refs) + Position(n) + 1

(* Where n's new refresher stands in refs. *)
Handle(n) == Len(refs) + Position(n)

StartAll(cancelled) ==
    /\ Len(refs) + Cardinality(Live) <= MaxRefs
    /\ refs' = [i \in 1..Len(refs) |->
                  [refs[i] EXCEPT !.cancelled = @ \/ i \in cancelled]] \o Started
    /\ runs' = [n \in Names |-> IF n \in Live THEN Handle(n) ELSE 0]

(* Start, called once by Server.Run before it listens. *)
Start ==
    /\ stop = "new"
    /\ stop' = "serving"
    /\ runCtx' = "live"
    /\ StartAll({})
    /\ UNCHANGED <<rows, customs, rootDone, gen, reb>>

-----------------------------------------------------------------------------
(* An admin request changes the table; its Rebuild follows. *)
ChangeRows ==
    /\ stop # "new"
    /\ \E n \in Names : rows' = IF n \in rows THEN rows \ {n} ELSE rows \cup {n}
    /\ UNCHANGED <<customs, runs, refs, runCtx, rootDone, gen, reb, stop>>

(* Rebuild reads the table ... *)
ReadRows(r) ==
    /\ stop # "new"
    /\ reb[r].pc = "idle"
    /\ reb' = [reb EXCEPT ![r] = [pc |-> "read", rows |-> rows]]
    /\ UNCHANGED <<rows, customs, runs, refs, runCtx, rootDone, gen, stop>>

(* started := m.runCtx != nil *)
AfterPublish == IF runCtx = "live" THEN "reconcile" ELSE "idle"

(* ... makes an object for every enabled row and publishes them ... *)
Publish(r) ==
    /\ reb[r].pc = "read"
    /\ gen < MaxRebuilds
    /\ gen' = gen + 1
    /\ customs' = [n \in Names |-> IF n \in reb[r].rows THEN gen + 1 ELSE 0]
    /\ reb' = [reb EXCEPT ![r] = [pc |-> AfterPublish, rows |-> {}]]
    /\ UNCHANGED <<rows, runs, refs, runCtx, rootDone, stop>>

(* Mutant: a refresher that is replaced goes on. *)
ReplacedForgotten == {runs[n] : n \in {m \in Names : runs[m] # 0} \ Live}

(* The refreshers reconcile cancels: those of removed upstreams and, once  *)
(* started, those it replaces.                                             *)
Replaced == {runs[n] : n \in {m \in Names : runs[m] # 0}}

(* Mutant: Rebuild's own look at runCtx is taken to be enough. *)
MayStartUnchecked == TRUE

MayStart == runCtx = "live"

(* ... and reconciles the refreshers with what is published by then. *)
Reconcile(r) ==
    /\ reb[r].pc = "reconcile"
    /\ reb' = [reb EXCEPT ![r].pc = "idle"]
    /\ IF MayStart
         THEN StartAll(Replaced)
         ELSE /\ runs' = [n \in Names |-> IF n \in Live THEN runs[n] ELSE 0]
              /\ refs' = [i \in 1..Len(refs) |->
                   [refs[i] EXCEPT !.cancelled = @ \/ i \in {runs[n] : n \in Names \ Live}]]
    /\ UNCHANGED <<rows, customs, runCtx, rootDone, gen, stop>>

-----------------------------------------------------------------------------
(* Shutdown: Server.Run cancels the background context, then Stop *)

CancelBackground ==
    /\ stop = "serving"
    /\ stop' = "shutdown"
    /\ rootDone' = TRUE
    /\ UNCHANGED <<rows, customs, runs, refs, runCtx, gen, reb>>

(* Stop takes every cancel function and forgets the context, ... *)
StopCollect ==
    /\ stop = "shutdown"
    /\ stop' = "cancel"
    /\ runs' = [n \in Names |-> 0]
    /\ runCtx' = "none"
    /\ UNCHANGED <<rows, customs, refs, rootDone, gen, reb>>

(* ... cancels outside the lock, all of them through the shared context, *)
StopCancel ==
    /\ stop = "cancel"
    /\ stop' = "wait"
    /\ refs' = [i \in 1..Len(refs) |-> [refs[i] EXCEPT !.cancelled = TRUE]]
    /\ UNCHANGED <<rows, customs, runs, runCtx, rootDone, gen, reb>>

(* Mutant: Stop does not wait. *)
WaitOverAlways == TRUE

(* ... and waits for the goroutines (wg.Wait). *)
WaitOver == \A i \in 1..Len(refs) : refs[i].pc = "done"

StopReturn ==
    /\ stop = "wait"
    /\ WaitOver
    /\ stop' = "returned"
    /\ UNCHANGED <<rows, customs, runs, refs, runCtx, rootDone, gen, reb>>

-----------------------------------------------------------------------------
(* Refresher.Run *)

(* Mutant: the loop does not look at its context. *)
CtxDoneIgnored(i) == FALSE

CtxDone(i) == refs[i].cancelled \/ rootDone

SetPc(i, pc) ==
    /\ refs' = [refs EXCEPT ![i].pc = pc]
    /\ UNCHANGED <<rows, customs, runs, runCtx, rootDone, gen, reb, stop>>

RefreshTop(i) ==
    /\ refs[i].pc = "top"
    /\ SetPc(i, IF CtxDone(i) THEN "done" ELSE "call")

(* The catalog call answers or fails; cancellation ends it too. *)
RefreshCall(i) ==
    /\ refs[i].pc = "call"
    /\ SetPc(i, "sleep")

(* The timer fires. *)
RefreshTick(i) ==
    /\ refs[i].pc = "sleep"
    /\ SetPc(i, "top")

(* Cancellation ends the sleep. *)
RefreshStop(i) ==
    /\ refs[i].pc = "sleep"
    /\ CtxDone(i)
    /\ SetPc(i, "done")

Refresh(i) == RefreshTop(i) \/ RefreshCall(i) \/ RefreshTick(i) \/ RefreshStop(i)

Stopping == CancelBackground \/ StopCollect \/ StopCancel \/ StopReturn

Next ==
    \/ Start
    \/ ChangeRows
    \/ \E r \in Rebuilders : ReadRows(r) \/ Publish(r) \/ Reconcile(r)
    \/ Stopping
    \/ \E i \in 1..Len(refs) : Refresh(i)

Spec == Init /\ [][Next]_vars

(* The goroutines run, a cancelled HTTP call returns, and a sleep that is  *)
(* both over and cancelled is not taken for over forever.  Nothing makes   *)
(* an admin call Rebuild.                                                  *)
Fairness ==
    /\ WF_vars(Stopping)
    /\ \A i \in 1..MaxRefs :
         WF_vars(i <= Len(refs) /\ Refresh(i))

FairSpec == Spec /\ Fairness

-----------------------------------------------------------------------------
(* Properties *)

(* However Rebuild calls interleave, a provider has at most one refresher  *)
(* that is not cancelled, and the manager still holds its cancel function, *)
(* until Stop takes all of them.  Between Rebuild calls, what is refreshed *)
(* is what is routed to: the refreshers belong to the published objects.   *)
OneRefresher ==
    /\ stop # "cancel" =>
         \A i \in 1..Len(refs) : ~refs[i].cancelled => runs[refs[i].name] = i
    /\ runCtx = "live" /\ (\A r \in Rebuilders : reb[r].pc # "reconcile") =>
         \A n \in Names :
           IF customs[n] = 0 THEN runs[n] = 0
           ELSE runs[n] # 0 /\ refs[runs[n]].obj = customs[n]

(* "Server never returns while they unwind": when Stop has returned, no    *)
(* refresher runs, and none ever will.                                     *)
StopJoins ==
    stop = "returned" => \A i \in 1..Len(refs) : refs[i].pc = "done"

(* "Rebuild's reconcile sees runCtx==nil under lock and will not Add       *)
(* during Wait": once Stop waits, no refresher is started.                 *)
NoAddDuringWait ==
    [][(stop \in {"wait", "returned"}) => Len(refs') = Len(refs)]_vars

(* Stop returns, however many Rebuild calls race it. *)
StopReturns == (stop = "shutdown") ~> (stop = "returned")
=============================================================================
