---------------------------- MODULE UpstreamProofs ----------------------------
(***************************************************************************)
(* The two levels of failover, for any number of requests, tiers and keys  *)
(* and any lists of relays: the combo's walk over its tiers                *)
(* (ComboUpstream) and the call of one upstream (HTTPClient, as Client).   *)
(***************************************************************************)
EXTENDS MCUpstream, TLAPS

(* What a ChatCompletion call of the combo looks like. *)
CallType ==
    [pc : {"idle", "decide", "prepare", "call", "handle", "done"},
     tier : Tiers, attempt : {0, 1},
     outcome : {"none", "ok", "retryable", "err", "nil"},
     canceled : BOOLEAN,
     result : {"none", "response", "error", "unprepared", "ctx"},
     tried : SUBSET Tiers, open : SUBSET Tiers]

ComboTypeOK ==
    /\ now \in Nat
    /\ cooled \in [Tiers -> Int]
    /\ req \in [Requests -> CallType]
    /\ faulted \in SUBSET Tiers

(* The tier in q has failed, and not because of the client. *)
Blamed(q) ==
    \/ q.outcome \in {"nil", "retryable"}
    \/ q.outcome = "err" /\ ~q.canceled

(* What holds of a call at each of its steps: it has a result only at the  *)
(* end, a tier whose answer is handled was called and, if it is to blame,  *)
(* has faulted; a body is open from the answer to its handling.            *)
CallOK(q, failed) ==
    /\ q.pc # "done" => q.result = "none"
    /\ q.pc = "handle" => q.tier \in q.tried
    /\ q.pc = "handle" /\ Blamed(q) => q.tier \in failed
    /\ q.pc \in {"idle", "decide", "prepare", "call"} => q.open = {}
    /\ q.pc = "handle" =>
         q.open = IF q.outcome \in {"ok", "retryable"} THEN {q.tier} ELSE {}
    /\ q.pc = "done" => q.open = IF q.result = "response" THEN {q.tier} ELSE {}
    /\ q.result = "error" => NTiers \in q.tried

ComboInv ==
    /\ ComboTypeOK
    /\ \A r \in Requests : CallOK(req[r], faulted)
    /\ OnlyFaultsCool

LEMMA TiersAre == NTiers \in Tiers /\ 1 \in Tiers /\ Tiers \subseteq Int
BY ComboAssumption DEF Tiers

(* A new call, and the end of one. *)
LEMMA IdleCallOK == IdleRequest \in CallType /\ CallOK(IdleRequest, faulted)
BY TiersAre DEF IdleRequest, CallType, CallOK

(* A step of request r that leaves it as q, blames at most more tiers, and *)
(* cools only tiers that are to blame, keeps the invariant.                *)
LEMMA OneCall ==
  ASSUME ComboInv, NEW r \in Requests, NEW q \in CallType,
         req' = [req EXCEPT ![r] = q], CallOK(q, faulted'),
         faulted \subseteq faulted', faulted' \in SUBSET Tiers,
         now' = now, cooled' \in [Tiers -> Int],
         \A i \in Tiers : cooled'[i] # NotCooled => cooled'[i] = cooled[i] \/ i \in faulted'
  PROVE  ComboInv'
<1>1. ComboTypeOK'  BY DEF ComboInv, ComboTypeOK
<1>2. \A s \in Requests : CallOK(req'[s], faulted')
  <2> SUFFICES ASSUME NEW s \in Requests  PROVE CallOK(req'[s], faulted')
    OBVIOUS
  <2>1. CASE s = r
    <3>1. req'[s] = q  BY <2>1 DEF ComboInv, ComboTypeOK
    <3> QED  BY <3>1 DEF CallOK, Blamed
  <2>2. CASE s # r
    <3>1. req'[s] = req[s]  BY <2>2 DEF ComboInv, ComboTypeOK
    <3>2. CallOK(req[s], faulted)  BY DEF ComboInv
    <3> QED  BY <3>1, <3>2 DEF CallOK, Blamed
  <2> QED  BY <2>1, <2>2
<1>3. OnlyFaultsCool'  BY DEF ComboInv, OnlyFaultsCool
<1> QED  BY <1>1, <1>2, <1>3 DEF ComboInv

LEMMA BeginInv ==
  ASSUME ComboInv, NEW r \in Requests, Begin(r)
  PROVE  ComboInv'
<1> DEFINE q == [IdleRequest EXCEPT !.pc = "decide"]
<1>1. q \in CallType  BY IdleCallOK DEF CallType
<1>2. CallOK(q, faulted')  BY DEF IdleRequest, CallOK, Blamed
<1> QED  BY <1>1, <1>2, OneCall DEF Begin, ComboInv, ComboTypeOK

LEMMA CancelInv ==
  ASSUME ComboInv, NEW r \in Requests, Cancel(r)
  PROVE  ComboInv'
<1> DEFINE q == [req[r] EXCEPT !.canceled = TRUE]
<1>t. req[r] \in CallType /\ CallOK(req[r], faulted)  BY DEF ComboInv, ComboTypeOK
<1>1. q \in CallType  BY <1>t DEF CallType
<1>2. CallOK(q, faulted')  BY <1>t DEF Cancel, CallType, CallOK, Blamed
<1>3. req' = [req EXCEPT ![r] = q]  BY DEF Cancel
<1> QED  BY <1>1, <1>2, <1>3, OneCall DEF Cancel, ComboInv, ComboTypeOK

(* The next tier is a tier, and going to it ends the handling. *)
LEMMA NextTierOK ==
  ASSUME ComboInv, NEW r \in Requests, ~Last(r), NEW o \in SUBSET Tiers
  PROVE  /\ NextTier(r) \in CallType
         /\ req[r].result = "none" /\ req[r].open = {} => CallOK(NextTier(r), faulted)
         /\ [NextTier(r) EXCEPT !.open = o] \in CallType
         /\ req[r].result = "none" => CallOK([NextTier(r) EXCEPT !.open = {}], faulted)
<1>t. req[r] \in CallType /\ CallOK(req[r], faulted)  BY DEF ComboInv, ComboTypeOK
<1>1. req[r].tier + 1 \in Tiers  BY <1>t, ComboAssumption DEF CallType, Tiers, Last
<1> QED  BY <1>t, <1>1 DEF CallType, NextTier, CallOK

(* The loop cannot end without a call: nothing is fresh below the last     *)
(* tier, so it is not skipped.                                             *)
LEMMA DecideInv ==
  ASSUME ComboInv, NEW r \in Requests, Decide(r)
  PROVE  ComboInv'
<1> DEFINE i == req[r].tier
           skip == InCooldown(i) /\ HasFreshTierFrom(i + 1)
           p == [req[r] EXCEPT !.pc = "prepare"]
           q == IF ~skip THEN p ELSE NextTier(r)
<1>t. req[r] \in CallType /\ CallOK(req[r], faulted) /\ req[r].pc = "decide"
  BY DEF ComboInv, ComboTypeOK, Decide
<1>1. Last(r) => ~HasFreshTierFrom(i + 1)
  BY ComboAssumption DEF Last, HasFreshTierFrom
<1>2. req' = [req EXCEPT ![r] = q]  BY <1>1 DEF Decide
<1>3. p \in CallType  BY <1>t DEF CallType
<1>4. CallOK(p, faulted')  BY <1>t DEF CallType, CallOK
<1>5. ~Last(r) => NextTier(r) \in CallType /\ CallOK(NextTier(r), faulted)
  BY <1>t, NextTierOK DEF CallOK
<1>6. q \in CallType  BY <1>1, <1>3, <1>5
<1>7. CallOK(q, faulted')  BY <1>1, <1>4, <1>5 DEF Decide, CallOK, Blamed
<1>8. cooled' \in [Tiers -> Int] /\ \A j \in Tiers : cooled'[j] # NotCooled => cooled'[j] = cooled[j]
  <2>1. i \in Tiers  BY <1>t DEF CallType
  <2> QED  BY <2>1 DEF Decide, DropExpired, NotCooled, ComboInv, ComboTypeOK
<1> HIDE DEF q
<1> QED  BY <1>2, <1>6, <1>7, <1>8, OneCall DEF Decide, ComboInv, ComboTypeOK

LEMMA PrepareInv ==
  ASSUME ComboInv, NEW r \in Requests, PrepareFails(r) \/ Prepared(r)
  PROVE  ComboInv'
<1>t. req[r] \in CallType /\ CallOK(req[r], faulted) /\ req[r].pc = "prepare"
  BY DEF ComboInv, ComboTypeOK, PrepareFails, Prepared
<1>u. now' = now /\ cooled' = cooled /\ faulted' = faulted  BY DEF PrepareFails, Prepared
<1>1. CASE PrepareFails(r)
  <2> DEFINE q == IF Last(r) THEN Return(r, "unprepared") ELSE NextTier(r)
  <2>1. q \in CallType  BY <1>t, NextTierOK DEF CallType, Return
  <2>2. CASE Last(r)
    <3>1. CallOK(q, faulted')  BY <2>2, <1>t, <1>u DEF CallOK, Return, CallType
    <3> QED  BY <3>1, <2>1, <1>1, <1>u, OneCall DEF PrepareFails, ComboInv, ComboTypeOK
  <2>3. CASE ~Last(r)
    <3>1. CallOK(NextTier(r), faulted)  BY <2>3, <1>t, NextTierOK DEF CallOK
    <3>2. CallOK(q, faulted')  BY <2>3, <3>1, <1>u DEF CallOK, Blamed
    <3> QED  BY <3>2, <2>1, <1>1, <1>u, OneCall DEF PrepareFails, ComboInv, ComboTypeOK
  <2> QED  BY <2>2, <2>3
<1>2. CASE Prepared(r)
  <2> DEFINE q == [req[r] EXCEPT !.pc = "call", !.attempt = 0]
  <2>1. q \in CallType  BY <1>t DEF CallType
  <2>2. CallOK(q, faulted')  BY <1>t, <1>u DEF CallOK, CallType
  <2>3. req' = [req EXCEPT ![r] = q]  BY <1>2 DEF Prepared
  <2> QED  BY <2>1, <2>2, <2>3, <1>u, OneCall DEF ComboInv, ComboTypeOK
<1> QED  BY <1>1, <1>2

LEMMA CallAnswersInv ==
  ASSUME ComboInv, NEW r \in Requests, NEW outcome \in {"ok", "retryable"},
         CallAnswers(r, outcome)
  PROVE  ComboInv'
<1> DEFINE q == [req[r] EXCEPT !.pc = "handle", !.outcome = outcome,
                               !.tried = @ \cup {req[r].tier}, !.open = @ \cup {req[r].tier}]
<1>t. req[r] \in CallType /\ CallOK(req[r], faulted) /\ req[r].pc = "call"
  BY DEF ComboInv, ComboTypeOK, CallAnswers
<1>1. q \in CallType  BY <1>t DEF CallType
<1>2. req' = [req EXCEPT ![r] = q]  BY DEF CallAnswers
<1>3. faulted \subseteq faulted' /\ faulted' \in SUBSET Tiers
  BY <1>t DEF CallAnswers, CallType, ComboInv, ComboTypeOK
<1>4. CallOK(q, faulted')  BY <1>t DEF CallOK, CallType, Blamed, CallAnswers
<1> QED  BY <1>1, <1>2, <1>3, <1>4, OneCall DEF CallAnswers, ComboInv, ComboTypeOK

LEMMA CallFailsInv ==
  ASSUME ComboInv, NEW r \in Requests, NEW outcome \in {"err", "nil"}, NEW fault \in BOOLEAN,
         CallFails(r, outcome, fault)
  PROVE  ComboInv'
<1> DEFINE last == [Tried(r) EXCEPT !.pc = "handle", !.outcome = outcome]
           again == [Tried(r) EXCEPT !.attempt = 1]
           q == IF req[r].canceled \/ req[r].attempt = 1 THEN last ELSE again
<1>t. req[r] \in CallType /\ CallOK(req[r], faulted) /\ req[r].pc = "call"
  BY DEF ComboInv, ComboTypeOK, CallFails
<1>1. last \in CallType /\ again \in CallType  BY <1>t DEF CallType, Tried
<1>2. req' = [req EXCEPT ![r] = q]  BY DEF CallFails
<1>3. faulted \subseteq faulted' /\ faulted' \in SUBSET Tiers
  BY <1>t DEF CallFails, CallType, ComboInv, ComboTypeOK
<1>4. CallOK(last, faulted')  BY <1>t DEF CallOK, CallType, Blamed, CallFails, Tried
<1>5. CallOK(again, faulted')  BY <1>t DEF CallOK, CallType, Blamed, CallFails, Tried
<1>6. q \in CallType /\ CallOK(q, faulted')  BY <1>1, <1>4, <1>5
<1> HIDE DEF q
<1> QED  BY <1>2, <1>3, <1>6, OneCall DEF CallFails, ComboInv, ComboTypeOK

(* Returning, or going on to the next tier, after a failure of the tier    *)
(* that is its own fault.                                                  *)
LEMMA BlameInv ==
  ASSUME ComboInv, NEW r \in Requests, req[r].pc = "handle", Blamed(req[r]),
         req[r].open = {}, MarkCooldown(req[r].tier), UNCHANGED <<now, faulted>>,
         req' = [req EXCEPT ![r] = IF Last(r) THEN Return(r, "error") ELSE NextTier(r)]
  PROVE  ComboInv'
<1>t. req[r] \in CallType /\ CallOK(req[r], faulted)  BY DEF ComboInv, ComboTypeOK
<1>1. req[r].tier \in Tiers /\ req[r].tier \in faulted  BY <1>t DEF CallOK, CallType, Blamed
<1>2. cooled' \in [Tiers -> Int] /\ \A i \in Tiers : cooled'[i] = cooled[i] \/ i \in faulted'
  BY <1>1, ComboAssumption DEF MarkCooldown, ComboInv, ComboTypeOK
<1>3. CASE Last(r)
  <2>1. Return(r, "error") \in CallType  BY <1>t DEF CallType, Return
  <2>2. CallOK(Return(r, "error"), faulted')  BY <1>t, <1>3 DEF CallType, Return, CallOK, Last
  <2> QED  BY <2>1, <2>2, <1>2, <1>3, OneCall DEF ComboInv, ComboTypeOK
<1>4. CASE ~Last(r)
  <2>1. NextTier(r) \in CallType /\ CallOK(NextTier(r), faulted)  BY <1>t, <1>4, NextTierOK DEF CallOK
  <2>2. CallOK(NextTier(r), faulted')  BY <1>t, <2>1 DEF CallOK, NextTier, CallType
  <2> QED  BY <2>1, <2>2, <1>2, <1>4, OneCall DEF ComboInv, ComboTypeOK
<1> QED  BY <1>3, <1>4

LEMMA HandleErrorInv ==
  ASSUME ComboInv, NEW r \in Requests, HandleError(r)
  PROVE  ComboInv'
<1>t. req[r] \in CallType /\ CallOK(req[r], faulted)  BY DEF ComboInv, ComboTypeOK
<1>1. CASE req[r].canceled
  <2>1. Return(r, "ctx") \in CallType  BY <1>t DEF CallType, Return
  <2>2. CallOK(Return(r, "ctx"), faulted')  BY <1>t DEF HandleError, CallType, Return, CallOK
  <2> QED  BY <1>1, <2>1, <2>2, OneCall DEF HandleError, ComboInv, ComboTypeOK
<1>2. CASE ~req[r].canceled
  <2>1. Blamed(req[r]) /\ req[r].open = {}  BY <1>2, <1>t DEF HandleError, Blamed, CallOK
  <2> QED  BY <1>2, <2>1, BlameInv DEF HandleError
<1> QED  BY <1>1, <1>2

LEMMA HandleNilInv ==
  ASSUME ComboInv, NEW r \in Requests, HandleNil(r)
  PROVE  ComboInv'
<1>1. Blamed(req[r]) /\ req[r].open = {}  BY DEF HandleNil, Blamed, ComboInv, CallOK
<1> QED  BY <1>1, BlameInv DEF HandleNil

LEMMA HandleRetryableInv ==
  ASSUME ComboInv, NEW r \in Requests, HandleRetryable(r)
  PROVE  ComboInv'
<1> DEFINE o == req[r].open \ {req[r].tier}
           q == [NextTier(r) EXCEPT !.open = @ \ {req[r].tier}]
<1>t. /\ req[r] \in CallType /\ CallOK(req[r], faulted) /\ ~Last(r)
      /\ req[r].pc = "handle" /\ req[r].outcome = "retryable"
  BY DEF ComboInv, ComboTypeOK, HandleRetryable
<1>1. req[r].tier \in Tiers /\ req[r].tier \in faulted  BY <1>t DEF CallOK, CallType, Blamed
<1>2. o = {}  BY <1>t DEF CallOK
<1>3. NextTier(r).open = req[r].open  BY <1>t DEF NextTier, CallType
<1>4. q = [NextTier(r) EXCEPT !.open = {}]  BY <1>2, <1>3
<1>5. q \in CallType /\ CallOK(q, faulted)
  <2>1. req[r].result = "none"  BY <1>t DEF CallOK
  <2> HIDE DEF q
  <2>2. q \in CallType  BY <1>t, <1>4, NextTierOK
  <2>3. CallOK(q, faulted)  BY <2>1, <1>t, <1>4, NextTierOK
  <2> QED  BY <2>2, <2>3
<1>6. CallOK(q, faulted')  BY <1>5 DEF CallOK, HandleRetryable, Blamed
<1>7. cooled' \in [Tiers -> Int] /\ \A i \in Tiers : cooled'[i] = cooled[i] \/ i \in faulted'
  BY <1>1, ComboAssumption DEF HandleRetryable, MarkCooldown, ComboInv, ComboTypeOK
<1>8. req' = [req EXCEPT ![r] = q]  BY DEF HandleRetryable
<1> HIDE DEF q
<1> QED  BY <1>5, <1>6, <1>7, <1>8, OneCall DEF HandleRetryable, ComboInv, ComboTypeOK

LEMMA HandleResponseInv ==
  ASSUME ComboInv, NEW r \in Requests, HandleResponse(r)
  PROVE  ComboInv'
<1>t. req[r] \in CallType /\ CallOK(req[r], faulted)  BY DEF ComboInv, ComboTypeOK
<1>1. Return(r, "response") \in CallType  BY <1>t DEF CallType, Return
<1>2. CallOK(Return(r, "response"), faulted')  BY <1>t DEF HandleResponse, CallType, Return, CallOK, Blamed
<1>3. cooled' \in [Tiers -> Int] /\ \A i \in Tiers : cooled'[i] # NotCooled => cooled'[i] = cooled[i]
  BY <1>t DEF HandleResponse, NotCooled, CallType, ComboInv, ComboTypeOK
<1> QED  BY <1>1, <1>2, <1>3, OneCall DEF HandleResponse, ComboInv, ComboTypeOK

LEMMA FinishInv ==
  ASSUME ComboInv, NEW r \in Requests, Finish(r)
  PROVE  ComboInv'
<1>1. CallOK(IdleRequest, faulted')  BY DEF IdleRequest, CallOK
<1> QED  BY <1>1, IdleCallOK, OneCall DEF Finish, ComboInv, ComboTypeOK

LEMMA ComboNext ==
  ASSUME ComboInv, [Next]_vars
  PROVE  ComboInv'
<1>1. ASSUME NEW r \in Requests, Begin(r) \/ Cancel(r) \/ ChatCompletion(r) \/ Finish(r)
      PROVE  ComboInv'
  BY <1>1, BeginInv, CancelInv, FinishInv, DecideInv, PrepareInv, CallAnswersInv, CallFailsInv,
     HandleErrorInv, HandleNilInv, HandleRetryableInv, HandleResponseInv DEF ChatCompletion
<1>2. CASE Tick
  BY <1>2 DEF Tick, ComboInv, ComboTypeOK, CallOK, Blamed, OnlyFaultsCool
<1>3. CASE UNCHANGED vars
  BY <1>3 DEF vars, ComboInv, ComboTypeOK, CallOK, Blamed, OnlyFaultsCool
<1> QED  BY <1>1, <1>2, <1>3 DEF Next

(* The combo's invariant, and with it each of the three properties. *)
THEOREM ComboSafe == Spec => []ComboInv
<1>1. Init => ComboInv
  BY IdleCallOK DEF Init, ComboInv, ComboTypeOK, OnlyFaultsCool, NotCooled
<1> QED  BY <1>1, ComboNext, PTL DEF Spec

(* A call that ends in an error has called the last tier, whatever other   *)
(* requests do to the cooldown map.                                        *)
THEOREM NoFailFast == Spec => []NeverFailsFast
<1>1. ComboInv => NeverFailsFast  BY DEF ComboInv, CallOK, NeverFailsFast
<1> QED  BY <1>1, ComboSafe, PTL

(* Only a tier that failed by its own fault is in cooldown. *)
THEOREM CoolingIsEarned == Spec => []OnlyFaultsCool
<1>1. ComboInv => OnlyFaultsCool  BY DEF ComboInv
<1> QED  BY <1>1, ComboSafe, PTL

(* The combo leaves no response body open but the one it returns. *)
THEOREM NoBodyLeaks == Spec => []ResponsesAccounted
<1>1. ComboInv => ResponsesAccounted  BY DEF ComboInv, CallOK, ResponsesAccounted
<1> QED  BY <1>1, ComboSafe, PTL

-----------------------------------------------------------------------------
(* HTTPClient *)

(* What a doWithHeaders call looks like. *)
DoType ==
    [pc : {"idle", "key", "check", "apply", "send", "done"},
     attempt : Nat, probes : Nat, key : Nat,
     via : {"direct", "strict", "lax"}, direct : BOOLEAN,
     result : {"none", "err", "429", "ok"}, rejects : Nat, strictFailed : BOOLEAN]

ClientTypeOK ==
    /\ nKeys \in Nat \ {0}
    /\ nextKey \in Nat
    /\ pools \in PoolLists
    /\ idx \in Nat
    /\ call \in [Requests -> DoType]

(* What holds of a doWithHeaders call at each of its steps, for n keys: it *)
(* has been rejected once per attempt, there are at most n, and a failure  *)
(* of a strict relay has ended it.                                         *)
DoOK(q, n) ==
    /\ q.pc # "done" => q.result = "none"
    /\ q.attempt + 1 <= n
    /\ q.rejects = IF q.result = "429" THEN q.attempt + 1 ELSE q.attempt
    /\ q.result = "429" => q.attempt + 1 = n
    /\ q.strictFailed => q.pc = "done" /\ q.result = "err"

ClientInv ==
    /\ ClientTypeOK
    /\ \A r \in Requests : DoOK(call[r], nKeys)
    /\ limited \subseteq rejected
    /\ nKeys = 1 => limited = {}

LEMMA IdleDoOK ==
  ASSUME NEW n \in Nat \ {0}
  PROVE  Client!IdleRequest \in DoType /\ DoOK(Client!IdleRequest, n)
BY DEF Client!IdleRequest, DoType, DoOK

(* A step of request r that leaves it as q, with any change of the shared  *)
(* counters.                                                               *)
LEMMA OneDo ==
  ASSUME ClientInv, NEW r \in Requests, NEW q \in DoType,
         call' = [call EXCEPT ![r] = q], DoOK(q, nKeys),
         nKeys' = nKeys, nextKey' \in Nat, pools' = pools, idx' \in Nat,
         limited' \subseteq rejected', nKeys = 1 => limited' = {}
  PROVE  ClientInv'
<1>1. ClientTypeOK'  BY DEF ClientInv, ClientTypeOK
<1>2. ASSUME NEW s \in Requests  PROVE DoOK(call'[s], nKeys')
  <2>1. call'[s] = IF s = r THEN q ELSE call[s]  BY DEF ClientInv, ClientTypeOK
  <2>2. DoOK(call[s], nKeys)  BY DEF ClientInv
  <2> QED  BY <2>1, <2>2
<1> QED  BY <1>1, <1>2 DEF ClientInv

LEMMA AdvanceType ==
  ASSUME ClientTypeOK
  PROVE  Client!Advance(nextKey) \in Nat
BY DEF ClientTypeOK, Client!Advance

(* currentKey: the attempt stands as it is. *)
LEMMA KeyInv ==
  ASSUME ClientInv, NEW r \in Requests,
         \/ Client!Begin(r) \/ Client!OnlyKey(r) \/ Client!TakeIndex(r)
         \/ Client!CheckKey(r) \/ Client!FallbackKey(r) \/ Client!Finish(r)
  PROVE  ClientInv'
<1> DEFINE n == nKeys
<1>t. /\ call[r] \in DoType /\ DoOK(call[r], n) /\ n \in Nat \ {0} /\ ClientTypeOK
      /\ limited \subseteq rejected /\ (n = 1 => limited = {})
  BY DEF ClientInv, ClientTypeOK
<1>i. Client!IdleRequest \in DoType /\ DoOK(Client!IdleRequest, n)  BY <1>t, IdleDoOK
<1>p. ASSUME NEW k \in Nat, call[r].pc \in {"key", "check"}
      PROVE  Client!Picked(call[r], k) \in DoType /\ DoOK(Client!Picked(call[r], k), n)
  BY <1>t, <1>p DEF Client!Picked, DoType, DoOK
<1>1. CASE Client!Begin(r)
  <2> DEFINE q == Client!PickKey(Client!IdleRequest)
  <2>1. q \in DoType /\ DoOK(q, n)
    BY <1>t, <1>i DEF Client!PickKey, Client!IdleRequest, DoType, DoOK
  <2> QED  BY <1>1, <1>t, <2>1, OneDo DEF Client!Begin, ClientTypeOK
<1>2. CASE Client!OnlyKey(r)
  BY <1>2, <1>t, <1>p, OneDo DEF Client!OnlyKey, ClientTypeOK
<1>3. CASE Client!TakeIndex(r)
  <2> DEFINE q == [call[r] EXCEPT !.pc = "check", !.key = nextKey]
  <2>1. q \in DoType  BY <1>t DEF DoType, ClientTypeOK
  <2>2. DoOK(q, n)  BY <1>3, <1>t DEF DoType, DoOK, Client!TakeIndex
  <2>3. call' = [call EXCEPT ![r] = q]  BY <1>3 DEF Client!TakeIndex
  <2> QED  BY <1>3, <1>t, <2>1, <2>2, <2>3, AdvanceType, OneDo DEF Client!TakeIndex, ClientTypeOK
<1>4. CASE Client!CheckKey(r)
  <2>1. call[r].key \in Nat /\ call[r].probes + 1 \in Nat  BY <1>t DEF DoType
  <2>2. Client!Probed(call[r]) \in DoType  BY <1>t, <2>1 DEF Client!Probed, DoType
  <2>3. DoOK(Client!Probed(call[r]), n)  BY <1>4, <1>t DEF Client!CheckKey, Client!Probed, DoType, DoOK
  <2> QED  BY <1>4, <1>t, <2>1, <2>2, <2>3, <1>p, OneDo DEF Client!CheckKey, ClientTypeOK
<1>5. CASE Client!FallbackKey(r)
  BY <1>5, <1>t, <1>p, AdvanceType, OneDo DEF Client!FallbackKey, ClientTypeOK
<1>6. CASE Client!Finish(r)
  BY <1>6, <1>t, <1>i, OneDo DEF Client!Finish, ClientTypeOK
<1> QED  BY <1>1, <1>2, <1>3, <1>4, <1>5, <1>6

(* The picked relay is one of the list. *)
LEMMA PicksInRange ==
  ASSUME ClientTypeOK, pools # <<>>
  PROVE  Client!PoolPicks \subseteq 1..Len(pools)
<1>1. pools \in Seq({"strict", "lax", "bypass"})  BY ClientAssumption DEF ClientTypeOK
<1>2. Len(pools) \in Nat /\ Len(pools) >= 1  BY <1>1
<1>3. ((idx + 1) % Len(pools)) + 1 \in 1..Len(pools)  BY <1>2 DEF ClientTypeOK
<1> QED  BY <1>2, <1>3 DEF Client!PoolPicks

LEMMA ApplyInv ==
  ASSUME ClientInv, NEW r \in Requests, Client!Apply(r)
  PROVE  ClientInv'
<1>t. /\ call[r] \in DoType /\ DoOK(call[r], nKeys) /\ ClientTypeOK /\ call[r].pc = "apply"
      /\ limited \subseteq rejected /\ (nKeys = 1 => limited = {})
  BY DEF ClientInv, ClientTypeOK, Client!Apply
<1>1. pools \in Seq({"strict", "lax", "bypass"})  BY <1>t, ClientAssumption DEF ClientTypeOK
<1>2. ASSUME NEW v \in {"direct", "strict", "lax"}
      PROVE  LET q == [call[r] EXCEPT !.pc = "send", !.via = v] IN q \in DoType /\ DoOK(q, nKeys)
  BY <1>t DEF DoType, DoOK
<1>3. PICK v \in {"direct", "strict", "lax"} :
        call' = [call EXCEPT ![r] = [call[r] EXCEPT !.pc = "send", !.via = v]]
  <2>1. CASE pools = <<>>  BY <2>1 DEF Client!Apply
  <2>2. CASE pools # <<>>
    <3>1. PICK i \in Client!PoolPicks :
            call' = [call EXCEPT ![r].pc = "send",
                       ![r].via = IF pools[i] = "bypass" THEN "direct" ELSE pools[i]]
      BY <2>2 DEF Client!Apply
    <3>2. i \in 1..Len(pools)  BY <2>2, <3>1, <1>t, PicksInRange
    <3>3. pools[i] \in {"strict", "lax", "bypass"}  BY <1>1, <3>2
    <3> QED  BY <3>1, <3>3
  <2> QED  BY <2>1, <2>2
<1>4. idx' \in Nat
  <2>1. pools # <<>> => Len(pools) \in Nat \ {0}  BY <1>1
  <2> QED  BY <1>t, <2>1 DEF Client!Apply, ClientTypeOK
<1> DEFINE q == [call[r] EXCEPT !.pc = "send", !.via = v]
<1>5. q \in DoType /\ DoOK(q, nKeys)  BY <1>2
<1>6. call' = [call EXCEPT ![r] = q]  BY <1>3
<1>7. nKeys' = nKeys /\ nextKey' \in Nat /\ pools' = pools /\ limited' = limited /\ rejected' = rejected
  BY <1>t DEF Client!Apply, ClientTypeOK
<1> HIDE DEF q
<1> QED  BY <1>t, <1>4, <1>5, <1>6, <1>7, OneDo

(* A relay failed: only one that is not strict lets the call go on. *)
LEMMA SendFailsInv ==
  ASSUME ClientInv, NEW r \in Requests, Client!SendFails(r)
  PROVE  ClientInv'
<1>t. /\ call[r] \in DoType /\ DoOK(call[r], nKeys) /\ ClientTypeOK /\ call[r].pc = "send"
      /\ limited \subseteq rejected /\ (nKeys = 1 => limited = {})
  BY DEF ClientInv, ClientTypeOK, Client!SendFails
<1> DEFINE again == [Client!PickKey(Client!Failed(call[r])) EXCEPT !.direct = TRUE, !.via = "direct"]
           end == [Client!Failed(call[r]) EXCEPT !.pc = "done", !.result = "err"]
<1>1. again \in DoType /\ end \in DoType  BY <1>t DEF DoType, Client!PickKey, Client!Failed
<1>2. Client!MayGoDirect(r) => DoOK(again, nKeys)
  BY <1>t DEF DoType, DoOK, Client!PickKey, Client!Failed, Client!MayGoDirect
<1>3. DoOK(end, nKeys)
  BY <1>t DEF DoType, DoOK, Client!Failed
<1>4. call' = [call EXCEPT ![r] = IF Client!MayGoDirect(r) THEN again ELSE end]
  BY DEF Client!SendFails
<1> HIDE DEF again, end
<1> QED  BY <1>t, <1>1, <1>2, <1>3, <1>4, OneDo DEF Client!SendFails, ClientTypeOK

(* A 429 with a key left: one attempt more, one rejection more. *)
LEMMA RateLimitedInv ==
  ASSUME ClientInv, NEW r \in Requests, Client!RateLimited(r)
  PROVE  ClientInv'
<1>t. /\ call[r] \in DoType /\ DoOK(call[r], nKeys) /\ ClientTypeOK /\ call[r].pc = "send"
      /\ limited \subseteq rejected /\ (nKeys = 1 => limited = {})
  BY DEF ClientInv, ClientTypeOK, Client!RateLimited
<1> DEFINE q == [Client!PickKey(Client!IdleRequest) EXCEPT !.attempt = call[r].attempt + 1,
                   !.rejects = call[r].rejects + 1, !.strictFailed = call[r].strictFailed]
<1>n. call[r].attempt + 1 \in Nat /\ call[r].rejects + 1 \in Nat /\ call[r].strictFailed \in BOOLEAN
  BY <1>t DEF DoType
<1>1. q \in DoType  BY <1>n DEF DoType, Client!PickKey, Client!IdleRequest
<1>2. DoOK(q, nKeys)
  BY <1>t DEF DoType, DoOK, Client!PickKey, Client!IdleRequest, Client!RateLimited,
              Client!MayRotate, ClientTypeOK
<1>3. call' = [call EXCEPT ![r] = q]  BY DEF Client!RateLimited
<1>4. limited' \subseteq rejected' /\ nKeys # 1
  BY <1>t DEF Client!RateLimited, Client!KeyToMark, Client!MayRotate
<1> HIDE DEF q
<1> QED  BY <1>t, <1>1, <1>2, <1>3, <1>4, OneDo DEF Client!RateLimited, ClientTypeOK

LEMMA AnsweredInv ==
  ASSUME ClientInv, NEW r \in Requests, NEW answer \in {"429", "ok"}, Client!Answered(r, answer)
  PROVE  ClientInv'
<1>t. /\ call[r] \in DoType /\ DoOK(call[r], nKeys) /\ ClientTypeOK /\ call[r].pc = "send"
      /\ limited \subseteq rejected /\ (nKeys = 1 => limited = {})
  BY DEF ClientInv, ClientTypeOK, Client!Answered
<1> DEFINE q == [call[r] EXCEPT !.pc = "done", !.result = answer,
                   !.rejects = call[r].rejects + (IF answer = "429" THEN 1 ELSE 0)]
<1>n. call[r].rejects + (IF answer = "429" THEN 1 ELSE 0) \in Nat  BY <1>t DEF DoType
<1>1. q \in DoType  BY <1>t, <1>n DEF DoType
<1>2. DoOK(q, nKeys)
  BY <1>t DEF DoType, DoOK, Client!Answered, Client!MayRotate, ClientTypeOK
<1>3. call' = [call EXCEPT ![r] = q]  BY DEF Client!Answered
<1>4. rejected \subseteq rejected'  BY DEF Client!Answered
<1> HIDE DEF q
<1> QED  BY <1>t, <1>1, <1>2, <1>3, <1>4, OneDo DEF Client!Answered, ClientTypeOK

(* The steps that are no request's: a cooldown ends, an admin changes the  *)
(* selector.                                                               *)
LEMMA SharedInv ==
  ASSUME ClientInv,
         \/ \E k \in Client!Keys : Client!CooldownEnds(k)
         \/ Client!SetPools \/ Client!SetStrategy
         \/ UNCHANGED Client!vars
  PROVE  ClientInv'
<1>1. CASE \E k \in Client!Keys : Client!CooldownEnds(k)
  BY <1>1 DEF ClientInv, ClientTypeOK, Client!CooldownEnds
<1>2. CASE Client!SetPools
  <2>1. pools' \in Seq({"strict", "lax", "bypass"})  BY <1>2, ClientAssumption DEF Client!SetPools
  <2>2. idx' \in Nat  BY <1>2, <2>1 DEF Client!SetPools
  <2> QED  BY <1>2, <2>2 DEF ClientInv, ClientTypeOK, Client!SetPools
<1>3. CASE Client!SetStrategy
  BY <1>3 DEF ClientInv, ClientTypeOK, Client!SetStrategy
<1>4. CASE UNCHANGED Client!vars
  BY <1>4 DEF ClientInv, ClientTypeOK, Client!vars
<1> QED  BY <1>1, <1>2, <1>3, <1>4

(* The client's invariant, and with it the two properties. *)
THEOREM ClientSafe == Client!Spec => []ClientInv
<1>1. Client!Init => ClientInv
  <2> SUFFICES ASSUME Client!Init  PROVE ClientInv
    OBVIOUS
  <2>1. nKeys \in Nat \ {0}  BY ClientAssumption DEF Client!Init
  <2>2. Client!IdleRequest \in DoType /\ DoOK(Client!IdleRequest, nKeys)  BY <2>1, IdleDoOK
  <2> QED  BY <2>1, <2>2 DEF Client!Init, ClientInv, ClientTypeOK
<1>2. ClientInv /\ [Client!Next]_(Client!vars) => ClientInv'
  <2>1. ASSUME ClientInv, NEW r \in Requests, Client!Do(r)  PROVE ClientInv'
    BY <2>1, KeyInv, ApplyInv, SendFailsInv, RateLimitedInv, AnsweredInv DEF Client!Do
  <2> QED  BY <2>1, SharedInv DEF Client!Next
<1> QED  BY <1>1, <1>2, PTL DEF Client!Spec

(* A strict relay that failed is never bypassed, for any number of         *)
(* requests and whatever pools are installed meanwhile.                    *)
THEOREM StrictIsFinal == Client!Spec => []StrictFailureIsFinal
<1>1. ClientInv => StrictFailureIsFinal
  BY DEF ClientInv, DoOK, StrictFailureIsFinal, Client!StrictFailureIsFinal
<1> QED  BY <1>1, ClientSafe, PTL

(* A 429 is passed on only after as many rejections as there are keys,     *)
(* and only a rejected key cools down, for any number of keys.             *)
THEOREM AllKeysTried == Client!Spec => []RotatesBeforeGivingUp
<1>1. ClientInv => RotatesBeforeGivingUp
  BY DEF ClientInv, ClientTypeOK, DoType, DoOK, RotatesBeforeGivingUp, Client!RotatesBeforeGivingUp
<1> QED  BY <1>1, ClientSafe, PTL

(* The specification that the run checks is one of both components, so all *)
(* five properties hold of it.                                             *)
THEOREM BothLevels == UpstreamSpec => Spec /\ Client!Spec
<1>1. UpstreamInit => Init /\ Client!Init  BY DEF UpstreamInit
<1>2. [ComboStep \/ ClientStep]_<<vars, level, clientVars>> =>
        [Next]_vars /\ [Client!Next]_(Client!vars)
  BY DEF ComboStep, ClientStep, clientVars, Client!vars
<1> QED  BY <1>1, <1>2, PTL DEF UpstreamSpec, Spec, Client!Spec
=============================================================================
