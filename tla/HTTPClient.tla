------------------------------ MODULE HTTPClient ------------------------------
(***************************************************************************)
(* internal/infrastructure/upstream/client.go and relay.go: one upstream   *)
(* client shared by concurrent requests.  doWithHeaders takes an API key   *)
(* (round robin, skipping keys in cooldown), sends the request through the *)
(* relay that the selector picks, falls back to a direct connection when a *)
(* non-strict relay fails, and rotates to the next key on a 429.  A client *)
(* has a key here, if only the public one, and its requests can be built:  *)
(* an error of build() ends the call before anything is sent.              *)
(***************************************************************************)
EXTENDS Integers, Sequences

CONSTANTS
    Requests,      \* goroutines inside doWithHeaders
    KeyCounts,     \* len(c.apiKeys): the numbers of keys a client may be made with
    PoolLists,     \* the pool lists an admin may install; each a sequence of
                   \* "strict", "lax" and "bypass" (no-proxy match, unusable URL)
    Strategies     \* relay strategies: "round-robin", "random", "none"

VARIABLES
    nKeys,         \* len(c.apiKeys), fixed when the client is made
    nextKey,       \* c.nextKey modulo len(c.apiKeys)
    limited,       \* keys in cooldown
    pools,         \* the selector's pool list
    strategy,      \* the selector's strategy
    idx,           \* the selector's round-robin counter, modulo the list's length
    req,           \* the doWithHeaders calls
    rejected       \* keys that have ever been answered with a 429 (history)

vars == <<nKeys, nextKey, limited, pools, strategy, idx, req, rejected>>

Keys == 0..(nKeys - 1)

IdleRequest ==
    [pc |-> "idle",              \* "key", "check", "apply", "send", "done"
     attempt |-> 0,              \* the loop variable
     probes |-> 0,               \* currentKey's loop
     key |-> 0,
     via |-> "direct",           \* or "strict" or "lax": the relay's kind
     direct |-> FALSE,           \* the direct retry of a failed non-strict relay
     result |-> "none",          \* "err", "429" or "ok"
     rejects |-> 0,              \* 429 answers so far (history)
     strictFailed |-> FALSE]     \* a strict relay has failed (history)

Init ==
    /\ nKeys \in KeyCounts
    /\ nextKey = 0
    /\ limited = {}
    /\ pools \in PoolLists
    /\ strategy \in Strategies
    /\ idx = 0
    /\ req = [r \in Requests |-> IdleRequest]
    /\ rejected = {}

-----------------------------------------------------------------------------
(* currentKey *)

(* Entering currentKey: no key has been looked at yet. *)
PickKey(q) == [q EXCEPT !.pc = "key", !.probes = 0]

Picked(q, k) == [q EXCEPT !.pc = IF q.direct THEN "send" ELSE "apply", !.key = k,
                          !.probes = 0]

Advance(k) == (k + 1) % nKeys

(* A single key is used as it is, without rotation. *)
OnlyKey(r) ==
    /\ req[r].pc = "key"
    /\ nKeys = 1
    /\ req' = [req EXCEPT ![r] = Picked(@, 0)]
    /\ UNCHANGED <<nKeys, nextKey, limited, pools, strategy, idx, rejected>>

(* One turn of the loop: take the next index, ... *)
TakeIndex(r) ==
    /\ req[r].pc = "key"
    /\ nKeys > 1
    /\ req[r].probes < nKeys
    /\ nextKey' = Advance(nextKey)
    /\ req' = [req EXCEPT ![r].pc = "check", ![r].key = nextKey]
    /\ UNCHANGED <<nKeys, limited, pools, strategy, idx, rejected>>

(* The key is limited: one probe more. *)
Probed(q) == [q EXCEPT !.pc = "key", !.probes = q.probes + 1]

(* ... then ask the cooldown map, and use the key unless it is limited. *)
CheckKey(r) ==
    /\ req[r].pc = "check"
    /\ req' = [req EXCEPT ![r] = IF @.key \in limited THEN Probed(@) ELSE Picked(@, @.key)]
    /\ UNCHANGED <<nKeys, nextKey, limited, pools, strategy, idx, rejected>>

(* Every probe found a key in cooldown: send with the next one anyway. *)
FallbackKey(r) ==
    /\ req[r].pc = "key"
    /\ nKeys > 1
    /\ req[r].probes >= nKeys
    /\ nextKey' = Advance(nextKey)
    /\ req' = [req EXCEPT ![r] = Picked(@, nextKey)]
    /\ UNCHANGED <<nKeys, limited, pools, strategy, idx, rejected>>

-----------------------------------------------------------------------------
(* RelaySelector *)

(* Next: the positions of pools the strategy may pick. *)
PoolPicks ==
    CASE strategy = "random" -> 1..Len(pools)
      [] strategy = "none" -> {1}
      [] OTHER -> {((idx + 1) % Len(pools)) + 1}

(* ApplyStrict: no pool, and a pool that does not apply, mean direct. *)
Apply(r) ==
    /\ req[r].pc = "apply"
    /\ \/ /\ pools = <<>>
          /\ req' = [req EXCEPT ![r].pc = "send", ![r].via = "direct"]
          /\ UNCHANGED idx
       \/ /\ pools # <<>>
          /\ \E i \in PoolPicks :
               req' = [req EXCEPT ![r].pc = "send",
                         ![r].via = IF pools[i] = "bypass" THEN "direct" ELSE pools[i]]
          /\ idx' = IF strategy = "round-robin" THEN (idx + 1) % Len(pools) ELSE idx
    /\ UNCHANGED <<nKeys, nextKey, limited, pools, strategy, rejected>>

(* The counter is unbounded, so its residue by the new length is any. *)
SetPools ==
    /\ pools' \in PoolLists
    /\ idx' \in IF pools' = <<>> THEN {0} ELSE 0..(Len(pools') - 1)
    /\ UNCHANGED <<nKeys, nextKey, limited, strategy, req, rejected>>

SetStrategy ==
    /\ strategy' \in Strategies
    /\ UNCHANGED <<nKeys, nextKey, limited, pools, idx, req, rejected>>

-----------------------------------------------------------------------------
(* doWithHeaders *)

Begin(r) ==
    /\ req[r].pc = "idle"
    /\ req' = [req EXCEPT ![r] = PickKey(IdleRequest)]
    /\ UNCHANGED <<nKeys, nextKey, limited, pools, strategy, idx, rejected>>

(* Mutant: every failed relay is retried directly. *)
MayGoDirectAlways(r) == req[r].via \in {"lax", "strict"}

(* err && applied && !strict *)
MayGoDirect(r) == req[r].via = "lax"

(* The relay, if there is one, is remembered to have failed. *)
Failed(q) == [q EXCEPT !.strictFailed = q.strictFailed \/ q.via = "strict"]

(* client.Do fails: a non-strict relay is retried directly, with a key     *)
(* taken anew; anything else is returned.                                  *)
SendFails(r) ==
    /\ req[r].pc = "send"
    /\ req' = [req EXCEPT ![r] =
         IF MayGoDirect(r)
           THEN [PickKey(Failed(req[r])) EXCEPT !.direct = TRUE, !.via = "direct"]
           ELSE [Failed(req[r]) EXCEPT !.pc = "done", !.result = "err"]]
    /\ UNCHANGED <<nKeys, nextKey, limited, pools, strategy, idx, rejected>>

(* Mutant: off by one, the last attempt is given up. *)
MayRotateShort(r) == nKeys > 1 /\ req[r].attempt + 2 < nKeys

MayRotate(r) == nKeys > 1 /\ req[r].attempt + 1 < nKeys

KeyToMark(r) == req[r].key

(* A 429 with another attempt left: cool the key down, close the body, go  *)
(* round again.                                                            *)
RateLimited(r) ==
    /\ req[r].pc = "send"
    /\ MayRotate(r)
    /\ limited' = limited \cup {KeyToMark(r)}
    /\ rejected' = rejected \cup {req[r].key}
    /\ req' = [req EXCEPT ![r] =
         [PickKey(IdleRequest) EXCEPT !.attempt = req[r].attempt + 1,
            !.rejects = req[r].rejects + 1, !.strictFailed = req[r].strictFailed]]
    /\ UNCHANGED <<nKeys, nextKey, pools, strategy, idx>>

(* Any other response, and the 429 of the last attempt, is returned. *)
Answered(r, answer) ==
    /\ req[r].pc = "send"
    /\ answer = "429" => ~MayRotate(r)
    /\ rejected' = IF answer = "429" THEN rejected \cup {req[r].key} ELSE rejected
    /\ req' = [req EXCEPT ![r] =
         [@ EXCEPT !.pc = "done", !.result = answer,
                   !.rejects = req[r].rejects + (IF answer = "429" THEN 1 ELSE 0)]]
    /\ UNCHANGED <<nKeys, nextKey, limited, pools, strategy, idx>>

Finish(r) ==
    /\ req[r].pc = "done"
    /\ req' = [req EXCEPT ![r] = IdleRequest]
    /\ UNCHANGED <<nKeys, nextKey, limited, pools, strategy, idx, rejected>>

(* keyCooldownTTL has passed for key k. *)
CooldownEnds(k) ==
    /\ k \in limited
    /\ limited' = limited \ {k}
    /\ UNCHANGED <<nKeys, nextKey, pools, strategy, idx, req, rejected>>

Do(r) ==
    \/ Begin(r)
    \/ OnlyKey(r)
    \/ TakeIndex(r)
    \/ CheckKey(r)
    \/ FallbackKey(r)
    \/ Apply(r)
    \/ SendFails(r)
    \/ RateLimited(r)
    \/ \E answer \in {"429", "ok"} : Answered(r, answer)
    \/ Finish(r)

Next ==
    \/ \E r \in Requests : Do(r)
    \/ \E k \in Keys : CooldownEnds(k)
    \/ SetPools
    \/ SetStrategy

Spec == Init /\ [][Next]_vars

-----------------------------------------------------------------------------
(* Properties *)

(* "a failed strict relay must error": whatever pools an admin installs    *)
(* while the request is under way, nothing is sent after a strict relay    *)
(* failed, and nothing goes out directly in its place.                     *)
StrictFailureIsFinal ==
    \A r \in Requests : req[r].strictFailed => req[r].result = "err"

(* "retrying on 429 with the next API key": the caller sees a 429 only     *)
(* when the request was answered 429 once per configured key.  "A single   *)
(* key keeps the previous behavior: a 429 is returned as-is": it is        *)
(* neither cooled down nor sent again.  A key is in cooldown only if a 429 *)
(* was answered to that very key, also when the direct retry was sent with *)
(* another key than the relayed try.                                       *)
RotatesBeforeGivingUp ==
    /\ limited \subseteq rejected
    /\ \A r \in Requests : req[r].result = "429" => req[r].rejects = nKeys
    /\ nKeys = 1 => limited = {} /\ \A r \in Requests : req[r].attempt = 0
=============================================================================
