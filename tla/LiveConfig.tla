------------------------------ MODULE LiveConfig ------------------------------
(***************************************************************************)
(* How an admin change reaches the running gateway: the rebuild closure of *)
(* internal/server/server.go and what it calls (ProviderManager.Rebuild,   *)
(* syncRelayPools, applyBuiltinProxies, ResolveRelayPools,                 *)
(* ComboRouter.SetCustoms and RebuildCombos), run by every handler after   *)
(* its change is stored.  Each read of the database and each store into    *)
(* the live structures is a step; a read may fail, which ends the rebuild  *)
(* there.                                                                  *)
(*                                                                         *)
(* The store holds one custom provider, one built-in upstream and one      *)
(* combo over both: enough for every kind of reference between them.       *)
(***************************************************************************)
EXTENDS Integers

CONSTANTS
    PoolIDs,       \* proxy pools
    Admins,        \* goroutines serving admin requests
    MaxRebuilds,   \* bound: rebuilds begun
    Failures       \* database reads that may fail: "list", "pool"

ASSUME LiveAssumption ==
    /\ MaxRebuilds \in Nat
    /\ Failures \subseteq {"list", "pool"}
    /\ PoolIDs \cap {"global", "direct", "absent"} = {}

(* A stored proxy selection: follow the global rotation, connect directly, *)
(* or a pinned pool; and what it resolves to.                              *)
Setting == {"global", "direct"} \cup PoolIDs

(* An upstream object: the rebuild that made it, and its relay. *)
NoObject == [gen |-> 0, relay |-> "direct"]

NoCombo == [gen |-> -1, relay |-> "direct"]

VARIABLES
    store,         \* the database: pools ("absent", "disabled" or "enabled" each), the
                   \* proxy settings of the provider and the built-in, the combo's row
    customs,       \* ProviderManager.customs, for the one provider
    shared,        \* SharedRelay's pools
    builtin,       \* the built-in client's relay
    router,        \* ComboRouter.customs
    combo,         \* ComboRouter.combos: NoCombo, or the provider's object in its tiers
    gen,           \* rebuilds begun
    adm,           \* the admin requests
    missed         \* the last rebuild failed to look a pool up (history)

vars == <<store, customs, shared, builtin, router, combo, gen, adm, missed>>

(* Of an admin request: setting is the selection read last, relay what it  *)
(* resolved to, pools and combo the other rows read.                       *)
IdleAdmin == [pc |-> "idle", gen |-> 0, setting |-> "absent", relay |-> "direct",
              pools |-> {}, combo |-> FALSE]

(* An empty database, as server.New finds it the first time. *)
Init ==
    /\ store = [pools |-> [p \in PoolIDs |-> "absent"], custom |-> "absent",
                builtin |-> "global", combo |-> FALSE]
    /\ customs = NoObject
    /\ shared = {}
    /\ builtin = "global"
    /\ router = NoObject
    /\ combo = NoCombo
    /\ gen = 0
    /\ adm = [a \in Admins |-> IdleAdmin]
    /\ missed = FALSE

-----------------------------------------------------------------------------
(* The transactions of the store, each one admin request. *)

Pinnable == {s \in Setting : s \in PoolIDs => store.pools[s] # "absent"}

(* DeletePool resets the pins on the pool. *)
Unpin(setting, p) == IF setting = p THEN "global" ELSE setting

WritePool ==
    \E p \in PoolIDs, row \in {"disabled", "enabled"} :
      store' = [store EXCEPT !.pools[p] = row]

DeletePool ==
    \E p \in PoolIDs :
      /\ store.pools[p] # "absent"
      /\ store' = [store EXCEPT !.pools[p] = "absent",
                                !.custom = Unpin(@, p), !.builtin = Unpin(@, p)]

WriteProvider ==
    \E setting \in Pinnable : store' = [store EXCEPT !.custom = setting]

(* A disabled provider stays in the combo's row, a deleted one leaves the  *)
(* combo with its built-in tier: the live combo is the same.               *)
RemoveProvider == store' = [store EXCEPT !.custom = "absent"]

WriteBuiltin ==
    \E setting \in Pinnable : store' = [store EXCEPT !.builtin = setting]

WriteCombo == \E exists \in BOOLEAN : store' = [store EXCEPT !.combo = exists]

(* A handler stores its change and calls rebuild. *)
Change(a) ==
    /\ adm[a].pc \in {"idle", "failed"}
    /\ gen < MaxRebuilds
    /\ WritePool \/ DeletePool \/ WriteProvider \/ RemoveProvider \/ WriteBuiltin
         \/ WriteCombo
    /\ gen' = gen + 1
    /\ adm' = [adm EXCEPT ![a] = [IdleAdmin EXCEPT !.pc = "providers", !.gen = gen + 1]]
    /\ missed' = FALSE
    /\ UNCHANGED <<customs, shared, builtin, router, combo>>

-----------------------------------------------------------------------------
(* ProviderManager.Rebuild *)

Live == <<customs, shared, builtin, router, combo>>

ReadProviders(a) ==
    /\ adm[a].pc = "providers"
    /\ adm' = [adm EXCEPT ![a].pc = "pins", ![a].setting = store.custom]
    /\ UNCHANGED <<store, gen, missed, Live>>

(* Mutant: a pin on a disabled pool follows the global rotation. *)
ResolveRelayPoolsRerouting(setting) ==
    IF setting \in PoolIDs /\ store.pools[setting] # "enabled" THEN "global" ELSE setting

(* A missing pool falls back to the rotation, a disabled one to direct. *)
ResolveRelayPools(setting) ==
    IF setting \notin PoolIDs THEN setting
    ELSE CASE store.pools[setting] = "absent" -> "global"
           [] store.pools[setting] = "disabled" -> "direct"
           [] store.pools[setting] = "enabled" -> setting

(* GetPools; the objects are made from the two reads. *)
ReadPins(a) ==
    /\ adm[a].pc = "pins"
    /\ adm' = [adm EXCEPT ![a].pc = "publish",
                 ![a].relay = IF adm[a].setting = "absent" THEN "direct"
                              ELSE ResolveRelayPools(adm[a].setting)]
    /\ UNCHANGED <<store, gen, missed, Live>>

Publish(a) ==
    /\ adm[a].pc = "publish"
    /\ customs' = IF adm[a].setting = "absent" THEN NoObject
                  ELSE [gen |-> adm[a].gen, relay |-> adm[a].relay]
    /\ adm' = [adm EXCEPT ![a].pc = "pools"]
    /\ UNCHANGED <<store, gen, missed, shared, builtin, router, combo>>

-----------------------------------------------------------------------------
(* syncRelayPools *)

EnabledPools == {p \in PoolIDs : store.pools[p] = "enabled"}

ListPools(a) ==
    /\ adm[a].pc = "pools"
    /\ adm' = [adm EXCEPT ![a].pc = "share", ![a].pools = EnabledPools]
    /\ UNCHANGED <<store, gen, missed, Live>>

SharePools(a) ==
    /\ adm[a].pc = "share"
    /\ shared' = adm[a].pools
    /\ adm' = [adm EXCEPT ![a].pc = "builtins", ![a].pools = {}]
    /\ UNCHANGED <<store, gen, missed, customs, builtin, router, combo>>

-----------------------------------------------------------------------------
(* applyBuiltinProxies *)

ListBuiltins(a) ==
    /\ adm[a].pc = "builtins"
    /\ adm' = [adm EXCEPT ![a].pc = "builtinPool", ![a].setting = store.builtin]
    /\ UNCHANGED <<store, gen, missed, Live>>

GetBuiltinPool(a) ==
    /\ adm[a].pc = "builtinPool"
    /\ adm' = [adm EXCEPT ![a].pc = "builtinSet",
                          ![a].relay = ResolveRelayPools(adm[a].setting)]
    /\ UNCHANGED <<store, gen, missed, Live>>

SetBuiltin(a) ==
    /\ adm[a].pc = "builtinSet"
    /\ builtin' = adm[a].relay
    /\ adm' = [adm EXCEPT ![a].pc = "combos", ![a].setting = "absent", ![a].relay = "direct"]
    /\ UNCHANGED <<store, gen, missed, customs, shared, router, combo>>

-----------------------------------------------------------------------------
(* comboRows, SetCustoms, RebuildCombos *)

ListCombos(a) ==
    /\ adm[a].pc = "combos"
    /\ adm' = [adm EXCEPT ![a].pc = "customs", ![a].combo = store.combo]
    /\ UNCHANGED <<store, gen, missed, Live>>

SetCustoms(a) ==
    /\ adm[a].pc = "customs"
    /\ router' = customs
    /\ adm' = [adm EXCEPT ![a].pc = "tiers"]
    /\ UNCHANGED <<store, gen, missed, customs, shared, builtin, combo>>

(* Mutant: the combo keeps the object it has. *)
LookupOld == IF combo = NoCombo THEN NoObject ELSE combo

(* lookup: the manager's object of that name. *)
Lookup == customs

RebuildCombos(a) ==
    /\ adm[a].pc = "tiers"
    /\ combo' = IF adm[a].combo THEN Lookup ELSE NoCombo
    /\ adm' = [adm EXCEPT ![a] = IdleAdmin]
    /\ UNCHANGED <<store, gen, missed, customs, shared, builtin, router>>

(* A list read fails: the rebuild is given up where it stands and the      *)
(* request answered with an error.                                         *)
ReadFails(a) ==
    /\ "list" \in Failures
    /\ adm[a].pc \in {"providers", "pins", "pools", "builtins", "combos"}
    /\ adm' = [adm EXCEPT ![a] = [IdleAdmin EXCEPT !.pc = "failed"]]
    /\ UNCHANGED <<store, gen, missed, Live>>

(* applyBuiltinProxies takes an error of GetPool for a missing pool. *)
GetBuiltinPoolFails(a) ==
    /\ "pool" \in Failures
    /\ adm[a].pc = "builtinPool"
    /\ adm[a].setting \in PoolIDs
    /\ adm' = [adm EXCEPT ![a].pc = "builtinSet", ![a].relay = "global"]
    /\ missed' = TRUE
    /\ UNCHANGED <<store, gen, Live>>

Step(a) ==
    \/ Change(a)
    \/ ReadProviders(a) \/ ReadPins(a) \/ Publish(a)
    \/ ListPools(a) \/ SharePools(a)
    \/ ListBuiltins(a) \/ GetBuiltinPool(a) \/ GetBuiltinPoolFails(a) \/ SetBuiltin(a)
    \/ ListCombos(a) \/ SetCustoms(a) \/ RebuildCombos(a)
    \/ ReadFails(a)

Next == \E a \in Admins : Step(a)

Spec == Init /\ [][Next]_vars

-----------------------------------------------------------------------------
(* Properties *)

Quiet == \A a \in Admins : adm[a].pc = "idle"

(* The relay a stored selection asks for.  A pinned pool is never missing: *)
(* DeletePool resets the pins on it.                                       *)
Wanted(setting) ==
    IF setting \in PoolIDs /\ store.pools[setting] # "enabled" THEN "direct" ELSE setting

(* "pool edits, deletes, and disables take effect without a restart": when *)
(* a successful request has returned and no other is under way, the global *)
(* rotation, the built-in and the custom provider use the relays that the  *)
(* database asks for; only the built-in may be wrong, and only when the    *)
(* lookup of its pool failed in the very last rebuild.                     *)
RelaysMatchStore ==
    Quiet =>
      /\ shared = {p \in PoolIDs : store.pools[p] = "enabled"}
      /\ builtin = Wanted(store.builtin) \/ missed
      /\ customs.gen # 0 => customs.relay = Wanted(store.custom)

(* When requests are done, also after failed rebuilds in between: exactly  *)
(* the enabled provider is routed to, and the combo's tier is that very    *)
(* object, not one of an earlier rebuild.                                  *)
RoutesMatchStore ==
    Quiet =>
      /\ customs.gen # 0 <=> store.custom # "absent"
      /\ router = customs
      /\ combo = IF store.combo THEN customs ELSE NoCombo

(* What a successful rebuild promises: relays and routes are as stored. *)
LiveMatchesStore == RelaysMatchStore /\ RoutesMatchStore
=============================================================================
