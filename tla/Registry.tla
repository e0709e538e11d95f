------------------------------- MODULE Registry -------------------------------
(***************************************************************************)
(* internal/infrastructure/registry (providers.go, pools.go, combos.go):   *)
(* the configuration tables, each store operation one transaction (the     *)
(* DSN's _txlock=immediate serialises them), and the admin handlers that   *)
(* read a row, work on it outside any transaction and write it back        *)
(* (delivery/admin: updateProvider, testPool).  An operation that fails    *)
(* leaves the tables alone and is no step of its own, except where a       *)
(* handler ends with it.                                                   *)
(*                                                                         *)
(* A tier list is the set of providers it names: the properties do not     *)
(* depend on the order, which the code keeps.  A pin is the pool of mode   *)
(* "pool", or NoPool: the other modes store no pool id.                    *)
(***************************************************************************)
EXTENDS Integers

CONSTANTS
    ProviderIDs, ProviderNames,
    ComboIDs, ComboNames,
    PoolIDs,
    Builtins,       \* built-in upstreams: opencode, kilo, llm7
    Selections,     \* curated model selections
    URLs,           \* relay URLs
    Handlers,       \* goroutines serving multi-step admin requests
    NoRow,          \* a row that does not exist
    NoPool          \* no pin

(* What a tier may name: a built-in, or custom:<provider>. *)
TierProvider == Builtins \cup ProviderNames

Provider == [name : ProviderNames, enabled : BOOLEAN, models : Selections,
             pin : PoolIDs \cup {NoPool}]

Combo == [name : ComboNames, tiers : SUBSET TierProvider]

Pool == [url : URLs, enabled : BOOLEAN, test : {"", "active", "error"}]

ASSUME RegistryAssumption ==
    /\ Builtins \cap ProviderNames = {}
    /\ NoPool \notin PoolIDs
    /\ ProviderIDs \cap PoolIDs = {}
    /\ NoRow \notin Provider
    /\ NoRow \notin Combo
    /\ NoRow \notin Pool

VARIABLES
    providers, combos, pools,   \* the tables, by primary key
    builtins,                   \* builtins[b]: the pool b is pinned to
    issued,                     \* primary keys given out: AUTOINCREMENT reuses none
    handler                     \* the multi-step admin requests

vars == <<providers, combos, pools, builtins, issued, handler>>

(* A handler's progress, and what it has read: the provider row of         *)
(* updateProvider, the pool row of testPool.                               *)
Handler == [pc     : {"idle", "update", "resolved", "probe", "disable", "mark"},
            prov   : ProviderIDs \cup {NoRow},
            models : Selections \cup {NoRow},   \* NoRow: given in the request
            pin    : PoolIDs \cup {NoPool},
            pool   : PoolIDs \cup {NoPool},
            url    : URLs \cup {NoRow}]

Idle == [pc |-> "idle", prov |-> NoRow, models |-> NoRow, pin |-> NoPool,
         pool |-> NoPool, url |-> NoRow]

TypeOK ==
    /\ providers \in [ProviderIDs -> Provider \cup {NoRow}]
    /\ combos \in [ComboIDs -> Combo \cup {NoRow}]
    /\ pools \in [PoolIDs -> Pool \cup {NoRow}]
    /\ builtins \in [Builtins -> PoolIDs \cup {NoPool}]
    /\ issued \in SUBSET (ProviderIDs \cup PoolIDs)
    /\ handler \in [Handlers -> Handler]

Init ==
    /\ providers = [i \in ProviderIDs |-> NoRow]
    /\ combos = [c \in ComboIDs |-> NoRow]
    /\ pools = [p \in PoolIDs |-> NoRow]
    /\ builtins = [b \in Builtins |-> NoPool]
    /\ issued = {}
    /\ handler = [h \in Handlers |-> Idle]

-----------------------------------------------------------------------------
(* Checks made inside the transactions *)

(* The unique index on providers.name. *)
NameFree(i, name) ==
    \A j \in ProviderIDs \ {i} : providers[j] # NoRow => providers[j].name # name

ComboNameFree(c, name) ==
    \A d \in ComboIDs \ {c} : combos[d] # NoRow => combos[d].name # name

(* Mutant: the check of the handler (resolveProxy) is taken to be enough. *)
EnsureProxyPoolTrusting(pin) == TRUE

EnsureProxyPool(pin) == pin # NoPool => pools[pin] # NoRow

(* Every custom tier names an enabled provider. *)
CheckTiersExist(tiers) ==
    \A t \in tiers \cap ProviderNames :
      \E i \in ProviderIDs :
        /\ providers[i] # NoRow
        /\ providers[i].name = t
        /\ providers[i].enabled

(* validateTiers: required, min=1. *)
ValidTiers(tiers) == tiers # {}

-----------------------------------------------------------------------------
(* Providers *)

CreateProvider(i, name, enabled, models, pin) ==
    /\ i \notin issued
    /\ NameFree(i, name)
    /\ EnsureProxyPool(pin)
    /\ providers' = [providers EXCEPT ![i] =
                       [name |-> name, enabled |-> enabled,
                        models |-> models, pin |-> pin]]
    /\ issued' = issued \cup {i}
    /\ UNCHANGED <<combos, pools, builtins, handler>>

(* updateProvider first reads the row: a request without models keeps the  *)
(* selection it saw.                                                       *)
ReadProvider(h, i, omitModels) ==
    /\ handler[h].pc = "idle"
    /\ providers[i] # NoRow
    /\ handler' = [handler EXCEPT ![h] =
         [pc |-> "update", prov |-> i,
          models |-> IF omitModels THEN providers[i].models ELSE NoRow,
          pin |-> providers[i].pin, pool |-> NoPool, url |-> NoRow]]
    /\ UNCHANGED <<providers, combos, pools, builtins, issued>>

(* resolveProxy: the requested pin, or the one read, is looked up outside  *)
(* the transaction; a missing pool ends the request.                       *)
ResolveProxy(h, pin) ==
    /\ handler[h].pc = "update"
    /\ IF EnsureProxyPool(pin)
         THEN handler' = [handler EXCEPT ![h] =
                [pc |-> "resolved", prov |-> handler[h].prov,
                 models |-> handler[h].models, pin |-> pin,
                 pool |-> NoPool, url |-> NoRow]]
         ELSE handler' = [handler EXCEPT ![h] = Idle]
    /\ UNCHANGED <<providers, combos, pools, builtins, issued>>

(* Mutant: combos keep the provider's old name. *)
RenamedForgotten(tiers, old, new) == tiers

(* Tiers on custom:<old> follow the provider to its new name. *)
Renamed(tiers, old, new) ==
    IF old \in tiers THEN (tiers \ {old}) \cup {new} ELSE tiers

(* Mutant: the selection that was read is written although another was given. *)
NewModelsAsRead(h) == {handler[h].models}

(* The selections UpdateProvider may write. *)
NewModels(h) == IF handler[h].models = NoRow THEN Selections ELSE {handler[h].models}

(* UpdateProvider's transaction. *)
UpdateProvider(h, name, enabled, models) ==
    LET i == handler[h].prov IN
    /\ handler[h].pc = "resolved"
    /\ models \in NewModels(h)
    /\ providers[i] # NoRow
    /\ NameFree(i, name)
    /\ EnsureProxyPool(handler[h].pin)
    /\ providers' = [providers EXCEPT ![i] =
                       [name |-> name, enabled |-> enabled,
                        models |-> models, pin |-> handler[h].pin]]
    /\ combos' = [c \in ComboIDs |->
         IF combos[c] = NoRow THEN NoRow
         ELSE [name |-> combos[c].name,
               tiers |-> Renamed(combos[c].tiers, providers[i].name, name)]]
    /\ handler' = [handler EXCEPT ![h] = Idle]
    /\ UNCHANGED <<pools, builtins, issued>>

(* The row or the pool is gone, the name is taken, or the database fails:  *)
(* the transaction rolls back and the handler answers an error.            *)
UpdateProviderFails(h) ==
    /\ handler[h].pc = "resolved"
    /\ handler' = [handler EXCEPT ![h] = Idle]
    /\ UNCHANGED <<providers, combos, pools, builtins, issued>>

(* What the deletion of provider name leaves of combo c: its other tiers,  *)
(* or nothing when there are none.                                         *)
Stripped(c, name) ==
    IF combos[c] = NoRow THEN NoRow
    ELSE IF combos[c].tiers \ {name} = {} THEN NoRow
    ELSE [name |-> combos[c].name, tiers |-> combos[c].tiers \ {name}]

DeleteProvider(i) ==
    /\ providers[i] # NoRow
    /\ providers' = [providers EXCEPT ![i] = NoRow]
    /\ combos' = [c \in ComboIDs |-> Stripped(c, providers[i].name)]
    /\ UNCHANGED <<pools, builtins, handler, issued>>

-----------------------------------------------------------------------------
(* Combos *)

SaveCombo(c, name, tiers) ==
    /\ combos[c] = NoRow
    /\ ComboNameFree(c, name)
    /\ ValidTiers(tiers)
    /\ CheckTiersExist(tiers)
    /\ combos' = [combos EXCEPT ![c] = [name |-> name, tiers |-> tiers]]
    /\ UNCHANGED <<providers, pools, builtins, handler, issued>>

UpdateCombo(c, name, tiers) ==
    /\ combos[c] # NoRow
    /\ ComboNameFree(c, name)
    /\ ValidTiers(tiers)
    /\ CheckTiersExist(tiers)
    /\ combos' = [combos EXCEPT ![c] = [name |-> name, tiers |-> tiers]]
    /\ UNCHANGED <<providers, pools, builtins, handler, issued>>

DeleteCombo(c) ==
    /\ combos[c] # NoRow
    /\ combos' = [combos EXCEPT ![c] = NoRow]
    /\ UNCHANGED <<providers, pools, builtins, handler, issued>>

-----------------------------------------------------------------------------
(* Pools *)

CreatePool(p, url, enabled) ==
    /\ p \notin issued
    /\ issued' = issued \cup {p}
    /\ pools' = [pools EXCEPT ![p] = [url |-> url, enabled |-> enabled, test |-> ""]]
    /\ UNCHANGED <<providers, combos, builtins, handler>>

(* UpdatePool writes every column but the test outcome. *)
WritePool(p, url, enabled) ==
    pools' = [pools EXCEPT ![p] =
                [url |-> url, enabled |-> enabled, test |-> pools[p].test]]

UpdatePool(p, url, enabled) ==
    /\ pools[p] # NoRow
    /\ WritePool(p, url, enabled)
    /\ UNCHANGED <<providers, combos, builtins, handler, issued>>

(* Mutant: the pins of the built-ins are not reset. *)
UnpinnedOnlyCustoms(pin, p, builtin) == IF pin = p /\ ~builtin THEN NoPool ELSE pin

(* A pin on the deleted pool returns to the global rotation. *)
Unpinned(pin, p, builtin) == IF pin = p THEN NoPool ELSE pin

DeletePool(p) ==
    /\ pools[p] # NoRow
    /\ pools' = [pools EXCEPT ![p] = NoRow]
    /\ providers' = [i \in ProviderIDs |->
         IF providers[i] = NoRow THEN NoRow
         ELSE [name |-> providers[i].name, enabled |-> providers[i].enabled,
               models |-> providers[i].models,
               pin |-> Unpinned(providers[i].pin, p, FALSE)]]
    /\ builtins' = [b \in Builtins |-> Unpinned(builtins[b], p, TRUE)]
    /\ UNCHANGED <<combos, handler, issued>>

SetBuiltinProxy(b, pin) ==
    /\ EnsureProxyPool(pin)
    /\ builtins' = [builtins EXCEPT ![b] = pin]
    /\ UNCHANGED <<providers, combos, pools, handler, issued>>

-----------------------------------------------------------------------------
(* testPool: read the row, probe the relay, persist the outcome *)

ReadPool(h, p) ==
    /\ handler[h].pc = "idle"
    /\ pools[p] # NoRow
    /\ handler' = [handler EXCEPT ![h] =
         [pc |-> "probe", prov |-> NoRow, models |-> NoRow, pin |-> NoPool,
          pool |-> p, url |-> pools[p].url]]
    /\ UNCHANGED <<providers, combos, pools, builtins, issued>>

At(h, pc) == [pc |-> pc, prov |-> NoRow, models |-> NoRow, pin |-> NoPool,
              pool |-> handler[h].pool, url |-> handler[h].url]

(* The probe succeeds: MarkPoolTest, if the row still exists. *)
ProbeSucceeds(h) ==
    LET p == handler[h].pool IN
    /\ handler[h].pc = "probe"
    /\ pools' = IF pools[p] = NoRow THEN pools
                ELSE [pools EXCEPT ![p] = [url |-> pools[p].url,
                        enabled |-> pools[p].enabled, test |-> "active"]]
    /\ handler' = [handler EXCEPT ![h] = Idle]
    /\ UNCHANGED <<providers, combos, builtins, issued>>

ProbeFails(h) ==
    /\ handler[h].pc = "probe"
    /\ handler' = [handler EXCEPT ![h] = At(h, "disable")]
    /\ UNCHANGED <<providers, combos, pools, builtins, issued>>

(* persistPoolFailure writes back the whole row it read, disabled. *)
DisablePool(h) ==
    LET p == handler[h].pool IN
    /\ handler[h].pc = "disable"
    /\ IF pools[p] = NoRow THEN UNCHANGED pools
                           ELSE WritePool(p, handler[h].url, FALSE)
    /\ handler' = [handler EXCEPT ![h] = At(h, "mark")]
    /\ UNCHANGED <<providers, combos, builtins, issued>>

(* A database error is logged and does not stop the handler. *)
DisablePoolFails(h) ==
    /\ handler[h].pc = "disable"
    /\ handler' = [handler EXCEPT ![h] = At(h, "mark")]
    /\ UNCHANGED <<providers, combos, pools, builtins, issued>>

MarkPoolTest(h) ==
    LET p == handler[h].pool IN
    /\ handler[h].pc = "mark"
    /\ pools' = IF pools[p] = NoRow THEN pools
                ELSE [pools EXCEPT ![p] = [url |-> pools[p].url,
                        enabled |-> pools[p].enabled, test |-> "error"]]
    /\ handler' = [handler EXCEPT ![h] = Idle]
    /\ UNCHANGED <<providers, combos, builtins, issued>>

-----------------------------------------------------------------------------
Pins == PoolIDs \cup {NoPool}

ProviderStep ==
    \/ \E i \in ProviderIDs, name \in ProviderNames, enabled \in BOOLEAN,
          models \in Selections, pin \in Pins :
         CreateProvider(i, name, enabled, models, pin)
    \/ \E h \in Handlers, i \in ProviderIDs, omitModels \in BOOLEAN :
         ReadProvider(h, i, omitModels)
    \/ \E h \in Handlers, pin \in Pins : ResolveProxy(h, pin)
    \/ \E h \in Handlers, name \in ProviderNames, enabled \in BOOLEAN,
          models \in Selections \cup {NoRow} :
         UpdateProvider(h, name, enabled, models)
    \/ \E h \in Handlers : UpdateProviderFails(h)
    \/ \E i \in ProviderIDs : DeleteProvider(i)

ComboStep ==
    \/ \E c \in ComboIDs, name \in ComboNames, tiers \in SUBSET TierProvider :
         SaveCombo(c, name, tiers) \/ UpdateCombo(c, name, tiers)
    \/ \E c \in ComboIDs : DeleteCombo(c)

PoolStep ==
    \/ \E p \in PoolIDs, url \in URLs, enabled \in BOOLEAN :
         CreatePool(p, url, enabled) \/ UpdatePool(p, url, enabled)
    \/ \E p \in PoolIDs : DeletePool(p)
    \/ \E b \in Builtins, pin \in Pins : SetBuiltinProxy(b, pin)
    \/ \E h \in Handlers, p \in PoolIDs : ReadPool(h, p)
    \/ \E h \in Handlers : ProbeSucceeds(h)
    \/ \E h \in Handlers : ProbeFails(h)
    \/ \E h \in Handlers : DisablePool(h)
    \/ \E h \in Handlers : DisablePoolFails(h)
    \/ \E h \in Handlers : MarkPoolTest(h)

Next == ProviderStep \/ ComboStep \/ PoolStep

Spec == Init /\ [][Next]_vars

-----------------------------------------------------------------------------
(* Properties *)

(* "no provider is left pointing at a gone pool": every stored pin, of a   *)
(* custom provider or a built-in, names an existing pool, whatever is      *)
(* deleted between a handler's reading a provider and writing it back.     *)
PinsResolve ==
    /\ \A i \in ProviderIDs :
         providers[i] # NoRow /\ providers[i].pin # NoPool
           => pools[providers[i].pin] # NoRow
    /\ \A b \in Builtins : builtins[b] # NoPool => pools[builtins[b]] # NoRow

(* Provider names are unique. *)
NamesUnique ==
    \A i, j \in ProviderIDs :
      providers[i] # NoRow /\ providers[j] # NoRow
        /\ providers[i].name = providers[j].name => i = j

(* Every custom tier of every combo names a stored provider: deletions     *)
(* strip their tiers and renames carry them along, in the same             *)
(* transaction.                                                            *)
TiersResolve ==
    \A c \in ComboIDs : combos[c] # NoRow =>
      \A t \in combos[c].tiers \cap ProviderNames :
        \E i \in ProviderIDs : providers[i] # NoRow /\ providers[i].name = t

(* No combo is stored without tiers: RebuildCombos would drop its name     *)
(* from the router and requests for it would reach another upstream.       *)
CombosHaveTiers ==
    \A c \in ComboIDs : combos[c] # NoRow => combos[c].tiers # {}

(* What a request for a combo relies on: it has tiers and each exists. *)
TiersIntact == TiersResolve /\ CombosHaveTiers

(* "Absent models keeps the stored selection": an update without models    *)
(* leaves the selection as it is stored.                                   *)
AbsentModelsKeepStored ==
    [][\A h \in Handlers :
         /\ handler[h].models # NoRow
         /\ \E name \in ProviderNames, enabled \in BOOLEAN :
              UpdateProvider(h, name, enabled, handler[h].models)
         => providers'[handler[h].prov].models = providers[handler[h].prov].models]_vars
=============================================================================
