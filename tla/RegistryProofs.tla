---------------------------- MODULE RegistryProofs ----------------------------
(***************************************************************************)
(* The referential integrity of the configuration tables, for any number   *)
(* of rows and of concurrent admin handlers.                               *)
(***************************************************************************)
EXTENDS Registry, TLAPS

(* What a handler has read is of the kind its request works on. *)
HandlersOK ==
    \A h \in Handlers :
      /\ handler[h].pc \in {"update", "resolved"} => handler[h].prov \in ProviderIDs
      /\ handler[h].pc \in {"probe", "disable", "mark"} =>
           handler[h].pool \in PoolIDs /\ handler[h].url \in URLs

(* A stored row has a primary key that was given out. *)
KeysIssued ==
    /\ \A i \in ProviderIDs : providers[i] # NoRow => i \in issued
    /\ \A p \in PoolIDs : pools[p] # NoRow => p \in issued

(* The inductive invariant. *)
Inv ==
    /\ TypeOK
    /\ HandlersOK
    /\ KeysIssued
    /\ PinsResolve
    /\ NamesUnique
    /\ TiersResolve
    /\ CombosHaveTiers

-----------------------------------------------------------------------------
(* A row that exists is a row of its table. *)
LEMMA RowTypes ==
  ASSUME TypeOK
  PROVE  /\ \A i \in ProviderIDs : providers[i] # NoRow => providers[i] \in Provider
         /\ \A c \in ComboIDs : combos[c] # NoRow => combos[c] \in Combo
         /\ \A p \in PoolIDs : pools[p] # NoRow => pools[p] \in Pool
BY DEF TypeOK

(* What UpdatePool and MarkPoolTest write is a pool row. *)
LEMMA PoolRow ==
  ASSUME TypeOK, NEW p \in PoolIDs, pools[p] # NoRow
  PROVE  /\ \A url \in URLs, enabled \in BOOLEAN :
              [url |-> url, enabled |-> enabled, test |-> pools[p].test] \in Pool
         /\ \A test \in {"active", "error"} :
              [url |-> pools[p].url, enabled |-> pools[p].enabled, test |-> test] \in Pool
BY RowTypes DEF Pool

(* Replacing one pool row by another keeps the table's type. *)
LEMMA PoolWrite ==
  ASSUME TypeOK, NEW p \in PoolIDs, NEW row \in Pool \cup {NoRow},
         pools' = [pools EXCEPT ![p] = row]
  PROVE  pools' \in [PoolIDs -> Pool \cup {NoRow}]
BY DEF TypeOK

-----------------------------------------------------------------------------
(* Typing and the handlers' bookkeeping come first: every action keeps     *)
(* them, whatever the rest of the invariant says.                          *)
LEMMA TypeStep == ASSUME TypeOK, HandlersOK, Next
                  PROVE  TypeOK' /\ HandlersOK'
<1> USE RegistryAssumption
<1>1. CASE ProviderStep
  <2>1. ASSUME NEW i \in ProviderIDs, NEW name \in ProviderNames, NEW enabled \in BOOLEAN,
               NEW models \in Selections, NEW pin \in Pins,
               CreateProvider(i, name, enabled, models, pin)
        PROVE  TypeOK' /\ HandlersOK'
    BY <2>1 DEF CreateProvider, TypeOK, HandlersOK, Provider, Pins
  <2>2. ASSUME NEW h \in Handlers, NEW i \in ProviderIDs, NEW omitModels \in BOOLEAN,
               ReadProvider(h, i, omitModels)
        PROVE  TypeOK' /\ HandlersOK'
    BY <2>2 DEF ReadProvider, TypeOK, HandlersOK, Provider, Handler
  <2>3. ASSUME NEW h \in Handlers, NEW pin \in Pins, ResolveProxy(h, pin)
        PROVE  TypeOK' /\ HandlersOK'
    BY <2>3 DEF ResolveProxy, TypeOK, HandlersOK, Handler, Idle, Pins
  <2>4. ASSUME NEW h \in Handlers, NEW name \in ProviderNames, NEW enabled \in BOOLEAN,
               NEW models \in Selections \cup {NoRow},
               UpdateProvider(h, name, enabled, models)
        PROVE  TypeOK' /\ HandlersOK'
    <3>1. handler[h].prov \in ProviderIDs
      BY <2>4 DEF UpdateProvider, HandlersOK
    <3>2. models \in Selections
      BY <2>4 DEF UpdateProvider, NewModels, TypeOK, Handler
    <3>3. providers' \in [ProviderIDs -> Provider \cup {NoRow}]
      BY <2>4, <3>1, <3>2 DEF UpdateProvider, TypeOK, Provider, Handler
    <3>4. combos' \in [ComboIDs -> Combo \cup {NoRow}]
      <4>1. ASSUME NEW c \in ComboIDs, combos[c] # NoRow
            PROVE  combos'[c] \in Combo
        <5>1. combos[c] \in Combo  BY <4>1 DEF TypeOK
        <5>2. Renamed(combos[c].tiers, providers[handler[h].prov].name, name)
                \in SUBSET TierProvider
          BY <5>1 DEF Renamed, Combo, TierProvider
        <5> QED  BY <2>4, <4>1, <5>1, <5>2 DEF UpdateProvider, Combo
      <4> QED  BY <2>4, <4>1 DEF UpdateProvider
    <3>5. handler' \in [Handlers -> Handler] /\ HandlersOK'
      BY <2>4 DEF UpdateProvider, TypeOK, HandlersOK, Handler, Idle
    <3> QED  BY <2>4, <3>3, <3>4, <3>5 DEF UpdateProvider, TypeOK
  <2>5. ASSUME NEW h \in Handlers, UpdateProviderFails(h)
        PROVE  TypeOK' /\ HandlersOK'
    BY <2>5 DEF UpdateProviderFails, TypeOK, HandlersOK, Handler, Idle
  <2>6. ASSUME NEW i \in ProviderIDs, DeleteProvider(i)
        PROVE  TypeOK' /\ HandlersOK'
    BY <2>6 DEF DeleteProvider, Stripped, TypeOK, HandlersOK, Combo
  <2> QED  BY <1>1, <2>1, <2>2, <2>3, <2>4, <2>5, <2>6 DEF ProviderStep
<1>2. CASE ComboStep
  BY <1>2 DEF ComboStep, SaveCombo, UpdateCombo, DeleteCombo, TypeOK, HandlersOK, Combo
<1>3. CASE PoolStep
  <2>1. ASSUME NEW p \in PoolIDs, NEW url \in URLs, NEW enabled \in BOOLEAN,
               CreatePool(p, url, enabled) \/ UpdatePool(p, url, enabled)
        PROVE  TypeOK' /\ HandlersOK'
    <3>1. CASE CreatePool(p, url, enabled)
      BY <3>1 DEF CreatePool, TypeOK, HandlersOK, Pool
    <3>2. CASE UpdatePool(p, url, enabled)
      <4>1. pools' \in [PoolIDs -> Pool \cup {NoRow}]
        BY <3>2, PoolRow, PoolWrite DEF UpdatePool, WritePool
      <4> QED  BY <3>2, <4>1 DEF UpdatePool, TypeOK, HandlersOK
    <3> QED  BY <2>1, <3>1, <3>2
  <2>2. ASSUME NEW p \in PoolIDs, DeletePool(p)
        PROVE  TypeOK' /\ HandlersOK'
    BY <2>2 DEF DeletePool, Unpinned, TypeOK, HandlersOK, Provider
  <2>3. ASSUME NEW b \in Builtins, NEW pin \in Pins, SetBuiltinProxy(b, pin)
        PROVE  TypeOK' /\ HandlersOK'
    BY <2>3 DEF SetBuiltinProxy, TypeOK, HandlersOK, Pins
  <2>4. ASSUME NEW h \in Handlers, NEW p \in PoolIDs, ReadPool(h, p)
        PROVE  TypeOK' /\ HandlersOK'
    BY <2>4 DEF ReadPool, TypeOK, HandlersOK, Pool, Handler
  <2>5. ASSUME NEW h \in Handlers, ProbeSucceeds(h) \/ MarkPoolTest(h)
        PROVE  TypeOK' /\ HandlersOK'
    <3>1. handler[h].pool \in PoolIDs
      BY <2>5 DEF ProbeSucceeds, MarkPoolTest, HandlersOK
    <3>2. pools' \in [PoolIDs -> Pool \cup {NoRow}]
      <4>1. CASE pools[handler[h].pool] = NoRow
        BY <2>5, <4>1 DEF ProbeSucceeds, MarkPoolTest, TypeOK
      <4>2. CASE pools[handler[h].pool] # NoRow
        BY <2>5, <3>1, <4>2, PoolRow, PoolWrite DEF ProbeSucceeds, MarkPoolTest
      <4> QED  BY <4>1, <4>2
    <3>3. handler' \in [Handlers -> Handler] /\ HandlersOK'
      BY <2>5 DEF ProbeSucceeds, MarkPoolTest, TypeOK, HandlersOK, Handler, Idle
    <3> QED  BY <2>5, <3>2, <3>3 DEF ProbeSucceeds, MarkPoolTest, TypeOK
  <2>6. ASSUME NEW h \in Handlers, ProbeFails(h) \/ DisablePoolFails(h)
        PROVE  TypeOK' /\ HandlersOK'
    BY <2>6 DEF ProbeFails, DisablePoolFails, At, TypeOK, HandlersOK, Handler
  <2>7. ASSUME NEW h \in Handlers, DisablePool(h)
        PROVE  TypeOK' /\ HandlersOK'
    <3>1. handler[h].pool \in PoolIDs /\ handler[h].url \in URLs
      BY <2>7 DEF DisablePool, HandlersOK
    <3>2. pools' \in [PoolIDs -> Pool \cup {NoRow}]
      <4>1. CASE pools[handler[h].pool] = NoRow
        BY <2>7, <4>1 DEF DisablePool, TypeOK
      <4>2. CASE pools[handler[h].pool] # NoRow
        BY <2>7, <3>1, <4>2, PoolRow, PoolWrite DEF DisablePool, WritePool
      <4> QED  BY <4>1, <4>2
    <3>3. handler' \in [Handlers -> Handler] /\ HandlersOK'
      BY <2>7, <3>1 DEF DisablePool, At, TypeOK, HandlersOK, Handler
    <3> QED  BY <2>7, <3>2, <3>3 DEF DisablePool, TypeOK
  <2> QED  BY <1>3, <2>1, <2>2, <2>3, <2>4, <2>5, <2>6, <2>7 DEF PoolStep
<1> QED  BY <1>1, <1>2, <1>3 DEF Next

(* Steps that touch neither providers, combos nor pins, and delete no      *)
(* pool, keep the integrity of the tables.                                 *)
LEMMA QuietStep ==
  ASSUME Inv, UNCHANGED <<providers, combos, builtins>>,
         \A p \in PoolIDs : pools[p] # NoRow => pools'[p] # NoRow
  PROVE  PinsResolve' /\ NamesUnique' /\ TiersResolve' /\ CombosHaveTiers'
<1>1. PinsResolve'
  BY RowTypes DEF Inv, TypeOK, PinsResolve, Provider
<1> QED  BY <1>1 DEF Inv, NamesUnique, TiersResolve, CombosHaveTiers

(* Given-out keys stay given out, and only CreateProvider and CreatePool   *)
(* bring a row into being.                                                 *)
LEMMA KeysStep == ASSUME Inv, Next PROVE KeysIssued'
<1> USE RegistryAssumption DEF Inv, KeysIssued, TypeOK
<1>1. CASE ProviderStep
  <2>1. ASSUME NEW h \in Handlers, NEW name \in ProviderNames, NEW enabled \in BOOLEAN,
               NEW models \in Selections \cup {NoRow},
               UpdateProvider(h, name, enabled, models)
        PROVE  KeysIssued'
    BY <2>1 DEF UpdateProvider
  <2> QED
    BY <1>1, <2>1 DEF ProviderStep, CreateProvider, ReadProvider, ResolveProxy,
                      UpdateProviderFails, DeleteProvider
<1>2. CASE ComboStep
  BY <1>2 DEF ComboStep, SaveCombo, UpdateCombo, DeleteCombo
<1>3. CASE PoolStep
  <2>1. ASSUME NEW p \in PoolIDs, NEW url \in URLs, NEW enabled \in BOOLEAN,
               CreatePool(p, url, enabled) \/ UpdatePool(p, url, enabled)
        PROVE  KeysIssued'
    BY <2>1 DEF CreatePool, UpdatePool, WritePool
  <2>2. ASSUME NEW p \in PoolIDs, DeletePool(p)  PROVE KeysIssued'
    BY <2>2 DEF DeletePool
  <2>3. ASSUME NEW h \in Handlers,
               ProbeSucceeds(h) \/ ProbeFails(h) \/ DisablePool(h) \/ DisablePoolFails(h)
                 \/ MarkPoolTest(h)
        PROVE  KeysIssued'
    BY <2>3 DEF ProbeSucceeds, ProbeFails, DisablePool, DisablePoolFails, MarkPoolTest, WritePool
  <2>4. ASSUME NEW b \in Builtins, NEW pin \in Pins, SetBuiltinProxy(b, pin)  PROVE KeysIssued'
    BY <2>4 DEF SetBuiltinProxy
  <2>5. ASSUME NEW h \in Handlers, NEW p \in PoolIDs, ReadPool(h, p)  PROVE KeysIssued'
    BY <2>5 DEF ReadPool
  <2> QED  BY <1>3, <2>1, <2>2, <2>3, <2>4, <2>5 DEF PoolStep
<1> QED  BY <1>1, <1>2, <1>3 DEF Next

LEMMA ProviderIntegrity ==
  ASSUME Inv, ProviderStep
  PROVE  PinsResolve' /\ NamesUnique' /\ TiersResolve' /\ CombosHaveTiers'
<1> USE RegistryAssumption DEF Inv
<1> DEFINE Goal == PinsResolve' /\ NamesUnique' /\ TiersResolve' /\ CombosHaveTiers'
<1>1. ASSUME NEW i \in ProviderIDs, NEW name \in ProviderNames, NEW enabled \in BOOLEAN,
             NEW models \in Selections, NEW pin \in Pins,
             CreateProvider(i, name, enabled, models, pin)
      PROVE  Goal
  <2> DEFINE row == [name |-> name, enabled |-> enabled, models |-> models, pin |-> pin]
  <2>1. /\ providers[i] = NoRow
        /\ row \in Provider
        /\ providers'[i] = row
        /\ \A j \in ProviderIDs : j # i => providers'[j] = providers[j]
        /\ UNCHANGED <<combos, pools, builtins>>
    BY <1>1 DEF CreateProvider, KeysIssued, TypeOK, Provider, Pins
  <2>2. PinsResolve'
    BY <1>1, <2>1 DEF CreateProvider, EnsureProxyPool, PinsResolve
  <2>3. NamesUnique'
    BY <1>1, <2>1 DEF CreateProvider, NameFree, NamesUnique
  <2>4. TiersResolve'
    BY <2>1 DEF TiersResolve
  <2>5. CombosHaveTiers'
    BY <2>1 DEF CombosHaveTiers
  <2> QED  BY <2>2, <2>3, <2>4, <2>5
<1>2. ASSUME NEW h \in Handlers, NEW i \in ProviderIDs, NEW omitModels \in BOOLEAN,
             ReadProvider(h, i, omitModels)
      PROVE  Goal
  BY <1>2, QuietStep DEF ReadProvider
<1>3. ASSUME NEW h \in Handlers, NEW pin \in Pins, ResolveProxy(h, pin)
      PROVE  Goal
  BY <1>3, QuietStep DEF ResolveProxy
<1>4. ASSUME NEW h \in Handlers, NEW name \in ProviderNames, NEW enabled \in BOOLEAN,
             NEW models \in Selections \cup {NoRow},
             UpdateProvider(h, name, enabled, models)
      PROVE  Goal
  <2> DEFINE i == handler[h].prov
             old == providers[i].name
             row == [name |-> name, enabled |-> enabled, models |-> models,
                     pin |-> handler[h].pin]
  <2>1. i \in ProviderIDs /\ models \in Selections /\ providers[i] \in Provider
    BY <1>4, RowTypes DEF UpdateProvider, HandlersOK, NewModels, TypeOK, Handler
  <2>2. /\ row \in Provider
        /\ providers'[i] = row
        /\ \A j \in ProviderIDs : j # i => providers'[j] = providers[j]
        /\ UNCHANGED <<pools, builtins>>
    BY <1>4, <2>1 DEF UpdateProvider, TypeOK, Provider, Handler
  <2>3. PinsResolve'
    BY <1>4, <2>1, <2>2 DEF UpdateProvider, EnsureProxyPool, PinsResolve
  <2>4. NamesUnique'
    BY <1>4, <2>1, <2>2 DEF UpdateProvider, NameFree, NamesUnique
  <2>5. ASSUME NEW c \in ComboIDs, combos'[c] # NoRow
        PROVE  /\ combos[c] # NoRow
               /\ combos'[c].tiers = Renamed(combos[c].tiers, old, name)
    BY <1>4, <2>5 DEF UpdateProvider
  <2>6. TiersResolve'
    <3> SUFFICES ASSUME NEW c \in ComboIDs, combos'[c] # NoRow,
                        NEW t \in combos'[c].tiers \cap ProviderNames
                 PROVE  \E j \in ProviderIDs : providers'[j] # NoRow /\ providers'[j].name = t
      BY DEF TiersResolve
    <3>1. CASE t = name
      BY <2>1, <2>2, <3>1
    <3>2. CASE t # name
      <4>1. t \in combos[c].tiers /\ t # old
        <5>1. t \in Renamed(combos[c].tiers, old, name)
          BY <2>5
        <5>2. CASE old \in combos[c].tiers
          BY <3>2, <5>1, <5>2 DEF Renamed
        <5>3. CASE old \notin combos[c].tiers
          BY <5>1, <5>3 DEF Renamed
        <5> QED  BY <5>2, <5>3
      <4>2. PICK j \in ProviderIDs : providers[j] # NoRow /\ providers[j].name = t
        BY <2>5, <4>1 DEF TiersResolve
      <4> QED  BY <2>2, <4>1, <4>2
    <3> QED  BY <3>1, <3>2
  <2>7. CombosHaveTiers'
    BY <2>5 DEF CombosHaveTiers, Renamed
  <2> QED  BY <2>3, <2>4, <2>6, <2>7
<1>5. ASSUME NEW h \in Handlers, UpdateProviderFails(h)
      PROVE  Goal
  BY <1>5, QuietStep DEF UpdateProviderFails
<1>6. ASSUME NEW i \in ProviderIDs, DeleteProvider(i)
      PROVE  Goal
  <2>1. /\ providers'[i] = NoRow
        /\ \A j \in ProviderIDs : j # i => providers'[j] = providers[j]
        /\ UNCHANGED <<pools, builtins>>
    BY <1>6 DEF DeleteProvider, TypeOK
  <2>2. PinsResolve' /\ NamesUnique'
    BY <2>1 DEF PinsResolve, NamesUnique
  <2>3. ASSUME NEW c \in ComboIDs, combos'[c] # NoRow
        PROVE  /\ combos[c] # NoRow
               /\ combos'[c].tiers = combos[c].tiers \ {providers[i].name}
               /\ combos'[c].tiers # {}
    BY <1>6, <2>3 DEF DeleteProvider, Stripped
  <2>4. TiersResolve'
    <3> SUFFICES ASSUME NEW c \in ComboIDs, combos'[c] # NoRow,
                        NEW t \in combos'[c].tiers \cap ProviderNames
                 PROVE  \E j \in ProviderIDs : providers'[j] # NoRow /\ providers'[j].name = t
      BY DEF TiersResolve
    <3>1. PICK j \in ProviderIDs : providers[j] # NoRow /\ providers[j].name = t
      BY <2>3 DEF TiersResolve
    <3> QED  BY <2>1, <2>3, <3>1
  <2> QED  BY <2>2, <2>3, <2>4 DEF CombosHaveTiers
<1> QED  BY <1>1, <1>2, <1>3, <1>4, <1>5, <1>6 DEF ProviderStep

LEMMA ComboIntegrity ==
  ASSUME Inv, ComboStep
  PROVE  PinsResolve' /\ NamesUnique' /\ TiersResolve' /\ CombosHaveTiers'
<1> USE RegistryAssumption DEF Inv
<1>1. ASSUME NEW c \in ComboIDs, NEW name \in ComboNames, NEW tiers \in SUBSET TierProvider,
             SaveCombo(c, name, tiers) \/ UpdateCombo(c, name, tiers)
      PROVE  PinsResolve' /\ NamesUnique' /\ TiersResolve' /\ CombosHaveTiers'
  <2>1. /\ combos'[c] = [name |-> name, tiers |-> tiers]
        /\ \A d \in ComboIDs : d # c => combos'[d] = combos[d]
        /\ UNCHANGED <<providers, pools, builtins>>
        /\ ValidTiers(tiers) /\ CheckTiersExist(tiers)
    BY <1>1 DEF SaveCombo, UpdateCombo, TypeOK
  <2>2. PinsResolve' /\ NamesUnique'
    BY <2>1 DEF PinsResolve, NamesUnique
  <2>3. TiersResolve'
    BY <2>1 DEF TiersResolve, CheckTiersExist
  <2>4. CombosHaveTiers'
    BY <2>1 DEF CombosHaveTiers, ValidTiers
  <2> QED  BY <2>2, <2>3, <2>4
<1>2. ASSUME NEW c \in ComboIDs, DeleteCombo(c)
      PROVE  PinsResolve' /\ NamesUnique' /\ TiersResolve' /\ CombosHaveTiers'
  BY <1>2 DEF DeleteCombo, TypeOK, PinsResolve, NamesUnique, TiersResolve, CombosHaveTiers
<1> QED  BY <1>1, <1>2 DEF ComboStep

LEMMA PoolIntegrity ==
  ASSUME Inv, PoolStep, TypeOK'
  PROVE  PinsResolve' /\ NamesUnique' /\ TiersResolve' /\ CombosHaveTiers'
<1> USE RegistryAssumption DEF Inv
<1> DEFINE Goal == PinsResolve' /\ NamesUnique' /\ TiersResolve' /\ CombosHaveTiers'
<1>1. ASSUME NEW p \in PoolIDs, NEW url \in URLs, NEW enabled \in BOOLEAN,
             CreatePool(p, url, enabled) \/ UpdatePool(p, url, enabled)
      PROVE  Goal
  <2>1. \A q \in PoolIDs : pools[q] # NoRow => pools'[q] # NoRow
    <3>1. CASE CreatePool(p, url, enabled)
      <4>1. [url |-> url, enabled |-> enabled, test |-> ""] \in Pool
        BY DEF Pool
      <4>2. [url |-> url, enabled |-> enabled, test |-> ""] # NoRow
        BY <4>1
      <4> QED  BY <3>1, <4>2 DEF CreatePool, TypeOK
    <3>2. CASE UpdatePool(p, url, enabled)
      <4>1. pools[p] # NoRow
        BY <3>2 DEF UpdatePool
      <4>2. [url |-> url, enabled |-> enabled, test |-> pools[p].test] # NoRow
        BY <4>1, PoolRow
      <4> QED  BY <3>2, <4>2 DEF UpdatePool, WritePool, TypeOK
    <3> QED  BY <1>1, <3>1, <3>2
  <2> QED  BY <1>1, <2>1, QuietStep DEF CreatePool, UpdatePool
<1>2. ASSUME NEW p \in PoolIDs, DeletePool(p)
      PROVE  Goal
  <2>1. /\ \A q \in PoolIDs : q # p => pools'[q] = pools[q]
        /\ UNCHANGED combos
    BY <1>2 DEF DeletePool, TypeOK
  <2>2. ASSUME NEW i \in ProviderIDs, providers[i] # NoRow
        PROVE  /\ providers'[i] # NoRow
               /\ providers'[i].name = providers[i].name
               /\ providers'[i].pin = IF providers[i].pin = p THEN NoPool ELSE providers[i].pin
               /\ providers[i].pin \in PoolIDs \cup {NoPool}
    <3>1. providers[i] \in Provider
      BY <2>2, RowTypes
    <3>2. providers'[i] = [name |-> providers[i].name, enabled |-> providers[i].enabled,
                           models |-> providers[i].models,
                           pin |-> Unpinned(providers[i].pin, p, FALSE)]
      BY <1>2, <2>2 DEF DeletePool
    <3>3. providers'[i] \in Provider
      BY <3>1, <3>2 DEF Provider, Unpinned
    <3> QED  BY <3>1, <3>2, <3>3 DEF Provider, Unpinned
  <2>3. \A i \in ProviderIDs : providers'[i] # NoRow => providers[i] # NoRow
    BY <1>2 DEF DeletePool
  <2>4. \A b \in Builtins : builtins'[b] = IF builtins[b] = p THEN NoPool ELSE builtins[b]
    BY <1>2 DEF DeletePool, Unpinned
  <2>5. PinsResolve'
    BY <2>1, <2>2, <2>3, <2>4 DEF PinsResolve, TypeOK
  <2>6. NamesUnique'
    BY <2>2, <2>3 DEF NamesUnique
  <2>7. TiersResolve' /\ CombosHaveTiers'
    <3>1. \A t : (\E i \in ProviderIDs : providers[i] # NoRow /\ providers[i].name = t)
            => \E i \in ProviderIDs : providers'[i] # NoRow /\ providers'[i].name = t
      BY <2>2
    <3> QED  BY <2>1, <3>1 DEF TiersResolve, CombosHaveTiers
  <2> QED  BY <2>5, <2>6, <2>7
<1>3. ASSUME NEW b \in Builtins, NEW pin \in Pins, SetBuiltinProxy(b, pin)
      PROVE  Goal
  BY <1>3 DEF SetBuiltinProxy, EnsureProxyPool, TypeOK, PinsResolve, NamesUnique,
              TiersResolve, CombosHaveTiers
<1>4. ASSUME NEW h \in Handlers, NEW p \in PoolIDs, ReadPool(h, p)
      PROVE  Goal
  BY <1>4, QuietStep DEF ReadPool
<1>5. ASSUME NEW h \in Handlers, ProbeSucceeds(h) \/ MarkPoolTest(h)
      PROVE  Goal
  <2>1. handler[h].pool \in PoolIDs
    BY <1>5 DEF ProbeSucceeds, MarkPoolTest, HandlersOK
  <2>2. \A q \in PoolIDs : pools[q] # NoRow => pools'[q] # NoRow
    <3>1. CASE pools[handler[h].pool] = NoRow
      BY <1>5, <3>1 DEF ProbeSucceeds, MarkPoolTest
    <3>2. CASE pools[handler[h].pool] # NoRow
      BY <1>5, <2>1, <3>2, PoolRow DEF ProbeSucceeds, MarkPoolTest, TypeOK
    <3> QED  BY <3>1, <3>2
  <2> QED  BY <1>5, <2>2, QuietStep DEF ProbeSucceeds, MarkPoolTest
<1>6. ASSUME NEW h \in Handlers, ProbeFails(h) \/ DisablePoolFails(h)
      PROVE  Goal
  BY <1>6, QuietStep DEF ProbeFails, DisablePoolFails
<1>7. ASSUME NEW h \in Handlers, DisablePool(h)
      PROVE  Goal
  <2>1. handler[h].pool \in PoolIDs /\ handler[h].url \in URLs
    BY <1>7 DEF DisablePool, HandlersOK
  <2>2. \A q \in PoolIDs : pools[q] # NoRow => pools'[q] # NoRow
    <3>1. CASE pools[handler[h].pool] = NoRow
      BY <1>7, <3>1 DEF DisablePool
    <3>2. CASE pools[handler[h].pool] # NoRow
      <4>1. [url |-> handler[h].url, enabled |-> FALSE,
             test |-> pools[handler[h].pool].test] # NoRow
        BY <2>1, <3>2, PoolRow
      <4> QED  BY <1>7, <2>1, <3>2, <4>1 DEF DisablePool, WritePool, TypeOK
    <3> QED  BY <3>1, <3>2
  <2> QED  BY <1>7, <2>2, QuietStep DEF DisablePool
<1> QED  BY <1>1, <1>2, <1>3, <1>4, <1>5, <1>6, <1>7 DEF PoolStep

-----------------------------------------------------------------------------
(* The empty tables satisfy the invariant. *)
LEMMA InitInv == Init => Inv
BY RegistryAssumption DEF Init, Inv, TypeOK, HandlersOK, KeysIssued, PinsResolve,
   NamesUnique, TiersResolve, CombosHaveTiers, Handler, Idle

(* Every transaction and every handler step keeps the invariant. *)
LEMMA NextInv == Inv /\ [Next]_vars => Inv'
<1> SUFFICES ASSUME Inv, [Next]_vars PROVE Inv'
  OBVIOUS
<1>1. CASE Next
  <2>1. TypeOK' /\ HandlersOK' /\ KeysIssued'
    BY <1>1, TypeStep, KeysStep DEF Inv
  <2>2. PinsResolve' /\ NamesUnique' /\ TiersResolve' /\ CombosHaveTiers'
    BY <1>1, <2>1, ProviderIntegrity, ComboIntegrity, PoolIntegrity DEF Next
  <2> QED  BY <2>1, <2>2 DEF Inv
<1>2. CASE UNCHANGED vars
  BY <1>2 DEF vars, Inv, TypeOK, HandlersOK, KeysIssued, PinsResolve, NamesUnique,
              TiersResolve, CombosHaveTiers
<1> QED  BY <1>1, <1>2

(* The inductive invariant holds in every reachable state of the tables. *)
THEOREM InvHolds == Spec => []Inv
<1>1. Init => Inv  BY InitInv
<1>2. Inv /\ [Next]_vars => Inv'  BY NextInv
<1> QED  BY <1>1, <1>2, PTL DEF Spec

(* The tables stay well typed. *)
THEOREM TypeCorrect == Spec => []TypeOK
<1>1. Inv => TypeOK  BY DEF Inv
<1> QED  BY <1>1, InvHolds, PTL

(* No stored pin of a provider or a built-in names a missing pool          *)
(* (DeletePool, UpdateProvider, SetBuiltinProxy), for any number of        *)
(* handlers between reading a row and writing it.                          *)
THEOREM PinsNeverDangle == Spec => []PinsResolve
<1>1. Inv => PinsResolve  BY DEF Inv
<1> QED  BY <1>1, InvHolds, PTL

(* No stored combo names a missing provider, and none is without tiers     *)
(* (DeleteProvider, UpdateProvider, SaveCombo, UpdateCombo).               *)
THEOREM TiersNeverDangle == Spec => []TiersIntact
<1>1. Inv => TiersIntact  BY DEF Inv, TiersIntact
<1> QED  BY <1>1, InvHolds, PTL
=============================================================================
