--------------------------- MODULE LiveConfigProofs ---------------------------
(***************************************************************************)
(* One administrator at a time: whatever is stored, and wherever rebuilds  *)
(* fail in between, the next rebuild that succeeds makes the running       *)
(* gateway match the database, for any set of pools and any number of      *)
(* changes.  With two administrators at once the run live_two_admins       *)
(* shows a counterexample, so Serial cannot be dropped.                    *)
(***************************************************************************)
EXTENDS LiveConfig, TLAPS

(* Admin requests do not overlap: a single client waits for each answer. *)
Serial == \E a : Admins = {a}

Stage == {"idle", "failed", "providers", "pins", "publish", "pools", "share", "builtins",
          "builtinPool", "builtinSet", "combos", "customs", "tiers"}

Store == [pools : [PoolIDs -> {"absent", "disabled", "enabled"}],
          custom : Setting \cup {"absent"}, builtin : Setting, combo : BOOLEAN]

Admin == [pc : Stage, gen : Nat, setting : Setting \cup {"absent"}, relay : Setting,
          pools : SUBSET PoolIDs, combo : BOOLEAN]

LiveTypeOK ==
    /\ store \in Store
    /\ gen \in Nat
    /\ adm \in [Admins -> Admin]
    /\ missed \in BOOLEAN

(* DeletePool resets the pins on the pool: a pinned pool has a row. *)
PinsExist ==
    /\ store.custom \in PoolIDs => store.pools[store.custom] # "absent"
    /\ store.builtin \in PoolIDs => store.pools[store.builtin] # "absent"

(* What each of the live structures should be. *)
CustomsOK ==
    /\ customs.gen # 0 <=> store.custom # "absent"
    /\ customs.gen # 0 => customs.relay = Wanted(store.custom)

SharedOK == shared = EnabledPools

BuiltinOK == builtin = Wanted(store.builtin) \/ missed

RouterOK == router = customs

ComboOK == combo = IF store.combo THEN customs ELSE NoCombo

(* How far a rebuild has come: the structures it has passed are right, and *)
(* what it read and has yet to store is still what the database says.      *)
Progress(q) ==
    /\ q.pc \notin {"idle", "failed"} => q.gen # 0
    /\ q.pc \in {"pins", "publish"} => q.setting = store.custom
    /\ q.pc = "publish" /\ q.setting # "absent" => q.relay = Wanted(store.custom)
    /\ q.pc \notin {"failed", "providers", "pins", "publish"} => CustomsOK
    /\ q.pc = "share" => q.pools = EnabledPools
    /\ q.pc \in {"builtins", "builtinPool", "builtinSet", "combos", "customs", "tiers", "idle"}
         => SharedOK
    /\ q.pc = "builtinPool" => q.setting = store.builtin
    /\ q.pc = "builtinSet" => q.relay = Wanted(store.builtin) \/ missed
    /\ q.pc \in {"combos", "customs", "tiers", "idle"} => BuiltinOK
    /\ q.pc \in {"customs", "tiers"} => q.combo = store.combo
    /\ q.pc \in {"tiers", "idle"} => RouterOK
    /\ q.pc = "idle" => ComboOK

LiveInv == LiveTypeOK /\ PinsExist /\ \A a \in Admins : Progress(adm[a])

-----------------------------------------------------------------------------
(* A pinned pool that has a row resolves to what is wanted. *)
LEMMA Resolves ==
  ASSUME LiveTypeOK, NEW setting \in Setting,
         setting \in PoolIDs => store.pools[setting] # "absent"
  PROVE  ResolveRelayPools(setting) = Wanted(setting) /\ Wanted(setting) \in Setting
<1>1. store.pools \in [PoolIDs -> {"absent", "disabled", "enabled"}]
  BY DEF LiveTypeOK, Store
<1> QED  BY <1>1 DEF ResolveRelayPools, Wanted, Setting

(* A change keeps every pin on a pool that has a row. *)
LEMMA ChangeStores ==
  ASSUME LiveTypeOK, PinsExist,
         WritePool \/ DeletePool \/ WriteProvider \/ RemoveProvider \/ WriteBuiltin \/ WriteCombo
  PROVE  store' \in Store /\ PinsExist'
<1>s. /\ store \in Store
      /\ store.pools \in [PoolIDs -> {"absent", "disabled", "enabled"}]
      /\ store.custom \in Setting \cup {"absent"}
      /\ store.builtin \in Setting
  BY DEF LiveTypeOK, Store
<1>a. "absent" \notin PoolIDs /\ "global" \notin PoolIDs  BY LiveAssumption
<1>1. CASE WritePool
  <2>1. PICK p \in PoolIDs, row \in {"disabled", "enabled"} :
          store' = [store EXCEPT !.pools[p] = row]
    BY <1>1 DEF WritePool
  <2>2. store' \in Store  BY <1>s, <2>1 DEF Store
  <2>3. /\ store'.custom = store.custom /\ store'.builtin = store.builtin
        /\ store'.pools = [store.pools EXCEPT ![p] = row]
    BY <1>s, <2>1 DEF Store
  <2> QED  BY <1>s, <2>2, <2>3 DEF PinsExist
<1>2. CASE DeletePool
  <2>1. PICK p \in PoolIDs :
          store' = [store EXCEPT !.pools[p] = "absent", !.custom = Unpin(@, p), !.builtin = Unpin(@, p)]
    BY <1>2 DEF DeletePool
  <2>2. Unpin(store.custom, p) \in Setting \cup {"absent"} /\ Unpin(store.builtin, p) \in Setting
    BY <1>s DEF Unpin, Setting
  <2>3. store' \in Store  BY <1>s, <2>1, <2>2 DEF Store
  <2>4. /\ store'.custom = Unpin(store.custom, p) /\ store'.builtin = Unpin(store.builtin, p)
        /\ store'.pools = [store.pools EXCEPT ![p] = "absent"]
    BY <1>s, <2>1 DEF Store
  <2> QED  BY <1>s, <1>a, <2>3, <2>4 DEF PinsExist, Unpin
<1>3. CASE WriteProvider
  <2>1. PICK setting \in Pinnable : store' = [store EXCEPT !.custom = setting]
    BY <1>3 DEF WriteProvider
  <2> QED  BY <1>s, <2>1 DEF PinsExist, Pinnable, Store
<1>4. CASE RemoveProvider  BY <1>s, <1>a, <1>4 DEF RemoveProvider, PinsExist, Store
<1>5. CASE WriteBuiltin
  <2>1. PICK setting \in Pinnable : store' = [store EXCEPT !.builtin = setting]
    BY <1>5 DEF WriteBuiltin
  <2> QED  BY <1>s, <2>1 DEF PinsExist, Pinnable, Store
<1>6. CASE WriteCombo
  <2>1. PICK exists \in BOOLEAN : store' = [store EXCEPT !.combo = exists]
    BY <1>6 DEF WriteCombo
  <2> QED  BY <1>s, <2>1 DEF PinsExist, Store
<1> QED  BY <1>1, <1>2, <1>3, <1>4, <1>5, <1>6

(* The one administrator's record is all there is to look at. *)
LEMMA OneAdmin ==
  ASSUME Serial, NEW a \in Admins, LiveTypeOK, NEW q \in Admin,
         adm' = [adm EXCEPT ![a] = q],
         store' \in Store, PinsExist', gen' \in Nat, missed' \in BOOLEAN, Progress(adm[a])'
  PROVE  LiveInv'
<1>1. adm' \in [Admins -> Admin]  BY DEF LiveTypeOK
<1>2. \A b \in Admins : b = a  BY DEF Serial
<1>3. \A b \in Admins : Progress(adm[b])'  BY <1>2
<1> QED  BY <1>1, <1>3 DEF LiveInv, LiveTypeOK

(* A change begins a rebuild. *)
LEMMA ChangeInv ==
  ASSUME Serial, LiveInv, NEW a \in Admins, Change(a)  PROVE LiveInv'
<1>t. LiveTypeOK /\ PinsExist  BY DEF LiveInv
<1> DEFINE q == [IdleAdmin EXCEPT !.pc = "providers", !.gen = gen + 1]
<1>1. store' \in Store /\ PinsExist'  BY <1>t, ChangeStores DEF Change
<1>g. gen \in Nat /\ gen' = gen + 1 /\ missed' \in BOOLEAN  BY <1>t DEF Change, LiveTypeOK
<1>2. gen' \in Nat /\ gen + 1 \in Nat /\ gen + 1 # 0  BY <1>g
<1>3. adm' = [adm EXCEPT ![a] = q]  BY DEF Change
<1>4. q \in Admin /\ q.pc = "providers" /\ q.gen # 0
  BY <1>2 DEF IdleAdmin, Admin, Stage, Setting
<1> HIDE DEF q
<1>5. adm'[a] = q  BY <1>3, <1>t DEF LiveTypeOK
<1>6. Progress(adm[a])'  BY <1>4, <1>5 DEF Progress
<1> QED  BY <1>t, <1>g, <1>1, <1>2, <1>3, <1>4, <1>6, OneAdmin

(* A rebuild reads. *)
LEMMA ReadInv ==
  ASSUME Serial, LiveInv, NEW a \in Admins,
         ReadProviders(a) \/ ReadPins(a) \/ ListPools(a) \/ ListBuiltins(a)
           \/ GetBuiltinPool(a) \/ GetBuiltinPoolFails(a) \/ ListCombos(a) \/ ReadFails(a)
  PROVE  LiveInv'
<1>t. LiveTypeOK /\ PinsExist /\ Progress(adm[a]) /\ adm[a] \in Admin
  BY DEF LiveInv, LiveTypeOK
<1>s. /\ store \in Store /\ store.custom \in Setting \cup {"absent"}
      /\ store.builtin \in Setting /\ store.combo \in BOOLEAN
  BY <1>t DEF LiveTypeOK, Store
<1>u. /\ UNCHANGED <<store, gen, customs, shared, builtin, router, combo>>
      /\ missed' \in BOOLEAN /\ store' \in Store /\ gen' \in Nat /\ PinsExist'
  BY <1>t DEF LiveTypeOK, PinsExist, Live, ReadProviders, ReadPins, ListPools, ListBuiltins,
              GetBuiltinPool, GetBuiltinPoolFails, ListCombos, ReadFails
<1>f. /\ adm[a].pc \in Stage /\ adm[a].gen \in Nat /\ adm[a].setting \in Setting \cup {"absent"}
      /\ adm[a].relay \in Setting /\ adm[a].pools \in SUBSET PoolIDs /\ adm[a].combo \in BOOLEAN
  BY <1>t DEF Admin
<1> SUFFICES ASSUME TRUE
             PROVE  \E q \in Admin : adm' = [adm EXCEPT ![a] = q] /\ Progress(adm[a])'
  BY <1>t, <1>u, OneAdmin
<1>1. CASE ReadProviders(a)
  <2> DEFINE q == [adm[a] EXCEPT !.pc = "pins", !.setting = store.custom]
  <2>1. adm' = [adm EXCEPT ![a] = q] /\ adm[a].pc = "providers" /\ missed' = missed
    BY <1>1 DEF ReadProviders
  <2>2. q \in Admin /\ q.pc = "pins" /\ q.setting = store.custom /\ q.gen = adm[a].gen
    BY <1>t, <1>s DEF Admin, Stage
  <2>3. adm'[a] = q  BY <2>1, <1>t DEF LiveTypeOK
  <2> HIDE DEF q
  <2>4. Progress(adm[a])'  BY <2>1, <2>2, <2>3, <1>u, <1>t DEF Progress
  <2> QED  BY <2>1, <2>2, <2>4
<1>2. CASE ReadPins(a)
  <2> DEFINE relay == IF adm[a].setting = "absent" THEN "direct" ELSE ResolveRelayPools(adm[a].setting)
             q == [adm[a] EXCEPT !.pc = "publish", !.relay = relay]
  <2>1. adm' = [adm EXCEPT ![a] = q] /\ adm[a].pc = "pins" /\ missed' = missed
    BY <1>2 DEF ReadPins
  <2>2. adm[a].setting = store.custom  BY <2>1, <1>t DEF Progress
  <2>3. store.custom # "absent" => relay = Wanted(store.custom) /\ Wanted(store.custom) \in Setting
    BY <2>2, <1>s, <1>t, Resolves DEF PinsExist
  <2>4. relay \in Setting  BY <2>2, <2>3 DEF Setting
  <2> HIDE DEF relay
  <2>5. q \in Admin /\ q.pc = "publish" /\ q.setting = store.custom /\ q.gen = adm[a].gen /\ q.relay = relay
    BY <1>t, <2>2, <2>4 DEF Admin, Stage
  <2>6. adm'[a] = q  BY <2>1, <1>t DEF LiveTypeOK
  <2> HIDE DEF q
  <2>7. Progress(adm[a])'  BY <2>1, <2>3, <2>5, <2>6, <1>u, <1>t DEF Progress, Wanted
  <2> QED  BY <2>1, <2>5, <2>7
<1>3. CASE ListPools(a)
  <2> DEFINE q == [adm[a] EXCEPT !.pc = "share", !.pools = EnabledPools]
  <2>1. adm' = [adm EXCEPT ![a] = q] /\ adm[a].pc = "pools" /\ missed' = missed
    BY <1>3 DEF ListPools
  <2>e. EnabledPools \in SUBSET PoolIDs  BY DEF EnabledPools
  <2>2. q \in Admin /\ q.pc = "share" /\ q.pools = EnabledPools /\ q.gen = adm[a].gen
    BY <1>t, <2>e DEF Admin, Stage
  <2>3. adm'[a] = q  BY <2>1, <1>t DEF LiveTypeOK
  <2> HIDE DEF q
  <2>4. Progress(adm[a])'
    BY <2>1, <2>2, <2>3, <1>u, <1>t DEF Progress, CustomsOK, Wanted, EnabledPools
  <2> QED  BY <2>1, <2>2, <2>4
<1>4. CASE ListBuiltins(a)
  <2> DEFINE q == [adm[a] EXCEPT !.pc = "builtinPool", !.setting = store.builtin]
  <2>1. adm' = [adm EXCEPT ![a] = q] /\ adm[a].pc = "builtins" /\ missed' = missed
    BY <1>4 DEF ListBuiltins
  <2>2. q \in Admin /\ q.pc = "builtinPool" /\ q.setting = store.builtin /\ q.gen = adm[a].gen
    BY <1>t, <1>s DEF Admin, Stage
  <2>3. adm'[a] = q  BY <2>1, <1>t DEF LiveTypeOK
  <2> HIDE DEF q
  <2>4. Progress(adm[a])'
    BY <2>1, <2>2, <2>3, <1>u, <1>t DEF Progress, CustomsOK, SharedOK, Wanted, EnabledPools
  <2> QED  BY <2>1, <2>2, <2>4
<1>5. CASE GetBuiltinPool(a)
  <2> DEFINE relay == ResolveRelayPools(adm[a].setting)
             q == [adm[a] EXCEPT !.pc = "builtinSet", !.relay = relay]
  <2>1. adm' = [adm EXCEPT ![a] = q] /\ adm[a].pc = "builtinPool" /\ missed' = missed
    BY <1>5 DEF GetBuiltinPool
  <2>2. adm[a].setting = store.builtin  BY <2>1, <1>t DEF Progress
  <2>3. relay = Wanted(store.builtin) /\ relay \in Setting
    BY <2>2, <1>s, <1>t, Resolves DEF PinsExist
  <2> HIDE DEF relay
  <2>5. q \in Admin /\ q.pc = "builtinSet" /\ q.gen = adm[a].gen /\ q.relay = relay
    BY <1>t, <2>3 DEF Admin, Stage
  <2>6. adm'[a] = q  BY <2>1, <1>t DEF LiveTypeOK
  <2> HIDE DEF q
  <2>7. Progress(adm[a])'
    BY <2>1, <2>3, <2>5, <2>6, <1>u, <1>t DEF Progress, CustomsOK, SharedOK, Wanted, EnabledPools
  <2> QED  BY <2>1, <2>5, <2>7
<1>6. CASE GetBuiltinPoolFails(a)
  <2> DEFINE q == [adm[a] EXCEPT !.pc = "builtinSet", !.relay = "global"]
  <2>1. adm' = [adm EXCEPT ![a] = q] /\ adm[a].pc = "builtinPool" /\ missed'
    BY <1>6 DEF GetBuiltinPoolFails
  <2>2. q \in Admin /\ q.pc = "builtinSet" /\ q.gen = adm[a].gen
    BY <1>t DEF Admin, Stage, Setting
  <2>3. adm'[a] = q  BY <2>1, <1>t DEF LiveTypeOK
  <2> HIDE DEF q
  <2>4. Progress(adm[a])'
    BY <2>1, <2>2, <2>3, <1>u, <1>t DEF Progress, CustomsOK, SharedOK, Wanted, EnabledPools
  <2> QED  BY <2>1, <2>2, <2>4
<1>7. CASE ListCombos(a)
  <2> DEFINE q == [adm[a] EXCEPT !.pc = "customs", !.combo = store.combo]
  <2>1. adm' = [adm EXCEPT ![a] = q] /\ adm[a].pc = "combos" /\ missed' = missed
    BY <1>7 DEF ListCombos
  <2>2. q \in Admin /\ q.pc = "customs" /\ q.combo = store.combo /\ q.gen = adm[a].gen
    BY <1>t, <1>s DEF Admin, Stage
  <2>3. adm'[a] = q  BY <2>1, <1>t DEF LiveTypeOK
  <2> HIDE DEF q
  <2>4. Progress(adm[a])'
    BY <2>1, <2>2, <2>3, <1>u, <1>t DEF Progress, CustomsOK, SharedOK, BuiltinOK, Wanted, EnabledPools
  <2> QED  BY <2>1, <2>2, <2>4
<1>8. CASE ReadFails(a)
  <2> DEFINE q == [IdleAdmin EXCEPT !.pc = "failed"]
  <2>1. adm' = [adm EXCEPT ![a] = q]  BY <1>8 DEF ReadFails
  <2>2. q \in Admin /\ q.pc = "failed"  BY DEF IdleAdmin, Admin, Stage, Setting
  <2>3. adm'[a] = q  BY <2>1, <1>t DEF LiveTypeOK
  <2> HIDE DEF q
  <2>4. Progress(adm[a])'  BY <2>2, <2>3 DEF Progress
  <2> QED  BY <2>1, <2>2, <2>4
<1> QED  BY <1>1, <1>2, <1>3, <1>4, <1>5, <1>6, <1>7, <1>8

(* A rebuild stores into one of the live structures. *)
LEMMA WriteInv ==
  ASSUME Serial, LiveInv, NEW a \in Admins,
         Publish(a) \/ SharePools(a) \/ SetBuiltin(a) \/ SetCustoms(a) \/ RebuildCombos(a)
  PROVE  LiveInv'
<1>t. LiveTypeOK /\ PinsExist /\ Progress(adm[a]) /\ adm[a] \in Admin
  BY DEF LiveInv, LiveTypeOK
<1>u. /\ UNCHANGED <<store, gen, missed>>
      /\ missed' \in BOOLEAN /\ store' \in Store /\ gen' \in Nat /\ PinsExist'
  BY <1>t DEF LiveTypeOK, PinsExist, Publish, SharePools, SetBuiltin, SetCustoms, RebuildCombos
<1> SUFFICES ASSUME TRUE
             PROVE  \E q \in Admin : adm' = [adm EXCEPT ![a] = q] /\ Progress(adm[a])'
  BY <1>t, <1>u, OneAdmin
<1>1. CASE Publish(a)
  <2> DEFINE q == [adm[a] EXCEPT !.pc = "pools"]
  <2>1. /\ adm' = [adm EXCEPT ![a] = q] /\ adm[a].pc = "publish"
        /\ customs' = IF adm[a].setting = "absent" THEN NoObject
                      ELSE [gen |-> adm[a].gen, relay |-> adm[a].relay]
    BY <1>1 DEF Publish
  <2>2. q \in Admin /\ q.pc = "pools" /\ q.gen = adm[a].gen
    BY <1>t DEF Admin, Stage
  <2>3. adm'[a] = q  BY <2>1, <1>t DEF LiveTypeOK
  <2>4. CustomsOK'  BY <2>1, <1>t, <1>u DEF Progress, CustomsOK, NoObject, Wanted
  <2> HIDE DEF q
  <2>5. Progress(adm[a])'  BY <2>1, <2>2, <2>3, <2>4, <1>t DEF Progress
  <2> QED  BY <2>1, <2>2, <2>5
<1>2. CASE SharePools(a)
  <2> DEFINE q == [adm[a] EXCEPT !.pc = "builtins", !.pools = {}]
  <2>1. adm' = [adm EXCEPT ![a] = q] /\ adm[a].pc = "share" /\ shared' = adm[a].pools /\ customs' = customs
    BY <1>2 DEF SharePools
  <2>2. q \in Admin /\ q.pc = "builtins" /\ q.gen = adm[a].gen
    BY <1>t DEF Admin, Stage
  <2>3. adm'[a] = q  BY <2>1, <1>t DEF LiveTypeOK
  <2>4. SharedOK' /\ CustomsOK'
    BY <2>1, <1>t, <1>u DEF Progress, CustomsOK, SharedOK, EnabledPools, Wanted
  <2> HIDE DEF q
  <2>5. Progress(adm[a])'  BY <2>1, <2>2, <2>3, <2>4, <1>t DEF Progress
  <2> QED  BY <2>1, <2>2, <2>5
<1>3. CASE SetBuiltin(a)
  <2> DEFINE q == [adm[a] EXCEPT !.pc = "combos", !.setting = "absent", !.relay = "direct"]
  <2>1. /\ adm' = [adm EXCEPT ![a] = q] /\ adm[a].pc = "builtinSet" /\ builtin' = adm[a].relay
        /\ customs' = customs /\ shared' = shared
    BY <1>3 DEF SetBuiltin
  <2>2. q \in Admin /\ q.pc = "combos" /\ q.gen = adm[a].gen
    BY <1>t DEF Admin, Stage, Setting
  <2>3. adm'[a] = q  BY <2>1, <1>t DEF LiveTypeOK
  <2>4. SharedOK' /\ CustomsOK' /\ BuiltinOK'
    BY <2>1, <1>t, <1>u DEF Progress, CustomsOK, SharedOK, BuiltinOK, EnabledPools, Wanted
  <2> HIDE DEF q
  <2>5. Progress(adm[a])'  BY <2>1, <2>2, <2>3, <2>4, <1>t DEF Progress
  <2> QED  BY <2>1, <2>2, <2>5
<1>4. CASE SetCustoms(a)
  <2> DEFINE q == [adm[a] EXCEPT !.pc = "tiers"]
  <2>1. /\ adm' = [adm EXCEPT ![a] = q] /\ adm[a].pc = "customs" /\ router' = customs
        /\ customs' = customs /\ shared' = shared /\ builtin' = builtin
    BY <1>4 DEF SetCustoms
  <2>2. q \in Admin /\ q.pc = "tiers" /\ q.gen = adm[a].gen /\ q.combo = adm[a].combo
    BY <1>t DEF Admin, Stage
  <2>3. adm'[a] = q  BY <2>1, <1>t DEF LiveTypeOK
  <2>4. SharedOK' /\ CustomsOK' /\ BuiltinOK' /\ RouterOK'
    BY <2>1, <1>t, <1>u DEF Progress, CustomsOK, SharedOK, BuiltinOK, RouterOK, EnabledPools, Wanted
  <2> HIDE DEF q
  <2>5. Progress(adm[a])'  BY <2>1, <2>2, <2>3, <2>4, <1>t, <1>u DEF Progress
  <2> QED  BY <2>1, <2>2, <2>5
<1>5. CASE RebuildCombos(a)
  <2>1. /\ adm' = [adm EXCEPT ![a] = IdleAdmin] /\ adm[a].pc = "tiers"
        /\ combo' = IF adm[a].combo THEN customs ELSE NoCombo
        /\ customs' = customs /\ shared' = shared /\ builtin' = builtin /\ router' = router
    BY <1>5 DEF RebuildCombos, Lookup
  <2>2. IdleAdmin \in Admin /\ IdleAdmin.pc = "idle"  BY DEF IdleAdmin, Admin, Stage, Setting
  <2>3. adm'[a] = IdleAdmin  BY <2>1, <1>t DEF LiveTypeOK
  <2>4. SharedOK' /\ CustomsOK' /\ BuiltinOK' /\ RouterOK'
    BY <2>1, <1>t, <1>u DEF Progress, CustomsOK, SharedOK, BuiltinOK, RouterOK, EnabledPools, Wanted
  <2>6. ComboOK'  BY <2>1, <1>t, <1>u DEF Progress, ComboOK
  <2>5. Progress(adm[a])'  BY <2>2, <2>3, <2>4, <2>6 DEF Progress
  <2> QED  BY <2>1, <2>2, <2>5
<1> QED  BY <1>1, <1>2, <1>3, <1>4, <1>5

(* With one administrator at a time, every rebuild keeps its invariant. *)
THEOREM LiveSafe == Serial => (Spec => []LiveInv)
<1> SUFFICES ASSUME Serial  PROVE Spec => []LiveInv
  OBVIOUS
<1>1. Init => LiveInv
  <2> SUFFICES ASSUME Init  PROVE LiveInv
    OBVIOUS
  <2>1. store \in Store  BY DEF Init, Store, Setting
  <2>2. IdleAdmin \in Admin /\ IdleAdmin.pc = "idle"  BY DEF IdleAdmin, Admin, Stage, Setting
  <2>3. LiveTypeOK  BY <2>1, <2>2 DEF Init, LiveTypeOK
  <2>4. PinsExist  BY LiveAssumption DEF Init, PinsExist
  <2>5. CustomsOK /\ SharedOK /\ BuiltinOK /\ RouterOK /\ ComboOK
    BY LiveAssumption DEF Init, CustomsOK, SharedOK, BuiltinOK, RouterOK, ComboOK, NoObject,
                          EnabledPools, Wanted
  <2>6. \A a \in Admins : Progress(adm[a])  BY <2>2, <2>5 DEF Init, Progress
  <2> QED  BY <2>3, <2>4, <2>6 DEF LiveInv
<1>2. LiveInv /\ [Next]_vars => LiveInv'
  <2> SUFFICES ASSUME LiveInv, [Next]_vars  PROVE LiveInv'
    OBVIOUS
  <2>1. CASE UNCHANGED vars
    BY <2>1 DEF vars, LiveInv, LiveTypeOK, PinsExist, Progress, CustomsOK, SharedOK, BuiltinOK,
                RouterOK, ComboOK, Wanted, EnabledPools
  <2> QED  BY <2>1, ChangeInv, ReadInv, WriteInv DEF Next, Step
<1> QED  BY <1>1, <1>2, PTL DEF Spec

(* "pool edits, deletes, and disables take effect without a restart", for  *)
(* every number of pools and changes and wherever earlier rebuilds failed. *)
THEOREM TakesEffect == Serial => (Spec => []LiveMatchesStore)
<1> SUFFICES ASSUME Serial  PROVE Spec => []LiveMatchesStore
  OBVIOUS
<1>1. LiveInv => LiveMatchesStore
  <2> SUFFICES ASSUME LiveInv, Quiet
               PROVE  CustomsOK /\ SharedOK /\ BuiltinOK /\ RouterOK /\ ComboOK
    BY DEF LiveMatchesStore, RelaysMatchStore, RoutesMatchStore, CustomsOK, SharedOK,
           BuiltinOK, RouterOK, ComboOK, EnabledPools
  <2>1. PICK a : a \in Admins  BY DEF Serial
  <2>2. Progress(adm[a]) /\ adm[a].pc = "idle"  BY <2>1 DEF LiveInv, Quiet
  <2> QED  BY <2>2 DEF Progress
<1> QED  BY <1>1, LiveSafe, PTL
=============================================================================
