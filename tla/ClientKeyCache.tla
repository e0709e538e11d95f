---------------------------- MODULE ClientKeyCache ----------------------------
(***************************************************************************)
(* The client-key verification cache of internal/infrastructure/registry:  *)
(* VerifyClientKey (a request goroutine) against CreateClientKey,          *)
(* UpdateClientKey and DeleteClientKey (admin goroutines).                 *)
(*                                                                         *)
(* A lookup that misses runs a SQLite query and stores the answer          *)
(* afterwards; an admin change may commit in that gap.  The cache keeps a  *)
(* generation counter, bumped by every invalidation, and drops an answer   *)
(* whose query started under another generation.                           *)
(*                                                                         *)
(* Every step below is one critical section of the code: one hold of       *)
(* clientKeyVerifyCache.mu, or one SQLite statement.                       *)
(***************************************************************************)
EXTENDS Integers, Sequences, FiniteSets

CONSTANTS
    Keys,          \* client keys (a key stands for its SHA-256 hash)
    NoKey,         \* what an idle goroutine is working on
    Requests,      \* goroutines calling VerifyClientKey, one call each
    Admins,        \* goroutines calling Create/Update/DeleteClientKey
    TTL,           \* clientKeyVerifyTTL, in ticks
    MaxEntries,    \* clientKeyVerifyMaxEntries
    MaxTime,       \* bound: the clock stops here
    MaxChanges     \* bound: changes committed

ASSUME KeysAssumption == NoKey \notin Keys /\ IsFiniteSet(Keys)
ASSUME BoundsAssumption ==
    /\ TTL \in Nat
    /\ MaxEntries \in Nat \ {0}
    /\ MaxTime \in Nat
    /\ MaxChanges \in Nat

VARIABLES
    now,           \* time.Now()
    hist,          \* hist[k]: every value row k has had, the last one current
    acked,         \* acked[k]: the newest version whose change has invalidated
    entries,       \* the cache map: a function on the cached keys
    changes,       \* number of changes committed so far
    generation,    \* clientKeyVerifyCache.generation
    req,           \* one VerifyClientKey call per element of Requests
    adm            \* one admin call per element of Admins

vars == <<now, hist, acked, entries, changes, generation, req, adm>>

-----------------------------------------------------------------------------
(* A row is unborn until CreateClientKey inserts it; its key is random, so *)
(* a deleted row never comes back.                                         *)
Row == {"unborn", "enabled", "disabled", "deleted"}

Live == {"enabled", "disabled"}

Version(k) == Len(hist[k])

Current(k) == hist[k][Version(k)]

(* The answer of the SQL query for version v of row k. *)
VerdictAt(k, v) == hist[k][v] = "enabled"

Entry == [valid : BOOLEAN, expiresAt : Nat]

(* pc of a VerifyClientKey call: the step it takes next.  floor is a       *)
(* history variable: acked[k] when the call began.                         *)
ReqPC == {"idle", "get", "evict", "gen", "query", "set", "done", "failed"}

Request ==
    [pc : ReqPC, key : Keys \cup {NoKey}, t : Nat, gen : Nat, verdict : BOOLEAN, floor : Nat]

IdleRequest ==
    [pc |-> "idle", key |-> NoKey, t |-> 0, gen |-> 0, verdict |-> FALSE, floor |-> 0]

(* An admin call between its commit and its invalidation. *)
Admin == [pc : {"idle", "invalidate"}, key : Keys \cup {NoKey}, all : BOOLEAN, ver : Nat]

IdleAdmin == [pc |-> "idle", key |-> NoKey, all |-> FALSE, ver |-> 0]

TypeOK ==
    /\ now \in 0..MaxTime
    /\ hist \in [Keys -> Seq(Row)]
    /\ \A k \in Keys : Len(hist[k]) > 0
    /\ acked \in [Keys -> Nat]
    /\ DOMAIN entries \in SUBSET Keys
    /\ entries \in [DOMAIN entries -> Entry]
    /\ changes \in 0..MaxChanges
    /\ generation \in Nat
    /\ req \in [Requests -> Request]
    /\ adm \in [Admins -> Admin]
    /\ \A r \in Requests : req[r].pc # "idle" => req[r].key \in Keys
    /\ \A a \in Admins : adm[a].pc # "idle" => adm[a].key \in Keys

(* Rows can exist at start-up (the database file outlives the process). *)
Init ==
    /\ now = 0
    /\ \E start \in [Keys -> {"unborn", "enabled", "disabled"}] :
         hist = [k \in Keys |-> <<start[k]>>]
    /\ acked = [k \in Keys |-> 1]
    /\ entries = [k \in {} |-> [valid |-> FALSE, expiresAt |-> 0]]
    /\ changes = 0
    /\ generation = 0
    /\ req = [r \in Requests |-> IdleRequest]
    /\ adm = [a \in Admins |-> IdleAdmin]

-----------------------------------------------------------------------------
(* The cache's own operations. *)

After(t, e) == t > e.expiresAt

Without(k) == [h \in DOMAIN entries \ {k} |-> entries[h]]

(* set(): the keys one insertion may evict first.  A full map loses an     *)
(* expired entry if there is one and an arbitrary one otherwise; the       *)
(* empty set means that nothing is evicted.                                *)
Victims ==
    IF Cardinality(DOMAIN entries) < MaxEntries
      THEN {{}}
      ELSE LET expired == {h \in DOMAIN entries : After(now, entries[h])}
           IN  {{h} : h \in IF expired # {} THEN expired ELSE DOMAIN entries}

(* Mutant: set() forgets to evict. *)
StoreNoEvict(k, valid) ==
    entries' = [h \in DOMAIN entries \cup {k} |->
                  IF h = k THEN [valid |-> valid, expiresAt |-> now + TTL]
                           ELSE entries[h]]

(* set(), past its generation check: evict, then write the entry. *)
Store(k, valid) ==
    \E out \in Victims :
      entries' = [h \in (DOMAIN entries \ out) \cup {k} |->
                    IF h = k THEN [valid |-> valid, expiresAt |-> now + TTL]
                             ELSE entries[h]]

(* Mutant: set() forgets its generation check. *)
CacheSetUnchecked(k, valid, gen) == Store(k, valid)

(* set() drops an answer whose generation is stale. *)
CacheSet(k, valid, gen) ==
    IF gen = generation THEN Store(k, valid) ELSE UNCHANGED entries

Invalidate(k) ==
    /\ entries' = Without(k)
    /\ generation' = generation + 1

(* Mutant: invalidateAll() clears the map and forgets the generation. *)
InvalidateAllNoBump ==
    /\ entries' = [h \in {} |-> entries[h]]
    /\ UNCHANGED generation

InvalidateAll ==
    /\ entries' = [h \in {} |-> entries[h]]
    /\ generation' = generation + 1

-----------------------------------------------------------------------------
(* VerifyClientKey *)

VerifyBegin(r) ==
    /\ req[r].pc = "idle"
    /\ \E k \in Keys :
         req' = [req EXCEPT ![r] =
                   [pc |-> "get", key |-> k, t |-> now, gen |-> 0,
                    verdict |-> FALSE, floor |-> acked[k]]]
    /\ UNCHANGED <<now, hist, acked, entries, changes, generation, adm>>

(* get() under RLock: a hit answers the call, an expired entry is evicted  *)
(* under a second lock, a missing one goes on to the query.                *)
VerifyGet(r) ==
    LET k == req[r].key IN
    /\ req[r].pc = "get"
    /\ IF k \notin DOMAIN entries
         THEN req' = [req EXCEPT ![r].pc = "gen", ![r].t = 0]
         ELSE IF After(req[r].t, entries[k])
           THEN req' = [req EXCEPT ![r].pc = "evict"]
           ELSE req' = [req EXCEPT ![r].pc = "done", ![r].t = 0,
                                   ![r].verdict = entries[k].valid]
    /\ UNCHANGED <<now, hist, acked, entries, changes, generation, adm>>

(* get()'s second critical section looks the entry up again: another       *)
(* request may have replaced it by a fresh one meanwhile.                  *)
VerifyEvict(r) ==
    LET k == req[r].key IN
    /\ req[r].pc = "evict"
    /\ entries' = IF k \in DOMAIN entries /\ After(req[r].t, entries[k])
                    THEN Without(k) ELSE entries
    /\ req' = [req EXCEPT ![r].pc = "gen", ![r].t = 0]
    /\ UNCHANGED <<now, hist, acked, changes, generation, adm>>

CurrentGeneration(r) ==
    /\ req[r].pc = "gen"
    /\ req' = [req EXCEPT ![r].pc = "query", ![r].gen = generation]
    /\ UNCHANGED <<now, hist, acked, entries, changes, generation, adm>>

VerifyQuery(r) ==
    LET k == req[r].key IN
    /\ req[r].pc = "query"
    /\ req' = [req EXCEPT ![r].pc = "set",
                          ![r].verdict = VerdictAt(k, Version(k))]
    /\ UNCHANGED <<now, hist, acked, entries, changes, generation, adm>>

(* A database error other than "record not found" caches nothing. *)
VerifyQueryError(r) ==
    /\ req[r].pc = "query"
    /\ req' = [req EXCEPT ![r].pc = "failed"]
    /\ UNCHANGED <<now, hist, acked, entries, changes, generation, adm>>

VerifySet(r) ==
    /\ req[r].pc = "set"
    /\ CacheSet(req[r].key, req[r].verdict, req[r].gen)
    /\ req' = [req EXCEPT ![r].pc = "done", ![r].gen = 0]
    /\ UNCHANGED <<now, hist, acked, changes, generation, adm>>

(* The answer has been used: the goroutine serves its next request. *)
VerifyReturn(r) ==
    /\ req[r].pc \in {"done", "failed"}
    /\ req' = [req EXCEPT ![r] = IdleRequest]
    /\ UNCHANGED <<now, hist, acked, entries, changes, generation, adm>>

-----------------------------------------------------------------------------
(* Admin changes: the row is committed, then the cache is invalidated. *)

Commit(a, k, value, all) ==
    /\ adm[a].pc = "idle"
    /\ changes < MaxChanges
    /\ changes' = changes + 1
    /\ hist' = [hist EXCEPT ![k] = Append(@, value)]
    /\ adm' = [adm EXCEPT ![a] = [pc  |-> "invalidate", key |-> k,
                                  all |-> all, ver |-> Version(k) + 1]]
    /\ UNCHANGED <<now, acked, entries, generation, req>>

CreateClientKey(a, k) == Current(k) = "unborn" /\ Commit(a, k, "enabled", FALSE)

(* Renaming keeps the enabled flag, so a change to the same value is one   *)
(* of the updates.  A missing row returns ErrNotFound and a database error *)
(* returns before invalidateAll: neither changes anything.                 *)
UpdateClientKey(a, k) ==
    \E value \in Live : Current(k) \in Live /\ Commit(a, k, value, TRUE)

DeleteClientKey(a, k) == Current(k) \in Live /\ Commit(a, k, "deleted", TRUE)

AdminInvalidate(a) ==
    LET k == adm[a].key IN
    /\ adm[a].pc = "invalidate"
    /\ IF adm[a].all THEN InvalidateAll ELSE Invalidate(k)
    /\ acked' = [acked EXCEPT ![k] = IF adm[a].ver > @ THEN adm[a].ver ELSE @]
    /\ adm' = [adm EXCEPT ![a] = IdleAdmin]
    /\ UNCHANGED <<now, hist, changes, req>>

Tick ==
    /\ now < MaxTime
    /\ now' = now + 1
    /\ UNCHANGED <<hist, acked, entries, changes, generation, req, adm>>

Verify(r) ==
    \/ VerifyBegin(r)
    \/ VerifyGet(r)
    \/ VerifyEvict(r)
    \/ CurrentGeneration(r)
    \/ VerifyQuery(r)
    \/ VerifyQueryError(r)
    \/ VerifySet(r)
    \/ VerifyReturn(r)

Change(a) ==
    \/ \E k \in Keys :
         CreateClientKey(a, k) \/ UpdateClientKey(a, k) \/ DeleteClientKey(a, k)
    \/ AdminInvalidate(a)

Next ==
    \/ \E r \in Requests : Verify(r)
    \/ \E a \in Admins : Change(a)
    \/ Tick

Spec == Init /\ [][Next]_vars

-----------------------------------------------------------------------------
(* Properties *)

(* "Update and delete paths invalidate the cache so revokes take effect on *)
(* the next request": the answer of a call is what the row said at some    *)
(* moment no older than the newest change that had returned when the call  *)
(* began.                                                                  *)
RevokeTakesEffect ==
    \A r \in Requests :
      req[r].pc = "done" =>
        \E v \in req[r].floor..Version(req[r].key) :
          req[r].verdict = VerdictAt(req[r].key, v)

(* No change of row k is between its commit and its invalidation. *)
Settled(k) == \A a \in Admins : ~(adm[a].pc = "invalidate" /\ adm[a].key = k)

(* set() never resurrects a revoked key: whatever the order of queries,    *)
(* commits, invalidations and late sets, once the changes of a row have    *)
(* invalidated, its cached answer is the row's.                            *)
CacheCoherent ==
    \A k \in DOMAIN entries :
      Settled(k) => entries[k].valid = VerdictAt(k, Version(k))

(* clientKeyVerifyMaxEntries bounds the map whatever keys are asked for. *)
CacheBounded == Cardinality(DOMAIN entries) <= MaxEntries

(* The cache, the rows and every call in progress are well formed, and the *)
(* map stays within its bound.                                             *)
CacheTypeOK == TypeOK /\ CacheBounded

=============================================================================
