------------------------- MODULE ClientKeyCacheProofs -------------------------
(***************************************************************************)
(* Proofs about ClientKeyCache, for every set of keys, requests and        *)
(* admins, every TTL and every bound.                                      *)
(*                                                                         *)
(* The inductive invariant IInv says why the generation counter works:     *)
(*   - an answer in flight that still carries the current generation was   *)
(*     read at a version that no finished change has overtaken;            *)
(*   - so is every cached answer;                                          *)
(*   - the newest version of a row is either acknowledged or its change    *)
(*     is still on its way to the invalidation.                            *)
(***************************************************************************)
EXTENDS ClientKeyCache, FiniteSetTheorems, TLAPS

(* What the row said at some version in lo..Version(k). *)
ReadSince(k, lo, verdict) ==
    \E v \in lo..Version(k) : verdict = VerdictAt(k, v)

AckedInRange == \A k \in Keys : acked[k] \in 1..Version(k)

NewestPending ==
    \A k \in Keys :
      \/ acked[k] = Version(k)
      \/ \E a \in Admins :
           adm[a].pc = "invalidate" /\ adm[a].key = k /\ adm[a].ver = Version(k)

PendingInRange ==
    \A a \in Admins :
      adm[a].pc = "invalidate" => adm[a].ver \in 1..Version(adm[a].key)

EntriesCurrent ==
    \A k \in DOMAIN entries : ReadSince(k, acked[k], entries[k].valid)

(* A call began at an acknowledged version; its generation is no newer     *)
(* than the cache's; its answer is no older than its beginning and, while  *)
(* the generation still matches, no older than any finished change.        *)
RequestOK(q) ==
    /\ q \in Request
    /\ q.pc # "idle" => q.key \in Keys /\ q.floor \in 1..acked[q.key]
    /\ q.pc \in {"query", "set"} => q.gen <= generation
    /\ q.pc = "set" /\ q.gen = generation =>
         ReadSince(q.key, acked[q.key], q.verdict)
    /\ q.pc \in {"set", "done"} => ReadSince(q.key, q.floor, q.verdict)

RequestsOK == \A r \in Requests : RequestOK(req[r])

IInv ==
    /\ TypeOK
    /\ AckedInRange
    /\ NewestPending
    /\ PendingInRange
    /\ EntriesCurrent
    /\ RequestsOK

-----------------------------------------------------------------------------
(* The initial states satisfy the invariant. *)
LEMMA InitIInv == Init => IInv
<1> SUFFICES ASSUME Init PROVE IInv
  OBVIOUS
<1> USE KeysAssumption, BoundsAssumption
<1>1. PICK start \in [Keys -> {"unborn", "enabled", "disabled"}] :
        hist = [k \in Keys |-> <<start[k]>>]
  BY DEF Init
<1>2. \A k \in Keys : hist[k] \in Seq(Row) /\ Len(hist[k]) = 1
  BY <1>1 DEF Row
<1>3. DOMAIN entries = {}
  BY DEF Init
<1>4. TypeOK
  BY <1>1, <1>2, <1>3 DEF Init, TypeOK, IdleRequest, IdleAdmin, Request, ReqPC, Admin
<1>5. AckedInRange /\ NewestPending
  BY <1>2 DEF Init, AckedInRange, NewestPending, Version
<1>6. PendingInRange /\ EntriesCurrent
  BY <1>3 DEF Init, PendingInRange, EntriesCurrent, IdleAdmin
<1>7. RequestsOK
  BY DEF Init, RequestsOK, RequestOK, IdleRequest, Request, ReqPC
<1> QED
  BY <1>4, <1>5, <1>6, <1>7 DEF IInv

(* The frame of a step of a VerifyClientKey call: it replaces the call's   *)
(* record and perhaps the entries, and leaves the rows and the admins.     *)
LEMMA RequestStep ==
  ASSUME IInv, NEW r \in Requests, NEW q, RequestOK(q),
         req' = [req EXCEPT ![r] = q],
         UNCHANGED <<now, hist, acked, changes, generation, adm>>,
         DOMAIN entries' \in SUBSET Keys,
         entries' \in [DOMAIN entries' -> Entry],
         EntriesCurrent'
  PROVE  IInv'
<1>1. TypeOK'
  <2>1. req' \in [Requests -> Request]
    BY DEF IInv, TypeOK, RequestOK
  <2>2. \A s \in Requests : req'[s].pc # "idle" => req'[s].key \in Keys
    BY DEF IInv, TypeOK, RequestOK
  <2> QED
    BY <2>1, <2>2 DEF IInv, TypeOK
<1>2. AckedInRange' /\ NewestPending' /\ PendingInRange'
  BY DEF IInv, AckedInRange, NewestPending, PendingInRange, Version
<1>3. RequestsOK'
  <2> SUFFICES ASSUME NEW s \in Requests PROVE RequestOK(req[s])'
    BY DEF RequestsOK
  <2>1. req'[s] = IF s = r THEN q ELSE req[s]
    BY DEF IInv, TypeOK
  <2>2. RequestOK(req'[s])
    BY <2>1 DEF IInv, RequestsOK
  <2>3. acked' = acked /\ generation' = generation /\ hist' = hist
    OBVIOUS
  <2> QED
    BY <2>2, <2>3 DEF RequestOK, ReadSince, Version, VerdictAt
<1> QED
  BY <1>1, <1>2, <1>3 DEF IInv

(* A step that leaves the entries alone as well. *)
LEMMA QuietRequestStep ==
  ASSUME IInv, NEW r \in Requests, NEW q, RequestOK(q),
         req' = [req EXCEPT ![r] = q],
         UNCHANGED <<now, hist, acked, entries, changes, generation, adm>>
  PROVE  IInv'
<1>1. EntriesCurrent'
  BY DEF IInv, EntriesCurrent, ReadSince, Version, VerdictAt
<1>2. DOMAIN entries' \in SUBSET Keys /\ entries' \in [DOMAIN entries' -> Entry]
  BY DEF IInv, TypeOK
<1> QED
  BY <1>1, <1>2, RequestStep

LEMMA VerifyBeginIInv == ASSUME IInv, NEW r \in Requests, VerifyBegin(r) PROVE IInv'
<1>1. PICK k \in Keys :
        req' = [req EXCEPT ![r] =
                  [pc |-> "get", key |-> k, t |-> now, gen |-> 0,
                   verdict |-> FALSE, floor |-> acked[k]]]
  BY DEF VerifyBegin
<1> DEFINE q == [pc |-> "get", key |-> k, t |-> now, gen |-> 0,
                 verdict |-> FALSE, floor |-> acked[k]]
<1>2. RequestOK(q)
  BY BoundsAssumption
  DEF IInv, TypeOK, AckedInRange, RequestOK, Request, ReqPC
<1> HIDE DEF q
<1> QED
  BY <1>1, <1>2, QuietRequestStep DEF VerifyBegin, q

(* A hit answers with the entry, which EntriesCurrent says is current. *)
LEMMA VerifyGetIInv == ASSUME IInv, NEW r \in Requests, VerifyGet(r) PROVE IInv'
<1> DEFINE k == req[r].key
<1>0. RequestOK(req[r]) /\ req[r].pc = "get" /\ k \in Keys
  BY DEF IInv, RequestsOK, RequestOK, VerifyGet
<1>1. CASE k \notin DOMAIN entries
  <2> DEFINE q == [req[r] EXCEPT !.pc = "gen", !.t = 0]
  <2>1. RequestOK(q)
    BY <1>0 DEF RequestOK, Request, ReqPC
  <2>2. req' = [req EXCEPT ![r] = q]
    BY <1>1 DEF VerifyGet, IInv, TypeOK
  <2> HIDE DEF q
  <2> QED
    BY <2>1, <2>2, QuietRequestStep DEF VerifyGet
<1>2. CASE k \in DOMAIN entries /\ After(req[r].t, entries[k])
  <2> DEFINE q == [req[r] EXCEPT !.pc = "evict"]
  <2>1. RequestOK(q)
    BY <1>0 DEF RequestOK, Request, ReqPC
  <2>2. req' = [req EXCEPT ![r] = q]
    BY <1>2 DEF VerifyGet, IInv, TypeOK
  <2> HIDE DEF q
  <2> QED
    BY <2>1, <2>2, QuietRequestStep DEF VerifyGet
<1>3. CASE k \in DOMAIN entries /\ ~After(req[r].t, entries[k])
  <2> DEFINE q == [req[r] EXCEPT !.pc = "done", !.t = 0, !.verdict = entries[k].valid]
  <2>1. entries[k] \in Entry /\ ReadSince(k, acked[k], entries[k].valid)
    BY <1>3 DEF IInv, TypeOK, EntriesCurrent
  <2>2. ReadSince(k, req[r].floor, entries[k].valid)
    BY <1>0, <2>1 DEF IInv, TypeOK, AckedInRange, RequestOK, ReadSince, Version
  <2>3. RequestOK(q)
    BY <1>0, <2>1, <2>2 DEF RequestOK, Request, ReqPC, Entry
  <2>4. req' = [req EXCEPT ![r] = q]
    BY <1>3 DEF VerifyGet, IInv, TypeOK
  <2> HIDE DEF q
  <2> QED
    BY <2>3, <2>4, QuietRequestStep DEF VerifyGet
<1> QED
  BY <1>1, <1>2, <1>3

(* The generation is taken before the query runs. *)
LEMMA CurrentGenerationIInv == ASSUME IInv, NEW r \in Requests, CurrentGeneration(r) PROVE IInv'
<1> DEFINE q == [req[r] EXCEPT !.pc = "query", !.gen = generation]
<1>0. RequestOK(req[r]) /\ req[r].pc = "gen" /\ req[r].key \in Keys
  BY DEF IInv, RequestsOK, RequestOK, CurrentGeneration
<1>1. RequestOK(q)
  <2>1. generation \in Nat
    BY DEF IInv, TypeOK
  <2>2. /\ q \in Request /\ q.pc = "query" /\ q.gen = generation
        /\ q.key = req[r].key /\ q.floor = req[r].floor
    BY <1>0, <2>1 DEF RequestOK, Request, ReqPC
  <2> HIDE DEF q
  <2> QED
    BY <1>0, <2>1, <2>2 DEF RequestOK
<1>2. req' = [req EXCEPT ![r] = q]
  BY DEF CurrentGeneration, IInv, TypeOK
<1> HIDE DEF q
<1> QED
  BY <1>1, <1>2, QuietRequestStep DEF CurrentGeneration

(* The query reads the newest version, which no finished change overtakes. *)
LEMMA VerifyQueryIInv == ASSUME IInv, NEW r \in Requests, VerifyQuery(r) PROVE IInv'
<1> DEFINE k == req[r].key
           verdict == VerdictAt(k, Version(k))
           q == [req[r] EXCEPT !.pc = "set", !.verdict = verdict]
<1>0. RequestOK(req[r]) /\ req[r].pc = "query" /\ k \in Keys
  BY DEF IInv, RequestsOK, RequestOK, VerifyQuery
<1>1. Version(k) \in Nat /\ acked[k] \in 1..Version(k) /\ req[r].floor \in 1..acked[k]
  BY <1>0 DEF IInv, TypeOK, AckedInRange, RequestOK, Version
<1>2. ReadSince(k, acked[k], verdict) /\ ReadSince(k, req[r].floor, verdict)
  BY <1>1 DEF ReadSince
<1>3. verdict \in BOOLEAN
  BY DEF VerdictAt
<1>4. req' = [req EXCEPT ![r] = q]
  BY DEF VerifyQuery, IInv, TypeOK
<1> HIDE DEF verdict
<1>5. RequestOK(q)
  BY <1>0, <1>2, <1>3 DEF RequestOK, Request, ReqPC
<1> HIDE DEF q
<1> QED
  BY <1>4, <1>5, QuietRequestStep DEF VerifyQuery

LEMMA VerifyQueryErrorIInv == ASSUME IInv, NEW r \in Requests, VerifyQueryError(r) PROVE IInv'
<1> DEFINE q == [req[r] EXCEPT !.pc = "failed"]
<1>0. RequestOK(req[r]) /\ req[r].pc = "query" /\ req[r].key \in Keys
  BY DEF IInv, RequestsOK, RequestOK, VerifyQueryError
<1>1. RequestOK(q)
  BY <1>0 DEF RequestOK, Request, ReqPC
<1>2. req' = [req EXCEPT ![r] = q]
  BY DEF VerifyQueryError, IInv, TypeOK
<1> HIDE DEF q
<1> QED
  BY <1>1, <1>2, QuietRequestStep DEF VerifyQueryError

LEMMA VerifyReturnIInv == ASSUME IInv, NEW r \in Requests, VerifyReturn(r) PROVE IInv'
<1>1. RequestOK(IdleRequest)
  BY DEF RequestOK, IdleRequest, Request, ReqPC
<1> QED
  BY <1>1, QuietRequestStep DEF VerifyReturn

(* Removing an entry keeps the others. *)
LEMMA VerifyEvictIInv == ASSUME IInv, NEW r \in Requests, VerifyEvict(r) PROVE IInv'
<1> DEFINE q == [req[r] EXCEPT !.pc = "gen", !.t = 0]
<1>0. RequestOK(req[r]) /\ req[r].pc = "evict" /\ req[r].key \in Keys
  BY DEF IInv, RequestsOK, RequestOK, VerifyEvict
<1>1. RequestOK(q)
  BY <1>0 DEF RequestOK, Request, ReqPC
<1>2. req' = [req EXCEPT ![r] = q]
  BY DEF VerifyEvict, IInv, TypeOK
<1>3. /\ DOMAIN entries' \in SUBSET DOMAIN entries
      /\ entries' = [h \in DOMAIN entries' |-> entries[h]]
  BY DEF VerifyEvict, Without, IInv, TypeOK
<1>4. DOMAIN entries' \in SUBSET Keys /\ entries' \in [DOMAIN entries' -> Entry]
  BY <1>3 DEF IInv, TypeOK
<1>5. EntriesCurrent'
  BY <1>3 DEF VerifyEvict, IInv, EntriesCurrent, ReadSince, Version, VerdictAt
<1> HIDE DEF q
<1> QED
  BY <1>1, <1>2, <1>4, <1>5, RequestStep DEF VerifyEvict

(* set(): a stale generation drops the answer; a matching one stores an    *)
(* answer that RequestOK says no finished change has overtaken.            *)
LEMMA VerifySetIInv == ASSUME IInv, NEW r \in Requests, VerifySet(r) PROVE IInv'
<1> DEFINE k == req[r].key
           q == [req[r] EXCEPT !.pc = "done", !.gen = 0]
<1>0. RequestOK(req[r]) /\ req[r].pc = "set" /\ k \in Keys
  BY DEF IInv, RequestsOK, RequestOK, VerifySet
<1>1. RequestOK(q)
  BY <1>0 DEF RequestOK, Request, ReqPC
<1>2. req' = [req EXCEPT ![r] = q]
  BY DEF VerifySet, IInv, TypeOK
<1>u. UNCHANGED <<now, hist, acked, changes, generation, adm>>
  BY DEF VerifySet
<1>3. CASE req[r].gen # generation
  BY <1>1, <1>2, <1>3, <1>u, QuietRequestStep DEF VerifySet, CacheSet
<1>4. CASE req[r].gen = generation
  <2>1. Store(k, req[r].verdict)
    BY <1>4 DEF VerifySet, CacheSet
  <2>2. PICK out \in Victims :
          entries' = [h \in (DOMAIN entries \ out) \cup {k} |->
                        IF h = k THEN [valid |-> req[r].verdict, expiresAt |-> now + TTL]
                                 ELSE entries[h]]
    BY <2>1 DEF Store
  <2>3. DOMAIN entries' = (DOMAIN entries \ out) \cup {k}
    BY <2>2
  <2>4. \A h \in DOMAIN entries' :
          \/ h = k /\ entries'[h] = [valid |-> req[r].verdict, expiresAt |-> now + TTL]
          \/ h \in DOMAIN entries /\ entries'[h] = entries[h]
    BY <2>2, <2>3
  <2>5. [valid |-> req[r].verdict, expiresAt |-> now + TTL] \in Entry
    BY <1>0, BoundsAssumption DEF IInv, TypeOK, RequestOK, Request, Entry
  <2>6. DOMAIN entries' \in SUBSET Keys
    BY <1>0, <2>3 DEF IInv, TypeOK
  <2>7. entries' \in [DOMAIN entries' -> Entry]
    BY <2>2, <2>3, <2>4, <2>5 DEF IInv, TypeOK
  <2>8. EntriesCurrent'
    <3>1. ReadSince(k, acked[k], req[r].verdict)
      BY <1>0, <1>4 DEF RequestOK
    <3>2. \A h \in DOMAIN entries' : ReadSince(h, acked[h], entries'[h].valid)
      BY <2>4, <3>1 DEF IInv, EntriesCurrent
    <3>3. acked' = acked /\ hist' = hist
      BY <1>u
    <3> QED
      BY <3>2, <3>3 DEF EntriesCurrent, ReadSince, Version, VerdictAt
  <2> HIDE DEF q
  <2> QED
    BY <1>1, <1>2, <1>u, <2>6, <2>7, <2>8, RequestStep
<1> QED
  BY <1>3, <1>4

-----------------------------------------------------------------------------
(* A commit appends a version; what was read before is still in range. *)
LEMMA ReadSinceAppend ==
  ASSUME TypeOK, NEW k \in Keys, NEW value \in Row,
         hist' = [hist EXCEPT ![k] = Append(@, value)],
         NEW h \in Keys, NEW lo \in Nat \ {0}, NEW b,
         \E v \in lo..Len(hist[h]) : b = (hist[h][v] = "enabled")
  PROVE  \E v \in lo..Len(hist'[h]) : b = (hist'[h][v] = "enabled")
<1>1. PICK v \in lo..Len(hist[h]) : b = (hist[h][v] = "enabled")
  OBVIOUS
<1>2. /\ hist[h] \in Seq(Row) /\ hist'[h] \in Seq(Row)
      /\ Len(hist'[h]) >= Len(hist[h])
      /\ \A i \in 1..Len(hist[h]) : hist'[h][i] = hist[h][i]
  BY DEF TypeOK
<1>3. v \in lo..Len(hist'[h]) /\ hist'[h][v] = hist[h][v]
  BY <1>2
<1> QED
  BY <1>1, <1>3

LEMMA CommitIInv ==
  ASSUME IInv, NEW a \in Admins, NEW k \in Keys, NEW value \in Row, NEW all \in BOOLEAN,
         Commit(a, k, value, all)
  PROVE  IInv'
<1> USE DEF IInv
<1>0. /\ hist' = [hist EXCEPT ![k] = Append(@, value)]
      /\ changes' = changes + 1 /\ changes < MaxChanges
      /\ adm[a].pc = "idle"
      /\ adm' = [adm EXCEPT ![a] = [pc  |-> "invalidate", key |-> k,
                                    all |-> all, ver |-> Version(k) + 1]]
      /\ now' = now /\ acked' = acked /\ entries' = entries
      /\ generation' = generation /\ req' = req
  BY DEF Commit
<1>1. \A h \in Keys :
        /\ Version(h) \in Nat /\ hist'[h] \in Seq(Row)
        /\ Version(h)' = IF h = k THEN Version(h) + 1 ELSE Version(h)
  BY <1>0 DEF TypeOK, Version
<1>2. TypeOK'
  BY <1>0, <1>1, BoundsAssumption, SMTT(30) DEF TypeOK, Admin, Version
<1>3. AckedInRange'
  BY <1>0, <1>1 DEF AckedInRange
<1>4. NewestPending'
  <2> SUFFICES ASSUME NEW h \in Keys
               PROVE  \/ acked'[h] = Version(h)'
                      \/ \E b \in Admins : /\ adm'[b].pc = "invalidate"
                                            /\ adm'[b].key = h
                                            /\ adm'[b].ver = Version(h)'
    BY DEF NewestPending
  <2>1. CASE h = k
    BY <1>0, <1>1, <2>1 DEF TypeOK
  <2>2. CASE h # k /\ acked[h] = Version(h)
    BY <1>0, <1>1, <2>2
  <2>3. CASE h # k /\ acked[h] # Version(h)
    <3>1. PICK b \in Admins : adm[b].pc = "invalidate" /\ adm[b].key = h
                               /\ adm[b].ver = Version(h)
      BY <2>3 DEF NewestPending
    <3>2. adm'[b] = adm[b]
      BY <1>0, <3>1 DEF TypeOK
    <3> QED
      BY <1>1, <2>3, <3>1, <3>2
  <2> QED
    BY <2>1, <2>2, <2>3
<1>5. PendingInRange'
  BY <1>0, <1>1 DEF PendingInRange, TypeOK
<1>6. EntriesCurrent'
  <2> SUFFICES ASSUME NEW h \in DOMAIN entries
               PROVE  ReadSince(h, acked[h], entries[h].valid)'
    BY <1>0 DEF EntriesCurrent
  <2>1. h \in Keys /\ acked[h] \in Nat \ {0} /\ ReadSince(h, acked[h], entries[h].valid)
    BY <1>1 DEF TypeOK, EntriesCurrent, AckedInRange
  <2> QED
    BY <1>0, <2>1, ReadSinceAppend DEF ReadSince, Version, VerdictAt
<1>7. RequestsOK'
  <2> SUFFICES ASSUME NEW r \in Requests PROVE RequestOK(req[r])'
    BY DEF RequestsOK
  <2>1. RequestOK(req[r])
    BY DEF RequestsOK
  <2>2. ASSUME NEW lo \in Nat \ {0}, req[r].key \in Keys,
               ReadSince(req[r].key, lo, req[r].verdict)
        PROVE  \E v \in lo..Len(hist'[req[r].key]) :
                 req[r].verdict = (hist'[req[r].key][v] = "enabled")
    BY <1>0, <2>2, ReadSinceAppend DEF ReadSince, Version, VerdictAt
  <2>3. req[r].pc # "idle" => acked[req[r].key] \in Nat \ {0} /\ req[r].floor \in Nat \ {0}
    BY <1>1, <2>1 DEF RequestOK, AckedInRange
  <2> QED
    BY <1>0, <2>1, <2>2, <2>3 DEF RequestOK, ReadSince, Version, VerdictAt
<1> QED
  BY <1>2, <1>3, <1>4, <1>5, <1>6, <1>7

(* The invalidation: the version becomes acknowledged, the entries of its  *)
(* row go, and the new generation makes every answer in flight stale.      *)
LEMMA AdminInvalidateIInv ==
  ASSUME IInv, NEW a \in Admins, AdminInvalidate(a) PROVE IInv'
<1> USE DEF IInv
<1> DEFINE k == adm[a].key
           top == IF adm[a].ver > acked[k] THEN adm[a].ver ELSE acked[k]
<1>0. /\ adm[a].pc = "invalidate" /\ k \in Keys
      /\ acked' = [acked EXCEPT ![k] = top]
      /\ adm' = [adm EXCEPT ![a] = IdleAdmin]
      /\ now' = now /\ hist' = hist /\ changes' = changes /\ req' = req
      /\ generation \in Nat /\ generation' = generation + 1
  BY DEF AdminInvalidate, InvalidateAll, Invalidate, TypeOK
<1>1. \A h \in Keys : Version(h)' = Version(h) /\ Version(h) \in Nat
  BY <1>0 DEF Version, TypeOK
<1>2. /\ top \in 1..Version(k) /\ acked[k] <= top /\ adm[a].ver <= top
      /\ adm[a].ver \in Nat
  BY <1>0, <1>1 DEF AckedInRange, PendingInRange, TypeOK, Admin
<1>3. /\ DOMAIN entries' \in SUBSET (DOMAIN entries \ {k})
      /\ entries' = [h \in DOMAIN entries' |-> entries[h]]
  <2>1. CASE adm[a].all
    <3>1. entries' = [h \in {} |-> entries[h]]
      BY <2>1 DEF AdminInvalidate, InvalidateAll
    <3>2. DOMAIN entries' = {}
      BY <3>1
    <3> QED
      BY <3>1, <3>2
  <2>2. CASE ~adm[a].all
    <3>1. entries' = [h \in DOMAIN entries \ {k} |-> entries[h]]
      BY <2>2 DEF AdminInvalidate, Invalidate, Without
    <3> QED
      BY <3>1
  <2> QED
    BY <2>1, <2>2
<1> HIDE DEF top
<1>4. TypeOK'
  <2>1. acked' \in [Keys -> Nat]
    BY <1>0, <1>1, <1>2 DEF TypeOK
  <2>2. DOMAIN entries' \in SUBSET Keys /\ entries' \in [DOMAIN entries' -> Entry]
    BY <1>3 DEF TypeOK
  <2>3. IdleAdmin \in Admin /\ IdleAdmin.pc = "idle"
    BY DEF Admin, IdleAdmin
  <2>4. adm' \in [Admins -> Admin]
    BY <1>0, <2>3 DEF TypeOK
  <2> QED
    BY <1>0, <2>1, <2>2, <2>3, <2>4 DEF TypeOK
<1>5. AckedInRange'
  BY <1>0, <1>1, <1>2 DEF AckedInRange, TypeOK
<1>6. NewestPending'
  <2> SUFFICES ASSUME NEW h \in Keys, acked'[h] # Version(h)
               PROVE  \E b \in Admins : /\ adm'[b].pc = "invalidate"
                                        /\ adm'[b].key = h
                                        /\ adm'[b].ver = Version(h)
    BY <1>1 DEF NewestPending
  <2>1. acked[h] # Version(h)
    BY <1>0, <1>1, <1>2 DEF TypeOK
  <2>2. PICK b \in Admins : adm[b].pc = "invalidate" /\ adm[b].key = h
                            /\ adm[b].ver = Version(h)
    BY <2>1 DEF NewestPending
  <2>3. b # a
    BY <1>0, <1>1, <1>2, <2>2 DEF TypeOK
  <2> QED
    BY <1>0, <2>2, <2>3 DEF TypeOK
<1>7. PendingInRange'
  BY <1>0, <1>1 DEF PendingInRange, TypeOK, IdleAdmin
<1>8. EntriesCurrent'
  <2>1. \A h \in DOMAIN entries' :
          /\ h \in Keys /\ acked'[h] = acked[h] /\ entries'[h] = entries[h]
          /\ ReadSince(h, acked[h], entries[h].valid)
    BY <1>0, <1>3 DEF TypeOK, EntriesCurrent
  <2> QED
    BY <1>0, <2>1 DEF EntriesCurrent, ReadSince, Version, VerdictAt
<1>9. RequestsOK'
  <2> SUFFICES ASSUME NEW r \in Requests PROVE RequestOK(req[r])'
    BY DEF RequestsOK
  <2>1. RequestOK(req[r])
    BY DEF RequestsOK
  <2>2. req[r].pc # "idle" => acked'[req[r].key] \in Nat /\ acked[req[r].key] <= acked'[req[r].key]
    BY <1>0, <1>1, <1>2, <2>1 DEF RequestOK, TypeOK
  <2>3. req[r].gen \in Nat
    BY <2>1 DEF RequestOK, Request
  <2>4. req[r].pc \in {"query", "set"} => req[r].gen <= generation' /\ req[r].gen # generation'
    BY <1>0, <2>1, <2>3 DEF RequestOK
  <2>5. req[r].pc # "idle" => req[r].key \in Keys /\ req[r].floor \in 1..acked'[req[r].key]
    BY <2>1, <2>2 DEF RequestOK, TypeOK
  <2> QED
    BY <1>0, <2>1, <2>4, <2>5 DEF RequestOK, ReadSince, Version, VerdictAt
<1> QED
  BY <1>4, <1>5, <1>6, <1>7, <1>8, <1>9

(* Ticking changes nothing that the invariant speaks of but the clock. *)
LEMMA TickIInv == ASSUME IInv, Tick \/ UNCHANGED vars PROVE IInv'
<1>0. /\ hist' = hist /\ acked' = acked /\ entries' = entries /\ changes' = changes
      /\ generation' = generation /\ req' = req /\ adm' = adm
  BY DEF Tick, vars
<1>1. now' \in 0..MaxTime
  BY BoundsAssumption DEF Tick, vars, IInv, TypeOK
<1>2. TypeOK'
  BY <1>0, <1>1 DEF IInv, TypeOK
<1>3. AckedInRange' /\ NewestPending' /\ PendingInRange'
  BY <1>0 DEF IInv, AckedInRange, NewestPending, PendingInRange, Version
<1>4. EntriesCurrent'
  BY <1>0 DEF IInv, EntriesCurrent, ReadSince, Version, VerdictAt
<1>5. RequestsOK'
  BY <1>0 DEF IInv, RequestsOK, RequestOK, ReadSince, Version, VerdictAt
<1> QED
  BY <1>2, <1>3, <1>4, <1>5 DEF IInv

LEMMA NextIInv == IInv /\ [Next]_vars => IInv'
<1> SUFFICES ASSUME IInv, [Next]_vars PROVE IInv'
  OBVIOUS
<1>1. ASSUME NEW r \in Requests, Verify(r) PROVE IInv'
  BY <1>1, VerifyBeginIInv, VerifyGetIInv, VerifyEvictIInv, CurrentGenerationIInv,
     VerifyQueryIInv, VerifyQueryErrorIInv, VerifySetIInv, VerifyReturnIInv DEF Verify
<1>2. ASSUME NEW a \in Admins, Change(a) PROVE IInv'
  BY <1>2, CommitIInv, AdminInvalidateIInv
  DEF Change, CreateClientKey, UpdateClientKey, DeleteClientKey, Row, Live
<1> QED
  BY <1>1, <1>2, TickIInv DEF Next

-----------------------------------------------------------------------------
(* The cache, the rows and every call in progress stay well formed. *)
THEOREM TypeCorrect == Spec => []TypeOK
<1>1. IInv => TypeOK
  BY DEF IInv
<1> QED
  BY <1>1, InitIInv, NextIInv, PTL DEF Spec

(* Once UpdateClientKey or DeleteClientKey has returned, no VerifyClientKey *)
(* call that starts later answers from before the change, however the      *)
(* calls interleave.                                                       *)
THEOREM RevokeVisible == Spec => []RevokeTakesEffect
<1>1. IInv => RevokeTakesEffect
  BY DEF IInv, RequestsOK, RequestOK, ReadSince, RevokeTakesEffect
<1> QED
  BY <1>1, InitIInv, NextIInv, PTL DEF Spec

(* A cached answer whose row has no change on its way is the row's. *)
THEOREM CacheAgreesWithRows == Spec => []CacheCoherent
<1>1. IInv => CacheCoherent
  <2> SUFFICES ASSUME IInv, NEW k \in DOMAIN entries, Settled(k)
               PROVE  entries[k].valid = VerdictAt(k, Version(k))
    BY DEF CacheCoherent
  <2>1. k \in Keys /\ acked[k] = Version(k) /\ Version(k) \in Nat
    BY DEF IInv, TypeOK, NewestPending, Settled, Version
  <2> QED
    BY <2>1 DEF IInv, EntriesCurrent, ReadSince
<1> QED
  BY <1>1, InitIInv, NextIInv, PTL DEF Spec

-----------------------------------------------------------------------------
(* set() writes into a map it has made room in. *)
LEMMA StoreBounded ==
  ASSUME TypeOK, CacheBounded, NEW k \in Keys, NEW valid, Store(k, valid)
  PROVE  CacheBounded'
<1> DEFINE D == DOMAIN entries
<1>0. IsFiniteSet(D) /\ Cardinality(D) \in Nat /\ Cardinality(D) <= MaxEntries
  BY KeysAssumption, FS_Subset, FS_CardinalityType DEF TypeOK, CacheBounded
<1>1. PICK out \in Victims :
        entries' = [h \in (D \ out) \cup {k} |->
                      IF h = k THEN [valid |-> valid, expiresAt |-> now + TTL]
                               ELSE entries[h]]
  BY DEF Store
<1>2. DOMAIN entries' = (D \ out) \cup {k}
  BY <1>1
<1>3. CASE Cardinality(D) < MaxEntries
  <2>1. out = {}
    BY <1>3, <1>1 DEF Victims
  <2>2. DOMAIN entries' = D \cup {k}
    BY <1>2, <2>1
  <2>3. Cardinality(D \cup {k}) <= Cardinality(D) + 1
    BY <1>0, FS_AddElement
  <2>4. Cardinality(D \cup {k}) \in Nat
    BY <1>0, FS_AddElement, FS_CardinalityType
  <2> QED
    BY <1>0, <1>3, <2>2, <2>3, <2>4, BoundsAssumption DEF CacheBounded
<1>4. CASE ~(Cardinality(D) < MaxEntries)
  <2>1. PICK h \in D : out = {h}
    BY <1>1, <1>4 DEF Victims
  <2>2. /\ IsFiniteSet(D \ {h}) /\ Cardinality(D \ {h}) = Cardinality(D) - 1
    BY <1>0, <2>1, FS_RemoveElement
  <2>3. Cardinality((D \ {h}) \cup {k}) <= Cardinality(D)
    <3>1. Cardinality((D \ {h}) \cup {k}) \in {Cardinality(D \ {h}), Cardinality(D \ {h}) + 1}
      BY <2>2, FS_AddElement
    <3> QED
      BY <1>0, <2>2, <3>1
  <2>4. Cardinality((D \ {h}) \cup {k}) \in Nat
    BY <2>2, FS_AddElement, FS_CardinalityType
  <2>5. DOMAIN entries' = (D \ {h}) \cup {k}
    BY <1>2, <2>1
  <2> QED
    BY <1>0, <2>3, <2>4, <2>5, BoundsAssumption DEF CacheBounded
<1> QED
  BY <1>3, <1>4

(* clientKeyVerifyMaxEntries is never exceeded. *)
THEOREM CacheNeverOverflows == Spec => []CacheBounded
<1>1. Init => CacheBounded
  <2>1. Init => DOMAIN entries = {}
    BY DEF Init
  <2> QED
    BY <2>1, FS_EmptySet, BoundsAssumption DEF CacheBounded
<1>2. IInv /\ CacheBounded /\ [Next]_vars => CacheBounded'
  <2> SUFFICES ASSUME IInv, CacheBounded, [Next]_vars PROVE CacheBounded'
    OBVIOUS
  <2>0. IsFiniteSet(DOMAIN entries) /\ Cardinality(DOMAIN entries) \in Nat
    BY KeysAssumption, FS_Subset, FS_CardinalityType DEF IInv, TypeOK
  <2>1. ASSUME DOMAIN entries' \in SUBSET DOMAIN entries PROVE CacheBounded'
    BY <2>0, <2>1, FS_Subset, FS_CardinalityType, BoundsAssumption DEF CacheBounded
  <2>2. ASSUME NEW r \in Requests, VerifySet(r) PROVE CacheBounded'
    <3>1. CASE req[r].gen = generation
      <4>1. req[r].key \in Keys
        BY <2>2 DEF VerifySet, IInv, TypeOK
      <4>2. Store(req[r].key, req[r].verdict)
        BY <2>2, <3>1 DEF VerifySet, CacheSet
      <4> QED
        BY <4>1, <4>2, StoreBounded DEF IInv
    <3>2. CASE req[r].gen # generation
      BY <2>1, <2>2, <3>2 DEF VerifySet, CacheSet
    <3> QED
      BY <3>1, <3>2
  <2>3. ASSUME NEW r \in Requests, Verify(r), ~VerifySet(r) PROVE CacheBounded'
    BY <2>1, <2>3 DEF Verify, VerifyBegin, VerifyGet, VerifyEvict, Without,
         CurrentGeneration, VerifyQuery, VerifyQueryError, VerifyReturn
  <2>4. ASSUME NEW a \in Admins, Change(a) PROVE CacheBounded'
    <3>1. CASE AdminInvalidate(a)
      <4>1. CASE adm[a].all
        BY <2>1, <3>1, <4>1 DEF AdminInvalidate, InvalidateAll
      <4>2. CASE ~adm[a].all
        BY <2>1, <3>1, <4>2 DEF AdminInvalidate, Invalidate, Without
      <4> QED
        BY <4>1, <4>2
    <3>2. CASE ~AdminInvalidate(a)
      BY <2>1, <2>4, <3>2
      DEF Change, CreateClientKey, UpdateClientKey, DeleteClientKey, Commit
    <3> QED
      BY <3>1, <3>2
  <2>5. CASE Tick \/ UNCHANGED vars
    BY <2>1, <2>5 DEF Tick, vars
  <2> QED
    BY <2>2, <2>3, <2>4, <2>5 DEF Next
<1> QED
  BY <1>1, <1>2, InitIInv, NextIInv, PTL DEF Spec

(* The cache, the rows and every call in progress stay well formed, and    *)
(* concurrent misses never insert beyond clientKeyVerifyMaxEntries.        *)
THEOREM CacheTypes == Spec => []CacheTypeOK
BY TypeCorrect, CacheNeverOverflows, PTL DEF CacheTypeOK
=============================================================================
