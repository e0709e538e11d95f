---------------------------- MODULE ShutdownProofs ----------------------------
(***************************************************************************)
(* The two owners of background goroutines, for any number of goroutines,  *)
(* keys, providers and any queue and batch size: the usage recorder        *)
(* (ClientKeyUsage, as Usage) and the refreshers (ProviderManager).        *)
(***************************************************************************)
EXTENDS MCShutdown, SequenceTheorems, FiniteSetTheorems, TLAPS

-----------------------------------------------------------------------------
(* How often a value occurs in a sequence *)

Places(q, k) == {i \in 1..Len(q) : q[i] = k}

Occurrences(q, k) == Cardinality(Places(q, k))

LEMMA PlacesFinite ==
  ASSUME NEW S, NEW q \in Seq(S), NEW k
  PROVE  IsFiniteSet(Places(q, k)) /\ Occurrences(q, k) \in Nat
<1>1. Len(q) \in Nat  OBVIOUS
<1>2. IsFiniteSet(1..Len(q))  BY <1>1, FS_Interval
<1>3. Places(q, k) \in SUBSET (1..Len(q))  BY DEF Places
<1>4. IsFiniteSet(Places(q, k))  BY <1>2, <1>3, FS_Subset
<1> QED  BY <1>4, FS_CardinalityType DEF Occurrences

LEMMA OccurrencesEmpty == ASSUME NEW k PROVE Occurrences(<<>>, k) = 0
<1>1. Places(<<>>, k) = {}  BY DEF Places
<1> QED  BY <1>1, FS_EmptySet DEF Occurrences

LEMMA OccurrencesAppend ==
  ASSUME NEW S, NEW q \in Seq(S), NEW h \in S, NEW k
  PROVE  Occurrences(Append(q, h), k) = Occurrences(q, k) + (IF h = k THEN 1 ELSE 0)
<1> DEFINE n == Len(q)
<1>1. n \in Nat  OBVIOUS
<1>2. Places(Append(q, h), k) = IF h = k THEN Places(q, k) \cup {n + 1} ELSE Places(q, k)
  BY AppendProperties DEF Places
<1>3. n + 1 \notin Places(q, k)  BY <1>1 DEF Places
<1>4. IsFiniteSet(Places(q, k)) /\ Occurrences(q, k) \in Nat  BY PlacesFinite
<1>5. Cardinality(Places(q, k) \cup {n + 1}) = Cardinality(Places(q, k)) + 1
  BY <1>3, <1>4, FS_AddElement
<1> QED  BY <1>2, <1>4, <1>5 DEF Occurrences

LEMMA OccurrencesTail ==
  ASSUME NEW S, NEW q \in Seq(S), q # <<>>, NEW k
  PROVE  Occurrences(q, k) = Occurrences(Tail(q), k) + (IF Head(q) = k THEN 1 ELSE 0)
<1> DEFINE A == Places(Tail(q), k)
           B == Places(q, k) \ {1}
           f == [i \in A |-> i + 1]
<1>1. /\ Tail(q) \in Seq(S) /\ Len(q) \in Nat /\ Len(q) >= 1 /\ Len(Tail(q)) = Len(q) - 1
      /\ \A i \in 1..Len(Tail(q)) : Tail(q)[i] = q[i + 1]
  BY HeadTailProperties
<1>2. IsFiniteSet(A) /\ IsFiniteSet(Places(q, k)) /\ Occurrences(Tail(q), k) \in Nat
  BY <1>1, PlacesFinite
<1>3. \A i \in A : i \in Nat /\ i + 1 \in B  BY <1>1 DEF Places
<1>4. \A j \in B : j \in Nat /\ j - 1 \in A /\ (j - 1) + 1 = j
  <2> SUFFICES ASSUME NEW j \in B  PROVE j \in Nat /\ j - 1 \in A /\ (j - 1) + 1 = j
    OBVIOUS
  <2>1. j \in 2..Len(q) /\ q[j] = k  BY <1>1 DEF Places
  <2>2. j - 1 \in 1..Len(Tail(q)) /\ (j - 1) + 1 = j  BY <1>1, <2>1
  <2> QED  BY <1>1, <2>1, <2>2 DEF Places
<1>5. f \in Bijection(A, B)
  <2>1. f \in [A -> B]  BY <1>3
  <2>2. \A a, b \in A : f[a] = f[b] => a = b  BY <1>3
  <2>3. \A j \in B : \E i \in A : f[i] = j  BY <1>4
  <2> QED  BY <2>1, <2>2, <2>3 DEF Bijection, Injection, Surjection, IsInjective
<1>6. Cardinality(B) = Cardinality(A)  BY <1>2, <1>5, FS_Bijection DEF ExistsBijection
<1>7. 1 \in Places(q, k) <=> Head(q) = k  BY <1>1 DEF Places
<1>8. Cardinality(B) = IF 1 \in Places(q, k) THEN Cardinality(Places(q, k)) - 1
                       ELSE Cardinality(Places(q, k))
  BY <1>2, FS_RemoveElement
<1>9. Cardinality(Places(q, k)) \in Nat  BY <1>2, FS_CardinalityType
<1> QED  BY <1>2, <1>6, <1>7, <1>8, <1>9 DEF Occurrences

-----------------------------------------------------------------------------
(* The usage recorder *)

Counts == [Keys -> Nat]

SenderType == [pc : {"idle", "send"}, key : Keys \cup {Usage!AnyKey},
               last : {"none", "nil", "closed", "ctx"}]

UsageTypeOK ==
    /\ queue \in Seq(Keys)
    /\ closed \in BOOLEAN
    /\ pending \in Counts /\ accepted \in Counts /\ persisted \in Counts /\ lost \in Counts
    /\ runner \in {"select", "flush", "drain", "done"}
    /\ prod \in [Producers -> SenderType]
    /\ closer \in [Closers -> {"idle", "once", "wait", "db", "done"}]
    /\ dbOpen \in BOOLEAN

(* A touch that is being sent has a key. *)
SendsAKey == \A p \in Producers : prod[p].pc = "send" => prod[p].key \in Keys

(* The channel, the batch, the database and the log of failures hold what  *)
(* was accepted.                                                           *)
Conserved ==
    \A k \in Keys :
      accepted[k] = Occurrences(queue, k) + pending[k] + persisted[k] + lost[k]

(* The order of the shutdown: the channel is closed and drained before the *)
(* last flush, the batch is empty behind it, and only then does a Close    *)
(* call reach the database.                                                *)
CloseOrder ==
    /\ runner \in {"drain", "done"} => closed /\ queue = <<>>
    /\ runner = "done" => \A k \in Keys : pending[k] = 0
    /\ \A c \in Closers : closer[c] \in {"db", "done"} => runner = "done"
    /\ ~dbOpen => runner = "done"

UsageInv == UsageTypeOK /\ SendsAKey /\ Conserved /\ CloseOrder

LEMMA BumpIs ==
  ASSUME NEW f \in Counts, NEW k \in Keys
  PROVE  /\ Usage!Bump(f, k) \in Counts
         /\ \A j \in Keys : Usage!Bump(f, k)[j] = f[j] + (IF j = k THEN 1 ELSE 0)
BY DEF Counts, Usage!Bump

(* How a call of Enqueue ends: with no touch in hand. *)
LEMMA Idle ==
  ASSUME NEW l \in {"none", "nil", "closed", "ctx"}
  PROVE  [pc |-> "idle", key |-> Usage!AnyKey, last |-> l] \in SenderType
BY DEF SenderType

(* The steps of Enqueue that leave the channel alone. *)
LEMMA EnqueueInv ==
  ASSUME UsageInv, NEW p \in Producers,
         (\E k \in Keys : Usage!EnqueueBegin(p, k)) \/ Usage!EnqueueRecover(p)
           \/ Usage!EnqueueCtxDone(p)
  PROVE  UsageInv'
<1>u. UNCHANGED <<queue, closed, pending, runner, closer, dbOpen, accepted, persisted, lost>>
  BY DEF Usage!EnqueueBegin, Usage!EnqueueRecover, Usage!EnqueueCtxDone
<1>1. PICK q \in SenderType : prod' = [prod EXCEPT ![p] = q] /\ (q.pc = "send" => q.key \in Keys)
  <2>1. ASSUME NEW l \in {"closed", "ctx"}, Usage!EndEnqueue(p, l)
        PROVE  \E q \in SenderType : prod' = [prod EXCEPT ![p] = q] /\ (q.pc = "send" => q.key \in Keys)
    <3> DEFINE q == [pc |-> "idle", key |-> Usage!AnyKey, last |-> l]
    <3>1. q \in SenderType  BY Idle
    <3>2. prod' = [prod EXCEPT ![p] = q] /\ q.pc # "send"  BY <2>1 DEF Usage!EndEnqueue
    <3> QED  BY <3>1, <3>2
  <2>2. ASSUME NEW k \in Keys, Usage!EnqueueBegin(p, k)
        PROVE  \E q \in SenderType : prod' = [prod EXCEPT ![p] = q] /\ (q.pc = "send" => q.key \in Keys)
    <3> DEFINE q == [pc |-> "send", key |-> k, last |-> "none"]
    <3>1. q \in SenderType  BY DEF SenderType
    <3>2. CASE closed  BY <2>1, <2>2, <3>2 DEF Usage!EnqueueBegin, Usage!EndEnqueue
    <3>3. CASE ~closed
      <4>1. prod' = [prod EXCEPT ![p] = q] /\ q.key \in Keys  BY <2>2, <3>3 DEF Usage!EnqueueBegin
      <4> QED  BY <3>1, <4>1
    <3> QED  BY <3>2, <3>3
  <2> QED  BY <2>1, <2>2 DEF Usage!EnqueueRecover, Usage!EnqueueCtxDone
<1>2. UsageTypeOK'  BY <1>u, <1>1 DEF UsageInv, UsageTypeOK
<1>3. SendsAKey'
  <2> SUFFICES ASSUME NEW r \in Producers  PROVE prod'[r].pc = "send" => prod'[r].key \in Keys
    BY DEF SendsAKey
  <2>1. prod'[r] = IF r = p THEN q ELSE prod[r]  BY <1>1 DEF UsageInv, UsageTypeOK
  <2> QED  BY <2>1, <1>1 DEF UsageInv, SendsAKey
<1>4. Conserved' /\ CloseOrder'  BY <1>u DEF UsageInv, Conserved, CloseOrder
<1> QED  BY <1>2, <1>3, <1>4 DEF UsageInv

(* An accepted touch is in the channel. *)
LEMMA EnqueueSendInv ==
  ASSUME UsageInv, NEW p \in Producers, Usage!EnqueueSend(p)
  PROVE  UsageInv'
<1> DEFINE h == prod[p].key
<1>t. UsageTypeOK /\ Conserved /\ CloseOrder  BY DEF UsageInv
<1>h. h \in Keys  BY DEF UsageInv, SendsAKey, Usage!EnqueueSend
<1>q. queue' = Append(queue, h) /\ accepted' = Usage!Bump(accepted, h) /\ ~closed
  BY DEF Usage!EnqueueSend
<1>u. UNCHANGED <<closed, pending, runner, closer, dbOpen, persisted, lost>>
  BY DEF Usage!EnqueueSend
<1>1. queue' \in Seq(Keys) /\ accepted' \in Counts
  BY <1>t, <1>h, <1>q, BumpIs DEF UsageTypeOK
<1>2. UsageTypeOK'
  BY <1>t, <1>1, <1>u, Idle DEF UsageTypeOK, Usage!EnqueueSend, Usage!EndEnqueue
<1>3. SendsAKey'
  BY DEF UsageInv, UsageTypeOK, SendsAKey, Usage!EnqueueSend, Usage!EndEnqueue
<1>4. Conserved'
  <2> SUFFICES ASSUME NEW k \in Keys
               PROVE  accepted'[k] = Occurrences(queue', k) + pending'[k] + persisted'[k] + lost'[k]
    BY DEF Conserved
  <2>1. accepted'[k] = accepted[k] + (IF k = h THEN 1 ELSE 0)
    BY <1>t, <1>h, <1>q, BumpIs DEF UsageTypeOK
  <2>2. Occurrences(queue', k) = Occurrences(queue, k) + (IF h = k THEN 1 ELSE 0)
    BY <1>t, <1>h, <1>q, OccurrencesAppend DEF UsageTypeOK
  <2>3. accepted[k] = Occurrences(queue, k) + pending[k] + persisted[k] + lost[k]
    BY <1>t DEF Conserved
  <2>4. Occurrences(queue, k) \in Nat  BY <1>t, PlacesFinite DEF UsageTypeOK
  <2>5. pending[k] \in Nat /\ persisted[k] \in Nat /\ lost[k] \in Nat
    BY <1>t DEF UsageTypeOK, Counts
  <2> QED  BY <1>u, <2>1, <2>2, <2>3, <2>4, <2>5
<1>5. CloseOrder'  BY <1>t, <1>q, <1>u DEF CloseOrder
<1> QED  BY <1>2, <1>3, <1>4, <1>5 DEF UsageInv

(* A received touch is in the batch. *)
LEMMA ReceiveInv ==
  ASSUME UsageInv, Usage!Receive
  PROVE  UsageInv'
<1> DEFINE h == Head(queue)
<1>t. UsageTypeOK /\ Conserved /\ CloseOrder  BY DEF UsageInv
<1>q. /\ queue # <<>> /\ queue' = Tail(queue) /\ pending' = Usage!Bump(pending, h)
      /\ runner = "select" /\ runner' \in {"select", "flush"}
  BY DEF Usage!Receive
<1>u. UNCHANGED <<closed, prod, closer, dbOpen, accepted, persisted, lost>>
  BY DEF Usage!Receive
<1>h. h \in Keys /\ queue' \in Seq(Keys)  BY <1>t, <1>q, HeadTailProperties DEF UsageTypeOK
<1>1. pending' \in Counts  BY <1>t, <1>h, <1>q, BumpIs DEF UsageTypeOK
<1>2. UsageTypeOK'  BY <1>t, <1>1, <1>h, <1>q, <1>u DEF UsageTypeOK
<1>3. SendsAKey'  BY <1>u DEF UsageInv, SendsAKey
<1>4. Conserved'
  <2> SUFFICES ASSUME NEW k \in Keys
               PROVE  accepted'[k] = Occurrences(queue', k) + pending'[k] + persisted'[k] + lost'[k]
    BY DEF Conserved
  <2>1. pending'[k] = pending[k] + (IF k = h THEN 1 ELSE 0)
    BY <1>t, <1>h, <1>q, BumpIs DEF UsageTypeOK
  <2>2. Occurrences(queue, k) = Occurrences(queue', k) + (IF h = k THEN 1 ELSE 0)
    BY <1>t, <1>q, OccurrencesTail DEF UsageTypeOK
  <2>3. accepted[k] = Occurrences(queue, k) + pending[k] + persisted[k] + lost[k]
    BY <1>t DEF Conserved
  <2>4. Occurrences(queue', k) \in Nat  BY <1>h, PlacesFinite
  <2>5. pending[k] \in Nat /\ persisted[k] \in Nat /\ lost[k] \in Nat
    BY <1>t DEF UsageTypeOK, Counts
  <2> QED  BY <1>u, <2>1, <2>2, <2>3, <2>4, <2>5
<1>5. CloseOrder'  BY <1>t, <1>q, <1>u DEF CloseOrder
<1> QED  BY <1>2, <1>3, <1>4, <1>5 DEF UsageInv

(* A batch goes to the database or to the log of failures, as a whole. *)
LEMMA FlushInv ==
  ASSUME UsageInv, Usage!Flush
  PROVE  UsageInv'
<1>t. UsageTypeOK /\ Conserved /\ CloseOrder  BY DEF UsageInv
<1>u. UNCHANGED <<queue, closed, prod, closer, dbOpen, accepted>>  BY DEF Usage!Flush
<1>r. /\ runner \in {"flush", "drain"} /\ pending' = Usage!Zero
      /\ runner' = IF runner = "drain" THEN "done" ELSE "select"
  BY DEF Usage!Flush
<1>b. \/ persisted' = Usage!Plus(persisted, pending) /\ lost' = lost
      \/ lost' = Usage!Plus(lost, pending) /\ persisted' = persisted
  BY DEF Usage!Flush
<1>1. pending' \in Counts /\ persisted' \in Counts /\ lost' \in Counts
  BY <1>t, <1>r, <1>b DEF UsageTypeOK, Counts, Usage!Zero, Usage!Plus
<1>2. UsageTypeOK'  BY <1>t, <1>u, <1>r, <1>1 DEF UsageTypeOK
<1>3. SendsAKey'  BY <1>u DEF UsageInv, SendsAKey
<1>4. Conserved'
  <2> SUFFICES ASSUME NEW k \in Keys
               PROVE  accepted'[k] = Occurrences(queue', k) + pending'[k] + persisted'[k] + lost'[k]
    BY DEF Conserved
  <2>1. accepted[k] = Occurrences(queue, k) + pending[k] + persisted[k] + lost[k]
    BY <1>t DEF Conserved
  <2>2. Occurrences(queue, k) \in Nat  BY <1>t, PlacesFinite DEF UsageTypeOK
  <2>3. pending[k] \in Nat /\ persisted[k] \in Nat /\ lost[k] \in Nat
    BY <1>t DEF UsageTypeOK, Counts
  <2>4. pending'[k] = 0  BY <1>r DEF Usage!Zero
  <2>5. persisted'[k] + lost'[k] = persisted[k] + lost[k] + pending[k]
    BY <1>b, <2>3 DEF Usage!Plus
  <2>6. persisted'[k] \in Nat /\ lost'[k] \in Nat  BY <1>1 DEF Counts
  <2> QED  BY <1>u, <2>1, <2>2, <2>3, <2>4, <2>5, <2>6
<1>5. CloseOrder'
  <2>1. \A k \in Keys : pending'[k] = 0  BY <1>r DEF Usage!Zero
  <2> QED  BY <1>t, <1>u, <1>r, <2>1 DEF CloseOrder, UsageTypeOK
<1> QED  BY <1>2, <1>3, <1>4, <1>5 DEF UsageInv

(* The steps that move no touch. *)
LEMMA RunnerInv ==
  ASSUME UsageInv, Usage!TickerFires \/ Usage!QueueClosed
  PROVE  UsageInv'
<1>u. UNCHANGED <<queue, closed, pending, prod, closer, dbOpen, accepted, persisted, lost>>
  BY DEF Usage!TickerFires, Usage!QueueClosed
<1>1. UsageTypeOK'
  BY <1>u DEF UsageInv, UsageTypeOK, Usage!TickerFires, Usage!QueueClosed
<1>2. SendsAKey' /\ Conserved'  BY <1>u DEF UsageInv, SendsAKey, Conserved
<1>3. CloseOrder'
  BY <1>u DEF UsageInv, CloseOrder, Usage!TickerFires, Usage!QueueClosed
<1> QED  BY <1>1, <1>2, <1>3 DEF UsageInv

LEMMA CloseInv ==
  ASSUME UsageInv, NEW c \in Closers, Usage!Close(c)
  PROVE  UsageInv'
<1> USE DEF Usage!Close, Usage!CloseContinues
<1>u. UNCHANGED <<queue, pending, runner, prod, accepted, persisted, lost>>
  BY DEF Usage!CloseBegin, Usage!CloseUsage, Usage!CloseWaited, Usage!CloseSQL
<1>1. UsageTypeOK'
  BY <1>u DEF UsageInv, UsageTypeOK, Usage!CloseBegin, Usage!CloseUsage, Usage!CloseWaited,
              Usage!CloseSQL
<1>2. SendsAKey' /\ Conserved'  BY <1>u DEF UsageInv, SendsAKey, Conserved
<1>3. CloseOrder'
  <2>t. UsageTypeOK /\ CloseOrder  BY DEF UsageInv
  <2>1. CASE Usage!CloseBegin(c)
    BY <2>t, <2>1, <1>u DEF UsageTypeOK, CloseOrder, Usage!CloseBegin
  <2>2. CASE Usage!CloseUsage(c)
    BY <2>t, <2>2, <1>u DEF UsageTypeOK, CloseOrder, Usage!CloseUsage
  <2>3. CASE Usage!CloseWaited(c)
    BY <2>t, <2>3, <1>u DEF UsageTypeOK, CloseOrder, Usage!CloseWaited
  <2>4. CASE Usage!CloseSQL(c)
    BY <2>t, <2>4, <1>u DEF UsageTypeOK, CloseOrder, Usage!CloseSQL
  <2> QED  BY <2>1, <2>2, <2>3, <2>4
<1> QED  BY <1>1, <1>2, <1>3 DEF UsageInv

(* Enqueue, the batching goroutine and Close keep account of every touch,  *)
(* also when a send meets the closed channel.                              *)
THEOREM UsageSafe == Usage!Spec => []UsageInv
<1>1. Usage!Init => UsageInv
  <2> SUFFICES ASSUME Usage!Init  PROVE UsageInv
    OBVIOUS
  <2>z. Usage!Zero \in Counts  BY DEF Usage!Zero, Counts
  <2>p. prod \in [Producers -> SenderType]  BY Idle DEF Usage!Init
  <2>q. queue \in Seq(Keys)  BY DEF Usage!Init
  <2>1. UsageTypeOK  BY <2>z, <2>p, <2>q DEF Usage!Init, UsageTypeOK
  <2>2. SendsAKey  BY DEF Usage!Init, SendsAKey
  <2>3. Conserved  BY OccurrencesEmpty DEF Usage!Init, Usage!Zero, Conserved
  <2>4. CloseOrder  BY DEF Usage!Init, CloseOrder
  <2> QED  BY <2>1, <2>2, <2>3, <2>4 DEF UsageInv
<1>2. UsageInv /\ [Usage!Next]_(Usage!vars) => UsageInv'
  <2> SUFFICES ASSUME UsageInv, [Usage!Next]_(Usage!vars)  PROVE UsageInv'
    OBVIOUS
  <2>1. ASSUME NEW p \in Producers, Usage!Enqueue(p)  PROVE UsageInv'
    BY <2>1, EnqueueInv, EnqueueSendInv DEF Usage!Enqueue
  <2>2. CASE Usage!Run  BY <2>2, ReceiveInv, FlushInv, RunnerInv DEF Usage!Run
  <2>3. CASE UNCHANGED Usage!vars
    BY <2>3 DEF Usage!vars, UsageInv, UsageTypeOK, SendsAKey, Conserved, CloseOrder
  <2> QED  BY <2>1, <2>2, <2>3, CloseInv DEF Usage!Next
<1> QED  BY <1>1, <1>2, PTL DEF Usage!Spec

(* No accepted touch is lost or counted twice, and all have been through   *)
(* their transaction when the database is closed.                          *)
THEOREM TouchesKept == Usage!Spec => []TouchesConserved
<1>1. UsageInv => TouchesConserved
  <2> SUFFICES ASSUME UsageInv, NEW k \in Keys
               PROVE  /\ accepted[k] = Usage!Queued(k) + pending[k] + persisted[k] + lost[k]
                      /\ ~dbOpen => accepted[k] = persisted[k] + lost[k]
    BY DEF TouchesConserved, Usage!TouchesConserved
  <2>1. Usage!Queued(k) = Occurrences(queue, k)  BY DEF Usage!Queued, Occurrences, Places, Cardinality, Usage!Cardinality
  <2>2. accepted[k] = Occurrences(queue, k) + pending[k] + persisted[k] + lost[k]
    BY DEF UsageInv, Conserved
  <2>3. ~dbOpen => queue = <<>> /\ pending[k] = 0  BY DEF UsageInv, CloseOrder
  <2>4. persisted[k] \in Nat /\ lost[k] \in Nat  BY DEF UsageInv, UsageTypeOK, Counts
  <2> QED  BY <2>1, <2>2, <2>3, <2>4, OccurrencesEmpty
<1> QED  BY <1>1, UsageSafe, PTL

-----------------------------------------------------------------------------
(* The refreshers *)

Refresher == [name : Names, obj : Nat, cancelled : BOOLEAN, pc : {"top", "call", "sleep", "done"}]

ManagerTypeOK ==
    /\ rows \in SUBSET Names
    /\ customs \in [Names -> Nat]
    /\ runs \in [Names -> Nat]
    /\ refs \in Seq(Refresher)
    /\ gen \in Nat
    /\ reb \in [Rebuilders -> [pc : {"idle", "read", "reconcile"}, rows : SUBSET Names]]
    /\ stop \in {"new", "serving", "shutdown", "cancel", "wait", "returned"}

Serving == stop \in {"serving", "shutdown"}

(* Before Start there is nothing, Stop takes the context and the cancel    *)
(* functions together, and cancels everything before it waits.             *)
StopOrder ==
    /\ (runCtx = "live") <=> Serving
    /\ stop = "new" => refs = <<>> /\ \A r \in Rebuilders : reb[r].pc = "idle"
    /\ ~Serving => \A n \in Names : runs[n] = 0
    /\ stop \in {"wait", "returned"} => \A i \in 1..Len(refs) : refs[i].cancelled

(* A cancel function belongs to a refresher that was started. *)
HandlesValid == \A n \in Names : runs[n] # 0 => runs[n] \in 1..Len(refs)

ManagerInv == ManagerTypeOK /\ StopOrder /\ HandlesValid /\ OneRefresher /\ StopJoins

(* A finite set laid out as a sequence: each element at one place. *)
LEMMA SetToSeqIs ==
  ASSUME NEW S, IsFiniteSet(S)
  PROVE  /\ SetToSeq(S) \in Seq(S)
         /\ Len(SetToSeq(S)) = Cardinality(S)
         /\ \A i, j \in 1..Cardinality(S) : SetToSeq(S)[i] = SetToSeq(S)[j] => i = j
         /\ \A x \in S : \E i \in 1..Cardinality(S) : SetToSeq(S)[i] = x
<1> DEFINE n == Cardinality(S)
           s == SetToSeq(S)
<1>1. n \in Nat /\ ExistsBijection(1..n, S)  BY FS_CardinalityType
<1>2. \E f \in [1..n -> S] : IsInjective(f)  BY <1>1 DEF ExistsBijection, Bijection, Injection
<1>3. s \in [1..n -> S] /\ IsInjective(s)  BY <1>2 DEF SetToSeq
<1>4. s \in Injection(1..n, S)  BY <1>3 DEF Injection
<1>5. Cardinality(1..n) = n  BY <1>1, FS_Interval
<1>6. s \in Surjection(1..n, S)  BY <1>4, <1>5, FS_Injection
<1> HIDE DEF s, n
<1>7. s \in Seq(S) /\ Len(s) = n  BY <1>1, <1>3
<1>8. \A i, j \in 1..n : s[i] = s[j] => i = j  BY <1>3 DEF IsInjective
<1>9. \A x \in S : \E i \in 1..n : s[i] = x  BY <1>6 DEF Surjection
<1> QED  BY <1>7, <1>8, <1>9 DEF s, n

(* The refreshers that startOne makes: one for each live upstream, on its  *)
(* object, and Position finds it.                                          *)
LEMMA StartedIs ==
  ASSUME customs \in [Names -> Nat]
  PROVE  /\ Started \in Seq(Refresher)
         /\ \A i \in 1..Len(Started) :
              /\ Started[i].name \in Live
              /\ Started[i].obj = customs[Started[i].name]
              /\ Position(Started[i].name) = i
         /\ \A n \in Live :
              Position(n) \in 1..Len(Started) /\ Started[Position(n)].name = n
<1> DEFINE new(n) == [name |-> n, obj |-> customs[n], cancelled |-> FALSE, pc |-> "top"]
           S == {new(n) : n \in Live}
           f == [n \in Live |-> new(n)]
<1>1. IsFiniteSet(Live)
  BY ManagerAssumption, FS_Subset DEF Live
<1>2. f \in Bijection(Live, S)
  <2>1. f \in [Live -> S]  OBVIOUS
  <2>2. \A a, b \in Live : f[a] = f[b] => a = b
    <3> SUFFICES ASSUME NEW a \in Live, NEW b \in Live, f[a] = f[b]  PROVE a = b
      OBVIOUS
    <3>1. new(a) = new(b)  OBVIOUS
    <3>2. new(a).name = new(b).name  BY <3>1
    <3> QED  BY <3>2
  <2>3. \A x \in S : \E n \in Live : f[n] = x  OBVIOUS
  <2> QED  BY <2>1, <2>2, <2>3 DEF Bijection, Injection, Surjection, IsInjective
<1>3. IsFiniteSet(S)  BY <1>1, <1>2, FS_Bijection DEF ExistsBijection
<1>4. Started = SetToSeq(S)  BY DEF Started
<1>5. ASSUME NEW x \in S
      PROVE  x.name \in Live /\ x.obj = customs[x.name] /\ x = new(x.name) /\ x \in Refresher
  <2>1. PICK n \in Live : x = new(n)  OBVIOUS
  <2>2. x.name = n /\ x.obj = customs[n]  BY <2>1
  <2>3. n \in Names /\ customs[n] \in Nat  BY DEF Live
  <2>4. new(n) \in Refresher  BY <2>3 DEF Refresher
  <2> QED  BY <2>1, <2>2, <2>4
<1> HIDE DEF S
<1>6. /\ Started \in Seq(S) /\ Len(Started) \in Nat
      /\ \A i, j \in 1..Len(Started) : Started[i] = Started[j] => i = j
      /\ \A x \in S : \E i \in 1..Len(Started) : Started[i] = x
  BY <1>3, <1>4, SetToSeqIs
<1>7. Started \in Seq(Refresher)
  <2>1. S \subseteq Refresher  BY <1>5
  <2> HIDE DEF Refresher
  <2> QED  BY <2>1, <1>6, SeqMonotonic
<1>8. \A i \in 1..Len(Started) : Started[i] \in S  BY <1>6
<1>9. ASSUME NEW i \in 1..Len(Started), NEW j \in 1..Len(Started), Started[i].name = Started[j].name
      PROVE  i = j
  <2>1. Started[i] = new(Started[i].name) /\ Started[j] = new(Started[j].name)  BY <1>5, <1>8
  <2>2. Started[i] = Started[j]  BY <2>1, <1>9
  <2> QED  BY <2>2, <1>6
<1>10. \A n \in Live : \E i \in 1..Len(Started) : Started[i].name = n
  <2> SUFFICES ASSUME NEW n \in Live  PROVE \E i \in 1..Len(Started) : Started[i].name = n
    OBVIOUS
  <2>1. new(n) \in S  BY DEF S
  <2>2. new(n).name = n  OBVIOUS
  <2> QED  BY <2>1, <2>2, <1>6
<1>11. \A n \in Live : Position(n) \in 1..Len(Started) /\ Started[Position(n)].name = n
  BY <1>10 DEF Position
<1>12. \A i \in 1..Len(Started) : Position(Started[i].name) = i
  BY <1>5, <1>8, <1>9, <1>11
<1> QED  BY <1>5, <1>7, <1>8, <1>11, <1>12

(* startOne for every live upstream, with the refreshers in c cancelled:   *)
(* the old ones stay where they are, and every live upstream has a handle  *)
(* on a new one.                                                           *)
LEMMA StartAllIs ==
  ASSUME customs \in [Names -> Nat], refs \in Seq(Refresher), NEW c, StartAll(c)
  PROVE  /\ refs' \in Seq(Refresher) /\ Len(refs') = Len(refs) + Len(Started)
         /\ runs' \in [Names -> Nat]
         /\ \A i \in 1..Len(refs) : refs'[i].cancelled = (refs[i].cancelled \/ i \in c)
         /\ \A i \in (Len(refs) + 1)..Len(refs') : runs'[refs'[i].name] = i
         /\ \A n \in Names : customs[n] = 0 => runs'[n] = 0
         /\ \A n \in Names : customs[n] # 0 =>
              /\ runs'[n] \in (Len(refs) + 1)..Len(refs')
              /\ refs'[runs'[n]].obj = customs[n]
<1> DEFINE old == [i \in 1..Len(refs) |-> [refs[i] EXCEPT !.cancelled = @ \/ i \in c]]
<1>s. /\ Started \in Seq(Refresher)
      /\ \A i \in 1..Len(Started) :
           /\ Started[i].name \in Live
           /\ Started[i].obj = customs[Started[i].name]
           /\ Position(Started[i].name) = i
      /\ \A n \in Live :
           Position(n) \in 1..Len(Started) /\ Started[Position(n)].name = n
  BY StartedIs
<1>1. Len(refs) \in Nat /\ Len(Started) \in Nat  BY <1>s
<1>2. ASSUME NEW i \in 1..Len(refs)
      PROVE  old[i] \in Refresher /\ old[i].cancelled = (refs[i].cancelled \/ i \in c)
  <2>1. refs[i] \in Refresher  OBVIOUS
  <2>2. (refs[i].cancelled \/ i \in c) \in BOOLEAN  OBVIOUS
  <2>3. old[i] = [refs[i] EXCEPT !.cancelled = refs[i].cancelled \/ i \in c]  OBVIOUS
  <2> QED  BY <2>1, <2>2, <2>3 DEF Refresher
<1>3. old \in Seq(Refresher) /\ Len(old) = Len(refs)
  <2>1. old \in [1..Len(refs) -> Refresher]  BY <1>2
  <2> QED  BY <2>1, <1>1, SeqDef
<1>4. refs' = old \o Started  BY DEF StartAll
<1> HIDE DEF old
<1>c. /\ old \o Started \in Seq(Refresher)
      /\ Len(old \o Started) = Len(old) + Len(Started)
      /\ \A i \in 1..Len(old) + Len(Started) :
           (old \o Started)[i] = IF i <= Len(old) THEN old[i] ELSE Started[i - Len(old)]
  BY <1>s, <1>3, ConcatProperties
<1>5. refs' \in Seq(Refresher) /\ Len(refs') = Len(refs) + Len(Started)
  BY <1>c, <1>3, <1>4
<1>e. \A i \in 1..Len(refs) + Len(Started) :
        refs'[i] = IF i <= Len(refs) THEN old[i] ELSE Started[i - Len(refs)]
  BY <1>c, <1>3, <1>4
<1>6. \A i \in 1..Len(refs) : refs'[i] = old[i]  BY <1>1, <1>e
<1>7. ASSUME NEW i \in 1..Len(Started)
      PROVE  refs'[Len(refs) + i] = Started[i]
  <2>1. Len(refs) + i \in 1..Len(refs) + Len(Started)  BY <1>1
  <2>2. ~(Len(refs) + i <= Len(refs)) /\ (Len(refs) + i) - Len(refs) = i  BY <1>1
  <2> QED  BY <2>1, <2>2, <1>e
<1>8. \A n \in Names : runs'[n] = IF n \in Live THEN Len(refs) + Position(n) ELSE 0
  BY DEF StartAll, Handle
<1>9. \A n \in Names : n \in Live => Position(n) \in 1..Len(Started)  BY <1>s
<1>10. runs' \in [Names -> Nat]
  <2>1. \A n \in Names : (IF n \in Live THEN Len(refs) + Position(n) ELSE 0) \in Nat
    BY <1>1, <1>9
  <2> QED  BY <2>1 DEF StartAll, Handle
<1>11. ASSUME NEW i \in (Len(refs) + 1)..Len(refs')
       PROVE  runs'[refs'[i].name] = i
  <2>1. i - Len(refs) \in 1..Len(Started) /\ i = Len(refs) + (i - Len(refs))
    BY <1>1, <1>5
  <2>2. refs'[i] = Started[i - Len(refs)]  BY <2>1, <1>7
  <2>3. refs'[i].name \in Live /\ Position(refs'[i].name) = i - Len(refs)
    BY <2>1, <2>2, <1>s
  <2>4. refs'[i].name \in Names  BY <2>3 DEF Live
  <2> QED  BY <2>1, <2>3, <2>4, <1>8
<1>12. ASSUME NEW n \in Names, customs[n] # 0
       PROVE  /\ runs'[n] \in (Len(refs) + 1)..Len(refs')
              /\ refs'[runs'[n]].obj = customs[n]
  <2>1. n \in Live  BY <1>12 DEF Live
  <2>2. Position(n) \in 1..Len(Started) /\ Started[Position(n)].name = n  BY <2>1, <1>s
  <2>3. runs'[n] = Len(refs) + Position(n)  BY <2>1, <1>8
  <2>4. refs'[runs'[n]] = Started[Position(n)]  BY <2>2, <2>3, <1>7
  <2>5. Started[Position(n)].obj = customs[n]  BY <2>2, <1>s
  <2> QED  BY <2>2, <2>3, <2>4, <2>5, <1>1, <1>5
<1>13. \A n \in Names : customs[n] = 0 => runs'[n] = 0  BY <1>8 DEF Live
<1> QED  BY <1>2, <1>5, <1>6, <1>10, <1>11, <1>12, <1>13

(* Start and the reconcile that still finds the context. *)
LEMMA StartInv ==
  ASSUME ManagerInv, Start  PROVE ManagerInv'
<1>t. ManagerTypeOK /\ StopOrder  BY DEF ManagerInv
<1>u. /\ stop = "new" /\ stop' = "serving" /\ runCtx' = "live" /\ StartAll({})
      /\ UNCHANGED <<rows, customs, rootDone, gen, reb>>
  BY DEF Start
<1>e. refs = <<>> /\ \A r \in Rebuilders : reb[r].pc = "idle"  BY <1>t, <1>u DEF StopOrder
<1>s. /\ refs' \in Seq(Refresher) /\ Len(refs') = Len(refs) + Len(Started)
      /\ runs' \in [Names -> Nat]
      /\ \A i \in (Len(refs) + 1)..Len(refs') : runs'[refs'[i].name] = i
      /\ \A n \in Names : customs[n] = 0 => runs'[n] = 0
      /\ \A n \in Names : customs[n] # 0 =>
           /\ runs'[n] \in (Len(refs) + 1)..Len(refs')
           /\ refs'[runs'[n]].obj = customs[n]
  BY <1>t, <1>u, StartAllIs DEF ManagerTypeOK
<1>l. Len(refs) = 0  BY <1>e
<1>n. Len(refs') \in Nat  BY <1>s
<1>1. ManagerTypeOK'
  <2> HIDE DEF Refresher
  <2> QED  BY <1>t, <1>u, <1>s DEF ManagerTypeOK
<1>2. StopOrder'  BY <1>u DEF StopOrder, Serving
<1>3. HandlesValid'  BY <1>s, <1>l, <1>u, <1>n DEF HandlesValid
<1>4. OneRefresher'
  <2>1. \A i \in 1..Len(refs') : runs'[refs'[i].name] = i  BY <1>s, <1>l, <1>n
  <2>2. \A n \in Names : IF customs[n] = 0 THEN runs'[n] = 0
                         ELSE runs'[n] # 0 /\ refs'[runs'[n]].obj = customs[n]
    BY <1>s, <1>l, <1>n
  <2> QED  BY <2>1, <2>2, <1>u DEF OneRefresher
<1>5. StopJoins'  BY <1>u DEF StopJoins
<1> QED  BY <1>1, <1>2, <1>3, <1>4, <1>5 DEF ManagerInv

LEMMA RestartInv ==
  ASSUME ManagerInv, NEW r \in Rebuilders, Reconcile(r), MayStart  PROVE ManagerInv'
<1>t. ManagerTypeOK /\ StopOrder /\ OneRefresher /\ HandlesValid  BY DEF ManagerInv
<1>u. /\ reb' = [reb EXCEPT ![r].pc = "idle"] /\ StartAll(Replaced) /\ runCtx = "live"
      /\ UNCHANGED <<rows, customs, runCtx, rootDone, gen, stop>>
  BY DEF Reconcile, MayStart
<1>v. stop \in {"serving", "shutdown"}  BY <1>t, <1>u DEF StopOrder, Serving
<1>s. /\ refs' \in Seq(Refresher) /\ Len(refs') = Len(refs) + Len(Started)
      /\ runs' \in [Names -> Nat]
      /\ \A i \in 1..Len(refs) : refs'[i].cancelled = (refs[i].cancelled \/ i \in Replaced)
      /\ \A i \in (Len(refs) + 1)..Len(refs') : runs'[refs'[i].name] = i
      /\ \A n \in Names : customs[n] = 0 => runs'[n] = 0
      /\ \A n \in Names : customs[n] # 0 =>
           /\ runs'[n] \in (Len(refs) + 1)..Len(refs')
           /\ refs'[runs'[n]].obj = customs[n]
  BY <1>t, <1>u, StartAllIs DEF ManagerTypeOK
<1>n. Len(refs) \in Nat /\ Len(refs') \in Nat  BY <1>t, <1>s DEF ManagerTypeOK
<1>1. ManagerTypeOK'
  <2>1. reb' \in [Rebuilders -> [pc : {"idle", "read", "reconcile"}, rows : SUBSET Names]]
    BY <1>t, <1>u DEF ManagerTypeOK
  <2> HIDE DEF Refresher
  <2> QED  BY <1>t, <1>u, <1>s, <2>1 DEF ManagerTypeOK
<1>2. StopOrder'  BY <1>t, <1>u, <1>v DEF StopOrder, Serving
<1>3. HandlesValid'
  <2> SUFFICES ASSUME NEW n \in Names, runs'[n] # 0  PROVE runs'[n] \in 1..Len(refs')
    BY DEF HandlesValid
  <2>1. customs[n] # 0  BY <1>s
  <2>2. runs'[n] \in (Len(refs) + 1)..Len(refs')  BY <2>1, <1>s
  <2> QED  BY <2>2, <1>n
<1>4. OneRefresher'
  <2>1. ASSUME NEW i \in 1..Len(refs)  PROVE refs'[i].cancelled
    <3>1. refs[i].cancelled \/ runs[refs[i].name] = i  BY <1>t, <1>v DEF OneRefresher
    <3>2a. refs[i] \in Refresher  BY <1>t DEF ManagerTypeOK
    <3>2. refs[i].name \in Names /\ i # 0  BY <3>2a, <1>n DEF Refresher
    <3>3. runs[refs[i].name] = i => i \in Replaced  BY <3>2 DEF Replaced
    <3> QED  BY <3>1, <3>3, <1>s
  <2>2. \A i \in 1..Len(refs') : i \in 1..Len(refs) \/ i \in (Len(refs) + 1)..Len(refs')
    BY <1>n
  <2>3. \A i \in 1..Len(refs') : ~refs'[i].cancelled => runs'[refs'[i].name] = i
    BY <2>1, <2>2, <1>s
  <2>4. \A n \in Names : IF customs[n] = 0 THEN runs'[n] = 0
                         ELSE runs'[n] # 0 /\ refs'[runs'[n]].obj = customs[n]
    BY <1>s, <1>n
  <2> QED  BY <2>3, <2>4, <1>u DEF OneRefresher
<1>5. StopJoins'  BY <1>u, <1>v DEF StopJoins
<1> QED  BY <1>1, <1>2, <1>3, <1>4, <1>5 DEF ManagerInv

(* A reconcile that comes too late changes nothing: there is no handle     *)
(* left to cancel.                                                         *)
LEMMA LateReconcile ==
  ASSUME ManagerInv, NEW r \in Rebuilders, Reconcile(r), ~MayStart
  PROVE  refs' = refs /\ runs' = runs
<1>t. ManagerTypeOK /\ StopOrder  BY DEF ManagerInv
<1>1. \A n \in Names : runs[n] = 0  BY <1>t DEF MayStart, StopOrder
<1>2. runs' = [n \in Names |-> IF n \in Live THEN runs[n] ELSE 0]  BY DEF Reconcile
<1>3. runs \in [Names -> Nat]  BY <1>t DEF ManagerTypeOK
<1>4. runs' = runs  BY <1>1, <1>2, <1>3
<1>5. refs' = [i \in 1..Len(refs) |->
        [refs[i] EXCEPT !.cancelled = @ \/ i \in {runs[n] : n \in Names \ Live}]]
  BY DEF Reconcile
<1>6. refs \in Seq(Refresher) /\ Len(refs) \in Nat  BY <1>t DEF ManagerTypeOK
<1>7. \A i \in 1..Len(refs) : i \notin {runs[n] : n \in Names \ Live}  BY <1>1, <1>6
<1>8. ASSUME NEW i \in 1..Len(refs)
      PROVE  [refs[i] EXCEPT !.cancelled = @ \/ i \in {runs[n] : n \in Names \ Live}] = refs[i]
  <2>1. refs[i] \in Refresher  BY <1>6
  <2>2. (refs[i].cancelled \/ i \in {runs[n] : n \in Names \ Live}) = refs[i].cancelled
    BY <2>1, <1>7 DEF Refresher
  <2> QED  BY <2>1, <2>2 DEF Refresher
<1>9. refs' = [i \in 1..Len(refs) |-> refs[i]]  BY <1>5, <1>8
<1>10. refs' = refs  BY <1>6, <1>9
<1> QED  BY <1>4, <1>10

(* The steps of a Rebuild call that start nothing. *)
LEMMA RebuildInv ==
  ASSUME ManagerInv, NEW r \in Rebuilders,
         ReadRows(r) \/ Publish(r) \/ (Reconcile(r) /\ ~MayStart)
  PROVE  ManagerInv'
<1>t. ManagerTypeOK /\ StopOrder /\ OneRefresher /\ HandlesValid /\ StopJoins
  BY DEF ManagerInv
<1>u. /\ refs' = refs /\ runs' = runs /\ stop' = stop /\ runCtx' = runCtx
      /\ rows' = rows
  BY LateReconcile DEF ReadRows, Publish, Reconcile
<1>n. stop # "new"
  BY <1>t DEF StopOrder, ReadRows, Publish, Reconcile
<1>1. ManagerTypeOK'
  <2>1. CASE ReadRows(r)
    <3>1. [pc |-> "read", rows |-> rows] \in [pc : {"idle", "read", "reconcile"}, rows : SUBSET Names]
      BY <1>t DEF ManagerTypeOK
    <3>2. reb' \in [Rebuilders -> [pc : {"idle", "read", "reconcile"}, rows : SUBSET Names]]
      BY <2>1, <3>1, <1>t DEF ManagerTypeOK, ReadRows
    <3> QED  BY <2>1, <3>2, <1>u, <1>t DEF ManagerTypeOK, ReadRows
  <2>2. CASE Publish(r)
    <3>1. [pc |-> AfterPublish, rows |-> {}] \in [pc : {"idle", "read", "reconcile"}, rows : SUBSET Names]
      BY DEF AfterPublish
    <3>2. reb' \in [Rebuilders -> [pc : {"idle", "read", "reconcile"}, rows : SUBSET Names]]
      BY <2>2, <3>1, <1>t DEF ManagerTypeOK, Publish
    <3>3. gen' \in Nat /\ customs' \in [Names -> Nat]
      BY <2>2, <1>t DEF ManagerTypeOK, Publish
    <3> QED  BY <3>2, <3>3, <1>u, <1>t DEF ManagerTypeOK
  <2>3. CASE Reconcile(r)
    <3>2. reb' \in [Rebuilders -> [pc : {"idle", "read", "reconcile"}, rows : SUBSET Names]]
      BY <2>3, <1>t DEF ManagerTypeOK, Reconcile
    <3> QED  BY <2>3, <3>2, <1>u, <1>t DEF ManagerTypeOK, Reconcile
  <2> QED  BY <2>1, <2>2, <2>3
<1>2. StopOrder'  BY <1>t, <1>u, <1>n DEF StopOrder, Serving
<1>3. HandlesValid'  BY <1>t, <1>u DEF HandlesValid
<1>4. OneRefresher'
  <2>1. \A i \in 1..Len(refs') : stop' # "cancel" /\ ~refs'[i].cancelled => runs'[refs'[i].name] = i
    BY <1>t, <1>u DEF OneRefresher
  <2>2. CASE ReadRows(r)
    <3>1. customs' = customs  BY <2>2 DEF ReadRows
    <3>2. (\A q \in Rebuilders : reb'[q].pc # "reconcile") => \A q \in Rebuilders : reb[q].pc # "reconcile"
      <4> SUFFICES ASSUME NEW q \in Rebuilders, reb[q].pc = "reconcile"  PROVE reb'[q].pc = "reconcile"
        OBVIOUS
      <4>1. q # r  BY <2>2 DEF ReadRows
      <4> QED  BY <4>1, <2>2, <1>t DEF ReadRows, ManagerTypeOK
    <3> QED  BY <2>1, <3>1, <3>2, <1>t, <1>u DEF OneRefresher
  <2>3. CASE Publish(r)
    <3>1. runCtx' = "live" => reb'[r].pc = "reconcile"
      BY <2>3, <1>t, <1>u DEF Publish, AfterPublish, ManagerTypeOK
    <3> QED  BY <2>1, <3>1 DEF OneRefresher
  <2>4. CASE ~MayStart  BY <2>1, <2>4, <1>u DEF OneRefresher, MayStart
  <2> QED  BY <2>2, <2>3, <2>4
<1>5. StopJoins'  BY <1>t, <1>u DEF StopJoins
<1> QED  BY <1>1, <1>2, <1>3, <1>4, <1>5 DEF ManagerInv

(* Stop. *)
LEMMA StoppingInv ==
  ASSUME ManagerInv, Stopping  PROVE ManagerInv'
<1>t. ManagerTypeOK /\ StopOrder /\ OneRefresher /\ HandlesValid /\ StopJoins
  BY DEF ManagerInv
<1>1. CASE CancelBackground
  BY <1>1, <1>t DEF CancelBackground, ManagerInv, ManagerTypeOK, StopOrder, Serving,
                    HandlesValid, OneRefresher, StopJoins
<1>2. CASE StopCollect
  <2>1. runs' \in [Names -> Nat] /\ \A n \in Names : runs'[n] = 0  BY <1>2 DEF StopCollect
  <2>2. ManagerTypeOK'  BY <1>2, <2>1, <1>t DEF StopCollect, ManagerTypeOK
  <2>3. StopOrder'  BY <1>2, <2>1 DEF StopCollect, StopOrder, Serving
  <2>4. HandlesValid'  BY <2>1 DEF HandlesValid
  <2>5. OneRefresher' /\ StopJoins'  BY <1>2 DEF StopCollect, OneRefresher, StopJoins
  <2> QED  BY <2>2, <2>3, <2>4, <2>5 DEF ManagerInv
<1>3. CASE StopCancel
  <2>1. refs \in Seq(Refresher) /\ Len(refs) \in Nat  BY <1>t DEF ManagerTypeOK
  <2>2. ASSUME NEW i \in 1..Len(refs)
        PROVE  /\ [refs[i] EXCEPT !.cancelled = TRUE] \in Refresher
               /\ [refs[i] EXCEPT !.cancelled = TRUE].cancelled
    <3>1. refs[i] \in Refresher  BY <2>1
    <3> QED  BY <3>1 DEF Refresher
  <2>3. refs' \in [1..Len(refs) -> Refresher]  BY <1>3, <2>2 DEF StopCancel
  <2>4. refs' \in Seq(Refresher) /\ Len(refs') = Len(refs)
    <3> HIDE DEF Refresher
    <3> QED  BY <2>1, <2>3
  <2>5. \A i \in 1..Len(refs') : refs'[i].cancelled  BY <1>3, <2>2, <2>4 DEF StopCancel
  <2>6. runCtx # "live" /\ runCtx' = runCtx /\ stop' = "wait" /\ runs' = runs
    BY <1>3, <1>t DEF StopCancel, StopOrder, Serving
  <2>7. ManagerTypeOK'
    <3> HIDE DEF Refresher
    <3> QED  BY <1>3, <2>4, <1>t DEF StopCancel, ManagerTypeOK
  <2>8. StopOrder'  BY <1>3, <2>5, <2>6, <1>t DEF StopCancel, StopOrder, Serving
  <2>9. HandlesValid'  BY <2>4, <2>6, <1>t DEF HandlesValid
  <2>10. OneRefresher' /\ StopJoins'  BY <2>5, <2>6 DEF OneRefresher, StopJoins
  <2> QED  BY <2>7, <2>8, <2>9, <2>10 DEF ManagerInv
<1>4. CASE StopReturn
  BY <1>4, <1>t DEF StopReturn, WaitOver, ManagerInv, ManagerTypeOK, StopOrder, Serving,
                    HandlesValid, OneRefresher, StopJoins
<1> QED  BY <1>1, <1>2, <1>3, <1>4 DEF Stopping

(* A refresher's own steps move its pc only. *)
LEMMA RefreshInv ==
  ASSUME ManagerInv, NEW i \in 1..Len(refs), Refresh(i)  PROVE ManagerInv'
<1>t. ManagerTypeOK /\ StopOrder /\ OneRefresher /\ HandlesValid /\ StopJoins
  BY DEF ManagerInv
<1>1. PICK pc \in {"top", "call", "sleep", "done"} : SetPc(i, pc)
  BY DEF Refresh, RefreshTop, RefreshCall, RefreshTick, RefreshStop
<1>2. refs[i].pc # "done"
  BY DEF Refresh, RefreshTop, RefreshCall, RefreshTick, RefreshStop
<1>3. refs \in Seq(Refresher) /\ Len(refs) \in Nat  BY <1>t DEF ManagerTypeOK
<1>4. [refs[i] EXCEPT !.pc = pc] \in Refresher
      /\ [refs[i] EXCEPT !.pc = pc].name = refs[i].name
      /\ [refs[i] EXCEPT !.pc = pc].obj = refs[i].obj
      /\ [refs[i] EXCEPT !.pc = pc].cancelled = refs[i].cancelled
  <2>1. refs[i] \in Refresher  BY <1>3
  <2> QED  BY <2>1 DEF Refresher
<1>5. refs' = [refs EXCEPT ![i] = [refs[i] EXCEPT !.pc = pc]]  BY <1>1 DEF SetPc
<1>6. refs' \in Seq(Refresher) /\ Len(refs') = Len(refs)
  <2> HIDE DEF Refresher
  <2> QED  BY <1>3, <1>4, <1>5, ExceptSeq
<1>7. \A j \in 1..Len(refs) : /\ refs'[j].name = refs[j].name
                              /\ refs'[j].obj = refs[j].obj
                              /\ refs'[j].cancelled = refs[j].cancelled
  BY <1>3, <1>4, <1>5
<1>8. UNCHANGED <<rows, customs, runs, runCtx, rootDone, gen, reb, stop>>  BY <1>1 DEF SetPc
<1>9. ManagerTypeOK'
  <2> HIDE DEF Refresher
  <2> QED  BY <1>t, <1>6, <1>8 DEF ManagerTypeOK
<1>10. stop # "new"  BY <1>t, <1>3 DEF StopOrder
<1>11. StopOrder'  BY <1>t, <1>6, <1>7, <1>8, <1>10 DEF StopOrder, Serving
<1>12. HandlesValid'  BY <1>t, <1>6, <1>8 DEF HandlesValid
<1>13. OneRefresher'  BY <1>t, <1>6, <1>7, <1>8 DEF OneRefresher, HandlesValid
<1>14. StopJoins'  BY <1>t, <1>2, <1>8 DEF StopJoins
<1> QED  BY <1>9, <1>11, <1>12, <1>13, <1>14 DEF ManagerInv

(* The manager's invariant, through every race of Rebuild with Stop. *)
THEOREM ManagerSafe == Spec => []ManagerInv
<1>1. Init => ManagerInv
  <2> SUFFICES ASSUME Init  PROVE ManagerInv
    OBVIOUS
  <2>1. customs \in [Names -> Nat] /\ runs \in [Names -> Nat]  BY DEF Init
  <2>2. refs \in Seq(Refresher)
    <3> HIDE DEF Refresher
    <3> QED  BY EmptySeq DEF Init
  <2>3. reb \in [Rebuilders -> [pc : {"idle", "read", "reconcile"}, rows : SUBSET Names]]
    BY DEF Init
  <2>4. ManagerTypeOK
    <3> HIDE DEF Refresher
    <3> QED  BY <2>1, <2>2, <2>3 DEF Init, ManagerTypeOK
  <2>5. StopOrder /\ HandlesValid /\ OneRefresher /\ StopJoins
    BY DEF Init, StopOrder, Serving, HandlesValid, OneRefresher, StopJoins
  <2> QED  BY <2>4, <2>5 DEF ManagerInv
<1>2. ManagerInv /\ [Next]_vars => ManagerInv'
  <2> SUFFICES ASSUME ManagerInv, [Next]_vars  PROVE ManagerInv'
    OBVIOUS
  <2>1. CASE ChangeRows
    BY <2>1 DEF ChangeRows, ManagerInv, ManagerTypeOK, StopOrder, Serving, HandlesValid,
                OneRefresher, StopJoins
  <2>2. ASSUME NEW r \in Rebuilders, ReadRows(r) \/ Publish(r) \/ Reconcile(r)
        PROVE  ManagerInv'
    BY <2>2, RebuildInv, RestartInv
  <2>3. CASE UNCHANGED vars
    BY <2>3 DEF vars, ManagerInv, ManagerTypeOK, StopOrder, Serving, HandlesValid,
                OneRefresher, StopJoins
  <2> QED  BY <2>1, <2>2, <2>3, StartInv, StoppingInv, RefreshInv DEF Next
<1> QED  BY <1>1, <1>2, PTL DEF Spec

(* A provider has at most one refresher that is not cancelled, the manager *)
(* holds its cancel function, and between Rebuild calls it refreshes what  *)
(* is published.                                                           *)
THEOREM OneRefresherPerName == Spec => []OneRefresher
BY ManagerSafe, PTL DEF ManagerInv

(* When Stop has returned, every refresher has ended. *)
THEOREM StopHasJoined == Spec => []StopJoins
BY ManagerSafe, PTL DEF ManagerInv

(* Once Stop waits, no Rebuild starts a refresher. *)
THEOREM NothingAdded == Spec => NoAddDuringWait
<1>1. ManagerInv /\ [Next]_vars =>
        [(stop \in {"wait", "returned"}) => Len(refs') = Len(refs)]_vars
  <2> SUFFICES ASSUME ManagerInv, Next, stop \in {"wait", "returned"}
               PROVE  Len(refs') = Len(refs)
    OBVIOUS
  <2>t. ManagerTypeOK /\ StopOrder  BY DEF ManagerInv
  <2>n. refs \in Seq(Refresher) /\ Len(refs) \in Nat  BY <2>t DEF ManagerTypeOK
  <2>1. ~Start /\ ~StopCancel  BY DEF Start, StopCancel
  <2>2. ASSUME NEW r \in Rebuilders, Reconcile(r)  PROVE Len(refs') = Len(refs)
    <3>1. ~MayStart  BY <2>t DEF StopOrder, Serving, MayStart
    <3> QED  BY <2>2, <3>1, LateReconcile
  <2>3. ASSUME NEW i \in 1..Len(refs), Refresh(i)  PROVE Len(refs') = Len(refs)
    <3>1. \E pc : refs' = [refs EXCEPT ![i].pc = pc]
      BY <2>3 DEF Refresh, RefreshTop, RefreshCall, RefreshTick, RefreshStop, SetPc
    <3> HIDE DEF Refresher
    <3> QED  BY <3>1, <2>n
  <2>4. CASE CancelBackground \/ StopCollect \/ StopReturn \/ ChangeRows
    BY <2>4 DEF CancelBackground, StopCollect, StopReturn, ChangeRows
  <2>5. ASSUME NEW r \in Rebuilders, ReadRows(r) \/ Publish(r)  PROVE Len(refs') = Len(refs)
    BY <2>5 DEF ReadRows, Publish
  <2> QED  BY <2>1, <2>2, <2>3, <2>4, <2>5 DEF Next, Stopping
<1> QED  BY <1>1, ManagerSafe, PTL DEF Spec, NoAddDuringWait

(* The specification that the run checks is one of both parts, so the      *)
(* theorems above hold of it.                                              *)
THEOREM BothParts == ShutdownSpec => Spec /\ Usage!Spec
<1>1. ShutdownInit => Init /\ Usage!Init  BY DEF ShutdownInit
<1>2. [ManagerStep \/ UsageStep]_allVars => [Next]_vars /\ [Usage!Next]_(Usage!vars)
  BY DEF ManagerStep, UsageStep, Manager, Recorder, allVars, usageVars, Usage!vars
<1> QED  BY <1>1, <1>2, PTL DEF ShutdownSpec, Spec, Usage!Spec
=============================================================================
