------------------------------ MODULE ChatProofs ------------------------------
(***************************************************************************)
(* The request log, for every capacity, and the request pipeline, for any  *)
(* number of requests and upstreams and any candidate lists: what happens  *)
(* to one request, the upstream counters that all requests share, and the  *)
(* totals.                                                                 *)
(***************************************************************************)
EXTENDS MCChat, SequenceTheorems, FiniteSetTheorems, TLAPS

-----------------------------------------------------------------------------
(* The ring implements the bounded log.  The remainders are dealt with     *)
(* once: Wrap says what % does below twice the capacity and SlotOf gives   *)
(* the slot of the i-th oldest entry by a case distinction.  From there on *)
(* the steps are linear arithmetic.                                        *)

LEMMA CapType == Cap \in Nat /\ Cap >= 1
BY RequestedAssumption DEF Cap

(* x % C for x below 2C. *)
LEMMA Wrap ==
  ASSUME NEW C \in Nat, C >= 1, NEW x \in 0..(2 * C - 1)
  PROVE  x % C = IF x < C THEN x ELSE x - C
  OBVIOUS

(* The slot of the i-th oldest entry when the write position is h and n    *)
(* entries are held.                                                       *)
Slot(h, n, i) == IF h - n + (i - 1) >= 0 THEN h - n + (i - 1) ELSE h - n + (i - 1) + Cap

(* Snapshot reads the slots that Slot names. *)
LEMMA SlotOf ==
  ASSUME NEW h \in Slots, NEW n \in 0..Cap, NEW i \in 1..n
  PROVE  (((h - n + Cap) % Cap) + (i - 1)) % Cap = Slot(h, n, i)
<1>c. Cap \in Nat /\ Cap >= 1  BY CapType
<1> DEFINE x == h - n + Cap
           y == (x % Cap) + (i - 1)
<1>1. h \in Int /\ n \in Int /\ i \in Int /\ 0 <= h /\ h < Cap /\ 0 <= n /\ n <= Cap /\ 1 <= i /\ i <= n
  BY <1>c DEF Slots
<1>2. x \in 0..(2 * Cap - 1)  BY <1>c, <1>1
<1>x. x = h - n + Cap  OBVIOUS
<1> HIDE DEF x
<1>3. x % Cap = IF x < Cap THEN x ELSE x - Cap  BY <1>c, <1>2, Wrap
<1>y. y = (IF x < Cap THEN x ELSE x - Cap) + (i - 1)  BY <1>3
<1>z. y = (x % Cap) + (i - 1)  OBVIOUS
<1> HIDE DEF y
<1>4. y \in 0..(2 * Cap - 1)  BY <1>c, <1>1, <1>2, <1>x, <1>y
<1>5. y % Cap = IF y < Cap THEN y ELSE y - Cap  BY <1>c, <1>4, Wrap
<1>6. y % Cap = Slot(h, n, i)
  <2>1. CASE x < Cap
    <3>1. y = h - n + (i - 1) + Cap  BY <2>1, <1>x, <1>y, <1>1, <1>c
    <3> QED  BY <3>1, <1>5, <1>1, <1>c DEF Slot
  <2>2. CASE ~(x < Cap)
    <3>1. y = h - n + (i - 1)  BY <2>2, <1>x, <1>y, <1>1, <1>c
    <3> QED  BY <3>1, <2>2, <1>x, <1>5, <1>1, <1>c DEF Slot
  <2> QED  BY <2>1, <2>2
<1> QED  BY <1>6, <1>x, <1>z

(* Slots stay within the array. *)
LEMMA SlotType ==
  ASSUME NEW h \in Slots, NEW n \in 0..Cap, NEW i \in 1..n
  PROVE  Slot(h, n, i) \in Slots
BY CapType DEF Slot, Slots

(* The write position after a Push, without the remainder. *)
LEMMA AdvanceIs ==
  ASSUME NEW h \in Slots
  PROVE  Advance(h) = IF h + 1 < Cap THEN h + 1 ELSE 0
<1>1. Cap \in Nat /\ Cap >= 1 /\ h \in Int /\ 0 <= h /\ h < Cap  BY CapType DEF Slots
<1> DEFINE x == h + 1
<1>2. x \in 0..(2 * Cap - 1)  BY <1>1
<1>3. Advance(h) = x % Cap  BY DEF Advance
<1>x. x = h + 1  OBVIOUS
<1> HIDE DEF x
<1>4. x % Cap = IF x < Cap THEN x ELSE x - Cap  BY <1>1, <1>2, Wrap
<1> QED  BY <1>1, <1>3, <1>4, <1>x

(* Snapshot, with the slots by cases. *)
LEMMA SnapshotIs ==
  ASSUME TypeOK
  PROVE  Snapshot = [i \in 1..size |-> data[Slot(head, size, i)]]
<1>1. \A i \in 1..size : (Start + (i - 1)) % Cap = Slot(head, size, i)
  BY SlotOf DEF TypeOK, Start
<1> QED  BY <1>1 DEF Snapshot

-----------------------------------------------------------------------------
(* Invariants *)

Inv == TypeOK /\ NoZeroInSnapshot

(* Push keeps the positions inside the array. *)
LEMMA PushType ==
  ASSUME TypeOK, NEW item \in Items, Push(item)
  PROVE  TypeOK'
<1>1. Cap \in Nat /\ Cap >= 1  BY CapType
<1>2. head' \in Slots  BY <1>1, AdvanceIs DEF TypeOK, Push, Slots
<1>3. size' \in 0..Cap  BY <1>1 DEF TypeOK, Push
<1>4. data' \in [Slots -> Items \cup {Zero}]  BY DEF TypeOK, Push
<1> QED  BY <1>2, <1>3, <1>4 DEF TypeOK

(* The i-th oldest entry after a Push: the new one is the last, the others *)
(* are those of before, without the oldest one when the ring was full.     *)
LEMMA PushEntries ==
  ASSUME TypeOK, NEW item \in Items, Push(item), NEW i \in 1..size'
  PROVE  data'[Slot(head', size', i)] =
           IF i = size' THEN item
           ELSE IF size < Cap THEN data[Slot(head, size, i)]
           ELSE data[Slot(head, size, i + 1)]
<1>1. Cap \in Nat /\ Cap >= 1  BY CapType
<1>2. /\ head \in Int /\ 0 <= head /\ head < Cap
      /\ size \in Int /\ 0 <= size /\ size <= Cap
  BY <1>1 DEF TypeOK, Slots
<1>3. head' = IF head + 1 < Cap THEN head + 1 ELSE 0
  BY AdvanceIs DEF TypeOK, Push
<1>4. size' = IF size < Cap THEN size + 1 ELSE size  BY DEF Push
<1>5. i \in Int /\ 1 <= i /\ i <= size'  BY <1>2, <1>4
<1>6. Slot(head', size', i) \in Slots
  BY PushType, SlotType DEF TypeOK
<1>7. data'[Slot(head', size', i)] =
        IF Slot(head', size', i) = head THEN item ELSE data[Slot(head', size', i)]
  BY <1>6 DEF TypeOK, Push
<1>8. CASE i = size'
  <2>1. Slot(head', size', i) = head  BY <1>1, <1>2, <1>3, <1>4, <1>5, <1>8 DEF Slot
  <2> QED  BY <2>1, <1>7, <1>8
<1>9. CASE i # size' /\ size < Cap
  <2>1. Slot(head', size', i) = Slot(head, size, i)
    BY <1>1, <1>2, <1>3, <1>4, <1>5, <1>9 DEF Slot
  <2>2. Slot(head, size, i) # head
    BY <1>1, <1>2, <1>4, <1>5, <1>9 DEF Slot
  <2> QED  BY <2>1, <2>2, <1>7, <1>9
<1>10. CASE i # size' /\ ~(size < Cap)
  <2>1. Slot(head', size', i) = Slot(head, size, i + 1)
    BY <1>1, <1>2, <1>3, <1>4, <1>5, <1>10 DEF Slot
  <2>2. Slot(head, size, i + 1) # head
    BY <1>1, <1>2, <1>4, <1>5, <1>10 DEF Slot
  <2> QED  BY <2>1, <2>2, <1>7, <1>10
<1> QED  BY <1>8, <1>9, <1>10

(* The invariant is inductive. *)
LEMMA NextKeepsInv == Inv /\ [Next]_vars => Inv'
<1> SUFFICES ASSUME Inv, [Next]_vars PROVE Inv'
  OBVIOUS
<1>c. Cap \in Nat /\ Cap >= 1  BY CapType
<1>t. TypeOK  BY DEF Inv
<1>1. ASSUME NEW item \in Items, Push(item) PROVE Inv'
  <2>1. TypeOK'  BY <1>1, <1>t, PushType
  <2>2. Snapshot' = [i \in 1..size' |-> data'[Slot(head', size', i)]]
    <3>1. \A i \in 1..size' : (Start' + (i - 1)) % Cap = Slot(head', size', i)
      BY <2>1, SlotOf DEF TypeOK, Start
    <3> QED  BY <3>1 DEF Snapshot
  <2>3. \A i \in 1..size : data[Slot(head, size, i)] \in Items
    BY <1>t, SnapshotIs DEF Inv, NoZeroInSnapshot
  <2>4. \A i \in 1..size' : data'[Slot(head', size', i)] \in Items
    <3> TAKE i \in 1..size'
    <3>1. data'[Slot(head', size', i)] =
            IF i = size' THEN item
            ELSE IF size < Cap THEN data[Slot(head, size, i)]
            ELSE data[Slot(head, size, i + 1)]
      BY <1>1, <1>t, PushEntries
    <3>2. size \in 0..Cap /\ size' = IF size < Cap THEN size + 1 ELSE size
      BY <1>1, <1>t DEF TypeOK, Push
    <3>3. CASE i = size'  BY <3>1, <3>3
    <3>4. CASE i # size' /\ size < Cap
      <4>1. i \in 1..size  BY <3>2, <3>4, <1>c
      <4> QED  BY <4>1, <3>1, <3>4, <2>3
    <3>5. CASE i # size' /\ ~(size < Cap)
      <4>1. i + 1 \in 1..size  BY <3>2, <3>5, <1>c
      <4> QED  BY <4>1, <3>1, <3>5, <2>3
    <3> QED  BY <3>3, <3>4, <3>5
  <2> QED  BY <2>1, <2>2, <2>4 DEF Inv, NoZeroInSnapshot
<1>2. CASE Clear
  <2>1. TypeOK'  BY <1>2, <1>c, <1>t DEF TypeOK, Clear, Slots
  <2>2. size' = 0  BY <1>2 DEF Clear
  <2> QED  BY <2>1, <2>2 DEF Inv, NoZeroInSnapshot
<1>3. CASE UNCHANGED vars
  BY <1>3 DEF vars, Inv, TypeOK, NoZeroInSnapshot, Snapshot, Start
<1> QED  BY <1>1, <1>2, <1>3 DEF Next

(* Inv holds in every state of the ring buffer. *)
LEMMA InvHolds == Spec => []Inv
<1>1. Init => Inv
  BY CapType DEF Init, Inv, TypeOK, NoZeroInSnapshot, Slots
<1> QED  BY <1>1, NextKeepsInv, PTL DEF Spec

(* Positions and size stay inside the array, for every capacity that New   *)
(* is called with.                                                         *)
THEOREM TypeCorrect == Spec => []TypeOK
<1>1. Inv => TypeOK  BY DEF Inv
<1> QED  BY <1>1, InvHolds, PTL

(* A snapshot holds only entries that were pushed, never a zero value. *)
THEOREM SnapshotOfPushed == Spec => []NoZeroInSnapshot
<1>1. Inv => NoZeroInSnapshot  BY DEF Inv
<1> QED  BY <1>1, InvHolds, PTL

-----------------------------------------------------------------------------
(* Refinement *)

(* Push is the abstract Push on the snapshot. *)
LEMMA PushRefines ==
  ASSUME Inv, NEW item \in Items, Push(item)
  PROVE  Log!Push(item)
<1>c. Cap \in Nat /\ Cap >= 1  BY CapType
<1>t. TypeOK  BY DEF Inv
<1>t2. TypeOK'  BY <1>t, PushType
<1> DEFINE old == [i \in 1..size |-> data[Slot(head, size, i)]]
           new == [i \in 1..size' |-> data'[Slot(head', size', i)]]
<1>1. Snapshot = old  BY <1>t, SnapshotIs
<1>2. Snapshot' = new
  <2>1. \A i \in 1..size' : (Start' + (i - 1)) % Cap = Slot(head', size', i)
    BY <1>t2, SlotOf DEF TypeOK, Start
  <2> QED  BY <2>1 DEF Snapshot
<1>3. size \in Nat /\ size <= Cap /\ size' = IF size < Cap THEN size + 1 ELSE size
  BY <1>t, <1>c DEF TypeOK, Push
<1>4. \A i \in 1..size' : new[i] = IF i = size' THEN item
                                   ELSE IF size < Cap THEN old[i] ELSE old[i + 1]
  <2> TAKE i \in 1..size'
  <2>1. data'[Slot(head', size', i)] =
          IF i = size' THEN item
          ELSE IF size < Cap THEN data[Slot(head, size, i)]
          ELSE data[Slot(head, size, i + 1)]
    BY <1>t, PushEntries
  <2>2. i # size' /\ size < Cap => i \in 1..size  BY <1>3, <1>c
  <2>3. i # size' /\ ~(size < Cap) => i + 1 \in 1..size  BY <1>3, <1>c
  <2> QED  BY <2>1, <2>2, <2>3
<1>5. \A i \in 1..size : old[i] \in Items
  BY <1>1 DEF Inv, NoZeroInSnapshot
<1>6. old \in Seq(Items) /\ Len(old) = size
  <2>1. old \in [1..size -> Items]  BY <1>5
  <2> QED  BY <2>1, <1>3
<1>7. new \in Seq(Items) /\ Len(new) = size'
  <2>1. new \in [1..size' -> Items]
    <3>1. \A i \in 1..size' : new[i] \in Items
      <4> TAKE i \in 1..size'
      <4>1. i # size' /\ size < Cap => i \in 1..size  BY <1>3, <1>c
      <4>2. i # size' /\ ~(size < Cap) => i + 1 \in 1..size  BY <1>3, <1>c
      <4> QED  BY <1>4, <1>5, <4>1, <4>2
    <3> QED  BY <3>1
  <2> QED  BY <2>1, <1>3
<1> HIDE DEF old, new
<1>8. CASE size < Cap
  <2> DEFINE app == Append(old, item)
  <2>1. /\ app \in Seq(Items) /\ Len(app) = size + 1
        /\ \A i \in 1..size : app[i] = old[i]
        /\ app[size + 1] = item
    BY <1>6, AppendProperties
  <2> HIDE DEF app
  <2>2. \A i \in 1..(size + 1) : new[i] = app[i]  BY <1>3, <1>4, <1>8, <2>1
  <2>3. new = app  BY <1>3, <1>7, <1>8, <2>1, <2>2, SeqEqual
  <2> QED  BY <2>3, <1>1, <1>2, <1>6, <1>8 DEF Log!Push, app
<1>9. CASE ~(size < Cap)
  <2>0. size = Cap /\ size' = size /\ size >= 1  BY <1>3, <1>9, <1>c
  <2> DEFINE rest == Tail(old)
             app == Append(rest, item)
  <2>1. /\ rest \in Seq(Items)
        /\ Len(rest) = size - 1
        /\ \A i \in 1..(size - 1) : rest[i] = old[i + 1]
    BY <1>6, <2>0, <1>3
  <2> HIDE DEF rest
  <2>2. /\ app \in Seq(Items) /\ Len(app) = size - 1 + 1
        /\ \A i \in 1..(size - 1) : app[i] = rest[i]
        /\ app[size - 1 + 1] = item
    BY <2>1, AppendProperties
  <2> HIDE DEF app
  <2>3. \A i \in 1..size : new[i] = app[i]  BY <1>3, <1>4, <1>9, <2>0, <2>1, <2>2
  <2>4. new = app  BY <1>3, <1>7, <2>0, <2>2, <2>3, SeqEqual
  <2> QED  BY <2>4, <1>1, <1>2, <1>6, <2>0 DEF Log!Push, app, rest
<1> QED  BY <1>8, <1>9

(* Every step of the ring buffer is a step of the bounded log. *)
LEMMA StepRefines == Inv /\ [Next]_vars => [Log!Next]_Snapshot
<1> SUFFICES ASSUME Inv, [Next]_vars PROVE [Log!Next]_Snapshot
  OBVIOUS
<1>1. ASSUME NEW item \in Items, Push(item) PROVE Log!Next
  BY <1>1, PushRefines DEF Log!Next
<1>2. CASE Clear
  <2>1. size' = 0  BY <1>2 DEF Clear
  <2>2. Snapshot' = <<>>  BY <2>1 DEF Snapshot
  <2> QED  BY <2>2 DEF Log!Next, Log!Clear
<1>3. CASE UNCHANGED vars
  BY <1>3 DEF vars, Snapshot, Start
<1> QED  BY <1>1, <1>2, <1>3 DEF Next

(* The ring buffer implements the bounded log: a snapshot is always the    *)
(* latest Cap entries since the last Clear, in the order of the pushes.    *)
THEOREM Refinement == Spec => ImplementsBoundedLog
<1>1. Init => Log!Init
  BY DEF Init, Log!Init, Snapshot
<1> QED  BY <1>1, InvHolds, StepRefines, PTL DEF Spec, ImplementsBoundedLog, Log!Spec

-----------------------------------------------------------------------------
(* The way of one request *)

Places == {"new", "lookup", "insert", "call", "refused", "ok", "rejected", "retryable", "failed",
           "done"}
Asking == {"call", "refused"}
Statuses == {"ok", "rejected", "retryable", "502", "499"}
Failover == {"error", "nil", "retryable"}
Kept == {"ok", "rejected", "retryable"}

Request == [pc : Places, chain : Chains \cup {<<>>}, at : Nat]

(* q is where ProxyChat is, A what the candidates answered, L the log and  *)
(* c what the client was sent.  Until the last answer, each answer made    *)
(* for a failover; "499" is logged only for an answer that is an error.    *)
Way(q, A, L, c) ==
    /\ q.at \in 0..Len(q.chain)
    /\ q.pc = "new" => q.at = 0 /\ q.chain = <<>> /\ Len(A) = 0
    /\ q.pc \in {"lookup", "insert"} \cup Asking =>
         q.chain # <<>> /\ q.at # 0 /\ Len(A) + 1 = q.at
    /\ q.pc \in Kept \cup {"failed", "done"} => Len(A) = q.at
    /\ q.pc \in Kept \cup {"failed", "done"} /\ q.chain # <<>> => q.at # 0
    /\ \A i \in 1..Len(A) : i # q.at => A[i] \in Failover
    /\ q.pc \in Kept => q.chain # <<>> /\ A[q.at] = q.pc
    /\ q.pc = "retryable" => q.at = Len(q.chain)
    /\ q.pc \in {"failed", "done"} <=> L # <<>>
    /\ q.pc = "failed" => L \in {<<"502">>, <<"499">>}
    /\ q.pc = "failed" /\ q.chain # <<>> => A[q.at] \in {"error", "nil"}
    /\ q.pc \in {"failed", "done"} /\ q.chain # <<>> /\ L # <<"499">> /\ A[q.at] \in Failover
         => q.at = Len(q.chain)
    /\ q.pc = "done" /\ q.chain # <<>> => c = IF A[q.at] \in {"error", "nil"} THEN "502" ELSE A[q.at]

(* Response bodies that should be open. *)
Bodies(q) == IF q.pc \in Kept THEN 1 ELSE 0

WayTypes ==
    /\ req \in [Requests -> Request]
    /\ canceled \in SUBSET Requests
    /\ open \in [Requests -> Nat]
    /\ logged \in [Requests -> Seq(Statuses)]
    /\ client \in [Requests -> {"none", "ok", "rejected", "retryable", "502"}]
    /\ answers \in [Requests -> Seq(Chat!Answers)]

WayInv ==
    /\ WayTypes
    /\ \A r \in Requests :
         /\ Way(req[r], answers[r], logged[r], client[r])
         /\ open[r] = Bodies(req[r])

(* Request r goes to q; A, L, c and b are what its answers, its log, its   *)
(* client's status and its open bodies become.                             *)
Moves(r, q, A, L, c, b) ==
    /\ req' = [req EXCEPT ![r] = q]
    /\ answers' = [answers EXCEPT ![r] = A]
    /\ logged' = [logged EXCEPT ![r] = L]
    /\ client' = [client EXCEPT ![r] = c]
    /\ open' = [open EXCEPT ![r] = b]

LEMMA MovesInv ==
  ASSUME WayInv, NEW r \in Requests, NEW q \in Request, NEW A \in Seq(Chat!Answers),
         NEW L \in Seq(Statuses), NEW c \in {"none", "ok", "rejected", "retryable", "502"},
         Moves(r, q, A, L, c, Bodies(q)), Way(q, A, L, c), canceled' = canceled
  PROVE  WayInv'
<1>t. WayTypes  BY DEF WayInv
<1>b. Bodies(q) \in Nat  BY DEF Bodies
<1>1. WayTypes'
  <2>1. req' \in [Requests -> Request]  BY <1>t DEF WayTypes, Moves
  <2>2. open' \in [Requests -> Nat]  BY <1>t, <1>b DEF WayTypes, Moves
  <2>3. logged' \in [Requests -> Seq(Statuses)]  BY <1>t DEF WayTypes, Moves
  <2>4. client' \in [Requests -> {"none", "ok", "rejected", "retryable", "502"}]
    BY <1>t DEF WayTypes, Moves
  <2>5. answers' \in [Requests -> Seq(Chat!Answers)]  BY <1>t DEF WayTypes, Moves
  <2> QED  BY <1>t, <2>1, <2>2, <2>3, <2>4, <2>5 DEF WayTypes
<1>2. ASSUME NEW x \in Requests
      PROVE  Way(req'[x], answers'[x], logged'[x], client'[x]) /\ open'[x] = Bodies(req'[x])
  <2>1. CASE x = r
    <3>1. req'[x] = q /\ answers'[x] = A /\ logged'[x] = L /\ client'[x] = c /\ open'[x] = Bodies(q)
      BY <2>1, <1>t DEF WayTypes, Moves
    <3> QED  BY <3>1
  <2>2. CASE x # r
    <3>1. /\ req'[x] = req[x] /\ answers'[x] = answers[x] /\ logged'[x] = logged[x]
          /\ client'[x] = client[x] /\ open'[x] = open[x]
      BY <2>2, <1>t DEF WayTypes, Moves
    <3> QED  BY <3>1 DEF WayInv
  <2> QED  BY <2>1, <2>2
<1> QED  BY <1>1, <1>2 DEF WayInv, Bodies

(* What is known of a request before it moves. *)
LEMMA Before ==
  ASSUME WayInv, NEW r \in Requests
  PROVE  /\ req[r] \in Request /\ req[r].pc \in Places /\ req[r].at \in Nat
         /\ req[r].chain \in Chains \cup {<<>>} /\ Len(req[r].chain) \in Nat
         /\ answers[r] \in Seq(Chat!Answers) /\ Len(answers[r]) \in Nat
         /\ logged[r] \in Seq(Statuses)
         /\ client[r] \in {"none", "ok", "rejected", "retryable", "502"}
         /\ Way(req[r], answers[r], logged[r], client[r]) /\ open[r] = Bodies(req[r])
<1>1. req[r] \in Request /\ answers[r] \in Seq(Chat!Answers)  BY DEF WayInv, WayTypes
<1>2. req[r].chain \in Chains \cup {<<>>}  BY <1>1 DEF Request
<1>3. req[r].chain \in Seq(Upstreams)  BY <1>2, ChatAssumption, EmptySeq
<1> QED  BY <1>1, <1>2, <1>3 DEF WayInv, WayTypes, Request

LEMMA AppendIs ==
  ASSUME NEW T, NEW s \in Seq(T), NEW x \in T
  PROVE  /\ Append(s, x) \in Seq(T) /\ Len(s) \in Nat /\ Len(Append(s, x)) = Len(s) + 1
         /\ \A i \in 1..Len(s) : Append(s, x)[i] = s[i]
         /\ Append(s, x)[Len(s) + 1] = x
         /\ Append(s, x) # <<>>
OBVIOUS

(* The log of a request that had none. *)
LEMMA LogOne ==
  ASSUME NEW s \in Statuses
  PROVE  Append(<<>>, s) = <<s>> /\ <<s>> \in Seq(Statuses) /\ <<s>> # <<>>
OBVIOUS

(* What a step leaves alone. *)
LEMMA Keeps ==
  ASSUME WayTypes, NEW r \in Requests
  PROVE  /\ answers = [answers EXCEPT ![r] = answers[r]]
         /\ logged = [logged EXCEPT ![r] = logged[r]]
         /\ client = [client EXCEPT ![r] = client[r]]
         /\ open = [open EXCEPT ![r] = open[r]]
BY DEF WayTypes

(* ProxyChat starts. *)
LEMMA BeginWay ==
  ASSUME WayInv, NEW r \in Requests, Chat!Begin(r)  PROVE WayInv'
<1>t. WayTypes  BY DEF WayInv
<1>b. /\ req[r] \in Request /\ req[r].pc = "new"
      /\ answers[r] \in Seq(Chat!Answers) /\ logged[r] \in Seq(Statuses)
      /\ client[r] \in {"none", "ok", "rejected", "retryable", "502"}
      /\ Way(req[r], answers[r], logged[r], client[r]) /\ open[r] = Bodies(req[r])
  BY Before DEF Chat!Begin
<1>n. req[r].at = 0 /\ req[r].chain = <<>> /\ logged[r] = <<>> /\ open[r] = 0
  BY <1>b DEF Way, Bodies, Kept
<1>u. /\ open' = open /\ client' = client /\ answers' = answers /\ canceled' = canceled
  BY DEF Chat!Begin
<1>1. PICK chain \in Chains :
        \/ /\ chain # <<>>
           /\ req' = [req EXCEPT ![r] = [pc |-> "lookup", chain |-> chain, at |-> 1]]
           /\ logged' = logged
        \/ /\ chain = <<>>
           /\ logged' = [logged EXCEPT ![r] = Append(@, "502")]
           /\ req' = [req EXCEPT ![r].pc = "failed"]
  BY DEF Chat!Begin, Chat!Log, Chat!Goto
<1>2. CASE chain # <<>>
  <2> DEFINE q == [pc |-> "lookup", chain |-> chain, at |-> 1]
  <2>1. q \in Request /\ q.pc = "lookup" /\ q.chain = chain /\ q.at = 1
    BY DEF Request, Places
  <2>2. req' = [req EXCEPT ![r] = q] /\ logged' = logged  BY <1>1, <1>2
  <2> HIDE DEF q
  <2>3. chain \in Seq(Upstreams) /\ Len(chain) \in Nat /\ Len(chain) # 0
    BY <1>2, ChatAssumption, EmptySeq
  <2>4. Way(q, answers[r], logged[r], client[r])
    BY <1>b, <1>n, <1>2, <2>1, <2>3 DEF Way, Kept, Asking
  <2>5. Bodies(q) = open[r]  BY <1>n, <2>1 DEF Bodies, Kept
  <2>6. Moves(r, q, answers[r], logged[r], client[r], Bodies(q))
    BY <1>t, <1>u, <2>2, <2>5, Keeps DEF Moves
  <2> QED  BY <1>b, <1>u, <2>1, <2>4, <2>6, MovesInv
<1>3. CASE chain = <<>>
  <2> DEFINE q == [req[r] EXCEPT !.pc = "failed"]
  <2>1. q \in Request /\ q.pc = "failed" /\ q.chain = req[r].chain /\ q.at = req[r].at
    BY <1>b DEF Request, Places
  <2>2. req' = [req EXCEPT ![r] = q] /\ logged' = [logged EXCEPT ![r] = Append(logged[r], "502")]
    BY <1>1, <1>3
  <2> HIDE DEF q
  <2>3. /\ Append(logged[r], "502") = <<"502">> /\ <<"502">> \in Seq(Statuses) /\ <<"502">> # <<>>
    BY <1>n, LogOne DEF Statuses
  <2>4. Way(q, answers[r], <<"502">>, client[r])
    BY <1>b, <1>n, <2>1, <2>3 DEF Way, Kept, Asking
  <2>5. Bodies(q) = open[r]  BY <1>n, <2>1 DEF Bodies, Kept
  <2>6. Moves(r, q, answers[r], <<"502">>, client[r], Bodies(q))
    BY <1>t, <1>u, <2>2, <2>3, <2>5, Keeps DEF Moves
  <2> QED  BY <1>b, <1>u, <2>1, <2>3, <2>4, <2>6, MovesInv
<1> QED  BY <1>2, <1>3

(* IncrUpstream, and the client going away. *)
LEMMA CounterWay ==
  ASSUME WayInv, NEW r \in Requests, Chat!LookupCounter(r) \/ Chat!InsertCounter(r)
  PROVE  WayInv'
<1>t. WayTypes  BY DEF WayInv
<1>b. /\ req[r] \in Request /\ req[r].pc \in {"lookup", "insert"}
      /\ answers[r] \in Seq(Chat!Answers) /\ logged[r] \in Seq(Statuses)
      /\ client[r] \in {"none", "ok", "rejected", "retryable", "502"}
      /\ Way(req[r], answers[r], logged[r], client[r]) /\ open[r] = Bodies(req[r])
  BY Before DEF Chat!LookupCounter, Chat!InsertCounter
<1>u. /\ open' = open /\ client' = client /\ answers' = answers /\ canceled' = canceled
      /\ logged' = logged
  BY DEF Chat!LookupCounter, Chat!InsertCounter
<1>1. PICK pc \in {"insert"} \cup Asking : req' = [req EXCEPT ![r].pc = pc]
  BY DEF Chat!LookupCounter, Chat!InsertCounter, Chat!Goto, Chat!CallStarts, Asking
<1> DEFINE q == [req[r] EXCEPT !.pc = pc]
<1>2. q \in Request /\ q.pc \in {"insert"} \cup Asking /\ q.chain = req[r].chain /\ q.at = req[r].at
  BY <1>b DEF Request, Places, Asking
<1>3. req' = [req EXCEPT ![r] = q]  BY <1>1
<1> HIDE DEF q
<1>4. Way(q, answers[r], logged[r], client[r])
  BY <1>b, <1>2 DEF Way, Kept, Asking
<1>5. Bodies(q) = open[r]  BY <1>b, <1>2 DEF Bodies, Kept, Asking
<1>6. Moves(r, q, answers[r], logged[r], client[r], Bodies(q))
  BY <1>t, <1>u, <1>3, <1>5, Keeps DEF Moves
<1> QED  BY <1>b, <1>u, <1>2, <1>4, <1>6, MovesInv

LEMMA DisconnectWay ==
  ASSUME WayInv, NEW r \in Requests, Chat!Disconnect(r)  PROVE WayInv'
<1>1. UNCHANGED <<req, open, logged, client, answers>> /\ canceled' = canceled \cup {r}
  BY DEF Chat!Disconnect
<1> QED  BY <1>1 DEF WayInv, WayTypes

(* An upstream answered and its answer is a. *)
LEMMA AnswerWay ==
  ASSUME WayInv, NEW r \in Requests, NEW a \in Chat!Answers,
         Chat!TryNext(r, a) \/ Chat!FailCanceled(r, a) \/ Chat!FailLast(r, a) \/ Chat!Keep(r, a)
  PROVE  WayInv'
<1>t. WayTypes  BY DEF WayInv
<1> DEFINE A == Append(answers[r], a)
           p == req[r]
<1>b. /\ p \in Request /\ p.pc \in Asking /\ p.at \in Nat /\ Len(p.chain) \in Nat
      /\ answers[r] \in Seq(Chat!Answers) /\ Len(answers[r]) \in Nat /\ logged[r] \in Seq(Statuses)
      /\ client[r] \in {"none", "ok", "rejected", "retryable", "502"}
      /\ Way(p, answers[r], logged[r], client[r]) /\ open[r] = Bodies(p)
  BY Before DEF Chat!TryNext, Chat!FailCanceled, Chat!FailLast, Chat!Keep, Chat!Answered, Asking
<1>n. /\ p.chain # <<>> /\ p.at # 0 /\ p.at <= Len(p.chain) /\ Len(answers[r]) + 1 = p.at
      /\ logged[r] = <<>> /\ open[r] = 0
      /\ \A i \in 1..Len(answers[r]) : answers[r][i] \in Failover
  BY <1>b DEF Way, Bodies, Kept, Asking
<1>u. /\ client' = client /\ answers' = [answers EXCEPT ![r] = A] /\ canceled' = canceled
  BY DEF Chat!TryNext, Chat!FailCanceled, Chat!FailLast, Chat!Keep, Chat!Answered
<1>a. /\ A \in Seq(Chat!Answers) /\ Len(A) = p.at
      /\ \A i \in 1..Len(answers[r]) : A[i] = answers[r][i]
      /\ A[p.at] = a
  BY <1>b, <1>n, AppendIs
<1>f. \A i \in 1..Len(A) : i # p.at => A[i] \in Failover  BY <1>a, <1>n, <1>b
<1> HIDE DEF A
<1>1. CASE Chat!TryNext(r, a)
  <2> DEFINE q == [p EXCEPT !.pc = "lookup", !.at = p.at + 1]
  <2>0. p.at + 1 \in Nat  BY <1>b
  <2>1. q \in Request /\ q.pc = "lookup" /\ q.chain = p.chain /\ q.at = p.at + 1
    BY <1>b, <2>0 DEF Request, Places
  <2>2. /\ req' = [req EXCEPT ![r] = q] /\ open' = [open EXCEPT ![r] = open[r]] /\ logged' = logged
    <3>1. open' = [open EXCEPT ![r] = open[r] + 0]  BY <1>1 DEF Chat!TryNext, Chat!LeftOpen
    <3>2. req' = [req EXCEPT ![r] = q]
      <4>1. req' = [req EXCEPT ![r].pc = "lookup", ![r].at = p.at + 1]  BY <1>1 DEF Chat!TryNext
      <4>2. req \in [Requests -> Request]  BY <1>t DEF WayTypes
      <4> QED  BY <4>1, <4>2 DEF Request
    <3>3. open[r] + 0 = open[r] /\ logged' = logged  BY <1>1, <1>n DEF Chat!TryNext
    <3> QED  BY <3>1, <3>2, <3>3
  <2>3. a \in Failover /\ p.at # Len(p.chain)
    BY <1>1 DEF Chat!TryNext, Chat!TriesNext, Chat!IsLast, Failover
  <2> HIDE DEF q
  <2>4. \A i \in 1..Len(A) : A[i] \in Failover  BY <1>f, <1>a, <2>3
  <2>5. Way(q, A, logged[r], client[r])
    BY <1>a, <1>b, <1>n, <2>1, <2>3, <2>4 DEF Way, Kept, Asking
  <2>6. Bodies(q) = open[r]  BY <1>n, <2>1 DEF Bodies, Kept
  <2>7. Moves(r, q, A, logged[r], client[r], Bodies(q))
    BY <1>t, <1>u, <2>2, <2>6, Keeps DEF Moves
  <2> QED  BY <1>a, <1>b, <1>u, <2>1, <2>5, <2>7, MovesInv
<1>2. CASE Chat!FailCanceled(r, a) \/ Chat!FailLast(r, a)
  <2> DEFINE q == [p EXCEPT !.pc = "failed"]
  <2>1. q \in Request /\ q.pc = "failed" /\ q.chain = p.chain /\ q.at = p.at
    BY <1>b DEF Request, Places
  <2>2. PICK status \in {"499", "502"} :
          /\ logged' = [logged EXCEPT ![r] = Append(logged[r], status)]
          /\ a \in {"error", "nil"}
          /\ status = "502" => p.at = Len(p.chain)
    BY <1>2 DEF Chat!FailCanceled, Chat!FailLast, Chat!Log, Chat!GivesUp, Chat!HasBody, Chat!IsLast
  <2>3. req' = [req EXCEPT ![r] = q] /\ open' = open
    BY <1>2 DEF Chat!FailCanceled, Chat!FailLast, Chat!Goto
  <2> HIDE DEF q
  <2>4. Append(logged[r], status) = <<status>> /\ <<status>> \in Seq(Statuses) /\ <<status>> # <<>>
    BY <1>n, LogOne DEF Statuses
  <2>5. Way(q, A, <<status>>, client[r])
    BY <1>a, <1>b, <1>f, <1>n, <2>1, <2>2, <2>4 DEF Way, Kept, Asking
  <2>6. Bodies(q) = open[r]  BY <1>n, <2>1 DEF Bodies, Kept
  <2>7. Moves(r, q, A, <<status>>, client[r], Bodies(q))
    BY <1>t, <1>u, <2>2, <2>3, <2>4, <2>6, Keeps DEF Moves
  <2> QED  BY <1>a, <1>b, <1>u, <2>1, <2>4, <2>5, <2>7, MovesInv
<1>3. CASE Chat!Keep(r, a)
  <2> DEFINE q == [p EXCEPT !.pc = a]
  <2>k. a \in Kept /\ (a = "retryable" => p.at = Len(p.chain))
    BY <1>3 DEF Chat!Keep, Chat!HasBody, Chat!TriesNext, Chat!IsLast, Chat!Answers, Kept
  <2>1. q \in Request /\ q.pc = a /\ q.chain = p.chain /\ q.at = p.at
    BY <1>b, <2>k DEF Request, Places, Kept
  <2>2. /\ req' = [req EXCEPT ![r] = q] /\ open' = [open EXCEPT ![r] = 1] /\ logged' = logged
    <3>1. open' = [open EXCEPT ![r] = open[r] + 1]  BY <1>3 DEF Chat!Keep
    <3> QED  BY <1>3, <1>n, <3>1 DEF Chat!Keep, Chat!Goto
  <2> HIDE DEF q
  <2>3. Way(q, A, logged[r], client[r])
    BY <1>a, <1>b, <1>f, <1>n, <2>1, <2>k DEF Way, Kept, Asking
  <2>4. Bodies(q) = 1  BY <2>1, <2>k DEF Bodies
  <2>5. Moves(r, q, A, logged[r], client[r], Bodies(q))
    BY <1>t, <1>u, <2>2, <2>4, Keeps DEF Moves
  <2> QED  BY <1>a, <1>b, <1>u, <2>1, <2>3, <2>5, MovesInv
<1> QED  BY <1>1, <1>2, <1>3

(* The response goes to the client, or the handler writes an error. *)
LEMMA DeliverWay ==
  ASSUME WayInv, NEW r \in Requests, NEW status \in Kept, req[r].pc = status,
         Chat!Deliver(r, status)
  PROVE  WayInv'
<1>t. WayTypes  BY DEF WayInv
<1> DEFINE p == req[r]
           q == [p EXCEPT !.pc = "done"]
<1>b. /\ p \in Request /\ p.at \in Nat /\ Len(p.chain) \in Nat
      /\ answers[r] \in Seq(Chat!Answers) /\ Len(answers[r]) \in Nat /\ logged[r] \in Seq(Statuses)
      /\ Way(p, answers[r], logged[r], client[r]) /\ open[r] = Bodies(p)
  BY Before
<1>n. logged[r] = <<>> /\ open[r] = 1 /\ Append(logged[r], status) = <<status>>
      /\ <<status>> \in Seq(Statuses) /\ <<status>> # <<>>
  BY <1>b, LogOne DEF Way, Bodies, Kept, Statuses
<1>1. q \in Request /\ q.pc = "done" /\ q.chain = p.chain /\ q.at = p.at
  BY <1>b DEF Request, Places
<1>2. /\ req' = [req EXCEPT ![r] = q] /\ client' = [client EXCEPT ![r] = status]
      /\ open' = [open EXCEPT ![r] = 0] /\ logged' = [logged EXCEPT ![r] = <<status>>]
      /\ answers' = answers /\ canceled' = canceled
  <2>1. open' = [open EXCEPT ![r] = open[r] - 1]  BY DEF Chat!Deliver
  <2> QED  BY <1>n, <2>1 DEF Chat!Deliver, Chat!Goto, Chat!Log
<1> HIDE DEF q
<1>3. Way(q, answers[r], <<status>>, status)
  BY <1>b, <1>n, <1>1 DEF Way, Kept, Asking, Failover
<1>4. Bodies(q) = 0  BY <1>1 DEF Bodies, Kept
<1>5. Moves(r, q, answers[r], <<status>>, status, Bodies(q))
  BY <1>t, <1>2, <1>4, Keeps DEF Moves
<1>6. status \in {"none", "ok", "rejected", "retryable", "502"}  BY DEF Kept
<1> QED  BY <1>b, <1>n, <1>1, <1>2, <1>3, <1>5, <1>6, MovesInv

LEMMA ErrorWay ==
  ASSUME WayInv, NEW r \in Requests, Chat!WriteChatError(r)  PROVE WayInv'
<1>t. WayTypes  BY DEF WayInv
<1> DEFINE p == req[r]
           q == [p EXCEPT !.pc = "done"]
<1>b. /\ p \in Request /\ p.at \in Nat /\ Len(p.chain) \in Nat /\ p.pc = "failed"
      /\ answers[r] \in Seq(Chat!Answers) /\ Len(answers[r]) \in Nat /\ logged[r] \in Seq(Statuses)
      /\ Way(p, answers[r], logged[r], client[r]) /\ open[r] = Bodies(p)
  BY Before DEF Chat!WriteChatError
<1>1. q \in Request /\ q.pc = "done" /\ q.chain = p.chain /\ q.at = p.at
  BY <1>b DEF Request, Places
<1>2. /\ req' = [req EXCEPT ![r] = q] /\ client' = [client EXCEPT ![r] = "502"]
      /\ UNCHANGED <<open, logged, answers, canceled>>
  BY DEF Chat!WriteChatError, Chat!Goto
<1> HIDE DEF q
<1>3. Way(q, answers[r], logged[r], "502")
  BY <1>b, <1>1 DEF Way, Kept, Asking
<1>4. Bodies(q) = open[r]  BY <1>b, <1>1 DEF Bodies, Kept
<1>5. Moves(r, q, answers[r], logged[r], "502", Bodies(q))
  BY <1>t, <1>2, <1>4, Keeps DEF Moves
<1> QED  BY <1>b, <1>1, <1>2, <1>3, <1>5, MovesInv

(* ProxyChat keeps the invariant of every request: where it is, what the   *)
(* candidates answered, what is logged, sent and open belong together.     *)
THEOREM WaySafe == Chat!Spec => []WayInv
<1>1. Chat!Init => WayInv
  <2> SUFFICES ASSUME Chat!Init  PROVE WayInv
    OBVIOUS
  <2>1. [pc |-> "new", chain |-> <<>>, at |-> 0] \in Request  BY DEF Request, Places
  <2>2. <<>> \in Seq(Statuses) /\ <<>> \in Seq(Chat!Answers)  BY EmptySeq
  <2>3. WayTypes  BY <2>1, <2>2 DEF Chat!Init, WayTypes
  <2>4. Way([pc |-> "new", chain |-> <<>>, at |-> 0], <<>>, <<>>, "none")
    BY DEF Way, Kept, Asking
  <2>5. Bodies([pc |-> "new", chain |-> <<>>, at |-> 0]) = 0  BY DEF Bodies, Kept
  <2> QED  BY <2>3, <2>4, <2>5 DEF Chat!Init, WayInv
<1>2. WayInv /\ [Chat!Next]_(Chat!vars) => WayInv'
  <2> SUFFICES ASSUME WayInv, [Chat!Next]_(Chat!vars)  PROVE WayInv'
    OBVIOUS
  <2>1. ASSUME NEW r \in Requests, Chat!PassThrough(r) \/ Chat!Normalize(r)  PROVE WayInv'
    BY <2>1, DeliverWay DEF Chat!PassThrough, Chat!Normalize, Kept
  <2>2. CASE UNCHANGED Chat!vars
    BY <2>2 DEF Chat!vars, WayInv, WayTypes
  <2> QED  BY <2>1, <2>2, BeginWay, CounterWay, AnswerWay, ErrorWay, DisconnectWay
           DEF Chat!Next, Chat!Step
<1> QED  BY <1>1, <1>2, PTL DEF Chat!Spec

(* No response body leaks and none is closed twice. *)
THEOREM BodiesAreClosed == Chat!Spec => []BodiesClosed
<1>1. WayInv => BodiesClosed
  BY DEF WayInv, Bodies, Kept, BodiesClosed, Chat!BodiesClosed
<1> QED  BY <1>1, WaySafe, PTL

(* The client gets the first success, or the last failure. *)
THEOREM FirstOrLast == Chat!Spec => []FirstSuccessOrLastFailure
<1>1. WayInv => FirstSuccessOrLastFailure
  <2> SUFFICES ASSUME WayInv, NEW r \in Requests, req[r].pc = "done", req[r].chain # <<>>
               PROVE  /\ Len(answers[r]) = req[r].at
                      /\ \A i \in 1..(Len(answers[r]) - 1) : answers[r][i] \in Failover
                      /\ logged[r] # <<"499">> /\ answers[r][Len(answers[r])] \in Failover
                           => Len(answers[r]) = Len(req[r].chain)
                      /\ client[r] = IF answers[r][Len(answers[r])] \in {"error", "nil"} THEN "502"
                                     ELSE answers[r][Len(answers[r])]
    BY DEF FirstSuccessOrLastFailure, Chat!FirstSuccessOrLastFailure, Chat!Done, Failover
  <2>1. Way(req[r], answers[r], logged[r], client[r]) /\ Len(answers[r]) \in Nat  BY Before
  <2> QED  BY <2>1 DEF Way
<1> QED  BY <1>1, WaySafe, PTL

(* What is left to a request whose client is gone, at pc: n answers there  *)
(* are, m there were when the client left, and L is logged.  A running     *)
(* call was started before; what is asked later is refused.                *)
Ends(pc, n, m, L) ==
    /\ pc = "call" => n = m
    /\ pc \notin {"failed", "done"} => n <= m + 1
    /\ n <= m + 2
    /\ n = m + 2 => pc \in {"failed", "done"} /\ L = <<"499">>

Gone(r) == r \in canceled => Ends(req[r].pc, Len(answers[r]), left[r], logged[r])

GoneInv == left \in [Requests -> Nat] /\ \A r \in Requests : Gone(r)

(* Request r goes to q, and A and L are its answers and its log. *)
LEMMA GoneMoves ==
  ASSUME WayInv, GoneInv, NEW r \in Requests, NEW q, NEW A, NEW L,
         req' = [req EXCEPT ![r] = q], answers' = [answers EXCEPT ![r] = A],
         logged' = [logged EXCEPT ![r] = L], canceled' = canceled, left' = left,
         r \in canceled => Ends(q.pc, Len(A), left[r], L)
  PROVE  GoneInv'
<1>t. WayTypes  BY DEF WayInv
<1>1. ASSUME NEW x \in Requests  PROVE Gone(x)'
  <2>1. CASE x = r
    <3>1. req'[x] = q /\ answers'[x] = A /\ logged'[x] = L  BY <2>1, <1>t DEF WayTypes
    <3> QED  BY <3>1, <2>1 DEF Gone
  <2>2. CASE x # r
    <3>1. req'[x] = req[x] /\ answers'[x] = answers[x] /\ logged'[x] = logged[x]
      BY <2>2, <1>t DEF WayTypes
    <3> QED  BY <3>1 DEF Gone, GoneInv
  <2> QED  BY <2>1, <2>2
<1> QED  BY <1>1 DEF GoneInv

(* Request r goes to pc without an answer. *)
LEMMA GoneGoto ==
  ASSUME WayInv, GoneInv, NEW r \in Requests, NEW pc, Chat!Goto(r, pc), NEW L,
         logged' = [logged EXCEPT ![r] = L], UNCHANGED <<answers, canceled, left>>,
         r \in canceled => Ends(pc, Len(answers[r]), left[r], L)
  PROVE  GoneInv'
<1> DEFINE q == [req[r] EXCEPT !.pc = pc]
<1>1. q.pc = pc  BY Before DEF Request
<1>2. req' = [req EXCEPT ![r] = q]  BY DEF Chat!Goto
<1>3. answers' = [answers EXCEPT ![r] = answers[r]]  BY DEF WayInv, WayTypes
<1> HIDE DEF q
<1> QED  BY <1>1, <1>2, <1>3, GoneMoves

LEMMA AnswerGone ==
  ASSUME WayInv, GoneInv, NEW r \in Requests, NEW a \in Chat!Answers,
         Chat!TryNext(r, a) \/ Chat!FailCanceled(r, a) \/ Chat!FailLast(r, a) \/ Chat!Keep(r, a)
  PROVE  GoneInv'
<1> DEFINE A == Append(answers[r], a)
           p == req[r]
<1>t. /\ p \in Request /\ answers[r] \in Seq(Chat!Answers) /\ Len(answers[r]) \in Nat
      /\ left[r] \in Nat /\ Len(A) = Len(answers[r]) + 1
      /\ req \in [Requests -> Request] /\ logged \in [Requests -> Seq(Statuses)]
  BY Before, AppendIs DEF GoneInv, WayInv, WayTypes
<1>p. p.pc \in Asking /\ logged[r] = <<>>
  BY Before DEF Way, Asking, Chat!TryNext, Chat!FailCanceled, Chat!FailLast, Chat!Keep, Chat!Answered
<1>u. UNCHANGED <<canceled, left>> /\ answers' = [answers EXCEPT ![r] = A]
  BY DEF Chat!TryNext, Chat!FailCanceled, Chat!FailLast, Chat!Keep, Chat!Answered
<1>e. r \in canceled => Ends(p.pc, Len(answers[r]), left[r], logged[r])
  BY DEF GoneInv, Gone
<1> HIDE DEF A
<1>g. r \in canceled => /\ Len(A) <= left[r] + 2
                        /\ p.pc = "call" => Len(A) = left[r] + 1
  BY <1>t, <1>p, <1>e DEF Ends, Asking
<1>1. CASE r \in canceled /\ a = "error"
  <2> DEFINE q == [p EXCEPT !.pc = "failed"]
  <2>1. Chat!FailCanceled(r, a)
    BY <1>1 DEF Chat!TryNext, Chat!FailLast, Chat!Keep, Chat!GivesUp, Chat!HasBody
  <2>2. /\ req' = [req EXCEPT ![r] = q] /\ q.pc = "failed"
        /\ logged' = [logged EXCEPT ![r] = Append(logged[r], "499")]
    BY <2>1, <1>t DEF Chat!FailCanceled, Chat!Goto, Chat!Log, Request
  <2> HIDE DEF q
  <2>3. Append(logged[r], "499") = <<"499">>  BY <1>p, LogOne DEF Statuses
  <2>4. r \in canceled => Ends(q.pc, Len(A), left[r], <<"499">>)
    BY <1>g, <1>t, <2>2 DEF Ends
  <2> QED  BY <1>u, <2>2, <2>3, <2>4, GoneMoves
<1>2. CASE ~(r \in canceled /\ a = "error")
  <2>1. r \in canceled => p.pc = "call"
    BY <1>2, <1>p DEF Asking, Chat!TryNext, Chat!FailCanceled, Chat!FailLast, Chat!Keep, Chat!Answered
  <2>2. PICK q, L : /\ req' = [req EXCEPT ![r] = q] /\ logged' = [logged EXCEPT ![r] = L]
                    /\ q.pc # "call"
    <3>l. logged = [logged EXCEPT ![r] = logged[r]]  BY <1>t
    <3>1. CASE Chat!TryNext(r, a)
      <4> DEFINE q == [p EXCEPT !.pc = "lookup", !.at = p.at + 1]
      <4>1. req' = [req EXCEPT ![r] = q] /\ q.pc = "lookup"  BY <3>1, <1>t DEF Chat!TryNext, Request
      <4>2. logged' = logged  BY <3>1 DEF Chat!TryNext
      <4> QED  BY <4>1, <4>2, <3>l
    <3>2. CASE Chat!FailCanceled(r, a) \/ Chat!FailLast(r, a)
      <4> DEFINE q == [p EXCEPT !.pc = "failed"]
      <4>1. req' = [req EXCEPT ![r] = q] /\ q.pc = "failed"
        BY <3>2, <1>t DEF Chat!FailCanceled, Chat!FailLast, Chat!Goto, Request
      <4>2. \E s : logged' = [logged EXCEPT ![r] = Append(logged[r], s)]
        BY <3>2 DEF Chat!FailCanceled, Chat!FailLast, Chat!Log
      <4> QED  BY <4>1, <4>2
    <3>3. CASE Chat!Keep(r, a)
      <4> DEFINE q == [p EXCEPT !.pc = a]
      <4>1. req' = [req EXCEPT ![r] = q] /\ q.pc = a  BY <3>3, <1>t DEF Chat!Keep, Chat!Goto, Request
      <4>2. logged' = logged /\ a # "call"  BY <3>3 DEF Chat!Keep, Chat!Answers
      <4> QED  BY <4>1, <4>2, <3>l
    <3> QED  BY <3>1, <3>2, <3>3
  <2>3. r \in canceled => Ends(q.pc, Len(A), left[r], L)
    BY <1>g, <1>t, <2>1, <2>2 DEF Ends
  <2> QED  BY <1>u, <2>2, <2>3, GoneMoves
<1> QED  BY <1>1, <1>2

(* Whatever a request does, its client being gone soon ends it. *)
THEOREM GoneSafe == Chat!Spec => []GoneInv
<1>1. Chat!Init => GoneInv  BY DEF Chat!Init, GoneInv, Gone
<1>2. WayInv /\ GoneInv /\ [Chat!Next]_(Chat!vars) => GoneInv'
  <2> SUFFICES ASSUME WayInv, GoneInv, [Chat!Next]_(Chat!vars)  PROVE GoneInv'
    OBVIOUS
  <2>t. /\ req \in [Requests -> Request] /\ logged \in [Requests -> Seq(Statuses)]
        /\ answers \in [Requests -> Seq(Chat!Answers)] /\ left \in [Requests -> Nat]
    BY DEF WayInv, WayTypes, GoneInv
  <2>g. ASSUME NEW r \in Requests, r \in canceled
        PROVE  Ends(req[r].pc, Len(answers[r]), left[r], logged[r])
    BY <2>g DEF GoneInv, Gone
  <2>l. ASSUME NEW r \in Requests  PROVE logged = [logged EXCEPT ![r] = logged[r]]
    BY <2>t
  <2>n. ASSUME NEW r \in Requests  PROVE Len(answers[r]) \in Nat /\ left[r] \in Nat
    BY <2>t, Before
  <2>1. ASSUME NEW r \in Requests, Chat!Begin(r)  PROVE GoneInv'
    <3>1. /\ req[r].pc = "new" /\ Len(answers[r]) = 0 /\ UNCHANGED <<answers, canceled, left>>
      BY <2>1, Before DEF Way, Chat!Begin
    <3>2. ASSUME NEW pc, NEW L  PROVE pc # "call" => Ends(pc, Len(answers[r]), left[r], L)
      BY <3>1, <2>n DEF Ends
    <3>3. CASE \E chain \in Chains :
                 req' = [req EXCEPT ![r] = [pc |-> "lookup", chain |-> chain, at |-> 1]] /\ logged' = logged
      <4>1. PICK chain \in Chains :
              req' = [req EXCEPT ![r] = [pc |-> "lookup", chain |-> chain, at |-> 1]] /\ logged' = logged
        BY <3>3
      <4> DEFINE q == [pc |-> "lookup", chain |-> chain, at |-> 1]
      <4>2. req' = [req EXCEPT ![r] = q] /\ q.pc = "lookup"  BY <4>1
      <4> HIDE DEF q
      <4>3. answers' = [answers EXCEPT ![r] = answers[r]] /\ logged' = [logged EXCEPT ![r] = logged[r]]
        BY <4>1, <3>1, <2>t
      <4>4. Ends(q.pc, Len(answers[r]), left[r], logged[r])  BY <3>2, <4>2
      <4> QED  BY <4>2, <4>3, <4>4, <3>1, GoneMoves
    <3>4. CASE Chat!Log(r, "502") /\ Chat!Goto(r, "failed")
      BY <3>1, <3>2, <3>4, GoneGoto DEF Chat!Log
    <3> QED  BY <2>1, <3>3, <3>4 DEF Chat!Begin
  <2>2. ASSUME NEW r \in Requests, Chat!LookupCounter(r) \/ Chat!InsertCounter(r)  PROVE GoneInv'
    <3>1. /\ req[r].pc \in {"lookup", "insert"} /\ UNCHANGED <<answers, canceled, left, logged>>
          /\ Chat!Goto(r, "insert") \/ Chat!Goto(r, Chat!CallStarts(r))
      BY <2>2 DEF Chat!LookupCounter, Chat!InsertCounter
    <3>2. PICK pc \in {"insert", Chat!CallStarts(r)} : Chat!Goto(r, pc)  BY <3>1
    <3>3. r \in canceled => pc \in {"insert", "refused"}  BY <3>2 DEF Chat!CallStarts
    <3>4. r \in canceled => Ends(pc, Len(answers[r]), left[r], logged[r])
      BY <3>1, <3>3, <2>g, <2>n DEF Ends
    <3> QED  BY <3>1, <3>2, <3>4, <2>l, GoneGoto
  <2>3. ASSUME NEW r \in Requests, NEW status, req[r].pc \in Kept, Chat!Deliver(r, status)  PROVE GoneInv'
    <3>1. /\ Chat!Goto(r, "done") /\ UNCHANGED <<answers, canceled, left>>
          /\ logged' = [logged EXCEPT ![r] = Append(logged[r], status)]
      BY <2>3 DEF Chat!Deliver, Chat!Log
    <3>2. ASSUME NEW L  PROVE r \in canceled => Ends("done", Len(answers[r]), left[r], L)
      BY <2>3, <2>g, <2>n DEF Ends, Kept
    <3> QED  BY <3>1, <3>2, GoneGoto
  <2>4. ASSUME NEW r \in Requests, Chat!WriteChatError(r)  PROVE GoneInv'
    <3>1. /\ req[r].pc = "failed" /\ Chat!Goto(r, "done")
          /\ UNCHANGED <<answers, canceled, left, logged>>
      BY <2>4 DEF Chat!WriteChatError
    <3>2. r \in canceled => Ends("done", Len(answers[r]), left[r], logged[r])
      BY <3>1, <2>g, <2>n DEF Ends
    <3> QED  BY <3>1, <3>2, <2>l, GoneGoto
  <2>5. ASSUME NEW r \in Requests, Chat!Disconnect(r)  PROVE GoneInv'
    <3>1. /\ canceled' = canceled \cup {r} /\ left' = [left EXCEPT ![r] = Len(answers[r])]
          /\ r \notin canceled /\ UNCHANGED <<req, logged, answers>>
      BY <2>5 DEF Chat!Disconnect
    <3>2. left' \in [Requests -> Nat]  BY <3>1, <2>t, <2>n
    <3>3. Gone(r)'  BY <3>1, <2>t, <2>n DEF Gone, Ends
    <3>4. ASSUME NEW x \in Requests, x # r  PROVE Gone(x)'
      BY <3>1, <3>4, <2>t DEF Gone, GoneInv
    <3> QED  BY <3>2, <3>3, <3>4 DEF GoneInv
  <2>6. CASE UNCHANGED Chat!vars
    BY <2>6 DEF Chat!vars, GoneInv, Gone
  <2>7. ASSUME NEW r \in Requests, Chat!PassThrough(r) \/ Chat!Normalize(r)  PROVE GoneInv'
    BY <2>3, <2>7 DEF Chat!PassThrough, Chat!Normalize, Kept
  <2> QED  BY <2>1, <2>2, <2>4, <2>5, <2>6, <2>7, AnswerGone DEF Chat!Next, Chat!Step
<1> QED  BY <1>1, <1>2, WaySafe, PTL DEF Chat!Spec

(* A request whose client left asks at most two more candidates, whatever  *)
(* its chain: the running call, and one that is refused and ends it.       *)
THEOREM GoneEndsChain == Chat!Spec => []GoneClientEndsChain
<1>1. WayInv /\ GoneInv => GoneClientEndsChain
  <2> SUFFICES ASSUME WayInv, GoneInv, NEW r \in canceled
               PROVE  /\ Len(answers[r]) - left[r] <= 2
                      /\ Len(answers[r]) - left[r] = 2 =>
                           req[r].pc \in {"failed", "done"} /\ logged[r] = <<"499">>
    BY DEF GoneClientEndsChain, Chat!GoneClientEndsChain
  <2>1. r \in Requests  BY DEF WayInv, WayTypes
  <2>2. Len(answers[r]) \in Nat /\ left[r] \in Nat  BY <2>1, Before DEF GoneInv
  <2>3. Ends(req[r].pc, Len(answers[r]), left[r], logged[r])  BY <2>1 DEF GoneInv, Gone
  <2> QED  BY <2>2, <2>3 DEF Ends
<1> QED  BY <1>1, WaySafe, GoneSafe, PTL

-----------------------------------------------------------------------------
(* The upstream counters *)

(* The places of q's chain, by u, that IncrUpstream has counted: all up to *)
(* the present one, which is counted when its call begins.                 *)
Recorded(q, u) ==
    {i \in 1..q.at : q.chain[i] = u /\ (i = q.at => q.pc \notin {"lookup", "insert"})}

CallsOf(rq, u) == UNION {{r} \X Recorded(rq[r], u) : r \in Requests}

(* No two names share a counter, every counter in use is in the map (so    *)
(* none is lost to a second insert), and each has counted the calls.       *)
CountInv ==
    /\ perUp \in [Upstreams -> {0} \cup Chat!Objects]
    /\ counter \in [Chat!Objects -> Nat]
    /\ \A u, v \in Upstreams : perUp[u] # 0 /\ perUp[u] = perUp[v] => u = v
    /\ \A o \in Chat!Objects : counter[o] > 0 => \E u \in Upstreams : perUp[u] = o
    /\ \A u \in Upstreams :
         IF perUp[u] = 0 THEN CallsOf(req, u) = {}
         ELSE counter[perUp[u]] = Cardinality(CallsOf(req, u))

LEMMA InCalls ==
  ASSUME NEW rq, NEW u
  PROVE  \A x : x \in CallsOf(rq, u) <=>
                  \E r \in Requests : \E i \in Recorded(rq[r], u) : x = <<r, i>>
BY DEF CallsOf

LEMMA SameCalls ==
  ASSUME NEW rq, NEW rp, NEW u, \A r \in Requests : Recorded(rp[r], u) = Recorded(rq[r], u)
  PROVE  CallsOf(rp, u) = CallsOf(rq, u)
BY DEF CallsOf

(* From rq to rp the calls to u have one more, place i of request r. *)
OneMore(rq, rp, u, r, i) ==
    /\ \A x \in Requests : x # r => Recorded(rp[x], u) = Recorded(rq[x], u)
    /\ Recorded(rp[r], u) = Recorded(rq[r], u) \cup {i}
    /\ i \notin Recorded(rq[r], u)

LEMMA OneMoreCall ==
  ASSUME NEW rq, NEW rp, NEW u, NEW r \in Requests, NEW i, OneMore(rq, rp, u, r, i)
  PROVE  CallsOf(rp, u) = CallsOf(rq, u) \cup {<<r, i>>} /\ <<r, i>> \notin CallsOf(rq, u)
<1> USE DEF OneMore
<1>1. <<r, i>> \notin CallsOf(rq, u)
  <2> SUFFICES ASSUME <<r, i>> \in CallsOf(rq, u)  PROVE FALSE
    OBVIOUS
  <2>1. PICK x \in Requests : \E j \in Recorded(rq[x], u) : <<r, i>> = <<x, j>>  BY InCalls
  <2>2. PICK j \in Recorded(rq[x], u) : <<r, i>> = <<x, j>>  BY <2>1
  <2>3. r = x /\ i = j  BY <2>2
  <2> QED  BY <2>2, <2>3
<1>2. ASSUME NEW y \in CallsOf(rp, u)  PROVE y \in CallsOf(rq, u) \cup {<<r, i>>}
  <2>1. PICK x \in Requests : \E j \in Recorded(rp[x], u) : y = <<x, j>>  BY InCalls
  <2>2. PICK j \in Recorded(rp[x], u) : y = <<x, j>>  BY <2>1
  <2>3. j \in Recorded(rq[x], u) \/ (x = r /\ j = i)  BY <2>2
  <2> QED  BY <2>2, <2>3, InCalls
<1>3. ASSUME NEW y \in CallsOf(rq, u)  PROVE y \in CallsOf(rp, u)
  <2>1. PICK x \in Requests : \E j \in Recorded(rq[x], u) : y = <<x, j>>  BY InCalls
  <2>2. PICK j \in Recorded(rq[x], u) : y = <<x, j>>  BY <2>1
  <2>3. j \in Recorded(rp[x], u)  BY <2>2
  <2> QED  BY <2>2, <2>3, InCalls
<1>4. <<r, i>> \in CallsOf(rp, u)
  <2>1. i \in Recorded(rp[r], u)  OBVIOUS
  <2> QED  BY <2>1, InCalls
<1> QED  BY <1>1, <1>2, <1>3, <1>4

LEMMA CallsFinite ==
  ASSUME WayInv, NEW u
  PROVE  IsFiniteSet(CallsOf(req, u)) /\ Cardinality(CallsOf(req, u)) \in Nat
<1> DEFINE f == [r \in Requests |-> {r} \X Recorded(req[r], u)]
           S == {{r} \X Recorded(req[r], u) : r \in Requests}
<1>1. f \in Surjection(Requests, S)
  <2>1. f \in [Requests -> S]  OBVIOUS
  <2>2. \A t \in S : \E r \in Requests : f[r] = t  OBVIOUS
  <2> QED  BY <2>1, <2>2 DEF Surjection
<1>2. IsFiniteSet(S)  BY <1>1, ChatAssumption, FS_Surjection
<1>3. ASSUME NEW r \in Requests  PROVE IsFiniteSet({r} \X Recorded(req[r], u))
  <2>1. req[r].at \in Nat  BY Before
  <2>2. IsFiniteSet(1..req[r].at)  BY <2>1, FS_Interval
  <2>3. Recorded(req[r], u) \in SUBSET (1..req[r].at)  BY DEF Recorded
  <2>4. IsFiniteSet(Recorded(req[r], u))  BY <2>2, <2>3, FS_Subset
  <2>5. IsFiniteSet({r})  BY FS_Singleton
  <2> QED  BY <2>4, <2>5, FS_Product
<1>4. \A t \in S : IsFiniteSet(t)  BY <1>3
<1>5. CallsOf(req, u) = UNION S  BY DEF CallsOf
<1> HIDE DEF S
<1>6. IsFiniteSet(UNION S)  BY <1>2, <1>4, FS_UNION
<1> QED  BY <1>5, <1>6, FS_CardinalityType

(* There is always a fresh counter for a new name. *)
LEMMA FreeObject ==
  ASSUME CountInv, NEW u \in Upstreams, perUp[u] = 0, NEW r \in Requests
  PROVE  \E x \in Chat!Objects : x \notin Chat!Allocated
<1> DEFINE T == {perUp[v] : v \in Upstreams}
           O == Chat!Objects
           R == Cardinality(Requests)
           N == Cardinality(Upstreams)
<1>1. R \in Nat /\ N \in Nat /\ R # 0 /\ N # 0
  BY ChatAssumption, FS_CardinalityType, FS_EmptySet
<1>2. O = 1..(2 * R * N)  BY DEF Chat!Objects, Chat!Cardinality, Cardinality
<1>3. perUp \in Surjection(Upstreams, T)
  <2>1. perUp \in [Upstreams -> T]  BY DEF CountInv
  <2>2. \A t \in T : \E v \in Upstreams : perUp[v] = t  OBVIOUS
  <2> QED  BY <2>1, <2>2 DEF Surjection
<1>4. IsFiniteSet(T) /\ Cardinality(T) <= N  BY <1>3, ChatAssumption, FS_Surjection
<1>5. 0 \in T  OBVIOUS
<1>6. Chat!Allocated \subseteq T
  BY DEF Chat!Allocated, CountInv
<1>a. 0 \notin O  BY <1>2
<1> HIDE DEF T, O, R, N
<1>7. IsFiniteSet(T \ {0}) /\ Cardinality(T \ {0}) = Cardinality(T) - 1  BY <1>4, <1>5, FS_RemoveElement
<1> SUFFICES ASSUME O \subseteq Chat!Allocated  PROVE FALSE
  BY DEF O
<1>8. O \in SUBSET (T \ {0})  BY <1>6, <1>a
<1>9. Cardinality(O) <= Cardinality(T \ {0})  BY <1>7, <1>8, FS_Subset
<1>10. 2 * R * N \in Nat /\ 2 * R * N >= N
  <2>1. R * N \in Nat /\ R * N >= N  BY <1>1
  <2>2. 2 * R * N = 2 * (R * N)  BY <1>1
  <2> QED  BY <2>1, <2>2, <1>1
<1>11. Cardinality(O) = 2 * R * N
  <2> DEFINE M == 2 * R * N
  <2>1. M \in Nat /\ O = 1..M  BY <1>2, <1>10
  <2> HIDE DEF M
  <2>2. Cardinality(1..M) = M  BY <2>1, FS_Interval
  <2>3. Cardinality(O) = M  BY <2>1, <2>2
  <2> QED  BY <2>3 DEF M
<1>12. Cardinality(T) \in Nat  BY <1>4, FS_CardinalityType
<1> QED  BY <1>1, <1>4, <1>7, <1>9, <1>10, <1>11, <1>12

(* A step that leaves the counters and what they count alone. *)
LEMMA CountSame ==
  ASSUME CountInv, UNCHANGED <<perUp, counter>>,
         \A u \in Upstreams : \A r \in Requests : Recorded(req'[r], u) = Recorded(req[r], u)
  PROVE  CountInv'
<1>1. \A u \in Upstreams : CallsOf(req', u) = CallsOf(req, u)  BY SameCalls
<1>2. \A u \in Upstreams : CallsOf(req, u)' = CallsOf(req', u)  BY DEF CallsOf, Recorded
<1> QED  BY <1>1, <1>2 DEF CountInv

(* The candidate that IncrUpstream is called for. *)
LEMMA CandidateIs ==
  ASSUME WayInv, NEW r \in Requests, req[r].pc \in {"lookup", "insert"}
  PROVE  /\ req[r].at \in Nat /\ req[r].at \in 1..req[r].at
         /\ Chat!Candidate(r) = req[r].chain[req[r].at] /\ Chat!Candidate(r) \in Upstreams
<1>1. req[r] \in Request /\ Way(req[r], answers[r], logged[r], client[r])
  BY Before
<1>2. req[r].chain \in Seq(Upstreams) /\ req[r].at \in Nat
  BY <1>1, ChatAssumption, EmptySeq DEF Request
<1>3. req[r].at \in 1..Len(req[r].chain)  BY <1>1, <1>2 DEF Way
<1> QED  BY <1>2, <1>3 DEF Chat!Candidate

(* A call begins and its counter o goes up. *)
LEMMA CountOne ==
  ASSUME WayInv, CountInv, NEW r \in Requests, req[r].pc \in {"lookup", "insert"},
         NEW pc \in Asking, req' = [req EXCEPT ![r].pc = pc],
         NEW u, u = Chat!Candidate(r), NEW o \in Chat!Objects,
         perUp' = [perUp EXCEPT ![u] = o], counter' = [counter EXCEPT ![o] = @ + 1],
         perUp[u] = o \/ (perUp[u] = 0 /\ o \notin Chat!Allocated)
  PROVE  CountInv'
<1>b. req \in [Requests -> Request]  BY DEF WayInv, WayTypes
<1>u. /\ req[r].at \in Nat /\ req[r].at \in 1..req[r].at
      /\ u = req[r].chain[req[r].at] /\ u \in Upstreams
  BY CandidateIs
<1>q. /\ req'[r].pc \in Asking /\ req'[r].chain = req[r].chain /\ req'[r].at = req[r].at
      /\ \A x \in Requests : x # r => req'[x] = req[x]
  BY <1>b DEF Request
<1>1. \A v : v # u => \A x \in Requests : Recorded(req'[x], v) = Recorded(req[x], v)
  <2> SUFFICES ASSUME NEW v, v # u, NEW x \in Requests
               PROVE  Recorded(req'[x], v) = Recorded(req[x], v)
    OBVIOUS
  <2>1. CASE x = r  BY <2>1, <1>q, <1>u DEF Recorded
  <2>2. CASE x # r  BY <2>2, <1>q
  <2> QED  BY <2>1, <2>2
<1>2. /\ Recorded(req'[r], u) = Recorded(req[r], u) \cup {req[r].at}
      /\ req[r].at \notin Recorded(req[r], u)
  BY <1>q, <1>u DEF Recorded, Asking
<1>3. \A v \in Upstreams : v # u => CallsOf(req', v) = CallsOf(req, v)  BY <1>1, SameCalls
<1>4. \A x \in Requests : x # r => Recorded(req'[x], u) = Recorded(req[x], u)  BY <1>q
<1>5. /\ CallsOf(req', u) = CallsOf(req, u) \cup {<<r, req[r].at>>}
      /\ <<r, req[r].at>> \notin CallsOf(req, u)
  <2> DEFINE i == req[r].at
  <2>1. OneMore(req, req', u, r, i)  BY <1>2, <1>4 DEF OneMore
  <2> HIDE DEF i
  <2>2. CallsOf(req', u) = CallsOf(req, u) \cup {<<r, i>>} /\ <<r, i>> \notin CallsOf(req, u)
    BY <2>1, OneMoreCall
  <2> QED  BY <2>2 DEF i
<1>6. Cardinality(CallsOf(req', u)) = Cardinality(CallsOf(req, u)) + 1
  <2> DEFINE x == <<r, req[r].at>>
             C == CallsOf(req, u)
  <2>1. CallsOf(req', u) = C \cup {x} /\ x \notin C  BY <1>5
  <2>2. IsFiniteSet(C)  BY CallsFinite
  <2> HIDE DEF x, C
  <2>3. Cardinality(C \cup {x}) = Cardinality(C) + 1  BY <2>1, <2>2, FS_AddElement
  <2>4. Cardinality(CallsOf(req', u)) = Cardinality(C) + 1  BY <2>1, <2>3
  <2> QED  BY <2>4 DEF C
<1>t. /\ perUp \in [Upstreams -> {0} \cup Chat!Objects] /\ counter \in [Chat!Objects -> Nat]
      /\ \A v, w \in Upstreams : perUp[v] # 0 /\ perUp[v] = perUp[w] => v = w
      /\ \A x \in Chat!Objects : counter[x] > 0 => \E v \in Upstreams : perUp[v] = x
      /\ \A v \in Upstreams : IF perUp[v] = 0 THEN CallsOf(req, v) = {}
                              ELSE counter[perUp[v]] = Cardinality(CallsOf(req, v))
  BY DEF CountInv
<1>z. o # 0  BY DEF Chat!Objects
<1>7. \A v \in Upstreams : v # u => perUp[v] # o
  BY <1>t, <1>u, <1>z DEF Chat!Allocated
<1>8. perUp' \in [Upstreams -> {0} \cup Chat!Objects] /\ counter' \in [Chat!Objects -> Nat]
  <2>1. counter[o] + 1 \in Nat  BY <1>t
  <2> QED  BY <2>1, <1>t
<1>9. perUp'[u] = o /\ \A v \in Upstreams : v # u => perUp'[v] = perUp[v]  BY <1>t, <1>u
<1>10. counter'[o] = counter[o] + 1 /\ \A x \in Chat!Objects : x # o => counter'[x] = counter[x]
  BY <1>t
<1>11. \A v, w \in Upstreams : perUp'[v] # 0 /\ perUp'[v] = perUp'[w] => v = w
  BY <1>t, <1>7, <1>9
<1>12. ASSUME NEW x \in Chat!Objects, counter'[x] > 0  PROVE \E v \in Upstreams : perUp'[v] = x
  <2>1. CASE x = o  BY <2>1, <1>9, <1>u
  <2>2. CASE x # o
    <3>1. counter[x] > 0  BY <1>12, <2>2, <1>10
    <3>2. PICK v \in Upstreams : perUp[v] = x  BY <3>1, <1>t
    <3>3. v # u
      <4>1. x # 0  BY DEF Chat!Objects
      <4> QED  BY <3>2, <4>1, <2>2
    <3> QED  BY <3>2, <3>3, <1>9
  <2> QED  BY <2>1, <2>2
<1>13. counter[o] = Cardinality(CallsOf(req, u))
  <2>1. CASE perUp[u] = o  BY <2>1, <1>t, <1>u, <1>z
  <2>2. CASE perUp[u] = 0 /\ o \notin Chat!Allocated
    <3>1. ~(counter[o] > 0) /\ counter[o] \in Nat  BY <2>2, <1>t DEF Chat!Allocated
    <3>2. CallsOf(req, u) = {}  BY <2>2, <1>t, <1>u
    <3> QED  BY <3>1, <3>2, FS_EmptySet
  <2> QED  BY <2>1, <2>2
<1>14. ASSUME NEW v \in Upstreams
       PROVE  IF perUp'[v] = 0 THEN CallsOf(req', v) = {}
              ELSE counter'[perUp'[v]] = Cardinality(CallsOf(req', v))
  <2>1. CASE v = u  BY <2>1, <1>6, <1>9, <1>10, <1>13, <1>z
  <2>2. CASE v # u
    <3>1. perUp'[v] = perUp[v] /\ perUp[v] # o /\ CallsOf(req', v) = CallsOf(req, v)
      BY <2>2, <1>3, <1>7, <1>9
    <3>2. perUp[v] # 0 => counter'[perUp[v]] = counter[perUp[v]]  BY <3>1, <1>10, <1>t
    <3> QED  BY <3>1, <3>2, <1>t
  <2> QED  BY <2>1, <2>2
<1>15. \A v \in Upstreams : CallsOf(req, v)' = CallsOf(req', v)  BY DEF CallsOf, Recorded
<1> QED  BY <1>8, <1>11, <1>12, <1>14, <1>15 DEF CountInv

(* A step of one request that counts nothing: q is where it goes. *)
LEMMA CountNone ==
  ASSUME WayInv, CountInv, NEW r \in Requests, NEW q, req' = [req EXCEPT ![r] = q],
         \A u : Recorded(q, u) = Recorded(req[r], u), UNCHANGED <<perUp, counter>>
  PROVE  CountInv'
<1>1. req \in [Requests -> Request]  BY DEF WayInv, WayTypes
<1>2. ASSUME NEW u \in Upstreams, NEW x \in Requests
      PROVE  Recorded(req'[x], u) = Recorded(req[x], u)
  <2>1. CASE x = r  BY <2>1, <1>1
  <2>2. CASE x # r  BY <2>2, <1>1
  <2> QED  BY <2>1, <2>2
<1> QED  BY <1>2, CountSame

(* The place changes and the candidate does not. *)
LEMMA CountGoto ==
  ASSUME WayInv, CountInv, NEW r \in Requests, NEW pc, Chat!Goto(r, pc),
         UNCHANGED <<perUp, counter>>,
         pc \in {"lookup", "insert"} <=> req[r].pc \in {"lookup", "insert"}
  PROVE  CountInv'
<1> DEFINE q == [req[r] EXCEPT !.pc = pc]
<1>1. req[r] \in Request  BY Before
<1>2. q.pc = pc /\ q.chain = req[r].chain /\ q.at = req[r].at  BY <1>1 DEF Request
<1>3. req' = [req EXCEPT ![r] = q]  BY DEF Chat!Goto
<1> HIDE DEF q
<1>4. \A u : Recorded(q, u) = Recorded(req[r], u)  BY <1>2 DEF Recorded
<1> QED  BY <1>3, <1>4, CountNone

LEMMA BeginCounts ==
  ASSUME WayInv, CountInv, NEW r \in Requests, Chat!Begin(r)  PROVE CountInv'
<1>1. req[r].pc = "new" /\ req[r].at = 0 /\ UNCHANGED <<perUp, counter>>
  BY Before DEF Chat!Begin, Way
<1>2. CASE \E chain \in Chains : req' = [req EXCEPT ![r] = [pc |-> "lookup", chain |-> chain, at |-> 1]]
  <2>1. PICK chain \in Chains : req' = [req EXCEPT ![r] = [pc |-> "lookup", chain |-> chain, at |-> 1]]
    BY <1>2
  <2> DEFINE q == [pc |-> "lookup", chain |-> chain, at |-> 1]
  <2>2. \A u : Recorded(q, u) = {}  BY DEF Recorded
  <2>3. \A u : Recorded(req[r], u) = {}  BY <1>1 DEF Recorded
  <2>4. req' = [req EXCEPT ![r] = q]  BY <2>1
  <2> HIDE DEF q
  <2> QED  BY <1>1, <2>2, <2>3, <2>4, CountNone
<1>3. CASE Chat!Goto(r, "failed")  BY <1>1, <1>3, CountGoto
<1> QED  BY <1>2, <1>3 DEF Chat!Begin

LEMMA TryNextCounts ==
  ASSUME WayInv, CountInv, NEW r \in Requests, NEW a \in Chat!Answers, Chat!TryNext(r, a)
  PROVE  CountInv'
<1> DEFINE p == req[r]
           q == [p EXCEPT !.pc = "lookup", !.at = p.at + 1]
<1>1. p \in Request /\ p.pc \in Asking /\ p.at \in Nat
  BY Before DEF Chat!TryNext, Chat!Answered, Asking
<1>2. q.pc = "lookup" /\ q.chain = p.chain /\ q.at = p.at + 1  BY <1>1 DEF Request
<1>3. req' = [req EXCEPT ![r] = q] /\ UNCHANGED <<perUp, counter>>
  <2>1. req \in [Requests -> Request]  BY DEF WayInv, WayTypes
  <2> QED  BY <2>1, <1>1 DEF Chat!TryNext, Chat!metrics, Request
<1> HIDE DEF q
<1>4. ASSUME NEW u  PROVE Recorded(q, u) = Recorded(p, u)
  BY <1>1, <1>2 DEF Recorded, Asking
<1> QED  BY <1>3, <1>4, CountNone

LEMMA LookupCounts ==
  ASSUME WayInv, CountInv, NEW r \in Requests, Chat!LookupCounter(r)  PROVE CountInv'
<1> DEFINE u == Chat!Candidate(r)
<1>1. CASE perUp[u] = 0
  BY <1>1, CountGoto DEF Chat!LookupCounter
<1>2. CASE perUp[u] # 0
  <2>u. u \in Upstreams  BY CandidateIs DEF Chat!LookupCounter
  <2>1. perUp[u] \in Chat!Objects /\ perUp \in [Upstreams -> {0} \cup Chat!Objects]
    BY <1>2, <2>u DEF CountInv
  <2>2. perUp' = [perUp EXCEPT ![u] = perUp[u]]  BY <2>1 DEF Chat!LookupCounter
  <2>3. counter' = [counter EXCEPT ![perUp[u]] = @ + 1] 
        /\ req' = [req EXCEPT ![r].pc = Chat!CallStarts(r)]
    BY <1>2 DEF Chat!LookupCounter, Chat!Goto
  <2>4. Chat!CallStarts(r) \in Asking  BY DEF Chat!CallStarts, Asking
  <2> QED  BY <2>1, <2>2, <2>3, <2>4, CountOne DEF Chat!LookupCounter
<1> QED  BY <1>1, <1>2

LEMMA InsertCounts ==
  ASSUME WayInv, CountInv, NEW r \in Requests, Chat!InsertCounter(r)  PROVE CountInv'
<1> DEFINE u == Chat!Candidate(r)
           o == IF Chat!CounterOf(u) # 0 THEN Chat!CounterOf(u)
                ELSE CHOOSE x \in Chat!Objects : x \notin Chat!Allocated
<1>u. u \in Upstreams  BY CandidateIs DEF Chat!InsertCounter
<1>c. Chat!CallStarts(r) \in Asking  BY DEF Chat!CallStarts, Asking
<1>1. CASE perUp[u] = 0
  <2>1. \E x \in Chat!Objects : x \notin Chat!Allocated  BY <1>1, <1>u, FreeObject
  <2>2. o \in Chat!Objects /\ o \notin Chat!Allocated  BY <1>1, <2>1 DEF Chat!CounterOf
  <2> QED  BY <1>1, <1>c, <2>2, CountOne DEF Chat!InsertCounter, Chat!Goto
<1>2. CASE perUp[u] # 0
  <2>1. o = perUp[u] /\ perUp[u] \in Chat!Objects  BY <1>2, <1>u DEF Chat!CounterOf, CountInv
  <2> QED  BY <1>c, <2>1, CountOne DEF Chat!InsertCounter, Chat!Goto
<1> QED  BY <1>1, <1>2

(* The invariant of the upstream counters, however requests interleave in  *)
(* IncrUpstream.                                                           *)
THEOREM CountSafe == Chat!Spec => []CountInv
<1>1. Chat!Init => CountInv
  <2> SUFFICES ASSUME Chat!Init  PROVE CountInv
    OBVIOUS
  <2> DEFINE q == [pc |-> "new", chain |-> <<>>, at |-> 0]
  <2>1. \A u : Recorded(q, u) = {}  BY DEF Recorded
  <2>2. \A r \in Requests : req[r] = q  BY DEF Chat!Init
  <2> HIDE DEF q
  <2>3. \A u \in Upstreams : CallsOf(req, u) = {}  BY <2>1, <2>2 DEF CallsOf
  <2> QED  BY <2>3 DEF Chat!Init, CountInv
<1>2. WayInv /\ CountInv /\ [Chat!Next]_(Chat!vars) => CountInv'
  <2> SUFFICES ASSUME WayInv, CountInv, [Chat!Next]_(Chat!vars)  PROVE CountInv'
    OBVIOUS
  <2>1. ASSUME NEW r \in Requests, NEW a \in Chat!Answers,
               Chat!FailCanceled(r, a) \/ Chat!FailLast(r, a)
        PROVE  CountInv'
    BY <2>1, CountGoto DEF Chat!FailCanceled, Chat!FailLast, Chat!Answered
  <2>2. ASSUME NEW r \in Requests, NEW a \in Chat!Answers, Chat!Keep(r, a)  PROVE CountInv'
    <3>1. a \notin {"lookup", "insert"}  BY DEF Chat!Answers
    <3> QED  BY <2>2, <3>1, CountGoto DEF Chat!Keep, Chat!Answered, Chat!metrics
  <2>3. ASSUME NEW r \in Requests, Chat!PassThrough(r) \/ Chat!Normalize(r)  PROVE CountInv'
    <3>1. req[r].pc \notin {"lookup", "insert"} /\ Chat!Goto(r, "done") /\ UNCHANGED <<perUp, counter>>
      BY <2>3 DEF Chat!PassThrough, Chat!Normalize, Chat!Deliver
    <3> QED  BY <3>1, CountGoto
  <2>4. ASSUME NEW r \in Requests, Chat!WriteChatError(r)  PROVE CountInv'
    BY <2>4, CountGoto DEF Chat!WriteChatError, Chat!metrics
  <2>5. CASE UNCHANGED <<req, perUp, counter>>  BY <2>5, CountSame
  <2>6. ASSUME NEW r \in Requests, Chat!Disconnect(r)  PROVE UNCHANGED <<req, perUp, counter>>
    BY <2>6 DEF Chat!Disconnect, Chat!metrics
  <2>7. UNCHANGED Chat!vars => UNCHANGED <<req, perUp, counter>>  BY DEF Chat!vars
  <2> QED  BY <2>1, <2>2, <2>3, <2>4, <2>5, <2>6, <2>7, BeginCounts, LookupCounts, InsertCounts,
              TryNextCounts
           DEF Chat!Next, Chat!Step
<1> QED  BY <1>1, <1>2, WaySafe, PTL DEF Chat!Spec

-----------------------------------------------------------------------------
(* The totals *)

(* The requests that began, those logged with a status of 400 or more, and *)
(* the tokens of the request log.                                          *)
Began(rq) == {r \in Requests : rq[r].pc # "new"}
Refused(lg) == {r \in Requests : lg[r] \notin {<<>>, <<"ok">>}}
UsedIn(us) == UNION {{r} \X (1..us[r]) : r \in Requests}

SumInv ==
    /\ usage \in [Requests -> 0..1]
    /\ \A r \in Requests : req[r].pc # "done" => usage[r] = 0
    /\ total = Cardinality(Began(req))
    /\ errors = Cardinality(Refused(logged))
    /\ tokens = Cardinality(UsedIn(usage))

LEMMA InUsed ==
  ASSUME NEW us \in [Requests -> 0..1]
  PROVE  \A x : x \in UsedIn(us) <=> \E r \in Requests : us[r] = 1 /\ x = <<r, 1>>
<1>1. \A x : x \in UsedIn(us) <=> \E r \in Requests : \E i \in 1..us[r] : x = <<r, i>>
  BY DEF UsedIn
<1>2. \A r \in Requests : 1..us[r] = IF us[r] = 1 THEN {1} ELSE {}
  <2> SUFFICES ASSUME NEW r \in Requests  PROVE 1..us[r] = IF us[r] = 1 THEN {1} ELSE {}
    OBVIOUS
  <2>1. us[r] = 0 \/ us[r] = 1  OBVIOUS
  <2>2. 1..0 = {} /\ 1..1 = {1}  OBVIOUS
  <2>3. CASE us[r] = 0
    <3>1. 1..us[r] = {}  BY <2>2, <2>3
    <3> QED  BY <2>3, <3>1
  <2>4. CASE us[r] = 1
    <3>1. 1..us[r] = {1}  BY <2>2, <2>4
    <3> QED  BY <2>4, <3>1
  <2> QED  BY <2>1, <2>3, <2>4
<1> QED  BY <1>1, <1>2

LEMMA SumsFinite ==
  ASSUME NEW us \in [Requests -> 0..1], NEW rq, NEW lg
  PROVE  /\ IsFiniteSet(Began(rq)) /\ Cardinality(Began(rq)) \in 0..Cardinality(Requests)
         /\ IsFiniteSet(Refused(lg)) /\ Cardinality(Refused(lg)) \in 0..Cardinality(Requests)
         /\ IsFiniteSet(UsedIn(us)) /\ Cardinality(UsedIn(us)) \in Nat
<1>1. ASSUME NEW S \in SUBSET Requests
      PROVE  IsFiniteSet(S) /\ Cardinality(S) \in 0..Cardinality(Requests)
  <2>1. IsFiniteSet(S) /\ Cardinality(S) <= Cardinality(Requests)  BY ChatAssumption, FS_Subset
  <2>2. Cardinality(S) \in Nat /\ Cardinality(Requests) \in Nat
    BY <2>1, ChatAssumption, FS_CardinalityType
  <2> QED  BY <2>1, <2>2
<1>2. Began(rq) \in SUBSET Requests /\ Refused(lg) \in SUBSET Requests  BY DEF Began, Refused
<1>3. UsedIn(us) \in SUBSET (Requests \X {1})  BY InUsed
<1>4. IsFiniteSet(Requests \X {1})
  <2>1. IsFiniteSet({1})  BY FS_Singleton
  <2> QED  BY <2>1, ChatAssumption, FS_Product
<1>5. IsFiniteSet(UsedIn(us))  BY <1>3, <1>4, FS_Subset
<1> QED  BY <1>1, <1>2, <1>5, FS_CardinalityType

(* One more element, one more counted. *)
LEMMA OneMoreIn ==
  ASSUME NEW S, NEW T, NEW x, IsFiniteSet(S), x \notin S, T = S \cup {x}
  PROVE  Cardinality(T) = Cardinality(S) + 1
BY FS_AddElement

LEMMA SumLinks ==
  /\ Began(req)' = Began(req') /\ Refused(logged)' = Refused(logged') /\ UsedIn(usage)' = UsedIn(usage')
BY DEF Began, Refused, UsedIn

(* A step of request r: q is where it goes, L its log, n its tokens. *)
LEMMA SumStep ==
  ASSUME WayInv, SumInv, NEW r \in Requests, NEW q, NEW L, NEW n \in 0..1,
         req' = [req EXCEPT ![r] = q], logged' = [logged EXCEPT ![r] = L],
         usage' = [usage EXCEPT ![r] = n],
         req[r].pc # "done", q.pc # "new", q.pc # "done" => n = 0,
         total' = IF req[r].pc = "new" THEN total + 1 ELSE total,
         L = logged[r] \/ logged[r] = <<>>,
         errors' = IF L \in {logged[r], <<"ok">>} THEN errors ELSE errors + 1,
         tokens' = tokens + n
  PROVE  SumInv'
<1>t. /\ req \in [Requests -> Request] /\ logged \in [Requests -> Seq(Statuses)]
      /\ usage \in [Requests -> 0..1]
  BY DEF WayInv, WayTypes, SumInv
<1>i. /\ total = Cardinality(Began(req)) /\ errors = Cardinality(Refused(logged))
      /\ tokens = Cardinality(UsedIn(usage)) /\ usage[r] = 0
      /\ \A x \in Requests : req[x].pc # "done" => usage[x] = 0
  BY DEF SumInv
<1>f. /\ IsFiniteSet(Began(req)) /\ IsFiniteSet(Refused(logged)) /\ IsFiniteSet(UsedIn(usage))
      /\ Cardinality(UsedIn(usage)) \in Nat
  BY <1>t, SumsFinite
<1>r. req'[r] = q /\ \A x \in Requests : x # r => req'[x] = req[x]  BY <1>t
<1>l. logged'[r] = L /\ \A x \in Requests : x # r => logged'[x] = logged[x]  BY <1>t
<1>u. /\ usage'[r] = n /\ usage' \in [Requests -> 0..1]
      /\ \A x \in Requests : x # r => usage'[x] = usage[x]
  BY <1>t
<1>1. total' = Cardinality(Began(req'))
  <2>1. CASE req[r].pc = "new"
    <3>1. r \notin Began(req)  BY <2>1 DEF Began
    <3>2. Began(req') = Began(req) \cup {r}  BY <1>r DEF Began
    <3>3. Cardinality(Began(req')) = Cardinality(Began(req)) + 1  BY <3>1, <3>2, <1>f, OneMoreIn
    <3> QED  BY <2>1, <3>3, <1>i
  <2>2. CASE req[r].pc # "new"
    <3>1. Began(req') = Began(req)  BY <2>2, <1>r DEF Began
    <3> QED  BY <2>2, <3>1, <1>i
  <2> QED  BY <2>1, <2>2
<1>2. errors' = Cardinality(Refused(logged'))
  <2>1. CASE L \in {logged[r], <<"ok">>}
    <3>1. Refused(logged') = Refused(logged)  BY <2>1, <1>l DEF Refused
    <3> QED  BY <2>1, <3>1, <1>i
  <2>2. CASE L \notin {logged[r], <<"ok">>}
    <3>0. logged[r] = <<>> /\ L \notin {<<>>, <<"ok">>}  BY <2>2
    <3>1. r \notin Refused(logged)  BY <3>0 DEF Refused
    <3>2. Refused(logged') = Refused(logged) \cup {r}  BY <3>0, <1>l DEF Refused
    <3>3. Cardinality(Refused(logged')) = Cardinality(Refused(logged)) + 1
      BY <3>1, <3>2, <1>f, OneMoreIn
    <3> QED  BY <2>2, <3>3, <1>i
  <2> QED  BY <2>1, <2>2
<1>3. tokens' = Cardinality(UsedIn(usage'))
  <2>1. CASE n = 0
    <3>1. usage' = usage  BY <2>1, <1>t, <1>i
    <3> QED  BY <2>1, <3>1, <1>i, <1>f
  <2>2. CASE n = 1
    <3>1. \A x : x \in UsedIn(usage) <=> \E y \in Requests : usage[y] = 1 /\ x = <<y, 1>>
      BY <1>t, InUsed
    <3>2. \A x : x \in UsedIn(usage') <=> \E y \in Requests : usage'[y] = 1 /\ x = <<y, 1>>
      BY <1>u, InUsed
    <3>3. <<r, 1>> \notin UsedIn(usage)  BY <3>1, <1>i
    <3>4. \A x : x \in UsedIn(usage') <=> x \in UsedIn(usage) \/ x = <<r, 1>>
      <4> SUFFICES ASSUME NEW x  PROVE x \in UsedIn(usage') <=> x \in UsedIn(usage) \/ x = <<r, 1>>
        OBVIOUS
      <4>1. \A y \in Requests : usage'[y] = 1 <=> usage[y] = 1 \/ y = r  BY <2>2, <1>u
      <4> QED  BY <3>1, <3>2, <4>1
    <3>5. UsedIn(usage') = UsedIn(usage) \cup {<<r, 1>>}  BY <3>4
    <3>6. Cardinality(UsedIn(usage')) = Cardinality(UsedIn(usage)) + 1
      BY <3>3, <3>5, <1>f, OneMoreIn
    <3> QED  BY <2>2, <3>6, <1>i
  <2> QED  BY <2>1, <2>2
<1>4. \A x \in Requests : req'[x].pc # "done" => usage'[x] = 0
  BY <1>r, <1>u, <1>i
<1> QED  BY <1>1, <1>2, <1>3, <1>4, <1>u, SumLinks DEF SumInv

LEMMA GotoIs ==
  ASSUME WayInv, NEW r \in Requests, NEW pc, Chat!Goto(r, pc)
  PROVE  \E q : req' = [req EXCEPT ![r] = q] /\ q.pc = pc
<1> DEFINE q == [req[r] EXCEPT !.pc = pc]
<1>1. req[r] \in Request  BY Before
<1>2. q.pc = pc  BY <1>1 DEF Request
<1>3. req' = [req EXCEPT ![r] = q]  BY DEF Chat!Goto
<1> QED  BY <1>2, <1>3

(* What a step of request r leaves alone, and what its log was. *)
LEMMA SumKeeps ==
  ASSUME WayInv, SumInv, NEW r \in Requests
  PROVE  /\ logged = [logged EXCEPT ![r] = logged[r]] /\ usage = [usage EXCEPT ![r] = usage[r]]
         /\ usage[r] \in 0..1 /\ (req[r].pc # "done" => usage[r] = 0)
         /\ (req[r].pc \notin {"failed", "done"} => logged[r] = <<>>)
         /\ tokens \in Nat /\ tokens = tokens + 0
<1>1. logged = [logged EXCEPT ![r] = logged[r]] /\ usage = [usage EXCEPT ![r] = usage[r]]
  BY DEF WayInv, WayTypes, SumInv
<1>2. usage[r] \in 0..1 /\ (req[r].pc # "done" => usage[r] = 0)  BY DEF SumInv
<1>3. req[r].pc \notin {"failed", "done"} => logged[r] = <<>>  BY Before DEF Way
<1>4. tokens \in Nat
  <2>1. usage \in [Requests -> 0..1] /\ tokens = Cardinality(UsedIn(usage))  BY DEF SumInv
  <2>2. Cardinality(UsedIn(usage)) \in Nat  BY <2>1, SumsFinite
  <2> QED  BY <2>1, <2>2
<1> QED  BY <1>1, <1>2, <1>3, <1>4

(* A step that logs nothing. *)
LEMMA SumQuiet ==
  ASSUME WayInv, SumInv, NEW r \in Requests, NEW q, req' = [req EXCEPT ![r] = q],
         q.pc # "new", req[r].pc # "done", UNCHANGED <<errors, tokens, logged, usage>>,
         total' = IF req[r].pc = "new" THEN total + 1 ELSE total
  PROVE  SumInv'
<1>1. /\ logged' = [logged EXCEPT ![r] = logged[r]] /\ usage' = [usage EXCEPT ![r] = 0]
      /\ tokens' = tokens + 0
  BY SumKeeps
<1>2. errors' = IF logged[r] \in {logged[r], <<"ok">>} THEN errors ELSE errors + 1  OBVIOUS
<1>3. 0 \in 0..1  OBVIOUS
<1> QED  BY <1>1, <1>2, <1>3, SumStep

(* The step of a request that logs its only entry. *)
LEMMA SumLog ==
  ASSUME WayInv, SumInv, NEW r \in Requests, NEW pc, Chat!Goto(r, pc), pc # "new",
         req[r].pc \notin {"failed", "done"}, NEW status \in Statuses, Chat!Log(r, status),
         NEW n \in 0..1, pc # "done" => n = 0, usage' = [usage EXCEPT ![r] = n],
         tokens' = tokens + n, errors' = IF status = "ok" THEN errors ELSE errors + 1,
         total' = IF req[r].pc = "new" THEN total + 1 ELSE total
  PROVE  SumInv'
<1>1. PICK q : req' = [req EXCEPT ![r] = q] /\ q.pc = pc  BY GotoIs
<1>2. logged[r] = <<>>  BY SumKeeps
<1>3. Append(logged[r], status) = <<status>> /\ <<status>> # <<>>  BY <1>2, LogOne
<1>4. logged' = [logged EXCEPT ![r] = <<status>>]  BY <1>3 DEF Chat!Log
<1>5. <<status>> \in {logged[r], <<"ok">>} <=> status = "ok"
  <2>1. <<status>> = <<"ok">> <=> status = "ok"  OBVIOUS
  <2> QED  BY <2>1, <1>2, <1>3
<1>6. errors' = IF <<status>> \in {logged[r], <<"ok">>} THEN errors ELSE errors + 1
  BY <1>5
<1> QED  BY <1>1, <1>2, <1>4, <1>6, SumStep

LEMMA BeginSums ==
  ASSUME WayInv, SumInv, NEW r \in Requests, Chat!Begin(r)  PROVE SumInv'
<1>1. req[r].pc = "new" /\ total' = total + 1 /\ UNCHANGED <<tokens, usage>>  BY DEF Chat!Begin
<1>2. CASE /\ \E chain \in Chains : req' = [req EXCEPT ![r] = [pc |-> "lookup", chain |-> chain, at |-> 1]]
           /\ UNCHANGED <<errors, logged>>
  <2>1. PICK chain \in Chains : req' = [req EXCEPT ![r] = [pc |-> "lookup", chain |-> chain, at |-> 1]]
    BY <1>2
  <2> DEFINE q == [pc |-> "lookup", chain |-> chain, at |-> 1]
  <2>2. q.pc = "lookup" /\ req' = [req EXCEPT ![r] = q]  BY <2>1
  <2> HIDE DEF q
  <2> QED  BY <1>1, <1>2, <2>2, SumQuiet
<1>3. CASE errors' = errors + 1 /\ Chat!Log(r, "502") /\ Chat!Goto(r, "failed")
  <2>1. usage' = [usage EXCEPT ![r] = 0] /\ tokens' = tokens + 0  BY <1>1, SumKeeps
  <2>2. 0 \in 0..1 /\ "502" \in Statuses  BY DEF Statuses
  <2> QED  BY <1>1, <1>3, <2>1, <2>2, SumLog
<1> QED  BY <1>2, <1>3 DEF Chat!Begin

LEMMA FailSums ==
  ASSUME WayInv, SumInv, NEW r \in Requests, NEW a,
         Chat!FailCanceled(r, a) \/ Chat!FailLast(r, a)
  PROVE  SumInv'
<1>1. /\ req[r].pc \in Asking /\ Chat!Goto(r, "failed") /\ errors' = errors + 1
      /\ Chat!Log(r, "499") \/ Chat!Log(r, "502")
      /\ UNCHANGED <<total, tokens, usage>>
  BY DEF Chat!FailCanceled, Chat!FailLast, Chat!Answered, Chat!CountFailure, Asking
<1>2. usage' = [usage EXCEPT ![r] = 0] /\ tokens' = tokens + 0  BY <1>1, SumKeeps DEF Asking
<1>3. 0 \in 0..1 /\ "502" \in Statuses /\ "499" \in Statuses  BY DEF Statuses
<1>f. /\ req[r].pc \notin {"failed", "done", "new"} /\ total' = total
      /\ errors' = errors + 1 /\ Chat!Goto(r, "failed")
  BY <1>1 DEF Asking
<1>g. ASSUME NEW status \in Statuses, status # "ok", Chat!Log(r, status)  PROVE SumInv'
  <2> DEFINE pc == "failed"
  <2>1. pc # "new" /\ pc # "done" /\ Chat!Goto(r, pc)  BY <1>f
  <2> HIDE DEF pc
  <2> QED  BY <1>f, <1>2, <1>3, <1>g, <2>1, SumLog
<1>4. CASE Chat!Log(r, "499")  BY <1>3, <1>4, <1>g
<1>5. CASE Chat!Log(r, "502")  BY <1>3, <1>5, <1>g
<1> QED  BY <1>1, <1>4, <1>5

LEMMA DeliverSums ==
  ASSUME WayInv, SumInv, NEW r \in Requests, Chat!PassThrough(r) \/ Chat!Normalize(r)
  PROVE  SumInv'
<1>1. CASE Chat!Normalize(r)
  <2>1. PICK n \in 0..1 : tokens' = tokens + n /\ usage' = [usage EXCEPT ![r] = n]
    BY <1>1 DEF Chat!Normalize
  <2>2. /\ req[r].pc = "ok" /\ Chat!Goto(r, "done") /\ Chat!Log(r, "ok") /\ UNCHANGED <<total, errors>>
    BY <1>1 DEF Chat!Normalize, Chat!Deliver
  <2>3. "ok" \in Statuses  BY DEF Statuses
  <2> QED  BY <2>1, <2>2, <2>3, SumLog
<1>2. CASE Chat!PassThrough(r)
  <2>1. PICK status \in {"rejected", "retryable"} :
          req[r].pc = status /\ errors' = errors + 1 /\ Chat!Deliver(r, status) /\ UNCHANGED <<tokens, usage>>
    BY <1>2 DEF Chat!PassThrough
  <2>2. Chat!Goto(r, "done") /\ Chat!Log(r, status) /\ UNCHANGED total  BY <2>1 DEF Chat!Deliver
  <2>3. status \in Statuses /\ status # "ok" /\ 0 \in 0..1  BY DEF Statuses
  <2>4. usage' = [usage EXCEPT ![r] = 0] /\ tokens' = tokens + 0  BY <2>1, SumKeeps
  <2> QED  BY <2>1, <2>2, <2>3, <2>4, SumLog
<1> QED  BY <1>1, <1>2

(* TotalRequests, UpstreamErrors and the token counters are at every step  *)
(* the numbers of requests begun, refused and of tokens logged so far.     *)
THEOREM SumSafe == Chat!Spec => []SumInv
<1>1. Chat!Init => SumInv
  <2> SUFFICES ASSUME Chat!Init  PROVE SumInv
    OBVIOUS
  <2>1. Began(req) = {} /\ Refused(logged) = {}  BY DEF Chat!Init, Began, Refused
  <2>2. usage \in [Requests -> 0..1] /\ \A r \in Requests : usage[r] = 0  BY DEF Chat!Init
  <2>3. UsedIn(usage) = {}  BY <2>2, InUsed
  <2>4. total = 0 /\ errors = 0 /\ tokens = 0  BY DEF Chat!Init
  <2> QED  BY <2>1, <2>2, <2>3, <2>4, FS_EmptySet DEF SumInv
<1>2. WayInv /\ SumInv /\ [Chat!Next]_(Chat!vars) => SumInv'
  <2> SUFFICES ASSUME WayInv, SumInv, [Chat!Next]_(Chat!vars)  PROVE SumInv'
    OBVIOUS
  <2>1. ASSUME NEW r \in Requests, Chat!LookupCounter(r) \/ Chat!InsertCounter(r)  PROVE SumInv'
    <3>1. /\ req[r].pc \in {"lookup", "insert"} /\ UNCHANGED <<total, errors, tokens, logged, usage>>
          /\ Chat!Goto(r, "insert") \/ Chat!Goto(r, Chat!CallStarts(r))
      BY <2>1 DEF Chat!LookupCounter, Chat!InsertCounter
    <3>2. Chat!CallStarts(r) \in Asking  BY DEF Chat!CallStarts, Asking
    <3>3. PICK q : req' = [req EXCEPT ![r] = q] /\ q.pc \in {"insert"} \cup Asking
      BY <3>1, <3>2, GotoIs
    <3> QED  BY <3>1, <3>3, SumQuiet DEF Asking
  <2>2. ASSUME NEW r \in Requests, NEW a \in Chat!Answers, Chat!TryNext(r, a)  PROVE SumInv'
    <3> DEFINE p == req[r]
               q == [p EXCEPT !.pc = "lookup", !.at = p.at + 1]
    <3>1. p \in Request /\ p.pc \in Asking /\ UNCHANGED <<total, errors, tokens, logged, usage>>
      BY <2>2, Before DEF Chat!TryNext, Chat!Answered, Chat!metrics, Asking
    <3>2. req' = [req EXCEPT ![r] = q] /\ q.pc = "lookup"
      <4>1. req \in [Requests -> Request]  BY DEF WayInv, WayTypes
      <4> QED  BY <4>1, <2>2, <3>1 DEF Chat!TryNext, Request
    <3> HIDE DEF q
    <3> QED  BY <3>1, <3>2, SumQuiet DEF Asking
  <2>3. ASSUME NEW r \in Requests, NEW a \in Chat!Answers, Chat!Keep(r, a)  PROVE SumInv'
    <3>1. /\ req[r].pc \in Asking /\ a # "new" /\ Chat!Goto(r, a)
          /\ UNCHANGED <<total, errors, tokens, logged, usage>>
      BY <2>3 DEF Chat!Keep, Chat!Answered, Chat!metrics, Chat!Answers, Asking
    <3>2. PICK q : req' = [req EXCEPT ![r] = q] /\ q.pc = a  BY <3>1, GotoIs
    <3> QED  BY <3>1, <3>2, SumQuiet DEF Asking
  <2>4. ASSUME NEW r \in Requests, Chat!WriteChatError(r)  PROVE SumInv'
    <3>1. /\ req[r].pc = "failed" /\ Chat!Goto(r, "done")
          /\ UNCHANGED <<total, errors, tokens, logged, usage>>
      BY <2>4 DEF Chat!WriteChatError, Chat!metrics
    <3>2. PICK q : req' = [req EXCEPT ![r] = q] /\ q.pc = "done"  BY <3>1, GotoIs
    <3> QED  BY <3>1, <3>2, SumQuiet
  <2>5. CASE UNCHANGED <<total, errors, tokens, req, logged, usage>>
    BY <2>5 DEF SumInv, Began, Refused, UsedIn
  <2>6. ASSUME NEW r \in Requests, Chat!Disconnect(r)
        PROVE  UNCHANGED <<total, errors, tokens, req, logged, usage>>
    BY <2>6 DEF Chat!Disconnect, Chat!metrics
  <2>7. UNCHANGED Chat!vars => UNCHANGED <<total, errors, tokens, req, logged, usage>>
    BY DEF Chat!vars
  <2> QED  BY <2>1, <2>2, <2>3, <2>4, <2>5, <2>6, <2>7, BeginSums, FailSums, DeliverSums
           DEF Chat!Next, Chat!Step
<1> QED  BY <1>1, <1>2, WaySafe, PTL DEF Chat!Spec

(* No counter of the dashboard is wrong: IncrUpstream loses no increment,  *)
(* and counters and request log agree when the requests are over.          *)
THEOREM CountersAreExact == Chat!Spec => []CountersExact
<1>1. WayInv /\ CountInv /\ SumInv => CountersExact
  <2> SUFFICES ASSUME WayInv, CountInv, SumInv  PROVE CountersExact
    OBVIOUS
  <2>1. ASSUME \A r \in Requests : req[r].pc \notin {"lookup", "insert"}, NEW u \in Upstreams
        PROVE  IF perUp[u] = 0 THEN Chat!Calls(u) = {}
               ELSE counter[perUp[u]] = Cardinality(Chat!Calls(u))
    <3>1. \A r \in Requests : Recorded(req[r], u) = {i \in 1..req[r].at : req[r].chain[i] = u}
      BY <2>1 DEF Recorded
    <3>2. CallsOf(req, u) = Chat!Calls(u)  BY <3>1 DEF CallsOf, Chat!Calls
    <3> QED  BY <3>2 DEF CountInv
  <2>2. ASSUME Chat!Done = Requests
        PROVE  /\ total = Cardinality(Requests)
               /\ errors = Cardinality({r \in Requests : logged[r] # <<"ok">>})
               /\ tokens = Cardinality(Chat!Used)
    <3>1. \A r \in Requests : req[r].pc = "done"  BY <2>2 DEF Chat!Done
    <3>2. \A r \in Requests : logged[r] # <<>>  BY <3>1, Before DEF Way
    <3>3. Began(req) = Requests  BY <3>1 DEF Began
    <3>4. Refused(logged) = {r \in Requests : logged[r] # <<"ok">>}  BY <3>2 DEF Refused
    <3>5. UsedIn(usage) = Chat!Used  BY DEF UsedIn, Chat!Used
    <3> QED  BY <3>3, <3>4, <3>5 DEF SumInv
  <2> QED  BY <2>1, <2>2 DEF CountersExact, Chat!CountersExact, Chat!Cardinality, Cardinality
<1> QED  BY <1>1, WaySafe, CountSafe, SumSafe, PTL

-----------------------------------------------------------------------------
(* The pipeline and the ring together *)

(* A behaviour of the composition is one of the ring and one of the        *)
(* pipeline, so what holds of either holds of both.                        *)
THEOREM BothSubjects == ChatSpec => Spec /\ Chat!Spec
<1>1. ChatInit => Init /\ Chat!Init  BY DEF ChatInit
<1>2. [RingStep \/ ChatStep]_allVars => [Next]_vars /\ [Chat!Next]_(Chat!vars)
  BY DEF RingStep, ChatStep, Pipeline, allVars, chatVars, vars, Chat!vars
<1> QED  BY <1>1, <1>2, PTL DEF ChatSpec, Spec, Chat!Spec

(* The state of the pipeline and of the ring is well formed. *)
THEOREM ChatTypes == ChatSpec => []ChatTypeOK
<1>1. WayInv /\ GoneInv /\ CountInv /\ SumInv => Chat!TypeOK
  <2> SUFFICES ASSUME WayInv, GoneInv, CountInv, SumInv  PROVE Chat!TypeOK
    OBVIOUS
  <2>1. usage \in [Requests -> 0..1] /\ total = Cardinality(Began(req))
        /\ errors = Cardinality(Refused(logged)) /\ tokens = Cardinality(UsedIn(usage))
    BY DEF SumInv
  <2>2. total \in 0..Cardinality(Requests) /\ errors \in 0..Cardinality(Requests) /\ tokens \in Nat
    BY <2>1, SumsFinite
  <2>3. \A r \in Requests :
          /\ req[r].pc \in Places /\ req[r].chain \in Chains \cup {<<>>}
          /\ req[r].at \in 0..Len(req[r].chain)
    BY Before DEF Way
  <2>4. /\ canceled \subseteq Requests /\ open \in [Requests -> Nat]
        /\ logged \in [Requests -> Seq(Statuses)] /\ answers \in [Requests -> Seq(Chat!Answers)]
        /\ client \in [Requests -> {"none", "ok", "rejected", "retryable", "502"}]
    BY DEF WayInv, WayTypes
  <2>5. /\ perUp \in [Upstreams -> {0} \cup Chat!Objects] /\ counter \in [Chat!Objects -> Nat]
        /\ left \in [Requests -> Nat]
    BY DEF CountInv, GoneInv
  <2> QED  BY <2>1, <2>2, <2>3, <2>4, <2>5
           DEF Chat!TypeOK, Places, Statuses, Chat!Cardinality, Cardinality
<1> QED  BY <1>1, BothSubjects, TypeCorrect, WaySafe, GoneSafe, CountSafe, SumSafe, PTL DEF ChatTypeOK
=============================================================================
