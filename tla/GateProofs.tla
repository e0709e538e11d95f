------------------------------ MODULE GateProofs ------------------------------
(***************************************************************************)
(* The two guards in front of the handlers, for any number of addresses,   *)
(* shards and requests, any limit and any clock.                           *)
(***************************************************************************)
EXTENDS MCGate, SequenceTheorems, FiniteSetTheorems, WellFoundedInduction, TLAPS

-----------------------------------------------------------------------------
(* The rate limiter *)

Visitor == [present : BOOLEAN, count : 0..Limit, lastSeen : 0..MaxClock]
Denial == [since : -1..MaxClock, latest : -1..MaxClock]

(* The addresses of shard s that have an entry in the map vs. *)
In(vs, s) == {ip \in IPs : ShardOf[ip] = s /\ vs[ip].present}

(* Why the limit holds although an entry keeps only a count and a time.    *)
(* A is the admissions of an address and v its entry: the last v.count of  *)
(* them are the ones counted, they came more than a minute after all the   *)
(* others, and lastSeen is the latest.  Without an entry all of them are   *)
(* more than a minute ago, so nothing that still counts was forgotten.     *)
Counted(v, A, now) ==
    /\ \A i \in 1..Len(A) : A[i] <= now
    /\ \A i, j \in 1..Len(A) : i <= j => A[i] <= A[j]
    /\ v.present => /\ v.count \in 1..Len(A)
                    /\ v.lastSeen = A[Len(A)]
                    /\ \A i \in 1..(Len(A) - v.count) : A[Len(A) - v.count + 1] - A[i] > Minute
    /\ ~v.present => \A i \in 1..Len(A) : now - A[i] > Minute
    /\ \A i, j \in 1..Len(A) : j >= i + Limit => A[j] - A[i] > Minute

(* Refusals began no earlier than the last admission. *)
Refused(v, d) ==
    /\ d.since = -1 => d.latest = -1
    /\ d.latest - d.since <= Minute
    /\ v.present /\ d.since # -1 => d.since >= v.lastSeen

LimiterInv ==
    /\ TypeOK
    /\ sweep.now <= clock
    /\ \A ip \in IPs : Counted(visitors[ip], admitted[ip], clock) /\ Refused(visitors[ip], denied[ip])

(* What Append does to a sequence. *)
LEMMA AppendAny ==
  ASSUME NEW T, NEW A \in Seq(T), NEW now \in T
  PROVE  /\ Append(A, now) \in Seq(T)
         /\ Len(A) \in Nat /\ Len(Append(A, now)) = Len(A) + 1
         /\ \A i \in 1..Len(A) : Append(A, now)[i] = A[i] /\ A[i] \in T
         /\ Append(A, now)[Len(A) + 1] = now
OBVIOUS

LEMMA AppendTime ==
  ASSUME NEW A \in Seq(0..MaxClock), NEW now \in 0..MaxClock
  PROVE  /\ Append(A, now) \in Seq(0..MaxClock)
         /\ Len(A) \in Nat /\ Len(Append(A, now)) = Len(A) + 1
         /\ \A i \in 1..Len(A) : Append(A, now)[i] = A[i] /\ A[i] \in 0..MaxClock
         /\ Append(A, now)[Len(A) + 1] = now
<1> DEFINE T == 0..MaxClock
<1>1. A \in Seq(T) /\ now \in T  OBVIOUS
<1> SUFFICES /\ Append(A, now) \in Seq(T)
             /\ Len(A) \in Nat /\ Len(Append(A, now)) = Len(A) + 1
             /\ \A i \in 1..Len(A) : Append(A, now)[i] = A[i] /\ A[i] \in T
             /\ Append(A, now)[Len(A) + 1] = now
  OBVIOUS
<1> HIDE DEF T
<1> QED  BY <1>1, AppendAny

(* Time passes. *)
LEMMA CountedLater ==
  ASSUME NEW v, NEW A \in Seq(0..MaxClock), NEW now \in 0..MaxClock, NEW later \in 0..MaxClock,
         Counted(v, A, now), now <= later
  PROVE  Counted(v, A, later)
<1>1. \A i \in 1..Len(A) : A[i] \in 0..MaxClock  BY ElementOfSeq
<1>2. (\A i \in 1..Len(A) : A[i] <= now) => \A i \in 1..Len(A) : A[i] <= later
  BY <1>1, LimiterAssumption
<1>3. (\A i \in 1..Len(A) : now - A[i] > Minute) => \A i \in 1..Len(A) : later - A[i] > Minute
  BY <1>1, LimiterAssumption
<1> QED  BY <1>2, <1>3 DEF Counted

(* An entry that is stale for the sweep, whose clock may be behind. *)
LEMMA CountedSwept ==
  ASSUME NEW v, NEW A \in Seq(0..MaxClock), NEW now \in 0..MaxClock, NEW clk \in 0..MaxClock,
         Counted(v, A, clk), v.present, now <= clk, now - v.lastSeen > Idle
  PROVE  Counted(Absent, A, clk)
<1>1. \A i \in 1..Len(A) : A[i] \in 0..MaxClock  BY ElementOfSeq
<1>2. Len(A) \in Nat /\ Len(A) \in 1..Len(A)  BY DEF Counted
<1>3. \A i \in 1..Len(A) : A[i] <= v.lastSeen  BY <1>2 DEF Counted
<1>4. v.lastSeen \in 0..MaxClock  BY <1>1, <1>2 DEF Counted
<1>l. clk - v.lastSeen > Minute  BY <1>4, LimiterAssumption
<1>5. \A i \in 1..Len(A) : clk - A[i] > Minute
  <2> DEFINE seen == v.lastSeen
  <2>1. seen \in 0..MaxClock /\ clk - seen > Minute /\ \A i \in 1..Len(A) : A[i] <= seen
    BY <1>l, <1>3, <1>4
  <2> HIDE DEF seen
  <2> QED  BY <1>1, <2>1, LimiterAssumption
<1>6. Absent.present = FALSE  BY DEF Absent
<1> QED  BY <1>5, <1>6 DEF Counted

(* The first admission of a window. *)
LEMMA CountedFresh ==
  ASSUME NEW v, NEW A \in Seq(0..MaxClock), NEW now \in 0..MaxClock,
         Counted(v, A, now), \A i \in 1..Len(A) : now - A[i] > Minute
  PROVE  Counted(Fresh(now), Append(A, now), now)
<1> DEFINE B == Append(A, now)
           n == Len(A)
<1>a. /\ n \in Nat /\ Len(B) = n + 1 /\ B[n + 1] = now
      /\ \A i \in 1..n : B[i] = A[i] /\ A[i] \in 0..MaxClock
  BY AppendTime
<1>f. Fresh(now).present = TRUE /\ Fresh(now).count = 1 /\ Fresh(now).lastSeen = now  BY DEF Fresh
<1> HIDE DEF B
<1>s. \A i \in 1..(n + 1) : i \in 1..n \/ i = n + 1  BY <1>a
<1>1. \A i \in 1..Len(B) : B[i] <= now  BY <1>a, <1>s DEF Counted
<1>2. \A i, j \in 1..Len(B) : i <= j => B[i] <= B[j]  BY <1>a, <1>s, <1>1 DEF Counted
<1>g. \A i \in 1..n : now - B[i] > Minute  BY <1>a
<1>3. \A i \in 1..(Len(B) - 1) : B[Len(B) - 1 + 1] - B[i] > Minute  BY <1>a, <1>g
<1>4. ASSUME NEW i \in 1..Len(B), NEW j \in 1..Len(B), j >= i + Limit
      PROVE  B[j] - B[i] > Minute
  <2>1. i \in 1..n /\ (j \in 1..n \/ j = n + 1)  BY <1>a, <1>s, <1>4, LimiterAssumption
  <2> QED  BY <2>1, <1>a, <1>g, <1>4 DEF Counted
<1> QED  BY <1>a, <1>f, <1>1, <1>2, <1>3, <1>4 DEF Counted, B

(* A further admission of the window. *)
LEMMA CountedMore ==
  ASSUME NEW v \in Visitor, NEW w, NEW A \in Seq(0..MaxClock), NEW now \in 0..MaxClock,
         Counted(v, A, now), v.present, v.count < Limit,
         w.present, w.count = v.count + 1, w.lastSeen = now
  PROVE  Counted(w, Append(A, now), now)
<1> DEFINE B == Append(A, now)
           n == Len(A)
           c == v.count
<1>a. /\ n \in Nat /\ Len(B) = n + 1 /\ B[n + 1] = now
      /\ \A i \in 1..n : B[i] = A[i] /\ A[i] \in 0..MaxClock
  BY AppendTime
<1>c. c \in 1..n /\ c < Limit /\ Limit \in Nat  BY LimiterAssumption DEF Counted
<1>g. \A i \in 1..(n - c) : A[n - c + 1] - A[i] > Minute  BY DEF Counted
<1>w. w.count = c + 1  OBVIOUS
<1>o. /\ \A i \in 1..n : A[i] <= now
      /\ \A i, j \in 1..n : i <= j => A[i] <= A[j]
      /\ \A i, j \in 1..n : j >= i + Limit => A[j] - A[i] > Minute
  BY DEF Counted
<1> HIDE DEF B, n, c
<1>s. \A i \in 1..(n + 1) : i \in 1..n \/ i = n + 1  BY <1>a
<1>1. \A i \in 1..Len(B) : B[i] <= now  BY <1>a, <1>s, <1>o
<1>2. \A i, j \in 1..Len(B) : i <= j => B[i] <= B[j]  BY <1>a, <1>s, <1>1, <1>o
<1>3. n - c \in Nat /\ n - c + 1 \in 1..n /\ Len(B) - (c + 1) = n - c  BY <1>a, <1>c
<1>4. ASSUME NEW i \in 1..(n - c)  PROVE B[n - c + 1] - B[i] > Minute
  <2>1. i \in 1..n  BY <1>3, <1>a, <1>c
  <2> QED  BY <2>1, <1>3, <1>a, <1>g
<1>5. ASSUME NEW i \in 1..Len(B), NEW j \in 1..Len(B), j >= i + Limit
      PROVE  B[j] - B[i] > Minute
  <2>1. i \in 1..n /\ (j \in 1..n \/ j = n + 1)  BY <1>a, <1>s, <1>5, <1>c
  <2>2. CASE j \in 1..n  BY <2>1, <2>2, <1>a, <1>5, <1>o
  <2>3. CASE j = n + 1
    <3>1. i \in 1..(n - c)  BY <2>1, <2>3, <1>5, <1>a, <1>c
    <3>2. B[n - c + 1] - B[i] > Minute  BY <3>1, <1>4
    <3>3. B[n - c + 1] <= now  BY <1>1, <1>3, <1>a
    <3>4. B[i] \in 0..MaxClock /\ B[n - c + 1] \in 0..MaxClock  BY <2>1, <1>3, <1>a
    <3> QED  BY <2>3, <3>2, <3>3, <3>4, <1>a, LimiterAssumption
  <2> QED  BY <2>1, <2>2, <2>3
<1>6. w.count \in 1..Len(B)  BY <1>a, <1>c, <1>w
<1>7. \A i \in 1..(Len(B) - w.count) : B[Len(B) - w.count + 1] - B[i] > Minute
  BY <1>3, <1>4, <1>w
<1>8. w.lastSeen = B[Len(B)]  BY <1>a
<1> QED  BY <1>1, <1>2, <1>5, <1>6, <1>7, <1>8 DEF Counted, B

-----------------------------------------------------------------------------
(* The size of a shard's map. *)
LEMMA ShardFinite ==
  ASSUME NEW vs, NEW s
  PROVE  IsFiniteSet(In(vs, s)) /\ Cardinality(In(vs, s)) \in Nat
<1>1. In(vs, s) \in SUBSET IPs  BY DEF In
<1> QED  BY <1>1, LimiterAssumption, FS_Subset, FS_CardinalityType

LEMMA VisitorsIn == \A s : Visitors(s) = In(visitors, s) /\ Visitors(s)' = In(visitors', s)
BY DEF Visitors, In

(* A map with fewer entries. *)
LEMMA FewerVisitors ==
  ASSUME NEW vs, NEW ws, NEW s, \A ip \in IPs : ws[ip].present => vs[ip].present
  PROVE  Cardinality(In(ws, s)) <= Cardinality(In(vs, s))
<1>1. In(ws, s) \in SUBSET In(vs, s)  BY DEF In
<1> QED  BY <1>1, ShardFinite, FS_Subset

(* A map with one entry more. *)
LEMMA OneMoreVisitor ==
  ASSUME NEW vs, NEW ws, NEW ip \in IPs,
         \A x \in IPs : x # ip /\ ws[x].present => vs[x].present,
         NEW s, s = ShardOf[ip] => Cardinality(In(vs, s)) < MaxPerShard,
         Cardinality(In(vs, s)) <= MaxPerShard
  PROVE  Cardinality(In(ws, s)) <= MaxPerShard
<1>0. Cardinality(In(vs, s)) \in Nat /\ Cardinality(In(ws, s)) \in Nat
      /\ IsFiniteSet(In(vs, s)) /\ MaxPerShard \in Nat
  BY ShardFinite, LimiterAssumption
<1>1. CASE s = ShardOf[ip]
  <2>1. In(ws, s) \in SUBSET (In(vs, s) \cup {ip})  BY DEF In
  <2>2. /\ IsFiniteSet(In(vs, s) \cup {ip})
        /\ Cardinality(In(vs, s) \cup {ip}) =
             IF ip \in In(vs, s) THEN Cardinality(In(vs, s)) ELSE Cardinality(In(vs, s)) + 1
    BY <1>0, FS_AddElement
  <2>3. Cardinality(In(ws, s)) <= Cardinality(In(vs, s) \cup {ip})  BY <2>1, <2>2, FS_Subset
  <2> QED  BY <1>0, <1>1, <2>2, <2>3
<1>2. CASE s # ShardOf[ip]
  <2>1. In(ws, s) \in SUBSET In(vs, s)  BY <1>2 DEF In
  <2>2. Cardinality(In(ws, s)) <= Cardinality(In(vs, s))  BY <2>1, <1>0, FS_Subset
  <2> QED  BY <1>0, <2>2
<1> QED  BY <1>1, <1>2

(* One entry makes room for another. *)
LEMMA OneForAnother ==
  ASSUME NEW vs, NEW ws, NEW ip \in IPs, NEW victim \in In(vs, ShardOf[ip]), ip # victim,
         \A x \in IPs : x # ip /\ ws[x].present => vs[x].present,
         ~ws[victim].present,
         NEW s, Cardinality(In(vs, s)) <= MaxPerShard
  PROVE  Cardinality(In(ws, s)) <= MaxPerShard
<1>0. Cardinality(In(vs, s)) \in Nat /\ Cardinality(In(ws, s)) \in Nat
      /\ IsFiniteSet(In(vs, s)) /\ MaxPerShard \in Nat
  BY ShardFinite, LimiterAssumption
<1>1. CASE s = ShardOf[ip]
  <2> DEFINE S == In(vs, s) \ {victim}
  <2>1. In(ws, s) \in SUBSET (S \cup {ip})  BY DEF In
  <2>2. IsFiniteSet(S) /\ Cardinality(S) = Cardinality(In(vs, s)) - 1
    BY <1>0, <1>1, FS_RemoveElement
  <2> HIDE DEF S
  <2>3. /\ IsFiniteSet(S \cup {ip})
        /\ Cardinality(S \cup {ip}) = IF ip \in S THEN Cardinality(S) ELSE Cardinality(S) + 1
    BY <2>2, FS_AddElement
  <2>4. Cardinality(In(ws, s)) <= Cardinality(S \cup {ip})  BY <2>1, <2>3, FS_Subset
  <2> QED  BY <1>0, <2>2, <2>3, <2>4
<1>2. CASE s # ShardOf[ip]
  <2>1. In(ws, s) \in SUBSET In(vs, s)  BY <1>2 DEF In
  <2>2. Cardinality(In(ws, s)) <= Cardinality(In(vs, s))  BY <2>1, <1>0, FS_Subset
  <2> QED  BY <1>0, <2>2
<1> QED  BY <1>1, <1>2

-----------------------------------------------------------------------------
(* A request is admitted: its address gets the entry v. *)
LEMMA AdmitInv ==
  ASSUME LimiterInv, NEW ip \in IPs, NEW v \in Visitor,
         visitors' = [visitors EXCEPT ![ip] = v],
         admitted' = [admitted EXCEPT ![ip] = Append(@, clock)],
         denied' = [denied EXCEPT ![ip] = NotDenied],
         UNCHANGED <<clock, sweep, stop>>,
         Counted(v, Append(admitted[ip], clock), clock),
         \A s \in Shards : Cardinality(In(visitors', s)) <= MaxPerShard
  PROVE  LimiterInv'
<1>t. TypeOK  BY DEF LimiterInv
<1>1. Append(admitted[ip], clock) \in Seq(0..MaxClock)  BY <1>t, AppendTime DEF TypeOK
<1>2. NotDenied \in Denial /\ Refused(v, NotDenied)
  BY LimiterAssumption DEF NotDenied, Denial, Refused
<1>3. visitors' \in [IPs -> Visitor] /\ denied' \in [IPs -> Denial]
  BY <1>t, <1>2 DEF TypeOK, Visitor, Denial
<1>4. admitted' \in [IPs -> Seq(0..MaxClock)]  BY <1>t, <1>1 DEF TypeOK
<1>5. TypeOK'  BY <1>t, <1>3, <1>4, VisitorsIn DEF TypeOK, Visitor, Denial
<1>6. (sweep.now <= clock)'  BY DEF LimiterInv
<1>7. ASSUME NEW x \in IPs
      PROVE  Counted(visitors'[x], admitted'[x], clock') /\ Refused(visitors'[x], denied'[x])
  <2>1. CASE x = ip
    <3>1. visitors'[x] = v /\ admitted'[x] = Append(admitted[ip], clock) /\ denied'[x] = NotDenied
      BY <2>1, <1>t DEF TypeOK
    <3> QED  BY <3>1, <1>2
  <2>2. CASE x # ip
    <3>1. visitors'[x] = visitors[x] /\ admitted'[x] = admitted[x] /\ denied'[x] = denied[x]
      BY <2>2, <1>t DEF TypeOK
    <3> QED  BY <3>1 DEF LimiterInv
  <2> QED  BY <2>1, <2>2
<1> QED  BY <1>5, <1>6, <1>7 DEF LimiterInv

(* allow: a new visitor, room in the shard. *)
LEMMA AllowNewInv ==
  ASSUME LimiterInv, NEW ip \in IPs, AllowNew(ip)  PROVE LimiterInv'
<1>t. TypeOK /\ Counted(visitors[ip], admitted[ip], clock)  BY DEF LimiterInv
<1>y. clock \in 0..MaxClock /\ admitted[ip] \in Seq(0..MaxClock)  BY <1>t DEF TypeOK
<1>1. \A i \in 1..Len(admitted[ip]) : clock - admitted[ip][i] > Minute
  BY <1>t DEF AllowNew, Counted
<1>2. Counted(Fresh(clock), Append(admitted[ip], clock), clock)
  BY <1>t, <1>y, <1>1, CountedFresh
<1>3. Fresh(clock) \in Visitor  BY <1>y, LimiterAssumption DEF Fresh, Visitor
<1>4. ASSUME NEW s \in Shards  PROVE Cardinality(In(visitors', s)) <= MaxPerShard
  <2>1. Cardinality(In(visitors, s)) <= MaxPerShard  BY <1>t, VisitorsIn DEF TypeOK
  <2>2. \A x \in IPs : x # ip /\ visitors'[x].present => visitors[x].present
    BY <1>t DEF AllowNew, TypeOK
  <2>3. s = ShardOf[ip] => Cardinality(In(visitors, s)) < MaxPerShard
    <3>1. Cardinality(In(visitors, s)) \in Nat /\ MaxPerShard \in Nat
      BY ShardFinite, LimiterAssumption
    <3> QED  BY <3>1, VisitorsIn DEF AllowNew, ShardFull
  <2> QED  BY <2>1, <2>2, <2>3, OneMoreVisitor
<1> QED  BY <1>2, <1>3, <1>4, AdmitInv DEF AllowNew, Admit

(* allow: the minute of the last admission is over. *)
LEMMA AllowWindowInv ==
  ASSUME LimiterInv, NEW ip \in IPs, AllowWindow(ip)  PROVE LimiterInv'
<1>t. TypeOK /\ Counted(visitors[ip], admitted[ip], clock)  BY DEF LimiterInv
<1> DEFINE A == admitted[ip]
<1>y. clock \in 0..MaxClock /\ A \in Seq(0..MaxClock)  BY <1>t DEF TypeOK
<1>1. ASSUME NEW i \in 1..Len(A)  PROVE clock - A[i] > Minute
  <2>1. visitors[ip].present /\ clock - visitors[ip].lastSeen > Minute
    BY DEF AllowWindow, WindowOver
  <2>2. Len(A) \in 1..Len(A) /\ visitors[ip].lastSeen = A[Len(A)]  BY <2>1, <1>t, <1>y DEF Counted
  <2>3. A[i] <= A[Len(A)]  BY <2>2, <1>t DEF Counted
  <2>4. A[i] \in 0..MaxClock /\ A[Len(A)] \in 0..MaxClock  BY <2>2, <1>y, ElementOfSeq
  <2>5. clock - A[Len(A)] > Minute  BY <2>1, <2>2
  <2> DEFINE x == A[i]
             y == A[Len(A)]
  <2>6. x <= y /\ x \in 0..MaxClock /\ y \in 0..MaxClock /\ clock - y > Minute
    BY <2>3, <2>4, <2>5
  <2> HIDE DEF A, x, y
  <2>7. clock - x > Minute  BY <2>6, <1>y, LimiterAssumption
  <2> QED  BY <2>7 DEF A, x
<1>2. Counted(Fresh(clock), Append(A, clock), clock)
  BY <1>t, <1>y, <1>1, CountedFresh
<1>3. Fresh(clock) \in Visitor  BY <1>y, LimiterAssumption DEF Fresh, Visitor
<1>4. ASSUME NEW s \in Shards  PROVE Cardinality(In(visitors', s)) <= MaxPerShard
  <2>1. Cardinality(In(visitors, s)) <= MaxPerShard  BY <1>t, VisitorsIn DEF TypeOK
  <2>2. \A x \in IPs : visitors'[x].present => visitors[x].present
    BY <1>t DEF AllowWindow, TypeOK
  <2>3. Cardinality(In(visitors', s)) <= Cardinality(In(visitors, s))  BY <2>2, FewerVisitors
  <2>4. Cardinality(In(visitors, s)) \in Nat /\ Cardinality(In(visitors', s)) \in Nat /\ MaxPerShard \in Nat
    BY ShardFinite, LimiterAssumption
  <2> QED  BY <2>1, <2>3, <2>4
<1> QED  BY <1>2, <1>3, <1>4, AdmitInv DEF AllowWindow, Admit

(* allow: within the minute, below the limit. *)
LEMMA AllowCountInv ==
  ASSUME LimiterInv, NEW ip \in IPs, AllowCount(ip)  PROVE LimiterInv'
<1>t. TypeOK /\ Counted(visitors[ip], admitted[ip], clock)  BY DEF LimiterInv
<1> DEFINE v == [visitors[ip] EXCEPT !.count = visitors[ip].count + 1, !.lastSeen = clock]
<1>y. clock \in 0..MaxClock /\ admitted[ip] \in Seq(0..MaxClock) /\ visitors[ip] \in Visitor
  BY <1>t DEF TypeOK, Visitor
<1>g. visitors[ip].present /\ visitors[ip].count < Limit  BY DEF AllowCount
<1>c. visitors[ip].count + 1 \in 0..Limit  BY <1>y, <1>g, LimiterAssumption DEF Visitor
<1>1. v \in Visitor /\ v.present /\ v.count = visitors[ip].count + 1 /\ v.lastSeen = clock
  BY <1>y, <1>g, <1>c DEF Visitor
<1>2. visitors' = [visitors EXCEPT ![ip] = v]  BY DEF AllowCount
<1> HIDE DEF v
<1>3. Counted(v, Append(admitted[ip], clock), clock)
  BY <1>t, <1>y, <1>g, <1>1, CountedMore
<1>4. ASSUME NEW s \in Shards  PROVE Cardinality(In(visitors', s)) <= MaxPerShard
  <2>1. Cardinality(In(visitors, s)) <= MaxPerShard  BY <1>t, VisitorsIn DEF TypeOK
  <2>2. \A x \in IPs : visitors'[x].present => visitors[x].present
    BY <1>t, <1>g, <1>2 DEF TypeOK
  <2>3. Cardinality(In(visitors', s)) <= Cardinality(In(visitors, s))  BY <2>2, FewerVisitors
  <2>4. Cardinality(In(visitors, s)) \in Nat /\ Cardinality(In(visitors', s)) \in Nat /\ MaxPerShard \in Nat
    BY ShardFinite, LimiterAssumption
  <2> QED  BY <2>1, <2>3, <2>4
<1> QED  BY <1>1, <1>2, <1>3, <1>4, AdmitInv DEF AllowCount, Admit

(* allow: a new visitor takes the place of another. *)
LEMMA AllowEvictInv ==
  ASSUME LimiterInv, NEW ip \in IPs, AllowEvict(ip)  PROVE LimiterInv'
<1>t. TypeOK /\ Counted(visitors[ip], admitted[ip], clock)  BY DEF LimiterInv
<1>y. clock \in 0..MaxClock /\ admitted[ip] \in Seq(0..MaxClock)  BY <1>t DEF TypeOK
<1>g. ~visitors[ip].present /\ denied' = [denied EXCEPT ![ip] = NotDenied]
      /\ UNCHANGED <<clock, sweep, stop>>
  BY DEF AllowEvict, Admit
<1>v. PICK victim \in Visitors(ShardOf[ip]) :
        /\ visitors' = [visitors EXCEPT ![victim] = Absent, ![ip] = Fresh(clock)]
        /\ admitted' = [admitted EXCEPT ![victim] = <<>>, ![ip] = Append(@, clock)]
  BY DEF AllowEvict
<1>i. victim \in IPs /\ victim # ip /\ victim \in In(visitors, ShardOf[ip])
  BY <1>v, <1>g DEF Visitors, In
<1>1. \A i \in 1..Len(admitted[ip]) : clock - admitted[ip][i] > Minute
  BY <1>t, <1>g DEF Counted
<1>2. Counted(Fresh(clock), Append(admitted[ip], clock), clock)
  BY <1>t, <1>y, <1>1, CountedFresh
<1>3. Fresh(clock) \in Visitor /\ Absent \in Visitor /\ ~Absent.present
  BY <1>y, LimiterAssumption DEF Fresh, Absent, Visitor
<1>4. Append(admitted[ip], clock) \in Seq(0..MaxClock) /\ <<>> \in Seq(0..MaxClock)
  BY <1>y, AppendTime
<1>5. NotDenied \in Denial /\ Refused(Fresh(clock), NotDenied)
  BY LimiterAssumption DEF NotDenied, Denial, Refused
<1>6. /\ visitors' \in [IPs -> Visitor] /\ visitors'[ip] = Fresh(clock) /\ visitors'[victim] = Absent
      /\ \A x \in IPs : x # ip /\ x # victim => visitors'[x] = visitors[x]
  BY <1>t, <1>v, <1>i, <1>3 DEF TypeOK, Visitor
<1>7. /\ admitted'[ip] = Append(admitted[ip], clock) /\ admitted'[victim] = <<>>
      /\ \A x \in IPs : x # ip /\ x # victim => admitted'[x] = admitted[x]
  BY <1>t, <1>v, <1>i DEF TypeOK
<1>8. admitted' \in [IPs -> Seq(0..MaxClock)]  BY <1>t, <1>v, <1>i, <1>4, <1>7 DEF TypeOK
<1>9. /\ denied' \in [IPs -> Denial] /\ denied'[ip] = NotDenied
      /\ \A x \in IPs : x # ip => denied'[x] = denied[x]
  BY <1>t, <1>g, <1>5 DEF TypeOK, Denial
<1>10. ASSUME NEW s \in Shards  PROVE Cardinality(In(visitors', s)) <= MaxPerShard
  <2>1. Cardinality(In(visitors, s)) <= MaxPerShard  BY <1>t, VisitorsIn DEF TypeOK
  <2>2. \A x \in IPs : x # ip /\ visitors'[x].present => visitors[x].present  BY <1>3, <1>6
  <2> QED  BY <2>1, <2>2, <1>i, <1>3, <1>6, OneForAnother
<1>11. TypeOK'  BY <1>t, <1>g, <1>6, <1>8, <1>9, <1>10, VisitorsIn DEF TypeOK, Visitor, Denial
<1>12. (sweep.now <= clock)'  BY <1>g DEF LimiterInv
<1>13. ASSUME NEW x \in IPs
       PROVE  Counted(visitors'[x], admitted'[x], clock') /\ Refused(visitors'[x], denied'[x])
  <2>1. CASE x = ip  BY <2>1, <1>2, <1>5, <1>6, <1>7, <1>9, <1>g
  <2>2. CASE x = victim
    <3>1. Counted(Absent, <<>>, clock)  BY <1>3 DEF Counted
    <3>2. Refused(Absent, denied[x])  BY <1>3 DEF LimiterInv, Refused
    <3> QED  BY <2>2, <3>1, <3>2, <1>i, <1>6, <1>7, <1>9, <1>g
  <2>3. CASE x # ip /\ x # victim
    <3>1. visitors'[x] = visitors[x] /\ admitted'[x] = admitted[x] /\ denied'[x] = denied[x]
      BY <2>3, <1>6, <1>7, <1>9
    <3> QED  BY <3>1, <1>g DEF LimiterInv
  <2> QED  BY <2>1, <2>2, <2>3
<1> QED  BY <1>11, <1>12, <1>13 DEF LimiterInv

(* allow: refused. *)
LEMMA AllowDenyInv ==
  ASSUME LimiterInv, NEW ip \in IPs, AllowDeny(ip)  PROVE LimiterInv'
<1>t. TypeOK  BY DEF LimiterInv
<1> DEFINE d == [since |-> IF denied[ip].since = -1 THEN clock ELSE denied[ip].since, latest |-> clock]
           v == visitors[ip]
<1>u. denied' = [denied EXCEPT ![ip] = d] /\ UNCHANGED <<clock, visitors, sweep, stop, admitted>>
  BY DEF AllowDeny
<1>y. /\ clock \in 0..MaxClock /\ admitted[ip] \in Seq(0..MaxClock)
      /\ denied[ip] \in Denial /\ v \in Visitor
  BY <1>t DEF TypeOK, Denial, Visitor
<1>s. denied[ip].since \in -1..MaxClock /\ v.lastSeen \in 0..MaxClock
  BY <1>y DEF Denial, Visitor
<1>1. v.present /\ clock - v.lastSeen <= Minute  BY <1>s, <1>y, LimiterAssumption DEF AllowDeny, WindowOver
<1>2. v.lastSeen <= clock
  <2>1. Counted(v, admitted[ip], clock)  BY DEF LimiterInv
  <2>2. Len(admitted[ip]) \in 1..Len(admitted[ip])  BY <2>1, <1>1, <1>y DEF Counted
  <2> QED  BY <2>1, <2>2, <1>1 DEF Counted
<1>3. denied[ip].since # -1 => denied[ip].since >= v.lastSeen  BY <1>1 DEF LimiterInv, Refused
<1>4. d.since \in -1..MaxClock /\ d.latest = clock /\ d.since >= v.lastSeen /\ d.since # -1
  BY <1>s, <1>y, <1>2, <1>3, LimiterAssumption
<1>5. d \in Denial  BY <1>s, <1>y, LimiterAssumption DEF Denial
<1> HIDE DEF d
<1>6. Refused(v, d)  BY <1>1, <1>2, <1>4, <1>s, <1>y, LimiterAssumption DEF Refused
<1>7. /\ denied' \in [IPs -> Denial] /\ denied'[ip] = d
      /\ \A x \in IPs : x # ip => denied'[x] = denied[x]
  BY <1>t, <1>u, <1>5 DEF TypeOK, Denial
<1>8. TypeOK'  BY <1>t, <1>u, <1>7, VisitorsIn DEF TypeOK, Denial
<1>9. \A x \in IPs : Counted(visitors'[x], admitted'[x], clock') /\ Refused(visitors'[x], denied'[x])
  BY <1>6, <1>7, <1>u DEF LimiterInv
<1> QED  BY <1>8, <1>9, <1>u DEF LimiterInv

(* The sweep of one shard. *)
LEMMA SweepShardInv ==
  ASSUME LimiterInv, NEW s \in Shards, SweepShard(s)  PROVE LimiterInv'
<1>t. TypeOK /\ sweep.now <= clock  BY DEF LimiterInv
<1>u. /\ visitors' = [ip \in IPs |-> IF ip \in Visitors(s) /\ Stale(ip) THEN Absent ELSE visitors[ip]]
      /\ sweep' = [pc |-> AfterSweep(sweep.left \ {s}), now |-> sweep.now,
                   left |-> sweep.left \ {s}, due |-> sweep.due]
      /\ UNCHANGED <<clock, stop, admitted, denied>>
  BY DEF SweepShard
<1>y. /\ sweep.now \in 0..MaxClock /\ sweep.left \in SUBSET Shards /\ sweep.due \in Int
      /\ clock \in 0..MaxClock
  BY <1>t DEF TypeOK
<1>1. /\ sweep' \in [pc : {"select", "sweep", "done"}, now : 0..MaxClock, left : SUBSET Shards, due : Int]
      /\ sweep'.now = sweep.now
  BY <1>u, <1>y DEF AfterSweep
<1>2. Absent \in Visitor /\ ~Absent.present  BY LimiterAssumption DEF Absent, Visitor
<1>3. visitors' \in [IPs -> Visitor]  BY <1>t, <1>u, <1>2 DEF TypeOK, Visitor
<1>4. \A ip \in IPs : \/ visitors'[ip] = visitors[ip]
                      \/ visitors'[ip] = Absent /\ visitors[ip].present /\ Stale(ip)
  BY <1>u DEF Visitors
<1>5. ASSUME NEW x \in Shards  PROVE Cardinality(In(visitors', x)) <= MaxPerShard
  <2>1. Cardinality(In(visitors, x)) <= MaxPerShard  BY <1>t, VisitorsIn DEF TypeOK
  <2>2. \A ip \in IPs : visitors'[ip].present => visitors[ip].present  BY <1>2, <1>4
  <2>3. Cardinality(In(visitors', x)) <= Cardinality(In(visitors, x))  BY <2>2, FewerVisitors
  <2>4. Cardinality(In(visitors, x)) \in Nat /\ Cardinality(In(visitors', x)) \in Nat /\ MaxPerShard \in Nat
    BY ShardFinite, LimiterAssumption
  <2> QED  BY <2>1, <2>3, <2>4
<1>6. TypeOK'  BY <1>t, <1>u, <1>1, <1>3, <1>5, VisitorsIn DEF TypeOK, Visitor
<1>7. ASSUME NEW ip \in IPs
      PROVE  Counted(visitors'[ip], admitted'[ip], clock') /\ Refused(visitors'[ip], denied'[ip])
  <2>c. Counted(visitors[ip], admitted[ip], clock) /\ Refused(visitors[ip], denied[ip])
    BY DEF LimiterInv
  <2>1. CASE visitors'[ip] = visitors[ip]  BY <2>1, <2>c, <1>u
  <2>2. CASE visitors'[ip] = Absent /\ visitors[ip].present /\ Stale(ip)
    <3>1. admitted[ip] \in Seq(0..MaxClock)  BY <1>t DEF TypeOK
    <3>2. Counted(Absent, admitted[ip], clock)  BY <2>2, <2>c, <3>1, <1>t, <1>y, CountedSwept DEF Stale
    <3>3. Refused(Absent, denied[ip])  BY <2>c, <1>2 DEF Refused
    <3> QED  BY <2>2, <3>2, <3>3, <1>u
  <2> QED  BY <2>1, <2>2, <1>4
<1> QED  BY <1>1, <1>6, <1>7, <1>t, <1>u DEF LimiterInv

(* The clock and the goroutine of the sweep. *)
LEMMA SweepInv ==
  ASSUME LimiterInv, SweepStart \/ SweepStop \/ StopClose \/ StopReturn  PROVE LimiterInv'
<1>t. TypeOK /\ sweep.now <= clock  BY DEF LimiterInv
<1>u. UNCHANGED <<clock, visitors, admitted, denied>>
  BY DEF SweepStart, SweepStop, StopClose, StopReturn
<1>y. sweep.now \in 0..MaxClock /\ sweep.left \in SUBSET Shards /\ sweep.due \in Int /\ clock \in 0..MaxClock
  BY <1>t DEF TypeOK
<1>1. NextTick(clock) \in Int
  <2>1. clock \div SweepPeriod \in Int  BY <1>y, LimiterAssumption
  <2>2. clock \div SweepPeriod + 1 \in Int  BY <2>1
  <2> QED  BY <2>2, LimiterAssumption DEF NextTick
<1>2. /\ sweep' \in [pc : {"select", "sweep", "done"}, now : 0..MaxClock, left : SUBSET Shards, due : Int]
      /\ sweep'.now <= clock
  BY <1>t, <1>y, <1>1, LimiterAssumption DEF TypeOK, SweepStart, SweepStop, StopClose, StopReturn
<1>3. stop' \in {"no", "closed", "returned"}
  BY <1>t DEF TypeOK, SweepStart, SweepStop, StopClose, StopReturn
<1>4. TypeOK'  BY <1>t, <1>u, <1>2, <1>3, VisitorsIn DEF TypeOK
<1> QED  BY <1>2, <1>4, <1>u DEF LimiterInv

LEMMA TickInv ==
  ASSUME LimiterInv, Tick  PROVE LimiterInv'
<1>t. TypeOK /\ sweep.now <= clock  BY DEF LimiterInv
<1>u. clock' = clock + 1 /\ clock < MaxClock /\ UNCHANGED <<visitors, sweep, stop, admitted, denied>>
  BY DEF Tick
<1>y. sweep.now \in 0..MaxClock /\ clock \in 0..MaxClock  BY <1>t DEF TypeOK
<1>1. clock' \in 0..MaxClock /\ clock <= clock' /\ sweep'.now <= clock'
  BY <1>t, <1>u, <1>y, LimiterAssumption
<1>2. TypeOK'  BY <1>t, <1>u, <1>1, VisitorsIn DEF TypeOK
<1>3. ASSUME NEW ip \in IPs
      PROVE  Counted(visitors'[ip], admitted'[ip], clock') /\ Refused(visitors'[ip], denied'[ip])
  <2>1. Counted(visitors[ip], admitted[ip], clock) /\ Refused(visitors[ip], denied[ip])
    BY DEF LimiterInv
  <2>2. admitted[ip] \in Seq(0..MaxClock)  BY <1>t DEF TypeOK
  <2> QED  BY <2>1, <2>2, <1>u, <1>y, <1>1, CountedLater
<1> QED  BY <1>1, <1>2, <1>3 DEF LimiterInv

(* Through every step of allow and of the sweeper, a visitor's count stands *)
(* for the admissions of its window and the gap before it.                 *)
THEOREM LimiterSafe == Spec => []LimiterInv
<1>1. Init => LimiterInv
  <2> SUFFICES ASSUME Init  PROVE LimiterInv
    OBVIOUS
  <2>1. Absent \in Visitor /\ ~Absent.present  BY LimiterAssumption DEF Absent, Visitor
  <2>2. NotDenied \in Denial /\ Refused(Absent, NotDenied)
    BY LimiterAssumption, <2>1 DEF NotDenied, Denial, Refused
  <2>3. visitors \in [IPs -> Visitor] /\ denied \in [IPs -> Denial]  BY <2>1, <2>2 DEF Init
  <2>4. admitted \in [IPs -> Seq(0..MaxClock)]
    <3>1. <<>> \in Seq(0..MaxClock)  BY EmptySeq
    <3> QED  BY <3>1 DEF Init
  <2>5. sweep \in [pc : {"select", "sweep", "done"}, now : 0..MaxClock, left : SUBSET Shards, due : Int]
        /\ clock \in 0..MaxClock /\ sweep.now <= clock
    BY LimiterAssumption DEF Init
  <2>6. ASSUME NEW s \in Shards  PROVE Cardinality(Visitors(s)) <= MaxPerShard
    <3>1. Visitors(s) = {}  BY <2>1 DEF Init, Visitors
    <3>2. Cardinality({}) = 0  BY FS_EmptySet
    <3> QED  BY <3>1, <3>2, LimiterAssumption
  <2>7. TypeOK  BY <2>3, <2>4, <2>5, <2>6 DEF Init, TypeOK, Visitor, Denial
  <2>8. Counted(Absent, <<>>, 0)  BY <2>1 DEF Counted
  <2> QED  BY <2>2, <2>5, <2>7, <2>8 DEF Init, LimiterInv
<1>2. LimiterInv /\ [Next]_vars => LimiterInv'
  <2> SUFFICES ASSUME LimiterInv, [Next]_vars  PROVE LimiterInv'
    OBVIOUS
  <2>1. ASSUME NEW ip \in IPs, Allow(ip)  PROVE LimiterInv'
    BY <2>1, AllowNewInv, AllowEvictInv, AllowWindowInv, AllowDenyInv, AllowCountInv DEF Allow
  <2>2. CASE Sweeper  BY <2>2, SweepInv, SweepShardInv DEF Sweeper
  <2>3. CASE UNCHANGED vars
    <3>1. UNCHANGED <<clock, visitors, sweep, stop, admitted, denied>>  BY <2>3 DEF vars
    <3>2. TypeOK'  BY <3>1, VisitorsIn DEF LimiterInv, TypeOK
    <3> QED  BY <3>1, <3>2 DEF LimiterInv
  <2> QED  BY <2>1, <2>2, <2>3, TickInv, SweepInv DEF Next
<1> QED  BY <1>1, <1>2, PTL DEF Spec

(* The limiter's maps never outgrow their bound, and no count the limit. *)
THEOREM LimiterTypes == Spec => []TypeOK
BY LimiterSafe, PTL DEF LimiterInv

(* At most Limit requests of an address are admitted in any minute,        *)
(* whatever the sweep removes and however requests interleave with it.     *)
THEOREM LimitHolds == Spec => []AtMostLimitPerMinute
<1>1. LimiterInv => AtMostLimitPerMinute  BY DEF LimiterInv, Counted, AtMostLimitPerMinute
<1> QED  BY <1>1, LimiterSafe, PTL

(* No client is refused for longer than a minute without being admitted. *)
THEOREM RefusalEnds == Spec => []DenialEnds
<1>1. LimiterInv => DenialEnds  BY DEF LimiterInv, Refused, DenialEnds
<1> QED  BY <1>1, LimiterSafe, PTL

-----------------------------------------------------------------------------
(* The waits *)

(* Every nonempty set of naturals has a least element. *)
LEMMA Least ==
  ASSUME NEW S \in SUBSET Nat, S # {}
  PROVE  \E m \in S : \A k \in S : m <= k
<1>1. \E m \in S : \A k \in S : ~ (<<k, m>> \in OpToRel(<, Nat))
  BY NatLessThanWellFounded, WFMin
<1>2. \A k, m \in Nat : ~ (<<k, m>> \in OpToRel(<, Nat)) => m <= k  BY DEF OpToRel
<1> QED  BY <1>1, <1>2

(* One doubling of Fail's loop. *)
Twice(x) == IF x < Cap THEN 2 * x ELSE x

(* f holds the first n waits, before the cap. *)
Doublings(f, n) ==
    /\ f \in [1..n -> Nat]
    /\ f[1] = Base
    /\ \A i \in 2..n : f[i] = Twice(f[i - 1])

LEMMA DoublingsExist == \A n \in Nat \ {0} : \E f : Doublings(f, n)
<1> DEFINE Bad == {n \in Nat \ {0} : ~ \E f : Doublings(f, n)}
<1> SUFFICES ASSUME Bad # {}  PROVE FALSE
  OBVIOUS
<1>1. PICK m \in Bad : \A k \in Bad : m <= k
  <2>1. Bad \in SUBSET Nat  OBVIOUS
  <2> HIDE DEF Bad
  <2> QED  BY <2>1, Least
<1>2. m # 1
  <2>1. Doublings([i \in 1..1 |-> Base], 1)
    <3>1. [i \in 1..1 |-> Base][1] = Base  OBVIOUS
    <3> QED  BY <3>1, ThrottleAssumption DEF Doublings
  <2> QED  BY <2>1
<1>3. m - 1 \in Nat \ {0} /\ m - 1 \notin Bad  BY <1>1, <1>2
<1>4. PICK f : Doublings(f, m - 1)  BY <1>3
<1> DEFINE g == [i \in 1..m |-> IF i = m THEN Twice(f[m - 1]) ELSE f[i]]
<1>5. \A i \in 1..(m - 1) : g[i] = f[i] /\ f[i] \in Nat  BY <1>3, <1>4 DEF Doublings
<1>a. m \in Nat /\ m \in 1..m /\ m - 1 \in 1..(m - 1)  BY <1>3
<1>b. Twice(f[m - 1]) \in Nat
  <2>1. f[m - 1] \in Nat  BY <1>a, <1>5
  <2> QED  BY <2>1 DEF Twice
<1>6. Twice(f[m - 1]) \in Nat /\ g[m] = Twice(f[m - 1])  BY <1>a, <1>b
<1>7. g \in [1..m -> Nat]
  <2>1. \A i \in 1..m : i # m => i \in 1..(m - 1)  BY <1>3
  <2> QED  BY <2>1, <1>5, <1>6
<1> HIDE DEF g
<1>8. g[1] = Base  BY <1>3, <1>4, <1>5 DEF Doublings
<1>9. ASSUME NEW i \in 2..m  PROVE g[i] = Twice(g[i - 1])
  <2>1. CASE i = m  BY <2>1, <1>3, <1>5, <1>6
  <2>2. CASE i # m
    <3>1. i \in 2..(m - 1) /\ i \in 1..(m - 1) /\ i - 1 \in 1..(m - 1)  BY <2>2, <1>3
    <3>2. f[i] = Twice(f[i - 1])  BY <3>1, <1>4 DEF Doublings
    <3> QED  BY <3>1, <3>2, <1>5
  <2> QED  BY <2>1, <2>2
<1>10. Doublings(g, m)  BY <1>7, <1>8, <1>9 DEF Doublings
<1> QED  BY <1>10

LEMMA DoublingsAgree ==
  ASSUME NEW n \in Nat \ {0}, NEW f, NEW g, Doublings(f, n), Doublings(g, n + 1)
  PROVE  f[n] = g[n]
<1> DEFINE Bad == {i \in 1..n : f[i] # g[i]}
<1> SUFFICES ASSUME Bad # {}  PROVE FALSE
  OBVIOUS
<1>1. PICK m \in Bad : \A k \in Bad : m <= k
  <2>1. Bad \in SUBSET Nat  OBVIOUS
  <2> HIDE DEF Bad
  <2> QED  BY <2>1, Least
<1>2. m # 1  BY DEF Doublings
<1>3. m \in 2..n /\ m \in 2..(n + 1) /\ m - 1 \in 1..n /\ m - 1 \notin Bad  BY <1>1, <1>2
<1>4. f[m - 1] = g[m - 1]  BY <1>3
<1>5. f[m] = Twice(f[m - 1]) /\ g[m] = Twice(g[m - 1])  BY <1>3 DEF Doublings
<1> QED  BY <1>4, <1>5

(* Fail's loop, as the equations of the recursive function. *)
LEMMA DoubledIs ==
  /\ Throttle!Doubled[1] = Base
  /\ \A n \in Nat \ {0} : Throttle!Doubled[n] \in Nat
  /\ \A n \in Nat \ {0} : Throttle!Doubled[n + 1] = Twice(Throttle!Doubled[n])
<1> DEFINE row(n) == CHOOSE f : Doublings(f, n)
           h == [n \in Nat \ {0} |-> row(n)[n]]
           D == Throttle!Doubled
           Body(e) == [n \in Nat \ {0} |-> IF n = 1 THEN Base
                         ELSE IF e[n - 1] < Cap THEN 2 * e[n - 1] ELSE e[n - 1]]
<1>1. \A n \in Nat \ {0} : Doublings(row(n), n)  BY DoublingsExist
<1> HIDE DEF row
<1>2. ASSUME NEW n \in Nat \ {0}
      PROVE  h[n] = IF n = 1 THEN Base ELSE IF h[n - 1] < Cap THEN 2 * h[n - 1] ELSE h[n - 1]
  <2>1. CASE n = 1  BY <2>1, <1>1 DEF Doublings
  <2>2. CASE n # 1
    <3>1. n - 1 \in Nat \ {0} /\ (n - 1) + 1 = n /\ n \in 2..n  BY <2>2
    <3>2. Doublings(row(n - 1), n - 1) /\ Doublings(row(n), (n - 1) + 1)  BY <3>1, <1>1
    <3>3. row(n - 1)[n - 1] = row(n)[n - 1]  BY <3>1, <3>2, DoublingsAgree
    <3>4. row(n)[n] = Twice(row(n)[n - 1])  BY <3>1, <3>2 DEF Doublings
    <3>5. h[n] = row(n)[n] /\ h[n - 1] = row(n - 1)[n - 1]  BY <3>1
    <3> HIDE DEF h
    <3> QED  BY <2>2, <3>3, <3>4, <3>5 DEF Twice
  <2> QED  BY <2>1, <2>2
<1>3. h = Body(h)
  <2>1. h = [n \in Nat \ {0} |-> h[n]]  OBVIOUS
  <2> HIDE DEF h
  <2> QED  BY <2>1, <1>2
<1>4. D = CHOOSE e : e = Body(e)  BY DEF Throttle!Doubled
<1> HIDE DEF h, D
<1>5. D = Body(D)  BY <1>3, <1>4
<1>6. ASSUME NEW n \in Nat \ {0}
      PROVE  D[n] = IF n = 1 THEN Base ELSE IF D[n - 1] < Cap THEN 2 * D[n - 1] ELSE D[n - 1]
  BY <1>5
<1>7. D[1] = Base  BY <1>6
<1>8. ASSUME NEW n \in Nat \ {0}  PROVE D[n + 1] = Twice(D[n])
  <2>1. n + 1 \in Nat \ {0} /\ (n + 1) - 1 = n /\ n + 1 # 1  OBVIOUS
  <2> QED  BY <2>1, <1>6 DEF Twice
<1>9. \A n \in Nat \ {0} : D[n] \in Nat
  <2> DEFINE Bad == {n \in Nat \ {0} : D[n] \notin Nat}
  <2> SUFFICES ASSUME Bad # {}  PROVE FALSE
    OBVIOUS
  <2>1. PICK m \in Bad : \A k \in Bad : m <= k
    <3>1. Bad \in SUBSET Nat  OBVIOUS
    <3> HIDE DEF Bad
    <3> QED  BY <3>1, Least
  <2>2. m # 1  BY <1>7, ThrottleAssumption
  <2>3. m - 1 \in Nat \ {0} /\ m - 1 \notin Bad /\ (m - 1) + 1 = m  BY <2>1, <2>2
  <2>4. D[m - 1] \in Nat /\ D[m] = Twice(D[m - 1])  BY <2>3, <1>8
  <2> QED  BY <2>4 DEF Twice
<1> QED  BY <1>7, <1>8, <1>9 DEF D

LEMMA MinOfTwo ==
  ASSUME NEW a \in Nat, NEW b \in Nat
  PROVE  Throttle!Min({a, b}) = IF a <= b THEN a ELSE b
<1> DEFINE m == IF a <= b THEN a ELSE b
<1>1. m \in {a, b} /\ \A y \in {a, b} : m <= y  OBVIOUS
<1>2. \A x \in {a, b} : (\A y \in {a, b} : x <= y) => x = m  OBVIOUS
<1>3. \E x \in {a, b} : \A y \in {a, b} : x <= y  BY <1>1
<1> QED  BY <1>2, <1>3 DEF Throttle!Min

(* The wait after n failures: Base at first, doubled up to the cap. *)
LEMMA WaitIs ==
  /\ Throttle!Wait(1) = Base
  /\ \A n \in Nat \ {0} :
       /\ Throttle!Wait(n) \in 0..Cap
       /\ Throttle!Wait(n + 1) = Throttle!Min({Cap, 2 * Throttle!Wait(n)})
<1> DEFINE D == Throttle!Doubled
<1>d. /\ D[1] = Base
      /\ \A n \in Nat \ {0} : D[n] \in Nat
      /\ \A n \in Nat \ {0} : D[n + 1] = Twice(D[n])
  BY DoubledIs
<1>w. \A n : Throttle!Wait(n) = Throttle!Min({Cap, D[n]})  BY DEF Throttle!Wait
<1> HIDE DEF D
<1>c. Cap \in Nat /\ Base \in Nat /\ Base <= Cap  BY ThrottleAssumption
<1>1. Throttle!Wait(1) = Base
  <2>1. Throttle!Wait(1) = Throttle!Min({Cap, Base})  BY <1>d, <1>w
  <2>2. Throttle!Min({Cap, Base}) = IF Cap <= Base THEN Cap ELSE Base  BY <1>c, MinOfTwo
  <2> QED  BY <2>1, <2>2, <1>c
<1>2. ASSUME NEW n \in Nat \ {0}
      PROVE  /\ Throttle!Wait(n) \in 0..Cap
             /\ Throttle!Wait(n + 1) = Throttle!Min({Cap, 2 * Throttle!Wait(n)})
  <2>1. D[n] \in Nat /\ D[n + 1] \in Nat /\ D[n + 1] = Twice(D[n])  BY <1>d
  <2>2. Throttle!Wait(n) = IF Cap <= D[n] THEN Cap ELSE D[n]
    <3>1. Throttle!Min({Cap, D[n]}) = IF Cap <= D[n] THEN Cap ELSE D[n]  BY <2>1, <1>c, MinOfTwo
    <3> QED  BY <3>1, <1>w
  <2>3. Throttle!Wait(n + 1) = IF Cap <= D[n + 1] THEN Cap ELSE D[n + 1]
    <3>1. Throttle!Min({Cap, D[n + 1]}) = IF Cap <= D[n + 1] THEN Cap ELSE D[n + 1]
      BY <2>1, <1>c, MinOfTwo
    <3> QED  BY <3>1, <1>w
  <2>4. Throttle!Wait(n) \in Nat /\ Throttle!Wait(n) \in 0..Cap  BY <2>1, <2>2, <1>c
  <2>5. 2 * Throttle!Wait(n) \in Nat  BY <2>4
  <2>6. Throttle!Min({Cap, 2 * Throttle!Wait(n)})
          = IF Cap <= 2 * Throttle!Wait(n) THEN Cap ELSE 2 * Throttle!Wait(n)
    BY <2>5, <1>c, MinOfTwo
  <2> QED  BY <2>1, <2>2, <2>3, <2>4, <2>6, <1>c DEF Twice
<1> QED  BY <1>1, <1>2

-----------------------------------------------------------------------------
(* The throttle *)

Entry == [failures : Nat, nextAllowed : 0..(MaxClock + Cap), lastSeen : 0..MaxClock]
Failure == [at : -1..MaxClock, wait : 0..Cap, overflow : BOOLEAN]
Attempt == {Throttle!Finished} \cup [pc : {"compare"}, ip : AuthIPs]

(* The entry e of an address whose latest failure is l: it carries the     *)
(* wait of that failure, or it was pruned and the wait is long over.       *)
Remembered(e, l, now) ==
    /\ l.at <= now
    /\ l.at = -1 => e = Throttle!NoEntry
    /\ l.at # -1 =>
         \/ /\ e.failures # 0 /\ l.wait = Throttle!Wait(e.failures)
            /\ e.nextAllowed = l.at + l.wait /\ e.lastSeen = l.at
         \/ e = Throttle!NoEntry /\ now - l.at > Cap

ThrottleInv ==
    /\ clock \in 0..MaxClock
    /\ entries \in [AuthIPs -> Entry]
    /\ request \in [Requests -> Attempt]
    /\ last \in [AuthIPs -> Failure]
    /\ Cardinality(Throttle!Held(entries)) <= MaxEntries
    /\ \A ip \in AuthIPs : Remembered(entries[ip], last[ip], clock)

LEMMA NothingTyped ==
  /\ Throttle!NoEntry \in Entry /\ Throttle!NoEntry.failures = 0
  /\ Throttle!NoEntry.lastSeen = 0 /\ Throttle!NoEntry.nextAllowed = 0
  /\ Throttle!NoFailure \in Failure /\ Throttle!NoFailure.at = -1
  /\ \A now \in 0..MaxClock : Remembered(Throttle!NoEntry, Throttle!NoFailure, now)
BY LimiterAssumption, ThrottleAssumption
   DEF Throttle!NoEntry, Throttle!NoFailure, Entry, Failure, Remembered

(* The number of addresses held. *)
LEMMA HeldBound ==
  ASSUME NEW es, NEW fs, NEW ip,
         \A a \in AuthIPs : a # ip /\ fs[a].failures > 0 => es[a].failures > 0,
         Cardinality(Throttle!Held(es)) < MaxEntries
  PROVE  Cardinality(Throttle!Held(fs)) <= MaxEntries
<1> DEFINE S == Throttle!Held(es)
           T == Throttle!Held(fs)
<1>1. T \in SUBSET (S \cup {ip}) /\ S \in SUBSET AuthIPs /\ T \in SUBSET AuthIPs
  BY DEF Throttle!Held
<1> HIDE DEF S, T
<1>2. IsFiniteSet(S) /\ IsFiniteSet(T) /\ Cardinality(S) \in Nat /\ Cardinality(T) \in Nat
  BY <1>1, ThrottleAssumption, FS_Subset, FS_CardinalityType
<1>3. /\ IsFiniteSet(S \cup {ip})
      /\ Cardinality(S \cup {ip}) = IF ip \in S THEN Cardinality(S) ELSE Cardinality(S) + 1
  BY <1>2, FS_AddElement
<1>4. Cardinality(T) <= Cardinality(S \cup {ip})  BY <1>1, <1>3, FS_Subset
<1>5. Cardinality(S) < MaxEntries  BY DEF S
<1> QED  BY <1>2, <1>3, <1>4, <1>5, ThrottleAssumption DEF T

LEMMA HeldFewer ==
  ASSUME NEW es, NEW fs, \A a \in AuthIPs : fs[a].failures > 0 => es[a].failures > 0,
         Cardinality(Throttle!Held(es)) <= MaxEntries
  PROVE  Cardinality(Throttle!Held(fs)) <= MaxEntries
<1> DEFINE S == Throttle!Held(es)
           T == Throttle!Held(fs)
<1>1. T \in SUBSET S /\ S \in SUBSET AuthIPs  BY DEF Throttle!Held
<1> HIDE DEF S, T
<1>2. IsFiniteSet(S) /\ IsFiniteSet(T)  BY <1>1, ThrottleAssumption, FS_Subset
<1>3. Cardinality(S) \in Nat /\ Cardinality(T) \in Nat /\ Cardinality(T) <= Cardinality(S)
  BY <1>1, <1>2, FS_Subset, FS_CardinalityType
<1>4. Cardinality(S) <= MaxEntries  BY DEF S
<1> QED  BY <1>3, <1>4, ThrottleAssumption DEF T

(* Pruning forgets only waits that are over. *)
LEMMA PrunedIs ==
  ASSUME ThrottleInv, NEW a \in AuthIPs
  PROVE  LET kept == Throttle!Pruned(clock, entries)
         IN /\ kept[a] \in Entry /\ Remembered(kept[a], last[a], clock)
            /\ kept[a] = entries[a] \/ kept[a] = Throttle!NoEntry
            /\ last[a].at # -1 /\ clock - last[a].at > Cap => kept[a] = Throttle!NoEntry
            /\ last[a].at # -1 /\ clock - last[a].at <= Cap =>
                 kept[a].failures # 0 /\ last[a].wait = Throttle!Wait(kept[a].failures)
<1> DEFINE e == entries[a]
           l == last[a]
           k == Throttle!Pruned(clock, entries)[a]
<1>1. e \in Entry /\ l \in Failure /\ clock \in 0..MaxClock /\ Remembered(e, l, clock)
  BY DEF ThrottleInv
<1>2. k = IF clock - e.lastSeen > Cap THEN Throttle!NoEntry ELSE e  BY DEF Throttle!Pruned
<1>3. Throttle!NoEntry \in Entry /\ Throttle!NoEntry.lastSeen = 0 /\ Throttle!NoEntry.failures = 0
  BY NothingTyped
<1>4. l.at \in -1..MaxClock /\ e.lastSeen \in 0..MaxClock /\ Cap \in Nat /\ MaxClock \in Nat
  BY <1>1, ThrottleAssumption, LimiterAssumption DEF Entry, Failure
<1> HIDE DEF e, l, k
<1>5. k \in Entry /\ (k = e \/ k = Throttle!NoEntry)  BY <1>1, <1>2, <1>3
<1>6. l.at # -1 /\ clock - l.at > Cap => k = Throttle!NoEntry
  BY <1>1, <1>2, <1>4 DEF Remembered
<1>7. l.at # -1 /\ clock - l.at <= Cap => k = e /\ e.failures # 0 /\ l.wait = Throttle!Wait(e.failures)
  BY <1>1, <1>2, <1>4 DEF Remembered
<1>8. Remembered(k, l, clock)
  BY <1>1, <1>4, <1>5, <1>6, <1>7 DEF Remembered
<1> QED  BY <1>5, <1>6, <1>7, <1>8 DEF e, l, k

(* What Fail does, address by address. *)
FailedAs(ip, full, n) ==
    /\ entries' = [a \in AuthIPs |->
         IF a = ip THEN [failures |-> n, nextAllowed |-> clock + Throttle!Wait(n), lastSeen |-> clock]
         ELSE IF full THEN Throttle!NoEntry ELSE Throttle!Pruned(clock, entries)[a]]
    /\ last' = [a \in AuthIPs |->
         IF a = ip THEN [at |-> clock, wait |-> Throttle!Wait(n), overflow |-> full]
         ELSE IF full THEN Throttle!NoFailure ELSE last[a]]
    /\ ~full => Cardinality(Throttle!Held(Throttle!Pruned(clock, entries))) < MaxEntries
    /\ Throttle!Wait(n) =
         IF last[ip].at = -1 \/ full \/ clock - last[ip].at > Cap THEN Base
         ELSE Throttle!Min({Cap, 2 * last[ip].wait})

LEMMA FailIs ==
  ASSUME ThrottleInv, NEW r \in Requests, Throttle!Fail(r)
  PROVE  \E ip \in AuthIPs, full \in BOOLEAN, n \in Nat \ {0} : FailedAs(ip, full, n)
<1> DEFINE ip == request[r].ip
           kept == Throttle!Pruned(clock, entries)
           full == Throttle!Overflows(kept)
           n == IF full THEN 1 ELSE kept[ip].failures + 1
<1>1. ip \in AuthIPs
  <2>1. request[r] \in Attempt /\ request[r].pc = "compare"  BY DEF ThrottleInv, Throttle!Fail
  <2> QED  BY <2>1 DEF Attempt, Throttle!Finished
<1>2. full \in BOOLEAN  BY DEF Throttle!Overflows
<1>k. /\ kept[ip] \in Entry /\ Remembered(kept[ip], last[ip], clock)
      /\ last[ip].at # -1 /\ clock - last[ip].at > Cap => kept[ip] = Throttle!NoEntry
      /\ last[ip].at # -1 /\ clock - last[ip].at <= Cap =>
           kept[ip].failures # 0 /\ last[ip].wait = Throttle!Wait(kept[ip].failures)
  BY <1>1, PrunedIs
<1>3. kept[ip].failures \in Nat  BY <1>k DEF Entry
<1>4. n \in Nat \ {0}  BY <1>3
<1>5. /\ entries' = [a \in AuthIPs |->
           IF a = ip THEN [failures |-> n, nextAllowed |-> clock + Throttle!Wait(n), lastSeen |-> clock]
           ELSE IF full THEN Throttle!NoEntry ELSE kept[a]]
      /\ last' = [a \in AuthIPs |->
           IF a = ip THEN [at |-> clock, wait |-> Throttle!Wait(n), overflow |-> full]
           ELSE IF full THEN Throttle!NoFailure ELSE last[a]]
  BY DEF Throttle!Fail
<1>6. ~full => Cardinality(Throttle!Held(kept)) < MaxEntries
  <2> DEFINE H == Throttle!Held(kept)
  <2>1. H \in SUBSET AuthIPs  BY DEF Throttle!Held
  <2>2. full <=> Cardinality(H) >= MaxEntries
    BY DEF Throttle!Overflows, Throttle!Cardinality, Cardinality
  <2> HIDE DEF H, full
  <2>3. Cardinality(H) \in Nat  BY <2>1, ThrottleAssumption, FS_Subset, FS_CardinalityType
  <2> QED  BY <2>2, <2>3, ThrottleAssumption DEF H
<1>7. Throttle!Wait(n) =
        IF last[ip].at = -1 \/ full \/ clock - last[ip].at > Cap THEN Base
        ELSE Throttle!Min({Cap, 2 * last[ip].wait})
  <2>0. last[ip].at \in -1..MaxClock /\ clock \in 0..MaxClock /\ Cap \in Nat /\ MaxClock \in Nat
    BY <1>1, ThrottleAssumption, LimiterAssumption DEF ThrottleInv, Failure
  <2>1. CASE full  BY <2>1, WaitIs
  <2>2. CASE ~full /\ (last[ip].at = -1 \/ clock - last[ip].at > Cap)
    <3>1. kept[ip] = Throttle!NoEntry  BY <2>2, <1>k DEF Remembered
    <3>2. n = 1  BY <2>2, <3>1, NothingTyped
    <3> QED  BY <2>2, <3>2, WaitIs
  <2>3. CASE ~full /\ last[ip].at # -1 /\ ~(clock - last[ip].at > Cap)
    <3>1. clock - last[ip].at <= Cap  BY <2>0, <2>3
    <3>2. kept[ip].failures \in Nat \ {0} /\ last[ip].wait = Throttle!Wait(kept[ip].failures)
      BY <2>3, <3>1, <1>k, <1>3
    <3>3. n = kept[ip].failures + 1  BY <2>3
    <3> HIDE DEF n, kept, full
    <3>4. Throttle!Wait(n) = Throttle!Min({Cap, 2 * last[ip].wait})  BY <3>2, <3>3, WaitIs
    <3> QED  BY <2>3, <3>4
  <2> QED  BY <2>1, <2>2, <2>3
<1>8. FailedAs(ip, full, n)  BY <1>5, <1>6, <1>7 DEF FailedAs
<1> HIDE DEF ip, full, n
<1> QED  BY <1>1, <1>2, <1>4, <1>8

(* A failed attempt. *)
LEMMA FailInv ==
  ASSUME ThrottleInv, NEW r \in Requests, Throttle!Fail(r)  PROVE ThrottleInv'
<1>0. PICK ip \in AuthIPs, full \in BOOLEAN, n \in Nat \ {0} : FailedAs(ip, full, n)
  BY FailIs
<1> DEFINE kept == Throttle!Pruned(clock, entries)
           e == [failures |-> n, nextAllowed |-> clock + Throttle!Wait(n), lastSeen |-> clock]
           l == [at |-> clock, wait |-> Throttle!Wait(n), overflow |-> full]
<1>y. clock \in 0..MaxClock /\ MaxClock \in Nat /\ Cap \in Nat /\ Throttle!Wait(n) \in 0..Cap
  BY WaitIs, LimiterAssumption, ThrottleAssumption DEF ThrottleInv
<1>w. clock + Throttle!Wait(n) \in 0..(MaxClock + Cap)  BY <1>y
<1>1. /\ e \in Entry /\ e.failures = n /\ e.nextAllowed = clock + Throttle!Wait(n) /\ e.lastSeen = clock
  BY <1>y, <1>w DEF Entry
<1>2. l \in Failure /\ l.at = clock /\ l.wait = Throttle!Wait(n)  BY <1>y DEF Failure
<1>3. /\ entries' = [a \in AuthIPs |-> IF a = ip THEN e ELSE IF full THEN Throttle!NoEntry ELSE kept[a]]
      /\ last' = [a \in AuthIPs |-> IF a = ip THEN l ELSE IF full THEN Throttle!NoFailure ELSE last[a]]
  BY <1>0 DEF FailedAs
<1>c. clock' = clock  BY DEF Throttle!Fail
<1> HIDE DEF e, l, kept
<1>k. \A a \in AuthIPs : /\ kept[a] \in Entry /\ Remembered(kept[a], last[a], clock)
  BY PrunedIs DEF kept
<1>4. Remembered(e, l, clock)  BY <1>1, <1>2, <1>y DEF Remembered
<1>5. entries' \in [AuthIPs -> Entry]  BY <1>1, <1>3, <1>k, NothingTyped
<1>6. last' \in [AuthIPs -> Failure]  BY <1>2, <1>3, NothingTyped DEF ThrottleInv
<1>7. request' \in [Requests -> Attempt]
  BY DEF ThrottleInv, Throttle!Fail, Attempt
<1>8. \A a \in AuthIPs : Remembered(entries'[a], last'[a], clock')
  BY <1>3, <1>4, <1>c, <1>k, <1>y, NothingTyped
<1>9. Cardinality(Throttle!Held(entries')) <= MaxEntries
  <2>1. CASE full
    <3>1. Throttle!Held(entries') = {ip}
      BY <2>1, <1>1, <1>3, NothingTyped DEF Throttle!Held
    <3>2. Cardinality({ip}) = 1  BY FS_Singleton
    <3> QED  BY <3>1, <3>2, ThrottleAssumption
  <2>2. CASE ~full
    <3>1. Cardinality(Throttle!Held(kept)) < MaxEntries  BY <2>2, <1>0 DEF kept, FailedAs
    <3>2. \A a \in AuthIPs : a # ip /\ entries'[a].failures > 0 => kept[a].failures > 0
      BY <2>2, <1>3
    <3> QED  BY <3>1, <3>2, HeldBound
  <2> QED  BY <2>1, <2>2
<1>10. Throttle!Held(entries)' = Throttle!Held(entries')  BY DEF Throttle!Held
<1> QED  BY <1>5, <1>6, <1>7, <1>8, <1>9, <1>10, <1>c, <1>y DEF ThrottleInv

(* A success, and the steps that leave the map alone. *)
LEMMA SucceedInv ==
  ASSUME ThrottleInv, NEW r \in Requests, Throttle!Succeed(r)  PROVE ThrottleInv'
<1> DEFINE ip == request[r].ip
<1>1. ip \in AuthIPs
  <2>1. request[r] \in Attempt /\ request[r].pc = "compare"  BY DEF ThrottleInv, Throttle!Succeed
  <2> QED  BY <2>1 DEF Attempt, Throttle!Finished
<1>2. /\ entries' = [entries EXCEPT ![ip] = Throttle!NoEntry]
      /\ last' = [last EXCEPT ![ip] = Throttle!NoFailure] /\ clock' = clock
  BY DEF Throttle!Succeed, Throttle!ResetEntry
<1>3. request' \in [Requests -> Attempt]  BY DEF ThrottleInv, Throttle!Succeed, Attempt
<1> HIDE DEF ip
<1>4. entries' \in [AuthIPs -> Entry] /\ last' \in [AuthIPs -> Failure] /\ clock \in 0..MaxClock
  BY <1>1, <1>2, NothingTyped DEF ThrottleInv
<1>5. \A a \in AuthIPs : Remembered(entries'[a], last'[a], clock')
  BY <1>1, <1>2, <1>4, NothingTyped DEF ThrottleInv
<1>6. \A a \in AuthIPs : entries'[a].failures > 0 => entries[a].failures > 0
  BY <1>1, <1>2, NothingTyped DEF ThrottleInv
<1>7. Cardinality(Throttle!Held(entries')) <= MaxEntries  BY <1>6, HeldFewer DEF ThrottleInv
<1>8. Throttle!Held(entries)' = Throttle!Held(entries')  BY DEF Throttle!Held
<1> QED  BY <1>2, <1>3, <1>4, <1>5, <1>7, <1>8 DEF ThrottleInv

LEMMA QuietInv ==
  ASSUME ThrottleInv, UNCHANGED <<entries, last>>, request' \in [Requests -> Attempt],
         clock' \in 0..MaxClock, clock <= clock'
  PROVE  ThrottleInv'
<1>1. Throttle!Held(entries)' = Throttle!Held(entries)  BY DEF Throttle!Held
<1>2. ASSUME NEW a \in AuthIPs  PROVE Remembered(entries'[a], last'[a], clock')
  <2>1. Remembered(entries[a], last[a], clock) /\ last[a] \in Failure /\ clock \in 0..MaxClock
    BY DEF ThrottleInv
  <2>2. last[a].at \in -1..MaxClock /\ Cap \in Nat /\ MaxClock \in Nat
    BY <2>1, ThrottleAssumption, LimiterAssumption DEF Failure
  <2> QED  BY <2>1, <2>2 DEF Remembered
<1> QED  BY <1>1, <1>2 DEF ThrottleInv

(* Through every step of Blocked, Fail and Reset, the entry of an address  *)
(* remembers its last failure while its wait lasts.                        *)
THEOREM ThrottleSafe == Throttle!Spec => []ThrottleInv
<1>1. Throttle!Init => ThrottleInv
  <2> SUFFICES ASSUME Throttle!Init  PROVE ThrottleInv
    OBVIOUS
  <2>1. clock = 0 /\ clock \in 0..MaxClock  BY LimiterAssumption DEF Throttle!Init
  <2>2. /\ entries = [ip \in AuthIPs |-> Throttle!NoEntry]
        /\ last = [ip \in AuthIPs |-> Throttle!NoFailure]
        /\ request \in [Requests -> Attempt]
    BY DEF Throttle!Init, Attempt
  <2>3. Throttle!Held(entries) = {}  BY <2>2, NothingTyped DEF Throttle!Held
  <2>4. Cardinality({}) = 0  BY FS_EmptySet
  <2>5. Cardinality(Throttle!Held(entries)) <= MaxEntries  BY <2>3, <2>4, ThrottleAssumption
  <2>6. entries \in [AuthIPs -> Entry] /\ last \in [AuthIPs -> Failure]  BY <2>2, NothingTyped
  <2>7. \A ip \in AuthIPs : Remembered(entries[ip], last[ip], clock)  BY <2>1, <2>2, NothingTyped
  <2> QED  BY <2>1, <2>2, <2>5, <2>6, <2>7 DEF ThrottleInv
<1>2. ThrottleInv /\ [Throttle!Next]_(Throttle!vars) => ThrottleInv'
  <2> SUFFICES ASSUME ThrottleInv, [Throttle!Next]_(Throttle!vars)  PROVE ThrottleInv'
    OBVIOUS
  <2>t. clock \in 0..MaxClock /\ MaxClock \in Nat /\ request \in [Requests -> Attempt]
    BY LimiterAssumption DEF ThrottleInv
  <2>1. CASE Throttle!Tick
    BY <2>1, <2>t, QuietInv DEF Throttle!Tick
  <2>2. ASSUME NEW r \in Requests, NEW ip \in AuthIPs, Throttle!Arrive(r, ip)
        PROVE  ThrottleInv'
    <3>1. [pc |-> "compare", ip |-> ip] \in Attempt  BY DEF Attempt
    <3>2. request' \in [Requests -> Attempt]  BY <2>2, <2>t, <3>1 DEF Throttle!Arrive
    <3> QED  BY <2>2, <2>t, <3>2, QuietInv DEF Throttle!Arrive
  <2>3. ASSUME NEW r \in Requests, Throttle!Neither(r)  PROVE ThrottleInv'
    <3>1. Throttle!Finished \in Attempt  BY DEF Attempt
    <3>2. request' \in [Requests -> Attempt]  BY <2>3, <2>t, <3>1 DEF Throttle!Neither
    <3> QED  BY <2>3, <2>t, <3>2, QuietInv DEF Throttle!Neither
  <2>4. CASE UNCHANGED Throttle!vars  BY <2>4, <2>t, QuietInv DEF Throttle!vars
  <2> QED  BY <2>1, <2>2, <2>3, <2>4, FailInv, SucceedInv DEF Throttle!Next
<1> QED  BY <1>1, <1>2, PTL DEF Throttle!Spec

(* No wait is lifted early, by pruning or by an attempt that overtook      *)
(* another.                                                                *)
THEOREM WaitsHold == Throttle!Spec => []WaitHolds
<1>1. ThrottleInv => WaitHolds
  <2> SUFFICES ASSUME ThrottleInv, NEW ip \in AuthIPs, last[ip].at >= 0,
                      clock < last[ip].at + last[ip].wait
               PROVE  entries[ip].nextAllowed > clock
    BY DEF WaitHolds, Throttle!WaitHolds, Throttle!Blocked
  <2>1. Remembered(entries[ip], last[ip], clock) /\ last[ip] \in Failure /\ clock \in 0..MaxClock
    BY DEF ThrottleInv
  <2>2. last[ip].at \in -1..MaxClock /\ last[ip].wait \in 0..Cap /\ Cap \in Nat /\ MaxClock \in Nat
    BY <2>1, ThrottleAssumption, LimiterAssumption DEF Failure
  <2>3. last[ip].at # -1 /\ ~(clock - last[ip].at > Cap)  BY <2>1, <2>2
  <2>4. entries[ip].nextAllowed = last[ip].at + last[ip].wait  BY <2>1, <2>3 DEF Remembered
  <2> QED  BY <2>1, <2>2, <2>4
<1> QED  BY <1>1, ThrottleSafe, PTL

(* Each further failure doubles the wait up to the cap, and it starts      *)
(* again only after a success, an overflow or a pause longer than the cap. *)
THEOREM WaitsGrow == Throttle!Spec => WaitsDouble
<1> DEFINE Grows(ip) ==
      LET before == last[ip]
          after == last'[ip]
      IN after.at >= 0 /\ after # before =>
           after.wait = IF before.at = -1 \/ after.overflow \/ after.at - before.at > Cap
                        THEN Base ELSE Throttle!Min({Cap, 2 * before.wait})
<1>1. ThrottleInv /\ [Throttle!Next]_(Throttle!vars) => [\A ip \in AuthIPs : Grows(ip)]_(Throttle!vars)
  <2> SUFFICES ASSUME ThrottleInv, Throttle!Next, NEW ip \in AuthIPs  PROVE Grows(ip)
    BY DEF Throttle!vars
  <2>1. CASE last' = last  BY <2>1
  <2>2. ASSUME NEW r \in Requests, Throttle!Succeed(r)  PROVE Grows(ip)
    <3>1. last' = [last EXCEPT ![request[r].ip] = Throttle!NoFailure]  BY <2>2 DEF Throttle!Succeed
    <3>2. last'[ip] = last[ip] \/ last'[ip] = Throttle!NoFailure  BY <3>1 DEF ThrottleInv
    <3>3. ~(Throttle!NoFailure.at >= 0)  BY NothingTyped
    <3> QED  BY <3>2, <3>3
  <2>3. ASSUME NEW r \in Requests, Throttle!Fail(r)  PROVE Grows(ip)
    <3>0. PICK x \in AuthIPs, full \in BOOLEAN, n \in Nat \ {0} : FailedAs(x, full, n)
      BY <2>3, FailIs
    <3>1. /\ last' = [a \in AuthIPs |->
               IF a = x THEN [at |-> clock, wait |-> Throttle!Wait(n), overflow |-> full]
               ELSE IF full THEN Throttle!NoFailure ELSE last[a]]
          /\ Throttle!Wait(n) =
               IF last[x].at = -1 \/ full \/ clock - last[x].at > Cap THEN Base
               ELSE Throttle!Min({Cap, 2 * last[x].wait})
      BY <3>0 DEF FailedAs
    <3>2. CASE ip = x
      <4>1. last'[ip].at = clock /\ last'[ip].wait = Throttle!Wait(n) /\ last'[ip].overflow = full
        BY <3>1, <3>2
      <4> QED  BY <4>1, <3>1, <3>2
    <3>3. CASE ip # x
      <4>1. last'[ip] = last[ip] \/ last'[ip] = Throttle!NoFailure  BY <3>1, <3>3
      <4>2. ~(Throttle!NoFailure.at >= 0)  BY NothingTyped
      <4> QED  BY <4>1, <4>2
    <3> QED  BY <3>2, <3>3
  <2>4. (\E r \in Requests : Throttle!Succeed(r) \/ Throttle!Fail(r)) \/ last' = last
    BY DEF Throttle!Next, Throttle!Tick, Throttle!Arrive, Throttle!Neither
  <2> QED  BY <2>1, <2>2, <2>3, <2>4
<1> QED  BY <1>1, ThrottleSafe, PTL DEF Throttle!Spec, WaitsDouble, Throttle!WaitsDouble

-----------------------------------------------------------------------------
(* The specification that the run checks is one of both guards. *)
THEOREM BothGuards == GateSpec => Spec /\ Throttle!Spec
<1>1. GateInit => Init /\ Throttle!Init  BY DEF GateInit
<1>2. ApiStep => [Next]_vars /\ [Throttle!Next]_(Throttle!vars)
  <2> SUFFICES ASSUME ApiStep  PROVE Next /\ [Throttle!Next]_(Throttle!vars)
    OBVIOUS
  <2>1. Next /\ UNCHANGED <<entries, request, last>>  BY DEF ApiStep
  <2>2. Tick \/ clock' = clock
    BY <2>1 DEF Next, Allow, AllowNew, AllowEvict, AllowWindow, AllowDeny, AllowCount, Sweeper,
                SweepStart, SweepShard, SweepStop, StopClose, StopReturn
  <2> QED  BY <2>1, <2>2 DEF Tick, Throttle!Next, Throttle!Tick, Throttle!vars
<1>3. AuthStep => [Next]_vars /\ [Throttle!Next]_(Throttle!vars)
  <2> SUFFICES ASSUME AuthStep  PROVE [Next]_vars /\ Throttle!Next
    OBVIOUS
  <2>1. Throttle!Next /\ UNCHANGED <<visitors, sweep, stop, admitted, denied>>  BY DEF AuthStep
  <2>2. Throttle!Tick \/ clock' = clock
    BY <2>1 DEF Throttle!Next, Throttle!Arrive, Throttle!Fail, Throttle!Succeed, Throttle!Neither
  <2> QED  BY <2>1, <2>2 DEF Tick, Next, Throttle!Tick, vars
<1>4. UNCHANGED gateVars => UNCHANGED vars /\ UNCHANGED Throttle!vars
  BY DEF gateVars, vars, Throttle!vars
<1> QED  BY <1>1, <1>2, <1>3, <1>4, PTL DEF GateSpec, Spec, Throttle!Spec

(* Both guards' state is well formed, and neither map outgrows its bound. *)
THEOREM GateTypes == GateSpec => []GateTypeOK
<1>1. ThrottleInv => Throttle!TypeOK
  <2> SUFFICES ASSUME ThrottleInv  PROVE Throttle!TypeOK
    OBVIOUS
  <2>1. \A r \in Requests : request[r] = Throttle!Finished \/ request[r] \in [pc : {"compare"}, ip : AuthIPs]
    BY DEF ThrottleInv, Attempt
  <2>2. Throttle!Cardinality(Throttle!Held(entries)) <= MaxEntries
    BY DEF ThrottleInv, Throttle!Cardinality, Cardinality
  <2> QED  BY <2>1, <2>2 DEF ThrottleInv, Throttle!TypeOK, Entry, Failure
<1> QED  BY <1>1, BothGuards, LimiterTypes, ThrottleSafe, PTL DEF GateTypeOK
=============================================================================
