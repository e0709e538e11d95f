---------------------------- MODULE RequestProofs ----------------------------
(***************************************************************************)
(* A request on its way up, for any conversation, any settings, models and *)
(* tiers: what a translation makes has only the roles, the parts and the   *)
(* order of blocks its format has; OpenCode's gate opens and the caller's  *)
(* names come back; and max_tokens leave room for thinking.                *)
(***************************************************************************)
EXTENDS RequestPipeline, SequenceTheorems, WellFoundedInduction, TLAPS

-----------------------------------------------------------------------------
(* Loops and sequences *)

LEMMA Least ==
  ASSUME NEW S \in SUBSET Nat, S # {}
  PROVE  \E m \in S : \A k \in S : m <= k
<1>1. \E m \in S : \A k \in S : ~ (<<k, m>> \in OpToRel(<, Nat))
  BY NatLessThanWellFounded, WFMin
<1>2. \A k, m \in Nat : ~ (<<k, m>> \in OpToRel(<, Nat)) => m <= k  BY DEF OpToRel
<1> QED  BY <1>1, <1>2

(* Induction up to N, for a set. *)
LEMMA UpTo ==
  ASSUME NEW N \in Nat, NEW B, 0 \in B, \A n \in 0..(N - 1) : n \in B => n + 1 \in B
  PROVE  \A n \in 0..N : n \in B
<1> DEFINE Bad == {n \in 0..N : n \notin B}
<1> SUFFICES ASSUME Bad # {}  PROVE FALSE
  OBVIOUS
<1>1. PICK m \in Bad : \A k \in Bad : m <= k
  <2>1. Bad \in SUBSET Nat  OBVIOUS
  <2> HIDE DEF Bad
  <2> QED  BY <2>1, Least
<1>2. m # 0 /\ m \in 0..N  BY <1>1
<1>3. m - 1 \in 0..(N - 1) /\ m - 1 \in 0..N /\ (m - 1) + 1 = m  BY <1>2
<1>4. m - 1 \notin Bad  BY <1>1, <1>2, <1>3
<1>5. m \in B  BY <1>3, <1>4
<1> QED  BY <1>1, <1>5

(* f is the states of a loop of N steps that starts with b. *)
Runs(f, X, N, b, G) ==
    /\ f \in [0..N -> X]
    /\ f[0] = b
    /\ \A n \in 1..N : f[n] = G[<<f[n - 1], n>>]

LEMMA Recursion ==
  ASSUME NEW N \in Nat, NEW X, NEW b \in X, NEW G \in [X \X (1..N) -> X]
  PROVE  \E f : Runs(f, X, N, b, G)
<1> DEFINE B == {n \in 0..N : \E f : Runs(f, X, n, b, G)}
<1>1. 0 \in B
  <2>1. Runs([n \in 0..0 |-> b], X, 0, b, G)  BY DEF Runs
  <2> QED  BY <2>1
<1>2. ASSUME NEW n \in 0..(N - 1), n \in B  PROVE n + 1 \in B
  <2>1. PICK f : Runs(f, X, n, b, G)  BY <1>2
  <2> DEFINE y == G[<<f[n], n + 1>>]
             g == [k \in 0..(n + 1) |-> IF k = n + 1 THEN y ELSE f[k]]
  <2>2. f[n] \in X /\ n + 1 \in 1..N /\ n \in Nat  BY <2>1 DEF Runs
  <2>3. y \in X  BY <2>2
  <2> HIDE DEF y
  <2>4. g \in [0..(n + 1) -> X]  BY <2>1, <2>2, <2>3 DEF Runs
  <2>5. g[0] = b  BY <2>1, <2>2 DEF Runs
  <2>6. ASSUME NEW k \in 1..(n + 1)  PROVE g[k] = G[<<g[k - 1], k>>]
    <3>1. CASE k = n + 1
      <4>1. g[k] = y /\ k - 1 = n /\ g[n] = f[n]  BY <3>1, <2>2
      <4> QED  BY <3>1, <4>1 DEF y
    <3>2. CASE k # n + 1
      <4>1. k \in 1..n /\ g[k] = f[k] /\ g[k - 1] = f[k - 1]  BY <3>2, <2>2
      <4> QED  BY <4>1, <2>1 DEF Runs
    <3> QED  BY <3>1, <3>2
  <2> HIDE DEF g
  <2>7. Runs(g, X, n + 1, b, G)  BY <2>4, <2>5, <2>6 DEF Runs
  <2> QED  BY <2>2, <2>7
<1> HIDE DEF B
<1>3. N \in B  BY <1>1, <1>2, UpTo
<1> QED  BY <1>3 DEF B

(* FlattenSeq, piece by piece. *)
Flattens(f, s, S) ==
    /\ f \in [0..Len(s) -> Seq(S)]
    /\ f[0] = <<>>
    /\ \A n \in 1..Len(s) : f[n] = f[n - 1] \o s[n]
    /\ FlattenSeq(s) = f[Len(s)]

LEMMA FlattenIs ==
  ASSUME NEW S, NEW s \in Seq(Seq(S))
  PROVE  \E f : Flattens(f, s, S)
<1> DEFINE N == Len(s)
           G == [p \in Seq(S) \X (1..N) |-> p[1] \o s[p[2]]]
<1>1. N \in Nat /\ \A n \in 1..N : s[n] \in Seq(S)  OBVIOUS
<1>2. <<>> \in Seq(S) /\ \A a \in Seq(S) : <<>> \o a = a  OBVIOUS
<1>3. G \in [Seq(S) \X (1..N) -> Seq(S)]
  <2>1. ASSUME NEW p \in Seq(S) \X (1..N)  PROVE p[1] \o s[p[2]] \in Seq(S)
    <3>1. p[1] \in Seq(S) /\ s[p[2]] \in Seq(S)  BY <1>1
    <3> QED  BY <3>1
  <2> QED  BY <2>1
<1>4. \A a \in Seq(S), n \in 1..N : G[<<a, n>>] = a \o s[n]  OBVIOUS
<1> HIDE DEF G
<1>5. PICK f : Runs(f, Seq(S), N, <<>>, G)
  <2> HIDE DEF N
  <2> QED  BY <1>1, <1>2, <1>3, Recursion
<1>6. \A n \in 1..N : f[n - 1] \in Seq(S) /\ f[n] \in Seq(S) /\ f[n] = f[n - 1] \o s[n]
  <2> SUFFICES ASSUME NEW n \in 1..N  PROVE f[n - 1] \in Seq(S) /\ f[n] \in Seq(S) /\ f[n] = f[n - 1] \o s[n]
    OBVIOUS
  <2>1. n - 1 \in 0..N /\ n \in 0..N  BY <1>1
  <2>2. f[n - 1] \in Seq(S) /\ f[n] \in Seq(S) /\ f[n] = G[<<f[n - 1], n>>]  BY <2>1, <1>5 DEF Runs
  <2> QED  BY <2>2, <1>4
<1>7. FlattenSeq(s) = f[N]
  <2>1. CASE N = 0
    <3>1. s = <<>>  BY <2>1, EmptySeq
    <3>2. FlattenSeq(s) = s  BY <2>1 DEF FlattenSeq
    <3>3. f[0] = <<>>  BY <1>5 DEF Runs
    <3> QED  BY <2>1, <3>1, <3>2, <3>3
  <2>2. CASE N # 0
    <3> DEFINE Body(e) == [i \in 1..N |-> IF i = 1 THEN s[i] ELSE e[i - 1] \o s[i]]
               h == [i \in 1..N |-> f[i]]
               F == CHOOSE e : e = Body(e)
    <3>1. FlattenSeq(s) = F[N]  BY <2>2 DEF FlattenSeq
    <3>2. ASSUME NEW i \in 1..N  PROVE h[i] = IF i = 1 THEN s[i] ELSE h[i - 1] \o s[i]
      <4>1. CASE i = 1
        <5>0. f[0] = <<>>  BY <1>5 DEF Runs
        <5> HIDE DEF N
        <5>a. f[i] = f[i - 1] \o s[i]  BY <1>6
        <5>b. s[i] \in Seq(S) /\ i - 1 = 0  BY <4>1, <1>1
        <5>1. f[1] = f[0] \o s[1] /\ s[1] \in Seq(S)  BY <4>1, <5>a, <5>b
        <5> QED  BY <4>1, <5>0, <5>1, <1>2
      <4>2. CASE i # 1
        <5>1. i - 1 \in 1..N  BY <4>2, <1>1
        <5> QED  BY <4>2, <5>1, <1>6
      <4> QED  BY <4>1, <4>2
    <3>3. h = Body(h)
      <4>1. h = [i \in 1..N |-> h[i]]  OBVIOUS
      <4> HIDE DEF h
      <4> QED  BY <4>1, <3>2
    <3> HIDE DEF h
    <3>f. F = CHOOSE e : e = Body(e)  BY DEF F
    <3>4. F = Body(F)
      <4> HIDE DEF F, N
      <4> QED  BY <3>3, <3>f, Zenon
    <3> HIDE DEF F
    <3>5. \A i \in 1..N : F[i] = IF i = 1 THEN s[i] ELSE F[i - 1] \o s[i]  BY <3>4
    <3> DEFINE B == {n \in 0..N : n = 0 \/ F[n] = f[n]}
    <3>6. 0 \in B  BY <1>1
    <3>7. ASSUME NEW n \in 0..(N - 1), n \in B  PROVE n + 1 \in B
      <4>1. n + 1 \in 1..N /\ (n + 1) - 1 = n /\ n \in Nat  BY <1>1
      <4>2. f[n + 1] = f[n] \o s[n + 1]  BY <4>1, <1>6
      <4>3. CASE n = 0
        <5>1. f[0] = <<>> /\ s[1] \in Seq(S) /\ F[1] = s[1] /\ f[1] = f[0] \o s[1]
          BY <4>1, <4>2, <4>3, <1>1, <1>5, <3>5 DEF Runs
        <5>2. F[1] = f[1] /\ 1 \in 0..N  BY <5>1, <4>1, <4>3, <1>2
        <5> QED  BY <4>3, <5>2
      <4>4. CASE n # 0
        <5>0. n + 1 # 1  BY <4>1, <4>4
        <5>1. F[n + 1] = F[n] \o s[n + 1]
          <6> HIDE DEF N
          <6>1. F[n + 1] = F[(n + 1) - 1] \o s[n + 1]  BY <4>1, <5>0, <3>5
          <6> QED  BY <4>1, <6>1
        <5>2. F[n] = f[n]  BY <3>7, <4>4
        <5>3. F[n + 1] = f[n + 1] /\ n + 1 \in 0..N  BY <5>1, <5>2, <4>1, <4>2
        <5> QED  BY <5>3
      <4> QED  BY <4>3, <4>4
    <3> HIDE DEF B
    <3>8. N \in B
      <4> HIDE DEF N
      <4>1. \A n \in 0..(N - 1) : n \in B => n + 1 \in B  BY <3>7
      <4>2. N \in Nat /\ N \in 0..N  BY <1>1
      <4> QED  BY <3>6, <4>1, <4>2, UpTo
    <3> QED  BY <2>2, <3>1, <3>8 DEF B
  <2> QED  BY <2>1, <2>2
<1> QED  BY <1>5, <1>6, <1>7 DEF Flattens, Runs

LEMMA Joined ==
  ASSUME NEW S, NEW a \in Seq(S), NEW b \in Seq(S)
  PROVE  /\ a \o b \in Seq(S) /\ Len(a \o b) = Len(a) + Len(b)
         /\ \A i \in 1..Len(a) : (a \o b)[i] = a[i]
         /\ \A i \in 1..Len(b) : (a \o b)[Len(a) + i] = b[i]
         /\ Range(a \o b) = Range(a) \cup Range(b)
<1> DEFINE c == a \o b
<1>1. c \in Seq(S) /\ Len(c) = Len(a) + Len(b) /\ Len(a) \in Nat /\ Len(b) \in Nat  OBVIOUS
<1>2. \A i \in 1..Len(a) : c[i] = a[i]  OBVIOUS
<1>3. \A i \in 1..Len(b) : c[Len(a) + i] = b[i]  OBVIOUS
<1>d. DOMAIN a = 1..Len(a) /\ DOMAIN b = 1..Len(b) /\ DOMAIN c = 1..(Len(a) + Len(b))  OBVIOUS
<1> HIDE DEF c
<1>4. ASSUME NEW x \in Range(a)  PROVE x \in Range(c)
  <2>1. PICK i \in 1..Len(a) : x = a[i]  BY <1>d DEF Range
  <2>2. i \in DOMAIN c /\ c[i] = x  BY <1>1, <1>2, <1>d, <2>1
  <2> QED  BY <2>2 DEF Range
<1>5. ASSUME NEW x \in Range(b)  PROVE x \in Range(c)
  <2>1. PICK i \in 1..Len(b) : x = b[i]  BY <1>d DEF Range
  <2>2. Len(a) + i \in DOMAIN c /\ c[Len(a) + i] = x  BY <1>1, <1>3, <1>d, <2>1
  <2> QED  BY <2>2 DEF Range
<1>6. ASSUME NEW x \in Range(c)  PROVE x \in Range(a) \/ x \in Range(b)
  <2>1. PICK i \in 1..(Len(a) + Len(b)) : x = c[i]  BY <1>d DEF Range
  <2>2. CASE i <= Len(a)
    <3>1. i \in DOMAIN a /\ x = a[i]  BY <1>1, <1>2, <1>d, <2>1, <2>2
    <3> QED  BY <3>1 DEF Range
  <2>3. CASE i > Len(a)
    <3>1. i - Len(a) \in 1..Len(b) /\ Len(a) + (i - Len(a)) = i  BY <1>1, <2>1, <2>3
    <3>2. x = b[i - Len(a)]  BY <1>3, <2>1, <3>1
    <3> QED  BY <3>1, <3>2, <1>d DEF Range
  <2> QED  BY <1>1, <2>2, <2>3
<1>7. Range(c) = Range(a) \cup Range(b)  BY <1>4, <1>5, <1>6
<1> QED  BY <1>1, <1>2, <1>3, <1>7 DEF c

LEMMA FlattenIn ==
  ASSUME NEW S, NEW s \in Seq(Seq(S))
  PROVE  FlattenSeq(s) \in Seq(S)
<1>1. PICK f : Flattens(f, s, S)  BY FlattenIs
<1>2. Len(s) \in 0..Len(s)  OBVIOUS
<1> QED  BY <1>1, <1>2 DEF Flattens

(* h is s with something in T for each member, or with some members of s,  *)
(* those in T, each in a sequence of its own.                              *)
Maps(h, s, T) == h = [i \in DOMAIN s |-> h[i]] /\ \A i \in DOMAIN s : h[i] \in T

Picks(h, s, T) ==
    /\ h = [i \in DOMAIN s |-> h[i]]
    /\ \A i \in DOMAIN s : h[i] = <<>> \/ (h[i] = <<s[i]>> /\ s[i] \in T)

LEMMA EachIn ==
  ASSUME NEW S, NEW s \in Seq(S), NEW T, NEW h, Maps(h, s, T)
  PROVE  h \in Seq(T) /\ Len(h) = Len(s) /\ DOMAIN h = DOMAIN s
BY DEF Maps

LEMMA SomeIn ==
  ASSUME NEW S, NEW s \in Seq(S), NEW T, NEW h, Picks(h, s, T)
  PROVE  h \in Seq(Seq(T)) /\ FlattenSeq(h) \in Seq(T)
<1>1. Maps(h, s, Seq(T))
  <2>1. <<>> \in Seq(T) /\ \A x \in T : <<x>> \in Seq(T)  OBVIOUS
  <2> QED  BY <2>1 DEF Maps, Picks
<1>2. h \in Seq(Seq(T))  BY <1>1, EachIn
<1> QED  BY <1>2, FlattenIn

(* Every piece is in the whole. *)
LEMMA FlattenHas ==
  ASSUME NEW S, NEW s \in Seq(Seq(S)), NEW i \in DOMAIN s, NEW x \in Range(s[i])
  PROVE  x \in Range(FlattenSeq(s))
<1> DEFINE N == Len(s)
<1>1. PICK f : Flattens(f, s, S)  BY FlattenIs
<1>2. N \in Nat /\ i \in 1..N /\ i \in Nat /\ s[i] \in Seq(S)  OBVIOUS
<1>3. \A n \in 1..N : f[n - 1] \in Seq(S) /\ f[n] = f[n - 1] \o s[n] /\ s[n] \in Seq(S)
  <2> SUFFICES ASSUME NEW n \in 1..N  PROVE f[n - 1] \in Seq(S) /\ f[n] = f[n - 1] \o s[n] /\ s[n] \in Seq(S)
    OBVIOUS
  <2>1. n - 1 \in 0..N  BY <1>2
  <2>2. f \in [0..N -> Seq(S)] /\ f[n] = f[n - 1] \o s[n]  BY <1>1 DEF Flattens
  <2>3. s[n] \in Seq(S)  OBVIOUS
  <2> HIDE DEF N
  <2> QED  BY <2>1, <2>2, <2>3
<1> DEFINE B == {n \in 0..N : n < i \/ x \in Range(f[n])}
<1>4. 0 \in B  BY <1>2
<1>5. ASSUME NEW n \in 0..(N - 1), n \in B  PROVE n + 1 \in B
  <2>1. n + 1 \in 1..N /\ n + 1 \in 0..N /\ (n + 1) - 1 = n  BY <1>2
  <2>2. f[n] \in Seq(S) /\ s[n + 1] \in Seq(S) /\ f[n + 1] = f[n] \o s[n + 1]
    <3> HIDE DEF N
    <3> QED  BY <1>3, <2>1
  <2>3. CASE n + 1 < i  BY <2>1, <2>3
  <2>r. Range(f[n + 1]) = Range(f[n]) \cup Range(s[n + 1])  BY <2>2, Joined
  <2>4. CASE n + 1 = i  BY <2>1, <2>4, <2>r
  <2>5. CASE ~(n + 1 < i) /\ n + 1 # i
    <3>1. x \in Range(f[n])  BY <1>5, <1>2, <2>5
    <3> QED  BY <2>1, <2>r, <3>1
  <2> QED  BY <2>3, <2>4, <2>5
<1> HIDE DEF B
<1>6. N \in B
  <2> HIDE DEF N
  <2>1. \A n \in 0..(N - 1) : n \in B => n + 1 \in B  BY <1>5
  <2>2. N \in Nat /\ N \in 0..N  BY <1>2
  <2> QED  BY <1>4, <2>1, <2>2, UpTo
<1>7. x \in Range(f[N])  BY <1>6, <1>2 DEF B
<1> QED  BY <1>7, <1>1 DEF Flattens

(* States that follow from each other stay in X. *)
LEMMA Stays ==
  ASSUME NEW N \in Nat, NEW X, NEW f, f = [n \in 0..N |-> f[n]], f[0] \in X,
         \A n \in 1..N : f[n - 1] \in X => f[n] \in X
  PROVE  f \in [0..N -> X]
<1> DEFINE B == {n \in 0..N : f[n] \in X}
<1>1. 0 \in B  OBVIOUS
<1>2. \A n \in 0..(N - 1) : n \in B => n + 1 \in B
  <2> SUFFICES ASSUME NEW n \in 0..(N - 1), n \in B  PROVE n + 1 \in B
    OBVIOUS
  <2>1. n + 1 \in 1..N /\ n + 1 \in 0..N /\ (n + 1) - 1 = n  OBVIOUS
  <2> QED  BY <2>1
<1>3. \A n \in 0..N : n \in B
  <2> HIDE DEF B
  <2> QED  BY <1>1, <1>2, UpTo
<1>4. \A n \in 0..N : f[n] \in X  BY <1>3
<1> QED  BY <1>4

(* The loop of ConvertItems, over states X that its step keeps to. *)
ItemKeeps(X, A) == \A x \in X, m \in A : ConvertItem(x, m) \in X

ItemRun(f, X, b, seq) ==
    /\ f \in [0..Len(seq) -> X] /\ f[0] = b
    /\ \A n \in 1..Len(seq) : f[n] = ConvertItem(f[n - 1], seq[n])
    /\ Loop(ConvertItem, b, seq) = f[Len(seq)]

LEMMA ItemLoop ==
  ASSUME NEW A, NEW X, NEW seq \in Seq(A), NEW b \in X, ItemKeeps(X, A)
  PROVE  \E f : ItemRun(f, X, b, seq)
<1> DEFINE N == Len(seq)
           G == [p \in X \X (1..N) |-> ConvertItem(p[1], seq[p[2]])]
           Body(e) == [n \in 0..N |-> IF n = 0 THEN b ELSE ConvertItem(e[n - 1], seq[n])]
           F == CHOOSE e : e = Body(e)
<1>1. N \in Nat /\ \A n \in 1..N : seq[n] \in A  OBVIOUS
<1>2. G \in [X \X (1..N) -> X] /\ \A x \in X, n \in 1..N : G[<<x, n>>] = ConvertItem(x, seq[n])
  BY <1>1 DEF ItemKeeps
<1>3. Loop(ConvertItem, b, seq) = F[N]  BY DEF Loop
<1>4. F = CHOOSE e : e = Body(e)  OBVIOUS
<1> HIDE DEF G, N, F
<1>5. PICK h : Runs(h, X, N, b, G)  BY <1>1, <1>2, Recursion
<1>6. h = Body(h)
  <2>1. h = [n \in 0..N |-> h[n]]  BY <1>5 DEF Runs
  <2>2. ASSUME NEW n \in 0..N  PROVE h[n] = IF n = 0 THEN b ELSE ConvertItem(h[n - 1], seq[n])
    <3>1. CASE n = 0  BY <3>1, <1>5 DEF Runs
    <3>2. CASE n # 0
      <4>1. n \in 1..N /\ n - 1 \in 0..N  BY <1>1, <3>2
      <4>2. h[n] = G[<<h[n - 1], n>>] /\ h[n - 1] \in X  BY <1>5, <4>1 DEF Runs
      <4> QED  BY <1>2, <3>2, <4>1, <4>2
    <3> QED  BY <3>1, <3>2
  <2> QED  BY <2>1, <2>2
<1>7. F = Body(F)  BY <1>4, <1>6, Zenon
<1>8. /\ F = [n \in 0..N |-> F[n]] /\ F[0] = b
      /\ \A n \in 1..N : F[n] = ConvertItem(F[n - 1], seq[n])
  <2>1. \A n \in 0..N : F[n] = IF n = 0 THEN b ELSE ConvertItem(F[n - 1], seq[n])  BY <1>7
  <2>2. F = [n \in 0..N |-> F[n]]  BY <1>7
  <2> HIDE DEF Body
  <2> QED  BY <1>1, <2>1, <2>2
<1> HIDE DEF Body
<1>9. F \in [0..N -> X]
  <2>1. \A n \in 1..N : F[n - 1] \in X => F[n] \in X  BY <1>1, <1>8 DEF ItemKeeps
  <2> QED  BY <1>1, <1>8, <2>1, Stays
<1> QED  BY <1>3, <1>8, <1>9 DEF N, ItemRun

(* The loop of EnsureToolCallIds, over states X that its step keeps to. *)
EnsureKeeps(X, A) == \A x \in X, m \in A : EnsureMessage(x, m) \in X

EnsureRun(f, X, b, seq) ==
    /\ f \in [0..Len(seq) -> X] /\ f[0] = b
    /\ \A n \in 1..Len(seq) : f[n] = EnsureMessage(f[n - 1], seq[n])
    /\ Loop(EnsureMessage, b, seq) = f[Len(seq)]

LEMMA EnsureLoop ==
  ASSUME NEW A, NEW X, NEW seq \in Seq(A), NEW b \in X, EnsureKeeps(X, A)
  PROVE  \E f : EnsureRun(f, X, b, seq)
<1> DEFINE N == Len(seq)
           G == [p \in X \X (1..N) |-> EnsureMessage(p[1], seq[p[2]])]
           Body(e) == [n \in 0..N |-> IF n = 0 THEN b ELSE EnsureMessage(e[n - 1], seq[n])]
           F == CHOOSE e : e = Body(e)
<1>1. N \in Nat /\ \A n \in 1..N : seq[n] \in A  OBVIOUS
<1>2. G \in [X \X (1..N) -> X] /\ \A x \in X, n \in 1..N : G[<<x, n>>] = EnsureMessage(x, seq[n])
  BY <1>1 DEF EnsureKeeps
<1>3. Loop(EnsureMessage, b, seq) = F[N]  BY DEF Loop
<1>4. F = CHOOSE e : e = Body(e)  OBVIOUS
<1> HIDE DEF G, N, F
<1>5. PICK h : Runs(h, X, N, b, G)  BY <1>1, <1>2, Recursion
<1>6. h = Body(h)
  <2>1. h = [n \in 0..N |-> h[n]]  BY <1>5 DEF Runs
  <2>2. ASSUME NEW n \in 0..N  PROVE h[n] = IF n = 0 THEN b ELSE EnsureMessage(h[n - 1], seq[n])
    <3>1. CASE n = 0  BY <3>1, <1>5 DEF Runs
    <3>2. CASE n # 0
      <4>1. n \in 1..N /\ n - 1 \in 0..N  BY <1>1, <3>2
      <4>2. h[n] = G[<<h[n - 1], n>>] /\ h[n - 1] \in X  BY <1>5, <4>1 DEF Runs
      <4> QED  BY <1>2, <3>2, <4>1, <4>2
    <3> QED  BY <3>1, <3>2
  <2> QED  BY <2>1, <2>2
<1>7. F = Body(F)  BY <1>4, <1>6, Zenon
<1>8. /\ F = [n \in 0..N |-> F[n]] /\ F[0] = b
      /\ \A n \in 1..N : F[n] = EnsureMessage(F[n - 1], seq[n])
  <2>1. \A n \in 0..N : F[n] = IF n = 0 THEN b ELSE EnsureMessage(F[n - 1], seq[n])  BY <1>7
  <2>2. F = [n \in 0..N |-> F[n]]  BY <1>7
  <2> HIDE DEF Body
  <2> QED  BY <1>1, <2>1, <2>2
<1> HIDE DEF Body
<1>9. F \in [0..N -> X]
  <2>1. \A n \in 1..N : F[n - 1] \in X => F[n] \in X  BY <1>1, <1>8 DEF EnsureKeeps
  <2> QED  BY <1>1, <1>8, <2>1, Stays
<1> QED  BY <1>3, <1>8, <1>9 DEF N, EnsureRun

(* The loop of the calls of a message, over states X that its step keeps to. *)
NameKeeps(X, A) == \A x \in X, m \in A : NameCall(x, m) \in X

NameRun(f, X, b, seq) ==
    /\ f \in [0..Len(seq) -> X] /\ f[0] = b
    /\ \A n \in 1..Len(seq) : f[n] = NameCall(f[n - 1], seq[n])
    /\ Loop(NameCall, b, seq) = f[Len(seq)]

LEMMA NameLoop ==
  ASSUME NEW A, NEW X, NEW seq \in Seq(A), NEW b \in X, NameKeeps(X, A)
  PROVE  \E f : NameRun(f, X, b, seq)
<1> DEFINE N == Len(seq)
           G == [p \in X \X (1..N) |-> NameCall(p[1], seq[p[2]])]
           Body(e) == [n \in 0..N |-> IF n = 0 THEN b ELSE NameCall(e[n - 1], seq[n])]
           F == CHOOSE e : e = Body(e)
<1>1. N \in Nat /\ \A n \in 1..N : seq[n] \in A  OBVIOUS
<1>2. G \in [X \X (1..N) -> X] /\ \A x \in X, n \in 1..N : G[<<x, n>>] = NameCall(x, seq[n])
  BY <1>1 DEF NameKeeps
<1>3. Loop(NameCall, b, seq) = F[N]  BY DEF Loop
<1>4. F = CHOOSE e : e = Body(e)  OBVIOUS
<1> HIDE DEF G, N, F
<1>5. PICK h : Runs(h, X, N, b, G)  BY <1>1, <1>2, Recursion
<1>6. h = Body(h)
  <2>1. h = [n \in 0..N |-> h[n]]  BY <1>5 DEF Runs
  <2>2. ASSUME NEW n \in 0..N  PROVE h[n] = IF n = 0 THEN b ELSE NameCall(h[n - 1], seq[n])
    <3>1. CASE n = 0  BY <3>1, <1>5 DEF Runs
    <3>2. CASE n # 0
      <4>1. n \in 1..N /\ n - 1 \in 0..N  BY <1>1, <3>2
      <4>2. h[n] = G[<<h[n - 1], n>>] /\ h[n - 1] \in X  BY <1>5, <4>1 DEF Runs
      <4> QED  BY <1>2, <3>2, <4>1, <4>2
    <3> QED  BY <3>1, <3>2
  <2> QED  BY <2>1, <2>2
<1>7. F = Body(F)  BY <1>4, <1>6, Zenon
<1>8. /\ F = [n \in 0..N |-> F[n]] /\ F[0] = b
      /\ \A n \in 1..N : F[n] = NameCall(F[n - 1], seq[n])
  <2>1. \A n \in 0..N : F[n] = IF n = 0 THEN b ELSE NameCall(F[n - 1], seq[n])  BY <1>7
  <2>2. F = [n \in 0..N |-> F[n]]  BY <1>7
  <2> HIDE DEF Body
  <2> QED  BY <1>1, <2>1, <2>2
<1> HIDE DEF Body
<1>9. F \in [0..N -> X]
  <2>1. \A n \in 1..N : F[n - 1] \in X => F[n] \in X  BY <1>1, <1>8 DEF NameKeeps
  <2> QED  BY <1>1, <1>8, <2>1, Stays
<1> QED  BY <1>3, <1>8, <1>9 DEF N, NameRun

(* The loop of BuildClaudeMessages: after n steps its state is in X[n]. *)
PushSteps(X, seq) == \A n \in 1..Len(seq) : \A x \in X[n - 1] : PushMessage(x, seq[n]) \in X[n]

LEMMA PushLoop ==
  ASSUME NEW A, NEW seq \in Seq(A), NEW X, NEW b \in X[0], PushSteps(X, seq)
  PROVE  Loop(PushMessage, b, seq) \in X[Len(seq)]
<1> DEFINE N == Len(seq)
           U == UNION {X[n] : n \in 0..N}
           G == [p \in U \X (1..N) |-> IF p[1] \in X[p[2] - 1] THEN PushMessage(p[1], seq[p[2]]) ELSE b]
           Body(e) == [n \in 0..N |-> IF n = 0 THEN b ELSE PushMessage(e[n - 1], seq[n])]
           F == CHOOSE e : e = Body(e)
<1>1. N \in Nat /\ \A n \in 1..N : \A x \in X[n - 1] : PushMessage(x, seq[n]) \in X[n]  BY DEF PushSteps
<1>2. Loop(PushMessage, b, seq) = F[N]  BY DEF Loop
<1>3. F = CHOOSE e : e = Body(e)  OBVIOUS
<1> HIDE DEF N, F
<1>4. b \in U /\ \A n \in 0..N : \A x \in X[n] : x \in U  BY <1>1
<1> HIDE DEF U
<1>5. G \in [U \X (1..N) -> U]
  <2>1. ASSUME NEW p \in U \X (1..N)
        PROVE  (IF p[1] \in X[p[2] - 1] THEN PushMessage(p[1], seq[p[2]]) ELSE b) \in U
    <3>1. p[2] \in 1..N /\ p[2] \in 0..N  BY <1>1
    <3>2. p[1] \in X[p[2] - 1] => PushMessage(p[1], seq[p[2]]) \in X[p[2]]  BY <1>1, <3>1
    <3> QED  BY <1>4, <3>1, <3>2
  <2> QED  BY <2>1
<1>6. \A n \in 1..N : \A x \in X[n - 1] : x \in U /\ G[<<x, n>>] = PushMessage(x, seq[n])
  <2> TAKE n \in 1..N
  <2> TAKE x \in X[n - 1]
  <2>1. n - 1 \in 0..N  BY <1>1
  <2> QED  BY <1>4, <2>1
<1> HIDE DEF G
<1>7. PICK h : Runs(h, U, N, b, G)  BY <1>1, <1>4, <1>5, Recursion
<1> DEFINE B == {n \in 0..N : h[n] \in X[n]}
<1>8. 0 \in B  BY <1>1, <1>7 DEF Runs
<1>9. \A n \in 0..(N - 1) : n \in B => n + 1 \in B
  <2> SUFFICES ASSUME NEW n \in 0..(N - 1), n \in B  PROVE n + 1 \in B
    OBVIOUS
  <2>1. n \in 0..N /\ n + 1 \in 1..N /\ n + 1 \in 0..N /\ (n + 1) - 1 = n  BY <1>1
  <2>2. h[n + 1] = G[<<h[(n + 1) - 1], n + 1>>]  BY <1>7, <2>1 DEF Runs
  <2>3. h[n] \in X[(n + 1) - 1]  BY <2>1
  <2>4. h[n + 1] = PushMessage(h[n], seq[n + 1])  BY <1>6, <2>1, <2>2, <2>3
  <2> QED  BY <1>1, <2>1, <2>3, <2>4
<1>10. \A n \in 0..N : h[n] \in X[n]
  <2> HIDE DEF B
  <2>1. \A n \in 0..N : n \in B  BY <1>1, <1>8, <1>9, UpTo
  <2> QED  BY <2>1 DEF B
<1>11. h = Body(h)
  <2>1. h = [n \in 0..N |-> h[n]]  BY <1>7 DEF Runs
  <2>2. ASSUME NEW n \in 0..N  PROVE h[n] = IF n = 0 THEN b ELSE PushMessage(h[n - 1], seq[n])
    <3>1. CASE n = 0  BY <3>1, <1>7 DEF Runs
    <3>2. CASE n # 0
      <4>1. n \in 1..N /\ n - 1 \in 0..N  BY <1>1, <3>2
      <4>2. h[n] = G[<<h[n - 1], n>>] /\ h[n - 1] \in X[n - 1]  BY <1>7, <1>10, <4>1 DEF Runs
      <4> QED  BY <1>6, <3>2, <4>1, <4>2
    <3> QED  BY <3>1, <3>2
  <2> QED  BY <2>1, <2>2
<1>12. F = Body(F)  BY <1>3, <1>11, Zenon
<1> DEFINE C == {n \in 0..N : F[n] \in X[n]}
<1>13. \A n \in 0..N : F[n] = IF n = 0 THEN b ELSE PushMessage(F[n - 1], seq[n])  BY <1>12
<1> HIDE DEF Body
<1>14. 0 \in C  BY <1>1, <1>13
<1>15. \A n \in 0..(N - 1) : n \in C => n + 1 \in C
  <2> SUFFICES ASSUME NEW n \in 0..(N - 1), n \in C  PROVE n + 1 \in C
    OBVIOUS
  <2>1. n \in Nat /\ n + 1 \in 1..N /\ n + 1 \in 0..N /\ n + 1 # 0 /\ (n + 1) - 1 = n  BY <1>1
  <2>2. F[n + 1] = PushMessage(F[(n + 1) - 1], seq[n + 1])  BY <1>13, <2>1
  <2>3. F[n] \in X[(n + 1) - 1]  BY <2>1
  <2> QED  BY <1>1, <2>1, <2>2, <2>3
<1>16. N \in C
  <2> HIDE DEF C
  <2>1. N \in 0..N  BY <1>1
  <2> QED  BY <1>1, <1>14, <1>15, <2>1, UpTo
<1> QED  BY <1>2, <1>16 DEF C, N

(* The loop of MergeConsecutiveSameRole: after n steps its state is in X[n]. *)
MergeSteps(X, seq) == \A n \in 1..Len(seq) : \A x \in X[n - 1] : MergeSameRole(x, seq[n]) \in X[n]

LEMMA MergeLoop ==
  ASSUME NEW A, NEW seq \in Seq(A), NEW X, NEW b \in X[0], MergeSteps(X, seq)
  PROVE  Loop(MergeSameRole, b, seq) \in X[Len(seq)]
<1> DEFINE N == Len(seq)
           U == UNION {X[n] : n \in 0..N}
           G == [p \in U \X (1..N) |-> IF p[1] \in X[p[2] - 1] THEN MergeSameRole(p[1], seq[p[2]]) ELSE b]
           Body(e) == [n \in 0..N |-> IF n = 0 THEN b ELSE MergeSameRole(e[n - 1], seq[n])]
           F == CHOOSE e : e = Body(e)
<1>1. N \in Nat /\ \A n \in 1..N : \A x \in X[n - 1] : MergeSameRole(x, seq[n]) \in X[n]  BY DEF MergeSteps
<1>2. Loop(MergeSameRole, b, seq) = F[N]  BY DEF Loop
<1>3. F = CHOOSE e : e = Body(e)  OBVIOUS
<1> HIDE DEF N, F
<1>4. b \in U /\ \A n \in 0..N : \A x \in X[n] : x \in U  BY <1>1
<1> HIDE DEF U
<1>5. G \in [U \X (1..N) -> U]
  <2>1. ASSUME NEW p \in U \X (1..N)
        PROVE  (IF p[1] \in X[p[2] - 1] THEN MergeSameRole(p[1], seq[p[2]]) ELSE b) \in U
    <3>1. p[2] \in 1..N /\ p[2] \in 0..N  BY <1>1
    <3>2. p[1] \in X[p[2] - 1] => MergeSameRole(p[1], seq[p[2]]) \in X[p[2]]  BY <1>1, <3>1
    <3> QED  BY <1>4, <3>1, <3>2
  <2> QED  BY <2>1
<1>6. \A n \in 1..N : \A x \in X[n - 1] : x \in U /\ G[<<x, n>>] = MergeSameRole(x, seq[n])
  <2> TAKE n \in 1..N
  <2> TAKE x \in X[n - 1]
  <2>1. n - 1 \in 0..N  BY <1>1
  <2> QED  BY <1>4, <2>1
<1> HIDE DEF G
<1>7. PICK h : Runs(h, U, N, b, G)  BY <1>1, <1>4, <1>5, Recursion
<1> DEFINE B == {n \in 0..N : h[n] \in X[n]}
<1>8. 0 \in B  BY <1>1, <1>7 DEF Runs
<1>9. \A n \in 0..(N - 1) : n \in B => n + 1 \in B
  <2> SUFFICES ASSUME NEW n \in 0..(N - 1), n \in B  PROVE n + 1 \in B
    OBVIOUS
  <2>1. n \in 0..N /\ n + 1 \in 1..N /\ n + 1 \in 0..N /\ (n + 1) - 1 = n  BY <1>1
  <2>2. h[n + 1] = G[<<h[(n + 1) - 1], n + 1>>]  BY <1>7, <2>1 DEF Runs
  <2>3. h[n] \in X[(n + 1) - 1]  BY <2>1
  <2>4. h[n + 1] = MergeSameRole(h[n], seq[n + 1])  BY <1>6, <2>1, <2>2, <2>3
  <2> QED  BY <1>1, <2>1, <2>3, <2>4
<1>10. \A n \in 0..N : h[n] \in X[n]
  <2> HIDE DEF B
  <2>1. \A n \in 0..N : n \in B  BY <1>1, <1>8, <1>9, UpTo
  <2> QED  BY <2>1 DEF B
<1>11. h = Body(h)
  <2>1. h = [n \in 0..N |-> h[n]]  BY <1>7 DEF Runs
  <2>2. ASSUME NEW n \in 0..N  PROVE h[n] = IF n = 0 THEN b ELSE MergeSameRole(h[n - 1], seq[n])
    <3>1. CASE n = 0  BY <3>1, <1>7 DEF Runs
    <3>2. CASE n # 0
      <4>1. n \in 1..N /\ n - 1 \in 0..N  BY <1>1, <3>2
      <4>2. h[n] = G[<<h[n - 1], n>>] /\ h[n - 1] \in X[n - 1]  BY <1>7, <1>10, <4>1 DEF Runs
      <4> QED  BY <1>6, <3>2, <4>1, <4>2
    <3> QED  BY <3>1, <3>2
  <2> QED  BY <2>1, <2>2
<1>12. F = Body(F)  BY <1>3, <1>11, Zenon
<1> DEFINE C == {n \in 0..N : F[n] \in X[n]}
<1>13. \A n \in 0..N : F[n] = IF n = 0 THEN b ELSE MergeSameRole(F[n - 1], seq[n])  BY <1>12
<1> HIDE DEF Body
<1>14. 0 \in C  BY <1>1, <1>13
<1>15. \A n \in 0..(N - 1) : n \in C => n + 1 \in C
  <2> SUFFICES ASSUME NEW n \in 0..(N - 1), n \in C  PROVE n + 1 \in C
    OBVIOUS
  <2>1. n \in Nat /\ n + 1 \in 1..N /\ n + 1 \in 0..N /\ n + 1 # 0 /\ (n + 1) - 1 = n  BY <1>1
  <2>2. F[n + 1] = MergeSameRole(F[(n + 1) - 1], seq[n + 1])  BY <1>13, <2>1
  <2>3. F[n] \in X[(n + 1) - 1]  BY <2>1
  <2> QED  BY <1>1, <2>1, <2>2, <2>3
<1>16. N \in C
  <2> HIDE DEF C
  <2>1. N \in 0..N  BY <1>1
  <2> QED  BY <1>1, <1>14, <1>15, <2>1, UpTo
<1> QED  BY <1>2, <1>16 DEF C, N

(* The loop of ConcealFingerprintToolNames: after n steps its state is in X[n]. *)
ConcealSteps(X, seq) == \A n \in 1..Len(seq) : \A x \in X[n - 1] : ConcealTool(x, seq[n]) \in X[n]

LEMMA ConcealLoop ==
  ASSUME NEW A, NEW seq \in Seq(A), NEW X, NEW b \in X[0], ConcealSteps(X, seq)
  PROVE  Loop(ConcealTool, b, seq) \in X[Len(seq)]
<1> DEFINE N == Len(seq)
           U == UNION {X[n] : n \in 0..N}
           G == [p \in U \X (1..N) |-> IF p[1] \in X[p[2] - 1] THEN ConcealTool(p[1], seq[p[2]]) ELSE b]
           Body(e) == [n \in 0..N |-> IF n = 0 THEN b ELSE ConcealTool(e[n - 1], seq[n])]
           F == CHOOSE e : e = Body(e)
<1>1. N \in Nat /\ \A n \in 1..N : \A x \in X[n - 1] : ConcealTool(x, seq[n]) \in X[n]  BY DEF ConcealSteps
<1>2. Loop(ConcealTool, b, seq) = F[N]  BY DEF Loop
<1>3. F = CHOOSE e : e = Body(e)  OBVIOUS
<1> HIDE DEF N, F
<1>4. b \in U /\ \A n \in 0..N : \A x \in X[n] : x \in U  BY <1>1
<1> HIDE DEF U
<1>5. G \in [U \X (1..N) -> U]
  <2>1. ASSUME NEW p \in U \X (1..N)
        PROVE  (IF p[1] \in X[p[2] - 1] THEN ConcealTool(p[1], seq[p[2]]) ELSE b) \in U
    <3>1. p[2] \in 1..N /\ p[2] \in 0..N  BY <1>1
    <3>2. p[1] \in X[p[2] - 1] => ConcealTool(p[1], seq[p[2]]) \in X[p[2]]  BY <1>1, <3>1
    <3> QED  BY <1>4, <3>1, <3>2
  <2> QED  BY <2>1
<1>6. \A n \in 1..N : \A x \in X[n - 1] : x \in U /\ G[<<x, n>>] = ConcealTool(x, seq[n])
  <2> TAKE n \in 1..N
  <2> TAKE x \in X[n - 1]
  <2>1. n - 1 \in 0..N  BY <1>1
  <2> QED  BY <1>4, <2>1
<1> HIDE DEF G
<1>7. PICK h : Runs(h, U, N, b, G)  BY <1>1, <1>4, <1>5, Recursion
<1> DEFINE B == {n \in 0..N : h[n] \in X[n]}
<1>8. 0 \in B  BY <1>1, <1>7 DEF Runs
<1>9. \A n \in 0..(N - 1) : n \in B => n + 1 \in B
  <2> SUFFICES ASSUME NEW n \in 0..(N - 1), n \in B  PROVE n + 1 \in B
    OBVIOUS
  <2>1. n \in 0..N /\ n + 1 \in 1..N /\ n + 1 \in 0..N /\ (n + 1) - 1 = n  BY <1>1
  <2>2. h[n + 1] = G[<<h[(n + 1) - 1], n + 1>>]  BY <1>7, <2>1 DEF Runs
  <2>3. h[n] \in X[(n + 1) - 1]  BY <2>1
  <2>4. h[n + 1] = ConcealTool(h[n], seq[n + 1])  BY <1>6, <2>1, <2>2, <2>3
  <2> QED  BY <1>1, <2>1, <2>3, <2>4
<1>10. \A n \in 0..N : h[n] \in X[n]
  <2> HIDE DEF B
  <2>1. \A n \in 0..N : n \in B  BY <1>1, <1>8, <1>9, UpTo
  <2> QED  BY <2>1 DEF B
<1>11. h = Body(h)
  <2>1. h = [n \in 0..N |-> h[n]]  BY <1>7 DEF Runs
  <2>2. ASSUME NEW n \in 0..N  PROVE h[n] = IF n = 0 THEN b ELSE ConcealTool(h[n - 1], seq[n])
    <3>1. CASE n = 0  BY <3>1, <1>7 DEF Runs
    <3>2. CASE n # 0
      <4>1. n \in 1..N /\ n - 1 \in 0..N  BY <1>1, <3>2
      <4>2. h[n] = G[<<h[n - 1], n>>] /\ h[n - 1] \in X[n - 1]  BY <1>7, <1>10, <4>1 DEF Runs
      <4> QED  BY <1>6, <3>2, <4>1, <4>2
    <3> QED  BY <3>1, <3>2
  <2> QED  BY <2>1, <2>2
<1>12. F = Body(F)  BY <1>3, <1>11, Zenon
<1> DEFINE C == {n \in 0..N : F[n] \in X[n]}
<1>13. \A n \in 0..N : F[n] = IF n = 0 THEN b ELSE ConcealTool(F[n - 1], seq[n])  BY <1>12
<1> HIDE DEF Body
<1>14. 0 \in C  BY <1>1, <1>13
<1>15. \A n \in 0..(N - 1) : n \in C => n + 1 \in C
  <2> SUFFICES ASSUME NEW n \in 0..(N - 1), n \in C  PROVE n + 1 \in C
    OBVIOUS
  <2>1. n \in Nat /\ n + 1 \in 1..N /\ n + 1 \in 0..N /\ n + 1 # 0 /\ (n + 1) - 1 = n  BY <1>1
  <2>2. F[n + 1] = ConcealTool(F[(n + 1) - 1], seq[n + 1])  BY <1>13, <2>1
  <2>3. F[n] \in X[(n + 1) - 1]  BY <2>1
  <2> QED  BY <1>1, <2>1, <2>2, <2>3
<1>16. N \in C
  <2> HIDE DEF C
  <2>1. N \in 0..N  BY <1>1
  <2> QED  BY <1>1, <1>14, <1>15, <2>1, UpTo
<1> QED  BY <1>2, <1>16 DEF C, N

-----------------------------------------------------------------------------
(* Ids, parts, calls and messages, by the types that may occur in them.    *)

(* The names in ids and calls, and the JSON objects of arguments. *)
Words ==
    {"", "a", "b", "call", "call_msg", "call_gemini", ".", ":", "_", "1", "2",
     "x", "y", "bad", "fixed", "{}", "read", "grep", "shell",
     "read_client", "read_client2", "read_client3", "shell_client", "shell_client2", "shell_client3",
     "reasoning", "reasoning_content"}

IDs == [base : Words, dirt : Words, n : Seq(Int)]

PartsOf(T) == [type : T, text : Seq(Int), id : IDs, name : Words, args : Seq(Words)]

Calls == [id : IDs, name : Words, args : Seq(Words)]

Msgs(R, T, C) ==
    [role : R, content : Seq(PartsOf(T)), calls : C, id : IDs, reasoning : Seq(Int), as : Words]

LEMMA IDTypes ==
  /\ NoID \in IDs
  /\ \A id \in IDs : ScrubToolID(id) \in IDs /\ StripID(id) \in IDs /\ ClampCallID(id) \in IDs
  /\ \A id \in IDs, n \in Int : Numbered(id, n) \in IDs
<1>0. <<>> \in Seq(Int)  OBVIOUS
<1>1. NoID \in IDs  BY <1>0 DEF NoID, ToolID, IDs, Words
<1>2. ASSUME NEW id \in IDs  PROVE ScrubToolID(id) \in IDs /\ StripID(id) \in IDs /\ ClampCallID(id) \in IDs
  <2>1. \A d \in {"", "_"} : d \in Words  BY DEF Words
  <2>2. \A d \in {"", "_"} : [id EXCEPT !.dirt = d] \in IDs  BY <2>1 DEF IDs
  <2> QED  BY <2>2 DEF ScrubToolID, StripID, ClampCallID
<1>3. ASSUME NEW id \in IDs, NEW n \in Int  PROVE Numbered(id, n) \in IDs
  <2>1. Append(id.n, n) \in Seq(Int)  BY DEF IDs
  <2> QED  BY <2>1 DEF IDs, Numbered
<1> QED  BY <1>1, <1>2, <1>3

LEMMA PartTypes ==
  ASSUME NEW T, NEW t \in T, NEW x \in Seq(Int)
  PROVE  Part(t, x) \in PartsOf(T)
<1>1. <<>> \in Seq(Words)  OBVIOUS
<1> QED  BY <1>1, IDTypes DEF Part, PartsOf, Words

LEMMA PartFields ==
  ASSUME NEW T, NEW p \in PartsOf(T)
  PROVE  /\ p.type \in T /\ p.text \in Seq(Int) /\ p.id \in IDs
         /\ p.name \in Words /\ p.args \in Seq(Words)
         /\ \A U : p.type \in U => p \in PartsOf(U)
BY DEF PartsOf

LEMMA TextTypes ==
  ASSUME NEW T, "text" \in T, NEW x \in Seq(Int)
  PROVE  Text(x) \in PartsOf(T) /\ <<Text(x)>> \in Seq(PartsOf(T)) /\ OneText(x) \in Seq(PartsOf(T))
<1>1. Text(x) \in PartsOf(T)  BY PartTypes DEF Text
<1>2. <<Text(x)>> \in Seq(PartsOf(T)) /\ <<>> \in Seq(PartsOf(T))  BY <1>1
<1> QED  BY <1>1, <1>2 DEF OneText

LEMMA ResultTypes ==
  ASSUME NEW T, "tool_result" \in T, NEW id \in IDs, NEW x \in Seq(Int)
  PROVE  ToolResult(id, x) \in PartsOf(T) /\ ToolResult(id, x).type = "tool_result"
<1>1. Part("tool_result", x) \in PartsOf({"tool_result"})  BY PartTypes
<1> HIDE DEF Part
<1>2. ToolResult(id, x) \in PartsOf({"tool_result"})  BY <1>1 DEF ToolResult, PartsOf
<1> QED  BY <1>2 DEF PartsOf

LEMMA UseTypes ==
  ASSUME NEW T, "tool_use" \in T, NEW id \in IDs, NEW name \in Words, NEW args \in Seq(Words)
  PROVE  ToolUse(id, name, args) \in PartsOf(T) /\ ToolUse(id, name, args).type = "tool_use"
<1>0. <<>> \in Seq(Int)  OBVIOUS
<1>1. Part("tool_use", <<>>) \in PartsOf({"tool_use"})  BY <1>0, PartTypes
<1>2. ToolUse(id, name, args) \in PartsOf({"tool_use"})  BY <1>1 DEF ToolUse, PartsOf
<1> QED  BY <1>2 DEF PartsOf

LEMMA MessageTypes ==
  ASSUME NEW R, NEW T, NEW C, NEW role \in R, NEW content \in Seq(PartsOf(T)), <<>> \in C
  PROVE  Message(role, content) \in Msgs(R, T, C)
<1>1. <<>> \in Seq(Int)  OBVIOUS
<1> QED  BY <1>1, IDTypes DEF Message, Msgs, Words

LEMMA ToolMessageTypes ==
  ASSUME NEW R, NEW T, NEW C, "tool" \in R, "text" \in T, <<>> \in C, NEW id \in IDs, NEW x \in Seq(Int)
  PROVE  ToolMessage(id, x) \in Msgs(R, T, C)
<1>1. Message("tool", <<Text(x)>>) \in Msgs(R, T, C)  BY TextTypes, MessageTypes
<1> QED  BY <1>1 DEF ToolMessage, Msgs

(* The members that have a type. *)
LEMMA OfTypeTypes ==
  ASSUME NEW T, NEW c \in Seq(PartsOf(T)), NEW U
  PROVE  /\ OfType(c, U) \in Seq(PartsOf(T \cap U))
         /\ JoinedText(c, U) \in Seq(Int)
<1>1. OfType(c, U) \in Seq(PartsOf(T \cap U))
  <2> DEFINE h == [i \in DOMAIN c |-> IF c[i].type \in U THEN <<c[i]>> ELSE <<>>]
  <2>1. \A i \in DOMAIN c : c[i].type \in U => c[i] \in PartsOf(T \cap U)
    <3>1. \A i \in DOMAIN c : c[i] \in PartsOf(T)  OBVIOUS
    <3> QED  BY <3>1, PartFields
  <2>2. Picks(h, c, PartsOf(T \cap U))  BY <2>1 DEF Picks
  <2>3. OfType(c, U) = FlattenSeq(h)  BY DEF OfType, Keep
  <2> HIDE DEF h
  <2> QED  BY <2>2, <2>3, SomeIn
<1>2. JoinedText(c, U) \in Seq(Int)
  <2> DEFINE o == OfType(c, U)
             h == [i \in DOMAIN o |-> o[i].text]
  <2>1. JoinedText(c, U) = FlattenSeq(h)  BY DEF JoinedText
  <2> HIDE DEF o
  <2>2. o \in Seq(PartsOf(T \cap U))  BY <1>1 DEF o
  <2>3. \A i \in DOMAIN o : o[i] \in PartsOf(T \cap U)  BY <2>2
  <2>4. Maps(h, o, Seq(Int))  BY <2>3, PartFields DEF Maps
  <2> HIDE DEF h
  <2>5. h \in Seq(Seq(Int))  BY <2>2, <2>4, EachIn
  <2> QED  BY <2>1, <2>5, FlattenIn
<1> QED  BY <1>1, <1>2

-----------------------------------------------------------------------------
(* The messages of each format, and those a client composes.               *)

OpenAITypes == {"text", "image_url", "bare"}

OpenAIForm(T) ==
    Msgs({"system", "user", "tool"}, T, {<<>>}) \cup Msgs({"assistant"}, T, Seq(Calls))

ClaudeSpoken ==
    Msgs({"user"}, {"text", "image", "tool_result"}, {<<>>})
    \cup Msgs({"assistant"}, {"text", "thinking", "tool_use"}, {<<>>})

ClaudeForm == ClaudeSpoken \cup Msgs({"system"}, {"text"}, {<<>>})

OneCall == {s \in Seq(Calls) : Len(s) = 1}

Items ==
    Msgs({"user", "assistant"}, {"text", "input_image"}, {<<>>})
    \cup Msgs({"reasoning", "function_call_output"}, {"text"}, {<<>>})
    \cup Msgs({"function_call"}, {"text"}, OneCall)

ResponsesForm == Items \cup Msgs({"system"}, {"text"}, {<<>>})

GeminiForm ==
    Msgs({"user", "model", "system"}, {"text", "image", "tool_result", "tool_use"}, {<<>>})

FormOf(format) ==
    CASE format = "openai" -> OpenAIForm({"text", "image_url"})
      [] format = "claude" -> ClaudeForm
      [] format = "responses" -> ResponsesForm
      [] OTHER -> GeminiForm

-----------------------------------------------------------------------------
(* What the client said. *)
Results == [id : IDs, name : Words, text : Seq(Int)]

UserSaid ==
    [role : {"user"}, texts : Seq(Seq(Int)), image : Seq(Int), thinking : {<<>>}, calls : {<<>>},
     results : Seq(Results)]

AssistantSaid ==
    [role : {"assistant"}, texts : Seq(Seq(Int)), image : {<<>>}, thinking : Seq(Int),
     calls : Seq(Calls), results : {<<>>}]

SystemSaid ==
    [role : {"system"}, texts : Seq(Seq(Int)), image : {<<>>}, thinking : {<<>>}, calls : {<<>>},
     results : {<<>>}]

Saids == UserSaid \cup AssistantSaid \cup SystemSaid

LEMMA EmptyIn == \A S : <<>> \in Seq(S)
OBVIOUS

LEMMA OneIn == \A S : \A x \in S : <<x>> \in Seq(S)
OBVIOUS

LEMMA MemberIn == \A S : \A s \in Seq(S) : \A k \in 1..Len(s) : s[k] \in S
OBVIOUS

LEMMA SaidTypes ==
  ASSUME NEW texts \in Seq(Seq(Int))
  PROVE  /\ Said("user", texts) \in UserSaid
         /\ Said("assistant", texts) \in AssistantSaid
         /\ Said("system", texts) \in SystemSaid
<1>1. <<>> \in Seq(Int) /\ <<>> \in Seq(Results) /\ <<>> \in Seq(Calls)  BY EmptyIn
<1>2. Said("user", texts) \in UserSaid  BY <1>1 DEF Said, UserSaid
<1>3. Said("assistant", texts) \in AssistantSaid  BY <1>1 DEF Said, AssistantSaid
<1>4. Said("system", texts) \in SystemSaid  BY <1>1 DEF Said, SystemSaid
<1> QED  BY <1>2, <1>3, <1>4

LEMMA SaidWith ==
  /\ \A m \in UserSaid : \A x \in Seq(Int) : [m EXCEPT !.image = x] \in UserSaid
  /\ \A m \in UserSaid : \A x \in Seq(Results) : [m EXCEPT !.results = x] \in UserSaid
  /\ \A m \in UserSaid : \A x \in Seq(Seq(Int)) : [m EXCEPT !.texts = x] \in UserSaid
  /\ \A m \in AssistantSaid : \A x \in Seq(Int) : [m EXCEPT !.thinking = x] \in AssistantSaid
  /\ \A m \in AssistantSaid : \A x \in Seq(Calls) : [m EXCEPT !.calls = x] \in AssistantSaid
  /\ \A m \in AssistantSaid : \A x \in Seq(Seq(Int)) : [m EXCEPT !.texts = x] \in AssistantSaid
<1>1. ASSUME NEW m \in UserSaid, NEW x \in Seq(Int)  PROVE [m EXCEPT !.image = x] \in UserSaid
  BY DEF UserSaid
<1>2. ASSUME NEW m \in UserSaid, NEW x \in Seq(Results)  PROVE [m EXCEPT !.results = x] \in UserSaid
  BY DEF UserSaid
<1>3. ASSUME NEW m \in UserSaid, NEW x \in Seq(Seq(Int))  PROVE [m EXCEPT !.texts = x] \in UserSaid
  BY DEF UserSaid
<1>4. ASSUME NEW m \in AssistantSaid, NEW x \in Seq(Int)  PROVE [m EXCEPT !.thinking = x] \in AssistantSaid
  BY DEF AssistantSaid
<1>5. ASSUME NEW m \in AssistantSaid, NEW x \in Seq(Calls)  PROVE [m EXCEPT !.calls = x] \in AssistantSaid
  BY DEF AssistantSaid
<1>6. ASSUME NEW m \in AssistantSaid, NEW x \in Seq(Seq(Int))  PROVE [m EXCEPT !.texts = x] \in AssistantSaid
  BY DEF AssistantSaid
<1> QED  BY <1>1, <1>2, <1>3, <1>4, <1>5, <1>6

LEMMA TurnTypes ==
  ASSUME NEW kind, NEW k \in Nat
  PROVE  TurnMessages(kind, k) \in Seq(Saids)
<1> DEFINE user == <<10 * k + 1>>
           assistant == <<10 * k + 2>>
           a == ID("a", "", k)
           b == ID("b", ".", k)
           callA == Call(a, "read", <<"x">>)
           callB == Call(b, "grep", <<"y">>)
           same == ToolID("call", "")
           sameA == Call(same, "read", <<"x">>)
           sameB == Call(same, "grep", <<"y">>)
           taken == Numbered(same, 1)
           takenC == Call(taken, "grep", <<"x">>)
           glued == Call(a, "read", <<"x", "y">>)
           resultA == Result(a, "read", <<10 * k + 3>>)
           resultB == Result(b, "grep", <<10 * k + 4>>)
           resultC == Result(same, "read", <<10 * k + 3>>)
           resultD == Result(same, "grep", <<10 * k + 4>>)
           resultE == Result(taken, "grep", <<10 * k + 8>>)
<1>1. user \in Seq(Int) /\ assistant \in Seq(Int) /\ <<10 * k + 3>> \in Seq(Int) /\ <<10 * k + 4>> \in Seq(Int)
      /\ <<10 * k + 5>> \in Seq(Int) /\ <<10 * k + 6>> \in Seq(Int) /\ <<10 * k + 7>> \in Seq(Int) /\ <<k>> \in Seq(Int)
      /\ <<10 * k + 8>> \in Seq(Int)
  OBVIOUS
<1>2. a \in IDs /\ b \in IDs /\ same \in IDs /\ taken \in IDs
  <2>1. "" \in Words /\ "." \in Words /\ "a" \in Words /\ "b" \in Words /\ "call" \in Words  BY DEF Words
  <2>2. a \in IDs /\ b \in IDs  BY <1>1, <2>1 DEF ID, IDs
  <2>3. same \in IDs  BY <2>1, EmptyIn DEF ToolID, IDs
  <2>4. taken \in IDs
    <3> HIDE DEF same
    <3> QED  BY <2>3, IDTypes
  <2> QED  BY <2>2, <2>3, <2>4
<1> DEFINE xs == <<"x">>
           ys == <<"y">>
           xys == <<"x", "y">>
<1>w. /\ "read" \in Words /\ "grep" \in Words /\ xs \in Seq(Words) /\ ys \in Seq(Words) /\ xys \in Seq(Words)
  <2>1. "read" \in Words /\ "grep" \in Words /\ "x" \in Words /\ "y" \in Words  BY DEF Words
  <2> QED  BY <2>1
<1> HIDE DEF user, assistant, a, b, same, taken, xs, ys, xys
<1>3. ASSUME NEW id \in IDs, NEW name \in Words, NEW args \in Seq(Words), NEW text \in Seq(Int)
      PROVE  Call(id, name, args) \in Calls /\ Result(id, name, text) \in Results
  BY DEF Call, Calls, Result, Results
<1>4. /\ callA \in Calls /\ callB \in Calls /\ sameA \in Calls /\ sameB \in Calls /\ glued \in Calls
      /\ takenC \in Calls /\ resultE \in Results
      /\ resultA \in Results /\ resultB \in Results /\ resultC \in Results /\ resultD \in Results
  BY <1>1, <1>2, <1>w, <1>3 DEF xs, ys, xys
<1> HIDE DEF callA, callB, sameA, sameB, takenC, glued, resultA, resultB, resultC, resultD, resultE
<1> DEFINE none == <<>>
<1>5. /\ <<callA>> \in Seq(Calls) /\ <<callA, callB>> \in Seq(Calls) /\ <<sameA, sameB>> \in Seq(Calls) /\ <<glued>> \in Seq(Calls)
      /\ <<resultA>> \in Seq(Results) /\ <<resultB>> \in Seq(Results) /\ <<resultB, resultA>> \in Seq(Results)
      /\ <<resultC, resultD>> \in Seq(Results)
      /\ <<sameA, sameB, takenC>> \in Seq(Calls) /\ <<resultC, resultD, resultE>> \in Seq(Results)
      /\ <<sameA>> \in Seq(Calls)
  BY <1>4
<1>6. /\ <<user>> \in Seq(Seq(Int)) /\ <<assistant>> \in Seq(Seq(Int)) /\ none \in Seq(Seq(Int))
      /\ <<none>> \in Seq(Seq(Int)) /\ <<<<10 * k + 5>>>> \in Seq(Seq(Int))
  BY <1>1, EmptyIn
<1> DEFINE calls(cs) == [Said("assistant", <<>>) EXCEPT !.calls = cs]
           results(rs) == [Said("user", <<>>) EXCEPT !.results = rs]
<1>7. /\ \A cs \in Seq(Calls) : calls(cs) \in AssistantSaid
      /\ \A rs \in Seq(Results) : results(rs) \in UserSaid
  BY <1>6, SaidTypes, SaidWith
<1> DEFINE show == [Said("user", <<user>>) EXCEPT !.image = <<10 * k + 6>>]
           say == [Said("assistant", <<assistant>>) EXCEPT !.thinking = <<10 * k + 7>>]
           use == [calls(<<callA>>) EXCEPT !.texts = <<assistant>>]
           used == [results(<<resultA>>) EXCEPT !.texts = <<user>>]
<1>8. show \in UserSaid /\ say \in AssistantSaid /\ use \in AssistantSaid /\ used \in UserSaid
  <2>1. show \in UserSaid  BY <1>1, <1>6, SaidTypes, SaidWith
  <2>2. say \in AssistantSaid  BY <1>1, <1>6, SaidTypes, SaidWith
  <2> HIDE DEF calls, results
  <2>3. use \in AssistantSaid  BY <1>5, <1>6, <1>7, SaidWith
  <2>4. used \in UserSaid  BY <1>5, <1>6, <1>7, SaidWith
  <2> QED  BY <2>1, <2>2, <2>3, <2>4
<1>9. ASSUME NEW u \in Saids, NEW v \in Saids  PROVE <<u>> \in Seq(Saids) /\ <<u, v>> \in Seq(Saids)
  OBVIOUS
<1>10. TurnMessages(kind, k) =
         CASE kind = "ask" -> <<Said("user", <<user>>)>>
           [] kind = "show" -> <<show>>
           [] kind = "say" -> <<say>>
           [] kind = "blank" -> <<Said("assistant", <<none>>), Said("user", <<user>>)>>
           [] kind = "use" -> <<use, used>>
           [] kind = "two" -> <<calls(<<callA, callB>>), results(<<resultB, resultA>>)>>
           [] kind = "same" -> <<calls(<<sameA, sameB>>), results(<<resultC, resultD>>)>>
           [] kind = "taken" -> <<calls(<<sameA, sameB, takenC>>), results(<<resultC, resultD, resultE>>)>>
           [] kind = "held" -> <<calls(<<sameA>>)>>
           [] kind = "lost" -> <<calls(<<callA, callB>>), results(<<resultB>>)>>
           [] kind = "gone" -> <<calls(<<callA>>)>>
           [] kind = "glued" -> <<calls(<<glued>>), results(<<resultA>>)>>
           [] kind = "cut" -> <<results(<<resultA>>)>>
           [] OTHER -> <<Said("system", <<<<10 * k + 5>>>>)>>
  BY Zenon DEF TurnMessages, user, assistant, a, b, callA, callB, same, sameA, sameB, taken, takenC,
               glued, xs, ys, xys, resultA, resultB, resultC, resultD, resultE
<1> HIDE DEF show, say, use, used, calls, results, none
<1>11. /\ Said("user", <<user>>) \in Saids /\ show \in Saids /\ say \in Saids /\ Said("assistant", <<none>>) \in Saids
       /\ use \in Saids /\ used \in Saids /\ Said("system", <<<<10 * k + 5>>>>) \in Saids
       /\ calls(<<callA, callB>>) \in Saids /\ results(<<resultB, resultA>>) \in Saids
       /\ calls(<<sameA, sameB>>) \in Saids /\ results(<<resultC, resultD>>) \in Saids
       /\ calls(<<sameA, sameB, takenC>>) \in Saids /\ results(<<resultC, resultD, resultE>>) \in Saids
       /\ calls(<<sameA>>) \in Saids
       /\ results(<<resultB>>) \in Saids /\ calls(<<callA>>) \in Saids /\ calls(<<glued>>) \in Saids
       /\ results(<<resultA>>) \in Saids
  BY <1>5, <1>6, <1>7, <1>8, SaidTypes DEF Saids
<1> QED  BY <1>9, <1>10, <1>11

LEMMA TextsTypes ==
  ASSUME NEW T, "text" \in T, NEW ts \in Seq(Seq(Int))
  PROVE  MapEach(Text, ts) \in Seq(PartsOf(T))
<1> DEFINE h == MapEach(Text, ts)
<1>1. \A i \in DOMAIN ts : ts[i] \in Seq(Int)  OBVIOUS
<1>2. \A i \in DOMAIN ts : Text(ts[i]) \in PartsOf(T)  BY <1>1, TextTypes
<1>3. Maps(h, ts, PartsOf(T))  BY <1>2 DEF Maps, MapEach
<1> HIDE DEF h
<1> QED  BY <1>3, EachIn DEF h

LEMMA MessageWith ==
  ASSUME NEW R, NEW T, NEW C, NEW m \in Msgs(R, T, C)
  PROVE  /\ \A x \in C : [m EXCEPT !.calls = x] \in Msgs(R, T, C)
         /\ \A x \in IDs : [m EXCEPT !.id = x] \in Msgs(R, T, C)
         /\ \A x \in Seq(Int) : [m EXCEPT !.reasoning = x] \in Msgs(R, T, C)
         /\ \A x \in Words : [m EXCEPT !.as = x] \in Msgs(R, T, C)
         /\ \A x \in Seq(PartsOf(T)) : [m EXCEPT !.content = x] \in Msgs(R, T, C)
BY DEF Msgs

LEMMA MessageFields ==
  ASSUME NEW R, NEW T, NEW C, NEW m \in Msgs(R, T, C)
  PROVE  /\ m.role \in R /\ m.content \in Seq(PartsOf(T)) /\ m.calls \in C /\ m.id \in IDs
         /\ m.reasoning \in Seq(Int) /\ m.as \in Words
BY DEF Msgs

LEMMA SaidFields ==
  ASSUME NEW m \in Saids
  PROVE  /\ m.texts \in Seq(Seq(Int)) /\ m.image \in Seq(Int) /\ m.thinking \in Seq(Int)
         /\ m.calls \in Seq(Calls) /\ m.results \in Seq(Results)
         /\ m.role \in {"user", "assistant", "system"}
         /\ m.role # "user" => m.image = <<>> /\ m.results = <<>>
         /\ m.role # "assistant" => m.thinking = <<>> /\ m.calls = <<>>
<1>1. <<>> \in Seq(Int) /\ <<>> \in Seq(Calls) /\ <<>> \in Seq(Results)  BY EmptyIn
<1> QED  BY <1>1 DEF Saids, UserSaid, AssistantSaid, SystemSaid

LEMMA EncodeOpenAI ==
  ASSUME NEW m \in Saids
  PROVE  Encode("openai", m) \in Seq(OpenAIForm({"text", "image_url"}))
<1> DEFINE T == {"text", "image_url"}
           texts == MapEach(Text, m.texts)
           image == IF m.image = <<>> THEN <<>> ELSE <<Part("image_url", m.image)>>
           said == IF m.texts = <<>> /\ m.image = <<>> THEN <<>> ELSE <<Message(m.role, texts \o image)>>
           results == MapEach(LAMBDA r : ToolMessage(r.id, r.text), m.results)
           as == IF m.thinking = <<>> THEN "" ELSE "reasoning"
           spoken == [Message(m.role, texts) EXCEPT !.calls = m.calls, !.reasoning = m.thinking, !.as = as]
<1>1. Encode("openai", m) = results \o (IF m.role = "assistant" THEN <<spoken>> ELSE said)
  BY DEF Encode
<1>2. texts \in Seq(PartsOf(T))  BY SaidFields, TextsTypes
<1>3. image \in Seq(PartsOf(T))
  <2>1. Part("image_url", m.image) \in PartsOf(T)  BY SaidFields, PartTypes
  <2> QED  BY <2>1, EmptyIn, OneIn
<1> HIDE DEF texts, image
<1>4. texts \o image \in Seq(PartsOf(T))  BY <1>2, <1>3
<1>5. m.role # "assistant" => said \in Seq(OpenAIForm(T))
  <2>1. m.role # "assistant" => Message(m.role, texts \o image) \in Msgs({"system", "user", "tool"}, T, {<<>>})
    BY <1>4, SaidFields, MessageTypes
  <2>2. <<>> \in Seq(OpenAIForm(T))  BY EmptyIn
  <2>3. m.role # "assistant" => <<Message(m.role, texts \o image)>> \in Seq(OpenAIForm(T))
    BY <2>1, OneIn DEF OpenAIForm
  <2> QED  BY <2>2, <2>3
<1>6. m.role = "assistant" => <<spoken>> \in Seq(OpenAIForm(T))
  <2> SUFFICES ASSUME m.role = "assistant"  PROVE <<spoken>> \in Seq(OpenAIForm(T))
    OBVIOUS
  <2>1. Message(m.role, texts) \in Msgs({"assistant"}, T, Seq(Calls))  BY <1>2, EmptyIn, MessageTypes
  <2>2. as \in Words  BY DEF Words
  <2> HIDE DEF as
  <2>3. m.calls \in Seq(Calls) /\ m.thinking \in Seq(Int)  BY SaidFields
  <2>4. spoken \in Msgs({"assistant"}, T, Seq(Calls))  BY <2>1, <2>2, <2>3 DEF Msgs
  <2> QED  BY <2>4, OneIn DEF OpenAIForm
<1>7. results \in Seq(OpenAIForm(T))
  <2>1. \A r \in Results : ToolMessage(r.id, r.text) \in OpenAIForm(T)
    <3> SUFFICES ASSUME NEW r \in Results  PROVE ToolMessage(r.id, r.text) \in OpenAIForm(T)
      OBVIOUS
    <3>1. r.id \in IDs /\ r.text \in Seq(Int)  BY DEF Results
    <3>2. ToolMessage(r.id, r.text) \in Msgs({"system", "user", "tool"}, T, {<<>>})  BY <3>1, ToolMessageTypes
    <3> QED  BY <3>2 DEF OpenAIForm
  <2>2. \A i \in DOMAIN m.results : m.results[i] \in Results  BY SaidFields
  <2>3. Maps(results, m.results, OpenAIForm(T))  BY <2>1, <2>2 DEF Maps, MapEach
  <2> HIDE DEF results
  <2> QED  BY <2>3, SaidFields, EachIn
<1> DEFINE rest == IF m.role = "assistant" THEN <<spoken>> ELSE said
<1>8. rest \in Seq(OpenAIForm(T))  BY <1>5, <1>6
<1> HIDE DEF rest, results, T
<1>9. results \o rest \in Seq(OpenAIForm(T))  BY <1>7, <1>8
<1> QED  BY <1>1, <1>9 DEF rest, T

(* A part for each result and each call. *)
LEMMA EncodeBlocks ==
  ASSUME NEW m \in Saids, NEW T
  PROVE  /\ "tool_result" \in T =>
              /\ MapEach(LAMBDA r : [ToolResult(r.id, r.text) EXCEPT !.name = r.name], m.results) \in Seq(PartsOf(T))
              /\ MapEach(LAMBDA r : [[ToolResult(r.id, r.text) EXCEPT !.name = r.name] EXCEPT !.id = NoID], m.results)
                 \in Seq(PartsOf(T))
         /\ "tool_use" \in T =>
              /\ MapEach(LAMBDA c : ToolUse(c.id, c.name, c.args), m.calls) \in Seq(PartsOf(T))
              /\ MapEach(LAMBDA c : [ToolUse(c.id, c.name, c.args) EXCEPT !.id = NoID], m.calls) \in Seq(PartsOf(T))
<1>1. ASSUME "tool_result" \in T
      PROVE  /\ MapEach(LAMBDA r : [ToolResult(r.id, r.text) EXCEPT !.name = r.name], m.results) \in Seq(PartsOf(T))
             /\ MapEach(LAMBDA r : [[ToolResult(r.id, r.text) EXCEPT !.name = r.name] EXCEPT !.id = NoID], m.results)
                \in Seq(PartsOf(T))
  <2> DEFINE g == MapEach(LAMBDA r : [ToolResult(r.id, r.text) EXCEPT !.name = r.name], m.results)
             h == MapEach(LAMBDA r : [[ToolResult(r.id, r.text) EXCEPT !.name = r.name] EXCEPT !.id = NoID], m.results)
  <2>1. ASSUME NEW r \in Results
        PROVE  /\ [ToolResult(r.id, r.text) EXCEPT !.name = r.name] \in PartsOf(T)
               /\ [[ToolResult(r.id, r.text) EXCEPT !.name = r.name] EXCEPT !.id = NoID] \in PartsOf(T)
    <3> DEFINE p == ToolResult(r.id, r.text)
    <3>1. r.id \in IDs /\ r.text \in Seq(Int) /\ r.name \in Words  BY DEF Results
    <3>2. p \in PartsOf(T)  BY <1>1, <3>1, ResultTypes
    <3> DEFINE q == [p EXCEPT !.name = r.name]
    <3> HIDE DEF p
    <3>3. q \in PartsOf(T)  BY <3>1, <3>2 DEF PartsOf
    <3> HIDE DEF q
    <3>4. [q EXCEPT !.id = NoID] \in PartsOf(T)  BY <3>3, IDTypes DEF PartsOf
    <3> QED  BY <3>3, <3>4 DEF p, q
  <2>2. m.results \in Seq(Results)  BY SaidFields
  <2>3. \A i \in DOMAIN m.results : m.results[i] \in Results  BY <2>2
  <2>4. Maps(g, m.results, PartsOf(T))  BY <2>1, <2>3 DEF Maps, MapEach
  <2>5. Maps(h, m.results, PartsOf(T))  BY <2>1, <2>3 DEF Maps, MapEach
  <2> HIDE DEF g, h
  <2>6. g \in Seq(PartsOf(T)) /\ h \in Seq(PartsOf(T))  BY <2>2, <2>4, <2>5, EachIn
  <2> QED  BY <2>6 DEF g, h
<1>2. ASSUME "tool_use" \in T
      PROVE  /\ MapEach(LAMBDA c : ToolUse(c.id, c.name, c.args), m.calls) \in Seq(PartsOf(T))
             /\ MapEach(LAMBDA c : [ToolUse(c.id, c.name, c.args) EXCEPT !.id = NoID], m.calls) \in Seq(PartsOf(T))
  <2> DEFINE g == MapEach(LAMBDA c : ToolUse(c.id, c.name, c.args), m.calls)
             h == MapEach(LAMBDA c : [ToolUse(c.id, c.name, c.args) EXCEPT !.id = NoID], m.calls)
  <2>1. ASSUME NEW c \in Calls
        PROVE  /\ ToolUse(c.id, c.name, c.args) \in PartsOf(T)
               /\ [ToolUse(c.id, c.name, c.args) EXCEPT !.id = NoID] \in PartsOf(T)
    <3> DEFINE p == ToolUse(c.id, c.name, c.args)
    <3>1. c.id \in IDs /\ c.args \in Seq(Words) /\ c.name \in Words  BY DEF Calls
    <3>2. p \in PartsOf(T)  BY <1>2, <3>1, UseTypes
    <3> HIDE DEF p
    <3>3. [p EXCEPT !.id = NoID] \in PartsOf(T)  BY <3>1, <3>2, IDTypes DEF PartsOf
    <3> QED  BY <3>2, <3>3 DEF p
  <2>2. m.calls \in Seq(Calls)  BY SaidFields
  <2>3. \A i \in DOMAIN m.calls : m.calls[i] \in Calls  BY <2>2
  <2>4. Maps(g, m.calls, PartsOf(T))  BY <2>1, <2>3 DEF Maps, MapEach
  <2>5. Maps(h, m.calls, PartsOf(T))  BY <2>1, <2>3 DEF Maps, MapEach
  <2> HIDE DEF g, h
  <2>6. g \in Seq(PartsOf(T)) /\ h \in Seq(PartsOf(T))  BY <2>2, <2>4, <2>5, EachIn
  <2> QED  BY <2>6 DEF g, h
<1> QED  BY <1>1, <1>2

LEMMA EncodeClaude ==
  ASSUME NEW m \in Saids
  PROVE  Encode("claude", m) \in Seq(ClaudeForm)
<1> DEFINE results == MapEach(LAMBDA r : [ToolResult(r.id, r.text) EXCEPT !.name = r.name], m.results)
           texts == MapEach(Text, m.texts)
           thinking == IF m.thinking = <<>> THEN <<>> ELSE <<Part("thinking", m.thinking)>>
           image == IF m.image = <<>> THEN <<>> ELSE <<Part("image", m.image)>>
           uses == MapEach(LAMBDA c : ToolUse(c.id, c.name, c.args), m.calls)
           content == results \o thinking \o texts \o image \o uses
<1>1. Encode("claude", m) = <<Message(m.role, content)>>  BY DEF Encode
<1>2. ASSUME NEW T, "text" \in T
      PROVE  /\ texts \in Seq(PartsOf(T))
             /\ "image" \in T \/ m.image = <<>> => image \in Seq(PartsOf(T))
             /\ "thinking" \in T \/ m.thinking = <<>> => thinking \in Seq(PartsOf(T))
             /\ "tool_result" \in T \/ m.results = <<>> => results \in Seq(PartsOf(T))
             /\ "tool_use" \in T \/ m.calls = <<>> => uses \in Seq(PartsOf(T))
  <2>1. texts \in Seq(PartsOf(T))  BY <1>2, SaidFields, TextsTypes
  <2>2. "image" \in T => Part("image", m.image) \in PartsOf(T)  BY SaidFields, PartTypes
  <2>3. "thinking" \in T => Part("thinking", m.thinking) \in PartsOf(T)  BY SaidFields, PartTypes
  <2>4. \A g : m.results = <<>> /\ g = [i \in DOMAIN m.results |-> g[i]] => g \in Seq(PartsOf(T))
    <3> SUFFICES ASSUME m.results = <<>>, NEW g, g = [i \in DOMAIN m.results |-> g[i]]  PROVE g \in Seq(PartsOf(T))
      OBVIOUS
    <3>1. m.results \in Seq(PartsOf(T)) /\ DOMAIN m.results = {}  BY EmptyIn
    <3>2. Maps(g, m.results, PartsOf(T))  BY <3>1 DEF Maps
    <3> QED  BY <3>1, <3>2, EachIn
  <2>5. \A g : m.calls = <<>> /\ g = [i \in DOMAIN m.calls |-> g[i]] => g \in Seq(PartsOf(T))
    <3> SUFFICES ASSUME m.calls = <<>>, NEW g, g = [i \in DOMAIN m.calls |-> g[i]]  PROVE g \in Seq(PartsOf(T))
      OBVIOUS
    <3>1. m.calls \in Seq(PartsOf(T)) /\ DOMAIN m.calls = {}  BY EmptyIn
    <3>2. Maps(g, m.calls, PartsOf(T))  BY <3>1 DEF Maps
    <3> QED  BY <3>1, <3>2, EachIn
  <2>6. results = [i \in DOMAIN m.results |-> results[i]] /\ uses = [i \in DOMAIN m.calls |-> uses[i]]
    BY DEF MapEach
  <2>7. "image" \in T \/ m.image = <<>> => image \in Seq(PartsOf(T))  BY <2>2, EmptyIn, OneIn
  <2>8. "thinking" \in T \/ m.thinking = <<>> => thinking \in Seq(PartsOf(T))  BY <2>3, EmptyIn, OneIn
  <2>9. "tool_result" \in T => results \in Seq(PartsOf(T))  BY EncodeBlocks
  <2>10. "tool_use" \in T => uses \in Seq(PartsOf(T))  BY EncodeBlocks
  <2> HIDE DEF results, uses, texts, image, thinking
  <2> QED  BY <2>1, <2>4, <2>5, <2>6, <2>7, <2>8, <2>9, <2>10
<1>3. ASSUME NEW T, texts \in Seq(PartsOf(T)), image \in Seq(PartsOf(T)), thinking \in Seq(PartsOf(T)),
             results \in Seq(PartsOf(T)), uses \in Seq(PartsOf(T))
      PROVE  content \in Seq(PartsOf(T))
  <2> HIDE DEF results, uses, texts, image, thinking
  <2> QED  BY <1>3
<1> HIDE DEF content, results, uses, texts, image, thinking
<1>4. CASE m.role = "user"
  <2> DEFINE T == {"text", "image", "tool_result"}
  <2>1. content \in Seq(PartsOf(T))  BY <1>2, <1>3, <1>4, SaidFields
  <2>2. Message(m.role, content) \in Msgs({"user"}, T, {<<>>})  BY <1>4, <2>1, MessageTypes
  <2> QED  BY <1>1, <2>2, OneIn DEF ClaudeForm, ClaudeSpoken
<1>5. CASE m.role = "assistant"
  <2> DEFINE T == {"text", "thinking", "tool_use"}
  <2>1. content \in Seq(PartsOf(T))  BY <1>2, <1>3, <1>5, SaidFields
  <2>2. Message(m.role, content) \in Msgs({"assistant"}, T, {<<>>})  BY <1>5, <2>1, MessageTypes
  <2> QED  BY <1>1, <2>2, OneIn DEF ClaudeForm, ClaudeSpoken
<1>6. CASE m.role = "system"
  <2>1. content \in Seq(PartsOf({"text"}))  BY <1>2, <1>3, <1>6, SaidFields
  <2>2. Message(m.role, content) \in Msgs({"system"}, {"text"}, {<<>>})  BY <1>6, <2>1, MessageTypes
  <2> QED  BY <1>1, <2>2, OneIn DEF ClaudeForm
<1> QED  BY <1>4, <1>5, <1>6, SaidFields

LEMMA EncodeGemini ==
  ASSUME NEW m \in Saids
  PROVE  Encode("gemini", m) \in Seq(GeminiForm)
<1> DEFINE T == {"text", "image", "tool_result", "tool_use"}
           results == MapEach(LAMBDA r : [[ToolResult(r.id, r.text) EXCEPT !.name = r.name] EXCEPT !.id = NoID], m.results)
           texts == MapEach(Text, m.texts)
           image == IF m.image = <<>> THEN <<>> ELSE <<Part("image", m.image)>>
           uses == MapEach(LAMBDA c : [ToolUse(c.id, c.name, c.args) EXCEPT !.id = NoID], m.calls)
           content == results \o texts \o image \o uses
           role == IF m.role = "assistant" THEN "model" ELSE m.role
<1>1. Encode("gemini", m) = <<Message(role, content)>>  BY DEF Encode
<1>2. texts \in Seq(PartsOf(T))  BY SaidFields, TextsTypes
<1>3. image \in Seq(PartsOf(T))
  <2>1. Part("image", m.image) \in PartsOf(T)  BY SaidFields, PartTypes
  <2> QED  BY <2>1, EmptyIn, OneIn
<1>4. results \in Seq(PartsOf(T)) /\ uses \in Seq(PartsOf(T))  BY EncodeBlocks
<1> HIDE DEF results, uses, texts, image
<1>5. content \in Seq(PartsOf(T))  BY <1>2, <1>3, <1>4
<1> HIDE DEF content
<1>6. role \in {"user", "model", "system"}  BY SaidFields
<1>7. Message(role, content) \in GeminiForm  BY <1>5, <1>6, MessageTypes DEF GeminiForm
<1> QED  BY <1>1, <1>7, OneIn

LEMMA EncodeResponses ==
  ASSUME NEW m \in Saids
  PROVE  Encode("responses", m) \in Seq(ResponsesForm)
<1> DEFINE T == {"text", "input_image"}
           texts == MapEach(Text, m.texts)
           image == IF m.image = <<>> THEN <<>> ELSE <<Part("input_image", m.image)>>
           said == IF m.texts = <<>> /\ m.image = <<>> THEN <<>> ELSE <<Message(m.role, texts \o image)>>
           outputs == MapEach(LAMBDA r : [Message("function_call_output", <<Text(r.text)>>) EXCEPT !.id = r.id], m.results)
           thought == IF m.thinking = <<>> THEN <<>>
                      ELSE <<[Message("reasoning", <<>>) EXCEPT !.reasoning = m.thinking]>>
           calls == MapEach(LAMBDA c : [Message("function_call", <<>>) EXCEPT !.calls = <<c>>], m.calls)
<1>1. Encode("responses", m) = outputs \o thought \o said \o calls  BY DEF Encode
<1>2. ASSUME NEW U, "text" \in U, "input_image" \in U \/ m.image = <<>>
      PROVE  texts \o image \in Seq(PartsOf(U))
  <2>1. texts \in Seq(PartsOf(U))  BY <1>2, SaidFields, TextsTypes
  <2>2. "input_image" \in U => Part("input_image", m.image) \in PartsOf(U)  BY SaidFields, PartTypes
  <2>3. image \in Seq(PartsOf(U))  BY <1>2, <2>2, EmptyIn, OneIn
  <2> HIDE DEF texts, image
  <2> QED  BY <2>1, <2>3
<1>3. said \in Seq(ResponsesForm)
  <2> HIDE DEF texts, image
  <2>1. CASE m.role = "system"
    <3>1. texts \o image \in Seq(PartsOf({"text"}))  BY <1>2, <2>1, SaidFields
    <3>2. Message(m.role, texts \o image) \in Msgs({"system"}, {"text"}, {<<>>})  BY <2>1, <3>1, MessageTypes
    <3> QED  BY <3>2, EmptyIn, OneIn DEF ResponsesForm
  <2>2. CASE m.role # "system"
    <3>1. texts \o image \in Seq(PartsOf(T)) /\ m.role \in {"user", "assistant"}  BY <1>2, <2>2, SaidFields
    <3>2. Message(m.role, texts \o image) \in Msgs({"user", "assistant"}, T, {<<>>})  BY <3>1, MessageTypes
    <3> QED  BY <3>2, EmptyIn, OneIn DEF ResponsesForm, Items
  <2> QED  BY <2>1, <2>2
<1>4. outputs \in Seq(ResponsesForm)
  <2>1. ASSUME NEW r \in Results
        PROVE  [Message("function_call_output", <<Text(r.text)>>) EXCEPT !.id = r.id] \in ResponsesForm
    <3> DEFINE x == Message("function_call_output", <<Text(r.text)>>)
    <3>1. r.id \in IDs /\ r.text \in Seq(Int)  BY DEF Results
    <3>2. x \in Msgs({"reasoning", "function_call_output"}, {"text"}, {<<>>})  BY <3>1, TextTypes, MessageTypes
    <3> HIDE DEF x
    <3>3. [x EXCEPT !.id = r.id] \in Msgs({"reasoning", "function_call_output"}, {"text"}, {<<>>})
      BY <3>1, <3>2, MessageWith
    <3> QED  BY <3>3 DEF x, ResponsesForm, Items
  <2>2. m.results \in Seq(Results)  BY SaidFields
  <2>3. \A i \in DOMAIN m.results : m.results[i] \in Results  BY <2>2
  <2>4. Maps(outputs, m.results, ResponsesForm)  BY <2>1, <2>3 DEF Maps, MapEach
  <2> HIDE DEF outputs
  <2> QED  BY <2>2, <2>4, EachIn
<1>5. thought \in Seq(ResponsesForm)
  <2> DEFINE x == Message("reasoning", <<>>)
  <2>1. x \in Msgs({"reasoning", "function_call_output"}, {"text"}, {<<>>})  BY EmptyIn, MessageTypes
  <2> HIDE DEF x
  <2>2. [x EXCEPT !.reasoning = m.thinking] \in Msgs({"reasoning", "function_call_output"}, {"text"}, {<<>>})
    BY <2>1, SaidFields, MessageWith
  <2> QED  BY <2>2, EmptyIn, OneIn DEF x, ResponsesForm, Items
<1>6. calls \in Seq(ResponsesForm)
  <2>1. ASSUME NEW c \in Calls
        PROVE  [Message("function_call", <<>>) EXCEPT !.calls = <<c>>] \in ResponsesForm
    <3> DEFINE x == Message("function_call", <<>>)
    <3>1. x \in Msgs({"function_call"}, {"text"}, {<<>>})  BY EmptyIn, MessageTypes
    <3> HIDE DEF x
    <3>2. <<c>> \in OneCall  BY DEF OneCall
    <3>3. [x EXCEPT !.calls = <<c>>] \in Msgs({"function_call"}, {"text"}, OneCall)  BY <3>1, <3>2 DEF Msgs
    <3> QED  BY <3>3 DEF x, ResponsesForm, Items
  <2>2. m.calls \in Seq(Calls)  BY SaidFields
  <2>3. \A i \in DOMAIN m.calls : m.calls[i] \in Calls  BY <2>2
  <2>4. Maps(calls, m.calls, ResponsesForm)  BY <2>1, <2>3 DEF Maps, MapEach
  <2> HIDE DEF calls
  <2> QED  BY <2>2, <2>4, EachIn
<1> HIDE DEF said, outputs, thought, calls
<1>7. outputs \o thought \in Seq(ResponsesForm)  BY <1>4, <1>5
<1>8. outputs \o thought \o said \in Seq(ResponsesForm)  BY <1>3, <1>7
<1>9. outputs \o thought \o said \o calls \in Seq(ResponsesForm)  BY <1>6, <1>8
<1> QED  BY <1>1, <1>9

LEMMA EncodeTypes ==
  ASSUME NEW format \in Formats, NEW m \in Saids
  PROVE  Encode(format, m) \in Seq(FormOf(format))
BY EncodeOpenAI, EncodeClaude, EncodeResponses, EncodeGemini DEF FormOf, Formats

(* The messages of a client's request. *)
LEMMA OriginalMessages ==
  ASSUME client \in Formats, turns \in Seq(Turns), setting.system \in Seq(Int)
  PROVE  Original.messages \in Seq(FormOf(client))
<1> DEFINE said == FlattenSeq([k \in DOMAIN turns |-> TurnMessages(turns[k], k)])
           system == IF client = "openai" /\ setting.system # <<>>
                     THEN <<Message("system", <<Text(setting.system)>>)>> ELSE <<>>
           encoded == FlatMap(LAMBDA m : Encode(client, m), said)
<1>1. Original.messages = system \o encoded  BY DEF Original, EmptyBody
<1>2. said \in Seq(Saids)
  <2> DEFINE h == [k \in DOMAIN turns |-> TurnMessages(turns[k], k)]
  <2>1. \A k \in DOMAIN turns : k \in Nat  OBVIOUS
  <2>2. Maps(h, turns, Seq(Saids))  BY <2>1, TurnTypes DEF Maps
  <2> HIDE DEF h
  <2>3. h \in Seq(Seq(Saids))  BY <2>2, EachIn
  <2> QED  BY <2>3, FlattenIn DEF h
<1>3. encoded \in Seq(FormOf(client))
  <2> HIDE DEF said
  <2> DEFINE h == [i \in DOMAIN said |-> Encode(client, said[i])]
  <2>1. encoded = FlattenSeq(h)  BY DEF FlatMap, MapEach
  <2>2. \A i \in DOMAIN said : said[i] \in Saids  BY <1>2
  <2>3. Maps(h, said, Seq(FormOf(client)))  BY <2>2, EncodeTypes DEF Maps
  <2> HIDE DEF h, encoded
  <2>4. h \in Seq(Seq(FormOf(client)))  BY <1>2, <2>3, EachIn
  <2> QED  BY <2>1, <2>4, FlattenIn
<1>4. system \in Seq(FormOf(client))
  <2>1. Message("system", <<Text(setting.system)>>) \in Msgs({"system", "user", "tool"}, {"text", "image_url"}, {<<>>})
    BY TextTypes, MessageTypes
  <2>2. client = "openai" => Message("system", <<Text(setting.system)>>) \in FormOf(client)
    BY <2>1 DEF FormOf, OpenAIForm
  <2> QED  BY <2>2, EmptyIn, OneIn
<1> HIDE DEF system, encoded
<1> QED  BY <1>1, <1>3, <1>4

-----------------------------------------------------------------------------
(* To OpenAI: from Claude, from Responses and from Gemini.                 *)

Plain == {"text", "image_url"}

LEMMA ArgsTypes ==
  ASSUME NEW args \in Seq(Words)
  PROVE  RepairToolArgs(args) \in Seq(Words) /\ SanitizeArgs(args) \in Seq(Words)
         /\ SplitToolArgs(args) \in Seq(Words)
<1>1. "{}" \in Words /\ "fixed" \in Words  BY DEF Words
<1>2. \A o \in Words : RepairObject(o) \in Words  BY <1>1 DEF RepairObject
<1>3. args # <<>> => args[1] \in Words  OBVIOUS
<1>4. Len(args) # 1 /\ args # <<>> => args[2] \in Words
  <2>1. Len(args) \in Nat /\ (args # <<>> => Len(args) # 0)  BY EmptySeq
  <2>2. Len(args) # 1 /\ args # <<>> => 2 \in DOMAIN args  BY <2>1
  <2> QED  BY <2>2
<1>e. <<"{}">> \in Seq(Words)  BY <1>1, OneIn
<1>f. \A o \in Words : <<o>> \in Seq(Words) /\ <<RepairObject(o)>> \in Seq(Words)  BY <1>2, OneIn
<1>5. RepairToolArgs(args) \in Seq(Words)  BY <1>e, <1>f, <1>3 DEF RepairToolArgs
<1>6. SanitizeArgs(args) \in Seq(Words)  BY <1>e, <1>f, <1>3 DEF SanitizeArgs
<1>7. SplitToolArgs(args) \in Seq(Words)
  <2>1. CASE args = <<>>
    <3>0. Len(args) # 1  BY <2>1
    <3>1. SplitToolArgs(args) = <<"{}">>  BY <2>1, <3>0, Zenon DEF SplitToolArgs
    <3> QED  BY <1>e, <3>1
  <2>2. CASE args # <<>>
    <3>1. RepairObject(args[1]) \in Words /\ (Len(args) # 1 => RepairObject(args[2]) \in Words)
      BY <1>2, <1>3, <1>4, <2>2
    <3>2. <<RepairObject(args[1])>> \in Seq(Words)  BY <3>1
    <3>3. Len(args) # 1 => <<RepairObject(args[1]), RepairObject(args[2])>> \in Seq(Words)  BY <3>1
    <3> QED  BY <2>2, <3>2, <3>3 DEF SplitToolArgs
  <2> QED  BY <2>1, <2>2
<1> QED  BY <1>5, <1>6, <1>7

LEMMA ConvertBlocksTypes ==
  ASSUME NEW U, NEW c \in Seq(PartsOf(U))
  PROVE  ConvertClaudeContentBlocks(c) \in Seq(PartsOf(Plain))
<1> DEFINE h == [i \in DOMAIN c |-> IF c[i].type = "text" \/ (c[i].type = "image" /\ c[i].text # <<>>)
                                    THEN <<c[i]>> ELSE <<>>]
           k == FlattenSeq(h)
           r == [i \in DOMAIN k |-> IF k[i].type = "image" THEN Part("image_url", k[i].text) ELSE k[i]]
<1>1. ConvertClaudeContentBlocks(c) = r  BY DEF ConvertClaudeContentBlocks, Keep, MapEach
<1>2. k \in Seq(PartsOf({"text", "image"}))
  <2>1. \A i \in DOMAIN c : c[i] \in PartsOf(U)  OBVIOUS
  <2>2. Picks(h, c, PartsOf({"text", "image"}))  BY <2>1, PartFields DEF Picks
  <2> HIDE DEF h
  <2> QED  BY <2>2, SomeIn
<1> HIDE DEF k
<1>3. \A p \in PartsOf({"text", "image"}) :
        (IF p.type = "image" THEN Part("image_url", p.text) ELSE p) \in PartsOf(Plain)
  <2> SUFFICES ASSUME NEW p \in PartsOf({"text", "image"})
               PROVE  (IF p.type = "image" THEN Part("image_url", p.text) ELSE p) \in PartsOf(Plain)
    OBVIOUS
  <2>1. p.type \in {"text", "image"} /\ p.text \in Seq(Int)  BY PartFields
  <2>2. Part("image_url", p.text) \in PartsOf(Plain)  BY <2>1, PartTypes DEF Plain
  <2>3. p.type = "text" => p \in PartsOf(Plain)  BY PartFields DEF Plain
  <2> QED  BY <2>1, <2>2, <2>3
<1>4. \A i \in DOMAIN k : k[i] \in PartsOf({"text", "image"})  BY <1>2
<1>5. Maps(r, k, PartsOf(Plain))  BY <1>3, <1>4 DEF Maps
<1> HIDE DEF r
<1> QED  BY <1>1, <1>2, <1>5, EachIn

LEMMA ClaudeUserTypes ==
  ASSUME NEW m \in Msgs({"user"}, {"text", "image", "tool_result"}, {<<>>})
  PROVE  ConvertClaudeUserMessage(m) \in Seq(OpenAIForm(Plain))
<1> DEFINE results == OfType(m.content, {"tool_result"})
           text == JoinedText(m.content, {"text"})
           tools == MapEach(LAMBDA p : ToolMessage(ScrubToolID(p.id), p.text), results)
           rest == IF text = <<>> THEN <<>> ELSE <<Message("user", <<Text(text)>>)>>
           c == ConvertClaudeContentBlocks(m.content)
           plain == [m EXCEPT !.content = c]
           M == Msgs({"system", "user", "tool"}, Plain, {<<>>})
<1>0. "text" \in Plain  BY DEF Plain
<1>1. ConvertClaudeUserMessage(m) = IF results = <<>> THEN <<plain>> ELSE tools \o rest
  BY DEF ConvertClaudeUserMessage
<1>2. /\ m.role = "user" /\ m.content \in Seq(PartsOf({"text", "image", "tool_result"}))
      /\ results \in Seq(PartsOf({"text", "image", "tool_result"} \cap {"tool_result"}))
      /\ text \in Seq(Int)
  <2>1. m.role = "user" /\ m.content \in Seq(PartsOf({"text", "image", "tool_result"}))  BY MessageFields
  <2> QED  BY <2>1, OfTypeTypes
<1>3. plain \in M
  <2>1. c \in Seq(PartsOf(Plain))  BY <1>2, ConvertBlocksTypes
  <2> HIDE DEF c
  <2> QED  BY <2>1 DEF Msgs
<1> HIDE DEF results, text, plain
<1>4. rest \in Seq(M)
  <2>1. Message("user", <<Text(text)>>) \in M  BY <1>0, <1>2, TextTypes, MessageTypes
  <2> HIDE DEF M
  <2> QED  BY <2>1, EmptyIn, OneIn
<1>5. tools \in Seq(M)
  <2>1. \A i \in DOMAIN results : results[i] \in PartsOf({"text", "image", "tool_result"} \cap {"tool_result"})  BY <1>2
  <2>2. \A i \in DOMAIN results : results[i].id \in IDs /\ results[i].text \in Seq(Int)  BY <2>1, PartFields
  <2>3. \A i \in DOMAIN results : ScrubToolID(results[i].id) \in IDs /\ results[i].text \in Seq(Int)  BY <2>2, IDTypes
  <2>4. \A id \in IDs, x \in Seq(Int) : ToolMessage(id, x) \in M  BY <1>0, ToolMessageTypes
  <2> HIDE DEF M
  <2>5. Maps(tools, results, M)  BY <2>3, <2>4 DEF Maps, MapEach
  <2> HIDE DEF tools
  <2> QED  BY <1>2, <2>5, EachIn
<1> HIDE DEF M, rest, tools
<1>6. <<plain>> \in Seq(M)  BY <1>3, OneIn
<1>7. tools \o rest \in Seq(M)  BY <1>4, <1>5
<1>8. ConvertClaudeUserMessage(m) \in Seq(M)  BY <1>1, <1>6, <1>7
<1>9. M \subseteq OpenAIForm(Plain)  BY DEF M, OpenAIForm
<1> QED  BY <1>8, <1>9

LEMMA ClaudeAssistantTypes ==
  ASSUME NEW m \in Msgs({"assistant"}, {"text", "thinking", "tool_use"}, {<<>>})
  PROVE  ConvertClaudeAssistantMessage(m) \in Seq(OpenAIForm(Plain))
<1> DEFINE uses == OfType(m.content, {"tool_use"})
           thinking == JoinedText(m.content, {"thinking"})
           c == IF uses = <<>> THEN ConvertClaudeContentBlocks(m.content)
                ELSE OneText(JoinedText(m.content, {"text"}))
           calls == MapEach(LAMBDA p : Call(ScrubToolID(p.id), p.name, RepairToolArgs(p.args)), uses)
           as == IF thinking = <<>> THEN "" ELSE "reasoning_content"
           r == [m EXCEPT !.content = c, !.calls = calls, !.reasoning = thinking, !.as = as]
           M == Msgs({"assistant"}, Plain, Seq(Calls))
<1>0. "text" \in Plain  BY DEF Plain
<1>1. ConvertClaudeAssistantMessage(m) = <<r>>  BY DEF ConvertClaudeAssistantMessage
<1>2. /\ m.content \in Seq(PartsOf({"text", "thinking", "tool_use"}))
      /\ uses \in Seq(PartsOf({"text", "thinking", "tool_use"} \cap {"tool_use"}))
      /\ thinking \in Seq(Int) /\ JoinedText(m.content, {"text"}) \in Seq(Int)
  <2>1. m.content \in Seq(PartsOf({"text", "thinking", "tool_use"}))  BY MessageFields
  <2> QED  BY <2>1, OfTypeTypes
<1> HIDE DEF uses, thinking
<1>3. c \in Seq(PartsOf(Plain))  BY <1>0, <1>2, ConvertBlocksTypes, TextTypes
<1>4. calls \in Seq(Calls)
  <2>1. \A i \in DOMAIN uses : uses[i] \in PartsOf({"text", "thinking", "tool_use"} \cap {"tool_use"})  BY <1>2
  <2>2. \A i \in DOMAIN uses : uses[i].id \in IDs /\ uses[i].name \in Words /\ uses[i].args \in Seq(Words)
    BY <2>1, PartFields
  <2>3. \A i \in DOMAIN uses : ScrubToolID(uses[i].id) \in IDs /\ RepairToolArgs(uses[i].args) \in Seq(Words)
    BY <2>2, IDTypes, ArgsTypes
  <2>4. \A i \in DOMAIN uses : Call(ScrubToolID(uses[i].id), uses[i].name, RepairToolArgs(uses[i].args)) \in Calls
    BY <2>2, <2>3 DEF Call, Calls
  <2>5. Maps(calls, uses, Calls)  BY <2>4 DEF Maps, MapEach
  <2> HIDE DEF calls
  <2> QED  BY <1>2, <2>5, EachIn
<1>5. as \in Words  BY DEF Words
<1> HIDE DEF c, calls, as
<1>6. r \in M  BY <1>2, <1>3, <1>4, <1>5 DEF Msgs
<1> HIDE DEF r
<1>7. r \in OpenAIForm(Plain)  BY <1>6 DEF OpenAIForm
<1> QED  BY <1>1, <1>7, OneIn

LEMMA ClaudeMessagesTypes ==
  ASSUME NEW s \in Seq(ClaudeForm)
  PROVE  ConvertClaudeMessages(s) \in Seq(OpenAIForm(Plain))
<1> DEFINE F(m) == CASE m.role = "user" -> ConvertClaudeUserMessage(m)
                     [] m.role = "assistant" -> ConvertClaudeAssistantMessage(m)
                     [] OTHER -> <<[m EXCEPT !.id = ScrubToolID(@)]>>
           h == [i \in DOMAIN s |-> F(s[i])]
<1>1. ConvertClaudeMessages(s) = FlattenSeq(h)  BY DEF ConvertClaudeMessages, FlatMap, MapEach
<1>2. ASSUME NEW m \in ClaudeForm  PROVE F(m) \in Seq(OpenAIForm(Plain))
  <2>1. CASE m \in Msgs({"user"}, {"text", "image", "tool_result"}, {<<>>})
    BY <2>1, ClaudeUserTypes, MessageFields
  <2>2. CASE m \in Msgs({"assistant"}, {"text", "thinking", "tool_use"}, {<<>>})
    <3>1. m.role = "assistant"  BY <2>2, MessageFields
    <3> QED  BY <2>2, <3>1, ClaudeAssistantTypes
  <2>3. CASE m \in Msgs({"system"}, {"text"}, {<<>>})
    <3> DEFINE r == [m EXCEPT !.id = ScrubToolID(@)]
    <3>1. m.role = "system" /\ m.id \in IDs  BY <2>3, MessageFields
    <3>2. ScrubToolID(m.id) \in IDs  BY <3>1, IDTypes
    <3>3. r \in Msgs({"system"}, {"text"}, {<<>>})  BY <2>3, <3>2, MessageWith
    <3>4. r \in Msgs({"system", "user", "tool"}, Plain, {<<>>})
      <4>1. PartsOf({"text"}) \subseteq PartsOf(Plain)  BY DEF PartsOf, Plain
      <4>2. Seq(PartsOf({"text"})) \subseteq Seq(PartsOf(Plain))  BY <4>1
      <4> HIDE DEF r
      <4> QED  BY <3>3, <4>2 DEF Msgs
    <3>5. F(m) = <<r>>  BY <3>1
    <3> HIDE DEF r
    <3>6. r \in OpenAIForm(Plain)  BY <3>4 DEF OpenAIForm
    <3> QED  BY <3>5, <3>6, OneIn
  <2> QED  BY <2>1, <2>2, <2>3 DEF ClaudeForm, ClaudeSpoken
<1> HIDE DEF F
<1>3. \A i \in DOMAIN s : s[i] \in ClaudeForm  OBVIOUS
<1>4. Maps(h, s, Seq(OpenAIForm(Plain)))  BY <1>2, <1>3 DEF Maps
<1> HIDE DEF h
<1>5. h \in Seq(Seq(OpenAIForm(Plain)))  BY <1>4, EachIn
<1> QED  BY <1>1, <1>5, FlattenIn

(* ConvertItems: what is collected is one assistant message, or none. *)
Assistants == Msgs({"assistant"}, Plain, Seq(Calls))

ItemStates ==
    [out : Seq(OpenAIForm(Plain)), current : {<<>>} \cup {<<m>> : m \in Assistants}, pending : Seq(Int)]

LEMMA WithReasoningTypes ==
  ASSUME NEW R, NEW T, NEW C, NEW m \in Msgs(R, T, C), NEW x \in Seq(Int)
  PROVE  WithReasoning(m, x) \in Msgs(R, T, C)
<1>1. "reasoning_content" \in Words  BY DEF Words
<1> QED  BY <1>1 DEF WithReasoning, Msgs

LEMMA AssistantIsOpenAI == Assistants \subseteq OpenAIForm(Plain)
BY DEF Assistants, OpenAIForm

LEMMA FlushAssistantTypes ==
  ASSUME NEW x \in ItemStates
  PROVE  FlushAssistant(x) \in ItemStates /\ FlushAssistant(x).current = <<>>
<1>0. x.out \in Seq(OpenAIForm(Plain)) /\ x.pending \in Seq(Int)  BY DEF ItemStates
<1>1. CASE x.current = <<>>  BY <1>1 DEF FlushAssistant
<1>2. CASE x.current # <<>>
  <2>1. PICK m \in Assistants : x.current = <<m>>  BY <1>2 DEF ItemStates
  <2>2. x.current[1] = m  BY <2>1
  <2> DEFINE r == WithReasoning(m, x.pending)
             o == Append(x.out, r)
  <2>3. r \in Assistants  BY <1>0, WithReasoningTypes DEF Assistants
  <2>4. r \in OpenAIForm(Plain)  BY <2>3, AssistantIsOpenAI
  <2> HIDE DEF r
  <2>5. o \in Seq(OpenAIForm(Plain))  BY <1>0, <2>4
  <2>6. FlushAssistant(x) = [out |-> o, current |-> <<>>, pending |-> <<>>]  BY <1>2, <2>2 DEF FlushAssistant, r
  <2> HIDE DEF o
  <2> QED  BY <2>5, <2>6, EmptyIn DEF ItemStates
<1> QED  BY <1>1, <1>2

LEMMA ConvertMessageTypes ==
  ASSUME NEW x \in ItemStates,
         NEW m \in Msgs({"user", "assistant", "system"}, {"text", "input_image"}, {<<>>})
  PROVE  ConvertMessage(x, m) \in ItemStates
<1> DEFINE f == FlushAssistant(x)
           content == MapEach(LAMBDA p : IF p.type = "input_image" THEN Part("image_url", p.text) ELSE p, m.content)
           msg == [m EXCEPT !.content = content]
           y == IF m.role = "assistant" THEN WithReasoning(msg, f.pending) ELSE msg
           o == Append(f.out, y)
<1>1. ConvertMessage(x, m) = [f EXCEPT !.out = o, !.pending = <<>>]  BY DEF ConvertMessage
<1>2. f \in ItemStates  BY FlushAssistantTypes
<1> HIDE DEF f
<1>3. f.out \in Seq(OpenAIForm(Plain)) /\ f.pending \in Seq(Int)  BY <1>2 DEF ItemStates
<1>4. m.content \in Seq(PartsOf({"text", "input_image"})) /\ m.role \in {"user", "assistant", "system"}
  BY MessageFields
<1>5. content \in Seq(PartsOf(Plain))
  <2>1. \A i \in DOMAIN m.content : m.content[i] \in PartsOf({"text", "input_image"})  BY <1>4
  <2>2. ASSUME NEW p \in PartsOf({"text", "input_image"})
        PROVE  (IF p.type = "input_image" THEN Part("image_url", p.text) ELSE p) \in PartsOf(Plain)
    <3>1. p.type \in {"text", "input_image"} /\ p.text \in Seq(Int)  BY PartFields
    <3>2. Part("image_url", p.text) \in PartsOf(Plain)  BY <3>1, PartTypes DEF Plain
    <3>3. p.type = "text" => p \in PartsOf(Plain)  BY PartFields DEF Plain
    <3> QED  BY <3>1, <3>2, <3>3
  <2>3. Maps(content, m.content, PartsOf(Plain))  BY <2>1, <2>2 DEF Maps, MapEach
  <2> HIDE DEF content
  <2> QED  BY <1>4, <2>3, EachIn
<1> HIDE DEF content
<1>6. y \in OpenAIForm(Plain)
  <2>1. CASE m.role = "assistant"
    <3>1. msg \in Msgs({"assistant"}, Plain, {<<>>})  BY <1>5, <2>1 DEF Msgs
    <3>2. msg \in Assistants  BY <3>1, EmptyIn DEF Msgs, Assistants
    <3> HIDE DEF msg
    <3>3. WithReasoning(msg, f.pending) \in Assistants  BY <1>3, <3>2, WithReasoningTypes DEF Assistants
    <3> QED  BY <2>1, <3>3, AssistantIsOpenAI
  <2>2. CASE m.role # "assistant"
    <3>1. msg \in Msgs({"system", "user", "tool"}, Plain, {<<>>})  BY <1>4, <1>5, <2>2 DEF Msgs
    <3> HIDE DEF msg
    <3> QED  BY <2>2, <3>1 DEF OpenAIForm
  <2> QED  BY <2>1, <2>2
<1> HIDE DEF y
<1>7. o \in Seq(OpenAIForm(Plain))  BY <1>3, <1>6
<1> HIDE DEF o
<1>8. <<>> \in Seq(Int)  BY EmptyIn
<1> QED  BY <1>1, <1>2, <1>7, <1>8 DEF ItemStates

LEMMA FunctionCallTypes ==
  ASSUME NEW x \in ItemStates, NEW m \in Msgs({"function_call"}, {"text"}, OneCall)
  PROVE  ConvertFunctionCall(x, m) \in ItemStates
<1> DEFINE new == WithReasoning(Message("assistant", <<>>), x.pending)
           opened == IF x.current # <<>> THEN x
                     ELSE [x EXCEPT !.current = <<new>>, !.pending = <<>>]
           c == m.calls[1]
           call == Call(ClampCallID(c.id), c.name, SanitizeArgs(c.args))
<1>1. ConvertFunctionCall(x, m) =
        IF c.name = "" THEN opened ELSE [opened EXCEPT !.current[1].calls = Append(@, call)]
  BY DEF ConvertFunctionCall
<1>2. call \in Calls
  <2>1. m.calls \in OneCall  BY MessageFields
  <2>2. c \in Calls  BY <2>1 DEF OneCall
  <2> HIDE DEF c
  <2>3. c.id \in IDs /\ c.name \in Words /\ c.args \in Seq(Words)  BY <2>2 DEF Calls
  <2>4. ClampCallID(c.id) \in IDs /\ SanitizeArgs(c.args) \in Seq(Words)  BY <2>3, IDTypes, ArgsTypes
  <2> QED  BY <2>3, <2>4 DEF Call, Calls
<1>3. new \in Assistants
  <2>1. x.pending \in Seq(Int)  BY DEF ItemStates
  <2>2. Message("assistant", <<>>) \in Assistants  BY EmptyIn, MessageTypes DEF Assistants
  <2> QED  BY <2>1, <2>2, WithReasoningTypes DEF Assistants
<1> HIDE DEF new, call
<1>4. opened \in ItemStates
  <2>1. <<new>> \in {<<a>> : a \in Assistants} /\ <<>> \in Seq(Int)  BY <1>3, EmptyIn
  <2> QED  BY <2>1 DEF ItemStates
<1>5. opened.current # <<>>  BY DEF ItemStates
<1> HIDE DEF opened, c
<1>6. PICK a \in Assistants : opened.current = <<a>>  BY <1>4, <1>5 DEF ItemStates
<1> DEFINE b == [a EXCEPT !.calls = Append(@, call)]
<1>7. b \in Assistants
  <2>1. a.calls \in Seq(Calls)  BY MessageFields DEF Assistants
  <2>2. Append(a.calls, call) \in Seq(Calls)  BY <1>2, <2>1
  <2> QED  BY <2>2, MessageWith DEF Assistants
<1>8. [opened EXCEPT !.current[1].calls = Append(@, call)] = [opened EXCEPT !.current = <<b>>]
  <2>1. [opened.current EXCEPT ![1].calls = Append(@, call)] = <<b>>  BY <1>6
  <2> HIDE DEF b
  <2>2. [opened EXCEPT !.current[1].calls = Append(@, call)]
        = [opened EXCEPT !.current = [opened.current EXCEPT ![1].calls = Append(@, call)]]
    BY <1>4 DEF ItemStates
  <2> QED  BY <2>1, <2>2
<1> HIDE DEF b
<1>9. [opened EXCEPT !.current = <<b>>] \in ItemStates  BY <1>4, <1>7 DEF ItemStates
<1> QED  BY <1>1, <1>4, <1>8, <1>9

LEMMA OutputTypes ==
  ASSUME NEW x \in ItemStates, NEW m \in Msgs({"reasoning", "function_call_output"}, {"text"}, {<<>>})
  PROVE  ConvertOutput(x, m) \in ItemStates
<1> DEFINE f == FlushAssistant(x)
           y == ToolMessage(ClampCallID(m.id), JoinedText(m.content, {"text"}))
           o == Append(f.out, y)
<1>1. ConvertOutput(x, m) = [f EXCEPT !.out = o]  BY DEF ConvertOutput
<1>2. f \in ItemStates  BY FlushAssistantTypes
<1> HIDE DEF f
<1>3. f.out \in Seq(OpenAIForm(Plain))  BY <1>2 DEF ItemStates
<1>4. m.id \in IDs /\ m.content \in Seq(PartsOf({"text"}))  BY MessageFields
<1>5. ClampCallID(m.id) \in IDs /\ JoinedText(m.content, {"text"}) \in Seq(Int)  BY <1>4, IDTypes, OfTypeTypes
<1>6. y \in Msgs({"system", "user", "tool"}, Plain, {<<>>})  BY <1>5, ToolMessageTypes DEF Plain
<1> HIDE DEF y
<1>7. o \in Seq(OpenAIForm(Plain))
  <2>1. y \in OpenAIForm(Plain)  BY <1>6 DEF OpenAIForm
  <2> QED  BY <1>3, <2>1
<1> HIDE DEF o
<1> QED  BY <1>1, <1>2, <1>7 DEF ItemStates

LEMMA ConvertItemTypes ==
  ASSUME NEW x \in ItemStates, NEW m \in ResponsesForm
  PROVE  ConvertItem(x, m) \in ItemStates
<1>1. CASE m \in Msgs({"user", "assistant"}, {"text", "input_image"}, {<<>>})
  <2>1. m \in Msgs({"user", "assistant", "system"}, {"text", "input_image"}, {<<>>})
        /\ m.role \in {"user", "assistant"}
    BY <1>1 DEF Msgs
  <2> QED  BY <2>1, ConvertMessageTypes DEF ConvertItem
<1>2. CASE m \in Msgs({"system"}, {"text"}, {<<>>})
  <2>0. Seq(PartsOf({"text"})) \subseteq Seq(PartsOf({"text", "input_image"}))
    <3>1. PartsOf({"text"}) \subseteq PartsOf({"text", "input_image"})  BY DEF PartsOf
    <3> QED  BY <3>1
  <2>1. m \in Msgs({"user", "assistant", "system"}, {"text", "input_image"}, {<<>>}) /\ m.role = "system"
    BY <1>2, <2>0 DEF Msgs
  <2> QED  BY <2>1, ConvertMessageTypes DEF ConvertItem
<1>3. CASE m \in Msgs({"reasoning", "function_call_output"}, {"text"}, {<<>>})
  <2>1. m.role \in {"reasoning", "function_call_output"} /\ m.reasoning \in Seq(Int)  BY <1>3, MessageFields
  <2>2. CASE m.role = "function_call_output"  BY <1>3, <2>2, OutputTypes DEF ConvertItem
  <2>3. CASE m.role = "reasoning"
    <3>1. x.pending \in Seq(Int)  BY DEF ItemStates
    <3> DEFINE y == x.pending \o m.reasoning
    <3>2. y \in Seq(Int)  BY <2>1, <3>1
    <3>3. ConvertItem(x, m) = [x EXCEPT !.pending = y]  BY <2>3 DEF ConvertItem
    <3> HIDE DEF y
    <3> QED  BY <3>2, <3>3 DEF ItemStates
  <2> QED  BY <2>1, <2>2, <2>3
<1>4. CASE m \in Msgs({"function_call"}, {"text"}, OneCall)
  <2>1. m.role = "function_call"  BY <1>4, MessageFields
  <2> QED  BY <1>4, <2>1, FunctionCallTypes DEF ConvertItem
<1> QED  BY <1>1, <1>2, <1>3, <1>4 DEF ResponsesForm, Items

LEMMA ConvertItemsTypes ==
  ASSUME NEW s \in Seq(ResponsesForm)
  PROVE  ConvertItems(s) \in Seq(OpenAIForm(Plain))
<1> DEFINE b == [out |-> <<>>, current |-> <<>>, pending |-> <<>>]
<1>1. b \in ItemStates  BY EmptyIn DEF ItemStates
<1>2. ItemKeeps(ItemStates, ResponsesForm)  BY ConvertItemTypes DEF ItemKeeps
<1>3. Len(s) \in 0..Len(s)  OBVIOUS
<1> HIDE DEF b
<1>4. Loop(ConvertItem, b, s) \in ItemStates
  <2>1. PICK f : ItemRun(f, ItemStates, b, s)  BY <1>1, <1>2, ItemLoop
  <2> QED  BY <1>3, <2>1 DEF ItemRun
<1>5. ConvertItems(s) = FlushAssistant(Loop(ConvertItem, b, s)).out  BY DEF ConvertItems, b
<1>6. FlushAssistant(Loop(ConvertItem, b, s)) \in ItemStates  BY <1>4, FlushAssistantTypes
<1> QED  BY <1>5, <1>6 DEF ItemStates

LEMMA PartsWiden ==
  ASSUME NEW T, NEW U, T \subseteq U
  PROVE  PartsOf(T) \subseteq PartsOf(U) /\ Seq(PartsOf(T)) \subseteq Seq(PartsOf(U))
<1>1. PartsOf(T) \subseteq PartsOf(U)  BY DEF PartsOf
<1> QED  BY <1>1

LEMMA GeminiTextsTypes ==
  ASSUME NEW s \in Seq(PartsOf({"text"}))
  PROVE  GeminiTexts(s) \in Seq(PartsOf({"text", "bare"}))
<1> DEFINE h == MapEach(LAMBDA p : Part("bare", p.text), s)
<1>1. \A i \in DOMAIN s : s[i] \in PartsOf({"text"})  OBVIOUS
<1>2. \A i \in DOMAIN s : Part("bare", s[i].text) \in PartsOf({"text", "bare"})  BY <1>1, PartFields, PartTypes
<1>3. Maps(h, s, PartsOf({"text", "bare"}))  BY <1>2 DEF Maps, MapEach
<1>4. GeminiTexts(s) = s \/ GeminiTexts(s) = h  BY DEF GeminiTexts
<1> HIDE DEF h
<1>5. h \in Seq(PartsOf({"text", "bare"}))  BY <1>3, EachIn
<1> QED  BY <1>4, <1>5, PartsWiden

LEMMA GeminiContentTypes ==
  ASSUME NEW m \in GeminiForm
  PROVE  ConvertGeminiContent(m) \in Seq(OpenAIForm(OpenAITypes))
<1> DEFINE U == {"text", "image", "tool_result", "tool_use"}
           T == OpenAITypes
           role == IF m.role = "model" THEN "assistant" ELSE m.role
           texts == Keep(m.content, LAMBDA p : p.type = "text" /\ p.text # <<>>)
           ofImage == OfType(m.content, {"image"})
           images == MapEach(LAMBDA p : Part("image_url", p.text), ofImage)
           callAt(i) == Call(GeminiToolCallID(m.content[i].name, i - 1), m.content[i].name, m.content[i].args)
           pieces == [i \in DOMAIN m.content |-> IF m.content[i].type = "tool_use" THEN <<callAt(i)>> ELSE <<>>]
           calls == FlattenSeq(pieces)
           results == OfType(m.content, {"tool_result"})
           tools == MapEach(LAMBDA p : ToolMessage(IF p.id = NoID THEN ToolID(p.name, "") ELSE p.id, p.text), results)
           spoken == [Message(role, GeminiTexts(texts)) EXCEPT !.calls = calls]
           other == Message(role, IF images = <<>> THEN GeminiTexts(texts) ELSE texts \o images)
<1>1. ConvertGeminiContent(m) = tools \o (IF role = "assistant" /\ calls # <<>> THEN <<spoken>> ELSE <<other>>)
  BY DEF ConvertGeminiContent
<1>2. m.role \in {"user", "model", "system"} /\ m.content \in Seq(PartsOf(U))  BY MessageFields DEF GeminiForm
<1>3. \A i \in DOMAIN m.content : m.content[i] \in PartsOf(U) /\ i \in Int  BY <1>2
<1>4. texts \in Seq(PartsOf({"text"}))
  <2> DEFINE h == [i \in DOMAIN m.content |-> IF m.content[i].type = "text" /\ m.content[i].text # <<>>
                                              THEN <<m.content[i]>> ELSE <<>>]
  <2>1. texts = FlattenSeq(h)  BY DEF Keep
  <2>2. Picks(h, m.content, PartsOf({"text"}))  BY <1>3, PartFields DEF Picks
  <2> HIDE DEF h, texts
  <2> QED  BY <1>2, <2>1, <2>2, SomeIn
<1>5. images \in Seq(PartsOf({"image_url"}))
  <2>1. ofImage \in Seq(PartsOf(U \cap {"image"}))  BY <1>2, OfTypeTypes
  <2> HIDE DEF ofImage
  <2>2. \A i \in DOMAIN ofImage : ofImage[i] \in PartsOf(U \cap {"image"})  BY <2>1
  <2>3. \A i \in DOMAIN ofImage : ofImage[i].text \in Seq(Int)  BY <2>2, PartFields
  <2>4. \A i \in DOMAIN ofImage : Part("image_url", ofImage[i].text) \in PartsOf({"image_url"})  BY <2>3, PartTypes
  <2>5. Maps(images, ofImage, PartsOf({"image_url"}))  BY <2>4 DEF Maps, MapEach
  <2> HIDE DEF images
  <2> QED  BY <2>1, <2>5, EachIn
<1>6. calls \in Seq(Calls)
  <2>1. ASSUME NEW i \in DOMAIN m.content  PROVE callAt(i) \in Calls
    <3>1. m.content[i].name \in Words /\ m.content[i].args \in Seq(Words)  BY <1>3, PartFields
    <3>2. "call_gemini" \in Words /\ i - 1 \in Int  BY <1>3 DEF Words
    <3>3. GeminiToolCallID(m.content[i].name, i - 1) \in IDs
      <4>1. <<i - 1>> \in Seq(Int)  BY <3>2
      <4> QED  BY <3>1, <3>2, <4>1 DEF GeminiToolCallID, IDs
    <3> QED  BY <3>1, <3>3 DEF Call, Calls
  <2> HIDE DEF callAt
  <2>2. Maps(pieces, m.content, Seq(Calls))  BY <2>1, EmptyIn, OneIn DEF Maps
  <2> HIDE DEF pieces
  <2>3. pieces \in Seq(Seq(Calls))  BY <1>2, <2>2, EachIn
  <2> QED  BY <2>3, FlattenIn
<1>7. tools \in Seq(OpenAIForm(T))
  <2>1. results \in Seq(PartsOf(U \cap {"tool_result"}))  BY <1>2, OfTypeTypes
  <2> HIDE DEF results
  <2>2. \A i \in DOMAIN results : results[i] \in PartsOf(U \cap {"tool_result"})  BY <2>1
  <2>3. ASSUME NEW i \in DOMAIN results
        PROVE  ToolMessage(IF results[i].id = NoID THEN ToolID(results[i].name, "") ELSE results[i].id, results[i].text)
               \in OpenAIForm(T)
    <3> DEFINE id == IF results[i].id = NoID THEN ToolID(results[i].name, "") ELSE results[i].id
    <3>1. results[i].id \in IDs /\ results[i].text \in Seq(Int) /\ results[i].name \in Words  BY <2>2, PartFields
    <3>2. "" \in Words  BY DEF Words
    <3>3. id \in IDs  BY <3>1, <3>2, EmptyIn DEF ToolID, IDs
    <3> HIDE DEF id
    <3>4. ToolMessage(id, results[i].text) \in Msgs({"system", "user", "tool"}, T, {<<>>})
      BY <3>1, <3>3, ToolMessageTypes DEF OpenAITypes
    <3> QED  BY <3>4 DEF id, OpenAIForm
  <2>4. Maps(tools, results, OpenAIForm(T))  BY <2>3 DEF Maps, MapEach
  <2> HIDE DEF tools
  <2> QED  BY <2>1, <2>4, EachIn
<1> HIDE DEF texts, images, calls, tools
<1> DEFINE g == GeminiTexts(texts)
           c == IF images = <<>> THEN g ELSE texts \o images
<1>8. g \in Seq(PartsOf(T)) /\ c \in Seq(PartsOf(T))
  <2>1. {"text", "bare"} \subseteq T /\ {"text"} \subseteq T /\ {"image_url"} \subseteq T  BY DEF OpenAITypes
  <2>2. g \in Seq(PartsOf({"text", "bare"}))  BY <1>4, GeminiTextsTypes
  <2>3. g \in Seq(PartsOf(T)) /\ texts \in Seq(PartsOf(T)) /\ images \in Seq(PartsOf(T))
    BY <1>4, <1>5, <2>1, <2>2, PartsWiden
  <2> HIDE DEF g, T
  <2>4. texts \o images \in Seq(PartsOf(T))  BY <2>3
  <2> QED  BY <2>3, <2>4
<1>9. role = "assistant" => <<spoken>> \in Seq(OpenAIForm(T))
  <2> SUFFICES ASSUME role = "assistant"  PROVE <<spoken>> \in Seq(OpenAIForm(T))
    OBVIOUS
  <2> DEFINE x == Message(role, g)
  <2>1. x \in Msgs({"assistant"}, T, Seq(Calls))  BY <1>8, EmptyIn, MessageTypes
  <2> HIDE DEF x
  <2>2. [x EXCEPT !.calls = calls] \in Msgs({"assistant"}, T, Seq(Calls))  BY <1>6, <2>1, MessageWith
  <2>3. spoken \in OpenAIForm(T)  BY <2>2 DEF OpenAIForm, x
  <2> QED  BY <2>3, OneIn
<1>10. <<other>> \in Seq(OpenAIForm(T))
  <2> HIDE DEF T
  <2>1. Message(role, c) \in OpenAIForm(T)
    <3>1. CASE role = "assistant"
      <4>1. Message(role, c) \in Msgs({"assistant"}, T, Seq(Calls))  BY <1>8, <3>1, EmptyIn, MessageTypes
      <4> QED  BY <4>1 DEF OpenAIForm
    <3>2. CASE role # "assistant"
      <4>1. role \in {"system", "user", "tool"}  BY <1>2, <3>2
      <4>2. Message(role, c) \in Msgs({"system", "user", "tool"}, T, {<<>>})  BY <1>8, <4>1, MessageTypes
      <4> QED  BY <4>2 DEF OpenAIForm
    <3> QED  BY <3>1, <3>2
  <2> QED  BY <2>1, OneIn
<1> DEFINE rest == IF role = "assistant" /\ calls # <<>> THEN <<spoken>> ELSE <<other>>
<1>11. rest \in Seq(OpenAIForm(T))  BY <1>9, <1>10
<1> HIDE DEF rest, T
<1>12. tools \o rest \in Seq(OpenAIForm(T))  BY <1>7, <1>11
<1> QED  BY <1>1, <1>12 DEF rest, T

LEMMA GeminiMessagesTypes ==
  ASSUME NEW s \in Seq(GeminiForm)
  PROVE  FlatMap(ConvertGeminiContent, s) \in Seq(OpenAIForm(OpenAITypes))
<1> DEFINE h == [i \in DOMAIN s |-> ConvertGeminiContent(s[i])]
<1>1. FlatMap(ConvertGeminiContent, s) = FlattenSeq(h)  BY DEF FlatMap, MapEach
<1>2. \A i \in DOMAIN s : s[i] \in GeminiForm  OBVIOUS
<1>3. Maps(h, s, Seq(OpenAIForm(OpenAITypes)))  BY <1>2, GeminiContentTypes DEF Maps
<1> HIDE DEF h
<1>4. h \in Seq(Seq(OpenAIForm(OpenAITypes)))  BY <1>3, EachIn
<1> QED  BY <1>1, <1>4, FlattenIn

-----------------------------------------------------------------------------
(* Passes over an OpenAI form: roles, orphans, ids and missing results.    *)

(* Passes over an OpenAI form. *)
LEMMA FormFields ==
  ASSUME NEW T, NEW m \in OpenAIForm(T)
  PROVE  /\ m.role \in {"system", "user", "tool", "assistant"} /\ m.content \in Seq(PartsOf(T))
         /\ m.calls \in Seq(Calls) /\ m.id \in IDs /\ m.reasoning \in Seq(Int) /\ m.as \in Words
         /\ m.role # "assistant" => m.calls = <<>>
         /\ m.role = "assistant" => m \in Msgs({"assistant"}, T, Seq(Calls))
         /\ m.role # "assistant" => m \in Msgs({"system", "user", "tool"}, T, {<<>>})
<1>1. CASE m \in Msgs({"system", "user", "tool"}, T, {<<>>})
  <2>1. m.role \in {"system", "user", "tool"} /\ m.calls = <<>>  BY <1>1, MessageFields
  <2> QED  BY <1>1, <2>1, MessageFields, EmptyIn
<1>2. CASE m \in Msgs({"assistant"}, T, Seq(Calls))  BY <1>2, MessageFields
<1> QED  BY <1>1, <1>2 DEF OpenAIForm

LEMMA RolesKept ==
  ASSUME NEW T, NEW s \in Seq(OpenAIForm(T))
  PROVE  NormalizeRoles(s) = s
<1> DEFINE h == [i \in DOMAIN s |-> IF s[i].role = "developer" THEN [s[i] EXCEPT !.role = "system"] ELSE s[i]]
<1>1. NormalizeRoles(s) = h  BY DEF NormalizeRoles, MapEach
<1>2. \A i \in DOMAIN s : s[i] \in OpenAIForm(T)  OBVIOUS
<1>3. \A i \in DOMAIN s : s[i].role # "developer"  BY <1>2, FormFields
<1>4. h = [i \in DOMAIN s |-> s[i]]  BY <1>3
<1> HIDE DEF h
<1> QED  BY <1>1, <1>4

LEMMA DropOrphansTypes ==
  ASSUME NEW S, NEW s \in Seq(S)
  PROVE  DropOrphans(s) \in Seq(S)
<1>1. ASSUME NEW t \in Seq(S), NEW keep \in SUBSET DOMAIN t
      PROVE  (IF keep = {} THEN <<>> ELSE SubSeq(t, CHOOSE i \in keep : \A j \in keep : i <= j, Len(t))) \in Seq(S)
  <2>1. CASE keep = {}  BY <2>1, EmptyIn
  <2>2. CASE keep # {}
    <3> DEFINE i == CHOOSE i \in keep : \A j \in keep : i <= j
    <3>1. keep \in SUBSET Nat  OBVIOUS
    <3>2. \E k \in keep : \A j \in keep : k <= j  BY <2>2, <3>1, Least
    <3>3. i \in keep  BY <3>2
    <3> HIDE DEF i
    <3>4. i \in 1..Len(t)  BY <3>3
    <3>5. SubSeq(t, i, Len(t)) \in Seq(S)  BY <3>4
    <3> QED  BY <2>2, <3>5 DEF i
  <2> QED  BY <2>1, <2>2
<1> DEFINE keep1 == {i \in DOMAIN s : ~(s[i].role = "tool")}
           d == IF keep1 = {} THEN <<>> ELSE SubSeq(s, CHOOSE i \in keep1 : \A j \in keep1 : i <= j, Len(s))
           keep2 == {i \in DOMAIN d : ~(d[i].role = "user" /\ IsOnlyToolResults(d[i]))}
<1>2. d \in Seq(S)
  <2>1. keep1 \in SUBSET DOMAIN s  OBVIOUS
  <2> HIDE DEF keep1
  <2> QED  BY <1>1, <2>1
<1>3. DropOrphans(s) = IF keep2 = {} THEN <<>> ELSE SubSeq(d, CHOOSE i \in keep2 : \A j \in keep2 : i <= j, Len(d))
  BY DEF DropOrphans, DropWhile
<1> HIDE DEF d
<1>4. keep2 \in SUBSET DOMAIN d  OBVIOUS
<1> HIDE DEF keep2
<1> QED  BY <1>1, <1>2, <1>3, <1>4

LEMMA Greatest ==
  ASSUME NEW N \in Nat, NEW S \in SUBSET (1..N), S # {}
  PROVE  \E m \in S : \A k \in S : k <= m
<1> DEFINE D == {N - k : k \in S}
<1>0. PICK a \in S : TRUE  OBVIOUS
<1>1. D \in SUBSET Nat /\ D # {}
  <2>1. \A j \in S : N - j \in Nat  OBVIOUS
  <2>2. N - a \in D  BY <1>0
  <2> QED  BY <2>1, <2>2
<1>2. PICK d \in D : \A e \in D : d <= e
  <2> HIDE DEF D
  <2> QED  BY <1>1, Least
<1>3. PICK m \in S : d = N - m  BY <1>2
<1>4. ASSUME NEW k \in S  PROVE k <= m
  <2>1. N - k \in D  OBVIOUS
  <2>2. N - m <= N - k  BY <1>2, <1>3, <2>1
  <2>3. k \in Int /\ m \in Int  OBVIOUS
  <2> HIDE DEF D
  <2> QED  BY <2>2, <2>3
<1> QED  BY <1>3, <1>4

LEMMA SanitizeTypes ==
  ASSUME NEW T, "text" \in T, NEW s \in Seq(OpenAIForm(T))
  PROVE  SanitizeToolHistory(s) \in Seq(OpenAIForm(T))
<1> DEFINE msgs == DropOrphans(s)
           assistants == {i \in DOMAIN msgs : msgs[i].role = "assistant"}
           last == CHOOSE i \in assistants : \A j \in assistants : j <= i
           responded == UNION {CollectRespondedIDs(msgs[j]) : j \in last + 1 .. Len(msgs)}
           c == IF HasValidContent([msgs[last] EXCEPT !.calls = <<>>]) THEN msgs[last].content ELSE <<Text(Truncated)>>
           cut == [msgs EXCEPT ![last].calls = <<>>,
                               ![last].content = IF HasValidContent([msgs[last] EXCEPT !.calls = <<>>])
                                                 THEN @ ELSE <<Text(Truncated)>>]
<1>1. SanitizeToolHistory(s) = IF assistants = {} \/ msgs[last].calls = <<>> \/ responded # {} THEN msgs ELSE cut
  BY DEF SanitizeToolHistory
<1>2. msgs \in Seq(OpenAIForm(T))  BY DropOrphansTypes
<1> HIDE DEF msgs
<1>3. ASSUME assistants # {}  PROVE cut \in Seq(OpenAIForm(T))
  <2>1. last \in assistants
    <3>1. assistants \in SUBSET (1..Len(msgs)) /\ Len(msgs) \in Nat  BY <1>2
    <3> HIDE DEF assistants
    <3>2. \E i \in assistants : \A j \in assistants : j <= i  BY <1>3, <3>1, Greatest
    <3> QED  BY <3>2
  <2> DEFINE m == msgs[last]
             n == [m EXCEPT !.calls = <<>>, !.content = c]
  <2>2. last \in DOMAIN msgs /\ m.role = "assistant"  BY <2>1
  <2> HIDE DEF last
  <2>3. m \in OpenAIForm(T)  BY <1>2, <2>2
  <2>4. m \in Msgs({"assistant"}, T, Seq(Calls)) /\ m.content \in Seq(PartsOf(T))  BY <2>2, <2>3, FormFields
  <2>5. c \in Seq(PartsOf(T))
    <3>1. Truncated \in Seq(Int)  BY DEF Truncated
    <3>2. <<Text(Truncated)>> \in Seq(PartsOf(T))  BY <3>1, TextTypes
    <3> QED  BY <2>4, <3>2
  <2>6. cut = [msgs EXCEPT ![last] = n]
    BY <1>2, <2>2, <2>4 DEF Msgs
  <2> HIDE DEF m, c
  <2>7. n \in Msgs({"assistant"}, T, Seq(Calls))  BY <2>4, <2>5, EmptyIn DEF Msgs
  <2> HIDE DEF n, cut
  <2>8. n \in OpenAIForm(T)  BY <2>7 DEF OpenAIForm
  <2> QED  BY <1>2, <2>2, <2>6, <2>8
<1> HIDE DEF cut
<1> QED  BY <1>1, <1>2, <1>3

(* EnsureToolCallIds: every id that is given out has a name. *)
NamedIDs == {id \in IDs : id.base # ""}

NamedCalls == [id : NamedIDs, name : Words, args : Seq(Words)]

NamedForm(T) ==
    Msgs({"system", "user", "tool"}, T, {<<>>}) \cup Msgs({"assistant"}, T, Seq(NamedCalls))

Given == [def : NamedIDs, final : NamedIDs]

EnsureStates(T) == [out : Seq(NamedForm(T)), ids : Seq(Given), results : Seq(NamedIDs)]

LEMMA EnsureIDTypes ==
  ASSUME NEW id \in IDs, NEW name \in Words, NEW i \in Nat, NEW j \in Nat
  PROVE  EnsureID(id, name, i, j) \in NamedIDs
<1>1. StripID(id) \in IDs  BY IDTypes
<1>2. CASE StripID(id).base # ""  BY <1>1, <1>2 DEF EnsureID, NamedIDs
<1>3. CASE StripID(id).base = ""
  <2> DEFINE r == [base |-> "call_msg", dirt |-> name, n |-> <<i - 1, j - 1>>]
  <2>1. "call_msg" \in Words  BY DEF Words
  <2>2. <<i - 1, j - 1>> \in Seq(Int)  OBVIOUS
  <2>3. r \in IDs /\ r.base # ""  BY <2>1, <2>2 DEF IDs
  <2>4. EnsureID(id, name, i, j) = r  BY <1>3 DEF EnsureID
  <2> HIDE DEF r
  <2> QED  BY <2>3, <2>4 DEF NamedIDs
<1> QED  BY <1>2, <1>3

LEMMA NumberedNamed ==
  ASSUME NEW id \in NamedIDs, NEW n \in Int
  PROVE  Numbered(id, n) \in NamedIDs
<1>1. id \in IDs /\ id.base # ""  BY DEF NamedIDs
<1>2. Numbered(id, n) \in IDs  BY <1>1, IDTypes
<1>3. Numbered(id, n).base = id.base  BY <1>1 DEF Numbered, IDs
<1> QED  BY <1>1, <1>2, <1>3 DEF NamedIDs

Finals(ids, def) == Keep(ids, LAMBDA e : e.def = def)

LEMMA FinalsTypes ==
  ASSUME NEW ids \in Seq(Given), NEW def
  PROVE  Finals(ids, def) \in Seq(Given)
<1> DEFINE h == [i \in DOMAIN ids |-> IF ids[i].def = def THEN <<ids[i]>> ELSE <<>>]
<1>1. \A i \in DOMAIN ids : ids[i] \in Given  OBVIOUS
<1>2. Picks(h, ids, Given)  BY <1>1 DEF Picks
<1>3. Finals(ids, def) = FlattenSeq(h)  BY DEF Finals, Keep
<1> HIDE DEF h
<1> QED  BY <1>2, <1>3, SomeIn

LEMMA NameCallTypes ==
  ASSUME NEW ids \in Seq(Given), NEW def \in NamedIDs
  PROVE  NameCall(ids, def) \in Seq(Given) /\ Len(NameCall(ids, def)) = Len(ids) + 1
<1> DEFINE k == Finals(ids, def)
           n == Len(k)
           g == [def |-> def, final |-> IF n = 0 THEN def ELSE Numbered(def, n)]
<1>1. NameCall(ids, def) = Append(ids, g)  BY DEF NameCall, Finals
<1>2. k \in Seq(Given)  BY FinalsTypes
<1> HIDE DEF k
<1>3. n \in Int  BY <1>2
<1> HIDE DEF n
<1>4. Numbered(def, n) \in NamedIDs  BY <1>3, NumberedNamed
<1>5. g \in Given  BY <1>4 DEF Given
<1> HIDE DEF g
<1> QED  BY <1>1, <1>5

(* Naming a message's calls adds one entry for each of them. *)
LEMMA NamedAll ==
  ASSUME NEW ids \in Seq(Given), NEW defs \in Seq(NamedIDs)
  PROVE  /\ Loop(NameCall, ids, defs) \in Seq(Given)
         /\ Len(Loop(NameCall, ids, defs)) = Len(ids) + Len(defs)
<1> DEFINE N == Len(defs)
<1>1. NameKeeps(Seq(Given), NamedIDs)  BY NameCallTypes DEF NameKeeps
<1>2. PICK f : NameRun(f, Seq(Given), ids, defs)  BY <1>1, NameLoop
<1>3. /\ f \in [0..N -> Seq(Given)] /\ f[0] = ids /\ Loop(NameCall, ids, defs) = f[N]
      /\ \A n \in 1..N : f[n] = NameCall(f[n - 1], defs[n])
  BY <1>2 DEF NameRun
<1>4. N \in Nat /\ Len(ids) \in Nat /\ \A n \in 1..N : defs[n] \in NamedIDs  OBVIOUS
<1> HIDE DEF N
<1> DEFINE B == {n \in 0..N : Len(f[n]) = Len(ids) + n}
<1>5. 0 \in B  BY <1>3, <1>4
<1>6. \A n \in 0..(N - 1) : n \in B => n + 1 \in B
  <2> SUFFICES ASSUME NEW n \in 0..(N - 1), n \in B  PROVE n + 1 \in B
    OBVIOUS
  <2>1. n \in 0..N /\ n + 1 \in 1..N /\ n + 1 \in 0..N /\ (n + 1) - 1 = n  BY <1>4
  <2>2. f[n] \in Seq(Given) /\ f[n + 1] = NameCall(f[n], defs[n + 1]) /\ defs[n + 1] \in NamedIDs
    <3>1. f[n] \in Seq(Given)  BY <1>3, <2>1
    <3>2. f[n + 1] = NameCall(f[(n + 1) - 1], defs[n + 1])  BY <1>3, <2>1
    <3> QED  BY <1>4, <2>1, <3>1, <3>2
  <2>3. Len(f[n + 1]) = Len(f[n]) + 1  BY <2>2, NameCallTypes
  <2>4. Len(f[n]) = Len(ids) + n  OBVIOUS
  <2> QED  BY <1>4, <2>1, <2>3, <2>4
<1> HIDE DEF B
<1>n. N \in 0..N  BY <1>4
<1>7. N \in B  BY <1>4, <1>n, <1>5, <1>6, UpTo
<1> QED  BY <1>3, <1>4, <1>7 DEF B, N

LEMMA ResultIDTypes ==
  ASSUME NEW ids \in Seq(Given), NEW results \in Seq(NamedIDs), NEW r \in NamedIDs
  PROVE  ResultID(ids, results, r) \in NamedIDs
<1> DEFINE finals == Finals(ids, r)
           k == Keep(results, LAMBDA e : e = r)
           n == Len(k)
<1>1. ResultID(ids, results, r) = IF n < Len(finals) THEN finals[n + 1].final ELSE IF n = 0 THEN r ELSE Numbered(r, n)
  BY DEF ResultID, Finals
<1>2. finals \in Seq(Given)  BY FinalsTypes
<1>3. k \in Seq(NamedIDs)
  <2> DEFINE h == [i \in DOMAIN results |-> IF results[i] = r THEN <<results[i]>> ELSE <<>>]
  <2>1. Picks(h, results, NamedIDs)  BY DEF Picks
  <2>2. k = FlattenSeq(h)  BY DEF Keep
  <2> HIDE DEF h, k
  <2> QED  BY <2>1, <2>2, SomeIn
<1> HIDE DEF finals, k
<1>4. n \in Nat /\ Len(finals) \in Nat  BY <1>2, <1>3
<1> HIDE DEF n
<1>5. n < Len(finals) => finals[n + 1].final \in NamedIDs
  <2>1. n < Len(finals) => finals[n + 1] \in Given  BY <1>2, <1>4
  <2> QED  BY <2>1 DEF Given
<1>6. Numbered(r, n) \in NamedIDs  BY <1>4, NumberedNamed
<1> QED  BY <1>1, <1>5, <1>6

LEMMA EnsureMessageTypes ==
  ASSUME NEW T, NEW x \in EnsureStates(T), NEW m \in OpenAIForm(T)
  PROVE  EnsureMessage(x, m) \in EnsureStates(T)
<1> DEFINE i == Len(x.out) + 1
           defs == [j \in DOMAIN m.calls |-> EnsureID(m.calls[j].id, m.calls[j].name, i, j)]
           ids == Loop(NameCall, x.ids, defs)
           r == EnsureID(m.id, "", i, 1)
           answers == m.role = "tool" /\ m.id # NoID
           calls == [j \in DOMAIN m.calls |-> [m.calls[j] EXCEPT !.id = ids[Len(x.ids) + j].final]]
           id == IF answers THEN ResultID(ids, x.results, r) ELSE m.id
           y == [m EXCEPT !.calls = calls, !.id = id]
           o == Append(x.out, y)
           rs == IF answers THEN Append(x.results, r) ELSE x.results
<1>1. EnsureMessage(x, m) = [out |-> o, ids |-> ids, results |-> rs]  BY DEF EnsureMessage
<1>2. x.out \in Seq(NamedForm(T)) /\ x.ids \in Seq(Given) /\ x.results \in Seq(NamedIDs)  BY DEF EnsureStates
<1>3. i \in Nat  BY <1>2
<1> HIDE DEF i
<1>4. m.calls \in Seq(Calls) /\ m.id \in IDs  BY FormFields
<1>5. \A j \in DOMAIN m.calls : j \in Nat /\ j \in 1..Len(m.calls) /\ m.calls[j] \in Calls
  BY <1>4
<1>6. \A j \in DOMAIN m.calls : m.calls[j].id \in IDs /\ m.calls[j].name \in Words
  BY <1>5 DEF Calls
<1>7. defs \in Seq(NamedIDs) /\ Len(defs) = Len(m.calls)
  <2>1. \A j \in DOMAIN m.calls : EnsureID(m.calls[j].id, m.calls[j].name, i, j) \in NamedIDs
    BY <1>3, <1>5, <1>6, EnsureIDTypes
  <2>2. Maps(defs, m.calls, NamedIDs)  BY <2>1 DEF Maps
  <2> HIDE DEF defs
  <2> QED  BY <1>4, <2>2, EachIn
<1> HIDE DEF defs
<1>8. ids \in Seq(Given) /\ Len(ids) = Len(x.ids) + Len(m.calls)  BY <1>2, <1>7, NamedAll
<1> HIDE DEF ids
<1>9. r \in NamedIDs
  <2>1. "" \in Words /\ 1 \in Nat  BY DEF Words
  <2> QED  BY <1>3, <1>4, <2>1, EnsureIDTypes
<1> HIDE DEF r
<1>10. id \in IDs
  <2>1. ResultID(ids, x.results, r) \in NamedIDs  BY <1>2, <1>8, <1>9, ResultIDTypes
  <2> QED  BY <1>4, <2>1 DEF NamedIDs
<1>11. calls \in Seq(NamedCalls)
  <2>1. ASSUME NEW j \in DOMAIN m.calls  PROVE [m.calls[j] EXCEPT !.id = ids[Len(x.ids) + j].final] \in NamedCalls
    <3> DEFINE a == Len(x.ids)
               l == Len(m.calls)
    <3>1. a \in Nat /\ l \in Nat /\ j \in 1..l /\ Len(ids) = a + l  BY <1>2, <1>4, <1>5, <1>8
    <3> HIDE DEF a, l
    <3>2. a + j \in 1..Len(ids)  BY <3>1
    <3>a. ids \in Seq(Given)  BY <1>8
    <3>b. ids[a + j] \in Given  BY <3>a, <3>2, MemberIn
    <3>3. ids[Len(x.ids) + j] \in Given  BY <3>b DEF a
    <3>4. ids[Len(x.ids) + j].final \in NamedIDs  BY <3>3 DEF Given
    <3>5. m.calls[j] \in Calls  BY <1>5
    <3> QED  BY <3>4, <3>5 DEF Calls, NamedCalls
  <2>2. Maps(calls, m.calls, NamedCalls)  BY <2>1 DEF Maps
  <2> HIDE DEF calls
  <2> QED  BY <1>4, <2>2, EachIn
<1>12. m.role # "assistant" => calls = <<>>
  <2>1. m.role # "assistant" => m.calls = <<>>  BY FormFields
  <2>2. m.role # "assistant" => calls \in Seq(NamedCalls) /\ Len(calls) = 0
    <3>1. m.role # "assistant" => DOMAIN calls = {}  BY <2>1
    <3> HIDE DEF calls
    <3> QED  BY <1>11, <3>1
  <2> HIDE DEF calls
  <2> QED  BY <2>2, EmptySeq
<1> HIDE DEF id, calls
<1>13. y \in NamedForm(T)
  <2>1. CASE m.role = "assistant"
    <3>1. m \in Msgs({"assistant"}, T, Seq(Calls))  BY <2>1, FormFields
    <3>2. y \in Msgs({"assistant"}, T, Seq(NamedCalls))  BY <1>10, <1>11, <3>1 DEF Msgs
    <3> QED  BY <3>2 DEF NamedForm
  <2>2. CASE m.role # "assistant"
    <3>1. m \in Msgs({"system", "user", "tool"}, T, {<<>>}) /\ calls \in {<<>>}  BY <1>12, <2>2, FormFields
    <3>2. y \in Msgs({"system", "user", "tool"}, T, {<<>>})  BY <1>10, <3>1 DEF Msgs
    <3> QED  BY <3>2 DEF NamedForm
  <2> QED  BY <2>1, <2>2
<1> HIDE DEF y
<1>14. o \in Seq(NamedForm(T))  BY <1>2, <1>13
<1>15. rs \in Seq(NamedIDs)  BY <1>2, <1>9
<1> HIDE DEF o, rs
<1> QED  BY <1>1, <1>8, <1>14, <1>15 DEF EnsureStates

LEMMA EnsureTypes ==
  ASSUME NEW T, NEW s \in Seq(OpenAIForm(T))
  PROVE  EnsureToolCallIds(s) \in Seq(NamedForm(T))
<1> DEFINE b == [out |-> <<>>, ids |-> <<>>, results |-> <<>>]
<1>1. b \in EnsureStates(T)  BY EmptyIn DEF EnsureStates
<1>2. EnsureKeeps(EnsureStates(T), OpenAIForm(T))  BY EnsureMessageTypes DEF EnsureKeeps
<1>3. EnsureToolCallIds(s) = Loop(EnsureMessage, b, s).out  BY DEF EnsureToolCallIds
<1> HIDE DEF b
<1>4. PICK f : EnsureRun(f, EnsureStates(T), b, s)  BY <1>1, <1>2, EnsureLoop
<1>5. Len(s) \in 0..Len(s)  OBVIOUS
<1>6. Loop(EnsureMessage, b, s) \in EnsureStates(T)  BY <1>4, <1>5 DEF EnsureRun
<1> QED  BY <1>3, <1>6 DEF EnsureStates

-----------------------------------------------------------------------------
(* Sequences whose neighbours are related, and calls that are followed by  *)
(* results.                                                                *)

(* Neighbours are related. *)
Linked(s, R) == \A i \in 1..Len(s) - 1 : <<s[i], s[i + 1]>> \in R

LEMMA JoinedLinked ==
  ASSUME NEW S, NEW a \in Seq(S), NEW b \in Seq(S), NEW R, Linked(a, R), Linked(b, R), b # <<>>,
         a # <<>> => <<a[Len(a)], b[1]>> \in R
  PROVE  Linked(a \o b, R) /\ a \o b # <<>> /\ (a \o b)[Len(a \o b)] = b[Len(b)]
<1> DEFINE c == a \o b
           l == Len(a)
           k == Len(b)
<1>1. /\ Len(c) = l + k
      /\ \A i \in 1..l : c[i] = a[i]
      /\ \A i \in 1..k : c[l + i] = b[i]
  BY Joined
<1>2. l \in Nat /\ k \in Nat /\ c \in Seq(S)  OBVIOUS
<1>3. k # 0  BY EmptySeq
<1>4. l # 0 => a # <<>>  OBVIOUS
<1>5. Linked(a, R) = \A i \in 1..l - 1 : <<a[i], a[i + 1]>> \in R  BY DEF Linked
<1>6. Linked(b, R) = \A i \in 1..k - 1 : <<b[i], b[i + 1]>> \in R  BY DEF Linked
<1>7. Linked(c, R) = \A i \in 1..Len(c) - 1 : <<c[i], c[i + 1]>> \in R  BY DEF Linked
<1>8. l # 0 => <<a[l], b[1]>> \in R  BY <1>4
<1>z. c # <<>>
  <2> HIDE DEF c, l, k
  <2>1. Len(c) # 0  BY <1>1, <1>2, <1>3
  <2> QED  BY <2>1
<1> HIDE DEF c, l, k
<1>9. ASSUME NEW i \in 1..Len(c) - 1  PROVE <<c[i], c[i + 1]>> \in R
  <2>1. i \in Nat /\ i >= 1 /\ i + 1 <= l + k  BY <1>1, <1>2
  <2>2. CASE i < l
    <3>1. i \in 1..l /\ i + 1 \in 1..l /\ i \in 1..l - 1  BY <1>2, <2>1, <2>2
    <3> QED  BY <1>1, <1>5, <3>1
  <2>3. CASE i = l
    <3>1. i \in 1..l /\ 1 \in 1..k /\ l # 0  BY <1>2, <1>3, <2>1, <2>3
    <3>2. c[i] = a[l] /\ c[l + 1] = b[1]  BY <1>1, <2>3, <3>1
    <3> QED  BY <1>8, <2>3, <3>1, <3>2
  <2>4. CASE i > l
    <3> DEFINE j == i - l
    <3>1. j \in 1..k - 1 /\ j \in 1..k /\ j + 1 \in 1..k /\ l + j = i /\ l + (j + 1) = i + 1
      BY <1>2, <2>1, <2>4
    <3> HIDE DEF j
    <3>2. c[l + j] = b[j] /\ c[l + (j + 1)] = b[j + 1]  BY <1>1, <3>1
    <3> QED  BY <1>6, <3>1, <3>2
  <2> QED  BY <1>2, <2>1, <2>2, <2>3, <2>4
<1>10. c[Len(c)] = b[k]
  <2>1. k \in 1..k  BY <1>2, <1>3
  <2> QED  BY <1>1, <2>1
<1> QED  BY <1>7, <1>9, <1>10, <1>z DEF c, k

(* Pieces that are linked, and linked to each other. *)
Chained(s, R) ==
    /\ \A i \in 1..Len(s) : s[i] # <<>> /\ Linked(s[i], R)
    /\ \A i \in 1..Len(s) - 1 : <<s[i][Len(s[i])], s[i + 1][1]>> \in R

LEMMA FlattenLinked ==
  ASSUME NEW S, NEW s \in Seq(Seq(S)), NEW R, Chained(s, R)
  PROVE  /\ Linked(FlattenSeq(s), R)
         /\ s = <<>> => FlattenSeq(s) = <<>>
         /\ s # <<>> => FlattenSeq(s) # <<>> /\ FlattenSeq(s)[Len(FlattenSeq(s))] = s[Len(s)][Len(s[Len(s)])]
<1> DEFINE N == Len(s)
<1>1. PICK f : Flattens(f, s, S)  BY FlattenIs
<1>2. /\ f \in [0..N -> Seq(S)] /\ f[0] = <<>> /\ FlattenSeq(s) = f[N]
      /\ \A n \in 1..N : f[n] = f[n - 1] \o s[n]
  BY <1>1 DEF Flattens
<1>3. N \in Nat /\ (\A n \in 1..N : s[n] \in Seq(S)) /\ (s = <<>> <=> N = 0)  BY EmptySeq
<1>4. /\ \A i \in 1..N : s[i] # <<>> /\ Linked(s[i], R)
      /\ \A i \in 1..N - 1 : <<s[i][Len(s[i])], s[i + 1][1]>> \in R
  BY DEF Chained
<1> HIDE DEF N
<1> DEFINE B == {n \in 0..N : /\ Linked(f[n], R)
                              /\ n = 0 => f[n] = <<>>
                              /\ n # 0 => f[n] # <<>> /\ f[n][Len(f[n])] = s[n][Len(s[n])]}
<1>5. 0 \in B
  <2>1. Linked(<<>>, R)  BY DEF Linked
  <2> QED  BY <1>2, <1>3, <2>1
<1>6. ASSUME NEW n \in 0..(N - 1), n \in B  PROVE n + 1 \in B
  <2>1. n \in Nat /\ n \in 0..N /\ n + 1 \in 1..N /\ n + 1 \in 0..N /\ (n + 1) - 1 = n /\ n + 1 # 0  BY <1>3
  <2> DEFINE b == s[n + 1]
             a == f[n]
  <2>2. a \in Seq(S) /\ b \in Seq(S) /\ Linked(b, R) /\ b # <<>> /\ Linked(a, R)  BY <1>2, <1>3, <1>4, <1>6, <2>1
  <2>3. f[n + 1] = a \o b
    <3>1. f[n + 1] = f[(n + 1) - 1] \o s[n + 1]  BY <1>2, <2>1
    <3> QED  BY <2>1, <3>1
  <2>4. ASSUME a # <<>>  PROVE <<a[Len(a)], b[1]>> \in R
    <3>1. n # 0  BY <1>6, <2>4
    <3>2. a[Len(a)] = s[n][Len(s[n])]  BY <1>6, <3>1
    <3>3. n \in 1..N - 1  BY <1>3, <2>1, <3>1
    <3> QED  BY <1>4, <3>2, <3>3
  <2> HIDE DEF a, b
  <2>5. Linked(a \o b, R) /\ a \o b # <<>> /\ (a \o b)[Len(a \o b)] = b[Len(b)]
    BY <2>2, <2>4, JoinedLinked
  <2> QED  BY <2>1, <2>3, <2>5 DEF b
<1> HIDE DEF B
<1>7. N \in B
  <2>1. \A n \in 0..(N - 1) : n \in B => n + 1 \in B  BY <1>6
  <2>2. N \in Nat /\ N \in 0..N  BY <1>3
  <2> QED  BY <1>5, <2>1, <2>2, UpTo
<1> QED  BY <1>2, <1>3, <1>7 DEF B, N

(* A named form is an OpenAI form. *)
LEMMA NamedFields ==
  ASSUME NEW T, NEW m \in NamedForm(T)
  PROVE  /\ m \in OpenAIForm(T) /\ m.calls \in Seq(NamedCalls)
         /\ m.role # "assistant" => m.calls = <<>>
<1>1. \A c \in NamedCalls : c \in Calls  BY DEF NamedCalls, Calls, NamedIDs
<1>2. \A s \in Seq(NamedCalls) : s \in Seq(Calls)
  <2> TAKE s \in Seq(NamedCalls)
  <2>1. \A i \in 1..Len(s) : s[i] \in Calls  BY <1>1
  <2> QED  BY <2>1
<1>3. CASE m \in Msgs({"system", "user", "tool"}, T, {<<>>})
  <2>1. m.calls = <<>>  BY <1>3, MessageFields
  <2> QED  BY <1>3, <2>1, EmptyIn DEF OpenAIForm
<1>4. CASE m \in Msgs({"assistant"}, T, Seq(NamedCalls))
  <2>1. m.calls \in Seq(NamedCalls) /\ m.role = "assistant"  BY <1>4, MessageFields
  <2>2. m \in Msgs({"assistant"}, T, Seq(Calls))  BY <1>2, <1>4 DEF Msgs
  <2> QED  BY <2>1, <2>2 DEF OpenAIForm
<1> QED  BY <1>3, <1>4 DEF NamedForm

(* A call is followed by a result. *)
Follows(S) == {p \in S \X S : p[1].calls # <<>> => p[2].role = "tool"}

Answered(s) == s # <<>> => s[Len(s)].calls = <<>>

(* Only tool messages answer calls here. *)
LEMMA RespondedIs ==
  ASSUME NEW T \in SUBSET OpenAITypes, NEW s \in Seq(NamedForm(T)), NEW i \in 1..Len(s), Responded(s, i) # {}
  PROVE  i + 1 \in 1..Len(s) /\ s[i + 1].role = "tool"
<1> DEFINE scanned(j) == \A k \in i + 1 .. j - 1 : s[k].role = "tool"
           J == {k \in i + 1 .. Len(s) : scanned(k) /\ s[k].role \in {"tool", "user"}}
<1>1. Responded(s, i) = UNION {CollectRespondedIDs(s[j]) : j \in J}  BY DEF Responded
<1> HIDE DEF J
<1>2. PICK j \in J : CollectRespondedIDs(s[j]) # {}
  <2> DEFINE K(j) == CollectRespondedIDs(s[j])
  <2> HIDE DEF K
  <2>1. UNION {K(j) : j \in J} # {}  BY <1>1 DEF K
  <2>2. PICK j \in J : K(j) # {}  BY <2>1
  <2> QED  BY <2>2 DEF K
<1>3. Len(s) \in Nat /\ i \in Nat /\ i >= 1 /\ j \in i + 1 .. Len(s) /\ scanned(j)  BY <1>2 DEF J
<1>4. j \in 1..Len(s) /\ j \in Nat  BY <1>3
<1> DEFINE m == s[j]
<1>5. m \in NamedForm(T)  BY <1>4, MemberIn
<1>6. m.content \in Seq(PartsOf(T))  BY <1>5, NamedFields, FormFields
<1>7. m.role = "tool"
  <2>0. CollectRespondedIDs(m) # {}  BY <1>2
  <2> HIDE DEF m
  <2>1. SUFFICES ASSUME m.role # "tool"  PROVE FALSE
    OBVIOUS
  <2>2. {p.id : p \in {q \in Range(m.content) : q.type = "tool_result"}} # {}
    BY <2>0, <2>1 DEF CollectRespondedIDs
  <2>3. PICK q \in Range(m.content) : q.type = "tool_result"  BY <2>2
  <2>4. PICK k \in DOMAIN m.content : q = m.content[k]  BY <2>3 DEF Range
  <2>5. q \in PartsOf(T)  BY <1>6, <2>4
  <2>6. q.type \in T  BY <2>5, PartFields
  <2> QED  BY <2>3, <2>6 DEF OpenAITypes
<1>8. CASE j = i + 1  BY <1>3, <1>4, <1>7, <1>8
<1>9. CASE j # i + 1
  <2>1. i + 1 \in i + 1 .. j - 1 /\ i + 1 \in 1..Len(s)  BY <1>3, <1>4, <1>9
  <2>2. s[i + 1].role = "tool"  BY <1>3, <2>1
  <2> QED  BY <2>1, <2>2
<1> QED  BY <1>8, <1>9

(* The calls of message i without a result. *)
Missing(s, i) == Keep(s[i].calls, LAMBDA c : c.id # NoID /\ c.id \notin Responded(s, i))

LEMMA MissingIs ==
  ASSUME NEW T, NEW s \in Seq(NamedForm(T)), NEW i \in 1..Len(s)
  PROVE  /\ Missing(s, i) \in Seq(NamedCalls)
         /\ s[i].calls # <<>> /\ Missing(s, i) = <<>> => Responded(s, i) # {}
<1> DEFINE c == s[i].calls
           h == [k \in DOMAIN c |-> IF c[k].id # NoID /\ c[k].id \notin Responded(s, i) THEN <<c[k]>> ELSE <<>>]
<1>1. Missing(s, i) = FlattenSeq(h)  BY DEF Missing, Keep
<1>2. c \in Seq(NamedCalls)
  <2>1. s[i] \in NamedForm(T)  BY MemberIn
  <2> QED  BY <2>1, NamedFields
<1> HIDE DEF c
<1>3. \A k \in DOMAIN c : c[k] \in NamedCalls  BY <1>2
<1>4. Picks(h, c, NamedCalls)  BY <1>3 DEF Picks
<1>h. DOMAIN h = DOMAIN c  OBVIOUS
<1>5. ASSUME c # <<>>, Responded(s, i) = {}  PROVE Missing(s, i) # <<>>
  <2>1. 1 \in DOMAIN c  BY <1>2, <1>5
  <2>2. c[1].id # NoID
    <3>1. c[1].id \in NamedIDs  BY <1>3, <2>1 DEF NamedCalls
    <3>2. NoID.base = ""  BY DEF NoID, ToolID
    <3> QED  BY <3>1, <3>2 DEF NamedIDs
  <2>3. h[1] = <<c[1]>>  BY <1>5, <2>1, <2>2
  <2>4. 1 \in DOMAIN h  BY <1>h, <2>1
  <2> HIDE DEF h
  <2>5. h \in Seq(Seq(NamedCalls))  BY <1>2, <1>4, SomeIn
  <2>6. c[1] \in Range(h[1])
    <3>1. 1 \in DOMAIN <<c[1]>> /\ <<c[1]>>[1] = c[1]  OBVIOUS
    <3> QED  BY <2>3, <3>1 DEF Range
  <2>7. c[1] \in Range(FlattenSeq(h))  BY <2>4, <2>5, <2>6, FlattenHas
  <2>8. Range(<<>>) = {}  BY DEF Range
  <2> QED  BY <1>1, <2>7, <2>8
<1> HIDE DEF h
<1> QED  BY <1>1, <1>2, <1>4, <1>5, SomeIn DEF c

Synthetic(calls) == MapEach(LAMBDA c : ToolMessage(c.id, SyntheticToolContent), calls)

LEMMA SyntheticTypes ==
  ASSUME NEW T, "text" \in T, NEW calls \in Seq(NamedCalls)
  PROVE  Synthetic(calls) \in Seq(Msgs({"tool"}, T, {<<>>})) /\ Len(Synthetic(calls)) = Len(calls)
<1> DEFINE h == [k \in DOMAIN calls |-> ToolMessage(calls[k].id, SyntheticToolContent)]
<1>1. Synthetic(calls) = h  BY DEF Synthetic, MapEach
<1>2. SyntheticToolContent \in Seq(Int)  BY DEF SyntheticToolContent
<1>3. \A k \in DOMAIN calls : calls[k].id \in IDs
  <2>1. \A k \in DOMAIN calls : calls[k] \in NamedCalls  OBVIOUS
  <2> QED  BY <2>1 DEF NamedCalls, NamedIDs
<1>4. \A k \in DOMAIN calls : ToolMessage(calls[k].id, SyntheticToolContent) \in Msgs({"tool"}, T, {<<>>})
  <2> TAKE k \in DOMAIN calls
  <2>1. "tool" \in {"tool"} /\ <<>> \in {<<>>}  OBVIOUS
  <2> QED  BY <1>2, <1>3, <2>1, ToolMessageTypes
<1>5. Maps(h, calls, Msgs({"tool"}, T, {<<>>}))  BY <1>4 DEF Maps
<1> HIDE DEF h
<1> QED  BY <1>1, <1>5, EachIn

(* A message, and what is made up for its calls. *)
Patched(s, i) == IF s[i].role # "assistant" THEN <<s[i]>> ELSE <<s[i]>> \o Synthetic(Missing(s, i))

LEMMA PatchedIs ==
  ASSUME NEW T \in SUBSET OpenAITypes, "text" \in T, NEW s \in Seq(NamedForm(T)), NEW i \in 1..Len(s)
  PROVE  LET p == Patched(s, i)
         IN /\ p \in Seq(NamedForm(T)) /\ p # <<>> /\ p[1] = s[i]
            /\ Linked(p, Follows(NamedForm(T)))
            /\ p[Len(p)].calls # <<>> => i + 1 \in 1..Len(s) /\ s[i + 1].role = "tool"
<1> DEFINE F == NamedForm(T)
           m == s[i]
           one == <<m>>
           y == Synthetic(Missing(s, i))
<1>1. m \in F  BY MemberIn
<1>2. one \in Seq(F) /\ one # <<>> /\ one[1] = m /\ Len(one) = 1  BY <1>1
<1>3. Linked(one, Follows(F))  BY <1>2 DEF Linked
<1>4. CASE m.role # "assistant"
  <2>1. m.calls = <<>>  BY <1>1, <1>4, NamedFields
  <2>2. Patched(s, i) = one  BY <1>4 DEF Patched
  <2> HIDE DEF one
  <2> QED  BY <1>2, <1>3, <2>1, <2>2
<1>5. CASE m.role = "assistant"
  <2> DEFINE G == Msgs({"tool"}, T, {<<>>})
  <2>1. Patched(s, i) = one \o y  BY <1>5 DEF Patched
  <2>2. Missing(s, i) \in Seq(NamedCalls)  BY MissingIs
  <2>3. y \in Seq(G) /\ Len(y) = Len(Missing(s, i))  BY <2>2, SyntheticTypes
  <2> HIDE DEF y
  <2>4. \A k \in 1..Len(y) : y[k] \in F /\ y[k].role = "tool" /\ y[k].calls = <<>>
    <3> TAKE k \in 1..Len(y)
    <3>1. y[k] \in G  BY <2>3, MemberIn
    <3>2. y[k].role \in {"tool"} /\ y[k].calls \in {<<>>}  BY <3>1, MessageFields
    <3>3. y[k] \in Msgs({"system", "user", "tool"}, T, {<<>>})  BY <3>1 DEF Msgs
    <3> QED  BY <3>2, <3>3 DEF NamedForm
  <2>5. y \in Seq(F)
    <3> HIDE DEF F, G
    <3> QED  BY <2>3, <2>4
  <2>6. Linked(y, Follows(F))
    <3>1. \A k \in 1..Len(y) - 1 : k \in 1..Len(y) /\ k + 1 \in 1..Len(y)  BY <2>5
    <3>2. \A k \in 1..Len(y) - 1 : <<y[k], y[k + 1]>> \in Follows(F)
      <4> HIDE DEF F
      <4> TAKE k \in 1..Len(y) - 1
      <4>1. y[k] \in F /\ y[k + 1] \in F /\ y[k].calls = <<>>  BY <2>4, <3>1
      <4> QED  BY <4>1 DEF Follows
    <3> QED  BY <3>2 DEF Linked
  <2>7. CASE y = <<>>
    <3>1. Len(Missing(s, i)) = 0  BY <2>3, <2>7
    <3>2. Missing(s, i) = <<>>  BY <2>2, <3>1, EmptySeq
    <3>3. m.calls # <<>> => i + 1 \in 1..Len(s) /\ s[i + 1].role = "tool"  BY <3>2, MissingIs, RespondedIs
    <3>4. one \o y = one  BY <1>2, <2>7
    <3> HIDE DEF one, m
    <3> QED  BY <1>2, <1>3, <2>1, <3>3, <3>4 DEF m
  <2>8. CASE y # <<>>
    <3>1. Len(y) \in Nat /\ Len(y) # 0  BY <2>3, <2>8, EmptySeq
    <3>2. 1 \in 1..Len(y) /\ Len(y) \in 1..Len(y)  BY <3>1
    <3>3. y[1] \in F /\ y[1].role = "tool" /\ y[Len(y)].calls = <<>>  BY <2>4, <3>2
    <3> HIDE DEF F
    <3>4. <<one[Len(one)], y[1]>> \in Follows(F)  BY <1>1, <1>2, <3>3 DEF Follows
    <3> HIDE DEF one, m
    <3>5. Linked(one \o y, Follows(F)) /\ one \o y # <<>> /\ (one \o y)[Len(one \o y)] = y[Len(y)]
      BY <1>2, <1>3, <2>5, <2>6, <2>8, <3>4, JoinedLinked
    <3>6. one \o y \in Seq(F) /\ (one \o y)[1] = m
      <4>1. 1 \in 1..Len(one)  BY <1>2
      <4> QED  BY <1>2, <2>5, <4>1, Joined
    <3> QED  BY <2>1, <3>3, <3>5, <3>6 DEF F, m
  <2> QED  BY <2>7, <2>8
<1> QED  BY <1>4, <1>5

(* Behind fixMissingToolResponses every message with calls is followed by  *)
(* a result.                                                               *)
LEMMA FixAnswers ==
  ASSUME NEW T \in SUBSET OpenAITypes, "text" \in T, NEW s \in Seq(NamedForm(T))
  PROVE  LET t == FixMissingToolResponses(s)
         IN t \in Seq(NamedForm(T)) /\ Linked(t, Follows(NamedForm(T))) /\ Answered(t)
<1> DEFINE F == NamedForm(T)
           h == [i \in DOMAIN s |-> Patched(s, i)]
<1>1. FixMissingToolResponses(s) = FlattenSeq(h)
  <2>1. FixMissingToolResponses(s) =
          FlattenSeq([i \in DOMAIN s |->
            IF s[i].role # "assistant" THEN <<s[i]>>
            ELSE <<s[i]>> \o MapEach(LAMBDA c : ToolMessage(c.id, SyntheticToolContent), Missing(s, i))])
    BY DEF FixMissingToolResponses, Missing
  <2> QED  BY <2>1 DEF Patched, Synthetic
<1>2. \A i \in 1..Len(s) : /\ Patched(s, i) \in Seq(F) /\ Patched(s, i) # <<>> /\ Patched(s, i)[1] = s[i]
                           /\ Linked(Patched(s, i), Follows(F))
                           /\ Patched(s, i)[Len(Patched(s, i))].calls # <<>> =>
                                i + 1 \in 1..Len(s) /\ s[i + 1].role = "tool"
  <2> HIDE DEF F
  <2> QED  BY PatchedIs DEF F
<1>3. Maps(h, s, Seq(F))  BY <1>2 DEF Maps
<1>4. \A i \in 1..Len(s) : h[i] = Patched(s, i)  OBVIOUS
<1> HIDE DEF h
<1>5. h \in Seq(Seq(F)) /\ Len(h) = Len(s)  BY <1>3, EachIn
<1>n. Len(s) \in Nat  OBVIOUS
<1> HIDE DEF F
<1>6. Chained(h, Follows(F))
  <2>1. ASSUME NEW i \in 1..Len(h) - 1  PROVE <<h[i][Len(h[i])], h[i + 1][1]>> \in Follows(F)
    <3>1. i \in 1..Len(s) /\ i + 1 \in 1..Len(s)  BY <1>5, <1>n
    <3> DEFINE p == Patched(s, i)
    <3>2. p \in Seq(F) /\ p # <<>> /\ (p[Len(p)].calls # <<>> => s[i + 1].role = "tool")  BY <1>2, <3>1
    <3>3. h[i] = p /\ h[i + 1][1] = s[i + 1] /\ s[i + 1] \in F  BY <1>2, <1>4, <3>1, MemberIn DEF F
    <3> HIDE DEF p
    <3>4. p[Len(p)] \in F
      <4>1. Len(p) \in 1..Len(p)  BY <3>2, EmptySeq
      <4> QED  BY <3>2, <4>1, MemberIn
    <3> QED  BY <3>2, <3>3, <3>4 DEF Follows
  <2>2. \A i \in 1..Len(h) : h[i] # <<>> /\ Linked(h[i], Follows(F))  BY <1>2, <1>4, <1>5
  <2> QED  BY <2>1, <2>2 DEF Chained
<1>7. /\ Linked(FlattenSeq(h), Follows(F))
      /\ h = <<>> => FlattenSeq(h) = <<>>
      /\ h # <<>> => FlattenSeq(h)[Len(FlattenSeq(h))] = h[Len(h)][Len(h[Len(h)])]
  BY <1>5, <1>6, FlattenLinked
<1>8. FlattenSeq(h) \in Seq(F)  BY <1>5, FlattenIn
<1>9. Answered(FlattenSeq(h))
  <2>1. CASE h = <<>>  BY <1>7, <2>1 DEF Answered
  <2>2. CASE h # <<>>
    <3>1. Len(h) # 0  BY <1>5, <2>2, EmptySeq
    <3>2. Len(s) \in 1..Len(s) /\ Len(s) + 1 \notin 1..Len(s)  BY <1>5, <1>n, <3>1
    <3>3. Patched(s, Len(s))[Len(Patched(s, Len(s)))].calls = <<>>  BY <1>2, <3>2
    <3>4. h[Len(h)] = Patched(s, Len(s))  BY <1>4, <1>5, <3>2
    <3> QED  BY <1>7, <2>2, <3>3, <3>4 DEF Answered
  <2> QED  BY <2>1, <2>2
<1> QED  BY <1>1, <1>7, <1>8, <1>9 DEF F

-----------------------------------------------------------------------------
(* From OpenAI to Claude: blocks, messages, and their order.               *)

(* The blocks of a Claude message that was built: no text is empty. *)
TextParts == {p \in PartsOf({"text"}) : p.text # <<>>}

UserParts == TextParts \cup PartsOf({"image"})

ResultParts == PartsOf({"tool_result"})

UseParts == PartsOf({"tool_use"})

(* Calls at the tail, results at the head. *)
Tailed == {c \in Seq(TextParts \cup UseParts) : \E a \in Seq(TextParts), u \in Seq(UseParts) : c = a \o u}

Headed == {c \in Seq(ResultParts \cup UserParts) : \E r \in Seq(ResultParts), o \in Seq(UserParts) : c = r \o o}

LEMMA BlockKinds ==
  /\ \A p \in TextParts : p.type = "text" /\ p.text # <<>> /\ p \in UserParts
  /\ \A p \in UserParts : p.type \in {"text", "image"} /\ (p.type = "text" => p.text # <<>>)
  /\ \A p \in ResultParts : p.type = "tool_result"
  /\ \A p \in UseParts : p.type = "tool_use"
BY PartFields DEF TextParts, UserParts, ResultParts, UseParts

LEMMA Widen == \A S, T : S \subseteq T => Seq(S) \subseteq Seq(T)
OBVIOUS

LEMMA OnlyNone == \A s \in Seq({}) : s = <<>>
<1> TAKE s \in Seq({})
<1>1. CASE Len(s) = 0  BY <1>1, EmptySeq
<1>2. CASE Len(s) # 0
  <2>1. 1 \in 1..Len(s)  BY <1>2
  <2> QED  BY <2>1, MemberIn
<1> QED  BY <1>1, <1>2

(* Nothing is in a sequence of a type that has no members there. *)
LEMMA OfTypeNone ==
  ASSUME NEW S, NEW c \in Seq(S), NEW U, \A p \in S : p.type \notin U
  PROVE  OfType(c, U) = <<>>
<1> DEFINE h == [i \in DOMAIN c |-> IF c[i].type \in U THEN <<c[i]>> ELSE <<>>]
<1>1. OfType(c, U) = FlattenSeq(h)  BY DEF OfType, Keep
<1>2. \A i \in DOMAIN c : c[i] \in S  OBVIOUS
<1>3. Picks(h, c, {})  BY <1>2 DEF Picks
<1> HIDE DEF h
<1>4. FlattenSeq(h) \in Seq({})  BY <1>3, SomeIn
<1> QED  BY <1>1, <1>4, OnlyNone

LEMMA UserBlocks ==
  ASSUME NEW T \in SUBSET OpenAITypes, NEW m \in NamedForm(T)
  PROVE  UserContentToBlocks(m) \in Seq(UserParts)
<1> DEFINE c == SplitContent(m.content)
           h == [i \in DOMAIN c |-> IF \/ c[i].type = "tool_result"
                                       \/ c[i].type \in {"text", "image_url", "image"} /\ c[i].text # <<>>
                                    THEN <<c[i]>> ELSE <<>>]
           k == FlattenSeq(h)
           V == {p \in PartsOf({"text", "image_url"}) : p.text # <<>>}
           g == [i \in DOMAIN k |-> IF k[i].type = "image_url" THEN Part("image", k[i].text) ELSE k[i]]
<1>1. UserContentToBlocks(m) = g  BY DEF UserContentToBlocks, MapEach, Keep
<1>2. c \in Seq(PartsOf(T))
  <2>1. m.content \in Seq(PartsOf(T))  BY NamedFields, FormFields
  <2> QED  BY <2>1, EmptyIn DEF SplitContent
<1> HIDE DEF c
<1>3. \A i \in DOMAIN c : c[i] \in PartsOf(T)  BY <1>2
<1>4. Picks(h, c, V)
  <2>1. \A i \in DOMAIN c : \/ c[i].type = "tool_result"
                            \/ c[i].type \in {"text", "image_url", "image"} /\ c[i].text # <<>>
                            => c[i] \in V
    <3> TAKE i \in DOMAIN c
    <3>1. c[i].type \in OpenAITypes  BY <1>3, PartFields
    <3>2. c[i].type \in {"text", "image_url"} => c[i] \in PartsOf({"text", "image_url"})  BY <1>3, PartFields
    <3> QED  BY <3>1, <3>2 DEF OpenAITypes
  <2> QED  BY <2>1 DEF Picks
<1> HIDE DEF h
<1>5. k \in Seq(V)  BY <1>2, <1>4, SomeIn
<1> HIDE DEF k
<1>6. \A i \in DOMAIN k : k[i] \in V  BY <1>5
<1>7. Maps(g, k, UserParts)
  <2>1. \A i \in DOMAIN k : k[i].type = "image_url" => Part("image", k[i].text) \in PartsOf({"image"})
    BY <1>6, PartFields, PartTypes
  <2>2. \A i \in DOMAIN k : k[i].type # "image_url" => k[i] \in TextParts
    <3> TAKE i \in DOMAIN k
    <3>1. k[i] \in PartsOf({"text", "image_url"}) /\ k[i].text # <<>>  BY <1>6
    <3>2. k[i].type # "image_url" => k[i].type \in {"text"}  BY <3>1, PartFields
    <3>3. k[i].type # "image_url" => k[i] \in PartsOf({"text"})  BY <3>1, <3>2, PartFields
    <3> QED  BY <3>1, <3>3 DEF TextParts
  <2> QED  BY <2>1, <2>2 DEF Maps, UserParts
<1> HIDE DEF g
<1> QED  BY <1>1, <1>5, <1>7, EachIn

LEMMA CallBlocks ==
  ASSUME NEW calls \in Seq(NamedCalls)
  PROVE  /\ FlatMap(CallToBlocks, calls) \in Seq(UseParts)
         /\ calls = <<>> => FlatMap(CallToBlocks, calls) = <<>>
<1> DEFINE h == [i \in DOMAIN calls |-> CallToBlocks(calls[i])]
<1>1. FlatMap(CallToBlocks, calls) = FlattenSeq(h)  BY DEF FlatMap, MapEach
<1>2. ASSUME NEW c \in NamedCalls  PROVE CallToBlocks(c) \in Seq(UseParts)
  <2> DEFINE parts == SplitToolArgs(c.args)
             id(i) == IF Len(parts) > 1 THEN Numbered(c.id, i) ELSE c.id
             g == [i \in DOMAIN parts |-> ToolUse(id(i), c.name, <<parts[i]>>)]
  <2>1. CallToBlocks(c) = g  BY DEF CallToBlocks
  <2>2. c.id \in IDs /\ c.name \in Words /\ c.args \in Seq(Words)  BY DEF NamedCalls, NamedIDs
  <2>3. parts \in Seq(Words)  BY <2>2, ArgsTypes
  <2> HIDE DEF parts
  <2>4. \A i \in DOMAIN parts : <<parts[i]>> \in Seq(Words) /\ i \in Int  BY <2>3, OneIn
  <2>5. \A i \in DOMAIN parts : id(i) \in IDs  BY <2>2, <2>4, IDTypes
  <2> HIDE DEF id
  <2>6. \A i \in DOMAIN parts : ToolUse(id(i), c.name, <<parts[i]>>) \in UseParts
    <3> TAKE i \in DOMAIN parts
    <3>1. "tool_use" \in {"tool_use"}  OBVIOUS
    <3> QED  BY <2>2, <2>4, <2>5, <3>1, UseTypes DEF UseParts
  <2>7. Maps(g, parts, UseParts)  BY <2>6 DEF Maps
  <2> HIDE DEF g
  <2> QED  BY <2>1, <2>3, <2>7, EachIn
<1>3. \A i \in DOMAIN calls : calls[i] \in NamedCalls  OBVIOUS
<1>4. Maps(h, calls, Seq(UseParts))  BY <1>2, <1>3 DEF Maps
<1>5. calls = <<>> => FlattenSeq(h) = <<>>
  <2> SUFFICES ASSUME calls = <<>>  PROVE FlattenSeq(h) = <<>>
    OBVIOUS
  <2>1. Picks(h, calls, {})  BY DEF Picks
  <2> HIDE DEF h
  <2>2. FlattenSeq(h) \in Seq({})  BY <2>1, SomeIn
  <2> QED  BY <2>2, OnlyNone
<1> HIDE DEF h
<1>6. h \in Seq(Seq(UseParts))  BY <1>4, EachIn
<1> QED  BY <1>1, <1>5, <1>6, FlattenIn

LEMMA AssistantBlocks ==
  ASSUME NEW T \in SUBSET OpenAITypes, NEW m \in NamedForm(T)
  PROVE  \E a \in Seq(TextParts), u \in Seq(UseParts) :
           AssistantContentToBlocks(m) = a \o u /\ (m.calls = <<>> => u = <<>>)
<1> DEFINE c == SplitContent(m.content)
           h == [i \in DOMAIN c |-> IF \/ c[i].type \in {"tool_use", "thinking"}
                                       \/ c[i].type = "text" /\ c[i].text # <<>>
                                    THEN <<c[i]>> ELSE <<>>]
           u == FlatMap(CallToBlocks, m.calls)
<1>1. AssistantContentToBlocks(m) = FlattenSeq(h) \o u  BY DEF AssistantContentToBlocks, Keep
<1>2. c \in Seq(PartsOf(T))
  <2>1. m.content \in Seq(PartsOf(T))  BY NamedFields, FormFields
  <2> QED  BY <2>1, EmptyIn DEF SplitContent
<1> HIDE DEF c
<1>3. \A i \in DOMAIN c : c[i] \in PartsOf(T)  BY <1>2
<1>4. Picks(h, c, TextParts)
  <2>1. \A i \in DOMAIN c : c[i].type \in {"tool_use", "thinking"} \/ (c[i].type = "text" /\ c[i].text # <<>>)
                            => c[i] \in TextParts
    <3> TAKE i \in DOMAIN c
    <3>1. c[i].type \in OpenAITypes  BY <1>3, PartFields
    <3>2. c[i].type \in {"text"} => c[i] \in PartsOf({"text"})  BY <1>3, PartFields
    <3> QED  BY <3>1, <3>2 DEF OpenAITypes, TextParts
  <2> QED  BY <2>1 DEF Picks
<1> HIDE DEF h
<1>5. FlattenSeq(h) \in Seq(TextParts)  BY <1>2, <1>4, SomeIn
<1>6. u \in Seq(UseParts) /\ (m.calls = <<>> => u = <<>>)
  <2>1. m.calls \in Seq(NamedCalls)  BY NamedFields
  <2> QED  BY <2>1, CallBlocks
<1> QED  BY <1>1, <1>5, <1>6

LEMMA OfTypeHas ==
  ASSUME NEW S, NEW c \in Seq(S), NEW U, NEW i \in DOMAIN c, c[i].type \in U
  PROVE  OfType(c, U) # <<>>
<1> DEFINE h == [k \in DOMAIN c |-> IF c[k].type \in U THEN <<c[k]>> ELSE <<>>]
<1>1. OfType(c, U) = FlattenSeq(h)  BY DEF OfType, Keep
<1>2. \A k \in DOMAIN c : c[k] \in S  OBVIOUS
<1>3. Picks(h, c, S)  BY <1>2 DEF Picks
<1>4. h[i] = <<c[i]>> /\ i \in DOMAIN h  OBVIOUS
<1> HIDE DEF h
<1>5. h \in Seq(Seq(S))  BY <1>3, SomeIn
<1>6. c[i] \in Range(h[i])
  <2>1. 1 \in DOMAIN <<c[i]>> /\ <<c[i]>>[1] = c[i]  OBVIOUS
  <2> QED  BY <1>4, <2>1 DEF Range
<1>7. c[i] \in Range(FlattenSeq(h))  BY <1>4, <1>5, <1>6, FlattenHas
<1>8. Range(<<>>) = {}  BY DEF Range
<1> QED  BY <1>1, <1>7, <1>8

(* What stands behind the results. *)
Others(c) == Keep(c, LAMBDA p : p.type # "tool_result")

LEMMA OthersIn ==
  ASSUME NEW S, NEW c \in Seq(S), NEW V, \A p \in S : p.type # "tool_result" => p \in V
  PROVE  Others(c) \in Seq(V)
<1> DEFINE h == [k \in DOMAIN c |-> IF c[k].type # "tool_result" THEN <<c[k]>> ELSE <<>>]
<1>1. Others(c) = FlattenSeq(h)  BY DEF Others, Keep
<1>2. \A k \in DOMAIN c : c[k] \in S  OBVIOUS
<1>3. Picks(h, c, V)  BY <1>2 DEF Picks
<1> HIDE DEF h
<1> QED  BY <1>1, <1>3, SomeIn

-----------------------------------------------------------------------------
(* The messages that buildClaudeMessages makes: a user asks or gives       *)
(* results, an assistant talks or, with calls, uses tools.                 *)
BuiltOf(R, C) ==
    [role : R, content : C \ {<<>>}, calls : {<<>>}, id : IDs, reasoning : Seq(Int), as : Words]

Asks == BuiltOf({"user"}, Seq(UserParts))

Gives == BuiltOf({"user"}, Seq(ResultParts))

Talks == BuiltOf({"assistant"}, Seq(TextParts))

Uses == BuiltOf({"assistant"}, Tailed)

Built == Asks \cup Gives \cup Uses

(* A call is the last message, or a user's message follows. *)
Calling(m) == m.role = "assistant" /\ m \notin Talks

Open(s) == s # <<>> /\ Calling(s[Len(s)])

Turned(S) == {p \in S \X S : Calling(p[1]) => p[2].role = "user"}

LEMMA BuiltIs ==
  /\ Talks \subseteq Uses
  /\ \A m \in Built : m.role \in {"user", "assistant"}
  /\ \A R, C : \A role \in R, c \in C : c # <<>> => Message(role, c) \in BuiltOf(R, C)
<1>1. \A c \in Seq(TextParts) : c \in Tailed
  <2> TAKE c \in Seq(TextParts)
  <2>1. c = c \o <<>> /\ <<>> \in Seq(UseParts) /\ c \in Seq(TextParts \cup UseParts)  OBVIOUS
  <2> QED  BY <2>1 DEF Tailed
<1>2. Talks \subseteq Uses  BY <1>1 DEF Talks, Uses, BuiltOf
<1>3. \A m \in Built : m.role \in {"user", "assistant"}  BY DEF Built, Asks, Gives, Uses, BuiltOf
<1>4. ASSUME NEW R, NEW C, NEW role \in R, NEW c \in C, c # <<>>  PROVE Message(role, c) \in BuiltOf(R, C)
  <2>1. <<>> \in Seq(Int) /\ "" \in Words /\ NoID \in IDs  BY IDTypes, EmptyIn DEF Words
  <2> QED  BY <1>4, <2>1 DEF Message, BuiltOf
<1> QED  BY <1>2, <1>3, <1>4

LEMMA AppendTurned ==
  ASSUME NEW S, NEW s \in Seq(S), Linked(s, Turned(S)), NEW w \in S, Open(s) => w.role = "user"
  PROVE  /\ Append(s, w) \in Seq(S) /\ Linked(Append(s, w), Turned(S)) /\ Append(s, w) # <<>>
         /\ Open(Append(s, w)) <=> Calling(w)
<1> DEFINE b == <<w>>
<1>1. b \in Seq(S) /\ b # <<>> /\ b[1] = w /\ Len(b) = 1  OBVIOUS
<1>2. Append(s, w) = s \o b  BY AppendIsConcat
<1>3. Linked(b, Turned(S))  BY <1>1 DEF Linked
<1>4. ASSUME s # <<>>  PROVE <<s[Len(s)], b[1]>> \in Turned(S)
  <2>1. Len(s) \in 1..Len(s)  BY <1>4, EmptySeq
  <2>2. s[Len(s)] \in S  BY <2>1, MemberIn
  <2> QED  BY <1>1, <1>4, <2>2 DEF Turned, Open
<1> HIDE DEF b
<1>5. Linked(s \o b, Turned(S)) /\ s \o b # <<>> /\ (s \o b)[Len(s \o b)] = b[Len(b)]
  BY <1>1, <1>3, <1>4, JoinedLinked
<1>6. s \o b \in Seq(S)  BY <1>1
<1> QED  BY <1>1, <1>2, <1>5, <1>6 DEF Open

(* The last member changes, and keeps its role and its being no call. *)
LEMMA ReplaceTurned ==
  ASSUME NEW S, NEW s \in Seq(S), Linked(s, Turned(S)), s # <<>>, NEW w \in S, w.role = s[Len(s)].role
  PROVE  LET t == [s EXCEPT ![Len(s)] = w]
         IN t \in Seq(S) /\ Linked(t, Turned(S)) /\ t # <<>> /\ (Open(t) <=> Calling(w))
<1> DEFINE n == Len(s)
           t == [s EXCEPT ![n] = w]
<1>1. n \in Nat /\ n # 0  BY EmptySeq
<1>2. t \in Seq(S) /\ Len(t) = n /\ t[n] = w /\ \A i \in 1..n : i # n => t[i] = s[i]  BY <1>1
<1>3. \A i \in 1..n : s[i] \in S /\ t[i] \in S  BY <1>2
<1>s. \A i \in 1..n - 1 : <<s[i], s[i + 1]>> \in Turned(S)  BY DEF Linked
<1>r. w.role = s[n].role  OBVIOUS
<1>z. t # <<>>
  <2> HIDE DEF t
  <2> QED  BY <1>1, <1>2
<1> HIDE DEF n, t
<1>4. Linked(t, Turned(S))
  <2> SUFFICES ASSUME NEW i \in 1..n - 1  PROVE <<t[i], t[i + 1]>> \in Turned(S)
    BY <1>2 DEF Linked
  <2>1. i \in 1..n /\ i + 1 \in 1..n /\ i # n  BY <1>1
  <2>2. t[i] = s[i] /\ t[i] \in S /\ t[i + 1] \in S  BY <1>2, <1>3, <2>1
  <2>3. t[i + 1].role = s[i + 1].role  BY <1>2, <1>r, <2>1
  <2>4. Calling(s[i]) => s[i + 1].role = "user"  BY <1>s, <1>3, <2>1 DEF Turned
  <2> QED  BY <2>2, <2>3, <2>4 DEF Turned
<1>5. Open(t) <=> Calling(w)  BY <1>2, <1>z DEF Open
<1> QED  BY <1>2, <1>4, <1>5, <1>z DEF t, n

PushStates ==
    {x \in [out : Seq(Built), role : {"", "user", "assistant"}, blocks : Seq(UserParts)] :
        /\ Linked(x.out, Turned(Built))
        /\ x.role = "" => x.blocks = <<>>
        /\ x.role = "assistant" => x.blocks \in Seq(TextParts)
        /\ Open(x.out) => x.role = ""}

LEMMA StateFields ==
  ASSUME NEW o, NEW r, NEW b, NEW y, y = [out |-> o, role |-> r, blocks |-> b]
  PROVE  /\ y.out = o /\ y.role = r /\ y.blocks = b
         /\ \A s : [y EXCEPT !.role = s] = [out |-> o, role |-> s, blocks |-> b]
         /\ \A c : [y EXCEPT !.blocks = c] = [out |-> o, role |-> r, blocks |-> c]
OBVIOUS

LEMMA PushFields ==
  ASSUME NEW x \in PushStates
  PROVE  /\ x.out \in Seq(Built) /\ x.role \in {"", "user", "assistant"} /\ x.blocks \in Seq(UserParts)
         /\ Linked(x.out, Turned(Built))
         /\ x.role = "" => x.blocks = <<>>
         /\ x.role = "assistant" => x.blocks \in Seq(TextParts)
         /\ Open(x.out) => x.role = ""
         /\ x = [out |-> x.out, role |-> x.role, blocks |-> x.blocks]
BY DEF PushStates

LEMMA PushMade ==
  ASSUME NEW o \in Seq(Built), Linked(o, Turned(Built)),
         NEW role \in {"", "user", "assistant"}, NEW b \in Seq(UserParts),
         role = "" => b = <<>>, role = "assistant" => b \in Seq(TextParts), Open(o) => role = ""
  PROVE  [out |-> o, role |-> role, blocks |-> b] \in PushStates
BY DEF PushStates

LEMMA FlushIs ==
  ASSUME NEW x \in PushStates
  PROVE  LET o == IF x.role = "" \/ x.blocks = <<>> THEN x.out ELSE Append(x.out, Message(x.role, x.blocks))
         IN /\ Flush(x) = [out |-> o, role |-> "", blocks |-> <<>>]
            /\ o \in Seq(Built) /\ Linked(o, Turned(Built))
            /\ Open(o) <=> Open(x.out)
            /\ Open(o) => o = x.out
<1> DEFINE w == Message(x.role, x.blocks)
           o == IF x.role = "" \/ x.blocks = <<>> THEN x.out ELSE Append(x.out, w)
<1>1. Flush(x) = [out |-> o, role |-> "", blocks |-> <<>>]  BY DEF Flush
<1>2. CASE x.role = "" \/ x.blocks = <<>>  BY <1>1, <1>2, PushFields
<1>3. CASE ~(x.role = "" \/ x.blocks = <<>>)
  <2>1. ~Open(x.out)  BY <1>3, PushFields
  <2>2. w \in Built /\ ~Calling(w)
    <3>1. CASE x.role = "user"
      <4>1. w \in Asks  BY <1>3, <3>1, PushFields, BuiltIs DEF Asks
      <4>2. w.role = "user"  BY <3>1 DEF Message
      <4> QED  BY <4>1, <4>2 DEF Built, Calling
    <3>2. CASE x.role = "assistant"
      <4>1. w \in Talks  BY <1>3, <3>2, PushFields, BuiltIs DEF Talks
      <4> QED  BY <4>1, BuiltIs DEF Built, Calling
    <3> QED  BY <1>3, <3>1, <3>2, PushFields
  <2> HIDE DEF w
  <2>3. /\ Append(x.out, w) \in Seq(Built) /\ Linked(Append(x.out, w), Turned(Built))
        /\ Open(Append(x.out, w)) <=> Calling(w)
    BY <2>1, <2>2, AppendTurned, PushFields
  <2>4. o = Append(x.out, w)  BY <1>3
  <2> HIDE DEF o
  <2> QED  BY <1>1, <2>1, <2>2, <2>3, <2>4 DEF o, w
<1> QED  BY <1>2, <1>3

LEMMA FlushKeeps ==
  ASSUME NEW x \in PushStates
  PROVE  /\ Flush(x) \in PushStates /\ Flush(x).role = "" /\ Flush(x).blocks = <<>>
         /\ Open(Flush(x).out) <=> Open(x.out)
<1> DEFINE o == IF x.role = "" \/ x.blocks = <<>> THEN x.out ELSE Append(x.out, Message(x.role, x.blocks))
           y == Flush(x)
<1>1. y = [out |-> o, role |-> "", blocks |-> <<>>]
      /\ o \in Seq(Built) /\ Linked(o, Turned(Built)) /\ (Open(o) <=> Open(x.out))
  BY FlushIs
<1> HIDE DEF o, y
<1>2. [out |-> o, role |-> "", blocks |-> <<>>] \in PushStates  BY <1>1, PushMade, EmptyIn
<1>3. y.out = o /\ y.role = "" /\ y.blocks = <<>>  BY <1>1
<1>4. Open(y.out) <=> Open(x.out)  BY <1>1, <1>3
<1>5. y \in PushStates  BY <1>1, <1>2
<1> QED  BY <1>3, <1>4, <1>5 DEF y

(* Results are a message of their own, or join those before them. *)
LEMMA PushResults ==
  ASSUME NEW o \in Seq(Built), Linked(o, Turned(Built)), NEW r \in Seq(ResultParts), r # <<>>
  PROVE  LET t == PushOrMergeToolResults(o, r)
         IN t \in Seq(Built) /\ Linked(t, Turned(Built)) /\ ~Open(t)
<1> DEFINE n == Len(o)
           joins == n > 0 /\ o[n].role = "user" /\ \A p \in Range(o[n].content) : p.type = "tool_result"
           c == o[n].content \o r
           w == [o[n] EXCEPT !.content = c]
           v == Message("user", r)
<1>1. PushOrMergeToolResults(o, r) =
        IF joins THEN [o EXCEPT ![n].content = @ \o r] ELSE Append(o, v)
  BY DEF PushOrMergeToolResults
<1>2. CASE joins
  <2>1. n \in 1..n /\ o # <<>>  BY <1>2
  <2>2. o[n] \in Built  BY <2>1, MemberIn
  <2>3. o[n] \in Gives
    <3>1. o[n] \notin Uses  BY <1>2 DEF Uses, BuiltOf
    <3>2. o[n] \notin Asks
      <4> SUFFICES ASSUME o[n] \in Asks  PROVE FALSE
        OBVIOUS
      <4> DEFINE d == o[n].content
      <4>1. d \in Seq(UserParts) /\ d # <<>>  BY DEF Asks, BuiltOf
      <4>2. \A p \in Range(d) : p.type = "tool_result"  BY <1>2
      <4> HIDE DEF d
      <4>3. 1 \in 1..Len(d) /\ 1 \in DOMAIN d  BY <4>1
      <4>4. d[1] \in UserParts /\ d[1] \in Range(d)  BY <4>1, <4>3, MemberIn DEF Range
      <4> QED  BY <4>2, <4>4, BlockKinds
    <3> QED  BY <2>2, <3>1, <3>2 DEF Built
  <2>4. o[n].content \in Seq(ResultParts) /\ o[n].content # <<>>  BY <2>3 DEF Gives, BuiltOf
  <2>5. c \in Seq(ResultParts) /\ c # <<>>
    <3> DEFINE d == o[n].content
    <3>1. d \in Seq(ResultParts) /\ d # <<>>  BY <2>4
    <3> HIDE DEF d
    <3>2. d \o r \in Seq(ResultParts) /\ Len(d \o r) = Len(d) + Len(r)  BY <3>1, Joined
    <3>3. Len(d) \in Nat /\ Len(d) # 0 /\ Len(r) \in Nat  BY <3>1, EmptySeq
    <3>4. Len(d \o r) # 0  BY <3>2, <3>3
    <3> QED  BY <3>2, <3>4 DEF d
  <2>6. [o EXCEPT ![n].content = @ \o r] = [o EXCEPT ![n] = w]  BY <2>1
  <2> HIDE DEF c
  <2>7. w \in Gives /\ w.role = o[n].role  BY <2>3, <2>5 DEF Gives, BuiltOf
  <2>8. ~Calling(w)  BY <1>2, <2>7 DEF Calling
  <2> HIDE DEF w
  <2>9. w \in Built  BY <2>7 DEF Built
  <2>10. LET t == [o EXCEPT ![Len(o)] = w]
         IN t \in Seq(Built) /\ Linked(t, Turned(Built)) /\ t # <<>> /\ (Open(t) <=> Calling(w))
    BY <2>1, <2>7, <2>9, ReplaceTurned
  <2> HIDE DEF joins
  <2> QED  BY <1>1, <1>2, <2>6, <2>8, <2>10
<1>3. CASE ~joins
  <2>1. v \in Gives  BY BuiltIs DEF Gives
  <2>2. v.role = "user" /\ v \in Built  BY <2>1 DEF Built, Gives, BuiltOf
  <2>3. ~Calling(v)  BY <2>2 DEF Calling
  <2> HIDE DEF v, joins
  <2>4. /\ Append(o, v) \in Seq(Built) /\ Linked(Append(o, v), Turned(Built))
        /\ Open(Append(o, v)) <=> Calling(v)
    BY <2>2, AppendTurned
  <2> QED  BY <1>1, <1>3, <2>3, <2>4
<1> QED  BY <1>2, <1>3

(* PushMessage, by what a message becomes. *)
LEMMA PushIs ==
  ASSUME NEW x, NEW m
  PROVE  LET role == IF m.role = "tool" THEN "user" ELSE m.role
             blocks == OpenAIMessageToBlocks(m)
             results == OfType(blocks, {"tool_result"})
             f == IF x.role # role THEN [Flush(x) EXCEPT !.role = role] ELSE x
             g == [f EXCEPT !.blocks = @ \o blocks]
         IN PushMessage(x, m) =
              IF m.role = "system" THEN x
              ELSE IF results # <<>>
                THEN [out |-> PushOrMergeToolResults(Flush(x).out, results),
                      role |-> IF Others(blocks) = <<>> THEN "" ELSE role, blocks |-> Others(blocks)]
              ELSE IF OfType(blocks, {"tool_use"}) # <<>> THEN Flush(g) ELSE g
BY DEF PushMessage, Others

(* The state that collects blocks of a role, and with more of them. *)
Opened(x, role) == IF x.role # role THEN [Flush(x) EXCEPT !.role = role] ELSE x

Extended(x, role, b) == [Opened(x, role) EXCEPT !.blocks = @ \o b]

LEMMA PushSpoken ==
  ASSUME NEW x, NEW m, m.role # "tool", m.role # "system", NEW b, OpenAIMessageToBlocks(m) = b,
         OfType(b, {"tool_result"}) = <<>>
  PROVE  PushMessage(x, m) = IF OfType(b, {"tool_use"}) # <<>> THEN Flush(Extended(x, m.role, b))
                             ELSE Extended(x, m.role, b)
<1> DEFINE role == IF m.role = "tool" THEN "user" ELSE m.role
           f == IF x.role # role THEN [Flush(x) EXCEPT !.role = role] ELSE x
           g == [f EXCEPT !.blocks = @ \o b]
<1>1. role = m.role  OBVIOUS
<1> HIDE DEF role
<1>2. PushMessage(x, m) = IF OfType(b, {"tool_use"}) # <<>> THEN Flush(g) ELSE g
  <2>1. PushMessage(x, m) =
          IF m.role = "system" THEN x
          ELSE IF OfType(b, {"tool_result"}) # <<>>
            THEN [out |-> PushOrMergeToolResults(Flush(x).out, OfType(b, {"tool_result"})),
                  role |-> IF Others(b) = <<>> THEN "" ELSE role, blocks |-> Others(b)]
          ELSE IF OfType(b, {"tool_use"}) # <<>> THEN Flush(g) ELSE g
    BY DEF PushMessage, Others, role
  <2> HIDE DEF g
  <2> QED  BY <2>1
<1>3. g = Extended(x, role, b)  BY DEF Extended, Opened
<1> HIDE DEF g
<1> QED  BY <1>1, <1>2, <1>3

LEMMA PushTool ==
  ASSUME NEW T \in SUBSET OpenAITypes, NEW x \in PushStates, NEW m \in NamedForm(T), m.role = "tool"
  PROVE  PushMessage(x, m) \in PushStates /\ ~Open(PushMessage(x, m).out)
<1> DEFINE r == ToolResult(m.id, JoinedText(m.content, {"text"}))
           b == <<r>>
           results == OfType(b, {"tool_result"})
           o == PushOrMergeToolResults(Flush(x).out, results)
<1>1. r \in ResultParts
  <2>1. m.content \in Seq(PartsOf(T)) /\ m.id \in IDs  BY NamedFields, FormFields
  <2>2. JoinedText(m.content, {"text"}) \in Seq(Int)  BY <2>1, OfTypeTypes
  <2>3. "tool_result" \in {"tool_result"}  OBVIOUS
  <2> QED  BY <2>1, <2>2, <2>3, ResultTypes DEF ResultParts
<1>2. OpenAIMessageToBlocks(m) = b  BY DEF OpenAIMessageToBlocks
<1> HIDE DEF r
<1>3. b \in Seq(ResultParts) /\ 1 \in DOMAIN b /\ b[1] = r  BY <1>1, OneIn
<1> HIDE DEF b
<1>4. results # <<>>
  <2>1. b[1].type \in {"tool_result"}  BY <1>1, <1>3, BlockKinds
  <2> QED  BY <1>3, <2>1, OfTypeHas
<1>5. results \in Seq(ResultParts)
  <2>1. results \in Seq(PartsOf({"tool_result"} \cap {"tool_result"}))  BY <1>3, OfTypeTypes DEF ResultParts
  <2>2. {"tool_result"} \cap {"tool_result"} = {"tool_result"}  OBVIOUS
  <2> QED  BY <2>1, <2>2 DEF ResultParts
<1>6. Others(b) = <<>>
  <2>1. \A p \in ResultParts : p.type # "tool_result" => p \in {}  BY BlockKinds
  <2>2. Others(b) \in Seq({})  BY <1>3, <2>1, OthersIn
  <2> QED  BY <2>2, OnlyNone
<1> HIDE DEF results
<1>7. PushMessage(x, m) = [out |-> o, role |-> "", blocks |-> <<>>]
  BY <1>2, <1>4, <1>6, PushIs DEF results
<1>8. o \in Seq(Built) /\ Linked(o, Turned(Built)) /\ ~Open(o)
  <2>1. Flush(x) \in PushStates  BY FlushKeeps
  <2>2. Flush(x).out \in Seq(Built) /\ Linked(Flush(x).out, Turned(Built))  BY <2>1, PushFields
  <2> QED  BY <1>4, <1>5, <2>2, PushResults
<1> HIDE DEF o
<1>9. [out |-> o, role |-> "", blocks |-> <<>>] \in PushStates  BY <1>8, PushMade, EmptyIn
<1> DEFINE y == PushMessage(x, m)
<1>10. y = [out |-> o, role |-> "", blocks |-> <<>>]  BY <1>7
<1> HIDE DEF y
<1>11. y.out = o  BY <1>10
<1> QED  BY <1>8, <1>9, <1>10, <1>11 DEF y

(* What collects blocks of one role. *)
LEMMA PushOpened ==
  ASSUME NEW x \in PushStates, NEW role \in {"user", "assistant"}, ~Open(x.out)
  PROVE  LET f == IF x.role # role THEN [Flush(x) EXCEPT !.role = role] ELSE x
         IN /\ f.out \in Seq(Built) /\ Linked(f.out, Turned(Built)) /\ f.role = role
            /\ f.blocks \in Seq(UserParts) /\ ~Open(f.out)
            /\ role = "assistant" => f.blocks \in Seq(TextParts)
            /\ f = [out |-> f.out, role |-> f.role, blocks |-> f.blocks]
<1>1. CASE x.role = role  BY <1>1, PushFields
<1>2. CASE x.role # role
  <2> DEFINE y == Flush(x)
             f == [y EXCEPT !.role = role]
  <2>1. y \in PushStates /\ y.blocks = <<>> /\ ~Open(y.out)  BY FlushKeeps
  <2>2. /\ y.out \in Seq(Built) /\ Linked(y.out, Turned(Built)) /\ y.blocks \in Seq(UserParts)
        /\ y = [out |-> y.out, role |-> y.role, blocks |-> y.blocks]
    BY <2>1, PushFields
  <2> HIDE DEF y
  <2>3. f.out = y.out /\ f.role = role /\ f.blocks = y.blocks /\ f = [out |-> f.out, role |-> f.role, blocks |-> f.blocks]
    BY <2>2
  <2>4. y.blocks \in Seq(TextParts)  BY <2>1, EmptyIn
  <2> HIDE DEF f
  <2> QED  BY <1>2, <2>1, <2>2, <2>3, <2>4 DEF f, y
<1> QED  BY <1>1, <1>2

LEMMA PushUser ==
  ASSUME NEW T \in SUBSET OpenAITypes, NEW x \in PushStates, NEW m \in NamedForm(T), m.role = "user",
         ~Open(x.out)
  PROVE  PushMessage(x, m) \in PushStates /\ ~Open(PushMessage(x, m).out)
<1> DEFINE b == UserContentToBlocks(m)
           f == IF x.role # "user" THEN [Flush(x) EXCEPT !.role = "user"] ELSE x
           c == f.blocks \o b
           g == [f EXCEPT !.blocks = @ \o b]
<1>1. OpenAIMessageToBlocks(m) = b  BY DEF OpenAIMessageToBlocks
<1>2. b \in Seq(UserParts)  BY UserBlocks
<1> HIDE DEF b
<1>3. OfType(b, {"tool_result"}) = <<>> /\ OfType(b, {"tool_use"}) = <<>>
  <2>1. \A p \in UserParts : p.type \notin {"tool_result"} /\ p.type \notin {"tool_use"}  BY BlockKinds
  <2> QED  BY <1>2, <2>1, OfTypeNone
<1>4. PushMessage(x, m) = g
  <2>1. m.role # "system" /\ m.role # "tool"  OBVIOUS
  <2> QED  BY <1>1, <1>3, <2>1, PushIs
<1>5. /\ f.out \in Seq(Built) /\ Linked(f.out, Turned(Built)) /\ f.role = "user"
      /\ f.blocks \in Seq(UserParts) /\ ~Open(f.out)
      /\ f = [out |-> f.out, role |-> f.role, blocks |-> f.blocks]
  <2>1. "user" \in {"user", "assistant"}  OBVIOUS
  <2> QED  BY <2>1, PushOpened
<1> HIDE DEF f
<1>6. g = [out |-> f.out, role |-> "user", blocks |-> c]
  <2> DEFINE ro == f.role
             o == f.out
             e == f.blocks
  <2>1. f = [out |-> o, role |-> ro, blocks |-> e] /\ ro = "user"  BY <1>5
  <2>2. g = [f EXCEPT !.blocks = c]  OBVIOUS
  <2> HIDE DEF ro, o, e, c, g
  <2>3. g = [out |-> o, role |-> ro, blocks |-> c]  BY <2>1, <2>2
  <2> QED  BY <2>1, <2>3 DEF o
<1>7. c \in Seq(UserParts)  BY <1>2, <1>5
<1> HIDE DEF c, g
<1>8. [out |-> f.out, role |-> "user", blocks |-> c] \in PushStates
  <2>1. "user" \in {"", "user", "assistant"} /\ "user" # "" /\ "user" # "assistant"  OBVIOUS
  <2> QED  BY <1>5, <1>7, <2>1, PushMade
<1>9. g.out = f.out  BY <1>6, StateFields
<1> QED  BY <1>4, <1>5, <1>6, <1>8, <1>9

LEMMA PushAssistant ==
  ASSUME NEW T \in SUBSET OpenAITypes, NEW x \in PushStates, NEW m \in NamedForm(T), m.role = "assistant",
         ~Open(x.out)
  PROVE  /\ PushMessage(x, m) \in PushStates
         /\ Open(PushMessage(x, m).out) => m.calls # <<>>
<1> DEFINE b == AssistantContentToBlocks(m)
           f == IF x.role # "assistant" THEN [Flush(x) EXCEPT !.role = "assistant"] ELSE x
           c == f.blocks \o b
           g == [f EXCEPT !.blocks = @ \o b]
<1>1. OpenAIMessageToBlocks(m) = b  BY DEF OpenAIMessageToBlocks
<1>2. PICK a \in Seq(TextParts), u \in Seq(UseParts) : b = a \o u /\ (m.calls = <<>> => u = <<>>)
  BY AssistantBlocks
<1>3. b \in Seq(TextParts \cup UseParts)
  <2>1. a \in Seq(TextParts \cup UseParts) /\ u \in Seq(TextParts \cup UseParts)  OBVIOUS
  <2> QED  BY <1>2, <2>1
<1> HIDE DEF b
<1>4. OfType(b, {"tool_result"}) = <<>>
  <2>1. \A p \in TextParts \cup UseParts : p.type \notin {"tool_result"}  BY BlockKinds
  <2> QED  BY <1>3, <2>1, OfTypeNone
<1>5. PushMessage(x, m) = IF OfType(b, {"tool_use"}) # <<>> THEN Flush(g) ELSE g
  <2>1. m.role # "system" /\ m.role # "tool"  OBVIOUS
  <2>2. PushMessage(x, m) = IF OfType(b, {"tool_use"}) # <<>> THEN Flush(Extended(x, m.role, b))
                            ELSE Extended(x, m.role, b)
    BY <1>1, <1>4, <2>1, PushSpoken
  <2>3. g = Extended(x, "assistant", b)  BY DEF Extended, Opened
  <2> HIDE DEF g
  <2> QED  BY <2>2, <2>3
<1>6. /\ f.out \in Seq(Built) /\ Linked(f.out, Turned(Built)) /\ f.role = "assistant"
      /\ f.blocks \in Seq(TextParts) /\ ~Open(f.out)
      /\ f = [out |-> f.out, role |-> f.role, blocks |-> f.blocks]
  <2>1. "assistant" \in {"user", "assistant"}  OBVIOUS
  <2> QED  BY <2>1, PushOpened
<1> HIDE DEF f
<1>7. g = [out |-> f.out, role |-> "assistant", blocks |-> c]
  <2> DEFINE ro == f.role
             o == f.out
             e == f.blocks
  <2>1. f = [out |-> o, role |-> ro, blocks |-> e] /\ ro = "assistant"  BY <1>6
  <2>2. g = [f EXCEPT !.blocks = c]  OBVIOUS
  <2> HIDE DEF ro, o, e, c, g
  <2>3. g = [out |-> o, role |-> ro, blocks |-> c]  BY <2>1, <2>2
  <2> QED  BY <2>1, <2>3 DEF o
<1>8. CASE OfType(b, {"tool_use"}) = <<>>
  <2>1. u = <<>>
    <3> SUFFICES ASSUME u # <<>>  PROVE FALSE
      OBVIOUS
    <3>1. Len(a) \in Nat /\ Len(u) \in Nat /\ 1 \in 1..Len(u)  BY EmptySeq
    <3>2. Len(b) = Len(a) + Len(u) /\ b[Len(a) + 1] = u[1]  BY <1>2, <3>1, Joined, <1>3
    <3>3. u[1] \in UseParts  BY <3>1, MemberIn
    <3>4. u[1].type \in {"tool_use"}  BY <3>3, BlockKinds
    <3>5. Len(a) + 1 \in 1..Len(b)  BY <3>1, <3>2
    <3>6. Len(a) + 1 \in DOMAIN b  BY <1>3, <3>5
    <3> QED  BY <1>3, <1>8, <3>2, <3>4, <3>6, OfTypeHas
  <2>2. b = a  BY <1>2, <2>1
  <2>3. c \in Seq(TextParts)  BY <1>6, <2>2
  <2> HIDE DEF c, g
  <2>4. c \in Seq(UserParts)
    <3>1. TextParts \subseteq UserParts  BY BlockKinds
    <3> QED  BY <2>3, <3>1, Widen
  <2>5. [out |-> f.out, role |-> "assistant", blocks |-> c] \in PushStates
    <3>1. "assistant" \in {"", "user", "assistant"} /\ "assistant" # ""  OBVIOUS
    <3> QED  BY <1>6, <2>3, <2>4, <3>1, PushMade
  <2>6. g.out = f.out  BY <1>7, StateFields
  <2> QED  BY <1>5, <1>6, <1>7, <1>8, <2>5, <2>6
<1>9. CASE OfType(b, {"tool_use"}) # <<>>
  <2>1. m.calls # <<>>
    <3> SUFFICES ASSUME m.calls = <<>>  PROVE FALSE
      OBVIOUS
    <3>1. b \in Seq(TextParts)  BY <1>2
    <3>2. \A p \in TextParts : p.type \notin {"tool_use"}  BY BlockKinds
    <3> QED  BY <1>9, <3>1, <3>2, OfTypeNone
  <2>2. c \in Tailed
    <3> DEFINE e == f.blocks \o a
    <3>0. f.blocks \in Seq(TextParts)  BY <1>6
    <3>1. e \in Seq(TextParts)  BY <3>0
    <3>2. c = e \o u
      <4> DEFINE d == f.blocks
      <4>1. d \in Seq(TextParts \cup UseParts) /\ a \in Seq(TextParts \cup UseParts) /\ u \in Seq(TextParts \cup UseParts)
        BY <3>0
      <4> HIDE DEF d
      <4>2. d \o (a \o u) = (d \o a) \o u  BY <4>1, ConcatAssociative
      <4> QED  BY <1>2, <4>2 DEF d
    <3> HIDE DEF e, c
    <3>3. e \in Seq(TextParts \cup UseParts) /\ u \in Seq(TextParts \cup UseParts)  BY <3>1
    <3>4. e \o u \in Seq(TextParts \cup UseParts)  BY <3>3
    <3> QED  BY <3>1, <3>2, <3>4 DEF Tailed
  <2> DEFINE w == Message("assistant", c)
             o == IF c = <<>> THEN f.out ELSE Append(f.out, w)
  <2>3. Flush(g) = [out |-> o, role |-> "", blocks |-> <<>>]  BY <1>7 DEF Flush
  <2> HIDE DEF c, g
  <2>4. o \in Seq(Built) /\ Linked(o, Turned(Built))
    <3>1. CASE c = <<>>  BY <3>1, <1>6
    <3>2. CASE c # <<>>
      <4>1. w \in Uses  BY <2>2, <3>2, BuiltIs DEF Uses
      <4>2. w \in Built  BY <4>1 DEF Built
      <4> HIDE DEF w
      <4> QED  BY <1>6, <3>2, <4>2, AppendTurned
    <3> QED  BY <3>1, <3>2
  <2> HIDE DEF o
  <2>5. [out |-> o, role |-> "", blocks |-> <<>>] \in PushStates  BY <2>4, PushMade, EmptyIn
  <2> QED  BY <1>5, <1>9, <2>1, <2>3, <2>5
<1> QED  BY <1>8, <1>9

LEMMA PushStep ==
  ASSUME NEW T \in SUBSET OpenAITypes, NEW x \in PushStates, NEW m \in NamedForm(T),
         Open(x.out) => m.role = "tool"
  PROVE  /\ PushMessage(x, m) \in PushStates
         /\ Open(PushMessage(x, m).out) => m.calls # <<>>
<1>1. m.role \in {"system", "user", "tool", "assistant"}  BY NamedFields, FormFields
<1>2. CASE m.role = "system"
  <2>1. PushMessage(x, m) = x  BY <1>2 DEF PushMessage
  <2>2. ~Open(x.out)  BY <1>2
  <2> QED  BY <2>1, <2>2
<1>3. CASE m.role = "tool"  BY <1>3, PushTool
<1>4. CASE m.role = "user"  BY <1>4, PushUser
<1>5. CASE m.role = "assistant"  BY <1>5, PushAssistant
<1> QED  BY <1>1, <1>2, <1>3, <1>4, <1>5

(* The messages of a Claude request: every call is followed by a user. *)
LEMMA BuildClaude ==
  ASSUME NEW T \in SUBSET OpenAITypes, NEW s \in Seq(NamedForm(T)),
         Linked(s, Follows(NamedForm(T))), Answered(s)
  PROVE  /\ BuildClaudeMessages(s) \in Seq(Built)
         /\ Linked(BuildClaudeMessages(s), Turned(Built))
<1> DEFINE F == NamedForm(T)
           N == Len(s)
           b == [out |-> <<>>, role |-> "", blocks |-> <<>>]
           X == [n \in 0..N |-> {x \in PushStates : Open(x.out) => n # 0 /\ s[n].calls # <<>>}]
           L == Loop(PushMessage, b, s)
<1>1. N \in Nat  OBVIOUS
<1>2. b \in X[0]
  <2>1. Linked(<<>>, Turned(Built)) /\ ~Open(<<>>)  BY DEF Linked, Open
  <2>2. <<>> \in Seq(Built) /\ <<>> \in Seq(UserParts)  BY EmptyIn
  <2>3. b \in PushStates  BY <2>1, <2>2, PushMade
  <2>4. b.out = <<>>  OBVIOUS
  <2> HIDE DEF b
  <2>5. ~Open(b.out)  BY <2>1, <2>4
  <2>6. 0 \in 0..N  BY <1>1
  <2> QED  BY <2>3, <2>5, <2>6
<1>3. PushSteps(X, s)
  <2> SUFFICES ASSUME NEW n \in 1..N, NEW x \in X[n - 1]  PROVE PushMessage(x, s[n]) \in X[n]
    BY DEF PushSteps
  <2>1. n - 1 \in 0..N /\ n \in 0..N /\ n # 0  BY <1>1
  <2>2. x \in PushStates /\ (Open(x.out) => n - 1 # 0 /\ s[n - 1].calls # <<>>)  BY <2>1
  <2>3. s[n] \in F  BY MemberIn
  <2>4. Open(x.out) => s[n].role = "tool"
    <3> SUFFICES ASSUME Open(x.out)  PROVE s[n].role = "tool"
      OBVIOUS
    <3>1. n - 1 # 0 /\ s[n - 1].calls # <<>>  BY <2>2
    <3> DEFINE k == n - 1
    <3>2. k \in 1..N - 1 /\ k + 1 = n  BY <1>1, <3>1
    <3> HIDE DEF k
    <3>3. <<s[k], s[k + 1]>> \in Follows(F)  BY <3>2 DEF Linked
    <3>4. s[k].calls # <<>> => s[k + 1].role = "tool"  BY <3>3 DEF Follows
    <3> QED  BY <3>1, <3>2, <3>4 DEF k
  <2> DEFINE y == PushMessage(x, s[n])
  <2> HIDE DEF F
  <2>5. y \in PushStates /\ (Open(y.out) => s[n].calls # <<>>)  BY <2>2, <2>3, <2>4, PushStep DEF F
  <2> HIDE DEF y
  <2>6. y \in X[n]  BY <2>1, <2>5
  <2> QED  BY <2>6 DEF y
<1>4. BuildClaudeMessages(s) = Flush(L).out  BY DEF BuildClaudeMessages
<1> HIDE DEF b
<1>5. L \in X[Len(s)]
  <2> HIDE DEF X
  <2> QED  BY <1>2, <1>3, PushLoop
<1>6. L \in PushStates
  <2>1. N \in 0..N  BY <1>1
  <2> HIDE DEF L
  <2> QED  BY <1>5, <2>1
<1> HIDE DEF L, X
<1>7. Flush(L) \in PushStates  BY <1>6, FlushKeeps
<1> QED  BY <1>4, <1>7, PushFields

-----------------------------------------------------------------------------
(* A Keep, or FlattenSeq, that leaves nothing out. *)
LEMMA FlattenOnes ==
  ASSUME NEW S, NEW s \in Seq(S), NEW h, Maps(h, s, Seq(S)), \A i \in DOMAIN s : h[i] = <<s[i]>>
  PROVE  FlattenSeq(h) = s
<1> DEFINE N == Len(s)
<1>1. h \in Seq(Seq(S)) /\ Len(h) = N  BY EachIn
<1>2. PICK f : Flattens(f, h, S)  BY <1>1, FlattenIs
<1>3. /\ f \in [0..N -> Seq(S)] /\ f[0] = <<>> /\ FlattenSeq(h) = f[N]
      /\ \A n \in 1..N : f[n] = f[n - 1] \o <<s[n]>>
  <2>1. /\ f \in [0..Len(h) -> Seq(S)] /\ f[0] = <<>> /\ FlattenSeq(h) = f[Len(h)]
        /\ \A n \in 1..Len(h) : f[n] = f[n - 1] \o h[n]
    BY <1>2 DEF Flattens
  <2>2. \A n \in 1..N : h[n] = <<s[n]>>  OBVIOUS
  <2> HIDE DEF N
  <2> QED  BY <1>1, <2>1, <2>2
<1>4. N \in Nat /\ \A n \in 1..N : s[n] \in S  OBVIOUS
<1>s. s = [i \in 1..N |-> s[i]]  OBVIOUS
<1> HIDE DEF N
<1> DEFINE B == {n \in 0..N : Len(f[n]) = n /\ \A i \in 1..n : f[n][i] = s[i]}
<1>5. 0 \in B  BY <1>3, <1>4
<1>6. \A n \in 0..(N - 1) : n \in B => n + 1 \in B
  <2> SUFFICES ASSUME NEW n \in 0..(N - 1), n \in B  PROVE n + 1 \in B
    OBVIOUS
  <2>1. n \in Nat /\ n \in 0..N /\ n + 1 \in 1..N /\ n + 1 \in 0..N /\ (n + 1) - 1 = n  BY <1>4
  <2> DEFINE a == f[n]
             c == <<s[n + 1]>>
  <2>2. f[n + 1] = a \o c
    <3>1. f[n + 1] = f[(n + 1) - 1] \o <<s[n + 1]>>  BY <1>3, <2>1
    <3> QED  BY <2>1, <3>1
  <2>3. a \in Seq(S) /\ Len(a) = n /\ \A i \in 1..n : a[i] = s[i]  BY <1>3, <2>1
  <2>4. c \in Seq(S) /\ Len(c) = 1 /\ c[1] = s[n + 1]  BY <1>4, <2>1
  <2> HIDE DEF a, c
  <2>5. /\ Len(a \o c) = n + 1
        /\ \A i \in 1..n : (a \o c)[i] = s[i]
        /\ (a \o c)[n + 1] = s[n + 1]
    <3>0. a \in Seq(S) /\ c \in Seq(S)  BY <2>3, <2>4
    <3>1. /\ Len(a \o c) = Len(a) + Len(c)
          /\ \A i \in 1..Len(a) : (a \o c)[i] = a[i]
          /\ \A i \in 1..Len(c) : (a \o c)[Len(a) + i] = c[i]
      BY <3>0, Joined
    <3>2. 1 \in 1..Len(c)  BY <2>4
    <3>3. (a \o c)[n + 1] = s[n + 1]  BY <2>3, <2>4, <3>1, <3>2
    <3> QED  BY <2>3, <2>4, <3>1, <3>3
  <2>6. \A i \in 1..n + 1 : i \in 1..n \/ i = n + 1  BY <2>1
  <2> QED  BY <2>1, <2>2, <2>5, <2>6
<1> HIDE DEF B
<1>7. N \in B
  <2>1. N \in 0..N  BY <1>4
  <2> QED  BY <1>4, <1>5, <1>6, <2>1, UpTo
<1>8. f[N] \in Seq(S) /\ Len(f[N]) = N /\ \A i \in 1..N : f[N][i] = s[i]
  <2>1. N \in 0..N  BY <1>4
  <2> QED  BY <1>3, <1>7, <2>1 DEF B
<1> DEFINE g == f[N]
<1>9. g = [i \in 1..N |-> g[i]]
  <2>1. g \in Seq(S) /\ Len(g) = N  BY <1>8
  <2> HIDE DEF g
  <2> QED  BY <2>1
<1>10. \A i \in 1..N : g[i] = s[i]  BY <1>8
<1> HIDE DEF g
<1>11. g = s  BY <1>s, <1>9, <1>10
<1> QED  BY <1>3, <1>11 DEF g

(* A loop over the members that all pass. *)
LEMMA KeptAll ==
  ASSUME NEW S, NEW s \in Seq(S), NEW h, h = [i \in DOMAIN s |-> h[i]], \A i \in DOMAIN s : h[i] = <<s[i]>>
  PROVE  FlattenSeq(h) = s
<1>1. \A i \in DOMAIN s : s[i] \in S  OBVIOUS
<1>2. \A i \in DOMAIN s : h[i] \in Seq(S)  BY <1>1, OneIn
<1>3. Maps(h, s, Seq(S))  BY <1>2 DEF Maps
<1> QED  BY <1>3, FlattenOnes

-----------------------------------------------------------------------------
(* PrepareClaudeRequest: nothing is empty, and roles alternate.            *)

(* Messages that the Messages API takes: neither they nor their texts are  *)
(* empty.                                                                  *)
AllParts == UserParts \cup ResultParts \cup UseParts

Sound == BuiltOf({"user", "assistant"}, Seq(AllParts))

LEMMA PartsSound ==
  \A p \in AllParts :
    /\ p.type \in {"text", "image", "tool_result", "tool_use"}
    /\ p.type = "text" => p.text # <<>>
BY BlockKinds DEF AllParts

LEMMA SoundFields ==
  ASSUME NEW m \in Sound
  PROVE  /\ m.content \in Seq(AllParts) /\ m.content # <<>> /\ m.role \in {"user", "assistant"}
         /\ m.calls = <<>> /\ [m EXCEPT !.content = m.content] = m
BY DEF Sound, BuiltOf

LEMMA StripSound ==
  ASSUME NEW s \in Seq(Sound)
  PROVE  StripRejectableBlocks(s) = s
<1> DEFINE K(m) == Keep(m.content, LAMBDA p : p.type # "bare" /\ ~IsRejectableBlock(p))
           h == [i \in DOMAIN s |-> [s[i] EXCEPT !.content = K(s[i])]]
<1>1. StripRejectableBlocks(s) = h  BY DEF StripRejectableBlocks, MapEach
<1>2. ASSUME NEW m \in Sound  PROVE [m EXCEPT !.content = K(m)] = m
  <2> DEFINE c == m.content
             g == [i \in DOMAIN c |-> IF c[i].type # "bare" /\ ~IsRejectableBlock(c[i]) THEN <<c[i]>> ELSE <<>>]
  <2>1. K(m) = FlattenSeq(g)  BY DEF Keep
  <2>2. c \in Seq(AllParts)  BY SoundFields
  <2> HIDE DEF c
  <2>3. \A i \in DOMAIN c : c[i] \in AllParts  BY <2>2
  <2>4. \A i \in DOMAIN c : c[i].type # "bare" /\ ~IsRejectableBlock(c[i])
    BY <2>3, PartsSound DEF IsRejectableBlock
  <2>5. g = [i \in DOMAIN c |-> g[i]] /\ \A i \in DOMAIN c : g[i] = <<c[i]>>  BY <2>4
  <2> HIDE DEF g
  <2>6. FlattenSeq(g) = c  BY <2>2, <2>5, KeptAll
  <2> HIDE DEF K
  <2> QED  BY <2>1, <2>6, SoundFields DEF c
<1>3. \A i \in DOMAIN s : s[i] \in Sound  OBVIOUS
<1> HIDE DEF K
<1>4. h = [i \in DOMAIN s |-> s[i]]  BY <1>2, <1>3
<1> HIDE DEF h
<1> QED  BY <1>1, <1>4

LEMMA SoundValid ==
  ASSUME NEW m \in Sound
  PROVE  HasValidContent(m)
<1> DEFINE c == m.content
<1>1. c \in Seq(AllParts) /\ c # <<>>  BY SoundFields
<1> HIDE DEF c
<1>2. 1 \in 1..Len(c) /\ 1 \in DOMAIN c  BY <1>1
<1>3. c[1] \in AllParts /\ c[1] \in Range(c)  BY <1>1, <1>2, MemberIn DEF Range
<1>4. c[1].type \in {"tool_use", "tool_result", "image"} \/ (c[1].type = "text" /\ c[1].text # <<>>)
  BY <1>3, PartsSound
<1> QED  BY <1>3, <1>4 DEF HasValidContent, c

LEMMA DropSound ==
  ASSUME NEW s \in Seq(Sound)
  PROVE  DropEmptyMessages(s) = s
<1> DEFINE g == [i \in DOMAIN s |-> IF HasValidContent(s[i]) \/ (i = Len(s) /\ s[i].role = "assistant")
                                    THEN <<s[i]>> ELSE <<>>]
<1>1. DropEmptyMessages(s) = FlattenSeq(g)  BY DEF DropEmptyMessages
<1>2. \A i \in DOMAIN s : s[i] \in Sound  OBVIOUS
<1>3. g = [i \in DOMAIN s |-> g[i]] /\ \A i \in DOMAIN s : g[i] = <<s[i]>>  BY <1>2, SoundValid
<1> HIDE DEF g
<1> QED  BY <1>1, <1>3, KeptAll

LEMMA TailedIs ==
  ASSUME NEW c \in Tailed, NEW i \in 1..Len(c), NEW j \in 1..Len(c), c[j].type = "tool_use"
  PROVE  c[i].type = "tool_use" \/ i < j
<1>1. PICK a \in Seq(TextParts), u \in Seq(UseParts) : c = a \o u  BY DEF Tailed
<1> DEFINE S == TextParts \cup UseParts
           l == Len(a)
           k == Len(u)
<1>2. a \in Seq(S) /\ u \in Seq(S)  OBVIOUS
<1> HIDE DEF S
<1>3. /\ Len(c) = l + k
      /\ \A n \in 1..l : c[n] = a[n]
      /\ \A n \in 1..k : c[l + n] = u[n]
  BY <1>1, <1>2, Joined
<1>4. l \in Nat /\ k \in Nat /\ (\A n \in 1..l : a[n] \in TextParts) /\ (\A n \in 1..k : u[n] \in UseParts)
  OBVIOUS
<1> HIDE DEF l, k
<1>5. j > l
  <2> SUFFICES ASSUME j <= l  PROVE FALSE
    BY <1>3, <1>4
  <2>1. j \in 1..l  BY <1>3, <1>4
  <2>2. c[j] \in TextParts  BY <1>3, <1>4, <2>1
  <2> QED  BY <2>2, BlockKinds
<1>6. CASE i <= l  BY <1>3, <1>4, <1>5, <1>6
<1>7. CASE i > l
  <2>1. i - l \in 1..k /\ l + (i - l) = i  BY <1>3, <1>4, <1>7
  <2>2. c[i] \in UseParts  BY <1>3, <1>4, <2>1
  <2> QED  BY <2>2, BlockKinds
<1> QED  BY <1>3, <1>4, <1>6, <1>7

LEMMA HeadedIs ==
  ASSUME NEW c \in Headed, NEW i \in 1..Len(c), NEW j \in 1..Len(c), c[j].type = "tool_result", i < j
  PROVE  c[i].type = "tool_result"
<1>1. PICK a \in Seq(ResultParts), u \in Seq(UserParts) : c = a \o u  BY DEF Headed
<1> DEFINE S == ResultParts \cup UserParts
           l == Len(a)
           k == Len(u)
<1>2. a \in Seq(S) /\ u \in Seq(S)  OBVIOUS
<1> HIDE DEF S
<1>3. /\ Len(c) = l + k
      /\ \A n \in 1..l : c[n] = a[n]
      /\ \A n \in 1..k : c[l + n] = u[n]
  BY <1>1, <1>2, Joined
<1>4. l \in Nat /\ k \in Nat /\ (\A n \in 1..l : a[n] \in ResultParts) /\ (\A n \in 1..k : u[n] \in UserParts)
  OBVIOUS
<1> HIDE DEF l, k
<1>5. j <= l
  <2> SUFFICES ASSUME j > l  PROVE FALSE
    BY <1>3, <1>4
  <2>1. j - l \in 1..k /\ l + (j - l) = j  BY <1>3, <1>4
  <2>2. c[j] \in UserParts  BY <1>3, <1>4, <2>1
  <2> QED  BY <2>2, BlockKinds
<1>6. i \in 1..l  BY <1>3, <1>4, <1>5
<1>7. c[i] \in ResultParts  BY <1>3, <1>4, <1>6
<1> QED  BY <1>7, BlockKinds

(* After merging, a user gives results and then asks. *)
Merged == BuiltOf({"user"}, Headed) \cup Uses

LEMMA MergedIs ==
  /\ Built \subseteq Merged /\ Merged \subseteq Sound
  /\ \A m \in Merged : m.role = "user" => m.content \in Headed /\ m.content # <<>>
  /\ \A m \in Merged : m.role = "assistant" => m \in Uses /\ m.content \in Tailed /\ m.content # <<>>
<1>1. \A c \in Seq(UserParts) : c \in Headed
  <2> TAKE c \in Seq(UserParts)
  <2>1. c = <<>> \o c /\ <<>> \in Seq(ResultParts) /\ c \in Seq(ResultParts \cup UserParts)  OBVIOUS
  <2> QED  BY <2>1 DEF Headed
<1>2. \A c \in Seq(ResultParts) : c \in Headed
  <2> TAKE c \in Seq(ResultParts)
  <2>1. c = c \o <<>> /\ <<>> \in Seq(UserParts) /\ c \in Seq(ResultParts \cup UserParts)  OBVIOUS
  <2> QED  BY <2>1 DEF Headed
<1>3. Built \subseteq Merged  BY <1>1, <1>2 DEF Built, Asks, Gives, Merged, BuiltOf
<1>4. \A c \in Headed : c \in Seq(AllParts)
  <2>1. ResultParts \cup UserParts \subseteq AllParts  BY DEF AllParts
  <2> QED  BY <2>1, Widen DEF Headed
<1>5. \A c \in Tailed : c \in Seq(AllParts)
  <2>1. TextParts \cup UseParts \subseteq AllParts  BY BlockKinds DEF AllParts
  <2> QED  BY <2>1, Widen DEF Tailed
<1>6. Merged \subseteq Sound  BY <1>4, <1>5 DEF Merged, Sound, Uses, BuiltOf
<1>7. \A m \in Merged : m.role = "user" => m.content \in Headed /\ m.content # <<>>  BY DEF Merged, Uses, BuiltOf
<1>8. \A m \in Merged : m.role = "assistant" => m \in Uses /\ m.content \in Tailed /\ m.content # <<>>
  BY DEF Merged, Uses, BuiltOf
<1> QED  BY <1>3, <1>6, <1>7, <1>8

LEMMA OrderingKept ==
  ASSUME NEW m \in Merged
  PROVE  FixToolUseOrdering(m) = m
<1>1. CASE m.role # "assistant"  BY <1>1 DEF FixToolUseOrdering
<1>2. CASE m.role = "assistant"
  <2> DEFINE c == m.content
             uses == {i \in DOMAIN c : c[i].type = "tool_use"}
             keep(i) == c[i].type \in {"tool_use", "thinking"} \/ \A j \in uses : i < j
             g == [i \in DOMAIN c |-> IF keep(i) THEN <<c[i]>> ELSE <<>>]
  <2>1. FixToolUseOrdering(m) = [m EXCEPT !.content = FlattenSeq(g)]  BY <1>2 DEF FixToolUseOrdering
  <2>2. c \in Tailed  BY <1>2, MergedIs
  <2> HIDE DEF c
  <2>3. c \in Seq(TextParts \cup UseParts)  BY <2>2 DEF Tailed
  <2>4. \A i \in DOMAIN c : keep(i)
    <3> SUFFICES ASSUME NEW i \in DOMAIN c, c[i].type # "tool_use", NEW j \in uses  PROVE i < j
      OBVIOUS
    <3>1. i \in 1..Len(c) /\ j \in 1..Len(c) /\ c[j].type = "tool_use"  BY <2>3
    <3> QED  BY <2>2, <3>1, TailedIs
  <2> HIDE DEF keep
  <2>5. g = [i \in DOMAIN c |-> g[i]] /\ \A i \in DOMAIN c : g[i] = <<c[i]>>  BY <2>4
  <2> HIDE DEF g
  <2>6. FlattenSeq(g) = c  BY <2>3, <2>5, KeptAll
  <2>7. m \in Sound  BY MergedIs
  <2> QED  BY <2>1, <2>6, <2>7, SoundFields DEF c
<1> QED  BY <1>1, <1>2

(* Before the merge, PrepareClaudeRequest changes nothing. *)
LEMMA PreparedBuilt ==
  ASSUME NEW s \in Seq(Built)
  PROVE  MapEach(FixToolUseOrdering, DropEmptyMessages(StripRejectableBlocks(s))) = s
<1>1. s \in Seq(Sound)
  <2>1. Built \subseteq Sound  BY MergedIs
  <2> QED  BY <2>1, Widen
<1>2. StripRejectableBlocks(s) = s /\ DropEmptyMessages(s) = s  BY <1>1, StripSound, DropSound
<1> DEFINE h == [i \in DOMAIN s |-> FixToolUseOrdering(s[i])]
<1>3. MapEach(FixToolUseOrdering, s) = h  BY DEF MapEach
<1>4. \A i \in DOMAIN s : s[i] \in Built  OBVIOUS
<1>5. \A i \in DOMAIN s : FixToolUseOrdering(s[i]) = s[i]  BY <1>4, MergedIs, OrderingKept
<1>6. h = [i \in DOMAIN s |-> s[i]]  BY <1>5
<1> HIDE DEF h
<1>7. h = s  BY <1>6
<1> QED  BY <1>2, <1>3, <1>7

-----------------------------------------------------------------------------
LEMMA OthersHas ==
  ASSUME NEW S, NEW c \in Seq(S), NEW i \in DOMAIN c, c[i].type # "tool_result"
  PROVE  Others(c) # <<>>
<1> DEFINE h == [k \in DOMAIN c |-> IF c[k].type # "tool_result" THEN <<c[k]>> ELSE <<>>]
<1>1. Others(c) = FlattenSeq(h)  BY DEF Others, Keep
<1>2. \A k \in DOMAIN c : c[k] \in S  OBVIOUS
<1>3. Picks(h, c, S)  BY <1>2 DEF Picks
<1>4. h[i] = <<c[i]>> /\ i \in DOMAIN h  OBVIOUS
<1> HIDE DEF h
<1>5. h \in Seq(Seq(S))  BY <1>3, SomeIn
<1>6. c[i] \in Range(h[i])
  <2>1. 1 \in DOMAIN <<c[i]>> /\ <<c[i]>>[1] = c[i]  OBVIOUS
  <2> QED  BY <1>4, <2>1 DEF Range
<1>7. c[i] \in Range(FlattenSeq(h))  BY <1>4, <1>5, <1>6, FlattenHas
<1>8. Range(<<>>) = {}  BY DEF Range
<1> QED  BY <1>1, <1>7, <1>8

LEMMA OthersAll ==
  ASSUME NEW S, NEW c \in Seq(S), \A p \in S : p.type # "tool_result"
  PROVE  Others(c) = c
<1> DEFINE h == [k \in DOMAIN c |-> IF c[k].type # "tool_result" THEN <<c[k]>> ELSE <<>>]
<1>1. Others(c) = FlattenSeq(h)  BY DEF Others, Keep
<1>2. \A k \in DOMAIN c : c[k] \in S  OBVIOUS
<1>3. h = [k \in DOMAIN c |-> h[k]] /\ \A k \in DOMAIN c : h[k] = <<c[k]>>  BY <1>2
<1> HIDE DEF h
<1> QED  BY <1>1, <1>3, KeptAll

LEMMA NonEmptyJoin ==
  ASSUME NEW S, NEW a \in Seq(S), NEW b \in Seq(S), a # <<>> \/ b # <<>>
  PROVE  a \o b \in Seq(S) /\ a \o b # <<>>
<1>1. a \o b \in Seq(S) /\ Len(a \o b) = Len(a) + Len(b)  BY Joined
<1>2. Len(a) \in Nat /\ Len(b) \in Nat /\ (Len(a) # 0 \/ Len(b) # 0)  BY EmptySeq
<1>3. Len(a \o b) # 0  BY <1>1, <1>2
<1> QED  BY <1>1, <1>3

MergedContent(c, d) == OfType(c \o d, {"tool_result"}) \o Others(c \o d)

LEMMA MergeUsers ==
  ASSUME NEW c \in Headed, NEW d \in Headed, c # <<>>
  PROVE  MergedContent(c, d) \in Headed /\ MergedContent(c, d) # <<>>
<1> DEFINE S == ResultParts \cup UserParts
           e == c \o d
           r == OfType(e, {"tool_result"})
           o == Others(e)
<1>1. c \in Seq(S) /\ d \in Seq(S)  BY DEF Headed
<1>2. e \in Seq(S) /\ e # <<>>  BY <1>1, NonEmptyJoin
<1>3. MergedContent(c, d) = r \o o  BY DEF MergedContent
<1> HIDE DEF e
<1>4. r \in Seq(ResultParts)
  <2> DEFINE T == {"text", "image", "tool_result"}
  <2>1. S \subseteq PartsOf(T)  BY PartFields, BlockKinds DEF ResultParts, UserParts, TextParts
  <2>2. e \in Seq(PartsOf(T))  BY <1>2, <2>1, Widen
  <2>3. r \in Seq(PartsOf(T \cap {"tool_result"}))  BY <2>2, OfTypeTypes
  <2>4. T \cap {"tool_result"} = {"tool_result"}  OBVIOUS
  <2> QED  BY <2>3, <2>4 DEF ResultParts
<1>5. o \in Seq(UserParts)
  <2>1. \A p \in S : p.type # "tool_result" => p \in UserParts  BY BlockKinds
  <2> QED  BY <1>2, <2>1, OthersIn
<1>6. r # <<>> \/ o # <<>>
  <2>1. 1 \in DOMAIN e  BY <1>2
  <2>2. CASE e[1].type = "tool_result"
    <3>1. e[1].type \in {"tool_result"}  BY <2>2
    <3> QED  BY <1>2, <2>1, <3>1, OfTypeHas
  <2>3. CASE e[1].type # "tool_result"  BY <1>2, <2>1, <2>3, OthersHas
  <2> QED  BY <2>2, <2>3
<1> HIDE DEF r, o
<1>7. r \in Seq(S) /\ o \in Seq(S)  BY <1>4, <1>5
<1>8. r \o o \in Seq(S) /\ r \o o # <<>>
  <2> HIDE DEF S
  <2> QED  BY <1>6, <1>7, NonEmptyJoin
<1> QED  BY <1>3, <1>4, <1>5, <1>8 DEF Headed

LEMMA MergeAssistants ==
  ASSUME NEW c \in Seq(TextParts), c # <<>>, NEW d \in Tailed
  PROVE  /\ MergedContent(c, d) \in Tailed /\ MergedContent(c, d) # <<>>
         /\ d \in Seq(TextParts) => MergedContent(c, d) \in Seq(TextParts)
<1> DEFINE S == TextParts \cup UseParts
           e == c \o d
<1>1. c \in Seq(S) /\ d \in Seq(S)  BY DEF Tailed
<1>2. e \in Seq(S) /\ e # <<>>  BY <1>1, NonEmptyJoin
<1>3. MergedContent(c, d) = OfType(e, {"tool_result"}) \o Others(e)  BY DEF MergedContent
<1>4. OfType(e, {"tool_result"}) = <<>> /\ Others(e) = e
  <2>1. \A p \in S : p.type \notin {"tool_result"} /\ p.type # "tool_result"  BY BlockKinds
  <2> HIDE DEF e
  <2> QED  BY <1>2, <2>1, OfTypeNone, OthersAll
<1>5. MergedContent(c, d) = e
  <2> HIDE DEF e
  <2> QED  BY <1>2, <1>3, <1>4
<1>6. e \in Tailed
  <2>1. PICK a \in Seq(TextParts), u \in Seq(UseParts) : d = a \o u  BY DEF Tailed
  <2>2. a \in Seq(S) /\ u \in Seq(S)  OBVIOUS
  <2>3. c \o (a \o u) = (c \o a) \o u
    <3>1. c \in Seq(S)  BY <1>1
    <3> HIDE DEF S
    <3>2. (c \o a) \o u = c \o (a \o u)  BY <2>2, <3>1, ConcatAssociative, SMTT(30)
    <3> QED  BY <3>2
  <2>4. c \o a \in Seq(TextParts)  OBVIOUS
  <2>5. e = (c \o a) \o u  BY <2>1, <2>3
  <2> DEFINE k == c \o a
  <2> HIDE DEF e, k
  <2>6. k \in Seq(TextParts) /\ e = k \o u  BY <2>4, <2>5 DEF k
  <2>7. \E l \in Seq(TextParts), v \in Seq(UseParts) : e = l \o v  BY <2>6
  <2> QED  BY <1>2, <2>7 DEF Tailed
<1>7. d \in Seq(TextParts) => e \in Seq(TextParts)  OBVIOUS
<1> HIDE DEF e
<1> QED  BY <1>2, <1>5, <1>6, <1>7

(* Two messages of one role, the first without a call, as one. *)
LEMMA MergeIntoIs ==
  ASSUME NEW d \in Merged, NEW m \in Merged, d.role = m.role, ~Calling(d)
  PROVE  LET w == MergeInto(d, m)
         IN w \in Merged /\ w.role = d.role /\ (Calling(w) => Calling(m))
<1> DEFINE c == MergedContent(d.content, m.content)
           w == [d EXCEPT !.content = c]
<1>1. MergeInto(d, m) = w  BY DEF MergeInto, MergedContent, Others
<1>2. CASE d.role = "user"
  <2>1. d.content \in Headed /\ m.content \in Headed /\ d.content # <<>>  BY <1>2, MergedIs
  <2>2. c \in Headed /\ c # <<>>  BY <2>1, MergeUsers
  <2> HIDE DEF c
  <2>3. d \in BuiltOf({"user"}, Headed)  BY <1>2 DEF Merged, Uses, BuiltOf
  <2>4. w \in BuiltOf({"user"}, Headed) /\ w.role = "user"  BY <2>2, <2>3 DEF BuiltOf
  <2> HIDE DEF w
  <2>5. ~Calling(w)  BY <2>4 DEF Calling
  <2> QED  BY <1>1, <1>2, <2>4, <2>5 DEF Merged
<1>3. CASE d.role = "assistant"
  <2>1. d \in Talks  BY <1>3 DEF Calling
  <2>2. d.content \in Seq(TextParts) /\ d.content # <<>>  BY <2>1 DEF Talks, BuiltOf
  <2>3. m \in Uses /\ m.content \in Tailed /\ m.content # <<>>  BY <1>3, MergedIs
  <2>4. c \in Tailed /\ c # <<>> /\ (m.content \in Seq(TextParts) => c \in Seq(TextParts))
    BY <2>2, <2>3, MergeAssistants
  <2> HIDE DEF c
  <2>5. w \in Uses /\ w.role = "assistant"  BY <2>1, <2>4 DEF Talks, Uses, BuiltOf
  <2>6. c \in Seq(TextParts) => w \in Talks  BY <2>1, <2>4 DEF Talks, BuiltOf
  <2> HIDE DEF w
  <2>7. m \in Talks => m.content \in Seq(TextParts)  BY DEF Talks, BuiltOf
  <2>8. Calling(w) => Calling(m)  BY <1>3, <2>4, <2>6, <2>7 DEF Calling
  <2> QED  BY <1>1, <1>3, <2>5, <2>8 DEF Merged
<1>4. d.role \in {"user", "assistant"}
  <2>1. d \in Sound  BY MergedIs
  <2> QED  BY <2>1, SoundFields
<1> QED  BY <1>2, <1>3, <1>4

Alternates == {p \in Merged \X Merged : p[1].role # p[2].role}

LEMMA AppendAlternates ==
  ASSUME NEW s \in Seq(Merged), Linked(s, Alternates), NEW w \in Merged, s # <<>> => s[Len(s)].role # w.role
  PROVE  Append(s, w) \in Seq(Merged) /\ Linked(Append(s, w), Alternates) /\ (Open(Append(s, w)) <=> Calling(w))
<1> DEFINE b == <<w>>
<1>1. b \in Seq(Merged) /\ b # <<>> /\ b[1] = w /\ Len(b) = 1  OBVIOUS
<1>2. Append(s, w) = s \o b  BY AppendIsConcat
<1>3. Linked(b, Alternates)  BY <1>1 DEF Linked
<1>4. ASSUME s # <<>>  PROVE <<s[Len(s)], b[1]>> \in Alternates
  <2>1. Len(s) \in 1..Len(s)  BY <1>4, EmptySeq
  <2>2. s[Len(s)] \in Merged  BY <2>1, MemberIn
  <2> QED  BY <1>1, <1>4, <2>2 DEF Alternates
<1> HIDE DEF b
<1>5. Linked(s \o b, Alternates) /\ s \o b # <<>> /\ (s \o b)[Len(s \o b)] = b[Len(b)]
  BY <1>1, <1>3, <1>4, JoinedLinked
<1>6. s \o b \in Seq(Merged)  BY <1>1
<1> QED  BY <1>1, <1>2, <1>5, <1>6 DEF Open

LEMMA ReplaceAlternates ==
  ASSUME NEW s \in Seq(Merged), Linked(s, Alternates), s # <<>>, NEW w \in Merged, w.role = s[Len(s)].role
  PROVE  LET t == [s EXCEPT ![Len(s)] = w]
         IN t \in Seq(Merged) /\ Linked(t, Alternates) /\ (Open(t) <=> Calling(w))
<1> DEFINE n == Len(s)
           t == [s EXCEPT ![n] = w]
<1>1. n \in Nat /\ n # 0  BY EmptySeq
<1>2. t \in Seq(Merged) /\ Len(t) = n /\ t[n] = w /\ \A i \in 1..n : i # n => t[i] = s[i]  BY <1>1
<1>3. \A i \in 1..n : s[i] \in Merged /\ t[i] \in Merged  BY <1>2
<1>s. \A i \in 1..n - 1 : <<s[i], s[i + 1]>> \in Alternates  BY DEF Linked
<1>r. w.role = s[n].role  OBVIOUS
<1>z. t # <<>>
  <2> HIDE DEF t
  <2> QED  BY <1>1, <1>2
<1> HIDE DEF n, t
<1>4. Linked(t, Alternates)
  <2> SUFFICES ASSUME NEW i \in 1..n - 1  PROVE <<t[i], t[i + 1]>> \in Alternates
    BY <1>2 DEF Linked
  <2>1. i \in 1..n /\ i + 1 \in 1..n /\ i # n  BY <1>1
  <2>2. t[i] = s[i] /\ t[i] \in Merged /\ t[i + 1] \in Merged  BY <1>2, <1>3, <2>1
  <2>3. t[i + 1].role = s[i + 1].role  BY <1>2, <1>r, <2>1
  <2>4. s[i].role # s[i + 1].role  BY <1>s, <1>3, <2>1 DEF Alternates
  <2> QED  BY <2>2, <2>3, <2>4 DEF Alternates
<1>5. Open(t) <=> Calling(w)  BY <1>2, <1>z DEF Open
<1> QED  BY <1>2, <1>4, <1>5 DEF t, n

LEMMA MergeStep ==
  ASSUME NEW o \in Seq(Merged), Linked(o, Alternates), NEW m \in Merged, Open(o) => m.role = "user"
  PROVE  LET t == MergeSameRole(o, m)
         IN t \in Seq(Merged) /\ Linked(t, Alternates) /\ (Open(t) => Calling(m))
<1> DEFINE n == Len(o)
           w == MergeInto(o[n], m)
<1>1. MergeSameRole(o, m) = IF o # <<>> /\ o[n].role = m.role THEN [o EXCEPT ![n] = w] ELSE Append(o, m)
  BY DEF MergeSameRole, Last
<1>2. CASE o # <<>> /\ o[n].role = m.role
  <2>1. n \in 1..n  BY <1>2, EmptySeq
  <2>2. o[n] \in Merged  BY <2>1, MemberIn
  <2>3. ~Calling(o[n])
    <3> SUFFICES ASSUME Calling(o[n])  PROVE FALSE
      OBVIOUS
    <3>1. Open(o)  BY <1>2 DEF Open
    <3>2. m.role = "user" /\ o[n].role = "assistant"  BY <3>1 DEF Calling
    <3> QED  BY <1>2, <3>2
  <2>4. w \in Merged /\ w.role = o[n].role /\ (Calling(w) => Calling(m))  BY <1>2, <2>2, <2>3, MergeIntoIs
  <2> HIDE DEF w
  <2>5. LET t == [o EXCEPT ![Len(o)] = w]
        IN t \in Seq(Merged) /\ Linked(t, Alternates) /\ (Open(t) <=> Calling(w))
    BY <1>2, <2>4, ReplaceAlternates
  <2> QED  BY <1>1, <1>2, <2>4, <2>5
<1>3. CASE ~(o # <<>> /\ o[n].role = m.role)
  <2>1. /\ Append(o, m) \in Seq(Merged) /\ Linked(Append(o, m), Alternates)
        /\ Open(Append(o, m)) <=> Calling(m)
    BY <1>3, AppendAlternates
  <2> HIDE DEF w
  <2> QED  BY <1>1, <1>3, <2>1
<1> QED  BY <1>2, <1>3

LEMMA MergeAll ==
  ASSUME NEW s \in Seq(Built), Linked(s, Turned(Built))
  PROVE  /\ MergeConsecutiveSameRole(s) \in Seq(Merged)
         /\ Linked(MergeConsecutiveSameRole(s), Alternates)
<1> DEFINE N == Len(s)
           X == [n \in 0..N |-> {o \in Seq(Merged) : /\ Linked(o, Alternates)
                                                     /\ Open(o) => n # 0 /\ Calling(s[n])}]
           L == Loop(MergeSameRole, <<>>, s)
<1>1. N \in Nat  OBVIOUS
<1>2. <<>> \in X[0]
  <2>1. Linked(<<>>, Alternates) /\ ~Open(<<>>)  BY DEF Linked, Open
  <2>2. 0 \in 0..N  BY <1>1
  <2> QED  BY <2>1, <2>2, EmptyIn
<1>3. MergeSteps(X, s)
  <2> SUFFICES ASSUME NEW n \in 1..N, NEW o \in X[n - 1]  PROVE MergeSameRole(o, s[n]) \in X[n]
    BY DEF MergeSteps
  <2>1. n - 1 \in 0..N /\ n \in 0..N /\ n # 0  BY <1>1
  <2>2. o \in Seq(Merged) /\ Linked(o, Alternates) /\ (Open(o) => n - 1 # 0 /\ Calling(s[n - 1]))  BY <2>1
  <2>3. s[n] \in Built /\ s[n] \in Merged  BY MemberIn, MergedIs
  <2>4. Open(o) => s[n].role = "user"
    <3> SUFFICES ASSUME Open(o)  PROVE s[n].role = "user"
      OBVIOUS
    <3>1. n - 1 # 0 /\ Calling(s[n - 1])  BY <2>2
    <3> DEFINE k == n - 1
    <3>2. k \in 1..N - 1 /\ k + 1 = n  BY <1>1, <3>1
    <3> HIDE DEF k
    <3>3. <<s[k], s[k + 1]>> \in Turned(Built)  BY <3>2 DEF Linked
    <3>4. Calling(s[k]) => s[k + 1].role = "user"  BY <3>3 DEF Turned
    <3> QED  BY <3>1, <3>2, <3>4 DEF k
  <2> DEFINE t == MergeSameRole(o, s[n])
  <2>5. t \in Seq(Merged) /\ Linked(t, Alternates) /\ (Open(t) => Calling(s[n]))
    BY <2>2, <2>3, <2>4, MergeStep
  <2> HIDE DEF t
  <2>6. t \in X[n]  BY <2>1, <2>5
  <2> QED  BY <2>6 DEF t
<1>4. MergeConsecutiveSameRole(s) = L  BY DEF MergeConsecutiveSameRole
<1>5. L \in X[Len(s)]
  <2> HIDE DEF X
  <2> QED  BY <1>2, <1>3, MergeLoop
<1>6. L \in Seq(Merged) /\ Linked(L, Alternates)
  <2>1. N \in 0..N  BY <1>1
  <2> HIDE DEF L
  <2> QED  BY <1>5, <2>1
<1> HIDE DEF L
<1> QED  BY <1>4, <1>6

-----------------------------------------------------------------------------
(* From OpenAI to Responses.                                               *)

(* From OpenAI to Responses. *)
LEMMA ItemTypes ==
  ASSUME NEW T \in SUBSET OpenAITypes, NEW c \in Seq(PartsOf(T))
  PROVE  MapEach(LAMBDA p : IF p.type = "image_url" THEN Part("input_image", p.text) ELSE p,
                 Keep(c, LAMBDA p : p.type # "bare")) \in Seq(PartsOf({"text", "input_image"}))
<1> DEFINE h == [i \in DOMAIN c |-> IF c[i].type # "bare" THEN <<c[i]>> ELSE <<>>]
           k == FlattenSeq(h)
           V == PartsOf({"text", "image_url"})
           W == PartsOf({"text", "input_image"})
           g == [i \in DOMAIN k |-> IF k[i].type = "image_url" THEN Part("input_image", k[i].text) ELSE k[i]]
<1>1. MapEach(LAMBDA p : IF p.type = "image_url" THEN Part("input_image", p.text) ELSE p,
              Keep(c, LAMBDA p : p.type # "bare")) = g
  BY DEF MapEach, Keep
<1>2. \A i \in DOMAIN c : c[i] \in PartsOf(T)  OBVIOUS
<1>3. \A i \in DOMAIN c : c[i].type # "bare" => c[i] \in V
  <2> TAKE i \in DOMAIN c
  <2>1. c[i].type \in OpenAITypes  BY <1>2, PartFields
  <2>2. c[i].type \in {"text", "image_url"} => c[i] \in V  BY <1>2, PartFields
  <2> QED  BY <2>1, <2>2 DEF OpenAITypes
<1>4. Picks(h, c, V)
  <2> HIDE DEF V
  <2> QED  BY <1>3 DEF Picks
<1> HIDE DEF h
<1>5. k \in Seq(V)  BY <1>4, SomeIn
<1> HIDE DEF k
<1>6. \A i \in DOMAIN k : k[i] \in V  BY <1>5
<1>7. \A i \in DOMAIN k : (IF k[i].type = "image_url" THEN Part("input_image", k[i].text) ELSE k[i]) \in W
  <2> TAKE i \in DOMAIN k
  <2>1. k[i].type \in {"text", "image_url"} /\ k[i].text \in Seq(Int)  BY <1>6, PartFields
  <2>2. Part("input_image", k[i].text) \in W
    <3>1. "input_image" \in {"text", "input_image"}  OBVIOUS
    <3> QED  BY <2>1, <3>1, PartTypes
  <2>3. k[i].type \in {"text", "input_image"} => k[i] \in W  BY <1>6, PartFields
  <2> QED  BY <2>1, <2>2, <2>3
<1>8. Maps(g, k, W)
  <2> HIDE DEF W
  <2> QED  BY <1>7 DEF Maps
<1> HIDE DEF g
<1> QED  BY <1>1, <1>5, <1>8, EachIn

LEMMA CallItems ==
  ASSUME NEW calls \in Seq(Calls)
  PROVE  MapEach(LAMBDA c : [Message("function_call", <<>>)
                               EXCEPT !.calls = <<Call(ClampCallID(c.id), c.name, SanitizeArgs(c.args))>>],
                 calls) \in Seq(Items)
<1> DEFINE F(c) == [Message("function_call", <<>>)
                      EXCEPT !.calls = <<Call(ClampCallID(c.id), c.name, SanitizeArgs(c.args))>>]
           g == [i \in DOMAIN calls |-> F(calls[i])]
<1>1. MapEach(LAMBDA c : [Message("function_call", <<>>)
                            EXCEPT !.calls = <<Call(ClampCallID(c.id), c.name, SanitizeArgs(c.args))>>],
              calls) = g
  BY DEF MapEach
<1>2. ASSUME NEW c \in Calls  PROVE F(c) \in Items
  <2> DEFINE x == Call(ClampCallID(c.id), c.name, SanitizeArgs(c.args))
             e == Message("function_call", <<>>)
  <2>1. c.id \in IDs /\ c.name \in Words /\ c.args \in Seq(Words)  BY DEF Calls
  <2>2. x \in Calls  BY <2>1, IDTypes, ArgsTypes DEF Call, Calls
  <2> HIDE DEF x
  <2>3. <<x>> \in OneCall  BY <2>2, OneIn DEF OneCall
  <2>4. e \in Msgs({"function_call"}, {"text"}, {<<>>})
    <3>1. "function_call" \in {"function_call"} /\ <<>> \in {<<>>} /\ <<>> \in Seq(PartsOf({"text"}))
      BY EmptyIn
    <3> QED  BY <3>1, MessageTypes
  <2> HIDE DEF e
  <2>5. [e EXCEPT !.calls = <<x>>] \in Msgs({"function_call"}, {"text"}, OneCall)  BY <2>3, <2>4 DEF Msgs
  <2>6. F(c) = [e EXCEPT !.calls = <<x>>]  BY DEF e, x
  <2> QED  BY <2>5, <2>6 DEF Items
<1> HIDE DEF F
<1>3. \A i \in DOMAIN calls : calls[i] \in Calls  OBVIOUS
<1>4. Maps(g, calls, Items)  BY <1>2, <1>3 DEF Maps
<1> HIDE DEF g
<1> QED  BY <1>1, <1>4, EachIn

LEMMA MessageItems ==
  ASSUME NEW T \in SUBSET OpenAITypes, NEW m \in OpenAIForm(T)
  PROVE  MessageToItems(m) \in Seq(Items)
<1> DEFINE content == MapEach(LAMBDA p : IF p.type = "image_url" THEN Part("input_image", p.text) ELSE p,
                              Keep(m.content, LAMBDA p : p.type # "bare"))
           item == IF content = <<>> THEN <<>> ELSE <<Message(m.role, content)>>
           calls == MapEach(LAMBDA c : [Message("function_call", <<>>)
                              EXCEPT !.calls = <<Call(ClampCallID(c.id), c.name, SanitizeArgs(c.args))>>],
                            m.calls)
           text == OneText(JoinedText(m.content, {"text"}))
           e == Message("function_call_output", text)
           output == [e EXCEPT !.id = ClampCallID(m.id)]
           r == Message("reasoning", <<>>)
           reasoning == [r EXCEPT !.reasoning = m.reasoning]
           thought == IF m.reasoning = <<>> THEN <<>> ELSE <<reasoning>>
<1>1. /\ m.role \in {"system", "user", "tool", "assistant"} /\ m.content \in Seq(PartsOf(T))
      /\ m.calls \in Seq(Calls) /\ m.id \in IDs /\ m.reasoning \in Seq(Int)
  BY FormFields
<1>2. MessageToItems(m) = CASE IsSystem(m) -> <<>>
                            [] m.role = "tool" -> <<output>>
                            [] m.role = "assistant" -> thought \o item \o calls
                            [] OTHER -> item
  BY DEF MessageToItems, BuildReasoningInput
<1>3. content \in Seq(PartsOf({"text", "input_image"}))  BY <1>1, ItemTypes
<1> HIDE DEF content
<1>4. m.role \in {"user", "assistant"} => item \in Seq(Items)
  <2> SUFFICES ASSUME m.role \in {"user", "assistant"}  PROVE item \in Seq(Items)
    OBVIOUS
  <2>1. <<>> \in {<<>>}  OBVIOUS
  <2>2. Message(m.role, content) \in Msgs({"user", "assistant"}, {"text", "input_image"}, {<<>>})
    BY <1>3, <2>1, MessageTypes
  <2>3. Message(m.role, content) \in Items  BY <2>2 DEF Items
  <2> QED  BY <2>3, OneIn, EmptyIn
<1>5. calls \in Seq(Items)  BY <1>1, CallItems
<1> HIDE DEF item, calls
<1>6. output \in Items
  <2> DEFINE M == Msgs({"reasoning", "function_call_output"}, {"text"}, {<<>>})
  <2>1. JoinedText(m.content, {"text"}) \in Seq(Int)  BY <1>1, OfTypeTypes
  <2>2. text \in Seq(PartsOf({"text"}))
    <3>1. "text" \in {"text"}  OBVIOUS
    <3> QED  BY <2>1, <3>1, TextTypes
  <2> HIDE DEF text
  <2>3. e \in M
    <3>1. "function_call_output" \in {"reasoning", "function_call_output"} /\ <<>> \in {<<>>}  OBVIOUS
    <3> QED  BY <2>2, <3>1, MessageTypes
  <2> HIDE DEF e
  <2>4. output \in M  BY <1>1, <2>3, IDTypes, MessageWith
  <2> QED  BY <2>4 DEF Items
<1>7. thought \in Seq(Items)
  <2> DEFINE M == Msgs({"reasoning", "function_call_output"}, {"text"}, {<<>>})
  <2>1. r \in M
    <3>1. "reasoning" \in {"reasoning", "function_call_output"} /\ <<>> \in {<<>>} /\ <<>> \in Seq(PartsOf({"text"}))
      BY EmptyIn
    <3> QED  BY <3>1, MessageTypes
  <2> HIDE DEF r
  <2>2. reasoning \in M  BY <1>1, <2>1, MessageWith
  <2> HIDE DEF reasoning
  <2>3. reasoning \in Items  BY <2>2 DEF Items
  <2> QED  BY <2>3, OneIn, EmptyIn
<1> HIDE DEF thought, output
<1>8. m.role = "assistant" => thought \o item \o calls \in Seq(Items)
  <2>1. m.role = "assistant" => thought \o item \in Seq(Items)  BY <1>4, <1>7
  <2> QED  BY <1>5, <2>1
<1>9. CASE m.role = "system"
  <2>1. IsSystem(m)  BY <1>9 DEF IsSystem
  <2>2. m.role # "tool" /\ m.role # "assistant"  BY <1>9
  <2>3. MessageToItems(m) = <<>>  BY <1>2, <2>1, <2>2
  <2> QED  BY <2>3, EmptyIn
<1>10. CASE m.role # "system"
  <2>1. ~IsSystem(m)  BY <1>1, <1>10 DEF IsSystem
  <2>2. <<output>> \in Seq(Items)  BY <1>6, OneIn
  <2> QED  BY <1>1, <1>2, <1>4, <1>8, <1>10, <2>1, <2>2
<1> QED  BY <1>9, <1>10

LEMMA ItemsTypes ==
  ASSUME NEW T \in SUBSET OpenAITypes, NEW s \in Seq(OpenAIForm(T))
  PROVE  FlatMap(MessageToItems, s) \in Seq(Items)
<1> DEFINE h == [i \in DOMAIN s |-> MessageToItems(s[i])]
<1>1. FlatMap(MessageToItems, s) = FlattenSeq(h)  BY DEF FlatMap, MapEach
<1>2. \A i \in DOMAIN s : s[i] \in OpenAIForm(T)  OBVIOUS
<1>3. \A i \in DOMAIN s : MessageToItems(s[i]) \in Seq(Items)  BY <1>2, MessageItems
<1>4. Maps(h, s, Seq(Items))  BY <1>3 DEF Maps
<1> HIDE DEF h
<1>5. h \in Seq(Seq(Items))  BY <1>4, EachIn
<1> QED  BY <1>1, <1>5, FlattenIn

(* The prompts that are put beside the messages. *)
LEMMA SystemTypes ==
  ASSUME NEW T, NEW s \in Seq(OpenAIForm(T))
  PROVE  /\ CollectSystemParts(s) \in Seq(Int)
         /\ (IF Keep(s, IsSystem) = <<>> THEN <<>> ELSE JoinedText(Keep(s, IsSystem)[1].content, {"text"})) \in Seq(Int)
<1>1. \A i \in DOMAIN s : s[i] \in OpenAIForm(T)  OBVIOUS
<1>2. \A i \in DOMAIN s : s[i].content \in Seq(PartsOf(T))  BY <1>1, FormFields
<1>3. CollectSystemParts(s) \in Seq(Int)
  <2> DEFINE F(m) == IF m.role # "system" THEN <<>> ELSE JoinedText(SplitContent(m.content), {"text"})
             h == [i \in DOMAIN s |-> F(s[i])]
  <2>1. CollectSystemParts(s) = FlattenSeq(h)  BY DEF CollectSystemParts, FlatMap, MapEach
  <2>2. ASSUME NEW i \in DOMAIN s  PROVE F(s[i]) \in Seq(Int)
    <3>1. SplitContent(s[i].content) \in Seq(PartsOf(T))  BY <1>2, EmptyIn DEF SplitContent
    <3>2. JoinedText(SplitContent(s[i].content), {"text"}) \in Seq(Int)  BY <3>1, OfTypeTypes
    <3> QED  BY <3>2, EmptyIn
  <2> HIDE DEF F
  <2>3. Maps(h, s, Seq(Int))  BY <2>2 DEF Maps
  <2> HIDE DEF h
  <2>4. h \in Seq(Seq(Int))  BY <2>3, EachIn
  <2> QED  BY <2>1, <2>4, FlattenIn
<1>4. Keep(s, IsSystem) \in Seq(OpenAIForm(T))
  <2> DEFINE h == [i \in DOMAIN s |-> IF IsSystem(s[i]) THEN <<s[i]>> ELSE <<>>]
  <2>1. Keep(s, IsSystem) = FlattenSeq(h)  BY DEF Keep
  <2>2. Picks(h, s, OpenAIForm(T))  BY <1>1 DEF Picks
  <2> HIDE DEF h
  <2> QED  BY <2>1, <2>2, SomeIn
<1> DEFINE k == Keep(s, IsSystem)
<1>5. k # <<>> => JoinedText(k[1].content, {"text"}) \in Seq(Int)
  <2> SUFFICES ASSUME k # <<>>  PROVE JoinedText(k[1].content, {"text"}) \in Seq(Int)
    OBVIOUS
  <2>0. k \in Seq(OpenAIForm(T))  BY <1>4
  <2> HIDE DEF k
  <2>1. 1 \in 1..Len(k)  BY <2>0
  <2>2. k[1] \in OpenAIForm(T)  BY <2>0, <2>1, MemberIn
  <2>3. k[1].content \in Seq(PartsOf(T))  BY <2>2, FormFields
  <2> QED  BY <2>3, OfTypeTypes
<1> QED  BY <1>3, <1>5, EmptyIn

-----------------------------------------------------------------------------
(* A whole request: in a format, through a translation, and prepared.      *)

Fields == {"format", "system", "messages", "tools", "choice", "max", "kept", "completion",
           "thinking", "effort", "stream", "usage", "stop", "topP"}

IsBody(b) == b = [f \in Fields |-> b[f]]

(* A request whose messages are of its format; T is the types of the parts *)
(* that an OpenAI message of this client may have.                         *)
Formed(b, T) ==
    /\ IsBody(b) /\ b.system \in Seq(Int) /\ b.format \in Formats
    /\ b.messages \in CASE b.format = "openai" -> Seq(OpenAIForm(T))
                        [] b.format = "claude" -> Seq(ClaudeForm)
                        [] b.format = "responses" -> Seq(ResponsesForm)
                        [] OTHER -> Seq(GeminiForm)
    /\ b.format = "gemini" => T = OpenAITypes

(* A request that a translation has made. *)
Tidy(b, T) ==
    /\ IsBody(b) /\ b.system \in Seq(Int)
    /\ \/ b.format = "openai" /\ b.messages \in Seq(OpenAIForm(T))
       \/ b.format = "claude" /\ b.messages \in Seq(Merged) /\ Linked(b.messages, Alternates)
       \/ b.format = "responses" /\ b.messages \in Seq(Items)

(* The types of the parts, of a client that is not Gemini and of one that is. *)
Kinds(T) == T = Plain \/ T = OpenAITypes

LEMMA KindsAre ==
  ASSUME NEW T, Kinds(T)
  PROVE  T \in SUBSET OpenAITypes /\ "text" \in T /\ Plain \subseteq T
BY DEF Kinds, Plain, OpenAITypes

LEMMA FormWiden ==
  ASSUME NEW T, NEW U, T \subseteq U
  PROVE  Seq(OpenAIForm(T)) \subseteq Seq(OpenAIForm(U))
<1>1. \A R, C : Msgs(R, T, C) \subseteq Msgs(R, U, C)  BY PartsWiden DEF Msgs
<1>2. OpenAIForm(T) \subseteq OpenAIForm(U)  BY <1>1 DEF OpenAIForm
<1> QED  BY <1>2, Widen

LEMMA SystemIn ==
  ASSUME NEW T, "text" \in T, NEW x \in Seq(Int), NEW s \in Seq(OpenAIForm(T))
  PROVE  /\ (IF x = <<>> THEN <<>> ELSE <<Message("system", <<Text(x)>>)>>) \o s \in Seq(OpenAIForm(T))
         /\ <<Message("system", <<Text(x)>>)>> \o s \in Seq(OpenAIForm(T))
<1>1. <<Text(x)>> \in Seq(PartsOf(T))  BY TextTypes
<1>2. "system" \in {"system", "user", "tool"} /\ <<>> \in {<<>>}  OBVIOUS
<1>3. Message("system", <<Text(x)>>) \in Msgs({"system", "user", "tool"}, T, {<<>>})
  BY <1>1, <1>2, MessageTypes
<1> DEFINE m == Message("system", <<Text(x)>>)
<1>4. m \in OpenAIForm(T)  BY <1>3 DEF OpenAIForm
<1> HIDE DEF m
<1>5. <<m>> \in Seq(OpenAIForm(T)) /\ <<>> \in Seq(OpenAIForm(T))  BY <1>4
<1>6. <<m>> \o s \in Seq(OpenAIForm(T)) /\ <<>> \o s \in Seq(OpenAIForm(T))  BY <1>5, Joined
<1> QED  BY <1>6 DEF m

(* To OpenAI. *)
LEMMA SourceForm ==
  ASSUME NEW T, Kinds(T), NEW b, Formed(b, T)
  PROVE  LET c == SourceToOpenAI(b)
         IN IsBody(c) /\ c.system \in Seq(Int) /\ c.format = "openai" /\ c.messages \in Seq(OpenAIForm(T))
<1>0. IsBody(b) /\ b.system \in Seq(Int) /\ b.format \in Formats  BY DEF Formed
<1>k. "text" \in T /\ Seq(OpenAIForm(Plain)) \subseteq Seq(OpenAIForm(T))  BY KindsAre, FormWiden
<1> DEFINE c == SourceToOpenAI(b)
           sys == IF b.system = <<>> THEN <<>> ELSE <<Message("system", <<Text(b.system)>>)>>
<1>1. CASE b.format = "claude"
  <2> DEFINE msgs == ConvertClaudeMessages(b.messages)
             all == sys \o msgs
             choice == ConvertClaudeToolChoice(b.choice)
             thinking == CopyThinking(b.thinking)
             effort == MapEffort(b.effort)
  <2>1. b.messages \in Seq(ClaudeForm)  BY <1>1 DEF Formed
  <2>2. msgs \in Seq(OpenAIForm(T))  BY <1>k, <2>1, ClaudeMessagesTypes
  <2> HIDE DEF msgs
  <2>3. all \in Seq(OpenAIForm(T))  BY <1>0, <1>k, <2>2, SystemIn
  <2>4. c = [b EXCEPT !.format = "openai", !.system = <<>>, !.messages = all, !.choice = choice,
                      !.thinking = thinking, !.effort = effort]
    BY <1>1 DEF SourceToOpenAI, ClaudeToOpenAI, SystemMessage, msgs
  <2> HIDE DEF c, all, choice, thinking, effort
  <2>5. IsBody(c) /\ c.system = <<>> /\ c.format = "openai" /\ c.messages = all
    BY <1>0, <2>4 DEF IsBody, Fields
  <2> QED  BY <2>3, <2>5, EmptyIn DEF c
<1>2. CASE b.format = "gemini"
  <2> DEFINE msgs == FlatMap(ConvertGeminiContent, b.messages)
             all == sys \o msgs
  <2>1. b.messages \in Seq(GeminiForm) /\ T = OpenAITypes  BY <1>2 DEF Formed
  <2>2. msgs \in Seq(OpenAIForm(T))  BY <2>1, GeminiMessagesTypes
  <2> HIDE DEF msgs
  <2>3. all \in Seq(OpenAIForm(T))  BY <1>0, <1>k, <2>2, SystemIn
  <2>4. c = [b EXCEPT !.format = "openai", !.system = <<>>, !.messages = all, !.choice = Choice(""),
                      !.thinking = NoThinking, !.effort = ""]
    BY <1>2 DEF SourceToOpenAI, GeminiToOpenAI, msgs
  <2> HIDE DEF c, all
  <2>5. IsBody(c) /\ c.system = <<>> /\ c.format = "openai" /\ c.messages = all
    BY <1>0, <2>4 DEF IsBody, Fields
  <2> QED  BY <2>3, <2>5, EmptyIn DEF c
<1>3. CASE b.format = "responses"
  <2> DEFINE msgs == ConvertItems(NormalizeInput(b.messages))
             all == sys \o msgs
             effort == IF b.effort = "none" THEN "" ELSE b.effort
  <2>1. b.messages \in Seq(ResponsesForm)  BY <1>3 DEF Formed
  <2>2. NormalizeInput(b.messages) \in Seq(ResponsesForm)
    <3>1. "text" \in {"text", "input_image"} /\ Dots \in Seq(Int)  BY DEF Dots
    <3>2. <<Text(Dots)>> \in Seq(PartsOf({"text", "input_image"}))  BY <3>1, TextTypes
    <3>3. "user" \in {"user", "assistant"} /\ <<>> \in {<<>>}  OBVIOUS
    <3>4. Message("user", <<Text(Dots)>>) \in Msgs({"user", "assistant"}, {"text", "input_image"}, {<<>>})
      BY <3>2, <3>3, MessageTypes
    <3> DEFINE m == Message("user", <<Text(Dots)>>)
    <3>5. m \in ResponsesForm  BY <3>4 DEF ResponsesForm, Items
    <3> HIDE DEF m
    <3>6. <<m>> \in Seq(ResponsesForm)  BY <3>5
    <3> QED  BY <2>1, <3>6 DEF NormalizeInput, m
  <2>3. msgs \in Seq(OpenAIForm(T))  BY <1>k, <2>2, ConvertItemsTypes
  <2> HIDE DEF msgs
  <2>4. all \in Seq(OpenAIForm(T))  BY <1>0, <1>k, <2>3, SystemIn
  <2>5. c = [b EXCEPT !.format = "openai", !.system = <<>>, !.kept = b.max, !.messages = all, !.effort = effort]
    BY <1>3 DEF SourceToOpenAI, ResponsesToOpenAI, msgs
  <2> HIDE DEF c, all, effort
  <2>6. IsBody(c) /\ c.system = <<>> /\ c.format = "openai" /\ c.messages = all
    BY <1>0, <2>5 DEF IsBody, Fields
  <2> QED  BY <2>4, <2>6, EmptyIn DEF c
<1>4. CASE b.format = "openai"
  <2>1. c = b  BY <1>4 DEF SourceToOpenAI
  <2>2. b.messages \in Seq(OpenAIForm(T))  BY <1>4 DEF Formed
  <2> QED  BY <1>0, <1>4, <2>1, <2>2
<1> QED  BY <1>0, <1>1, <1>2, <1>3, <1>4 DEF Formats

(* Between the translators: the ids are there, and calls are answered. *)
Answering(b, T) ==
    /\ IsBody(b) /\ b.system \in Seq(Int) /\ b.format = "openai"
    /\ b.messages \in Seq(NamedForm(T)) /\ Linked(b.messages, Follows(NamedForm(T))) /\ Answered(b.messages)

LEMMA ConfigKeeps ==
  ASSUME NEW b, IsBody(b)
  PROVE  LET c == NormalizeThinkingConfig(b)
         IN IsBody(c) /\ c.system = b.system /\ c.format = b.format /\ c.messages = b.messages
BY DEF NormalizeThinkingConfig, IsBody, Fields

LEMMA AdjustKeeps ==
  ASSUME NEW b, IsBody(b)
  PROVE  LET c == AdjustMaxTokens(b)
         IN IsBody(c) /\ c.system = b.system /\ c.format = b.format /\ c.messages = b.messages
<1> DEFINE c == AdjustMaxTokens(b)
<1>1. PICK max : c = [b EXCEPT !.max = max]
  <2> DEFINE min == IF b.tools # <<>> /\ b.max < DefaultMinTokens THEN DefaultMinTokens ELSE b.max
             big == IF b.thinking.budget # 0 /\ min <= b.thinking.budget
                    THEN b.thinking.budget + BudgetMargin ELSE min
  <2>1. c = IF b.max = 0 THEN [b EXCEPT !.max = min] ELSE [b EXCEPT !.max = big]  BY DEF AdjustMaxTokens
  <2> HIDE DEF c, min, big
  <2> QED  BY <2>1
<1> HIDE DEF c
<1>2. IsBody(c) /\ c.system = b.system /\ c.format = b.format /\ c.messages = b.messages
  BY <1>1 DEF IsBody, Fields
<1> QED  BY <1>2 DEF c

LEMMA WithMessages ==
  ASSUME NEW b, IsBody(b), NEW x
  PROVE  LET c == [b EXCEPT !.messages = x]
         IN IsBody(c) /\ c.system = b.system /\ c.format = b.format /\ c.messages = x
BY DEF IsBody, Fields

LEMMA PreProcessForm ==
  ASSUME NEW T, Kinds(T), NEW b, IsBody(b), b.system \in Seq(Int), b.format = "openai",
         b.messages \in Seq(OpenAIForm(T))
  PROVE  Answering(PreProcess(b), T)
<1>k. "text" \in T /\ T \in SUBSET OpenAITypes  BY KindsAre
<1> DEFINE c == [b EXCEPT !.messages = NormalizeRoles(b.messages)]
           t == NormalizeThinkingConfig(c)
           n == EnsureToolCallIds(SanitizeToolHistory(t.messages))
           f == FixMissingToolResponses(n)
           d == [t EXCEPT !.messages = f]
           p == AdjustMaxTokens(d)
<1>0. PreProcess(b) = p  BY DEF PreProcess
<1>1. IsBody(c) /\ c.system = b.system /\ c.format = b.format /\ c.messages = b.messages
  BY WithMessages, RolesKept
<1> HIDE DEF c
<1>2. IsBody(t) /\ t.system = b.system /\ t.format = b.format /\ t.messages = b.messages
  BY <1>1, ConfigKeeps
<1> HIDE DEF t
<1>3. n \in Seq(NamedForm(T))
  <2>1. SanitizeToolHistory(t.messages) \in Seq(OpenAIForm(T))  BY <1>2, <1>k, SanitizeTypes
  <2> QED  BY <2>1, EnsureTypes
<1> HIDE DEF n
<1>4. f \in Seq(NamedForm(T)) /\ Linked(f, Follows(NamedForm(T))) /\ Answered(f)  BY <1>3, <1>k, FixAnswers
<1> HIDE DEF f
<1>5. IsBody(d) /\ d.system = t.system /\ d.format = t.format /\ d.messages = f  BY <1>2, WithMessages
<1> HIDE DEF d
<1>6. IsBody(p) /\ p.system = d.system /\ p.format = d.format /\ p.messages = d.messages  BY <1>5, AdjustKeeps
<1> HIDE DEF p
<1> QED  BY <1>0, <1>2, <1>4, <1>5, <1>6 DEF Answering

(* From OpenAI. *)
LEMMA TargetTidy ==
  ASSUME NEW T, Kinds(T), NEW b, Answering(b, T), NEW target \in {"openai", "claude", "responses"}
  PROVE  LET t == OpenAIToTarget(b, target)
         IN Tidy(IF target = "claude" THEN PrepareClaudeRequest(t) ELSE t, T)
            /\ (IF target = "claude" THEN PrepareClaudeRequest(t) ELSE t).format = target
<1>0. /\ IsBody(b) /\ b.system \in Seq(Int) /\ b.format = "openai"
      /\ b.messages \in Seq(NamedForm(T)) /\ Linked(b.messages, Follows(NamedForm(T))) /\ Answered(b.messages)
  BY DEF Answering
<1>k. T \in SUBSET OpenAITypes  BY KindsAre
<1>o. b.messages \in Seq(OpenAIForm(T))
  <2>1. NamedForm(T) \subseteq OpenAIForm(T)  BY NamedFields
  <2> QED  BY <1>0, <2>1, Widen
<1> DEFINE t == OpenAIToTarget(b, target)
<1>1. CASE target = "claude"
  <2> DEFINE sys == CollectSystemParts(b.messages)
             msgs == BuildClaudeMessages(b.messages)
             tools == IF b.choice.type = "none" THEN <<>> ELSE b.tools
             choice == ConvertOpenAIToolChoice(b.choice)
             max == ClaudeMaxTokens(b)
             thinking == OpenAIThinking(b)
             merged == MergeConsecutiveSameRole(
                         MapEach(FixToolUseOrdering, DropEmptyMessages(StripRejectableBlocks(msgs))))
             p == PrepareClaudeRequest(t)
  <2>1. t = [b EXCEPT !.format = "claude", !.system = sys, !.messages = msgs, !.tools = tools,
                      !.choice = choice, !.max = max, !.kept = 0, !.completion = 0,
                      !.thinking = thinking, !.effort = "", !.usage = FALSE]
    BY <1>1 DEF OpenAIToTarget, ClaudeFromOpenAI
  <2>2. sys \in Seq(Int)  BY <1>o, SystemTypes
  <2>3. msgs \in Seq(Built) /\ Linked(msgs, Turned(Built))  BY <1>0, <1>k, BuildClaude
  <2> HIDE DEF t, sys, msgs, tools, choice, max, thinking
  <2>4. IsBody(t) /\ t.format = "claude" /\ t.system = sys /\ t.messages = msgs
    BY <1>0, <2>1 DEF IsBody, Fields
  <2>5. merged = MergeConsecutiveSameRole(msgs)  BY <2>3, PreparedBuilt
  <2>6. merged \in Seq(Merged) /\ Linked(merged, Alternates)  BY <2>3, <2>5, MergeAll
  <2>7. p = [t EXCEPT !.messages = merged]  BY <2>4 DEF PrepareClaudeRequest
  <2> HIDE DEF merged, p
  <2>8. IsBody(p) /\ p.system = t.system /\ p.format = t.format /\ p.messages = merged
    BY <2>4, <2>7, WithMessages
  <2>9. Tidy(p, T) /\ p.format = "claude"  BY <2>2, <2>4, <2>6, <2>8 DEF Tidy
  <2> QED  BY <1>1, <2>9 DEF p, t
<1>2. CASE target = "responses"
  <2> DEFINE systems == Keep(b.messages, IsSystem)
             sys == IF systems = <<>> THEN <<>> ELSE JoinedText(systems[1].content, {"text"})
             msgs == FlatMap(MessageToItems, b.messages)
             max == MaxOutputTokens(b)
             effort == IF b.effort = "none" THEN "" ELSE b.effort
  <2>1. t = [b EXCEPT !.format = "responses", !.system = sys, !.messages = msgs, !.max = max, !.kept = 0,
                      !.completion = 0, !.effort = effort, !.thinking = NoThinking, !.stop = <<>>, !.usage = FALSE]
    BY <1>2 DEF OpenAIToTarget, ResponsesFromOpenAI
  <2>2. sys \in Seq(Int)  BY <1>o, SystemTypes
  <2>3. msgs \in Seq(Items)  BY <1>o, <1>k, ItemsTypes
  <2> HIDE DEF t, sys, msgs, max, effort
  <2>4. IsBody(t) /\ t.format = "responses" /\ t.system = sys /\ t.messages = msgs
    BY <1>0, <2>1 DEF IsBody, Fields
  <2>5. Tidy(t, T) /\ t.format = "responses"  BY <2>2, <2>3, <2>4 DEF Tidy
  <2> QED  BY <1>2, <2>5 DEF t
<1>3. CASE target = "openai"
  <2>1. t = b  BY <1>3 DEF OpenAIToTarget
  <2>2. Tidy(b, T)  BY <1>0, <1>o DEF Tidy
  <2> QED  BY <1>0, <1>3, <2>1, <2>2
<1> QED  BY <1>1, <1>2, <1>3

(* translate.Request *)
LEMMA RequestTidy ==
  ASSUME NEW T, Kinds(T), NEW b, Formed(b, T), NEW target \in {"openai", "claude", "responses"}
  PROVE  Tidy(Request(b, target), T) /\ Request(b, target).format = target
<1> DEFINE c == SourceToOpenAI(b)
           p == PreProcess(c)
           t == OpenAIToTarget(p, target)
           r == IF target = "claude" THEN PrepareClaudeRequest(t) ELSE t
<1>1. IsBody(c) /\ c.system \in Seq(Int) /\ c.format = "openai" /\ c.messages \in Seq(OpenAIForm(T))
  BY SourceForm
<1> HIDE DEF c
<1>2. Answering(p, T)  BY <1>1, PreProcessForm
<1> HIDE DEF p
<1>3. Tidy(r, T) /\ r.format = target  BY <1>2, TargetTidy
<1>4. Request(b, target) = r  BY DEF Request, c, p
<1> QED  BY <1>3, <1>4

LEMMA TypesWiden ==
  ASSUME NEW R, NEW T, NEW C, NEW m \in BuiltOf(R, C), C \subseteq Seq(PartsOf(T))
  PROVE  m \in Msgs(R, T, {<<>>})
BY DEF BuiltOf, Msgs

LEMMA MergedSpoken ==
  /\ \A m \in Merged : m.role = "user" => m \in Msgs({"user"}, {"text", "image", "tool_result"}, {<<>>})
  /\ \A m \in Merged : m.role = "assistant" => m \in Msgs({"assistant"}, {"text", "thinking", "tool_use"}, {<<>>})
  /\ Merged \subseteq ClaudeForm
<1> DEFINE UT == {"text", "image", "tool_result"}
           AT == {"text", "thinking", "tool_use"}
<1>1. Headed \subseteq Seq(PartsOf(UT))
  <2>1. ResultParts \subseteq PartsOf(UT) /\ UserParts \subseteq PartsOf(UT)
    BY PartsWiden DEF ResultParts, UserParts, TextParts
  <2>2. ResultParts \cup UserParts \subseteq PartsOf(UT)  BY <2>1
  <2>3. Seq(ResultParts \cup UserParts) \subseteq Seq(PartsOf(UT))  BY <2>2, Widen
  <2> QED  BY <2>3 DEF Headed
<1>2. Tailed \subseteq Seq(PartsOf(AT))
  <2>1. TextParts \subseteq PartsOf(AT) /\ UseParts \subseteq PartsOf(AT)
    BY PartsWiden DEF UseParts, TextParts
  <2>2. TextParts \cup UseParts \subseteq PartsOf(AT)  BY <2>1
  <2>3. Seq(TextParts \cup UseParts) \subseteq Seq(PartsOf(AT))  BY <2>2, Widen
  <2> QED  BY <2>3 DEF Tailed
<1>3. BuiltOf({"user"}, Headed) \subseteq Msgs({"user"}, UT, {<<>>})  BY <1>1, TypesWiden
<1>4. Uses \subseteq Msgs({"assistant"}, AT, {<<>>})  BY <1>2, TypesWiden DEF Uses
<1> HIDE DEF UT, AT
<1>5. /\ \A m \in Msgs({"user"}, UT, {<<>>}) : m.role = "user"
      /\ \A m \in Msgs({"assistant"}, AT, {<<>>}) : m.role = "assistant"
  BY MessageFields
<1>6. Merged \subseteq Msgs({"user"}, UT, {<<>>}) \cup Msgs({"assistant"}, AT, {<<>>})
  BY <1>3, <1>4 DEF Merged
<1>7. Merged \subseteq ClaudeForm  BY <1>6 DEF ClaudeForm, ClaudeSpoken, UT, AT
<1>8. \A m \in Merged : m.role = "user" => m \in Msgs({"user"}, UT, {<<>>})  BY <1>5, <1>6
<1>9. \A m \in Merged : m.role = "assistant" => m \in Msgs({"assistant"}, AT, {<<>>})  BY <1>5, <1>6
<1> QED  BY <1>7, <1>8, <1>9 DEF UT, AT

(* What a translation makes can be translated again. *)
LEMMA TidyFormed ==
  ASSUME NEW T, NEW b, Tidy(b, T)
  PROVE  Formed(b, T)
<1>1. Seq(Merged) \subseteq Seq(ClaudeForm)  BY MergedSpoken, Widen
<1>2. Seq(Items) \subseteq Seq(ResponsesForm)
  <2>1. Items \subseteq ResponsesForm  BY DEF ResponsesForm
  <2> QED  BY <2>1, Widen
<1> QED  BY <1>1, <1>2 DEF Tidy, Formed, Formats

(* SyncReasoning, over the messages. *)
Synced(s, deepseek) == MapEach(LAMBDA m : SyncReasoning(m, deepseek), NormalizeRoles(s))

LEMMA SyncTypes ==
  ASSUME NEW T, NEW s \in Seq(OpenAIForm(T)), NEW deepseek
  PROVE  Synced(s, deepseek) \in Seq(OpenAIForm(T))
<1> DEFINE h == [i \in DOMAIN s |-> SyncReasoning(s[i], deepseek)]
<1>1. Synced(s, deepseek) = h  BY RolesKept DEF MapEach, Synced
<1>2. ASSUME NEW m \in OpenAIForm(T)  PROVE SyncReasoning(m, deepseek) \in OpenAIForm(T)
  <2>1. "reasoning_content" \in Words  BY DEF Words
  <2> DEFINE w == [m EXCEPT !.as = "reasoning_content"]
  <2>2. \A R, C : m \in Msgs(R, T, C) => w \in Msgs(R, T, C)  BY <2>1, MessageWith
  <2> HIDE DEF w
  <2>3. w \in OpenAIForm(T)  BY <2>2 DEF OpenAIForm
  <2>4. SyncReasoning(m, deepseek) = w \/ SyncReasoning(m, deepseek) = m  BY DEF SyncReasoning, w
  <2> QED  BY <2>3, <2>4
<1>3. \A i \in DOMAIN s : s[i] \in OpenAIForm(T)  OBVIOUS
<1>4. Maps(h, s, OpenAIForm(T))  BY <1>2, <1>3 DEF Maps
<1> HIDE DEF h
<1> QED  BY <1>1, <1>4, EachIn

LEMMA PrepareOpenAI ==
  ASSUME NEW T, NEW b, IsBody(b), b.messages \in Seq(OpenAIForm(T)), NEW family
  PROVE  LET c == PrepareUpstreamWithModel(b, family)
         IN /\ IsBody(c) /\ c.system = b.system /\ c.format = b.format
            /\ c.messages \in Seq(OpenAIForm(T))
<1> DEFINE deepseek == family \in {"deepseek", "flash"}
           msgs == Synced(b.messages, deepseek)
           usage == b.usage \/ b.stream
           topP == b.topP \/ family = "flash"
           stop == IF deepseek /\ b.tools # <<>> THEN EnsureDSMLToolStop(b.stop) ELSE b.stop
           c == PrepareUpstreamWithModel(b, family)
<1>1. c = [b EXCEPT !.messages = msgs, !.usage = usage, !.topP = topP, !.stop = stop]
  BY DEF PrepareUpstreamWithModel, Synced
<1>2. msgs \in Seq(OpenAIForm(T))  BY SyncTypes
<1> HIDE DEF msgs, usage, topP, stop, c
<1>3. IsBody(c) /\ c.system = b.system /\ c.format = b.format /\ c.messages = msgs
  BY <1>1 DEF IsBody, Fields
<1> QED  BY <1>2, <1>3 DEF c

LEMMA PrepareTidy ==
  ASSUME NEW T, NEW b, Tidy(b, T), NEW model
  PROVE  Tidy(Prepare(b, model), T) /\ Prepare(b, model).format = b.format
<1>0. IsBody(b) /\ b.system \in Seq(Int)  BY DEF Tidy
<1>1. CASE b.format = "openai"
  <2> DEFINE c == PrepareUpstreamWithModel(b, model.family)
  <2>1. b.messages \in Seq(OpenAIForm(T))  BY <1>1 DEF Tidy
  <2>2. IsBody(c) /\ c.system = b.system /\ c.format = b.format /\ c.messages \in Seq(OpenAIForm(T))
    BY <1>0, <2>1, PrepareOpenAI
  <2> HIDE DEF c
  <2>3. Tidy(c, T)  BY <1>0, <1>1, <2>2 DEF Tidy
  <2> QED  BY <1>1, <2>2, <2>3 DEF Prepare, c
<1>2. CASE b.format = "claude"
  <2>1. b.messages \in Seq(Merged)  BY <1>2 DEF Tidy
  <2>2. b.messages \in Seq(Sound)  BY <2>1, MergedIs, Widen
  <2>3. DropEmptyMessages(StripRejectableBlocks(b.messages)) = b.messages  BY <2>2, StripSound, DropSound
  <2>4. NormalizeClaudeContent(b) = [b EXCEPT !.messages = b.messages]
    BY <2>3 DEF NormalizeClaudeContent
  <2>5. [b EXCEPT !.messages = b.messages] = b  BY <1>0 DEF IsBody, Fields
  <2> QED  BY <1>2, <2>4, <2>5 DEF Prepare
<1>3. CASE b.format = "responses"  BY <1>3 DEF Prepare
<1> QED  BY <1>1, <1>2, <1>3 DEF Tidy

-----------------------------------------------------------------------------
(* A Claude request that is not translated: its empty blocks and messages. *)

(* A message without an empty text. *)
Worded == {m \in ClaudeForm : \A i \in 1..Len(m.content) : m.content[i].type = "text" => m.content[i].text # <<>>}

LEMMA ClaudeFields ==
  ASSUME NEW m \in ClaudeForm
  PROVE  \E R, T : m \in Msgs(R, T, {<<>>}) /\ Msgs(R, T, {<<>>}) \subseteq ClaudeForm
BY DEF ClaudeForm, ClaudeSpoken

(* StripRejectableBlocks, on the parts of one message. *)
Stripped(c) == Keep(c, LAMBDA p : p.type # "bare" /\ ~IsRejectableBlock(p))

LEMMA StrippedIs ==
  ASSUME NEW T, NEW c \in Seq(PartsOf(T))
  PROVE  Stripped(c) \in Seq({p \in PartsOf(T) : p.type = "text" => p.text # <<>>})
<1> DEFINE V == {p \in PartsOf(T) : p.type = "text" => p.text # <<>>}
           h == [i \in DOMAIN c |-> IF c[i].type # "bare" /\ ~IsRejectableBlock(c[i]) THEN <<c[i]>> ELSE <<>>]
<1>1. Stripped(c) = FlattenSeq(h)  BY DEF Stripped, Keep
<1>2. \A i \in DOMAIN c : c[i] \in PartsOf(T)  OBVIOUS
<1>3. \A i \in DOMAIN c : ~IsRejectableBlock(c[i]) => c[i] \in V  BY <1>2 DEF IsRejectableBlock
<1> HIDE DEF V
<1>4. Picks(h, c, V)  BY <1>3 DEF Picks
<1> HIDE DEF h
<1> QED  BY <1>1, <1>4, SomeIn DEF V

LEMMA StripWorded ==
  ASSUME NEW s \in Seq(ClaudeForm)
  PROVE  StripRejectableBlocks(s) \in Seq(Worded)
<1> DEFINE F(m) == [m EXCEPT !.content = Stripped(m.content)]
           h == [i \in DOMAIN s |-> F(s[i])]
<1>1. StripRejectableBlocks(s) = h  BY DEF StripRejectableBlocks, MapEach, Stripped
<1>2. ASSUME NEW m \in ClaudeForm  PROVE F(m) \in Worded
  <2>1. PICK R, T : m \in Msgs(R, T, {<<>>}) /\ Msgs(R, T, {<<>>}) \subseteq ClaudeForm  BY ClaudeFields
  <2> DEFINE V == {p \in PartsOf(T) : p.type = "text" => p.text # <<>>}
             k == Stripped(m.content)
  <2>2. m.content \in Seq(PartsOf(T))  BY <2>1, MessageFields
  <2>3. k \in Seq(V)  BY <2>2, StrippedIs
  <2>4. V \subseteq PartsOf(T) /\ \A p \in V : p.type = "text" => p.text # <<>>  OBVIOUS
  <2> HIDE DEF V, k
  <2>5. k \in Seq(PartsOf(T))  BY <2>3, <2>4, Widen
  <2>6. \A i \in 1..Len(k) : k[i].type = "text" => k[i].text # <<>>  BY <2>3, <2>4, MemberIn
  <2> DEFINE w == [m EXCEPT !.content = k]
  <2>7. w \in Msgs(R, T, {<<>>})  BY <2>1, <2>5, MessageWith
  <2>8. w.content = k  BY <2>1 DEF Msgs
  <2> HIDE DEF w
  <2>9. w \in Worded  BY <2>1, <2>6, <2>7, <2>8 DEF Worded
  <2> QED  BY <2>9 DEF w, k
<1>3. \A i \in DOMAIN s : s[i] \in ClaudeForm  OBVIOUS
<1> HIDE DEF F
<1>4. Maps(h, s, Worded)  BY <1>2, <1>3 DEF Maps
<1> HIDE DEF h
<1> QED  BY <1>1, <1>4, EachIn

(* Without an empty text; and none but the last, an assistant, is empty. *)
CleanSeq(s) ==
    /\ s \in Seq(Worded)
    /\ \A i \in 1..Len(s) : s[i].content = <<>> => i = Len(s) /\ s[i].role = "assistant"

LEMMA AppendClean ==
  ASSUME NEW V, V = {m \in Worded : m.content # <<>>}, NEW a \in Seq(V), NEW m \in Worded,
         m \in V \/ m.role = "assistant"
  PROVE  CleanSeq(a \o <<m>>) /\ (m \in V => a \o <<m>> \in Seq(V))
<1> DEFINE c == a \o <<m>>
<1>1. a \in Seq(Worded) /\ <<m>> \in Seq(Worded)
  <2>1. V \subseteq Worded  OBVIOUS
  <2> QED  BY <2>1, Widen, OneIn
<1>2. c \in Seq(Worded) /\ Len(c) = Len(a) + 1 /\ (\A i \in 1..Len(a) : c[i] = a[i]) /\ c[Len(a) + 1] = m
  <2>1. Len(<<m>>) = 1 /\ 1 \in 1..1 /\ <<m>>[1] = m  OBVIOUS
  <2> QED  BY <1>1, <2>1, Joined
<1>3. m \in V => c \in Seq(V)
  <2>1. m \in V => <<m>> \in Seq(V)  BY OneIn
  <2> QED  BY <2>1, Joined
<1> HIDE DEF c
<1>4. \A i \in 1..Len(a) : a[i] \in V  BY MemberIn
<1>n. Len(a) \in Nat  OBVIOUS
<1>5. \A i \in 1..Len(c) : i \in 1..Len(a) \/ i = Len(a) + 1  BY <1>2, <1>n
<1>6. \A i \in 1..Len(a) : c[i].content # <<>>  BY <1>2, <1>4
<1>7. m.content = <<>> => m.role = "assistant"  OBVIOUS
<1>8. \A i \in 1..Len(c) : c[i].content = <<>> => i = Len(c) /\ c[i].role = "assistant"
  BY <1>2, <1>5, <1>6, <1>7
<1>9. CleanSeq(c)  BY <1>2, <1>8 DEF CleanSeq
<1> QED  BY <1>3, <1>9 DEF c

LEMMA WordedFields ==
  ASSUME NEW m \in Worded
  PROVE  m.calls = <<>> /\ (HasValidContent(m) => m.content # <<>>)
<1>1. PICK R, T : m \in Msgs(R, T, {<<>>})  BY ClaudeFields DEF Worded
<1>2. m.calls = <<>>  BY <1>1, MessageFields
<1>3. m.content = <<>> => Range(m.content) = {}  BY DEF Range
<1> QED  BY <1>2, <1>3 DEF HasValidContent

LEMMA DropClean ==
  ASSUME NEW s \in Seq(Worded)
  PROVE  CleanSeq(DropEmptyMessages(s))
<1> DEFINE N == Len(s)
           V == {m \in Worded : m.content # <<>>}
           h == [i \in DOMAIN s |-> IF HasValidContent(s[i]) \/ (i = Len(s) /\ s[i].role = "assistant")
                                    THEN <<s[i]>> ELSE <<>>]
<1>1. DropEmptyMessages(s) = FlattenSeq(h)  BY DEF DropEmptyMessages
<1>n. N \in Nat /\ DOMAIN s = 1..N  OBVIOUS
<1>2. \A i \in 1..N : s[i] \in Worded  BY MemberIn
<1>3. \A i \in 1..N : HasValidContent(s[i]) => s[i] \in V  BY <1>2, WordedFields
<1>4. \A i \in DOMAIN s : s[i] \in Worded  BY <1>2, <1>n
<1>5. Picks(h, s, Worded)  BY <1>4 DEF Picks
<1>6. \A i \in 1..N : \/ h[i] = <<>>
                      \/ h[i] = <<s[i]>> /\ (s[i] \in V \/ (i = N /\ s[i].role = "assistant"))
  BY <1>3, <1>n
<1>7. Len(h) = N
  <2>1. h = [i \in 1..N |-> h[i]]  BY <1>n
  <2> HIDE DEF h, N
  <2>2. DOMAIN h = 1..N  BY <2>1
  <2>3. h \in Seq(Seq(Worded))  BY <1>5, SomeIn
  <2>4. 1..Len(h) = 1..N /\ Len(h) \in Nat  BY <2>2, <2>3
  <2> QED  BY <1>n, <2>2, <2>3, <2>4, LenProperties
<1>8. h \in Seq(Seq(Worded))  BY <1>5, SomeIn
<1> HIDE DEF h
<1>9. PICK f : Flattens(f, h, Worded)  BY <1>8, FlattenIs
<1>10. /\ f \in [0..N -> Seq(Worded)] /\ f[0] = <<>>
       /\ \A n \in 1..N : f[n] = f[n - 1] \o h[n]
       /\ FlattenSeq(h) = f[N]
  BY <1>7, <1>9 DEF Flattens
<1> HIDE DEF N, V
<1>v. V = {m \in Worded : m.content # <<>>}  BY DEF V
<1>11. CASE N = 0
  <2>1. FlattenSeq(h) = <<>>  BY <1>10, <1>11
  <2>2. CleanSeq(<<>>)  BY EmptyIn DEF CleanSeq
  <2> QED  BY <1>1, <2>1, <2>2
<1>12. CASE N # 0
  <2> DEFINE B == {n \in 0..N - 1 : f[n] \in Seq(V)}
  <2>1. 0 \in B  BY <1>10, <1>12, <1>n, EmptyIn
  <2>2. \A n \in 0..((N - 1) - 1) : n \in B => n + 1 \in B
    <3> SUFFICES ASSUME NEW n \in 0..((N - 1) - 1), n \in B  PROVE n + 1 \in B
      OBVIOUS
    <3>1. n + 1 \in 1..N /\ n + 1 \in 0..N - 1 /\ n + 1 # N /\ (n + 1) - 1 = n  BY <1>n
    <3>2. f[n + 1] = f[n] \o h[n + 1]  BY <1>10, <3>1
    <3>3. f[n] \in Seq(V)  OBVIOUS
    <3>4. h[n + 1] = <<>> \/ (h[n + 1] = <<s[n + 1]>> /\ s[n + 1] \in V)  BY <1>6, <3>1
    <3>5. h[n + 1] \in Seq(V)  BY <3>4, OneIn, EmptyIn
    <3>6. f[n + 1] \in Seq(V)  BY <3>2, <3>3, <3>5, Joined
    <3> QED  BY <3>1, <3>6
  <2>3. N - 1 \in Nat  BY <1>n, <1>12
  <2> HIDE DEF B
  <2>4. \A n \in 0..(N - 1) : n \in B  BY <2>1, <2>2, <2>3, UpTo
  <2>5. f[N - 1] \in Seq(V)  BY <2>3, <2>4 DEF B
  <2>6. N \in 1..N  BY <1>n, <1>12
  <2>7. FlattenSeq(h) = f[N - 1] \o h[N]  BY <1>10, <2>6
  <2>8. CASE h[N] = <<>>
    <3>1. f[N - 1] \o h[N] = f[N - 1]  BY <2>5, <2>8
    <3>2. V \subseteq Worded /\ \A m \in V : m.content # <<>>  BY <1>v
    <3> DEFINE a == f[N - 1]
    <3> HIDE DEF a
    <3>3. a \in Seq(V)  BY <2>5 DEF a
    <3>4. a \in Seq(Worded)  BY <3>2, <3>3, Widen
    <3>5. \A i \in 1..Len(a) : a[i].content # <<>>  BY <3>2, <3>3, MemberIn
    <3>6. CleanSeq(a)  BY <3>4, <3>5 DEF CleanSeq
    <3> QED  BY <1>1, <2>7, <3>1, <3>6 DEF a
  <2>9. CASE h[N] = <<s[N]>> /\ (s[N] \in V \/ s[N].role = "assistant")
    <3>1. s[N] \in Worded  BY <1>2, <2>6
    <3>2. CleanSeq(f[N - 1] \o <<s[N]>>)  BY <1>v, <2>5, <2>9, <3>1, AppendClean
    <3> QED  BY <1>1, <2>7, <2>9, <3>2
  <2> QED  BY <1>6, <2>6, <2>8, <2>9
<1> QED  BY <1>11, <1>12

(* A Claude request that is not translated. *)
Clean(b) == IsBody(b) /\ b.system \in Seq(Int) /\ b.format = "claude" /\ CleanSeq(b.messages)

LEMMA CleanFormed ==
  ASSUME NEW T, NEW b, Clean(b)
  PROVE  Formed(b, T)
<1>1. Seq(Worded) \subseteq Seq(ClaudeForm)
  <2>1. Worded \subseteq ClaudeForm  BY DEF Worded
  <2> QED  BY <2>1, Widen
<1> QED  BY <1>1 DEF Clean, CleanSeq, Formed, Formats

LEMMA PrepareClean ==
  ASSUME NEW T, NEW b, Formed(b, T), b.format = "claude", NEW model
  PROVE  Clean(Prepare(b, model))
<1> DEFINE msgs == DropEmptyMessages(StripRejectableBlocks(b.messages))
           c == [b EXCEPT !.messages = msgs]
<1>0. IsBody(b) /\ b.system \in Seq(Int) /\ b.messages \in Seq(ClaudeForm)  BY DEF Formed
<1>1. Prepare(b, model) = c  BY DEF Prepare, NormalizeClaudeContent
<1>2. CleanSeq(msgs)  BY <1>0, StripWorded, DropClean
<1> HIDE DEF msgs
<1>3. IsBody(c) /\ c.system = b.system /\ c.format = b.format /\ c.messages = msgs  BY <1>0, WithMessages
<1> HIDE DEF c
<1> QED  BY <1>0, <1>1, <1>2, <1>3 DEF Clean

-----------------------------------------------------------------------------
(* OpenCode's tools: what is concealed, and under which names.             *)

(* The names of OpenCode's tools, and the aliases of each. *)
Marks == {"read", "shell"}

Family(key) == {AliasNames[key][i] : i \in DOMAIN AliasNames[key]}

Tooling == [name : STRING \cup Words, def : {"own", "opencode"}]

(* Some alias of each is not the name of a caller's tool. *)
Spare(tools) ==
    \A key \in Marks : \E i \in DOMAIN AliasNames[key] : \A t \in Range(tools) : t.name # AliasNames[key][i]

LEMMA MarksAre == Range(FingerprintToolNames) = Marks
BY DEF FingerprintToolNames, Range, Marks

LEMMA Families ==
  /\ \A key \in Marks : Family(key) \subseteq Words /\ DOMAIN AliasNames[key] = 1..3 /\ Family(key) \cap Marks = {}
  /\ Family("read") \cap Family("shell") = {}
<1> DEFINE r == <<"read_client", "read_client2", "read_client3">>
           s == <<"shell_client", "shell_client2", "shell_client3">>
<1>1. AliasNames["read"] = r /\ AliasNames["shell"] = s  BY DEF AliasNames
<1>2. DOMAIN r = 1..3 /\ DOMAIN s = 1..3  OBVIOUS
<1>3. 1..3 = {1, 2, 3}  OBVIOUS
<1>4. /\ r[1] = "read_client" /\ r[2] = "read_client2" /\ r[3] = "read_client3"
      /\ s[1] = "shell_client" /\ s[2] = "shell_client2" /\ s[3] = "shell_client3"
  OBVIOUS
<1> HIDE DEF r, s
<1>5. Family("read") = {r[i] : i \in {1, 2, 3}} /\ Family("shell") = {s[i] : i \in {1, 2, 3}}
  BY <1>1, <1>2, <1>3 DEF Family
<1>6. /\ Family("read") = {"read_client", "read_client2", "read_client3"}
      /\ Family("shell") = {"shell_client", "shell_client2", "shell_client3"}
  BY <1>4, <1>5
<1>7. /\ {"read_client", "read_client2", "read_client3"} \subseteq Words
      /\ {"shell_client", "shell_client2", "shell_client3"} \subseteq Words
  BY DEF Words
<1> QED  BY <1>1, <1>2, <1>6, <1>7 DEF Marks

LEMMA AliasForIs ==
  ASSUME NEW key \in Marks, NEW taken, \E i \in DOMAIN AliasNames[key] : AliasNames[key][i] \notin taken
  PROVE  AliasFor(key, taken) \in Family(key) /\ AliasFor(key, taken) \notin taken
<1> DEFINE free == {i \in DOMAIN AliasNames[key] : AliasNames[key][i] \notin taken}
           c == CHOOSE i \in free : \A j \in free : i <= j
<1>1. DOMAIN AliasNames[key] = 1..3  BY Families
<1>2. free \in SUBSET Nat /\ free # {}  BY <1>1
<1>3. \E i \in free : \A j \in free : i <= j
  <2> HIDE DEF free
  <2> QED  BY <1>2, Least
<1>4. c \in free  BY <1>3, Zenon
<1>5. AliasFor(key, taken) = AliasNames[key][c]  BY DEF AliasFor
<1> HIDE DEF c
<1> QED  BY <1>4, <1>5 DEF Family

-----------------------------------------------------------------------------
Named(tools, n) == {tools[k].name : k \in 1..n}

(* The aliases: none is the name of a caller's tool, and each stands for   *)
(* an own tool of the caller that was met.                                 *)
Aliased(out1, taken, seen, names, tools, n) ==
    /\ names = [a \in DOMAIN names |-> names[a]]
    /\ taken = Named(tools, Len(tools)) \cup DOMAIN names
    /\ DOMAIN names \cap Named(tools, Len(tools)) = {}
    /\ seen \subseteq Marks
    /\ \A a \in DOMAIN names :
         /\ names[a] \in seen /\ a \in Family(names[a])
         /\ \E i \in 1..Len(out1) : out1[i] = Tool(a, "own")
         /\ \E k \in 1..n : tools[k].name = names[a] /\ tools[k].def = "own"

(* The tools that are sent: the caller's, and the aliases. *)
Offered(out1, seen, names, tools, n) ==
    /\ out1 \in Seq(Tooling)
    /\ \A i \in 1..Len(out1) :
         /\ out1[i].name \in Marks => out1[i].def = "opencode" /\ out1[i].name \in seen
         /\ out1[i].name \in DOMAIN names => out1[i].def = "own"
         /\ out1[i].name \in DOMAIN names \/ \E k \in 1..n : tools[k] = out1[i]
    /\ \A i, j \in 1..Len(out1) :
         i < j /\ out1[i].name = out1[j].name =>
           out1[i].name \notin Marks
           /\ \E k, l \in 1..n : k # l /\ tools[k].name = out1[i].name /\ tools[l].name = out1[i].name

(* None of the caller's is forgotten. *)
Complete(out1, seen, names, tools, n) ==
    /\ \A k \in 1..n : tools[k].name \notin Marks => \E i \in 1..Len(out1) : out1[i] = tools[k]
    /\ \A k \in 1..n : tools[k].name \in Marks => tools[k].name \in seen
    /\ \A key \in seen : \/ \E i \in 1..Len(out1) : out1[i] = Tool(key, "opencode")
                         \/ \E a \in DOMAIN names : names[a] = key

ConcealShape(x) == x = [out |-> x.out, taken |-> x.taken, seen |-> x.seen, aliases |-> x.aliases]

Concealed(x, tools, n) ==
    /\ ConcealShape(x)
    /\ Aliased(x.out, x.taken, x.seen, x.aliases, tools, n)
    /\ Offered(x.out, x.seen, x.aliases, tools, n)
    /\ Complete(x.out, x.seen, x.aliases, tools, n)

LEMMA ShapeWith ==
  ASSUME NEW x, ConcealShape(x), NEW o, NEW s
  PROVE  /\ [x EXCEPT !.out = o] = [out |-> o, taken |-> x.taken, seen |-> x.seen, aliases |-> x.aliases]
         /\ [x EXCEPT !.out = o, !.seen = s] = [out |-> o, taken |-> x.taken, seen |-> s, aliases |-> x.aliases]
<1> DEFINE a == x.out
           w == x.taken
           e == x.seen
           d == x.aliases
<1>1. x = [out |-> a, taken |-> w, seen |-> e, aliases |-> d]  BY DEF ConcealShape
<1> HIDE DEF a, w, e, d
<1>2. [x EXCEPT !.out = o] = [out |-> o, taken |-> w, seen |-> e, aliases |-> d]  BY <1>1
<1> DEFINE y == [x EXCEPT !.out = o]
<1>3. [x EXCEPT !.out = o, !.seen = s] = [y EXCEPT !.seen = s]  OBVIOUS
<1> HIDE DEF y
<1>5. y = [out |-> o, taken |-> w, seen |-> e, aliases |-> d]  BY <1>2 DEF y
<1>4. [y EXCEPT !.seen = s] = [out |-> o, taken |-> w, seen |-> s, aliases |-> d]  BY <1>5
<1> QED  BY <1>2, <1>3, <1>4 DEF w, e, d

LEMMA AppendIs ==
  ASSUME NEW S, NEW s \in Seq(S), NEW e \in S
  PROVE  /\ Append(s, e) \in Seq(S) /\ Len(Append(s, e)) = Len(s) + 1
         /\ \A i \in 1..Len(s) : Append(s, e)[i] = s[i]
         /\ Append(s, e)[Len(s) + 1] = e
         /\ \A i \in 1..Len(s) + 1 : i \in 1..Len(s) \/ i = Len(s) + 1
         /\ \A i \in 1..Len(s) : i \in 1..Len(s) + 1
         /\ Len(s) + 1 \in 1..Len(s) + 1
OBVIOUS

(* The next tool is not OpenCode's by its name. *)
LEMMA ConcealOther ==
  ASSUME NEW tools \in Seq(Tooling), NEW n \in 1..Len(tools), NEW x, Concealed(x, tools, n - 1),
         tools[n].name \notin Marks
  PROVE  Concealed([x EXCEPT !.out = Append(@, tools[n])], tools, n)
<1> DEFINE t == tools[n]
           o == Append(x.out, t)
           y == [x EXCEPT !.out = o]
<1>0. ConcealShape(x) /\ Aliased(x.out, x.taken, x.seen, x.aliases, tools, n - 1) /\ Offered(x.out, x.seen, x.aliases, tools, n - 1) /\ Complete(x.out, x.seen, x.aliases, tools, n - 1)
  BY DEF Concealed
<1>t. t \in Tooling  BY MemberIn
<1>n. n \in Nat /\ n - 1 \in Nat /\ n \in 1..n /\ (\A k \in 1..n - 1 : k \in 1..n /\ k # n)
      /\ \A k \in 1..n : k \in 1..n - 1 \/ k = n
  OBVIOUS
<1>1. /\ y.out = o /\ y.taken = x.taken /\ y.seen = x.seen /\ y.aliases = x.aliases /\ ConcealShape(y)
  <2> HIDE DEF o
  <2> QED  BY <1>0 DEF ConcealShape
<1>2. t.name \in Named(tools, Len(tools))  BY DEF Named
<1>3. t.name \notin DOMAIN x.aliases  BY <1>0, <1>2 DEF Aliased
<1>4. x.out \in Seq(Tooling)  BY <1>0 DEF Offered
<1>5. /\ o \in Seq(Tooling) /\ Len(o) = Len(x.out) + 1
      /\ \A i \in 1..Len(x.out) : o[i] = x.out[i]
      /\ o[Len(x.out) + 1] = t
      /\ \A i \in 1..Len(o) : i \in 1..Len(x.out) \/ i = Len(x.out) + 1
      /\ \A i \in 1..Len(x.out) : i \in 1..Len(o)
      /\ Len(x.out) + 1 \in 1..Len(o) /\ Len(x.out) \in Nat
  BY <1>4, <1>t, AppendIs
<1>m. t.name \notin Marks  OBVIOUS
<1> HIDE DEF o, y
<1>e. ASSUME NEW e, \E i \in 1..Len(x.out) : x.out[i] = e  PROVE \E i \in 1..Len(o) : o[i] = e
  <2>1. PICK i \in 1..Len(x.out) : x.out[i] = e  BY <1>e
  <2>2. i \in 1..Len(o) /\ o[i] = e  BY <1>5, <2>1
  <2> QED  BY <2>2
<1>6. Aliased(o, x.taken, x.seen, x.aliases, tools, n)
  <2>1. ASSUME NEW a \in DOMAIN x.aliases
        PROVE  /\ x.aliases[a] \in x.seen /\ a \in Family(x.aliases[a])
               /\ \E i \in 1..Len(o) : o[i] = Tool(a, "own")
               /\ \E k \in 1..n : tools[k].name = x.aliases[a] /\ tools[k].def = "own"
    <3>1. \E i \in 1..Len(x.out) : x.out[i] = Tool(a, "own")  BY <1>0 DEF Aliased
    <3>2. PICK k \in 1..n - 1 : tools[k].name = x.aliases[a] /\ tools[k].def = "own"  BY <1>0 DEF Aliased
    <3>3. k \in 1..n  BY <1>n, <3>2
    <3>4. x.aliases[a] \in x.seen /\ a \in Family(x.aliases[a])  BY <1>0 DEF Aliased
    <3>5. \E i \in 1..Len(o) : o[i] = Tool(a, "own")  BY <1>e, <3>1
    <3> QED  BY <3>2, <3>3, <3>4, <3>5
  <2>2. /\ x.aliases = [a \in DOMAIN x.aliases |-> x.aliases[a]]
        /\ x.taken = Named(tools, Len(tools)) \cup DOMAIN x.aliases
        /\ DOMAIN x.aliases \cap Named(tools, Len(tools)) = {}
        /\ x.seen \subseteq Marks
    BY <1>0 DEF Aliased
  <2> QED  BY <2>1, <2>2 DEF Aliased
<1>7. Offered(o, x.seen, x.aliases, tools, n)
  <2>1. ASSUME NEW i \in 1..Len(o)
        PROVE  /\ o[i].name \in Marks => o[i].def = "opencode" /\ o[i].name \in x.seen
               /\ o[i].name \in DOMAIN x.aliases => o[i].def = "own"
               /\ o[i].name \in DOMAIN x.aliases \/ \E k \in 1..n : tools[k] = o[i]
    <3>1. CASE i \in 1..Len(x.out)
      <4>1. /\ x.out[i].name \in Marks => x.out[i].def = "opencode" /\ x.out[i].name \in x.seen
            /\ x.out[i].name \in DOMAIN x.aliases => x.out[i].def = "own"
            /\ x.out[i].name \in DOMAIN x.aliases \/ \E k \in 1..n - 1 : tools[k] = x.out[i]
        BY <1>0, <3>1 DEF Offered
      <4>2. o[i] = x.out[i]  BY <1>5, <3>1
      <4> QED  BY <1>n, <4>1, <4>2
    <3>2. CASE i = Len(x.out) + 1  BY <1>3, <1>5, <1>n, <1>m, <3>2
    <3> QED  BY <1>5, <3>1, <3>2
  <2>2. ASSUME NEW i \in 1..Len(o), NEW j \in 1..Len(o), i < j, o[i].name = o[j].name
        PROVE  o[i].name \notin Marks
               /\ \E k, l \in 1..n : k # l /\ tools[k].name = o[i].name /\ tools[l].name = o[i].name
    <3>1. i \in 1..Len(x.out)  BY <1>5, <2>2
    <3>2. CASE j \in 1..Len(x.out)
      <4>1. x.out[i].name = x.out[j].name /\ o[i] = x.out[i]  BY <1>5, <2>2, <3>1, <3>2
      <4>2. x.out[i].name \notin Marks
            /\ \E k, l \in 1..n - 1 : k # l /\ tools[k].name = x.out[i].name /\ tools[l].name = x.out[i].name
        BY <1>0, <2>2, <3>1, <3>2, <4>1 DEF Offered
      <4> QED  BY <1>n, <4>1, <4>2
    <3>3. CASE j = Len(x.out) + 1
      <4>1. x.out[i].name = t.name /\ o[i] = x.out[i]  BY <1>5, <2>2, <3>1, <3>3
      <4>2. PICK k \in 1..n - 1 : tools[k] = x.out[i]  BY <1>0, <1>3, <3>1, <4>1 DEF Offered
      <4>3. k \in 1..n /\ n \in 1..n /\ k # n /\ tools[k].name = o[i].name /\ tools[n].name = o[i].name
        BY <1>n, <4>1, <4>2
      <4> QED  BY <1>m, <4>1, <4>3
    <3> QED  BY <1>5, <3>2, <3>3
  <2> QED  BY <1>1, <1>5, <2>1, <2>2 DEF Offered
<1>8. Complete(o, x.seen, x.aliases, tools, n)
  <2>1. ASSUME NEW k \in 1..n, tools[k].name \notin Marks  PROVE \E i \in 1..Len(o) : o[i] = tools[k]
    <3>1. CASE k = n  BY <1>5, <3>1
    <3>2. CASE k \in 1..n - 1
      <4>1. PICK i \in 1..Len(x.out) : x.out[i] = tools[k]  BY <1>0, <2>1, <3>2 DEF Complete
      <4> QED  BY <1>5, <4>1
    <3> QED  BY <1>n, <3>1, <3>2
  <2>2. \A k \in 1..n : tools[k].name \in Marks => tools[k].name \in x.seen  BY <1>0, <1>m, <1>n DEF Complete
  <2>3. ASSUME NEW key \in x.seen
        PROVE  \/ \E i \in 1..Len(o) : o[i] = Tool(key, "opencode")
               \/ \E a \in DOMAIN x.aliases : x.aliases[a] = key
    <3>1. \/ \E i \in 1..Len(x.out) : x.out[i] = Tool(key, "opencode")
          \/ \E a \in DOMAIN x.aliases : x.aliases[a] = key
      BY <1>0 DEF Complete
    <3> QED  BY <1>e, <3>1
  <2> QED  BY <1>1, <2>1, <2>2, <2>3 DEF Complete
<1>9. [x EXCEPT !.out = Append(@, tools[n])] = y  BY DEF y, o
<1> QED  BY <1>1, <1>6, <1>7, <1>8, <1>9 DEF Concealed

(* One of OpenCode's names, met before. *)
LEMMA ConcealSeen ==
  ASSUME NEW tools \in Seq(Tooling), NEW n \in 1..Len(tools), NEW x, Concealed(x, tools, n - 1),
         tools[n].name \in x.seen
  PROVE  Concealed(x, tools, n)
<1>0. ConcealShape(x) /\ Aliased(x.out, x.taken, x.seen, x.aliases, tools, n - 1) /\ Offered(x.out, x.seen, x.aliases, tools, n - 1) /\ Complete(x.out, x.seen, x.aliases, tools, n - 1)
  BY DEF Concealed
<1>n. n \in Nat /\ n - 1 \in Nat /\ n \in 1..n /\ (\A k \in 1..n - 1 : k \in 1..n /\ k # n)
      /\ \A k \in 1..n : k \in 1..n - 1 \/ k = n
  OBVIOUS
<1>m. tools[n].name \in Marks  BY <1>0 DEF Aliased
<1>1. Aliased(x.out, x.taken, x.seen, x.aliases, tools, n)  BY <1>0, <1>n DEF Aliased
<1>2. Offered(x.out, x.seen, x.aliases, tools, n)  BY <1>0, <1>n DEF Offered
<1>3. Complete(x.out, x.seen, x.aliases, tools, n)  BY <1>0, <1>n, <1>m DEF Complete
<1> QED  BY <1>0, <1>1, <1>2, <1>3 DEF Concealed

LEMMA ToolIs ==
  /\ \A t \in Tooling : t = Tool(t.name, t.def) /\ t.def \in {"own", "opencode"} /\ t.name \in STRING \cup Words
  /\ \A a, d : Tool(a, d).name = a /\ Tool(a, d).def = d
  /\ \A t \in Tooling : \A a : [t EXCEPT !.name = a] = Tool(a, t.def)
  /\ \A a \in STRING \cup Words, d \in {"own", "opencode"} : Tool(a, d) \in Tooling
BY DEF Tooling, Tool

(* OpenCode's own definition, for the first time. *)
LEMMA ConcealTheirs ==
  ASSUME NEW tools \in Seq(Tooling), NEW n \in 1..Len(tools), NEW x, Concealed(x, tools, n - 1),
         tools[n].name \in Marks, tools[n].name \notin x.seen, tools[n].def = "opencode"
  PROVE  Concealed([x EXCEPT !.out = Append(@, tools[n]), !.seen = @ \cup {tools[n].name}], tools, n)
<1> DEFINE t == tools[n]
           o == Append(x.out, t)
           seen == x.seen \cup {t.name}
           y == [x EXCEPT !.out = o, !.seen = seen]
<1>0. /\ ConcealShape(x) /\ Aliased(x.out, x.taken, x.seen, x.aliases, tools, n - 1)
      /\ Offered(x.out, x.seen, x.aliases, tools, n - 1) /\ Complete(x.out, x.seen, x.aliases, tools, n - 1)
  BY DEF Concealed
<1>t. t \in Tooling  BY MemberIn
<1>n. n \in Nat /\ n - 1 \in Nat /\ n \in 1..n /\ (\A k \in 1..n - 1 : k \in 1..n /\ k # n)
      /\ \A k \in 1..n : k \in 1..n - 1 \/ k = n
  OBVIOUS
<1>1. /\ y.out = o /\ y.taken = x.taken /\ y.seen = seen /\ y.aliases = x.aliases /\ ConcealShape(y)
  <2> HIDE DEF o, seen
  <2>1. y = [out |-> o, taken |-> x.taken, seen |-> seen, aliases |-> x.aliases]  BY <1>0, ShapeWith
  <2> HIDE DEF y
  <2> QED  BY <2>1 DEF ConcealShape
<1>2. t.name \in Named(tools, Len(tools))  BY DEF Named
<1>3. t.name \notin DOMAIN x.aliases  BY <1>0, <1>2 DEF Aliased
<1>4. x.out \in Seq(Tooling)  BY <1>0 DEF Offered
<1>5. /\ o \in Seq(Tooling) /\ Len(o) = Len(x.out) + 1
      /\ \A i \in 1..Len(x.out) : o[i] = x.out[i]
      /\ o[Len(x.out) + 1] = t
      /\ \A i \in 1..Len(o) : i \in 1..Len(x.out) \/ i = Len(x.out) + 1
      /\ \A i \in 1..Len(x.out) : i \in 1..Len(o)
      /\ Len(x.out) + 1 \in 1..Len(o) /\ Len(x.out) \in Nat
  BY <1>4, <1>t, AppendIs
<1>m. t.name \in Marks /\ t.name \notin x.seen /\ t.def = "opencode" /\ t = Tool(t.name, "opencode")
  BY <1>t, ToolIs
<1>s. t.name \in seen /\ x.seen \subseteq seen /\ \A key \in seen : key \in x.seen \/ key = t.name  OBVIOUS
<1> HIDE DEF o, y, seen
<1>e. ASSUME NEW e, \E i \in 1..Len(x.out) : x.out[i] = e  PROVE \E i \in 1..Len(o) : o[i] = e
  <2>1. PICK i \in 1..Len(x.out) : x.out[i] = e  BY <1>e
  <2>2. i \in 1..Len(o) /\ o[i] = e  BY <1>5, <2>1
  <2> QED  BY <2>2
<1>6. Aliased(o, x.taken, seen, x.aliases, tools, n)
  <2>1. ASSUME NEW a \in DOMAIN x.aliases
        PROVE  /\ x.aliases[a] \in seen /\ a \in Family(x.aliases[a])
               /\ \E i \in 1..Len(o) : o[i] = Tool(a, "own")
               /\ \E k \in 1..n : tools[k].name = x.aliases[a] /\ tools[k].def = "own"
    <3>1. \E i \in 1..Len(x.out) : x.out[i] = Tool(a, "own")  BY <1>0 DEF Aliased
    <3>2. PICK k \in 1..n - 1 : tools[k].name = x.aliases[a] /\ tools[k].def = "own"  BY <1>0 DEF Aliased
    <3>3. k \in 1..n  BY <1>n, <3>2
    <3>4. x.aliases[a] \in x.seen /\ a \in Family(x.aliases[a])  BY <1>0 DEF Aliased
    <3>5. \E i \in 1..Len(o) : o[i] = Tool(a, "own")  BY <1>e, <3>1
    <3> QED  BY <1>s, <3>2, <3>3, <3>4, <3>5
  <2>2. /\ x.aliases = [a \in DOMAIN x.aliases |-> x.aliases[a]]
        /\ x.taken = Named(tools, Len(tools)) \cup DOMAIN x.aliases
        /\ DOMAIN x.aliases \cap Named(tools, Len(tools)) = {}
        /\ x.seen \subseteq Marks
    BY <1>0 DEF Aliased
  <2>3. seen \subseteq Marks  BY <1>m, <1>s, <2>2
  <2> QED  BY <2>1, <2>2, <2>3 DEF Aliased
<1>7. Offered(o, seen, x.aliases, tools, n)
  <2>1. ASSUME NEW i \in 1..Len(o)
        PROVE  /\ o[i].name \in Marks => o[i].def = "opencode" /\ o[i].name \in seen
               /\ o[i].name \in DOMAIN x.aliases => o[i].def = "own"
               /\ o[i].name \in DOMAIN x.aliases \/ \E k \in 1..n : tools[k] = o[i]
    <3>1. CASE i \in 1..Len(x.out)
      <4>1. /\ x.out[i].name \in Marks => x.out[i].def = "opencode" /\ x.out[i].name \in x.seen
            /\ x.out[i].name \in DOMAIN x.aliases => x.out[i].def = "own"
            /\ x.out[i].name \in DOMAIN x.aliases \/ \E k \in 1..n - 1 : tools[k] = x.out[i]
        BY <1>0, <3>1 DEF Offered
      <4>2. o[i] = x.out[i]  BY <1>5, <3>1
      <4> QED  BY <1>n, <1>s, <4>1, <4>2
    <3>2. CASE i = Len(x.out) + 1  BY <1>3, <1>5, <1>n, <1>m, <1>s, <3>2
    <3> QED  BY <1>5, <3>1, <3>2
  <2>2. ASSUME NEW i \in 1..Len(o), NEW j \in 1..Len(o), i < j, o[i].name = o[j].name
        PROVE  o[i].name \notin Marks
               /\ \E k, l \in 1..n : k # l /\ tools[k].name = o[i].name /\ tools[l].name = o[i].name
    <3>1. i \in 1..Len(x.out)  BY <1>5, <2>2
    <3>2. CASE j \in 1..Len(x.out)
      <4>1. x.out[i].name = x.out[j].name /\ o[i] = x.out[i]  BY <1>5, <2>2, <3>1, <3>2
      <4>2. x.out[i].name \notin Marks
            /\ \E k, l \in 1..n - 1 : k # l /\ tools[k].name = x.out[i].name /\ tools[l].name = x.out[i].name
        BY <1>0, <2>2, <3>1, <3>2, <4>1 DEF Offered
      <4> QED  BY <1>n, <4>1, <4>2
    <3>3. CASE j = Len(x.out) + 1
      <4>1. x.out[i].name = t.name  BY <1>5, <2>2, <3>1, <3>3
      <4> QED  BY <1>0, <1>m, <3>1, <4>1 DEF Offered
    <3> QED  BY <1>5, <3>2, <3>3
  <2> QED  BY <1>5, <2>1, <2>2 DEF Offered
<1>8. Complete(o, seen, x.aliases, tools, n)
  <2>1. ASSUME NEW k \in 1..n, tools[k].name \notin Marks  PROVE \E i \in 1..Len(o) : o[i] = tools[k]
    <3>1. k \in 1..n - 1  BY <1>n, <1>m, <2>1
    <3>2. \E i \in 1..Len(x.out) : x.out[i] = tools[k]  BY <1>0, <2>1, <3>1 DEF Complete
    <3> QED  BY <1>e, <3>2
  <2>2. \A k \in 1..n : tools[k].name \in Marks => tools[k].name \in seen
    BY <1>0, <1>n, <1>s DEF Complete
  <2>3. ASSUME NEW key \in seen
        PROVE  \/ \E i \in 1..Len(o) : o[i] = Tool(key, "opencode")
               \/ \E a \in DOMAIN x.aliases : x.aliases[a] = key
    <3>1. CASE key \in x.seen
      <4>1. \/ \E i \in 1..Len(x.out) : x.out[i] = Tool(key, "opencode")
            \/ \E a \in DOMAIN x.aliases : x.aliases[a] = key
        BY <1>0, <3>1 DEF Complete
      <4> QED  BY <1>e, <4>1
    <3>2. CASE key = t.name  BY <1>5, <1>m, <3>2
    <3> QED  BY <1>s, <3>1, <3>2
  <2> QED  BY <2>1, <2>2, <2>3 DEF Complete
<1>9. [x EXCEPT !.out = Append(@, tools[n]), !.seen = @ \cup {tools[n].name}] = y  BY DEF y, o, seen
<1> QED  BY <1>1, <1>6, <1>7, <1>8, <1>9 DEF Concealed

(* A tool of the caller's under one of OpenCode's names, for the first time. *)
Renamed(x, t) ==
    LET alias == AliasFor(t.name, x.taken)
    IN [out |-> Append(x.out, [t EXCEPT !.name = alias]),
        taken |-> x.taken \cup {alias}, seen |-> x.seen \cup {t.name},
        aliases |-> [m \in DOMAIN x.aliases \cup {alias} |->
                       IF m = alias THEN t.name ELSE x.aliases[m]]]

LEMMA ConcealOwn ==
  ASSUME NEW tools \in Seq(Tooling), Spare(tools), NEW n \in 1..Len(tools), NEW x,
         Concealed(x, tools, n - 1),
         tools[n].name \in Marks, tools[n].name \notin x.seen, tools[n].def # "opencode"
  PROVE  Concealed(Renamed(x, tools[n]), tools, n)
<1> DEFINE t == tools[n]
           alias == AliasFor(t.name, x.taken)
           e == Tool(alias, "own")
           o == Append(x.out, e)
           taken == x.taken \cup {alias}
           seen == x.seen \cup {t.name}
           al == [m \in DOMAIN x.aliases \cup {alias} |-> IF m = alias THEN t.name ELSE x.aliases[m]]
           y == [out |-> o, taken |-> taken, seen |-> seen, aliases |-> al]
<1>0. /\ ConcealShape(x) /\ Aliased(x.out, x.taken, x.seen, x.aliases, tools, n - 1)
      /\ Offered(x.out, x.seen, x.aliases, tools, n - 1) /\ Complete(x.out, x.seen, x.aliases, tools, n - 1)
  BY DEF Concealed
<1>t. t \in Tooling  BY MemberIn
<1>n. n \in Nat /\ n - 1 \in Nat /\ n \in 1..n /\ (\A k \in 1..n - 1 : k \in 1..n /\ k # n)
      /\ \A k \in 1..n : k \in 1..n - 1 \/ k = n
  OBVIOUS
<1>m. t.name \in Marks /\ t.name \notin x.seen /\ t.def = "own" /\ [t EXCEPT !.name = alias] = e
  <2>1. t.def = "own"  BY <1>t, ToolIs
  <2> DEFINE z == t
  <2> HIDE DEF alias, z
  <2>2. z \in Tooling /\ z.def = "own"  BY <1>t, <2>1 DEF z
  <2>3. [z EXCEPT !.name = alias] = Tool(alias, z.def)  BY <2>2, ToolIs
  <2> QED  BY <2>1, <2>2, <2>3 DEF z
<1>a. /\ x.taken = Named(tools, Len(tools)) \cup DOMAIN x.aliases
      /\ DOMAIN x.aliases \cap Named(tools, Len(tools)) = {} /\ x.seen \subseteq Marks
      /\ \A a \in DOMAIN x.aliases : x.aliases[a] \in x.seen /\ a \in Family(x.aliases[a])
  BY <1>0 DEF Aliased
<1>f. alias \in Family(t.name) /\ alias \notin x.taken
  <2>1. PICK i \in DOMAIN AliasNames[t.name] : \A u \in Range(tools) : u.name # AliasNames[t.name][i]
    BY <1>m DEF Spare
  <2> DEFINE w == AliasNames[t.name][i]
  <2>2. w \in Family(t.name)  BY DEF Family
  <2>3. w \notin Named(tools, Len(tools))
    <3>1. \A k \in 1..Len(tools) : tools[k] \in Range(tools)  BY DEF Range
    <3> QED  BY <2>1, <3>1 DEF Named
  <2>4. w \notin DOMAIN x.aliases
    <3>1. SUFFICES ASSUME w \in DOMAIN x.aliases  PROVE FALSE
      OBVIOUS
    <3>2. x.aliases[w] \in Marks /\ x.aliases[w] # t.name /\ w \in Family(x.aliases[w])
      BY <1>a, <1>m, <3>1
    <3> QED  BY <1>m, <2>2, <3>2, Families DEF Marks
  <2>5. w \notin x.taken  BY <1>a, <2>3, <2>4
  <2> QED  BY <1>m, <2>5, AliasForIs
<1>w. alias \in Words /\ alias \notin Marks  BY <1>f, <1>m, Families
<1>1. Renamed(x, t) = y  BY <1>m DEF Renamed
<1>2. /\ y.out = o /\ y.taken = taken /\ y.seen = seen /\ y.aliases = al /\ ConcealShape(y)
  <2> HIDE DEF o, taken, seen, al
  <2> QED  BY DEF ConcealShape
<1>4. x.out \in Seq(Tooling) /\ e \in Tooling /\ e.name = alias /\ e.def = "own"
  BY <1>0, <1>w, ToolIs DEF Offered
<1> HIDE DEF e
<1>5. /\ o \in Seq(Tooling) /\ Len(o) = Len(x.out) + 1
      /\ \A i \in 1..Len(x.out) : o[i] = x.out[i]
      /\ o[Len(x.out) + 1] = e
      /\ \A i \in 1..Len(o) : i \in 1..Len(x.out) \/ i = Len(x.out) + 1
      /\ \A i \in 1..Len(x.out) : i \in 1..Len(o)
      /\ Len(x.out) + 1 \in 1..Len(o) /\ Len(x.out) \in Nat
  BY <1>4, AppendIs
<1>s. t.name \in seen /\ x.seen \subseteq seen /\ \A key \in seen : key \in x.seen \/ key = t.name  OBVIOUS
<1>d. /\ DOMAIN al = DOMAIN x.aliases \cup {alias} /\ al[alias] = t.name
      /\ \A a \in DOMAIN x.aliases : al[a] = x.aliases[a]
      /\ al = [a \in DOMAIN al |-> al[a]]
  BY <1>a, <1>f
<1> HIDE DEF o, y, seen, al, alias
<1>e. ASSUME NEW z, \E i \in 1..Len(x.out) : x.out[i] = z  PROVE \E i \in 1..Len(o) : o[i] = z
  <2>1. PICK i \in 1..Len(x.out) : x.out[i] = z  BY <1>e
  <2>2. i \in 1..Len(o) /\ o[i] = z  BY <1>5, <2>1
  <2> QED  BY <2>2
<1>6. Aliased(o, taken, seen, al, tools, n)
  <2>1. ASSUME NEW a \in DOMAIN al
        PROVE  /\ al[a] \in seen /\ a \in Family(al[a])
               /\ \E i \in 1..Len(o) : o[i] = Tool(a, "own")
               /\ \E k \in 1..n : tools[k].name = al[a] /\ tools[k].def = "own"
    <3>0. CASE a = alias
      <4>1. o[Len(x.out) + 1] = Tool(a, "own")  BY <1>5, <3>0 DEF e
      <4> QED  BY <1>d, <1>f, <1>m, <1>n, <1>s, <1>5, <3>0, <4>1
    <3>6. CASE a \in DOMAIN x.aliases
      <4>1. \E i \in 1..Len(x.out) : x.out[i] = Tool(a, "own")  BY <1>0, <3>6 DEF Aliased
      <4>2. PICK k \in 1..n - 1 : tools[k].name = x.aliases[a] /\ tools[k].def = "own"
        BY <1>0, <3>6 DEF Aliased
      <4>3. k \in 1..n  BY <1>n, <4>2
      <4>4. x.aliases[a] \in x.seen /\ a \in Family(x.aliases[a]) /\ al[a] = x.aliases[a]
        BY <1>a, <1>d, <3>6
      <4>5. \E i \in 1..Len(o) : o[i] = Tool(a, "own")  BY <1>e, <4>1
      <4> QED  BY <1>s, <4>2, <4>3, <4>4, <4>5
    <3> QED  BY <1>d, <3>0, <3>6
  <2>2. /\ taken = Named(tools, Len(tools)) \cup DOMAIN al
        /\ DOMAIN al \cap Named(tools, Len(tools)) = {}
        /\ seen \subseteq Marks
    BY <1>a, <1>d, <1>f, <1>m, <1>s
  <2> QED  BY <1>d, <2>1, <2>2 DEF Aliased
<1>7. Offered(o, seen, al, tools, n)
  <2>0. ASSUME NEW i \in 1..Len(x.out)
        PROVE  x.out[i].name \in x.taken
    <3>1. x.out[i].name \in DOMAIN x.aliases \/ \E k \in 1..n - 1 : tools[k] = x.out[i]
      BY <1>0 DEF Offered
    <3>2. \A k \in 1..n - 1 : tools[k].name \in Named(tools, Len(tools))  BY DEF Named
    <3> QED  BY <1>a, <3>1, <3>2
  <2>1. ASSUME NEW i \in 1..Len(o)
        PROVE  /\ o[i].name \in Marks => o[i].def = "opencode" /\ o[i].name \in seen
               /\ o[i].name \in DOMAIN al => o[i].def = "own"
               /\ o[i].name \in DOMAIN al \/ \E k \in 1..n : tools[k] = o[i]
    <3>1. CASE i \in 1..Len(x.out)
      <4>1. /\ x.out[i].name \in Marks => x.out[i].def = "opencode" /\ x.out[i].name \in x.seen
            /\ x.out[i].name \in DOMAIN x.aliases => x.out[i].def = "own"
            /\ x.out[i].name \in DOMAIN x.aliases \/ \E k \in 1..n - 1 : tools[k] = x.out[i]
        BY <1>0, <3>1 DEF Offered
      <4>2. o[i] = x.out[i] /\ x.out[i].name # alias  BY <1>5, <1>f, <2>0, <3>1
      <4> QED  BY <1>n, <1>s, <1>d, <4>1, <4>2
    <3>2. CASE i = Len(x.out) + 1  BY <1>4, <1>5, <1>d, <1>w, <3>2
    <3> QED  BY <1>5, <3>1, <3>2
  <2>2. ASSUME NEW i \in 1..Len(o), NEW j \in 1..Len(o), i < j, o[i].name = o[j].name
        PROVE  o[i].name \notin Marks
               /\ \E k, l \in 1..n : k # l /\ tools[k].name = o[i].name /\ tools[l].name = o[i].name
    <3>1. i \in 1..Len(x.out)  BY <1>5, <2>2
    <3>2. CASE j \in 1..Len(x.out)
      <4>1. x.out[i].name = x.out[j].name /\ o[i] = x.out[i]  BY <1>5, <2>2, <3>1, <3>2
      <4>2. x.out[i].name \notin Marks
            /\ \E k, l \in 1..n - 1 : k # l /\ tools[k].name = x.out[i].name /\ tools[l].name = x.out[i].name
        BY <1>0, <2>2, <3>1, <3>2, <4>1 DEF Offered
      <4> QED  BY <1>n, <4>1, <4>2
    <3>3. CASE j = Len(x.out) + 1
      <4>1. x.out[i].name = alias  BY <1>4, <1>5, <2>2, <3>1, <3>3
      <4> QED  BY <1>f, <2>0, <3>1, <4>1
    <3> QED  BY <1>5, <3>2, <3>3
  <2> QED  BY <1>5, <2>1, <2>2 DEF Offered
<1>8. Complete(o, seen, al, tools, n)
  <2>1. ASSUME NEW k \in 1..n, tools[k].name \notin Marks  PROVE \E i \in 1..Len(o) : o[i] = tools[k]
    <3>1. k \in 1..n - 1  BY <1>n, <1>m, <2>1
    <3>2. \E i \in 1..Len(x.out) : x.out[i] = tools[k]  BY <1>0, <2>1, <3>1 DEF Complete
    <3> QED  BY <1>e, <3>2
  <2>2. \A k \in 1..n : tools[k].name \in Marks => tools[k].name \in seen
    BY <1>0, <1>n, <1>s DEF Complete
  <2>3. ASSUME NEW key \in seen
        PROVE  \/ \E i \in 1..Len(o) : o[i] = Tool(key, "opencode")
               \/ \E a \in DOMAIN al : al[a] = key
    <3>1. CASE key \in x.seen
      <4>1. \/ \E i \in 1..Len(x.out) : x.out[i] = Tool(key, "opencode")
            \/ \E a \in DOMAIN x.aliases : x.aliases[a] = key
        BY <1>0, <3>1 DEF Complete
      <4>2. (\E a \in DOMAIN x.aliases : x.aliases[a] = key) => \E a \in DOMAIN al : al[a] = key  BY <1>d
      <4> QED  BY <1>e, <4>1, <4>2
    <3>2. CASE key = t.name  BY <1>d, <3>2
    <3> QED  BY <1>s, <3>1, <3>2
  <2> QED  BY <2>1, <2>2, <2>3 DEF Complete
<1> QED  BY <1>1, <1>2, <1>6, <1>7, <1>8 DEF Concealed

LEMMA ConcealStep ==
  ASSUME NEW tools \in Seq(Tooling), Spare(tools), NEW n \in 1..Len(tools), NEW x,
         Concealed(x, tools, n - 1)
  PROVE  Concealed(ConcealTool(x, tools[n]), tools, n)
<1> DEFINE t == tools[n]
<1>1. ConcealTool(x, t) =
        IF t.name \notin Marks THEN [x EXCEPT !.out = Append(@, t)]
        ELSE IF t.name \in x.seen THEN x
        ELSE IF t.def = "opencode" THEN [x EXCEPT !.out = Append(@, t), !.seen = @ \cup {t.name}]
        ELSE Renamed(x, t)
  BY MarksAre DEF ConcealTool, Renamed
<1>2. CASE t.name \notin Marks  BY <1>1, <1>2, ConcealOther
<1>3. CASE t.name \in Marks /\ t.name \in x.seen  BY <1>1, <1>3, ConcealSeen
<1>4. CASE t.name \in Marks /\ t.name \notin x.seen /\ t.def = "opencode"
  <2>1. ConcealTool(x, t) = [x EXCEPT !.out = Append(@, t), !.seen = @ \cup {t.name}]  BY <1>1, <1>4
  <2>2. Concealed([x EXCEPT !.out = Append(@, t), !.seen = @ \cup {t.name}], tools, n)
    BY <1>4, ConcealTheirs
  <2> QED  BY <2>1, <2>2
<1>5. CASE t.name \in Marks /\ t.name \notin x.seen /\ t.def # "opencode"  BY <1>1, <1>5, ConcealOwn
<1> QED  BY <1>2, <1>3, <1>4, <1>5

(* The states of the loop, as a set. *)
ConcealStates ==
    [out : Seq(Tooling), taken : SUBSET (STRING \cup Words), seen : SUBSET Marks,
     aliases : UNION {[D -> Marks] : D \in SUBSET Words}]

LEMMA ConcealedIn ==
  ASSUME NEW tools \in Seq(Tooling), NEW n \in 0..Len(tools), NEW x, Concealed(x, tools, n)
  PROVE  x \in ConcealStates /\ DOMAIN x.aliases \subseteq Words
<1>0. /\ ConcealShape(x) /\ Aliased(x.out, x.taken, x.seen, x.aliases, tools, n)
      /\ Offered(x.out, x.seen, x.aliases, tools, n)
  BY DEF Concealed
<1>1. x.out \in Seq(Tooling)  BY <1>0 DEF Offered
<1>2. /\ x.aliases = [a \in DOMAIN x.aliases |-> x.aliases[a]] /\ x.seen \subseteq Marks
      /\ x.taken = Named(tools, Len(tools)) \cup DOMAIN x.aliases
      /\ \A a \in DOMAIN x.aliases : x.aliases[a] \in x.seen /\ a \in Family(x.aliases[a])
  BY <1>0 DEF Aliased
<1>3. DOMAIN x.aliases \subseteq Words  BY <1>2, Families
<1>4. x.aliases \in [DOMAIN x.aliases -> Marks]  BY <1>2
<1>5. x.aliases \in UNION {[D -> Marks] : D \in SUBSET Words}  BY <1>3, <1>4
<1>6. Named(tools, Len(tools)) \subseteq STRING \cup Words
  <2>1. \A k \in 1..Len(tools) : tools[k] \in Tooling  BY MemberIn
  <2> QED  BY <2>1, ToolIs DEF Named
<1>7. x.taken \in SUBSET (STRING \cup Words)  BY <1>2, <1>3, <1>6
<1> DEFINE o == x.out
           w == x.taken
           s == x.seen
           al == x.aliases
           A == UNION {[D -> Marks] : D \in SUBSET Words}
           W == STRING \cup Words
<1>8. x = [out |-> o, taken |-> w, seen |-> s, aliases |-> al]  BY <1>0 DEF ConcealShape
<1>9. o \in Seq(Tooling) /\ w \in SUBSET W /\ s \in SUBSET Marks /\ al \in A  BY <1>1, <1>2, <1>5, <1>7
<1> HIDE DEF o, w, s, al, A, W
<1>10. x \in [out : Seq(Tooling), taken : SUBSET W, seen : SUBSET Marks, aliases : A]  BY <1>8, <1>9
<1> QED  BY <1>3, <1>10 DEF ConcealStates, A, W

(* concealFingerprintToolNames *)
LEMMA ConcealAll ==
  ASSUME NEW tools \in Seq(Tooling), Spare(tools)
  PROVE  Concealed(ConcealFingerprintToolNames(tools), tools, Len(tools))
<1> DEFINE none == [n \in {} |-> ""]
           names == {t.name : t \in Range(tools)}
           b == [out |-> <<>>, taken |-> names, seen |-> {}, aliases |-> none]
           X == [n \in 0..Len(tools) |-> {x \in ConcealStates : Concealed(x, tools, n)}]
           L == Loop(ConcealTool, b, tools)
<1>n. Len(tools) \in Nat  OBVIOUS
<1>1. Concealed(b, tools, 0)
  <2>1. names = Named(tools, Len(tools))
    <3>1. Range(tools) = {tools[k] : k \in 1..Len(tools)}  BY DEF Range
    <3> QED  BY <3>1 DEF Named
  <2>2. DOMAIN none = {} /\ none = [a \in DOMAIN none |-> none[a]]  OBVIOUS
  <2> HIDE DEF names, none
  <2>3. b.out = <<>> /\ b.taken = names /\ b.seen = {} /\ b.aliases = none /\ ConcealShape(b)  BY DEF ConcealShape
  <2>4. 1..0 = {} /\ Len(<<>>) = 0 /\ <<>> \in Seq(Tooling)  OBVIOUS
  <2>5. Aliased(<<>>, names, {}, none, tools, 0)  BY <2>1, <2>2, <2>4 DEF Aliased
  <2>6. Offered(<<>>, {}, none, tools, 0)  BY <2>2, <2>4 DEF Offered
  <2>7. Complete(<<>>, {}, none, tools, 0)  BY <2>4 DEF Complete
  <2> QED  BY <2>3, <2>5, <2>6, <2>7 DEF Concealed
<1>2. ConcealFingerprintToolNames(tools) = L  BY DEF ConcealFingerprintToolNames
<1> HIDE DEF b
<1>3. b \in X[0]
  <2>1. 0 \in 0..Len(tools)  BY <1>n
  <2> QED  BY <1>1, <2>1, ConcealedIn
<1>4. ConcealSteps(X, tools)
  <2> SUFFICES ASSUME NEW n \in 1..Len(tools), NEW x \in X[n - 1]
               PROVE  ConcealTool(x, tools[n]) \in X[n]
    BY DEF ConcealSteps
  <2>1. n - 1 \in 0..Len(tools) /\ n \in 0..Len(tools)  BY <1>n
  <2>2. Concealed(x, tools, n - 1)  BY <2>1
  <2>3. Concealed(ConcealTool(x, tools[n]), tools, n)  BY <2>2, ConcealStep
  <2>4. ConcealTool(x, tools[n]) \in ConcealStates  BY <2>1, <2>3, ConcealedIn
  <2> QED  BY <2>1, <2>3, <2>4
<1> HIDE DEF X
<1>5. L \in X[Len(tools)]  BY <1>3, <1>4, ConcealLoop
<1>6. Len(tools) \in 0..Len(tools)  BY <1>n
<1> HIDE DEF L
<1> QED  BY <1>2, <1>5, <1>6 DEF X

LEMMA FlattenTwo ==
  ASSUME NEW S, NEW h \in Seq(Seq(S)), Len(h) = 2
  PROVE  FlattenSeq(h) = h[1] \o h[2]
<1>1. PICK f : Flattens(f, h, S)  BY FlattenIs
<1>2. /\ f[0] = <<>> /\ FlattenSeq(h) = f[2]
      /\ \A n \in 1..2 : f[n] = f[n - 1] \o h[n]
  BY <1>1 DEF Flattens
<1>3. f[1] = f[0] \o h[1] /\ f[2] = f[1] \o h[2]
  <2>1. 1 \in 1..2 /\ 2 \in 1..2 /\ 1 - 1 = 0 /\ 2 - 1 = 1  OBVIOUS
  <2> QED  BY <1>2, <2>1
<1>4. h[1] \in Seq(S)  BY MemberIn
<1>5. <<>> \o h[1] = h[1]  BY <1>4
<1> QED  BY <1>2, <1>3, <1>5

LEMMA MissingMarks ==
  ASSUME NEW tools
  PROVE  LET lack == MissingFingerprintTools(tools)
         IN /\ lack \in Seq(Marks)
            /\ \A i, j \in 1..Len(lack) : i # j => lack[i] # lack[j]
            /\ \A n \in Marks : (\A t \in Range(tools) : t.name # n) <=> n \in Range(lack)
<1> DEFINE P(n) == \A t \in Range(tools) : t.name # n
           F == FingerprintToolNames
           h == [i \in DOMAIN F |-> IF P(F[i]) THEN <<F[i]>> ELSE <<>>]
           a == IF P("read") THEN <<"read">> ELSE <<>>
           b == IF P("shell") THEN <<"shell">> ELSE <<>>
           lack == MissingFingerprintTools(tools)
<1>1. lack = FlattenSeq(h)  BY DEF MissingFingerprintTools, Keep
<1>2. DOMAIN F = 1..2 /\ F[1] = "read" /\ F[2] = "shell" /\ F \in Seq(Marks) /\ Len(F) = 2
  BY DEF FingerprintToolNames, Marks
<1> HIDE DEF P, F
<1>3. h[1] = a /\ h[2] = b  BY <1>2
<1>4. Picks(h, F, Marks)
  <2>1. \A i \in DOMAIN F : F[i] \in Marks  BY <1>2
  <2> QED  BY <2>1 DEF Picks
<1>5. h \in Seq(Seq(Marks)) /\ Len(h) = 2
  <2>1. DOMAIN h = 1..2  BY <1>2
  <2> HIDE DEF h
  <2>2. h \in Seq(Seq(Marks))  BY <1>2, <1>4, SomeIn
  <2>3. DOMAIN h = 1..Len(h) /\ Len(h) \in Nat  BY <2>2
  <2> QED  BY <2>1, <2>2, <2>3
<1> HIDE DEF h
<1>6. lack = a \o b  BY <1>1, <1>3, <1>5, FlattenTwo
<1> HIDE DEF lack
<1>7. a \in Seq(Marks) /\ b \in Seq(Marks)
  <2>1. "read" \in Marks /\ "shell" \in Marks  BY DEF Marks
  <2> QED  BY <2>1, OneIn, EmptyIn
<1>8. Range(a) = (IF P("read") THEN {"read"} ELSE {}) /\ Range(b) = (IF P("shell") THEN {"shell"} ELSE {})
  BY DEF Range
<1>9. lack \in Seq(Marks) /\ Range(lack) = Range(a) \cup Range(b)
  <2> HIDE DEF a, b
  <2> QED  BY <1>6, <1>7, Joined
<1>10. \A n \in Marks : P(n) <=> n \in Range(lack)
  <2>1. P("read") <=> "read" \in Range(lack)  BY <1>8, <1>9
  <2>2. P("shell") <=> "shell" \in Range(lack)  BY <1>8, <1>9
  <2> QED  BY <2>1, <2>2 DEF Marks
<1>11. \A i, j \in 1..Len(lack) : i # j => lack[i] # lack[j]
  <2>1. CASE P("read") /\ P("shell")
    <3> DEFINE u == <<"read">>
               v == <<"shell">>
    <3>1. lack = u \o v  BY <1>6, <2>1
    <3>2. u \in Seq(Marks) /\ v \in Seq(Marks) /\ Len(u) = 1 /\ Len(v) = 1 /\ u[1] = "read" /\ v[1] = "shell"
      BY <1>7, <2>1
    <3> HIDE DEF u, v
    <3>3. Len(lack) = 2 /\ lack[1] = "read" /\ lack[2] = "shell"
      <4>1. 1 \in 1..1 /\ 1 + 1 = 2  OBVIOUS
      <4> QED  BY <3>1, <3>2, <4>1, Joined
    <3>4. \A i \in 1..2 : i = 1 \/ i = 2  OBVIOUS
    <3> QED  BY <3>3, <3>4
  <2>2. CASE P("read") /\ ~P("shell")
    <3>1. lack = <<"read">>  BY <1>6, <2>2
    <3> QED  BY <3>1
  <2>3. CASE ~P("read") /\ P("shell")
    <3>1. lack = <<"shell">>  BY <1>6, <2>3
    <3> QED  BY <3>1
  <2>4. CASE ~P("read") /\ ~P("shell")
    <3>1. lack = <<>>  BY <1>6, <2>4
    <3> QED  BY <3>1
  <2> QED  BY <2>1, <2>2, <2>3, <2>4
<1> QED  BY <1>9, <1>10, <1>11 DEF lack, P

(* The tools that are sent, for what is left of the caller's. *)
Sending(out1) == out1 \o MapEach(LAMBDA n : Tool(n, "opencode"), MissingFingerprintTools(out1))

LEMMA SendingIs ==
  ASSUME NEW tools \in Seq(Tooling), Spare(tools)
  PROVE  LET x == ConcealFingerprintToolNames(tools)
             s == Sending(x.out)
         IN /\ s \in Seq(Tooling)
            /\ \A n \in Marks : Tool(n, "opencode") \in Range(s)
            /\ \A i, j \in 1..Len(s) :
                 i # j /\ s[i].name = s[j].name =>
                   s[i].name \notin Marks
                   /\ \E k, l \in 1..Len(tools) :
                        k # l /\ tools[k].name = s[i].name /\ tools[l].name = s[i].name
            /\ Range(x.out) \subseteq Range(s)
            /\ \A t \in Range(s) : t \in Range(x.out) \/ t.def = "opencode"
<1> DEFINE x == ConcealFingerprintToolNames(tools)
           o == x.out
           lack == MissingFingerprintTools(o)
           e == MapEach(LAMBDA n : Tool(n, "opencode"), lack)
           s == o \o e
<1>0. s = Sending(o)  BY DEF Sending
<1>1. Concealed(x, tools, Len(tools))  BY ConcealAll
<1> HIDE DEF x
<1>2. Offered(o, x.seen, x.aliases, tools, Len(tools))  BY <1>1 DEF Concealed
<1> HIDE DEF o
<1>3. o \in Seq(Tooling)  BY <1>2 DEF Offered
<1>4. /\ lack \in Seq(Marks)
      /\ \A i, j \in 1..Len(lack) : i # j => lack[i] # lack[j]
      /\ \A n \in Marks : (\A t \in Range(o) : t.name # n) <=> n \in Range(lack)
  BY MissingMarks
<1> HIDE DEF lack
<1>5. /\ e \in Seq(Tooling) /\ Len(e) = Len(lack)
      /\ \A i \in 1..Len(lack) : e[i] = Tool(lack[i], "opencode") /\ lack[i] \in Marks
  <2> DEFINE h == [i \in DOMAIN lack |-> Tool(lack[i], "opencode")]
  <2>1. e = h  BY DEF MapEach
  <2>2. \A i \in DOMAIN lack : lack[i] \in Marks  BY <1>4
  <2>3. Marks \subseteq Words  BY DEF Marks, Words
  <2>4. \A i \in DOMAIN lack : h[i] \in Tooling  BY <2>2, <2>3, ToolIs
  <2>5. Maps(h, lack, Tooling)  BY <2>4 DEF Maps
  <2>6. \A i \in DOMAIN lack : h[i] = Tool(lack[i], "opencode")  OBVIOUS
  <2> HIDE DEF h, e
  <2>7. h \in Seq(Tooling) /\ Len(h) = Len(lack)  BY <1>4, <2>5, EachIn
  <2> QED  BY <1>4, <2>1, <2>2, <2>6, <2>7
<1> HIDE DEF e
<1>6. /\ s \in Seq(Tooling) /\ Len(s) = Len(o) + Len(e)
      /\ \A i \in 1..Len(o) : s[i] = o[i]
      /\ \A i \in 1..Len(e) : s[Len(o) + i] = e[i]
      /\ Range(s) = Range(o) \cup Range(e)
  <2> HIDE DEF o
  <2> QED  BY <1>3, <1>5, Joined, SMTT(30)
<1> HIDE DEF s
<1>n. Len(o) \in Nat /\ Len(e) \in Nat /\ Len(s) \in Nat  BY <1>3, <1>5, <1>6
<1>i. \A i \in 1..Len(s) : i \in 1..Len(o) \/ (i - Len(o) \in 1..Len(e) /\ i = Len(o) + (i - Len(o)))
  BY <1>6, <1>n
<1>7. ASSUME NEW n \in Marks  PROVE Tool(n, "opencode") \in Range(s)
  <2>1. CASE n \in Range(lack)
    <3>1. PICK i \in 1..Len(lack) : lack[i] = n  BY <1>4, <2>1 DEF Range
    <3>2. i \in DOMAIN e /\ e[i] = Tool(n, "opencode")  BY <1>5, <3>1
    <3>3. Tool(n, "opencode") \in Range(e)  BY <3>2 DEF Range
    <3> QED  BY <1>6, <3>3
  <2>2. CASE n \notin Range(lack)
    <3>1. PICK t \in Range(o) : t.name = n  BY <1>4, <2>2
    <3>2. PICK i \in 1..Len(o) : o[i] = t  BY <1>3, <3>1 DEF Range
    <3>3. o[i].def = "opencode" /\ o[i].name = n  BY <1>2, <3>1, <3>2 DEF Offered
    <3>4. o[i] \in Tooling  BY <1>3, <3>2, MemberIn
    <3>5. o[i] = Tool(n, "opencode")  BY <3>3, <3>4, ToolIs
    <3> QED  BY <1>6, <3>1, <3>2, <3>5
  <2> QED  BY <2>1, <2>2
<1>m. ASSUME NEW i \in 1..Len(o), NEW j \in 1..Len(e)  PROVE o[i].name # e[j].name
  <2>1. lack[j] \in Range(lack) /\ lack[j] \in Marks /\ e[j].name = lack[j]
    BY <1>4, <1>5, ToolIs DEF Range
  <2>2. o[i] \in Range(o)  BY <1>3 DEF Range
  <2> QED  BY <1>4, <2>1, <2>2
<1>8. ASSUME NEW i \in 1..Len(s), NEW j \in 1..Len(s), i < j, s[i].name = s[j].name
      PROVE  s[i].name \notin Marks
             /\ \E k, l \in 1..Len(tools) : k # l /\ tools[k].name = s[i].name /\ tools[l].name = s[i].name
  <2>1. CASE i \in 1..Len(o) /\ j \in 1..Len(o)
    <3>1. s[i] = o[i] /\ s[j] = o[j]  BY <1>6, <2>1
    <3>2. o[i].name = o[j].name  BY <1>8, <3>1
    <3>3. o[i].name \notin Marks
          /\ \E k, l \in 1..Len(tools) : k # l /\ tools[k].name = o[i].name /\ tools[l].name = o[i].name
      BY <1>2, <1>8, <2>1, <3>2 DEF Offered
    <3> QED  BY <3>1, <3>3
  <2>2. CASE i \in 1..Len(o) /\ j - Len(o) \in 1..Len(e)
    <3>1. s[i] = o[i] /\ s[j] = e[j - Len(o)]  BY <1>6, <1>i, <1>n, <2>2
    <3> QED  BY <1>8, <1>m, <2>2, <3>1
  <2>3. CASE i - Len(o) \in 1..Len(e) /\ j - Len(o) \in 1..Len(e)
    <3> DEFINE p == i - Len(o)
               q == j - Len(o)
    <3>0. i \in Int /\ j \in Int /\ i # j  BY <1>8, <1>n
    <3>3. i = Len(o) + p /\ j = Len(o) + q /\ p # q  BY <1>n, <3>0
    <3>4. p \in 1..Len(e) /\ q \in 1..Len(e)  BY <2>3
    <3> HIDE DEF p, q
    <3>1. s[i] = e[p] /\ s[j] = e[q] /\ p # q  BY <1>6, <3>3, <3>4
    <3>2. e[p].name = lack[p] /\ e[q].name = lack[q] /\ p \in 1..Len(lack) /\ q \in 1..Len(lack)
      BY <1>5, <3>4, ToolIs
    <3> QED  BY <1>4, <1>8, <3>1, <3>2
  <2>4. ~(i \notin 1..Len(o) /\ j \in 1..Len(o))  BY <1>8, <1>n
  <2> QED  BY <1>i, <2>1, <2>2, <2>3, <2>4
<1>9. ASSUME NEW i \in 1..Len(s), NEW j \in 1..Len(s), i # j, s[i].name = s[j].name
      PROVE  s[i].name \notin Marks
             /\ \E k, l \in 1..Len(tools) : k # l /\ tools[k].name = s[i].name /\ tools[l].name = s[i].name
  <2>1. i < j \/ j < i  BY <1>n, <1>9
  <2> QED  BY <1>8, <1>9, <2>1
<1>10. ASSUME NEW t \in Range(s)  PROVE t \in Range(o) \/ t.def = "opencode"
  <2>1. CASE t \in Range(e)
    <3>1. PICK i \in 1..Len(e) : e[i] = t  BY <1>5, <2>1 DEF Range
    <3> QED  BY <1>5, <3>1, ToolIs
  <2> QED  BY <1>6, <2>1
<1> DEFINE z == Sending(o)
<1>11. z = s  BY <1>0
<1>12. Range(o) \subseteq Range(s)  BY <1>6
<1>13. /\ s \in Seq(Tooling)
       /\ \A n \in Marks : Tool(n, "opencode") \in Range(s)
       /\ \A i, j \in 1..Len(s) :
            i # j /\ s[i].name = s[j].name =>
              s[i].name \notin Marks
              /\ \E k, l \in 1..Len(tools) : k # l /\ tools[k].name = s[i].name /\ tools[l].name = s[i].name
       /\ Range(o) \subseteq Range(s)
       /\ \A t \in Range(s) : t \in Range(o) \/ t.def = "opencode"
  BY <1>6, <1>7, <1>9, <1>10, <1>12
<1> QED  BY <1>0, <1>13 DEF o, x

-----------------------------------------------------------------------------
(* Earlier calls, the prompt and the choice of a request without a key.    *)

LEMMA SentIn ==
  ASSUME NEW names, DOMAIN names \subseteq Words, NEW w \in Words
  PROVE  SentName(names, w) \in Words
<1>1. CASE \E a \in DOMAIN names : names[a] = w
  <2> DEFINE c == CHOOSE a \in DOMAIN names : names[a] = w
  <2>1. c \in DOMAIN names  BY <1>1, Zenon
  <2>2. SentName(names, w) = c  BY <1>1 DEF SentName
  <2> HIDE DEF c
  <2> QED  BY <2>1, <2>2
<1>2. CASE ~\E a \in DOMAIN names : names[a] = w
  <2>1. SentName(names, w) = w  BY <1>2 DEF SentName
  <2> QED  BY <2>1
<1> QED  BY <1>1, <1>2

CallsSent(calls, names) == MapEach(LAMBDA c : AliasCall(c, names), calls)

MessageSent(m, names) == [m EXCEPT !.calls = CallsSent(m.calls, names)]

(* Every name of a call is that of a caller's, as it is sent. *)
NamesSent(s, names) ==
    \A i \in 1..Len(s) : \A c \in Range(s[i].calls) : \E w : c.name = SentName(names, w)

LEMMA CallsSentIs ==
  ASSUME NEW names, DOMAIN names \subseteq Words, NEW calls \in Seq(Calls)
  PROVE  LET t == CallsSent(calls, names)
         IN /\ t \in Seq(Calls) /\ Len(t) = Len(calls)
            /\ \A c \in Range(t) : \E w : c.name = SentName(names, w)
<1> DEFINE t == CallsSent(calls, names)
           h == [i \in DOMAIN calls |-> AliasCall(calls[i], names)]
<1>1. t = h  BY DEF CallsSent, MapEach
<1>2. ASSUME NEW c \in Calls
      PROVE  AliasCall(c, names) \in Calls /\ AliasCall(c, names).name = SentName(names, c.name)
  <2>1. SentName(names, c.name) \in Words  BY SentIn DEF Calls
  <2> DEFINE n == SentName(names, c.name)
             d == [c EXCEPT !.name = n]
  <2>2. AliasCall(c, names) = d  BY DEF AliasCall
  <2> HIDE DEF n
  <2>3. n \in Words  BY <2>1 DEF n
  <2>4. d \in Calls /\ d.name = n  BY <2>3 DEF Calls
  <2> QED  BY <2>2, <2>4 DEF n
<1>3. \A i \in DOMAIN calls : calls[i] \in Calls  OBVIOUS
<1>4. Maps(h, calls, Calls)  BY <1>2, <1>3 DEF Maps
<1>5. \A i \in DOMAIN calls : h[i].name = SentName(names, calls[i].name)  BY <1>2, <1>3
<1> HIDE DEF h
<1>6. h \in Seq(Calls) /\ Len(h) = Len(calls) /\ DOMAIN h = DOMAIN calls  BY <1>4, EachIn
<1>7. \A c \in Range(h) : \E w : c.name = SentName(names, w)  BY <1>5, <1>6 DEF Range
<1> QED  BY <1>1, <1>6, <1>7

(* The calls of a message may be none, any, or one. *)
LEMMA MessageSentIs ==
  ASSUME NEW names, DOMAIN names \subseteq Words,
         NEW R, NEW T, NEW C \in {{<<>>}, Seq(Calls), OneCall}, NEW m \in Msgs(R, T, C)
  PROVE  LET n == MessageSent(m, names)
         IN /\ n \in Msgs(R, T, C)
            /\ \A c \in Range(n.calls) : \E w : c.name = SentName(names, w)
            /\ C = {<<>>} => n = m
<1> DEFINE k == CallsSent(m.calls, names)
           n == [m EXCEPT !.calls = k]
<1>1. m.calls \in C  BY MessageFields
<1>2. m.calls \in Seq(Calls)  BY <1>1, EmptyIn DEF OneCall
<1>3. /\ k \in Seq(Calls) /\ Len(k) = Len(m.calls)
      /\ \A c \in Range(k) : \E w : c.name = SentName(names, w)
  BY <1>2, CallsSentIs
<1> HIDE DEF k
<1>4. C = {<<>>} => k = <<>>
  <2>1. C = {<<>>} => Len(k) = 0  BY <1>1, <1>3
  <2> QED  BY <1>3, <2>1
<1>5. k \in C
  <2>1. CASE C = {<<>>}  BY <1>4, <2>1
  <2>2. CASE C = Seq(Calls)  BY <1>3, <2>2
  <2>3. CASE C = OneCall
    <3>1. Len(m.calls) = 1  BY <1>1, <2>3 DEF OneCall
    <3> QED  BY <1>3, <2>3, <3>1 DEF OneCall
  <2> QED  BY <2>1, <2>2, <2>3
<1>6. n \in Msgs(R, T, C)  BY <1>5, MessageWith
<1>7. n.calls = k  BY DEF Msgs
<1>8. C = {<<>>} => n = m
  <2>1. C = {<<>>} => k = m.calls  BY <1>1, <1>4
  <2> QED  BY <2>1 DEF Msgs
<1> HIDE DEF n
<1>9. MessageSent(m, names) = n  BY DEF MessageSent, n, k
<1> QED  BY <1>3, <1>6, <1>7, <1>8, <1>9

(* A set of messages that stays itself. *)
SentIsIn(names, M) ==
    \A m \in M : MessageSent(m, names) \in M
                 /\ \A c \in Range(MessageSent(m, names).calls) : \E w : c.name = SentName(names, w)

LEMMA HistoryIn ==
  ASSUME NEW names, NEW M, SentIsIn(names, M), NEW s \in Seq(M)
  PROVE  LET t == AliasHistoryToolCalls(s, names)
         IN t \in Seq(M) /\ NamesSent(t, names)
<1> DEFINE h == [i \in DOMAIN s |-> MessageSent(s[i], names)]
<1>1. AliasHistoryToolCalls(s, names) = h  BY DEF AliasHistoryToolCalls, MapEach, MessageSent, CallsSent
<1>2. \A i \in DOMAIN s : s[i] \in M  OBVIOUS
<1>3. Maps(h, s, M)  BY <1>2 DEF Maps, SentIsIn
<1>4. \A i \in DOMAIN s : \A c \in Range(h[i].calls) : \E w : c.name = SentName(names, w)
  BY <1>2 DEF SentIsIn
<1> HIDE DEF h
<1>5. h \in Seq(M) /\ Len(h) = Len(s)  BY <1>3, EachIn
<1>6. NamesSent(h, names)  BY <1>4, <1>5 DEF NamesSent
<1> QED  BY <1>1, <1>5, <1>6

LEMMA SentForms ==
  ASSUME NEW names, DOMAIN names \subseteq Words
  PROVE  /\ \A T : SentIsIn(names, OpenAIForm(T))
         /\ SentIsIn(names, Items) /\ SentIsIn(names, ResponsesForm)
         /\ SentIsIn(names, ClaudeForm) /\ \A m \in ClaudeForm : MessageSent(m, names) = m
<1>1. \A R, T : \A C \in {{<<>>}, Seq(Calls), OneCall} : SentIsIn(names, Msgs(R, T, C))
  <2> SUFFICES ASSUME NEW R, NEW T, NEW C \in {{<<>>}, Seq(Calls), OneCall}, NEW m \in Msgs(R, T, C)
               PROVE  MessageSent(m, names) \in Msgs(R, T, C)
                      /\ \A c \in Range(MessageSent(m, names).calls) : \E w : c.name = SentName(names, w)
    BY DEF SentIsIn
  <2> QED  BY MessageSentIs, SMTT(30)
<1>2. \A M, N : SentIsIn(names, M) /\ SentIsIn(names, N) => SentIsIn(names, M \cup N)
  BY DEF SentIsIn
<1>3. \A T : SentIsIn(names, OpenAIForm(T))
  <2> SUFFICES ASSUME NEW T  PROVE SentIsIn(names, OpenAIForm(T))
    OBVIOUS
  <2> DEFINE M == Msgs({"system", "user", "tool"}, T, {<<>>})
             N == Msgs({"assistant"}, T, Seq(Calls))
  <2>1. SentIsIn(names, M) /\ SentIsIn(names, N)  BY <1>1
  <2>2. OpenAIForm(T) = M \cup N  BY DEF OpenAIForm
  <2> HIDE DEF M, N
  <2> QED  BY <1>2, <2>1, <2>2
<1>4. SentIsIn(names, Items)
  <2> DEFINE M == Msgs({"user", "assistant"}, {"text", "input_image"}, {<<>>})
             N == Msgs({"reasoning", "function_call_output"}, {"text"}, {<<>>})
             O == Msgs({"function_call"}, {"text"}, OneCall)
  <2>1. SentIsIn(names, M) /\ SentIsIn(names, N) /\ SentIsIn(names, O)  BY <1>1
  <2>2. Items = (M \cup N) \cup O  BY DEF Items
  <2> HIDE DEF M, N, O
  <2>3. SentIsIn(names, M \cup N)  BY <1>2, <2>1
  <2> QED  BY <1>2, <2>1, <2>2, <2>3
<1>5. SentIsIn(names, ResponsesForm)
  <2> DEFINE M == Msgs({"system"}, {"text"}, {<<>>})
  <2>1. SentIsIn(names, M)  BY <1>1
  <2>2. ResponsesForm = Items \cup M  BY DEF ResponsesForm
  <2> HIDE DEF M
  <2> QED  BY <1>2, <1>4, <2>1, <2>2
<1>6. \A m \in ClaudeForm : MessageSent(m, names) = m
                            /\ \A c \in Range(MessageSent(m, names).calls) : \E w : c.name = SentName(names, w)
  <2> SUFFICES ASSUME NEW m \in ClaudeForm
               PROVE  MessageSent(m, names) = m
                      /\ \A c \in Range(MessageSent(m, names).calls) : \E w : c.name = SentName(names, w)
    OBVIOUS
  <2>1. PICK R, T : m \in Msgs(R, T, {<<>>})  BY ClaudeFields
  <2>2. {<<>>} \in {{<<>>}, Seq(Calls), OneCall}  OBVIOUS
  <2> QED  BY <2>1, <2>2, MessageSentIs
<1>7. SentIsIn(names, ClaudeForm)  BY <1>6 DEF SentIsIn
<1> QED  BY <1>3, <1>4, <1>5, <1>6, <1>7

LEMMA HistoryClaude ==
  ASSUME NEW names, DOMAIN names \subseteq Words, NEW s \in Seq(ClaudeForm)
  PROVE  AliasHistoryToolCalls(s, names) = s
<1>1. \A i \in DOMAIN s : s[i] \in ClaudeForm  OBVIOUS
<1>2. \A i \in DOMAIN s : MessageSent(s[i], names) = s[i]  BY <1>1, SentForms
<1>3. AliasHistoryToolCalls(s, names) = [i \in DOMAIN s |-> MessageSent(s[i], names)]
  BY DEF AliasHistoryToolCalls, MapEach, MessageSent, CallsSent
<1>4. [i \in DOMAIN s |-> MessageSent(s[i], names)] = [i \in DOMAIN s |-> s[i]]  BY <1>2
<1>5. [i \in DOMAIN s |-> s[i]] = s  OBVIOUS
<1> QED  BY <1>3, <1>4, <1>5

(* c is b but for the prompt and the messages. *)
Kin(c, b) ==
    /\ IsBody(c) /\ c.format = b.format /\ c.tools = b.tools /\ c.choice = b.choice
    /\ c.stream = b.stream /\ c.effort = b.effort

(* A text is among those of a request. *)
Says(b, k) ==
    \/ k \in Range(b.system)
    \/ \E i \in 1..Len(b.messages) : \E j \in 1..Len(b.messages[i].content) :
         k \in Range(b.messages[i].content[j].text)

(* What the prompt is added to, of a request that is to be sent. *)
Prompted(c, b, T) ==
    /\ Kin(c, b) /\ c.system \in Seq(Int)
    /\ b.format # "openai" => c.messages = b.messages
    /\ b.format = "openai" => c.messages \in Seq(OpenAIForm(T))
    /\ \A names : NamesSent(b.messages, names) => NamesSent(c.messages, names)

LEMMA WithSystem ==
  ASSUME NEW b, IsBody(b), NEW x
  PROVE  LET c == [b EXCEPT !.system = x] IN Kin(c, b) /\ c.system = x /\ c.messages = b.messages
BY DEF IsBody, Fields, Kin

LEMMA KinMessages ==
  ASSUME NEW b, IsBody(b), NEW x
  PROVE  LET c == [b EXCEPT !.messages = x] IN Kin(c, b) /\ c.system = b.system /\ c.messages = x
BY DEF IsBody, Fields, Kin

LEMMA OneSpoken ==
  ASSUME NEW T, "text" \in T, NEW text \in Seq(Int)
  PROVE  LET m == Message("system", <<Text(text)>>)
         IN /\ m \in OpenAIForm(T) /\ m.calls = <<>>
            /\ Len(m.content) = 1 /\ m.content[1].text = text
<1> DEFINE p == Text(text)
           m == Message("system", <<p>>)
<1>1. p.text = text  BY DEF Text, Part
<1>2. p \in PartsOf(T)  BY TextTypes
<1> HIDE DEF p
<1>3. <<p>> \in Seq(PartsOf(T))  BY <1>2
<1>4. m.content = <<p>> /\ m.calls = <<>>  BY DEF Message
<1>5. "system" \in {"system", "user", "tool"} /\ <<>> \in {<<>>}  OBVIOUS
<1>6. m \in Msgs({"system", "user", "tool"}, T, {<<>>})  BY <1>3, <1>5, MessageTypes
<1> HIDE DEF m
<1>7. m \in OpenAIForm(T)  BY <1>6 DEF OpenAIForm
<1>8. Len(m.content) = 1 /\ m.content[1] = p  BY <1>4
<1> QED  BY <1>1, <1>4, <1>7, <1>8 DEF m, p

(* A message of its own at the head. *)
LEMMA PromptHead ==
  ASSUME NEW T, "text" \in T, NEW text \in Seq(Int), NEW s \in Seq(OpenAIForm(T))
  PROVE  LET t == <<Message("system", <<Text(text)>>)>> \o s
         IN /\ t \in Seq(OpenAIForm(T))
            /\ \A names : NamesSent(s, names) => NamesSent(t, names)
            /\ 1 \in 1..Len(t) /\ Len(t[1].content) = 1 /\ t[1].content[1].text = text
<1> DEFINE m == Message("system", <<Text(text)>>)
           t == <<m>> \o s
<1>1. m \in OpenAIForm(T) /\ m.calls = <<>> /\ Len(m.content) = 1 /\ m.content[1].text = text  BY OneSpoken
<1> HIDE DEF m
<1>2. <<m>> \in Seq(OpenAIForm(T)) /\ Len(<<m>>) = 1 /\ <<m>>[1] = m  BY <1>1
<1>3. /\ t \in Seq(OpenAIForm(T)) /\ Len(t) = 1 + Len(s) /\ t[1] = m
      /\ \A i \in 1..Len(s) : t[1 + i] = s[i]
  <2>1. 1 \in 1..1  OBVIOUS
  <2> QED  BY <1>2, <2>1, Joined
<1> HIDE DEF t
<1>4. Len(s) \in Nat  OBVIOUS
<1>5. ASSUME NEW names, NamesSent(s, names)  PROVE NamesSent(t, names)
  <2> SUFFICES ASSUME NEW i \in 1..Len(t), NEW c \in Range(t[i].calls)
               PROVE  \E w : c.name = SentName(names, w)
    BY DEF NamesSent
  <2>1. CASE i = 1
    <3>1. Range(t[i].calls) = {}  BY <1>1, <1>3, <2>1 DEF Range
    <3> QED  BY <3>1
  <2>2. CASE i # 1
    <3>1. i - 1 \in 1..Len(s) /\ i = 1 + (i - 1)  BY <1>3, <1>4, <2>2
    <3>2. t[i] = s[i - 1]  BY <1>3, <3>1
    <3> QED  BY <1>5, <3>1, <3>2 DEF NamesSent
  <2> QED  BY <2>1, <2>2
<1>6. 1 \in 1..Len(t)  BY <1>3, <1>4
<1> QED  BY <1>1, <1>3, <1>5, <1>6 DEF t, m

(* A part of the message that is at the head. *)
PartAdded(s, text) == [s EXCEPT ![1] = [s[1] EXCEPT !.content = Append(s[1].content, Text(text))]]

LEMMA PromptPart ==
  ASSUME NEW T, "text" \in T, NEW text \in Seq(Int), NEW s \in Seq(OpenAIForm(T)), s # <<>>
  PROVE  LET t == PartAdded(s, text)
         IN /\ t \in Seq(OpenAIForm(T))
            /\ \A names : NamesSent(s, names) => NamesSent(t, names)
            /\ 1 \in 1..Len(t) /\ Len(t[1].content) \in 1..Len(t[1].content)
            /\ t[1].content[Len(t[1].content)].text = text
<1> DEFINE p == Text(text)
           c == Append(s[1].content, p)
           m == [s[1] EXCEPT !.content = c]
           t == [s EXCEPT ![1] = m]
<1>n. 1 \in 1..Len(s) /\ Len(s) \in Nat  OBVIOUS
<1>1. s[1] \in OpenAIForm(T)  BY <1>n, MemberIn
<1>2. p \in PartsOf(T) /\ p.text = text
  <2>1. p.text = text  BY DEF Text, Part
  <2> QED  BY <2>1, TextTypes
<1> HIDE DEF p
<1>3. s[1].content \in Seq(PartsOf(T))  BY <1>1, FormFields
<1>4. c \in Seq(PartsOf(T)) /\ Len(c) \in 1..Len(c) /\ c[Len(c)] = p
  <2> DEFINE k == s[1].content
  <2> HIDE DEF k
  <2>1. k \in Seq(PartsOf(T))  BY <1>3 DEF k
  <2>2. Append(k, p) \in Seq(PartsOf(T)) /\ Len(Append(k, p)) = Len(k) + 1 /\ Append(k, p)[Len(k) + 1] = p
        /\ Len(k) \in Nat
    BY <1>2, <2>1
  <2>3. Len(Append(k, p)) \in 1..Len(Append(k, p))  BY <2>2
  <2> QED  BY <2>2, <2>3 DEF k
<1> HIDE DEF c
<1>5. m \in OpenAIForm(T) /\ m.content = c /\ m.calls = s[1].calls
  <2> DEFINE z == s[1]
  <2> HIDE DEF z
  <2>0. z \in OpenAIForm(T)  BY <1>1 DEF z
  <2>1. \A R, C : z \in Msgs(R, T, C) =>
          /\ [z EXCEPT !.content = c] \in Msgs(R, T, C)
          /\ [z EXCEPT !.content = c].content = c /\ [z EXCEPT !.content = c].calls = z.calls
    BY <1>4, MessageWith DEF Msgs
  <2>2. [z EXCEPT !.content = c] \in OpenAIForm(T) /\ [z EXCEPT !.content = c].content = c
        /\ [z EXCEPT !.content = c].calls = z.calls
    BY <2>0, <2>1 DEF OpenAIForm
  <2> QED  BY <2>2 DEF z
<1> HIDE DEF m
<1>6. t \in Seq(OpenAIForm(T)) /\ Len(t) = Len(s) /\ t[1] = m /\ \A i \in 1..Len(s) : i # 1 => t[i] = s[i]
  BY <1>5, <1>n
<1> HIDE DEF t
<1>7. ASSUME NEW names, NamesSent(s, names)  PROVE NamesSent(t, names)
  <2>1. \A i \in 1..Len(t) : t[i].calls = s[i].calls /\ i \in 1..Len(s)  BY <1>5, <1>6
  <2> QED  BY <1>7, <2>1 DEF NamesSent
<1>8. t[1].content[Len(t[1].content)].text = text  BY <1>2, <1>4, <1>5, <1>6
<1>9. 1 \in 1..Len(t) /\ Len(t[1].content) \in 1..Len(t[1].content)  BY <1>4, <1>5, <1>6, <1>n
<1>x. PartAdded(s, text) = t  BY DEF PartAdded, t, m, c, p
<1> QED  BY <1>6, <1>7, <1>8, <1>9, <1>x

LEMMA PromptIs ==
  ASSUME NEW T, "text" \in T, NEW b, IsBody(b), b.system \in Seq(Int),
         b.format = "openai" => b.messages \in Seq(OpenAIForm(T)), NEW text \in Seq(Int)
  PROVE  LET c == AppendPrompt(b, b.format, text)
         IN Prompted(c, b, T) /\ \A k \in Range(text) : Says(c, k)
<1> DEFINE c == AppendPrompt(b, b.format, text)
<1>1. CASE b.format # "openai"
  <2> DEFINE sys == b.system \o text
  <2>1. c = [b EXCEPT !.system = sys]  BY <1>1 DEF AppendPrompt
  <2>2. sys \in Seq(Int) /\ Range(sys) = Range(b.system) \cup Range(text)  BY Joined
  <2> HIDE DEF c, sys
  <2>3. Kin(c, b) /\ c.system = sys /\ c.messages = b.messages  BY <2>1, WithSystem
  <2>4. \A k \in Range(text) : Says(c, k)  BY <2>2, <2>3 DEF Says
  <2>5. Prompted(c, b, T)  BY <1>1, <2>2, <2>3 DEF Prompted
  <2> QED  BY <2>4, <2>5 DEF c
<1>2. CASE b.format = "openai" /\ b.messages # <<>> /\ b.messages[1].role = "system"
  <2> DEFINE s == b.messages
             t == PartAdded(s, text)
  <2>1. c = [b EXCEPT !.messages = t]
    <3>1. c = [b EXCEPT !.messages[1].content = Append(@, Text(text))]  BY <1>2 DEF AppendPrompt
    <3> QED  BY <3>1 DEF PartAdded
  <2>2. /\ t \in Seq(OpenAIForm(T))
        /\ \A names : NamesSent(s, names) => NamesSent(t, names)
        /\ 1 \in 1..Len(t) /\ Len(t[1].content) \in 1..Len(t[1].content)
        /\ t[1].content[Len(t[1].content)].text = text
    BY <1>2, PromptPart
  <2> HIDE DEF c, t
  <2>3. Kin(c, b) /\ c.system = b.system /\ c.messages = t  BY <2>1, KinMessages
  <2>4. \A k \in Range(text) : Says(c, k)  BY <2>2, <2>3 DEF Says
  <2>5. Prompted(c, b, T)  BY <1>2, <2>2, <2>3 DEF Prompted
  <2> QED  BY <2>4, <2>5 DEF c
<1>3. CASE b.format = "openai" /\ ~(b.messages # <<>> /\ b.messages[1].role = "system")
  <2> DEFINE t == <<Message("system", <<Text(text)>>)>> \o b.messages
  <2>1. c = [b EXCEPT !.messages = t]  BY <1>3 DEF AppendPrompt
  <2>2. /\ t \in Seq(OpenAIForm(T))
        /\ \A names : NamesSent(b.messages, names) => NamesSent(t, names)
        /\ 1 \in 1..Len(t) /\ Len(t[1].content) = 1 /\ t[1].content[1].text = text
    BY <1>3, PromptHead
  <2> HIDE DEF c, t
  <2>3. Kin(c, b) /\ c.system = b.system /\ c.messages = t  BY <2>1, KinMessages
  <2>4. 1 \in 1..Len(t[1].content)  BY <2>2
  <2>5. \A k \in Range(text) : Says(c, k)  BY <2>2, <2>3, <2>4 DEF Says
  <2>6. Prompted(c, b, T)  BY <1>3, <2>2, <2>3 DEF Prompted
  <2> QED  BY <2>5, <2>6 DEF c
<1> QED  BY <1>1, <1>2, <1>3

(* A set of messages that renaming calls keeps, and whose contents are parts. *)
Carried(M) ==
    /\ \A names : DOMAIN names \subseteq Words => SentIsIn(names, M)
    /\ \A m \in M : \E T : m.content \in Seq(PartsOf(T))

LEMMA CarriedForms ==
  /\ \A T : Carried(OpenAIForm(T))
  /\ Carried(Items) /\ Carried(ResponsesForm) /\ Carried(ClaudeForm)
<1>1. \A R, T, C : \A m \in Msgs(R, T, C) : m.content \in Seq(PartsOf(T))  BY MessageFields
<1>2. \A T : \A m \in OpenAIForm(T) : \E U : m.content \in Seq(PartsOf(U))  BY <1>1 DEF OpenAIForm
<1>3. \A m \in Items : \E U : m.content \in Seq(PartsOf(U))  BY <1>1 DEF Items
<1>4. \A m \in ResponsesForm : \E U : m.content \in Seq(PartsOf(U))  BY <1>1, <1>3 DEF ResponsesForm
<1>5. \A m \in ClaudeForm : \E U : m.content \in Seq(PartsOf(U))  BY <1>1, ClaudeFields
<1> QED  BY <1>2, <1>3, <1>4, <1>5, SentForms DEF Carried

(* Whatever HasOpenCodeEnv finds is among the texts. *)
LEMMA EnvSaid ==
  ASSUME NEW b, NEW M, Carried(M), b.messages \in Seq(M), HasOpenCodeEnv(b)
  PROVE  Says(b, Env[1])
<1>1. CASE Env[1] \in Range(b.system)  BY <1>1 DEF Says
<1>2. CASE ~(Env[1] \in Range(b.system))
  <2> DEFINE s == b.messages
  <2>1. s # <<>> /\ \E p \in Range(s[1].content) : Env[1] \in Range(p.text)  BY <1>2 DEF HasOpenCodeEnv
  <2>2. s \in Seq(M)  OBVIOUS
  <2>3. Says(b, Env[1]) \/ ~\E i \in 1..Len(s) : \E j \in 1..Len(s[i].content) : Env[1] \in Range(s[i].content[j].text)
    BY DEF Says
  <2> HIDE DEF s
  <2>4. 1 \in 1..Len(s) /\ s[1] \in M
    <3>1. 1 \in 1..Len(s)  BY <2>1, <2>2
    <3> QED  BY <2>2, <3>1, MemberIn
  <2>5. PICK T : s[1].content \in Seq(PartsOf(T))  BY <2>4 DEF Carried
  <2> DEFINE k == s[1].content
  <2> HIDE DEF k
  <2>6. k \in Seq(PartsOf(T)) /\ \E p \in Range(k) : Env[1] \in Range(p.text)  BY <2>1, <2>5 DEF k
  <2>7. \E j \in 1..Len(k) : Env[1] \in Range(k[j].text)  BY <2>6 DEF Range
  <2> QED  BY <2>3, <2>4, <2>7 DEF k
<1> QED  BY <1>1, <1>2

IsChoice(c) == c = [type |-> c.type, name |-> c.name]

(* The choice of a request without a key. *)
Chosen(c, d, names) ==
    /\ IsChoice(c) /\ c.type # "none"
    /\ c.type \in {"tool", "named", "function"} => c.type = d.type /\ c.name = SentName(names, d.name)

LEMMA ChosenIs ==
  ASSUME NEW d, IsChoice(d), NEW names, NEW responses \in BOOLEAN
  PROVE  LET choice == RetargetToolChoice(StripNoneToolChoice(d), names)
         IN Chosen(IF choice.type = "" /\ responses THEN Choice("auto") ELSE choice, d, names)
<1> DEFINE e == StripNoneToolChoice(d)
           named == {"tool", "named", "function"}
           n == SentName(names, e.name)
           c == RetargetToolChoice(e, names)
           f == IF c.type = "" /\ responses THEN Choice("auto") ELSE c
<1>1. IsChoice(e) /\ e.type # "none" /\ (e.type \in named => e = d)
  BY DEF StripNoneToolChoice, IsChoice, Choice
<1> HIDE DEF e
<1>2. IsChoice(c) /\ c.type = e.type /\ (c.type \in named => c.name = SentName(names, d.name))
  <2>1. CASE e.type \in named
    <3>1. c = [e EXCEPT !.name = n]  BY <2>1 DEF RetargetToolChoice
    <3>2. n = SentName(names, d.name)  BY <1>1, <2>1
    <3> HIDE DEF n, c
    <3>3. c.type = e.type /\ c.name = n /\ IsChoice(c)  BY <1>1, <3>1 DEF IsChoice
    <3> QED  BY <3>2, <3>3
  <2>2. CASE e.type \notin named
    <3>1. c = e  BY <2>2 DEF RetargetToolChoice
    <3> QED  BY <1>1, <2>2, <3>1
  <2> QED  BY <2>1, <2>2
<1> HIDE DEF c
<1>3. IsChoice(Choice("auto")) /\ Choice("auto").type = "auto"  BY DEF Choice, IsChoice
<1>4. Chosen(f, d, names)  BY <1>1, <1>2, <1>3 DEF Chosen
<1> QED  BY <1>4 DEF c, e

(* What applyFingerprintTools makes of b: c, and the aliases. *)
Marked(c, names, b, M) ==
    /\ IsBody(c) /\ c.format = b.format /\ c.stream = b.stream /\ c.effort = b.effort
    /\ c.system \in Seq(Int) /\ c.messages \in Seq(M)
    /\ b.format # "openai" => c.messages = AliasHistoryToolCalls(b.messages, names)
    /\ NamesSent(c.messages, names)
    /\ c.tools = Sending(ConcealFingerprintToolNames(b.tools).out)
    /\ Chosen(c.choice, b.choice, names)
    /\ Says(c, Env[1])

LEMMA MarkedIs ==
  ASSUME NEW T, "text" \in T, NEW M, Carried(M), NEW b, IsBody(b), b.system \in Seq(Int), b.messages \in Seq(M),
         b.format = "openai" => M = OpenAIForm(T),
         b.tools \in Seq(Tooling), Spare(b.tools), IsChoice(b.choice)
  PROVE  LET x == ApplyFingerprintTools(b, b.format)
         IN /\ x.aliases = ConcealFingerprintToolNames(b.tools).aliases
            /\ Marked(x.body, x.aliases, b, M)
<1> DEFINE x == ConcealFingerprintToolNames(b.tools)
           names == x.aliases
           lack == MissingFingerprintTools(x.out)
           s == AliasHistoryToolCalls(b.messages, names)
           tools == Sending(x.out)
           pick == RetargetToolChoice(StripNoneToolChoice(b.choice), names)
           choice == IF pick.type = "" /\ b.format = "responses" THEN Choice("auto") ELSE pick
           named == [b EXCEPT !.tools = tools, !.messages = s, !.choice = choice]
           noted == IF lack = <<>> THEN named ELSE AppendPrompt(named, b.format, Note)
           c == EnsureOpenCodeEnv(noted, b.format)
<1>1. Concealed(x, b.tools, Len(b.tools))  BY ConcealAll
<1>2. DOMAIN names \subseteq Words  BY <1>1, ConcealedIn
<1>3. s \in Seq(M) /\ NamesSent(s, names)
  <2>1. SentIsIn(names, M)  BY <1>2 DEF Carried
  <2> HIDE DEF names
  <2> QED  BY <2>1, HistoryIn
<1>4. Chosen(choice, b.choice, names)
  <2>1. (b.format = "responses") \in BOOLEAN  OBVIOUS
  <2> HIDE DEF names
  <2> QED  BY <2>1, ChosenIs
<1>5. ApplyFingerprintTools(b, b.format) = [body |-> c, aliases |-> names]
  BY DEF ApplyFingerprintTools, Sending
<1> HIDE DEF s, choice, tools
<1>6. /\ IsBody(named) /\ named.format = b.format /\ named.stream = b.stream /\ named.effort = b.effort
      /\ named.system = b.system /\ named.messages = s /\ named.tools = tools /\ named.choice = choice
  BY DEF IsBody, Fields
<1> HIDE DEF named
<1>e. Note \in Seq(Int) /\ Env \in Seq(Int) /\ Env[1] \in Range(Env)  BY DEF Note, Env, Range
<1> DEFINE Fine(d) == /\ IsBody(d) /\ d.format = b.format /\ d.stream = b.stream /\ d.effort = b.effort
                      /\ d.system \in Seq(Int) /\ d.messages \in Seq(M)
                      /\ b.format # "openai" => d.messages = s
                      /\ NamesSent(d.messages, names)
                      /\ d.tools = tools /\ d.choice = choice
<1>7. Fine(named)  BY <1>3, <1>6
<1>8. ASSUME NEW d, Fine(d), NEW text \in Seq(Int)
      PROVE  Fine(AppendPrompt(d, b.format, text)) /\ \A k \in Range(text) : Says(AppendPrompt(d, b.format, text), k)
  <2> DEFINE e == AppendPrompt(d, b.format, text)
  <2>1. Prompted(e, d, T) /\ \A k \in Range(text) : Says(e, k)
    <3>1. d.format = "openai" => d.messages \in Seq(OpenAIForm(T))  BY <1>8
    <3>2. IsBody(d) /\ d.system \in Seq(Int) /\ d.format = b.format  BY <1>8
    <3> QED  BY <3>1, <3>2, PromptIs
  <2> HIDE DEF e, names
  <2>2. Fine(e)  BY <1>8, <2>1 DEF Prompted, Kin
  <2> QED  BY <2>1, <2>2 DEF e
<1>9. Fine(noted)
  <2> HIDE DEF Fine, lack
  <2> QED  BY <1>7, <1>8, <1>e
<1> HIDE DEF noted
<1>10. Fine(c) /\ Says(c, Env[1])
  <2>1. CASE HasOpenCodeEnv(noted)
    <3>1. c = noted  BY <2>1 DEF EnsureOpenCodeEnv
    <3>2. Says(noted, Env[1])
      <4>1. noted.messages \in Seq(M)  BY <1>9
      <4> QED  BY <2>1, <4>1, EnvSaid
    <3> QED  BY <1>9, <3>1, <3>2
  <2>2. CASE ~HasOpenCodeEnv(noted)
    <3>1. c = AppendPrompt(noted, b.format, Env)  BY <2>2 DEF EnsureOpenCodeEnv
    <3> HIDE DEF Fine, c
    <3> QED  BY <1>8, <1>9, <1>e, <3>1
  <2> QED  BY <2>1, <2>2
<1> HIDE DEF c, names
<1>11. Marked(c, names, b, M)
  <2>1. Sending(ConcealFingerprintToolNames(b.tools).out) = tools  BY DEF tools
  <2>2. b.format # "openai" => c.messages = AliasHistoryToolCalls(b.messages, names)
    <3>1. s = AliasHistoryToolCalls(b.messages, names)  BY DEF s
    <3> QED  BY <1>10, <3>1
  <2> QED  BY <1>4, <1>10, <2>1, <2>2 DEF Marked
<1>12. ConcealFingerprintToolNames(b.tools).aliases = names  BY DEF names
<1> DEFINE y == ApplyFingerprintTools(b, b.format)
<1>13. y.body = c /\ y.aliases = names
  <2>1. y = [body |-> c, aliases |-> names]  BY <1>5
  <2> HIDE DEF y
  <2> QED  BY <2>1
<1> QED  BY <1>11, <1>12, <1>13

(* What ChatCompletion posts of b, with a key and without one. *)
Keyed(c, names, b) ==
    /\ IsBody(c) /\ c.format = b.format /\ c.system = b.system /\ c.messages = b.messages
    /\ c.tools = b.tools /\ c.choice = b.choice /\ names = NoAliases

Keyless(c, names, b, M) ==
    /\ IsBody(c) /\ c.format = b.format
    /\ c.system \in Seq(Int) /\ c.messages \in Seq(M)
    /\ b.format # "openai" => c.messages = AliasHistoryToolCalls(b.messages, names)
    /\ NamesSent(c.messages, names)
    /\ names = ConcealFingerprintToolNames(b.tools).aliases
    /\ c.tools = Sending(ConcealFingerprintToolNames(b.tools).out)
    /\ Chosen(c.choice, b.choice, names)
    /\ Says(c, Env[1]) /\ c.stream /\ c.effort # "none"

LEMMA PostIs ==
  ASSUME NEW T, "text" \in T, NEW M, Carried(M), NEW b, IsBody(b), b.system \in Seq(Int), b.messages \in Seq(M),
         b.format = "openai" => M = OpenAIForm(T),
         b.tools \in Seq(Tooling), Spare(b.tools), IsChoice(b.choice),
         NEW kind, BuildURL(kind, b) = b.format, NEW anonymous \in BOOLEAN
  PROVE  LET x == OpenCodeSend(b, kind, anonymous)
         IN IF anonymous THEN Keyless(x.body, x.aliases, b, M) ELSE Keyed(x.body, x.aliases, b)
<1> DEFINE plain == StripNoneReasoningEffort(b)
           capped == IF kind = "messages" THEN EnsureMessagesMaxTokens(plain) ELSE plain
           marked == ApplyFingerprintTools(capped, b.format)
           x == OpenCodeSend(b, kind, anonymous)
           streamed == EnsureStreamRequest(marked.body, b.format)
<1>1. /\ IsBody(plain) /\ plain.format = b.format /\ plain.system = b.system /\ plain.messages = b.messages
      /\ plain.tools = b.tools /\ plain.choice = b.choice /\ plain.effort # "none"
  <2> DEFINE e == IF b.effort = "none" THEN "" ELSE b.effort
  <2>1. plain = [b EXCEPT !.effort = e] /\ e # "none"  BY DEF StripNoneReasoningEffort
  <2> HIDE DEF plain, e
  <2> QED  BY <2>1 DEF IsBody, Fields
<1> HIDE DEF plain
<1>2. /\ IsBody(capped) /\ capped.format = b.format /\ capped.system = b.system /\ capped.messages = b.messages
      /\ capped.tools = b.tools /\ capped.choice = b.choice /\ capped.effort # "none"
  <2> DEFINE n == IF plain.max = 0 THEN 4096 ELSE plain.max
             d == [plain EXCEPT !.max = n]
  <2>1. EnsureMessagesMaxTokens(plain) = d  BY DEF EnsureMessagesMaxTokens
  <2> HIDE DEF n
  <2>2. /\ IsBody(d) /\ d.format = b.format /\ d.system = b.system /\ d.messages = b.messages
        /\ d.tools = b.tools /\ d.choice = b.choice /\ d.effort # "none"
    BY <1>1 DEF IsBody, Fields
  <2> QED  BY <1>1, <2>1, <2>2
<1>3. x = IF ~anonymous THEN [body |-> capped, aliases |-> NoAliases]
          ELSE IF marked.body.stream THEN marked
          ELSE [marked EXCEPT !.body = streamed]
  BY DEF OpenCodeSend, NoAliases, plain
<1> HIDE DEF capped, x
<1>4. CASE ~anonymous
  <2>1. x.body = capped /\ x.aliases = NoAliases  BY <1>3, <1>4
  <2> QED  BY <1>2, <1>4, <2>1 DEF Keyed, x
<1>5. CASE anonymous
  <2>1. /\ marked.aliases = ConcealFingerprintToolNames(b.tools).aliases
        /\ Marked(marked.body, marked.aliases, capped, M)
    <3>1. /\ capped.messages \in Seq(M) /\ capped.system \in Seq(Int) /\ capped.tools \in Seq(Tooling)
          /\ Spare(capped.tools) /\ IsChoice(capped.choice) /\ (capped.format = "openai" => M = OpenAIForm(T))
      BY <1>2
    <3>2. marked = ApplyFingerprintTools(capped, capped.format)  BY <1>2
    <3> QED  BY <1>2, <3>1, <3>2, MarkedIs
  <2>2. marked = [body |-> marked.body, aliases |-> marked.aliases]  BY DEF ApplyFingerprintTools
  <2> HIDE DEF marked
  <2> DEFINE c == marked.body
             names == marked.aliases
  <2>3. CASE c.stream
    <3>1. x = marked  BY <1>3, <1>5, <2>3
    <3>2. Keyless(c, names, b, M)  BY <1>2, <2>1, <2>3 DEF Marked, Keyless
    <3> QED  BY <1>5, <3>1, <3>2 DEF x
  <2>4. CASE ~c.stream
    <3>1. x = [marked EXCEPT !.body = streamed]  BY <1>3, <1>5, <2>4
    <3> DEFINE u == c.usage \/ b.format = "openai"
               d == [c EXCEPT !.stream = TRUE, !.usage = u]
    <3>2. streamed = d  BY DEF EnsureStreamRequest
    <3> HIDE DEF u
    <3>3. IsBody(c)  BY <2>1 DEF Marked
    <3>4. /\ IsBody(d) /\ d.format = c.format /\ d.system = c.system /\ d.messages = c.messages
          /\ d.tools = c.tools /\ d.choice = c.choice /\ d.effort = c.effort /\ d.stream
      <4> HIDE DEF c
      <4> QED  BY <3>3 DEF IsBody, Fields
    <3> HIDE DEF d
    <3>5. x.body = d /\ x.aliases = names
      <4> HIDE DEF c, names, streamed
      <4>1. marked = [body |-> c, aliases |-> names]  BY <2>2 DEF c, names
      <4>2. x.body = streamed /\ x.aliases = names  BY <3>1, <4>1
      <4> QED  BY <3>2, <4>2
    <3> HIDE DEF c, names
    <3>6. Marked(c, names, capped, M)  BY <2>1 DEF c, names
    <3>7. names = ConcealFingerprintToolNames(b.tools).aliases  BY <2>1 DEF names
    <3>8. Says(d, Env[1])  BY <3>4, <3>6 DEF Marked, Says
    <3>9. Keyless(d, names, b, M)  BY <1>2, <3>4, <3>6, <3>7, <3>8 DEF Marked, Keyless
    <3> QED  BY <1>5, <3>5, <3>9 DEF x
  <2> QED  BY <2>3, <2>4
<1> QED  BY <1>4, <1>5

-----------------------------------------------------------------------------
(* The caller's tools and choice, through every translation.               *)

(* The tools and the choice of a request on its way, and those the caller gave. *)
ByName == {"tool", "named", "function"}

Told(b, s) ==
    /\ IsBody(b) /\ IsChoice(b.choice)
    /\ b.tools = s.tools \/ (b.tools = <<>> /\ s.choice = "none")
    /\ b.choice.type = "none" => s.choice = "none"
    /\ b.choice.type \in ByName => b.choice.name = s.choice

Untouched(c, b) == IsBody(c) /\ c.tools = b.tools /\ c.choice = b.choice

LEMMA ToldStays ==
  ASSUME NEW b, NEW c, NEW s, Told(b, s), Untouched(c, b)
  PROVE  Told(c, s)
BY DEF Told, Untouched

(* A choice that becomes another keeps its name if it has one. *)
Restates(d, c) ==
    /\ IsChoice(d)
    /\ d.type = "none" => c.type = "none"
    /\ d.type \in ByName => c.type \in ByName /\ d.name = c.name

LEMMA ToldRestated ==
  ASSUME NEW b, NEW c, NEW s, Told(b, s), IsBody(c), Restates(c.choice, b.choice),
         c.tools = b.tools \/ (c.tools = <<>> /\ b.choice.type = "none")
  PROVE  Told(c, s)
BY DEF Told, Restates

LEMMA ChoicesRestated ==
  ASSUME NEW c, IsChoice(c)
  PROVE  /\ Restates(ConvertClaudeToolChoice(c), c) /\ Restates(ConvertOpenAIToolChoice(c), c)
         /\ Restates(Choice(""), c)
<1>1. /\ Choice("").type = "" /\ Choice("required").type = "required" /\ Choice("auto").type = "auto"
      /\ Choice("any").type = "any"
      /\ IsChoice(Choice("")) /\ IsChoice(Choice("required")) /\ IsChoice(Choice("auto")) /\ IsChoice(Choice("any"))
  BY DEF Choice, IsChoice
<1>2. \A k \in {"", "required", "auto", "any"} : Restates(Choice(k), c)
  BY <1>1 DEF Restates, ByName
<1>3. c.type = "" => Restates(c, c)  BY DEF Restates, ByName
<1>4. ASSUME NEW k \in {"function", "tool"}, c.type \in ByName
      PROVE  Restates([c EXCEPT !.type = k], c)
  <2> DEFINE d == [c EXCEPT !.type = k]
  <2>1. d.type = k /\ d.name = c.name /\ IsChoice(d)  BY DEF IsChoice
  <2> HIDE DEF d
  <2>2. Restates(d, c)  BY <1>4, <2>1 DEF Restates, ByName
  <2> QED  BY <2>2 DEF d
<1>5. Restates(ConvertClaudeToolChoice(c), c)
  <2>1. CASE c.type = ""
    <3>1. ConvertClaudeToolChoice(c) = c  BY <2>1 DEF ConvertClaudeToolChoice
    <3> QED  BY <1>3, <2>1, <3>1
  <2>2. CASE c.type = "any"
    <3>1. ConvertClaudeToolChoice(c) = Choice("required")  BY <2>2 DEF ConvertClaudeToolChoice
    <3> QED  BY <1>2, <3>1
  <2>3. CASE c.type = "tool"
    <3>1. ConvertClaudeToolChoice(c) = [c EXCEPT !.type = "function"]  BY <2>3 DEF ConvertClaudeToolChoice
    <3> QED  BY <1>4, <2>3, <3>1 DEF ByName
  <2>4. CASE c.type \notin {"", "any", "tool"}
    <3>1. ConvertClaudeToolChoice(c) = Choice("auto")  BY <2>4 DEF ConvertClaudeToolChoice
    <3> QED  BY <1>2, <3>1
  <2> QED  BY <2>1, <2>2, <2>3, <2>4
<1>6. Restates(ConvertOpenAIToolChoice(c), c)
  <2>1. CASE c.type = ""
    <3>1. ConvertOpenAIToolChoice(c) = c  BY <2>1 DEF ConvertOpenAIToolChoice
    <3> QED  BY <1>3, <2>1, <3>1
  <2>2. CASE c.type = "required"
    <3>1. ConvertOpenAIToolChoice(c) = Choice("any")  BY <2>2 DEF ConvertOpenAIToolChoice
    <3> QED  BY <1>2, <3>1
  <2>3. CASE c.type = "function"
    <3>1. ConvertOpenAIToolChoice(c) = [c EXCEPT !.type = "tool"]  BY <2>3 DEF ConvertOpenAIToolChoice
    <3> QED  BY <1>4, <2>3, <3>1 DEF ByName
  <2>4. CASE c.type \notin {"", "required", "function"}
    <3>1. ConvertOpenAIToolChoice(c) = Choice("auto")  BY <2>4 DEF ConvertOpenAIToolChoice
    <3> QED  BY <1>2, <3>1
  <2> QED  BY <2>1, <2>2, <2>3, <2>4
<1> QED  BY <1>2, <1>5, <1>6

LEMMA SourceTold ==
  ASSUME NEW b, NEW s, Told(b, s), b.format \in Formats
  PROVE  Told(SourceToOpenAI(b), s)
<1> DEFINE c == SourceToOpenAI(b)
           sys == IF b.system = <<>> THEN <<>> ELSE <<Message("system", <<Text(b.system)>>)>>
<1>0. IsBody(b) /\ IsChoice(b.choice)  BY DEF Told
<1>1. CASE b.format = "claude"
  <2> DEFINE all == SystemMessage(b.system) \o ConvertClaudeMessages(b.messages)
             choice == ConvertClaudeToolChoice(b.choice)
             thinking == CopyThinking(b.thinking)
             effort == MapEffort(b.effort)
  <2>1. c = [b EXCEPT !.format = "openai", !.system = <<>>, !.messages = all, !.choice = choice,
                      !.thinking = thinking, !.effort = effort]
    BY <1>1 DEF SourceToOpenAI, ClaudeToOpenAI
  <2>2. Restates(choice, b.choice)  BY <1>0, ChoicesRestated
  <2> HIDE DEF c, all, choice, thinking, effort
  <2>3. IsBody(c) /\ c.tools = b.tools /\ c.choice = choice  BY <1>0, <2>1 DEF IsBody, Fields
  <2>4. Told(c, s)  BY <2>2, <2>3, ToldRestated
  <2> QED  BY <2>4 DEF c
<1>2. CASE b.format = "gemini"
  <2> DEFINE all == sys \o FlatMap(ConvertGeminiContent, b.messages)
             choice == Choice("")
  <2>1. c = [b EXCEPT !.format = "openai", !.system = <<>>, !.messages = all, !.choice = choice,
                      !.thinking = NoThinking, !.effort = ""]
    BY <1>2 DEF SourceToOpenAI, GeminiToOpenAI
  <2>2. Restates(choice, b.choice)  BY <1>0, ChoicesRestated
  <2> HIDE DEF c, all, choice
  <2>3. IsBody(c) /\ c.tools = b.tools /\ c.choice = choice  BY <1>0, <2>1 DEF IsBody, Fields
  <2>4. Told(c, s)  BY <2>2, <2>3, ToldRestated
  <2> QED  BY <2>4 DEF c
<1>3. CASE b.format = "responses"
  <2> DEFINE all == sys \o ConvertItems(NormalizeInput(b.messages))
             effort == IF b.effort = "none" THEN "" ELSE b.effort
  <2>1. c = [b EXCEPT !.format = "openai", !.system = <<>>, !.kept = b.max, !.messages = all, !.effort = effort]
    BY <1>3 DEF SourceToOpenAI, ResponsesToOpenAI
  <2> HIDE DEF c, all, effort
  <2>2. Untouched(c, b)  BY <1>0, <2>1 DEF IsBody, Fields, Untouched
  <2>3. Told(c, s)  BY <2>2, ToldStays
  <2> QED  BY <2>3 DEF c
<1>4. CASE b.format = "openai"  BY <1>4 DEF SourceToOpenAI
<1> QED  BY <1>1, <1>2, <1>3, <1>4 DEF Formats

LEMMA MessagesTold ==
  ASSUME NEW b, NEW s, Told(b, s), NEW x
  PROVE  Told([b EXCEPT !.messages = x], s)
<1> DEFINE c == [b EXCEPT !.messages = x]
<1>1. Untouched(c, b)  BY DEF Told, IsBody, Fields, Untouched
<1> HIDE DEF c
<1>2. Told(c, s)  BY <1>1, ToldStays
<1> QED  BY <1>2 DEF c

LEMMA PreProcessTold ==
  ASSUME NEW b, NEW s, Told(b, s)
  PROVE  Told(PreProcess(b), s)
<1> DEFINE c == [b EXCEPT !.messages = NormalizeRoles(b.messages)]
           t == NormalizeThinkingConfig(c)
           f == FixMissingToolResponses(EnsureToolCallIds(SanitizeToolHistory(t.messages)))
           d == [t EXCEPT !.messages = f]
           p == AdjustMaxTokens(d)
<1>0. PreProcess(b) = p  BY DEF PreProcess
<1>1. Told(c, s)  BY MessagesTold
<1> HIDE DEF c
<1>2. Told(t, s)
  <2>1. t = c \/ t = [c EXCEPT !.thinking = NoThinking]  BY DEF NormalizeThinkingConfig
  <2> HIDE DEF t
  <2>2. t = c \/ Untouched(t, c)  BY <1>1, <2>1 DEF Told, IsBody, Fields, Untouched
  <2> QED  BY <1>1, <2>2, ToldStays
<1> HIDE DEF t
<1>3. Told(d, s)  BY <1>2, MessagesTold
<1> HIDE DEF d
<1>4. Told(p, s)
  <2>1. PICK max : p = [d EXCEPT !.max = max]
    <3> DEFINE min == IF d.tools # <<>> /\ d.max < DefaultMinTokens THEN DefaultMinTokens ELSE d.max
               big == IF d.thinking.budget # 0 /\ min <= d.thinking.budget
                      THEN d.thinking.budget + BudgetMargin ELSE min
    <3>1. p = IF d.max = 0 THEN [d EXCEPT !.max = min] ELSE [d EXCEPT !.max = big]  BY DEF AdjustMaxTokens
    <3> HIDE DEF p, min, big
    <3> QED  BY <3>1
  <2> HIDE DEF p
  <2>2. Untouched(p, d)  BY <1>3, <2>1 DEF Told, IsBody, Fields, Untouched
  <2> QED  BY <1>3, <2>2, ToldStays
<1> QED  BY <1>0, <1>4

LEMMA TargetTold ==
  ASSUME NEW b, NEW s, Told(b, s), NEW target
  PROVE  Told(OpenAIToTarget(b, target), s)
<1>0. IsBody(b) /\ IsChoice(b.choice)  BY DEF Told
<1>1. CASE target = "claude"
  <2> DEFINE c == ClaudeFromOpenAI(b)
             sys == CollectSystemParts(b.messages)
             msgs == BuildClaudeMessages(b.messages)
             tools == IF b.choice.type = "none" THEN <<>> ELSE b.tools
             choice == ConvertOpenAIToolChoice(b.choice)
             max == ClaudeMaxTokens(b)
             thinking == OpenAIThinking(b)
  <2>1. c = [b EXCEPT !.format = "claude", !.system = sys, !.messages = msgs, !.tools = tools,
                      !.choice = choice, !.max = max, !.kept = 0, !.completion = 0,
                      !.thinking = thinking, !.effort = "", !.usage = FALSE]
    BY DEF ClaudeFromOpenAI
  <2>2. Restates(choice, b.choice)  BY <1>0, ChoicesRestated
  <2> HIDE DEF c, sys, msgs, tools, choice, max, thinking
  <2>3. IsBody(c) /\ c.tools = tools /\ c.choice = choice  BY <1>0, <2>1 DEF IsBody, Fields
  <2>4. c.tools = b.tools \/ (c.tools = <<>> /\ b.choice.type = "none")  BY <2>3 DEF tools
  <2>5. Told(c, s)  BY <2>2, <2>3, <2>4, ToldRestated
  <2>6. OpenAIToTarget(b, target) = ClaudeFromOpenAI(b)  BY <1>1 DEF OpenAIToTarget
  <2> QED  BY <2>5, <2>6 DEF c
<1>2. CASE target = "responses"
  <2> DEFINE c == ResponsesFromOpenAI(b)
             systems == Keep(b.messages, IsSystem)
             sys == IF systems = <<>> THEN <<>> ELSE JoinedText(systems[1].content, {"text"})
             msgs == FlatMap(MessageToItems, b.messages)
             max == MaxOutputTokens(b)
             eff == IF b.effort = "none" THEN "" ELSE b.effort
  <2>1. c = [b EXCEPT !.format = "responses", !.system = sys, !.messages = msgs, !.max = max,
                      !.kept = 0, !.completion = 0, !.effort = eff, !.thinking = NoThinking, !.stop = <<>>, !.usage = FALSE]
    BY DEF ResponsesFromOpenAI
  <2> HIDE DEF c, sys, msgs, max, eff
  <2>2. Untouched(c, b)  BY <1>0, <2>1 DEF IsBody, Fields, Untouched
  <2>3. Told(c, s)  BY <2>2, ToldStays
  <2>4. OpenAIToTarget(b, target) = ResponsesFromOpenAI(b)  BY <1>2 DEF OpenAIToTarget
  <2> QED  BY <2>3, <2>4 DEF c
<1>3. CASE target \notin {"claude", "responses"}  BY <1>3 DEF OpenAIToTarget
<1> QED  BY <1>1, <1>2, <1>3

(* translate.Request *)
LEMMA RequestTold ==
  ASSUME NEW b, NEW s, Told(b, s), b.format \in Formats, NEW target
  PROVE  Told(Request(b, target), s)
<1> DEFINE p == PreProcess(SourceToOpenAI(b))
           t == OpenAIToTarget(p, target)
<1>1. Told(p, s)  BY SourceTold, PreProcessTold
<1> HIDE DEF p
<1>2. Told(t, s)  BY <1>1, TargetTold
<1>3. Request(b, target) = IF target = "claude" THEN PrepareClaudeRequest(t) ELSE t
  BY DEF Request, p
<1> HIDE DEF t
<1>4. Told(PrepareClaudeRequest(t), s)  BY <1>2, MessagesTold DEF PrepareClaudeRequest
<1> QED  BY <1>2, <1>3, <1>4

LEMMA PrepareTold ==
  ASSUME NEW b, NEW s, Told(b, s), NEW model
  PROVE  Told(Prepare(b, model), s)
<1>1. Untouched(PrepareUpstreamWithModel(b, model.family), b)
  BY DEF Told, IsBody, Untouched, PrepareUpstreamWithModel, Fields
<1>2. Told(PrepareUpstreamWithModel(b, model.family), s)  BY <1>1, ToldStays
<1>3. Told(NormalizeClaudeContent(b), s)  BY MessagesTold DEF NormalizeClaudeContent
<1> QED  BY <1>2, <1>3 DEF Prepare

(* What the client sends. *)
LEMMA OriginalIs ==
  ASSUME client \in Clients, setting \in Settings, turns \in Seq(Turns)
  PROVE  /\ Told(Original, setting) /\ Original.format = client
         /\ Original.system \in Seq(Int) /\ Original.messages \in Seq(FormOf(client))
<1>0. client \in Formats /\ setting.system \in Seq(Int)  BY PipelineAssumption
<1>1. Original.messages \in Seq(FormOf(client))  BY <1>0, OriginalMessages
<1> DEFINE e == EmptyBody(client)
           sys == IF client = "openai" THEN <<>> ELSE setting.system
           said == FlattenSeq([k \in DOMAIN turns |-> TurnMessages(turns[k], k)])
           prompt == IF client = "openai" /\ setting.system # <<>>
                     THEN <<Message("system", <<Text(setting.system)>>)>> ELSE <<>>
           messages == prompt \o FlatMap(LAMBDA m : Encode(client, m), said)
           choice == IF client = "gemini" THEN Choice("")
                     ELSE IF setting.choice \in {"none", ""} THEN Choice(setting.choice)
                     ELSE [type |-> ChoiceShape(client), name |-> setting.choice]
           thinking == IF client \in {"claude", "openai"} /\ setting.budget > 0
                       THEN [type |-> "enabled", budget |-> setting.budget] ELSE NoThinking
           completion == IF client = "openai" THEN setting.completion ELSE 0
           effort == IF client = "gemini" THEN "" ELSE setting.effort
<1>2. Original = [e EXCEPT !.system = sys, !.messages = messages, !.tools = setting.tools,
                           !.max = setting.max, !.stream = setting.stream,
                           !.completion = completion, !.choice = choice, !.thinking = thinking, !.effort = effort]
  BY DEF Original
<1>3. IsBody(e) /\ e.format = client
  BY DEF EmptyBody, IsBody, Fields
<1>4. sys \in Seq(Int)  BY <1>0, EmptyIn
<1>5. /\ IsChoice(choice) /\ (choice.type = "none" => setting.choice = "none")
      /\ choice.type \in ByName => choice.name = setting.choice
  BY DEF IsChoice, Choice, ChoiceShape, ByName
<1> HIDE DEF e, sys, said, prompt, messages, completion, choice, thinking, effort
<1> DEFINE b == Original
<1>6. b = [e EXCEPT !.system = sys, !.messages = messages, !.tools = setting.tools,
                    !.max = setting.max, !.stream = setting.stream,
                    !.completion = completion, !.choice = choice, !.thinking = thinking, !.effort = effort]
  BY <1>2
<1> HIDE DEF b
<1>7. IsBody(b) /\ b.format = client /\ b.system = sys /\ b.tools = setting.tools /\ b.choice = choice
  BY <1>3, <1>6 DEF IsBody, Fields
<1>8. Told(b, setting) /\ b.system \in Seq(Int)  BY <1>4, <1>5, <1>7 DEF Told
<1> QED  BY <1>1, <1>7, <1>8 DEF b

-----------------------------------------------------------------------------
(* What is sent.                                                           *)

(* A request that may be sent in its format. *)
Targets == {"openai", "claude", "responses"}

Proper(b, T) == Formed(b, T) /\ b.format \in Targets /\ (b.format = "claude" => Clean(b))

LEMMA PrepareProper ==
  ASSUME NEW T, NEW b, Formed(b, T), b.format \in Targets, NEW model
  PROVE  LET c == Prepare(b, model)
         IN Proper(c, T) /\ c.format = b.format /\ (Tidy(b, T) => Tidy(c, T))
<1> DEFINE c == Prepare(b, model)
<1>1. Tidy(b, T) => Tidy(c, T) /\ c.format = b.format  BY PrepareTidy
<1>2. CASE b.format = "openai"
  <2>1. Tidy(b, T)  BY <1>2 DEF Formed, Tidy
  <2>2. Tidy(c, T) /\ c.format = "openai"  BY <1>1, <1>2, <2>1
  <2> HIDE DEF c
  <2>3. Proper(c, T)  BY <2>2, TidyFormed DEF Proper, Targets
  <2> QED  BY <1>2, <2>2, <2>3 DEF c
<1>3. CASE b.format = "claude"
  <2>1. Clean(c)  BY <1>3, PrepareClean
  <2> HIDE DEF c
  <2>2. Proper(c, T) /\ c.format = "claude"  BY <2>1, CleanFormed DEF Proper, Targets, Clean
  <2> QED  BY <1>1, <1>3, <2>2 DEF c
<1>4. CASE b.format = "responses"
  <2>1. c = b  BY <1>4 DEF Prepare
  <2>2. Proper(b, T)  BY <1>4 DEF Proper, Targets
  <2> QED  BY <2>1, <2>2
<1> QED  BY <1>2, <1>3, <1>4 DEF Targets

(* What goes out of b, over a provider's ChatCompletion. *)
Delivered(c, names, b, t) ==
    t.provider = "opencode" =>
      IF t.anonymous THEN \E M : Carried(M) /\ Keyless(c, names, b, M) ELSE Keyed(c, names, b)

LEMMA SettingTools ==
  ASSUME NEW s \in Settings
  PROVE  s.tools \in Seq(Tooling) /\ Spare(s.tools) /\ Spare(<<>>)
<1>1. s.tools \in Seq([name : STRING, def : {"own", "opencode"}])  BY PipelineAssumption
<1>2. [name : STRING, def : {"own", "opencode"}] \subseteq Tooling  BY DEF Tooling
<1>3. Seq([name : STRING, def : {"own", "opencode"}]) \subseteq Seq(Tooling)  BY <1>2, Widen
<1>4. Spare(s.tools)  BY PipelineAssumption, MarksAre DEF Spare
<1>5. Range(<<>>) = {}  BY DEF Range
<1>6. Spare(<<>>)
  <2>1. \A key \in Marks : 1 \in DOMAIN AliasNames[key]  BY Families
  <2> QED  BY <1>5, <2>1 DEF Spare
<1> QED  BY <1>1, <1>3, <1>4, <1>6

LEMMA KeylessProper ==
  ASSUME NEW T, Kinds(T), NEW b, Proper(b, T), NEW c, NEW names, DOMAIN names \subseteq Words, NEW M,
         Keyless(c, names, b, M),
         b.format = "openai" => M = OpenAIForm(T),
         b.format = "responses" => M = IF Tidy(b, T) THEN Items ELSE ResponsesForm
  PROVE  Proper(c, T) /\ (Tidy(b, T) => Tidy(c, T))
<1>1. IsBody(c) /\ c.format = b.format /\ c.system \in Seq(Int) /\ c.messages \in Seq(M)
  BY DEF Keyless
<1>2. CASE b.format = "openai"
  <2>1. Tidy(c, T)  BY <1>1, <1>2 DEF Tidy
  <2> QED  BY <1>1, <1>2, <2>1, TidyFormed DEF Proper, Targets
<1>3. CASE b.format = "claude"
  <2>1. Clean(b) /\ b.messages \in Seq(ClaudeForm)  BY <1>3 DEF Proper, Formed
  <2>2. c.messages = b.messages  BY <1>3, <2>1, HistoryClaude DEF Keyless
  <2>3. Clean(c)  BY <1>1, <2>1, <2>2 DEF Clean
  <2>4. Tidy(b, T) => Tidy(c, T)  BY <1>1, <1>3, <2>2 DEF Tidy
  <2> QED  BY <1>1, <1>3, <2>3, <2>4, CleanFormed DEF Proper, Targets
<1>4. CASE b.format = "responses"
  <2>1. Seq(Items) \subseteq Seq(ResponsesForm)
    <3>1. Items \subseteq ResponsesForm  BY DEF ResponsesForm
    <3> QED  BY <3>1, Widen
  <2>2. c.messages \in Seq(ResponsesForm) /\ (Tidy(b, T) => c.messages \in Seq(Items))  BY <1>1, <1>4, <2>1
  <2>3. Formed(c, T)  BY <1>1, <1>4, <2>2 DEF Formed, Formats
  <2>4. Tidy(b, T) => Tidy(c, T)  BY <1>1, <1>4, <2>2 DEF Tidy
  <2> QED  BY <1>1, <1>4, <2>3, <2>4 DEF Proper, Targets
<1> QED  BY <1>2, <1>3, <1>4 DEF Proper, Targets

LEMMA SendProper ==
  ASSUME NEW T, Kinds(T), NEW b, Proper(b, T), Told(b, setting), setting \in Settings, NEW t \in Tiers,
         t.provider = "opencode" => BuildURL(t.model.kind, b) = b.format, Send(t, b)
  PROVE  /\ Proper(out', T) /\ out'.format = b.format /\ (Tidy(b, T) => Tidy(out', T))
         /\ Delivered(out', aliases', b, t)
<1>t. t.provider \in {"opencode", "plain"} /\ t.anonymous \in BOOLEAN  BY PipelineAssumption
<1>1. CASE t.provider = "plain"
  <2>1. out' = b  BY <1>1 DEF Send
  <2> QED  BY <1>1, <2>1 DEF Delivered
<1>2. CASE t.provider = "opencode"
  <2> DEFINE kind == t.model.kind
             anonymous == t.anonymous
             x == OpenCodeSend(b, kind, anonymous)
             M == CASE b.format = "openai" -> OpenAIForm(T)
                    [] b.format = "claude" -> ClaudeForm
                    [] OTHER -> IF Tidy(b, T) THEN Items ELSE ResponsesForm
  <2>1. out' = x.body /\ aliases' = x.aliases  BY <1>2 DEF Send
  <2>2. IsBody(b) /\ b.system \in Seq(Int) /\ b.format \in Targets /\ "text" \in T  BY KindsAre DEF Proper, Formed
  <2>3. Carried(M) /\ b.messages \in Seq(M)
    <3>1. CASE b.format = "openai"
      <4>1. M = OpenAIForm(T) /\ b.messages \in Seq(OpenAIForm(T))  BY <3>1 DEF Proper, Formed
      <4> QED  BY <4>1, CarriedForms
    <3>2. CASE b.format = "claude"
      <4>1. M = ClaudeForm /\ b.messages \in Seq(ClaudeForm)  BY <3>2 DEF Proper, Formed
      <4> QED  BY <4>1, CarriedForms
    <3>3. CASE b.format = "responses"
      <4>1. M = (IF Tidy(b, T) THEN Items ELSE ResponsesForm) /\ b.messages \in Seq(ResponsesForm)
        BY <3>3 DEF Proper, Formed
      <4>2. Tidy(b, T) => b.messages \in Seq(Items)  BY <3>3 DEF Tidy
      <4> QED  BY <4>1, <4>2, CarriedForms
    <3> QED  BY <2>2, <3>1, <3>2, <3>3 DEF Targets
  <2>4. /\ b.format = "openai" => M = OpenAIForm(T)
        /\ b.format = "responses" => M = IF Tidy(b, T) THEN Items ELSE ResponsesForm
    OBVIOUS
  <2>5. b.tools \in Seq(Tooling) /\ Spare(b.tools) /\ IsChoice(b.choice)
    <3>1. b.tools = setting.tools \/ b.tools = <<>>  BY DEF Told
    <3> QED  BY <3>1, SettingTools, EmptyIn DEF Told
  <2> HIDE DEF M, kind, anonymous
  <2>6. BuildURL(kind, b) = b.format /\ anonymous \in BOOLEAN  BY <1>t, <1>2 DEF kind, anonymous
  <2>7. IF anonymous THEN Keyless(x.body, x.aliases, b, M) ELSE Keyed(x.body, x.aliases, b)
    BY <2>2, <2>3, <2>4, <2>5, <2>6, PostIs
  <2>8. CASE anonymous
    <3>1. Keyless(out', aliases', b, M)  BY <2>1, <2>7, <2>8
    <3>2. DOMAIN aliases' \subseteq Words
      <4> DEFINE z == ConcealFingerprintToolNames(b.tools)
      <4>1. Concealed(z, b.tools, Len(b.tools))  BY <2>5, ConcealAll
      <4>2. Len(b.tools) \in 0..Len(b.tools)  BY <2>5
      <4>3. aliases' = z.aliases  BY <3>1 DEF Keyless
      <4> HIDE DEF z
      <4> QED  BY <2>5, <4>1, <4>2, <4>3, ConcealedIn
    <3>3. Proper(out', T) /\ (Tidy(b, T) => Tidy(out', T))  BY <2>4, <3>1, <3>2, KeylessProper
    <3>4. out'.format = b.format  BY <3>1 DEF Keyless
    <3>5. Delivered(out', aliases', b, t)  BY <2>3, <2>8, <3>1 DEF Delivered, anonymous
    <3> QED  BY <3>3, <3>4, <3>5
  <2>9. CASE ~anonymous
    <3>1. Keyed(out', aliases', b)  BY <2>1, <2>7, <2>9
    <3>2. Delivered(out', aliases', b, t)  BY <2>9, <3>1 DEF Delivered, anonymous
    <3>3. Formed(out', T)  BY <3>1 DEF Keyed, Proper, Formed
    <3>4. Clean(b) => Clean(out')  BY <3>1 DEF Keyed, Clean
    <3>5. Tidy(b, T) => Tidy(out', T)  BY <3>1 DEF Keyed, Tidy
    <3>6. out'.format = b.format  BY <3>1 DEF Keyed
    <3>7. Proper(out', T)  BY <3>3, <3>4, <3>6 DEF Proper
    <3> QED  BY <3>2, <3>5, <3>6, <3>7
  <2> QED  BY <2>8, <2>9
<1> QED  BY <1>t, <1>1, <1>2

-----------------------------------------------------------------------------
(* What the upstream asks of it.                                           *)

(* The order of the blocks in a message that was translated to Claude. *)
LEMMA MergedOrder ==
  ASSUME NEW m \in Merged, NEW j \in 1..Len(m.content) - 1
  PROVE  LET c == m.content
         IN /\ c[j + 1].type = "tool_result" => c[j].type = "tool_result"
            /\ c[j].type = "tool_use" => c[j + 1].type = "tool_use"
<1> DEFINE c == m.content
<1>0. m \in Sound /\ m.role \in {"user", "assistant"}  BY MergedIs, SoundFields
<1>1. c \in Seq(AllParts)  BY <1>0, SoundFields
<1>2. Len(c) \in Nat  BY <1>1
<1>3. j \in 1..Len(c) /\ j + 1 \in 1..Len(c) /\ j < j + 1 /\ ~(j + 1 < j)  BY <1>2
<1>4. CASE m.role = "user"
  <2>1. c \in Headed  BY <1>4, MergedIs
  <2>2. c \in Seq(PartsOf({"text", "image", "tool_result"}))  BY <1>4, MergedSpoken, MessageFields
  <2> HIDE DEF c
  <2>3. c[j + 1].type = "tool_result" => c[j].type = "tool_result"  BY <1>3, <2>1, HeadedIs
  <2>4. c[j] \in PartsOf({"text", "image", "tool_result"})  BY <1>3, <2>2, MemberIn
  <2>5. c[j].type # "tool_use"  BY <2>4 DEF PartsOf
  <2> QED  BY <2>3, <2>5 DEF c
<1>5. CASE m.role = "assistant"
  <2>1. c \in Tailed  BY <1>5, MergedIs
  <2>2. c \in Seq(PartsOf({"text", "thinking", "tool_use"}))  BY <1>5, MergedSpoken, MessageFields
  <2> HIDE DEF c
  <2>3. c[j].type = "tool_use" => c[j + 1].type = "tool_use"  BY <1>3, <2>1, TailedIs
  <2>4. c[j + 1] \in PartsOf({"text", "thinking", "tool_use"})  BY <1>3, <2>2, MemberIn
  <2>5. c[j + 1].type # "tool_result"  BY <2>4 DEF PartsOf
  <2> QED  BY <2>3, <2>5 DEF c
<1> QED  BY <1>0, <1>4, <1>5

(* A request that may be sent, and that is tidy if it was translated. *)
Sendable(T) == IsSent => Proper(out, T) /\ (Translated => Tidy(out, T))

LEMMA AcceptedClaude ==
  ASSUME NEW T, Sendable(T)
  PROVE  ClaudeAccepts
<1> SUFFICES ASSUME IsSent, out.format = "claude"
             PROVE  /\ \A i \in DOMAIN out.messages :
                         LET m == out.messages[i]
                             c == m.content
                         IN /\ c = <<>> => i = Len(out.messages) /\ m.role = "assistant"
                            /\ \A p \in Range(c) : p.type = "text" => p.text # <<>>
                            /\ Translated => \A j \in 1 .. Len(c) - 1 :
                                 /\ c[j + 1].type = "tool_result" => c[j].type = "tool_result"
                                 /\ c[j].type = "tool_use" => c[j + 1].type = "tool_use"
                    /\ Translated => \A i \in 1 .. Len(out.messages) - 1 :
                         out.messages[i].role # out.messages[i + 1].role
  BY DEF ClaudeAccepts
<1> DEFINE s == out.messages
<1>1. CleanSeq(s)  BY DEF Sendable, Proper, Clean
<1>2. Translated => s \in Seq(Merged) /\ Linked(s, Alternates)  BY DEF Sendable, Tidy
<1> HIDE DEF s
<1>3. s \in Seq(Worded)  BY <1>1 DEF CleanSeq
<1>4. \A i \in DOMAIN s : i \in 1..Len(s) /\ s[i] \in Worded  BY <1>3
<1>5. ASSUME NEW i \in DOMAIN s
      PROVE  /\ s[i].content = <<>> => i = Len(s) /\ s[i].role = "assistant"
             /\ \A p \in Range(s[i].content) : p.type = "text" => p.text # <<>>
  <2>1. s[i].content = <<>> => i = Len(s) /\ s[i].role = "assistant"  BY <1>1, <1>4 DEF CleanSeq
  <2> DEFINE m == s[i]
             c == m.content
  <2>2. m \in ClaudeForm /\ \A k \in 1..Len(c) : c[k].type = "text" => c[k].text # <<>>  BY <1>4 DEF Worded
  <2> HIDE DEF m
  <2>3. PICK R, U : m \in Msgs(R, U, {<<>>})  BY <2>2, ClaudeFields
  <2>4. c \in Seq(PartsOf(U))  BY <2>3, MessageFields
  <2> HIDE DEF c
  <2>5. DOMAIN c = 1..Len(c)  BY <2>4
  <2>6. \A p \in Range(c) : p.type = "text" => p.text # <<>>  BY <2>2, <2>5 DEF Range
  <2> QED  BY <2>1, <2>6 DEF c, m
<1>6. ASSUME Translated, NEW i \in DOMAIN s, NEW j \in 1..Len(s[i].content) - 1
      PROVE  /\ s[i].content[j + 1].type = "tool_result" => s[i].content[j].type = "tool_result"
             /\ s[i].content[j].type = "tool_use" => s[i].content[j + 1].type = "tool_use"
  <2> DEFINE m == s[i]
  <2>1. m \in Merged  BY <1>2, <1>6
  <2>2. j \in 1..Len(m.content) - 1  BY <1>6
  <2> HIDE DEF m
  <2>3. /\ m.content[j + 1].type = "tool_result" => m.content[j].type = "tool_result"
        /\ m.content[j].type = "tool_use" => m.content[j + 1].type = "tool_use"
    BY <2>1, <2>2, MergedOrder
  <2> QED  BY <2>3 DEF m
<1>7. Translated => \A i \in 1..Len(s) - 1 : s[i].role # s[i + 1].role
  <2>1. Translated => \A i \in 1..Len(s) - 1 : <<s[i], s[i + 1]>> \in Alternates  BY <1>2 DEF Linked
  <2> QED  BY <2>1 DEF Alternates
<1> QED  BY <1>5, <1>6, <1>7 DEF s

(* The types of the parts of a message. *)
LEMMA TypesIn ==
  ASSUME NEW R, NEW T, NEW C, NEW m \in Msgs(R, T, C)
  PROVE  m.role \in R /\ m.calls \in C /\ {p.type : p \in Range(m.content)} \subseteq T
<1> DEFINE c == m.content
<1>1. m.role \in R /\ m.calls \in C /\ c \in Seq(PartsOf(T))  BY MessageFields
<1> HIDE DEF c
<1>2. \A p \in Range(c) : p \in PartsOf(T)
  <2>1. \A i \in DOMAIN c : c[i] \in PartsOf(T)  BY <1>1
  <2> QED  BY <2>1 DEF Range
<1>3. \A p \in Range(c) : p.type \in T  BY <1>2 DEF PartsOf
<1> QED  BY <1>1, <1>3 DEF c

ClientTypes(c) == IF c = "gemini" THEN OpenAITypes ELSE Plain

LEMMA SpokenFormat ==
  ASSUME Sendable(ClientTypes(client))
  PROVE  SpeaksFormat
<1> DEFINE T == ClientTypes(client)
           s == out.messages
           Types(m) == {p.type : p \in Range(m.content)}
<1> SUFFICES ASSUME IsSent, Translated, NEW m \in Range(s)
             PROVE  CASE out.format = "openai" ->
                           /\ m.role \in {"system", "user", "assistant", "tool"}
                           /\ Types(m) \subseteq {"text", "image_url"} \cup (IF client = "gemini" THEN {"bare"} ELSE {})
                           /\ m.calls # <<>> => m.role = "assistant"
                      [] out.format = "claude" ->
                           /\ m.role \in {"user", "assistant"}
                           /\ Types(m) \subseteq IF m.role = "user" THEN {"text", "image", "tool_result"}
                                                 ELSE {"text", "thinking", "tool_use"}
                           /\ m.calls = <<>>
                      [] OTHER ->
                           /\ m.role \in {"user", "assistant", "reasoning", "function_call", "function_call_output"}
                           /\ Types(m) \subseteq {"text", "input_image"}
                           /\ m.calls # <<>> <=> m.role = "function_call"
  BY DEF SpeaksFormat
<1>0. Tidy(out, T)  BY DEF Sendable
<1>1. \A S : s \in Seq(S) => m \in S
  <2>1. PICK i \in DOMAIN s : m = s[i]  BY DEF Range
  <2> HIDE DEF s
  <2> QED  BY <2>1
<1> HIDE DEF s
<1>t. T = {"text", "image_url"} \cup (IF client = "gemini" THEN {"bare"} ELSE {})  BY DEF ClientTypes, OpenAITypes, Plain
<1> HIDE DEF T
<1>2. CASE out.format = "openai"
  <2>1. s \in Seq(OpenAIForm(T))  BY <1>0, <1>2 DEF Tidy, s
  <2>2. m \in OpenAIForm(T)  BY <1>1, <2>1
  <2>3. CASE m \in Msgs({"system", "user", "tool"}, T, {<<>>})
    <3>1. m.role \in {"system", "user", "tool"} /\ m.calls \in {<<>>} /\ Types(m) \subseteq T  BY <2>3, TypesIn
    <3> HIDE DEF Types
    <3> QED  BY <1>2, <1>t, <3>1
  <2>4. CASE m \in Msgs({"assistant"}, T, Seq(Calls))
    <3>1. m.role \in {"assistant"} /\ Types(m) \subseteq T  BY <2>4, TypesIn
    <3> HIDE DEF Types
    <3> QED  BY <1>2, <1>t, <3>1
  <2> QED  BY <2>2, <2>3, <2>4 DEF OpenAIForm
<1>3. CASE out.format = "claude"
  <2>1. s \in Seq(Merged)  BY <1>0, <1>3 DEF Tidy, s
  <2>2. m \in Merged  BY <1>1, <2>1
  <2>3. m.role \in {"user", "assistant"} /\ m.calls = <<>>  BY <2>2, MergedIs, SoundFields
  <2>4. CASE m.role = "user"
    <3>1. m \in Msgs({"user"}, {"text", "image", "tool_result"}, {<<>>})  BY <2>2, <2>4, MergedSpoken
    <3>2. Types(m) \subseteq {"text", "image", "tool_result"}  BY <3>1, TypesIn
    <3> HIDE DEF Types
    <3> QED  BY <1>3, <2>3, <2>4, <3>2
  <2>5. CASE m.role = "assistant"
    <3>1. m \in Msgs({"assistant"}, {"text", "thinking", "tool_use"}, {<<>>})  BY <2>2, <2>5, MergedSpoken
    <3>2. Types(m) \subseteq {"text", "thinking", "tool_use"}  BY <3>1, TypesIn
    <3> HIDE DEF Types
    <3> QED  BY <1>3, <2>3, <2>5, <3>2
  <2> QED  BY <2>3, <2>4, <2>5
<1>4. CASE out.format = "responses"
  <2>1. s \in Seq(Items)  BY <1>0, <1>4 DEF Tidy, s
  <2>2. m \in Items  BY <1>1, <2>1
  <2>3. CASE m \in Msgs({"user", "assistant"}, {"text", "input_image"}, {<<>>})
    <3>1. m.role \in {"user", "assistant"} /\ m.calls \in {<<>>} /\ Types(m) \subseteq {"text", "input_image"}
      BY <2>3, TypesIn
    <3> HIDE DEF Types
    <3> QED  BY <1>4, <3>1
  <2>4. CASE m \in Msgs({"reasoning", "function_call_output"}, {"text"}, {<<>>})
    <3>1. m.role \in {"reasoning", "function_call_output"} /\ m.calls \in {<<>>} /\ Types(m) \subseteq {"text"}
      BY <2>4, TypesIn
    <3> HIDE DEF Types
    <3> QED  BY <1>4, <3>1
  <2>5. CASE m \in Msgs({"function_call"}, {"text"}, OneCall)
    <3>1. m.role \in {"function_call"} /\ m.calls \in OneCall /\ Types(m) \subseteq {"text"}
      BY <2>5, TypesIn
    <3>2. m.calls # <<>>  BY <3>1 DEF OneCall
    <3> HIDE DEF Types
    <3> QED  BY <1>4, <3>1, <3>2
  <2> QED  BY <2>2, <2>3, <2>4, <2>5 DEF Items
<1> QED  BY <1>0, <1>2, <1>3, <1>4 DEF Tidy

(* What is said is among the texts of the messages. *)
LEMMA TextsHave ==
  ASSUME NEW M, Carried(M), NEW s \in Seq(M), NEW i \in 1..Len(s), NEW j \in 1..Len(s[i].content),
         NEW k \in Range(s[i].content[j].text)
  PROVE  k \in Range(FlatMap(Texts, s))
<1>1. \A m \in M : /\ Texts(m) \in Seq(Int)
                   /\ \A l \in 1..Len(m.content) : \A y \in Range(m.content[l].text) : y \in Range(Texts(m))
  <2> SUFFICES ASSUME NEW m \in M
               PROVE  /\ Texts(m) \in Seq(Int)
                      /\ \A l \in 1..Len(m.content) : \A y \in Range(m.content[l].text) : y \in Range(Texts(m))
    OBVIOUS
  <2> DEFINE c == m.content
             h == [l \in DOMAIN c |-> c[l].text]
  <2>1. Texts(m) = FlattenSeq(h)  BY DEF Texts, FlatMap, MapEach
  <2>2. PICK T : c \in Seq(PartsOf(T))  BY DEF Carried
  <2> HIDE DEF c
  <2>3. Maps(h, c, Seq(Int))
    <3>1. \A l \in DOMAIN c : c[l] \in PartsOf(T)  BY <2>2
    <3>2. \A l \in DOMAIN c : c[l].text \in Seq(Int)  BY <3>1 DEF PartsOf
    <3> QED  BY <3>2 DEF Maps
  <2>4. \A l \in 1..Len(c) : l \in DOMAIN h /\ h[l] = c[l].text  BY <2>2
  <2> HIDE DEF h
  <2>5. h \in Seq(Seq(Int))  BY <2>2, <2>3, EachIn
  <2>6. FlattenSeq(h) \in Seq(Int)  BY <2>5, FlattenIn
  <2>7. \A l \in 1..Len(c) : \A y \in Range(c[l].text) : y \in Range(FlattenSeq(h))  BY <2>4, <2>5, FlattenHas
  <2> QED  BY <2>1, <2>6, <2>7 DEF c
<1> DEFINE h == [l \in DOMAIN s |-> Texts(s[l])]
<1>2. FlatMap(Texts, s) = FlattenSeq(h)  BY DEF FlatMap, MapEach
<1>3. \A l \in DOMAIN s : s[l] \in M  OBVIOUS
<1>4. Maps(h, s, Seq(Int))  BY <1>1, <1>3 DEF Maps
<1>5. i \in DOMAIN h /\ h[i] = Texts(s[i]) /\ s[i] \in M
  <2>1. i \in DOMAIN s  OBVIOUS
  <2> QED  BY <1>3, <2>1
<1> HIDE DEF h
<1>6. h \in Seq(Seq(Int))  BY <1>4, EachIn
<1>7. k \in Range(h[i])  BY <1>1, <1>5
<1> QED  BY <1>2, <1>5, <1>6, <1>7, FlattenHas

(* What is sent without a key: the gate opens. *)
LEMMA GateOpens ==
  ASSUME setting \in Settings, NEW b, Told(b, setting), NEW M, Carried(M), Keyless(out, aliases, b, M)
  PROVE  GateAccepts
<1> DEFINE tools == b.tools
           s == Sending(ConcealFingerprintToolNames(tools).out)
<1>1. tools \in Seq(Tooling) /\ Spare(tools) /\ (tools = setting.tools \/ tools = <<>>)
  <2>1. tools = setting.tools \/ tools = <<>>  BY DEF Told
  <2> QED  BY <2>1, SettingTools, EmptyIn
<1>2. /\ s \in Seq(Tooling)
      /\ \A n \in Marks : Tool(n, "opencode") \in Range(s)
      /\ \A i, j \in 1..Len(s) :
           i # j /\ s[i].name = s[j].name =>
             s[i].name \notin Marks
             /\ \E k, l \in 1..Len(tools) : k # l /\ tools[k].name = s[i].name /\ tools[l].name = s[i].name
  <2> HIDE DEF tools
  <2> QED  BY <1>1, SendingIs
<1>3. out.tools = s  BY DEF Keyless
<1> HIDE DEF s, tools
<1>4. DOMAIN s = 1..Len(s)  BY <1>2
<1>5. \A k \in 1..Len(tools) : tools = setting.tools /\ k \in DOMAIN setting.tools
  <2>1. CASE tools = <<>>  BY <2>1
  <2>2. CASE tools = setting.tools
    <3>1. DOMAIN tools = 1..Len(tools)  BY <1>1
    <3> QED  BY <2>2, <3>1
  <2> QED  BY <1>1, <2>1, <2>2
<1>6. \A n \in {"read", "shell"} : \E t \in Range(out.tools) : t = Tool(n, "opencode")
  BY <1>2, <1>3 DEF Marks
<1>7. \A i, j \in DOMAIN out.tools :
        i # j /\ out.tools[i].name = out.tools[j].name =>
          /\ out.tools[i].name \notin {"read", "shell"}
          /\ \E k, l \in DOMAIN setting.tools :
               k # l /\ setting.tools[k].name = out.tools[i].name
                     /\ setting.tools[l].name = out.tools[i].name
  <2> SUFFICES ASSUME NEW i \in 1..Len(s), NEW j \in 1..Len(s), i # j, s[i].name = s[j].name
               PROVE  /\ s[i].name \notin Marks
                      /\ \E k, l \in DOMAIN setting.tools :
                           k # l /\ setting.tools[k].name = s[i].name /\ setting.tools[l].name = s[i].name
    BY <1>3, <1>4 DEF Marks
  <2>1. s[i].name \notin Marks  BY <1>2
  <2>2. PICK k \in 1..Len(tools), l \in 1..Len(tools) :
          k # l /\ tools[k].name = s[i].name /\ tools[l].name = s[i].name
    BY <1>2
  <2> QED  BY <1>5, <2>1, <2>2
<1>8. Env[1] \in Range(out.system) \cup Range(SentTexts)
  <2> DEFINE e == Env[1]
             u == out.messages
  <2> HIDE DEF e
  <2>1. Says(out, e) /\ u \in Seq(M)  BY DEF Keyless, e
  <2>2. CASE e \in Range(out.system)  BY <2>2 DEF e
  <2>3. CASE e \notin Range(out.system)
    <3>1. PICK i \in 1..Len(u) : \E j \in 1..Len(u[i].content) : e \in Range(u[i].content[j].text)
      BY <2>1, <2>3 DEF Says
    <3>2. PICK j \in 1..Len(u[i].content) : e \in Range(u[i].content[j].text)  BY <3>1
    <3> HIDE DEF u
    <3>3. e \in Range(FlatMap(Texts, u))  BY <2>1, <3>1, <3>2, TextsHave
    <3> QED  BY <3>3 DEF u, e, SentTexts
  <2> QED  BY <2>2, <2>3
<1>9. out.stream /\ out.choice.type # "none" /\ out.effort # "none"  BY DEF Keyless, Chosen
<1> QED  BY <1>6, <1>7, <1>8, <1>9 DEF GateAccepts

-----------------------------------------------------------------------------
(* Names, over what is sent of the tools: x is what conceals, s what is    *)
(* sent.                                                                   *)
Own(tools) == {t.name : t \in {y \in Range(tools) : y.def = "own"}}

Restored(names, n) == IF n \in DOMAIN names THEN names[n] ELSE n

Definite(tools) == \A t, u \in Range(tools) : t.name = u.name => t = u

LEMMA OwnNames ==
  ASSUME NEW tools \in Seq(Tooling), NEW n
  PROVE  n \in Own(tools) <=> \E k \in 1..Len(tools) : tools[k].name = n /\ tools[k].def = "own"
<1>1. DOMAIN tools = 1..Len(tools)  OBVIOUS
<1> QED  BY <1>1 DEF Own, Range

(* A caller's own tool is sent under its name or an alias. *)
LEMMA OwnSent ==
  ASSUME NEW tools \in Seq(Tooling), NEW x, Concealed(x, tools, Len(tools)), Definite(tools),
         NEW n \in Own(tools)
  PROVE  /\ n \notin DOMAIN x.aliases
         /\ \/ \E i \in 1..Len(x.out) : x.out[i].name = n /\ x.out[i].def = "own"
            \/ \E a \in DOMAIN x.aliases : x.aliases[a] = n
<1> DEFINE o == x.out
           names == x.aliases
           seen == x.seen
<1>0. Aliased(o, x.taken, seen, names, tools, Len(tools)) /\ Offered(o, seen, names, tools, Len(tools))
      /\ Complete(o, seen, names, tools, Len(tools))
  BY DEF Concealed
<1> HIDE DEF o, names, seen
<1>1. PICK k \in 1..Len(tools) : tools[k].name = n /\ tools[k].def = "own"  BY OwnNames
<1>2. n \notin DOMAIN names
  <2>1. n \in Named(tools, Len(tools))  BY <1>1 DEF Named
  <2>2. DOMAIN names \cap Named(tools, Len(tools)) = {}  BY <1>0 DEF Aliased
  <2> QED  BY <2>1, <2>2
<1>3. CASE n \notin Marks
  <2>1. \E i \in 1..Len(o) : o[i] = tools[k]  BY <1>0, <1>1, <1>3 DEF Complete
  <2>2. \E i \in 1..Len(o) : o[i].name = n /\ o[i].def = "own"  BY <1>1, <2>1
  <2> QED  BY <1>2, <2>2 DEF o, names
<1>4. CASE n \in Marks
  <2>1. (\E i \in 1..Len(o) : o[i] = Tool(n, "opencode")) \/ (\E a \in DOMAIN names : names[a] = n)
    <3>1. n \in seen  BY <1>0, <1>1, <1>4 DEF Complete
    <3> QED  BY <1>0, <3>1 DEF Complete
  <2>2. ASSUME NEW i \in 1..Len(o), o[i] = Tool(n, "opencode")  PROVE FALSE
    <3>1. o[i].name = n /\ o[i].def = "opencode"  BY <2>2 DEF Tool
    <3>2. \E l \in 1..Len(tools) : tools[l] = o[i]  BY <1>0, <1>2, <3>1 DEF Offered
    <3>3. PICK l \in 1..Len(tools) : tools[l] = o[i]  BY <3>2
    <3>4. tools[l] \in Range(tools) /\ tools[k] \in Range(tools)
      <4>1. DOMAIN tools = 1..Len(tools)  OBVIOUS
      <4> QED  BY <4>1 DEF Range
    <3>5. tools[l] = tools[k]  BY <1>1, <3>1, <3>3, <3>4 DEF Definite
    <3> QED  BY <1>1, <3>1, <3>3, <3>5
  <2>3. \E a \in DOMAIN names : names[a] = n  BY <2>1, <2>2
  <2> QED  BY <1>2, <2>3 DEF o, names
<1> QED  BY <1>3, <1>4

LEMMA AliasSent ==
  ASSUME NEW tools \in Seq(Tooling), NEW x, Concealed(x, tools, Len(tools)), NEW a \in DOMAIN x.aliases
  PROVE  /\ x.aliases[a] \in Own(tools)
         /\ \E i \in 1..Len(x.out) : x.out[i].name = a /\ x.out[i].def = "own"
<1> DEFINE o == x.out
           names == x.aliases
           seen == x.seen
<1>0. Aliased(o, x.taken, seen, names, tools, Len(tools))
  BY DEF Concealed
<1> HIDE DEF o, names, seen
<1>1. a \in DOMAIN names  BY DEF names
<1>2. (\E i \in 1..Len(o) : o[i] = Tool(a, "own")) /\ \E k \in 1..Len(tools) : tools[k].name = names[a] /\ tools[k].def = "own"
  BY <1>0, <1>1 DEF Aliased
<1>3. names[a] \in Own(tools)  BY <1>2, OwnNames
<1>4. Tool(a, "own").name = a /\ Tool(a, "own").def = "own"  BY DEF Tool
<1>5. \E i \in 1..Len(o) : o[i].name = a /\ o[i].def = "own"  BY <1>2, <1>4
<1> QED  BY <1>3, <1>5 DEF o, names

(* A tool that is sent as the caller's own is one of them. *)
LEMMA SentOwn ==
  ASSUME NEW tools \in Seq(Tooling), NEW x, Concealed(x, tools, Len(tools)),
         NEW i \in 1..Len(x.out), x.out[i].def = "own"
  PROVE  Restored(x.aliases, x.out[i].name) \in Own(tools)
<1> DEFINE o == x.out
           names == x.aliases
<1>0. Offered(o, x.seen, names, tools, Len(tools))  BY DEF Concealed
<1>1. CASE o[i].name \in DOMAIN names
  <2>1. names[o[i].name] \in Own(tools)  BY <1>1, AliasSent
  <2> QED  BY <1>1, <2>1 DEF Restored
<1>2. CASE o[i].name \notin DOMAIN names
  <2> HIDE DEF o, names
  <2>1. i \in 1..Len(o) /\ o[i].def = "own"  BY DEF o
  <2>2. \E k \in 1..Len(tools) : tools[k] = o[i]  BY <1>0, <1>2, <2>1 DEF Offered
  <2>3. o[i].name \in Own(tools)  BY <2>1, <2>2, OwnNames
  <2>4. Restored(names, o[i].name) = o[i].name  BY <1>2 DEF Restored
  <2> QED  BY <2>3, <2>4 DEF o, names
<1> QED  BY <1>1, <1>2

LEMMA SentNameIs ==
  ASSUME NEW names, NEW w
  PROVE  \/ SentName(names, w) \in DOMAIN names /\ names[SentName(names, w)] = w
         \/ SentName(names, w) = w /\ ~\E a \in DOMAIN names : names[a] = w
<1>1. CASE \E a \in DOMAIN names : names[a] = w
  <2> DEFINE c == CHOOSE a \in DOMAIN names : names[a] = w
  <2>1. c \in DOMAIN names /\ names[c] = w  BY <1>1, Zenon
  <2>2. SentName(names, w) = c  BY <1>1 DEF SentName
  <2> HIDE DEF c
  <2> QED  BY <2>1, <2>2
<1>2. CASE ~\E a \in DOMAIN names : names[a] = w
  <2>1. SentName(names, w) = w  BY <1>2 DEF SentName
  <2> QED  BY <1>2, <2>1
<1> QED  BY <1>1, <1>2

-----------------------------------------------------------------------------
(* Names, and the invariant of the way up.                                 *)

(* The names of the calls that are sent, and of the choice. *)
CallNames(s) == {c.name : c \in UNION {Range(m.calls) : m \in Range(s)}}

ChoiceNames(c) == IF c.type \in ByName THEN {c.name} ELSE {}

(* NamesRestored, of what is sent and what the caller gave. *)
Names(sent, calls, choice, names, tools, given) ==
    /\ \A t \in Range(sent) : t.def = "own" => Restored(names, t.name) \in Own(tools)
    /\ \A n \in Own(tools) : \E t \in Range(sent) : Restored(names, t.name) = n
    /\ \A n \in calls \cup ChoiceNames(choice) :
         Restored(names, n) \in Own(tools) => \E t \in Range(sent) : t.name = n /\ t.def = "own"
    /\ given \in Own(tools) /\ ChoiceNames(choice) # {} => Restored(names, choice.name) = given

LEMMA NamesAre ==
  ASSUME IsSent /\ tier.provider = "opencode" /\ out.tools # <<>> /\ setting.choice # "none" /\ Definite(setting.tools)
         => Names(out.tools, CallNames(out.messages), out.choice, aliases, setting.tools, setting.choice)
  PROVE  NamesRestored
BY DEF NamesRestored, Names, Definite, CallNames, ChoiceNames, ByName, Restored, Own

LEMMA KeyedNames ==
  ASSUME setting \in Settings, setting.choice # "none", NEW b, Told(b, setting), Keyed(out, aliases, b)
  PROVE  Names(out.tools, CallNames(out.messages), out.choice, aliases, setting.tools, setting.choice)
<1> DEFINE calls == CallNames(out.messages)
           tools == setting.tools
           choice == out.choice
<1>1. out.tools = tools /\ (choice.type \in ByName => choice.name = setting.choice) /\ aliases = NoAliases
  BY DEF Told, Keyed
<1>2. \A n : Restored(aliases, n) = n
  <2>1. DOMAIN aliases = {}  BY <1>1 DEF NoAliases
  <2> QED  BY <2>1 DEF Restored
<1>3. \A n : n \in Own(tools) <=> \E t \in Range(tools) : t.name = n /\ t.def = "own"  BY DEF Own
<1> HIDE DEF calls, tools, choice
<1>4. Names(out.tools, calls, choice, aliases, tools, setting.choice)
  BY <1>1, <1>2, <1>3 DEF Names, ChoiceNames
<1> QED  BY <1>4 DEF calls, tools, choice

LEMMA KeylessNames ==
  ASSUME setting \in Settings, setting.choice # "none", Definite(setting.tools),
         NEW b, Told(b, setting), NEW M, Keyless(out, aliases, b, M)
  PROVE  Names(out.tools, CallNames(out.messages), out.choice, aliases, setting.tools, setting.choice)
<1> DEFINE tools == setting.tools
           x == ConcealFingerprintToolNames(tools)
           s == Sending(x.out)
           names == x.aliases
           calls == CallNames(out.messages)
           choice == out.choice
           u == out.messages
<1>1. tools \in Seq(Tooling) /\ Spare(tools) /\ Definite(tools)  BY SettingTools
<1>2. b.tools = tools /\ (b.choice.type \in ByName => b.choice.name = setting.choice)  BY DEF Told
<1>3. /\ out.tools = s /\ aliases = names /\ NamesSent(u, names) /\ Chosen(choice, b.choice, names) /\ u \in Seq(M)
  BY <1>2 DEF Keyless
<1> HIDE DEF tools
<1>4. Concealed(x, tools, Len(tools))  BY <1>1, ConcealAll
<1>5. /\ s \in Seq(Tooling) /\ Range(x.out) \subseteq Range(s)
      /\ \A t \in Range(s) : t \in Range(x.out) \/ t.def = "opencode"
  BY <1>1, SendingIs
<1> HIDE DEF x
<1>6. x.out \in Seq(Tooling)  BY <1>4 DEF Concealed, Offered
<1> DEFINE o == x.out
<1> HIDE DEF s, o
<1>7. (\A i \in 1..Len(o) : o[i] \in Range(s)) /\ \A t \in Range(s) : t.def = "own" => \E i \in 1..Len(o) : o[i] = t
  <2>1. o \in Seq(Tooling) /\ DOMAIN o = 1..Len(o)  BY <1>6 DEF o
  <2>2. Range(o) \subseteq Range(s) /\ \A t \in Range(s) : t \in Range(o) \/ t.def = "opencode"  BY <1>5 DEF o
  <2> QED  BY <2>1, <2>2 DEF Range
<1>8. \A t \in Range(s) : t.def = "own" => Restored(names, t.name) \in Own(tools)
  <2> SUFFICES ASSUME NEW t \in Range(s), t.def = "own"  PROVE Restored(names, t.name) \in Own(tools)
    OBVIOUS
  <2>1. PICK i \in 1..Len(o) : o[i] = t  BY <1>7
  <2>2. i \in 1..Len(x.out) /\ x.out[i] = t  BY <2>1 DEF o
  <2> QED  BY <1>1, <1>4, <2>2, SentOwn
<1>9. ASSUME NEW a \in DOMAIN names
      PROVE  names[a] \in Own(tools) /\ \E t \in Range(s) : t.name = a /\ t.def = "own"
  <2>1. names[a] \in Own(tools) /\ \E i \in 1..Len(o) : o[i].name = a /\ o[i].def = "own"
    BY <1>1, <1>4, AliasSent DEF o
  <2> QED  BY <1>7, <2>1
<1>10. ASSUME NEW n \in Own(tools)
       PROVE  /\ n \notin DOMAIN names
              /\ (\E t \in Range(s) : t.name = n /\ t.def = "own") \/ \E a \in DOMAIN names : names[a] = n
  <2>1. /\ n \notin DOMAIN names
        /\ \/ \E i \in 1..Len(o) : o[i].name = n /\ o[i].def = "own"
           \/ \E a \in DOMAIN names : names[a] = n
    BY <1>1, <1>4, OwnSent DEF o
  <2> QED  BY <1>7, <2>1
<1> HIDE DEF names
<1>11. \A n \in Own(tools) : \E t \in Range(s) : Restored(names, t.name) = n
  <2> SUFFICES ASSUME NEW n \in Own(tools)  PROVE \E t \in Range(s) : Restored(names, t.name) = n
    OBVIOUS
  <2>1. Restored(names, n) = n  BY <1>10 DEF Restored
  <2>2. \A a \in DOMAIN names : Restored(names, a) = names[a]  BY DEF Restored
  <2> QED  BY <1>9, <1>10, <2>1, <2>2
<1>12. ASSUME NEW w, Restored(names, SentName(names, w)) \in Own(tools)
       PROVE  \E t \in Range(s) : t.name = SentName(names, w) /\ t.def = "own"
  <2> DEFINE n == SentName(names, w)
  <2>1. n \in DOMAIN names \/ (n = w /\ ~\E a \in DOMAIN names : names[a] = w)  BY SentNameIs
  <2>2. Restored(names, n) \in Own(tools)  BY <1>12
  <2> HIDE DEF n
  <2>3. CASE n \in DOMAIN names  BY <1>9, <2>3 DEF n
  <2>4. CASE n \notin DOMAIN names
    <3>1. n \in Own(tools)  BY <2>2, <2>4 DEF Restored
    <3> QED  BY <1>10, <2>1, <2>4, <3>1 DEF n
  <2> QED  BY <2>3, <2>4
<1>13. \A n \in calls \cup ChoiceNames(choice) :
         Restored(names, n) \in Own(tools) => \E t \in Range(s) : t.name = n /\ t.def = "own"
  <2>1. ASSUME NEW n \in calls  PROVE \E w : n = SentName(names, w)
    <3>1. PICK m \in Range(u) : \E c \in Range(m.calls) : n = c.name  BY DEF CallNames
    <3>2. PICK c \in Range(m.calls) : n = c.name  BY <3>1
    <3> HIDE DEF u
    <3>3. DOMAIN u = 1..Len(u)  BY <1>3
    <3>4. PICK i \in 1..Len(u) : m = u[i]  BY <3>3 DEF Range
    <3> QED  BY <1>3, <3>2, <3>4 DEF NamesSent
  <2>2. ASSUME NEW n \in ChoiceNames(choice)  PROVE \E w : n = SentName(names, w)
    BY <1>3 DEF ChoiceNames, Chosen, ByName
  <2> HIDE DEF calls, choice
  <2> QED  BY <1>12, <2>1, <2>2
<1>14. setting.choice \in Own(tools) /\ ChoiceNames(choice) # {} => Restored(names, choice.name) = setting.choice
  <2> SUFFICES ASSUME setting.choice \in Own(tools), ChoiceNames(choice) # {}
               PROVE  Restored(names, choice.name) = setting.choice
    OBVIOUS
  <2> DEFINE w == setting.choice
  <2>1. choice.type \in ByName  BY DEF ChoiceNames
  <2>2. choice.name = SentName(names, w)
    <3>1. choice.type = b.choice.type /\ choice.name = SentName(names, b.choice.name)
      BY <1>3, <2>1 DEF Chosen, ByName
    <3> QED  BY <1>2, <2>1, <3>1
  <2>3. w \notin DOMAIN names  BY <1>10
  <2> HIDE DEF w, choice
  <2>4. \/ SentName(names, w) \in DOMAIN names /\ names[SentName(names, w)] = w
        \/ SentName(names, w) = w
    BY SentNameIs
  <2>5. Restored(names, choice.name) = w  BY <2>2, <2>3, <2>4 DEF Restored
  <2> QED  BY <2>5 DEF w, choice
<1> HIDE DEF calls, choice
<1>15. Names(s, calls, choice, names, tools, setting.choice)  BY <1>8, <1>11, <1>13, <1>14 DEF Names
<1> QED  BY <1>3, <1>15 DEF tools, calls, choice

-----------------------------------------------------------------------------
(* The body that the handler hands over, and what was sent. *)
HandedOver ==
    /\ Proper(body, ClientTypes(client)) /\ Told(body, setting)
    /\ asked \in Models /\ body.format = TargetFormat(asked)
    /\ client # body.format => Tidy(body, ClientTypes(client))

Posted == \E b : Told(b, setting) /\ Delivered(out, aliases, b, tier)

RequestInv ==
    /\ client \in Clients /\ setting \in Settings /\ turns \in Seq(Turns)
    /\ phase \in {"compose", "rejected", "asked", "direct", "sent", "skipped"}
    /\ phase \notin {"compose", "rejected"} => HandedOver
    /\ Sendable(ClientTypes(client))
    /\ IsSent => Posted

LEMMA InvGate == RequestInv => GateAccepts /\ NamesRestored
<1> SUFFICES ASSUME RequestInv  PROVE GateAccepts /\ NamesRestored
  OBVIOUS
<1>0. setting \in Settings  BY DEF RequestInv
<1>1. CASE IsSent /\ tier.provider = "opencode"
  <2>1. PICK b : Told(b, setting) /\ Delivered(out, aliases, b, tier)  BY <1>1 DEF RequestInv, Posted
  <2>2. CASE tier.anonymous
    <3>1. PICK M : Carried(M) /\ Keyless(out, aliases, b, M)  BY <1>1, <2>1, <2>2 DEF Delivered
    <3>2. GateAccepts  BY <1>0, <2>1, <3>1, GateOpens
    <3>3. NamesRestored  BY <1>0, <2>1, <3>1, KeylessNames, NamesAre
    <3> QED  BY <3>2, <3>3
  <2>3. CASE ~tier.anonymous
    <3>1. Keyed(out, aliases, b)  BY <1>1, <2>1, <2>3 DEF Delivered
    <3>2. GateAccepts  BY <2>3 DEF GateAccepts
    <3>3. NamesRestored  BY <1>0, <2>1, <3>1, KeyedNames, NamesAre
    <3> QED  BY <3>2, <3>3
  <2> QED  BY <2>2, <2>3
<1>2. CASE ~(IsSent /\ tier.provider = "opencode")
  <2>1. GateAccepts  BY <1>2 DEF GateAccepts
  <2>2. NamesRestored  BY <1>2, NamesAre
  <2> QED  BY <2>1, <2>2
<1> QED  BY <1>1, <1>2

LEMMA PartKinds == Kinds(ClientTypes(client))
BY DEF Kinds, ClientTypes

(* Any request of a client. *)
LEMMA OriginalFormed ==
  ASSUME client \in Clients, setting \in Settings, turns \in Seq(Turns)
  PROVE  Formed(Original, ClientTypes(client)) /\ Told(Original, setting) /\ Original.format = client
<1> DEFINE b == Original
           T == ClientTypes(client)
<1>0. client \in Formats  BY PipelineAssumption
<1>1. Told(b, setting) /\ b.format = client /\ b.system \in Seq(Int) /\ b.messages \in Seq(FormOf(client))
  BY OriginalIs
<1>2. IsBody(b)  BY <1>1 DEF Told
<1> HIDE DEF b
<1>3. CASE client = "openai"
  <2>1. FormOf(client) = OpenAIForm(T)  BY <1>3 DEF FormOf, ClientTypes, Plain
  <2> QED  BY <1>0, <1>1, <1>2, <1>3, <2>1 DEF Formed, b
<1>4. CASE client = "claude"
  <2>1. FormOf(client) = ClaudeForm  BY <1>4 DEF FormOf
  <2> QED  BY <1>0, <1>1, <1>2, <1>4, <2>1 DEF Formed, b
<1>5. CASE client = "responses"
  <2>1. FormOf(client) = ResponsesForm  BY <1>5 DEF FormOf
  <2> QED  BY <1>0, <1>1, <1>2, <1>5, <2>1 DEF Formed, b
<1>6. CASE client = "gemini"
  <2>1. FormOf(client) = GeminiForm /\ T = OpenAITypes  BY <1>6 DEF FormOf, ClientTypes
  <2> QED  BY <1>0, <1>1, <1>2, <1>6, <2>1 DEF Formed, b
<1> QED  BY <1>0, <1>3, <1>4, <1>5, <1>6 DEF Formats

LEMMA ChatHands ==
  ASSUME RequestInv, NEW model \in Models, Chat(model)  PROVE RequestInv'
<1> DEFINE target == TargetFormat(model)
           b == Original
           x == IF client = target THEN b ELSE Request(b, target)
           T == ClientTypes(client)
<1>1. target \in Targets  BY DEF TargetFormat, Targets
<1>2. /\ UNCHANGED <<client, setting, turns>> /\ asked' = model
      /\ \/ phase' = "rejected"
         \/ phase' = "asked" /\ body' = Prepare(x, model)
  BY DEF Chat
<1>3. Sendable(ClientTypes(client))' /\ ~IsSent'  BY <1>2 DEF Sendable, IsSent
<1>4. ASSUME phase' = "asked", body' = Prepare(x, model)  PROVE HandedOver'
  <2>1. Formed(b, T) /\ Told(b, setting) /\ b.format = client /\ client \in Formats
    BY OriginalFormed, PipelineAssumption DEF RequestInv
  <2>k. Kinds(T)  BY PartKinds
  <2> HIDE DEF target, b, T
  <2>2. /\ Formed(x, T) /\ Told(x, setting) /\ x.format = target /\ (client # target => Tidy(x, T))
    <3>1. CASE client = target  BY <2>1, <3>1
    <3>2. CASE client # target
      <4>1. Tidy(Request(b, target), T) /\ Request(b, target).format = target
        BY <1>1, <2>1, <2>k, RequestTidy DEF Targets
      <4>2. Told(Request(b, target), setting)  BY <2>1, RequestTold
      <4> QED  BY <3>2, <4>1, <4>2, TidyFormed
    <3> QED  BY <3>1, <3>2
  <2> HIDE DEF x
  <2> DEFINE c == Prepare(x, model)
  <2>3. Proper(c, T) /\ c.format = x.format /\ (Tidy(x, T) => Tidy(c, T))  BY <1>1, <2>2, PrepareProper
  <2>4. Told(c, setting)  BY <2>2, PrepareTold
  <2> HIDE DEF c
  <2>5. body' = c  BY <1>4 DEF c
  <2>6. ClientTypes(client') = T /\ setting' = setting /\ client' = client /\ asked' = model /\ target = TargetFormat(model)
    BY <1>2 DEF T, target
  <2>7. /\ Proper(body', ClientTypes(client')) /\ Told(body', setting') /\ body'.format = target
        /\ client' # body'.format => Tidy(body', ClientTypes(client'))
    BY <2>2, <2>3, <2>4, <2>5, <2>6
  <2> QED  BY <2>6, <2>7 DEF HandedOver
<1> QED  BY <1>2, <1>3, <1>4 DEF RequestInv

(* What is sent of b, which is made of the body. *)
LEMMA SentInv ==
  ASSUME RequestInv, HandedOver, NEW t \in Tiers, NEW b, Proper(b, ClientTypes(client)), Told(b, setting),
         client # body.format \/ body.format # b.format => Tidy(b, ClientTypes(client)),
         t.provider = "opencode" => BuildURL(t.model.kind, b) = b.format, Send(t, b),
         phase' \in {"sent", "direct"}, tier' = t, UNCHANGED <<client, setting, turns, asked, body>>
  PROVE  RequestInv'
<1> DEFINE T == ClientTypes(client)
<1>0. setting \in Settings /\ Kinds(T)  BY PartKinds DEF RequestInv
<1>1. /\ Proper(out', T) /\ out'.format = b.format /\ (Tidy(b, T) => Tidy(out', T))
      /\ Delivered(out', aliases', b, t)
  <2> HIDE DEF T
  <2> QED  BY <1>0, SendProper DEF T
<1>2. Sendable(T)'  BY <1>1 DEF Sendable, Translated
<1>3. Posted'
  <2>1. Told(b, setting') /\ Delivered(out', aliases', b, tier')  BY <1>1
  <2> QED  BY <2>1 DEF Posted
<1>4. HandedOver'  BY DEF HandedOver
<1> QED  BY <1>2, <1>3, <1>4 DEF RequestInv

LEMMA DirectSends ==
  ASSUME RequestInv, NEW t \in Tiers, Direct(t)  PROVE RequestInv'
<1>1. /\ phase = "asked" /\ t.model = asked /\ phase' = "direct" /\ tier' = t /\ Send(t, body)
      /\ UNCHANGED <<client, setting, turns, asked, body>>
  BY DEF Direct
<1>2. HandedOver  BY <1>1 DEF RequestInv
<1>3. BuildURL(t.model.kind, body) = body.format
  <2>1. asked.kind \in {"chat", "responses", "messages"} /\ body.format = TargetFormat(asked)
    BY <1>2, PipelineAssumption DEF HandedOver
  <2> QED  BY <1>1, <2>1 DEF BuildURL, TargetFormat
<1>4. /\ Proper(body, ClientTypes(client)) /\ Told(body, setting)
      /\ client # body.format \/ body.format # body.format => Tidy(body, ClientTypes(client))
  BY <1>2 DEF HandedOver
<1> QED  BY <1>1, <1>2, <1>3, <1>4, SentInv

LEMMA TierSends ==
  ASSUME RequestInv, NEW t \in Tiers, TryTier(t)  PROVE RequestInv'
<1> DEFINE target == IF t.provider = "opencode" THEN BuildURL(t.model.kind, body) ELSE "openai"
           x == IF body.format = target THEN body ELSE Request(body, target)
           b == Prepare(x, t.model)
           T == ClientTypes(client)
<1>1. target \in Targets  BY DEF BuildURL, Targets
<1>2. /\ phase \in {"asked", "sent", "skipped"} /\ tier' = t /\ UNCHANGED <<client, setting, turns, asked, body>>
      /\ \/ phase' = "skipped"
         \/ phase' = "sent" /\ Send(t, b)
  BY DEF TryTier
<1>3. HandedOver  BY <1>2 DEF RequestInv
<1>4. CASE phase' = "skipped"
  <2>1. Sendable(ClientTypes(client))' /\ ~IsSent'  BY <1>4 DEF Sendable, IsSent
  <2>2. HandedOver'  BY <1>2, <1>3 DEF HandedOver
  <2> QED  BY <1>2, <1>4, <2>1, <2>2 DEF RequestInv
<1>5. CASE phase' = "sent" /\ Send(t, b)
  <2>0. Proper(body, T) /\ Told(body, setting) /\ (client # body.format => Tidy(body, T)) /\ Kinds(T)
        /\ body.format \in Formats
    BY <1>3, PartKinds DEF HandedOver, Proper, Formed
  <2>u. target = BuildURL(t.model.kind, body) \/ t.provider # "opencode"  OBVIOUS
  <2> HIDE DEF target, T
  <2>1. /\ Formed(x, T) /\ Told(x, setting) /\ x.format = target
        /\ client # body.format \/ body.format # target => Tidy(x, T)
    <3>1. CASE body.format = target  BY <2>0, <3>1 DEF Proper
    <3>2. CASE body.format # target
      <4>1. Tidy(Request(body, target), T) /\ Request(body, target).format = target
        BY <1>1, <2>0, RequestTidy DEF Proper, Targets
      <4>2. Told(Request(body, target), setting)  BY <2>0, RequestTold
      <4> QED  BY <3>2, <4>1, <4>2, TidyFormed
    <3> QED  BY <3>1, <3>2
  <2> HIDE DEF x
  <2>2. Proper(b, T) /\ b.format = x.format /\ (Tidy(x, T) => Tidy(b, T))  BY <1>1, <2>1, PrepareProper
  <2>3. Told(b, setting)  BY <2>1, PrepareTold
  <2> HIDE DEF b
  <2>4. t.provider = "opencode" => BuildURL(t.model.kind, b) = b.format
    <3>1. t.provider = "opencode" => b.format = BuildURL(t.model.kind, body)  BY <2>1, <2>2, <2>u
    <3> QED  BY <3>1 DEF BuildURL
  <2>5. client # body.format \/ body.format # b.format => Tidy(b, T)  BY <2>1, <2>2
  <2> QED  BY <1>2, <1>3, <1>5, <2>2, <2>3, <2>4, <2>5, SentInv DEF T
<1> QED  BY <1>2, <1>4, <1>5

LEMMA InitInv == Init => RequestInv
<1>1. <<>> \in Seq(Turns)  BY EmptyIn
<1> QED  BY <1>1 DEF Init, RequestInv, Sendable, IsSent

LEMMA NextInv == RequestInv /\ [Next]_vars => RequestInv'
<1> SUFFICES ASSUME RequestInv, [Next]_vars  PROVE RequestInv'
  OBVIOUS
<1>1. CASE Compose
  <2>1. PICK kind \in Turns : turns' = Append(turns, kind)  BY <1>1 DEF Compose
  <2>2. phase = "compose" /\ UNCHANGED <<client, setting, asked, body, tier, out, aliases, phase>>
    BY <1>1 DEF Compose
  <2>3. turns' \in Seq(Turns)  BY <2>1 DEF RequestInv
  <2> QED  BY <2>2, <2>3 DEF RequestInv, Sendable, IsSent
<1>2. CASE UNCHANGED vars
  <2>1. HandedOver => HandedOver'  BY <1>2 DEF vars, HandedOver
  <2>2. Sendable(ClientTypes(client)) => Sendable(ClientTypes(client))'
    BY <1>2 DEF vars, Sendable, IsSent, Translated
  <2>3. Posted => Posted'  BY <1>2 DEF vars, Posted
  <2>4. IsSent' => IsSent  BY <1>2 DEF vars, IsSent
  <2> QED  BY <1>2, <2>1, <2>2, <2>3, <2>4 DEF vars, RequestInv
<1> QED  BY <1>1, <1>2, ChatHands, DirectSends, TierSends DEF Next

(* The inductive invariant of the way up: what the handler hands over, and *)
(* what is sent of it, has the roles, parts and order of its format,       *)
(* declares only tools and choices the client gave, and is what OpenCode   *)
(* takes from a body without a key.                                        *)
THEOREM RequestsKept == Spec => []RequestInv
BY InitInv, NextInv, PTL DEF Spec

(* What PrepareClaudeRequest leaves for the Messages API has no empty text *)
(* and no empty message but a last assistant; if it was translated, its    *)
(* roles alternate, results come first and only calls follow a call.       *)
THEOREM ClaudeAlwaysAccepts == Spec => []ClaudeAccepts
<1>1. RequestInv => ClaudeAccepts  BY AcceptedClaude DEF RequestInv
<1> QED  BY <1>1, RequestsKept, PTL

(* A translated body has only the roles and parts of the format it is sent *)
(* in, each where it may be, also after a second translation for a tier.   *)
THEOREM FormatAlwaysSpoken == Spec => []SpeaksFormat
<1>1. RequestInv => SpeaksFormat  BY SpokenFormat DEF RequestInv
<1> QED  BY <1>1, RequestsKept, PTL

(* OpenCode's gate opens for every request without a key: its tools and    *)
(* the env block are there, and no name is there twice unless the client   *)
(* had it twice.                                                           *)
THEOREM GateAlwaysAccepts == Spec => []GateAccepts
BY InvGate, RequestsKept, PTL

(* The caller gets its own tool names back: what is renamed on the way up, *)
(* in tools, choice and earlier calls, is undone by the aliases that the   *)
(* answer is read with.                                                    *)
THEOREM NamesAlwaysRestored == Spec => []NamesRestored
BY InvGate, RequestsKept, PTL

-----------------------------------------------------------------------------
(* max_tokens and the thinking budget. *)

Thinking == [type : {"", "enabled", "disabled"}, budget : Nat]

(* A body of a client that gave a limit and no effort.  Only an OpenAI     *)
(* body has a max_completion_tokens, and that one is above the budget.     *)
Sized(b) ==
    /\ IsBody(b)
    /\ b.max \in Nat /\ b.kept \in Nat /\ b.completion \in Nat /\ b.effort = "" /\ b.thinking \in Thinking
    /\ b.completion = 0 => b.max # 0
    /\ b.completion # 0 => b.format = "openai" /\ b.completion > b.thinking.budget

(* c is b but for what is not looked at here. *)
Alike(c, b) ==
    /\ IsBody(c)
    /\ c.format = b.format /\ c.max = b.max /\ c.kept = b.kept /\ c.completion = b.completion
    /\ c.effort = b.effort /\ c.thinking = b.thinking

(* The limit that the Messages API is given is above the budget. *)
Fits(b) == b.thinking.type = "enabled" => ClaudeMaxTokens(b) > b.thinking.budget

LEMMA AlikeSized ==
  ASSUME NEW b, NEW c, Sized(b), Alike(c, b)
  PROVE  Sized(c) /\ c.format = b.format /\ (Fits(b) => Fits(c))
BY DEF Sized, Alike, Fits, ClaudeMaxTokens

LEMMA MessagesOnly ==
  ASSUME NEW b, NEW x, IsBody(b)
  PROVE  Alike([b EXCEPT !.messages = x], b)
BY DEF IsBody, Alike, Fields

(* normalizeThinkingConfig *)
LEMMA ThinkingConfig ==
  ASSUME NEW b, Sized(b)
  PROVE  Sized(NormalizeThinkingConfig(b)) /\ NormalizeThinkingConfig(b).format = b.format
<1> DEFINE c == [b EXCEPT !.thinking = NoThinking]
<1>1. /\ IsBody(c) /\ c.format = b.format /\ c.max = b.max /\ c.kept = b.kept
      /\ c.completion = b.completion /\ c.effort = b.effort /\ c.thinking = NoThinking
  BY DEF Sized, IsBody, Fields
<1>2. NormalizeThinkingConfig(b) \in {b, c}  BY DEF NormalizeThinkingConfig
<1> HIDE DEF c
<1>3. NoThinking \in Thinking /\ NoThinking.budget = 0  BY DEF NoThinking, Thinking
<1>4. b.completion # 0 => b.completion > 0
  <2>1. b.completion \in Nat  BY DEF Sized
  <2> QED  BY <2>1
<1>5. Sized(c)  BY <1>1, <1>3, <1>4 DEF Sized
<1> QED  BY <1>1, <1>2, <1>5

(* adjustMaxTokens: what is compared fits. *)
LEMMA AdjustFits ==
  ASSUME NEW b, Sized(b)
  PROVE  /\ Sized(AdjustMaxTokens(b)) /\ Fits(AdjustMaxTokens(b))
         /\ AdjustMaxTokens(b).format = b.format
<1> DEFINE min == IF b.tools # <<>> /\ b.max < DefaultMinTokens THEN DefaultMinTokens ELSE b.max
           big == IF b.thinking.budget # 0 /\ min <= b.thinking.budget
                  THEN b.thinking.budget + BudgetMargin ELSE min
           max == IF b.max = 0 THEN min ELSE big
           c == AdjustMaxTokens(b)
<1>1. /\ b.max \in Nat /\ b.thinking.budget \in Nat /\ b.completion \in Nat
      /\ b.completion = 0 => b.max # 0
      /\ b.completion # 0 => b.completion > b.thinking.budget
  BY DEF Sized, Thinking
<1>2. min \in Nat /\ (b.max # 0 => min # 0)  BY <1>1 DEF DefaultMinTokens
<1>3. big \in Nat /\ (b.max # 0 => big # 0 /\ big > b.thinking.budget)
  <2> HIDE DEF min
  <2> QED  BY <1>1, <1>2 DEF BudgetMargin
<1>4. c = [b EXCEPT !.max = max]  BY DEF AdjustMaxTokens
<1> HIDE DEF min, big
<1>5. max \in Nat /\ (b.completion = 0 => max # 0 /\ max > b.thinking.budget)  BY <1>1, <1>2, <1>3
<1> HIDE DEF max, c
<1>6. /\ IsBody(c) /\ c.max = max /\ c.format = b.format /\ c.kept = b.kept /\ c.completion = b.completion
      /\ c.effort = b.effort /\ c.thinking = b.thinking
  BY <1>4 DEF Sized, IsBody, Fields
<1>7. Sized(c)  BY <1>5, <1>6 DEF Sized
<1>8. Fits(c)  BY <1>1, <1>5, <1>6 DEF Fits, ClaudeMaxTokens
<1> QED  BY <1>6, <1>7, <1>8 DEF c

LEMMA PreProcessFits ==
  ASSUME NEW b, Sized(b)
  PROVE  Sized(PreProcess(b)) /\ Fits(PreProcess(b)) /\ PreProcess(b).format = b.format
<1> DEFINE c == [b EXCEPT !.messages = NormalizeRoles(@)]
           t == NormalizeThinkingConfig(c)
           d == [t EXCEPT !.messages = FixMissingToolResponses(EnsureToolCallIds(SanitizeToolHistory(@)))]
<1>1. Sized(c) /\ c.format = b.format
  <2>1. Alike(c, b)  BY MessagesOnly DEF Sized
  <2> HIDE DEF c
  <2> QED  BY <2>1, AlikeSized
<1> HIDE DEF c
<1>2. Sized(t) /\ t.format = b.format  BY <1>1, ThinkingConfig
<1> HIDE DEF t
<1>3. Sized(d) /\ d.format = b.format
  <2>1. Alike(d, t)  BY <1>2, MessagesOnly DEF Sized
  <2> HIDE DEF d
  <2> QED  BY <1>2, <2>1, AlikeSized
<1>4. PreProcess(b) = AdjustMaxTokens(d)  BY DEF PreProcess, c, t
<1> HIDE DEF d
<1> QED  BY <1>3, <1>4, AdjustFits

(* c is b in OpenAI's format, with this thinking. *)
Recast(c, b, thinking) ==
    /\ IsBody(c) /\ c.format = "openai"
    /\ c.max = b.max /\ c.kept = b.kept /\ c.completion = b.completion /\ c.thinking = thinking

LEMMA RecastSized ==
  ASSUME NEW b, Sized(b), b.completion = 0, NEW thinking \in Thinking,
         NEW c, Recast(c, b, thinking), c.effort = ""
  PROVE  Sized(c) /\ c.format = "openai"
BY DEF Sized, Recast

(* To OpenAI. *)
LEMMA SourceSized ==
  ASSUME NEW b, Sized(b), b.format \in Formats
  PROVE  Sized(SourceToOpenAI(b)) /\ SourceToOpenAI(b).format = "openai"
<1>1. CASE b.format = "claude"
  <2>1. CopyThinking(b.thinking) \in Thinking /\ MapEffort(b.effort) = ""
    BY DEF Sized, CopyThinking, NoThinking, Thinking, MapEffort, Efforts
  <2> DEFINE c == ClaudeToOpenAI(b)
             messages == SystemMessage(b.system) \o ConvertClaudeMessages(b.messages)
             choice == ConvertClaudeToolChoice(b.choice)
             thinking == CopyThinking(b.thinking)
             effort == MapEffort(b.effort)
  <2>2. c = [b EXCEPT !.format = "openai", !.system = <<>>, !.messages = messages, !.choice = choice,
                      !.thinking = thinking, !.effort = effort]
    BY DEF ClaudeToOpenAI
  <2>3. b.completion = 0  BY <1>1 DEF Sized
  <2> HIDE DEF c, messages, choice, thinking, effort
  <2>4. Recast(c, b, thinking) /\ c.effort = effort  BY <2>2 DEF Recast, Sized, IsBody, Fields
  <2>5. Sized(c) /\ c.format = "openai"  BY <2>1, <2>3, <2>4, RecastSized DEF thinking, effort
  <2> QED  BY <1>1, <2>5 DEF SourceToOpenAI, c
<1>2. CASE b.format = "gemini"
  <2> DEFINE c == GeminiToOpenAI(b)
             messages == (IF b.system = <<>> THEN <<>> ELSE <<Message("system", <<Text(b.system)>>)>>)
                         \o FlatMap(ConvertGeminiContent, b.messages)
             choice == Choice("")
  <2>1. NoThinking \in Thinking  BY DEF NoThinking, Thinking
  <2>2. c = [b EXCEPT !.format = "openai", !.system = <<>>, !.messages = messages, !.choice = choice,
                      !.thinking = NoThinking, !.effort = ""]
    BY DEF GeminiToOpenAI
  <2>3. b.completion = 0  BY <1>2 DEF Sized
  <2> HIDE DEF c, messages, choice
  <2>4. Recast(c, b, NoThinking) /\ c.effort = ""  BY <2>2 DEF Recast, Sized, IsBody, Fields
  <2>5. Sized(c) /\ c.format = "openai"  BY <2>1, <2>3, <2>4, RecastSized
  <2> QED  BY <1>2, <2>5 DEF SourceToOpenAI, c
<1>3. CASE b.format = "responses"
  <2> DEFINE c == ResponsesToOpenAI(b)
             messages == (IF b.system = <<>> THEN <<>> ELSE <<Message("system", <<Text(b.system)>>)>>)
                         \o ConvertItems(NormalizeInput(b.messages))
             effort == IF b.effort = "none" THEN "" ELSE b.effort
  <2>2. c = [b EXCEPT !.format = "openai", !.system = <<>>, !.kept = b.max, !.messages = messages,
                      !.effort = effort]
    BY DEF ResponsesToOpenAI
  <2>3. effort = "" /\ b.completion = 0 /\ b.max \in Nat /\ b.thinking \in Thinking  BY <1>3 DEF Sized
  <2> HIDE DEF c, messages, effort
  <2>5. /\ IsBody(c) /\ c.format = "openai" /\ c.max = b.max /\ c.kept = b.max
        /\ c.completion = b.completion /\ c.effort = effort /\ c.thinking = b.thinking
    BY <2>2 DEF Sized, IsBody, Fields
  <2>6. b.max # 0  BY <2>3 DEF Sized
  <2>7. Sized(c)  BY <2>3, <2>5, <2>6 DEF Sized
  <2> QED  BY <1>3, <2>5, <2>7 DEF SourceToOpenAI, c
<1>4. CASE b.format = "openai"  BY <1>4 DEF SourceToOpenAI
<1> QED  BY <1>1, <1>2, <1>3, <1>4 DEF Formats

LEMMA ThinkingOff == NoThinking \in Thinking /\ NoThinking.type # "enabled"
BY DEF NoThinking, Thinking

(* From OpenAI: without an effort, thinking is what it was. *)
LEMMA TargetSized ==
  ASSUME NEW b, Sized(b), Fits(b), b.format = "openai", NEW target \in {"openai", "claude", "responses"}
  PROVE  /\ Sized(OpenAIToTarget(b, target)) /\ Fits(OpenAIToTarget(b, target))
         /\ OpenAIToTarget(b, target).format = target
<1>1. CASE target = "claude"
  <2>1. ReasoningEffortToBudget(b.effort) = 0
    <3>1. b.effort = ""  BY DEF Sized
    <3>2. ReasoningEffortToBudget("") = 0  BY DEF ReasoningEffortToBudget
    <3> QED  BY <3>1, <3>2
  <2>2. OpenAIThinking(b) \in Thinking /\ (OpenAIThinking(b) = b.thinking \/ OpenAIThinking(b) = NoThinking)
    BY <2>1 DEF OpenAIThinking, Sized, NoThinking, Thinking
  <2> DEFINE c == ClaudeFromOpenAI(b)
  <2>3. /\ IsBody(c) /\ c.format = "claude" /\ c.max = ClaudeMaxTokens(b) /\ c.kept = 0
        /\ c.completion = 0 /\ c.effort = "" /\ c.thinking = OpenAIThinking(b)
    <3> DEFINE sys == CollectSystemParts(b.messages)
               msgs == BuildClaudeMessages(b.messages)
               tools == IF b.choice.type = "none" THEN <<>> ELSE b.tools
               choice == ConvertOpenAIToolChoice(b.choice)
               max == ClaudeMaxTokens(b)
               thinking == OpenAIThinking(b)
    <3>1. c = [b EXCEPT !.format = "claude", !.system = sys, !.messages = msgs, !.tools = tools,
                        !.choice = choice, !.max = max, !.kept = 0, !.completion = 0,
                        !.thinking = thinking, !.effort = "", !.usage = FALSE]
      BY DEF ClaudeFromOpenAI
    <3>2. IsBody(b)  BY DEF Sized
    <3> HIDE DEF c, sys, msgs, tools, choice, max, thinking
    <3>3. /\ IsBody(c) /\ c.format = "claude" /\ c.max = max /\ c.kept = 0
          /\ c.completion = 0 /\ c.effort = "" /\ c.thinking = thinking
      BY <3>1, <3>2 DEF IsBody, Fields
    <3> QED  BY <3>3 DEF max, thinking
  <2> HIDE DEF c
  <2>m. ClaudeMaxTokens(b) \in Nat \ {0}  BY DEF Sized, ClaudeMaxTokens
  <2>4. Sized(c)
    <3>1. c.max \in Nat /\ c.max # 0  BY <2>3, <2>m
    <3>2. c.kept = 0 /\ c.completion = 0  BY <2>3
    <3>3. c.kept \in Nat /\ c.completion \in Nat  BY <3>2
    <3>4. c.thinking \in Thinking  BY <2>2, <2>3
    <3> QED  BY <2>3, <3>1, <3>2, <3>3, <3>4 DEF Sized
  <2>5. Fits(c)
    <3>0. ClaudeMaxTokens(c) = ClaudeMaxTokens(b)  BY <2>3 DEF ClaudeMaxTokens
    <3>1. CASE OpenAIThinking(b) = b.thinking  BY <2>3, <3>0, <3>1 DEF Fits
    <3>2. CASE OpenAIThinking(b) = NoThinking  BY <2>3, <3>2, ThinkingOff DEF Fits
    <3> QED  BY <2>2, <3>1, <3>2
  <2> QED  BY <1>1, <2>3, <2>4, <2>5 DEF OpenAIToTarget, c
<1>2. CASE target = "responses"
  <2> DEFINE c == ResponsesFromOpenAI(b)
  <2>1. /\ IsBody(c) /\ c.format = "responses" /\ c.max = MaxOutputTokens(b) /\ c.kept = 0
        /\ c.completion = 0 /\ c.effort = "" /\ c.thinking = NoThinking
    <3> DEFINE systems == Keep(b.messages, IsSystem)
               sys == IF systems = <<>> THEN <<>> ELSE JoinedText(systems[1].content, {"text"})
               msgs == FlatMap(MessageToItems, b.messages)
               max == MaxOutputTokens(b)
               eff == IF b.effort = "none" THEN "" ELSE b.effort
    <3>1. c = [b EXCEPT !.format = "responses", !.system = sys, !.messages = msgs, !.max = max,
                        !.kept = 0, !.completion = 0, !.effort = eff, !.thinking = NoThinking, !.stop = <<>>,
                        !.usage = FALSE]
      BY DEF ResponsesFromOpenAI
    <3>2. eff = "" /\ IsBody(b)  BY DEF Sized
    <3> HIDE DEF c, sys, msgs, max, eff
    <3>3. /\ IsBody(c) /\ c.format = "responses" /\ c.max = max /\ c.kept = 0
          /\ c.completion = 0 /\ c.effort = "" /\ c.thinking = NoThinking
      BY <3>1, <3>2 DEF IsBody, Fields
    <3> QED  BY <3>3 DEF max
  <2> HIDE DEF c
  <2>2. MaxOutputTokens(b) \in Nat \ {0}  BY DEF Sized, MaxOutputTokens
  <2>3. c.thinking \in Thinking /\ c.thinking.type # "enabled"  BY <2>1, ThinkingOff
  <2>4. Sized(c)
    <3>1. c.max \in Nat /\ c.max # 0  BY <2>1, <2>2
    <3>2. c.kept = 0 /\ c.completion = 0  BY <2>1
    <3>3. c.kept \in Nat /\ c.completion \in Nat  BY <3>2
    <3> QED  BY <2>1, <2>3, <3>1, <3>2, <3>3 DEF Sized
  <2>5. Fits(c)  BY <2>3 DEF Fits
  <2> QED  BY <1>2, <2>1, <2>4, <2>5 DEF OpenAIToTarget, c
<1>3. CASE target = "openai"  BY <1>3 DEF OpenAIToTarget
<1> QED  BY <1>1, <1>2, <1>3

(* translate.Request: whatever it makes fits. *)
LEMMA RequestFits ==
  ASSUME NEW b, Sized(b), b.format \in Formats, NEW target \in {"openai", "claude", "responses"}
  PROVE  Sized(Request(b, target)) /\ Fits(Request(b, target)) /\ Request(b, target).format = target
<1> DEFINE p == PreProcess(SourceToOpenAI(b))
           t == OpenAIToTarget(p, target)
<1>1. Sized(p) /\ Fits(p) /\ p.format = "openai"  BY SourceSized, PreProcessFits
<1> HIDE DEF p
<1>2. Sized(t) /\ Fits(t) /\ t.format = target  BY <1>1, TargetSized
<1>3. Request(b, target) = IF target = "claude" THEN PrepareClaudeRequest(t) ELSE t
  BY DEF Request, p
<1> HIDE DEF t
<1>4. Alike(PrepareClaudeRequest(t), t)  BY <1>2, MessagesOnly DEF Sized, PrepareClaudeRequest
<1> QED  BY <1>2, <1>3, <1>4, AlikeSized

(* Preparation for the upstream leaves both numbers alone. *)
LEMMA PrepareAlike ==
  ASSUME NEW b, Sized(b), NEW model
  PROVE  Alike(Prepare(b, model), b)
<1>1. Alike(PrepareUpstreamWithModel(b, model.family), b)
  BY DEF Sized, IsBody, Alike, PrepareUpstreamWithModel, Fields
<1>2. Alike(NormalizeClaudeContent(b), b)  BY MessagesOnly DEF Sized, NormalizeClaudeContent
<1>3. Alike(b, b)  BY DEF Sized, Alike
<1> QED  BY <1>1, <1>2, <1>3 DEF Prepare

(* OpenCode's prompt, tools and stream flag, too. *)
LEMMA PromptAlike ==
  ASSUME NEW b, IsBody(b), NEW endpoint, NEW text
  PROVE  Alike(AppendPrompt(b, endpoint, text), b)
<1>1. Alike([b EXCEPT !.system = @ \o text], b)  BY DEF IsBody, Alike, Fields
<1>2. Alike([b EXCEPT !.messages[1].content = Append(@, Text(text))], b)
  BY DEF IsBody, Alike, Fields
<1>3. Alike([b EXCEPT !.messages = <<Message("system", <<Text(text)>>)>> \o @], b)
  BY DEF IsBody, Alike, Fields
<1> QED  BY <1>1, <1>2, <1>3 DEF AppendPrompt

LEMMA FingerprintAlike ==
  ASSUME NEW b, IsBody(b), NEW endpoint
  PROVE  Alike(ApplyFingerprintTools(b, endpoint).body, b)
<1> DEFINE concealed == ConcealFingerprintToolNames(b.tools)
           missing == MissingFingerprintTools(concealed.out)
           choice == RetargetToolChoice(StripNoneToolChoice(b.choice), concealed.aliases)
           named == [b EXCEPT !.tools = concealed.out \o MapEach(LAMBDA n : Tool(n, "opencode"), missing),
                              !.messages = AliasHistoryToolCalls(@, concealed.aliases),
                              !.choice = IF choice.type = "" /\ endpoint = "responses"
                                         THEN Choice("auto") ELSE choice]
           noted == IF missing = <<>> THEN named ELSE AppendPrompt(named, endpoint, Note)
           done == EnsureOpenCodeEnv(noted, endpoint)
<1>0. ApplyFingerprintTools(b, endpoint).body = done  BY DEF ApplyFingerprintTools
<1> HIDE DEF concealed, missing, choice
<1>1. Alike(named, b)  BY DEF IsBody, Alike, Fields
<1> HIDE DEF named
<1>2. IsBody(named)  BY <1>1 DEF Alike
<1>3. noted = named \/ Alike(noted, named)  BY <1>2, PromptAlike
<1> HIDE DEF noted
<1>4. IsBody(noted)  BY <1>2, <1>3 DEF Alike
<1>5. done = noted \/ Alike(done, noted)  BY <1>4, PromptAlike DEF EnsureOpenCodeEnv
<1> HIDE DEF done
<1> QED  BY <1>0, <1>1, <1>3, <1>5 DEF Alike

(* ensureMessagesMaxTokens fills in a max_tokens only where none is. *)
LEMMA CappedSized ==
  ASSUME NEW b, Sized(b)
  PROVE  LET c == EnsureMessagesMaxTokens(b)
         IN Sized(c) /\ c.format = b.format /\ (Fits(b) => Fits(c))
<1> DEFINE c == EnsureMessagesMaxTokens(b)
           max == IF b.max = 0 THEN 4096 ELSE b.max
<1>1. c = [b EXCEPT !.max = max]  BY DEF EnsureMessagesMaxTokens
<1>0. b.max \in Nat /\ (b.completion = 0 => b.max # 0)  BY DEF Sized
<1>2. max \in Nat /\ max # 0 /\ (b.completion = 0 => max = b.max)  BY <1>0
<1> HIDE DEF c, max
<1>3. /\ IsBody(c) /\ c.max = max /\ c.format = b.format /\ c.kept = b.kept /\ c.completion = b.completion
      /\ c.effort = b.effort /\ c.thinking = b.thinking
  BY <1>1 DEF Sized, IsBody, Fields
<1>4. Sized(c)  BY <1>2, <1>3 DEF Sized
<1>5. ClaudeMaxTokens(c) = ClaudeMaxTokens(b)  BY <1>2, <1>3 DEF ClaudeMaxTokens
<1>6. Fits(b) => Fits(c)  BY <1>3, <1>5 DEF Fits
<1> QED  BY <1>3, <1>4, <1>6 DEF c

(* The upstream's ChatCompletion sends both numbers as they are. *)
LEMMA SendSized ==
  ASSUME NEW t, NEW b, Sized(b), Send(t, b)
  PROVE  Sized(out') /\ out'.format = b.format /\ (Fits(b) => Fits(out'))
<1>b. IsBody(b) /\ b.effort = ""  BY DEF Sized
<1>1. CASE t.provider = "plain"
  <2>1. out' = b  BY <1>1 DEF Send
  <2> QED  BY <2>1
<1>2. CASE t.provider # "plain"
  <2> DEFINE endpoint == BuildURL(t.model.kind, b)
             plain == StripNoneReasoningEffort(b)
             capped == IF t.model.kind = "messages" THEN EnsureMessagesMaxTokens(plain) ELSE plain
             marked == ApplyFingerprintTools(capped, endpoint)
             streamed == EnsureStreamRequest(marked.body, endpoint)
  <2>1. \/ out' = capped
        \/ out' = marked.body
        \/ out' = [marked EXCEPT !.body = streamed].body
    BY <1>2 DEF Send, OpenCodeSend
  <2>m. [marked EXCEPT !.body = streamed].body = streamed
    BY DEF ApplyFingerprintTools
  <2>2. Alike(plain, b)
    BY <1>b DEF IsBody, Alike, StripNoneReasoningEffort, Fields
  <2> HIDE DEF plain
  <2>3. Sized(plain) /\ plain.format = b.format /\ (Fits(b) => Fits(plain))  BY <2>2, AlikeSized
  <2>4. Sized(capped) /\ capped.format = b.format /\ (Fits(b) => Fits(capped))  BY <2>3, CappedSized
  <2> HIDE DEF capped
  <2>5. Alike(marked.body, capped)
    <3>1. IsBody(capped)  BY <2>4 DEF Sized
    <3> HIDE DEF endpoint
    <3> QED  BY <3>1, FingerprintAlike
  <2> DEFINE body1 == marked.body
  <2> HIDE DEF body1
  <2>6. Sized(body1) /\ body1.format = b.format /\ (Fits(b) => Fits(body1))
    <3>1. Alike(body1, capped)  BY <2>5 DEF body1
    <3> QED  BY <2>4, <3>1, AlikeSized
  <2>7. Alike(EnsureStreamRequest(body1, endpoint), body1)
    BY <2>6 DEF Sized, IsBody, Alike, EnsureStreamRequest, Fields
  <2>8. Sized(streamed) /\ streamed.format = b.format /\ (Fits(b) => Fits(streamed))
    <3>1. Alike(streamed, body1)  BY <2>7 DEF body1
    <3> HIDE DEF streamed
    <3> QED  BY <2>6, <3>1, AlikeSized
  <2> HIDE DEF streamed, marked
  <2> QED  BY <2>1, <2>m, <2>4, <2>6, <2>8 DEF body1
<1> QED  BY <1>1, <1>2

LEMMA Positive == \A n \in Nat : n # 0 => n > 0
OBVIOUS

(* What the client sends. *)
LEMMA OriginalSized ==
  ASSUME client \in Clients, setting \in Settings, NamesLimit, setting.effort = ""
  PROVE  Sized(Original) /\ Original.format = client
<1> DEFINE limit == IF client = "openai" THEN setting.completion ELSE 0
<1>1. setting.max \in Nat /\ setting.budget \in Nat /\ setting.completion \in Nat  BY PipelineAssumption
<1>l. /\ limit \in Nat /\ (limit = 0 => setting.max # 0)
      /\ limit # 0 => client = "openai" /\ limit > setting.budget
  BY <1>1 DEF NamesLimit
<1> HIDE DEF limit
<1>2. /\ IsBody(Original) /\ Original.format = client /\ Original.max = setting.max
      /\ Original.kept = 0 /\ Original.completion = limit /\ Original.effort = ""
      /\ Original.thinking = IF client \in {"claude", "openai"} /\ setting.budget > 0
                             THEN [type |-> "enabled", budget |-> setting.budget] ELSE NoThinking
  <2> DEFINE e == EmptyBody(client)
             sys == IF client = "openai" THEN <<>> ELSE setting.system
             said == FlattenSeq([k \in DOMAIN turns |-> TurnMessages(turns[k], k)])
             prompt == IF client = "openai" /\ setting.system # <<>>
                       THEN <<Message("system", <<Text(setting.system)>>)>> ELSE <<>>
             messages == prompt \o FlatMap(LAMBDA m : Encode(client, m), said)
             choice == IF client = "gemini" THEN Choice("")
                       ELSE IF setting.choice \in {"none", ""} THEN Choice(setting.choice)
                       ELSE [type |-> ChoiceShape(client), name |-> setting.choice]
             thinking == IF client \in {"claude", "openai"} /\ setting.budget > 0
                         THEN [type |-> "enabled", budget |-> setting.budget] ELSE NoThinking
             effort == IF client = "gemini" THEN "" ELSE setting.effort
  <2>1. Original = [e EXCEPT !.system = sys, !.messages = messages, !.tools = setting.tools,
                             !.max = setting.max, !.stream = setting.stream,
                             !.completion = limit, !.choice = choice, !.thinking = thinking,
                             !.effort = effort]
    BY DEF Original, limit
  <2>2. IsBody(e) /\ e.format = client /\ e.kept = 0
    BY DEF EmptyBody, IsBody, Fields
  <2>3. effort = ""  OBVIOUS
  <2> HIDE DEF e, sys, said, prompt, messages, choice, thinking, effort
  <2>4. /\ IsBody(Original) /\ Original.format = client /\ Original.max = setting.max
        /\ Original.kept = 0 /\ Original.completion = limit /\ Original.effort = ""
        /\ Original.thinking = thinking
    BY <2>1, <2>2, <2>3 DEF IsBody, Fields
  <2> QED  BY <2>4 DEF thinking
<1>3. Original.thinking \in Thinking
  <2>1. [type |-> "enabled", budget |-> setting.budget] \in Thinking  BY <1>1 DEF Thinking
  <2> QED  BY <1>2, <2>1, ThinkingOff
<1>4. Original.max \in Nat /\ (limit = 0 => Original.max # 0)  BY <1>1, <1>2, <1>l
<1>k. Original.kept = 0  BY <1>2
<1>n. 0 \in Nat  OBVIOUS
<1>5. Original.kept \in Nat  BY <1>k, <1>n, Zenon
<1>6. limit # 0 => Original.format = "openai" /\ limit > Original.thinking.budget
  <2> DEFINE thinking == [type |-> "enabled", budget |-> setting.budget]
  <2>1. limit # 0 => limit > 0  BY <1>l, Positive, Zenon
  <2>t. thinking.budget = setting.budget /\ NoThinking.budget = 0  BY DEF NoThinking
  <2>o. Original.thinking = thinking \/ Original.thinking = NoThinking  BY <1>2, Zenon
  <2> HIDE DEF thinking
  <2>2. Original.thinking.budget = setting.budget \/ Original.thinking.budget = 0
    BY <2>t, <2>o
  <2>3. limit # 0 => Original.format = "openai"  BY <1>2, <1>l
  <2>4. limit # 0 => limit > setting.budget  BY <1>l, Zenon
  <2> QED  BY <2>1, <2>2, <2>3, <2>4
<1> QED  BY <1>2, <1>3, <1>4, <1>5, <1>6, <1>l DEF Sized

-----------------------------------------------------------------------------
(* The body that the handler hands over fits if it was translated to       *)
(* Claude, and so does what is sent.                                       *)
Handed ==
    /\ Sized(body) /\ body.format \in {"openai", "claude", "responses"}
    /\ body.format = "claude" /\ client # "claude" => Fits(body)

BudgetInv ==
    /\ client \in Clients /\ setting \in Settings
    /\ phase \in {"compose", "rejected", "asked", "direct", "sent", "skipped"}
    /\ NamesLimit /\ setting.effort = "" /\ phase \notin {"compose", "rejected"} => Handed
    /\ BudgetFits

LEMMA ChatBudget ==
  ASSUME BudgetInv, NEW model \in Models, Chat(model)  PROVE BudgetInv'
<1> DEFINE target == TargetFormat(model)
           b == Original
           t == IF client = target THEN b ELSE Request(b, target)
<1>1. target \in {"openai", "claude", "responses"}  BY DEF TargetFormat
<1>2. /\ client' = client /\ setting' = setting /\ UNCHANGED <<tier, out, aliases>>
      /\ \/ phase' = "rejected"
         \/ phase' = "asked" /\ body' = Prepare(t, model)
  BY DEF Chat
<1>3. BudgetFits'  BY <1>2 DEF BudgetFits, IsSent
<1>n. NamesLimit' <=> NamesLimit  BY <1>2 DEF NamesLimit
<1>4. ASSUME NamesLimit, setting.effort = "", phase' = "asked", body' = Prepare(t, model)
      PROVE  Handed'
  <2>1. Sized(b) /\ b.format = client /\ client \in Formats
    BY <1>4, OriginalSized, PipelineAssumption DEF BudgetInv
  <2> HIDE DEF target, b
  <2>2. Sized(t) /\ t.format = target /\ (target = "claude" /\ client # "claude" => Fits(t))
    BY <1>1, <2>1, RequestFits
  <2> HIDE DEF t
  <2>3. Alike(body', t)  BY <1>4, <2>2, PrepareAlike
  <2>4. Sized(body') /\ body'.format = target /\ (Fits(t) => Fits(body'))  BY <2>2, <2>3, AlikeSized
  <2> QED  BY <1>1, <1>2, <2>2, <2>4 DEF Handed, Sized, Fits, IsBody
<1> QED  BY <1>2, <1>3, <1>4, <1>n DEF BudgetInv

(* b may be sent: it fits if it is a translation to Claude. *)
MaySend(b) ==
    NamesLimit /\ setting.effort = "" =>
        /\ Handed /\ Sized(b)
        /\ b.format = "claude" /\ (client # body.format \/ body.format # "claude") => Fits(b)

(* What is sent is sized as the body it is made of. *)
LEMMA SentBudget ==
  ASSUME BudgetInv, NEW b, NEW t, phase' \in {"sent", "direct"}, UNCHANGED <<client, setting, body>>,
         MaySend(b), Send(t, b)
  PROVE  BudgetInv'
<1>n. NamesLimit' <=> NamesLimit  BY DEF NamesLimit
<1>1. ASSUME NamesLimit, setting.effort = ""  PROVE BudgetFits'
  <2>1. Sized(out') /\ out'.format = b.format /\ (Fits(b) => Fits(out'))
    BY <1>1, SendSized DEF MaySend
  <2>2. out'.format = "claude" => ClaudeMaxTokens(out') = out'.max  BY <2>1 DEF Sized, ClaudeMaxTokens
  <2>3. out'.format = "claude" /\ Translated' => Fits(b)  BY <1>1, <2>1 DEF MaySend, Translated
  <2> QED  BY <2>1, <2>2, <2>3 DEF BudgetFits, FitsBudget, Fits
<1>2. ~(NamesLimit /\ setting.effort = "") => BudgetFits'
  BY <1>n DEF BudgetFits
<1>3. Handed => Handed'  BY DEF Handed, Sized, Fits, ClaudeMaxTokens, IsBody
<1> QED  BY <1>n, <1>1, <1>2, <1>3 DEF BudgetInv, MaySend

LEMMA DirectBudget ==
  ASSUME BudgetInv, NEW t \in Tiers, Direct(t)  PROVE BudgetInv'
<1>1. /\ phase = "asked" /\ phase' = "direct" /\ Send(t, body) /\ UNCHANGED <<client, setting, body>>
  BY DEF Direct
<1>2. MaySend(body)  BY <1>1 DEF BudgetInv, Handed, MaySend
<1> QED  BY <1>1, <1>2, SentBudget

LEMMA TierBudget ==
  ASSUME BudgetInv, NEW t \in Tiers, TryTier(t)  PROVE BudgetInv'
<1> DEFINE target == IF t.provider = "opencode" THEN BuildURL(t.model.kind, body) ELSE "openai"
           x == IF body.format = target THEN body ELSE Request(body, target)
<1>1. target \in {"openai", "claude", "responses"}  BY DEF BuildURL
<1>2. /\ phase \in {"asked", "sent", "skipped"} /\ UNCHANGED <<client, setting, body>>
      /\ \/ phase' = "skipped"
         \/ phase' = "sent" /\ Send(t, Prepare(x, t.model))
  BY DEF TryTier
<1>3. CASE phase' = "skipped"
  <2>1. BudgetFits'  BY <1>3 DEF BudgetFits, IsSent
  <2>2. Handed => Handed'  BY <1>2 DEF Handed, Sized, Fits, ClaudeMaxTokens, IsBody
  <2>3. NamesLimit' <=> NamesLimit  BY <1>2 DEF NamesLimit
  <2> QED  BY <1>2, <1>3, <2>1, <2>2, <2>3 DEF BudgetInv
<1>4. CASE phase' = "sent" /\ Send(t, Prepare(x, t.model))
  <2> DEFINE b == Prepare(x, t.model)
  <2>1. MaySend(b)
    <3> SUFFICES ASSUME NamesLimit, setting.effort = ""
                 PROVE  /\ Handed /\ Sized(b)
                        /\ b.format = "claude" /\ (client # body.format \/ body.format # "claude") => Fits(b)
      BY DEF MaySend
    <3>1. Handed  BY <1>2 DEF BudgetInv
    <3> HIDE DEF target
    <3>2. body.format = target => Sized(x) /\ x = body  BY <3>1 DEF Handed
    <3>3. body.format # target => Sized(x) /\ Fits(x)  BY <1>1, <3>1, RequestFits DEF Handed, Formats
    <3> HIDE DEF x
    <3>4. Alike(b, x)  BY <3>2, <3>3, PrepareAlike
    <3> HIDE DEF b
    <3>5. Sized(b) /\ b.format = x.format /\ (Fits(x) => Fits(b))  BY <3>2, <3>3, <3>4, AlikeSized
    <3>6. CASE body.format = target  BY <3>1, <3>2, <3>5, <3>6 DEF Handed
    <3>7. CASE body.format # target  BY <3>1, <3>3, <3>5, <3>7
    <3> QED  BY <3>6, <3>7
  <2> HIDE DEF b
  <2>2. Send(t, b)  BY <1>4 DEF b
  <2> QED  BY <1>2, <1>4, <2>1, <2>2, SentBudget
<1> QED  BY <1>2, <1>3, <1>4

(* Whatever is translated to the Messages API has more max_tokens than its *)
(* thinking may use, if the client named a limit and no effort, through    *)
(* every way over the handler and the tiers of a combo.  A limit named as  *)
(* max_completion_tokens has to leave room for the budget itself: it is    *)
(* the one that is sent, whatever AdjustMaxTokens made of max_tokens.      *)
THEOREM BudgetAlwaysFits == Spec => []BudgetFits
<1>1. Init => BudgetInv  BY DEF Init, BudgetInv, BudgetFits, IsSent
<1>2. BudgetInv /\ [Next]_vars => BudgetInv'
  <2> SUFFICES ASSUME BudgetInv, [Next]_vars  PROVE BudgetInv'
    OBVIOUS
  <2>1. CASE Compose
    BY <2>1 DEF Compose, BudgetInv, BudgetFits, NamesLimit, FitsBudget, IsSent, Handed, Sized, Fits,
           ClaudeMaxTokens, IsBody, Translated
  <2>2. CASE UNCHANGED vars
    BY <2>2 DEF vars, BudgetInv, BudgetFits, NamesLimit, FitsBudget, IsSent, Handed, Sized, Fits,
           ClaudeMaxTokens, IsBody, Translated
  <2> QED  BY <2>1, <2>2, ChatBudget, DirectBudget, TierBudget DEF Next
<1>3. BudgetInv => BudgetFits  BY DEF BudgetInv
<1> QED  BY <1>1, <1>2, <1>3, PTL DEF Spec
=============================================================================
