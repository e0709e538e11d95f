---------------------------- MODULE RateLimiter ----------------------------
(***************************************************************************)
(* The per-IP rate limiter of delivery/middleware: sharded visitor maps,   *)
(* the allow() decision of one request, the sweep that removes idle        *)
(* visitors every five minutes, and Stop.                                  *)
(*                                                                         *)
(* allow() and one shard's part of a sweep hold the shard's lock, so each  *)
(* is one step.  The sweep reads the clock once, before it takes the first *)
(* lock: requests run between the shards, and their lastSeen may be later  *)
(* than the sweep's own now.                                               *)
(***************************************************************************)
EXTENDS Integers, Sequences, FiniteSets

CONSTANTS
    IPs,            \* client addresses
    Shards,         \* rateLimiterShards, 32 in the code
    ShardOf,        \* shardFor: the shard of an address
    MaxPerShard,    \* rateLimiterMaxPerShard
    Limit,          \* RATE_LIMIT, requests per minute
    Minute,         \* the counting window, in ticks of the clock
    Idle,           \* what the sweep calls stale, two minutes
    SweepPeriod,    \* five minutes
    MaxClock,       \* bound: the clock stops here
    MaxAdmitted     \* bound: admissions remembered per address

ASSUME LimiterAssumption ==
    /\ IsFiniteSet(IPs)
    /\ ShardOf \in [IPs -> Shards]
    /\ MaxPerShard \in Nat \ {0}
    /\ Limit \in Nat \ {0}
    /\ Minute \in Nat
    /\ Idle \in Nat
    /\ Idle >= Minute
    /\ SweepPeriod \in Nat \ {0}
    /\ MaxClock \in Nat
    /\ MaxAdmitted \in Nat

VARIABLES
    clock,
    visitors,   \* address -> its counter: present, count, lastSeen
    sweep,      \* the cleanup goroutine: pc, its now, shards left, next tick
    stop,       \* Stop: "no", "closed" (waiting), "returned"
    admitted,   \* history: admission times since the entry was last evicted
    denied      \* history: first and latest denial since the last admission

vars == <<clock, visitors, sweep, stop, admitted, denied>>

Absent == [present |-> FALSE, count |-> 0, lastSeen |-> 0]
NotDenied == [since |-> -1, latest |-> -1]

Init ==
    /\ clock = 0
    /\ visitors = [ip \in IPs |-> Absent]
    /\ sweep = [pc |-> "select", now |-> 0, left |-> {}, due |-> SweepPeriod]
    /\ stop = "no"
    /\ admitted = [ip \in IPs |-> <<>>]
    /\ denied = [ip \in IPs |-> NotDenied]

Tick ==
    /\ clock < MaxClock
    /\ clock' = clock + 1
    /\ UNCHANGED <<visitors, sweep, stop, admitted, denied>>

-----------------------------------------------------------------------------
(* allow(ip) *)

Visitors(s) == {ip \in IPs : ShardOf[ip] = s /\ visitors[ip].present}

(* Mutant: the bound is checked with > instead of >=. *)
ShardFullLate(s) == Cardinality(Visitors(s)) > MaxPerShard

ShardFull(s) == Cardinality(Visitors(s)) >= MaxPerShard

Fresh(now) == [present |-> TRUE, count |-> 1, lastSeen |-> now]

Admit(ip) ==
    /\ Len(admitted[ip]) < MaxAdmitted
    /\ denied' = [denied EXCEPT ![ip] = NotDenied]

(* Mutant: the window is over one tick early. *)
WindowOverEarly(ip) == clock - visitors[ip].lastSeen >= Minute

(* now.Sub(v.lastSeen) > time.Minute *)
WindowOver(ip) == clock - visitors[ip].lastSeen > Minute

(* A new visitor in a shard with room. *)
AllowNew(ip) ==
    /\ ~visitors[ip].present
    /\ ~ShardFull(ShardOf[ip])
    /\ Admit(ip)
    /\ visitors' = [visitors EXCEPT ![ip] = Fresh(clock)]
    /\ admitted' = [admitted EXCEPT ![ip] = Append(@, clock)]
    /\ UNCHANGED <<clock, sweep, stop>>

(* A new visitor in a full shard: an arbitrary entry makes room and its    *)
(* address loses the count of its current minute.                          *)
AllowEvict(ip) ==
    /\ ~visitors[ip].present
    /\ ShardFull(ShardOf[ip])
    /\ Admit(ip)
    /\ \E victim \in Visitors(ShardOf[ip]) :
         /\ visitors' = [visitors EXCEPT ![victim] = Absent, ![ip] = Fresh(clock)]
         /\ admitted' = [admitted EXCEPT ![victim] = <<>>, ![ip] = Append(@, clock)]
    /\ UNCHANGED <<clock, sweep, stop>>

(* The last admission is more than a minute ago. *)
AllowWindow(ip) ==
    /\ visitors[ip].present
    /\ WindowOver(ip)
    /\ Admit(ip)
    /\ visitors' = [visitors EXCEPT ![ip] = Fresh(clock)]
    /\ admitted' = [admitted EXCEPT ![ip] = Append(@, clock)]
    /\ UNCHANGED <<clock, sweep, stop>>

(* Mutant: a refused request counts as seen. *)
AllowDenyTouch(ip) ==
    /\ visitors[ip].present
    /\ ~WindowOver(ip)
    /\ visitors[ip].count >= Limit
    /\ visitors' = [visitors EXCEPT ![ip].lastSeen = clock]
    /\ denied' = [denied EXCEPT ![ip] =
                    [since |-> IF @.since = -1 THEN clock ELSE @.since, latest |-> clock]]
    /\ UNCHANGED <<clock, sweep, stop, admitted>>

(* A refusal touches neither the count nor lastSeen. *)
AllowDeny(ip) ==
    /\ visitors[ip].present
    /\ ~WindowOver(ip)
    /\ visitors[ip].count >= Limit
    /\ denied' = [denied EXCEPT ![ip] =
                    [since |-> IF @.since = -1 THEN clock ELSE @.since, latest |-> clock]]
    /\ UNCHANGED <<clock, visitors, sweep, stop, admitted>>

AllowCount(ip) ==
    /\ visitors[ip].present
    /\ ~WindowOver(ip)
    /\ visitors[ip].count < Limit
    /\ Admit(ip)
    /\ visitors' = [visitors EXCEPT ![ip].count = @ + 1, ![ip].lastSeen = clock]
    /\ admitted' = [admitted EXCEPT ![ip] = Append(@, clock)]
    /\ UNCHANGED <<clock, sweep, stop>>

-----------------------------------------------------------------------------
(* The cleanup goroutine and Stop *)

(* The ticker keeps its period; ticks that a slow sweep misses are dropped. *)
NextTick(now) == SweepPeriod * (now \div SweepPeriod + 1)

SweepStart ==
    /\ sweep.pc = "select"
    /\ clock >= sweep.due
    /\ sweep' = [pc |-> "sweep", now |-> clock, left |-> Shards, due |-> NextTick(clock)]
    /\ UNCHANGED <<clock, visitors, stop, admitted, denied>>

(* Mutant: a visitor is stale after half a minute. *)
StaleSoon(ip) == 2 * (sweep.now - visitors[ip].lastSeen) > Minute

(* now.Sub(v.lastSeen) > 2*time.Minute, with the now of the sweep *)
Stale(ip) == sweep.now - visitors[ip].lastSeen > Idle

AfterSweep(left) == IF left = {} THEN "select" ELSE "sweep"

SweepShard(s) ==
    /\ sweep.pc = "sweep"
    /\ s \in sweep.left
    /\ visitors' = [ip \in IPs |->
                      IF ip \in Visitors(s) /\ Stale(ip) THEN Absent ELSE visitors[ip]]
    /\ sweep' = [pc |-> AfterSweep(sweep.left \ {s}), now |-> sweep.now,
                 left |-> sweep.left \ {s}, due |-> sweep.due]
    /\ UNCHANGED <<clock, stop, admitted, denied>>

SweepStop ==
    /\ sweep.pc = "select"
    /\ stop = "closed"
    /\ sweep' = [pc |-> "done", now |-> sweep.now, left |-> {}, due |-> sweep.due]
    /\ UNCHANGED <<clock, visitors, stop, admitted, denied>>

StopClose ==
    /\ stop = "no"
    /\ stop' = "closed"
    /\ UNCHANGED <<clock, visitors, sweep, admitted, denied>>

StopReturn ==
    /\ stop = "closed"
    /\ sweep.pc = "done"
    /\ stop' = "returned"
    /\ UNCHANGED <<clock, visitors, sweep, admitted, denied>>

Allow(ip) ==
    \/ AllowNew(ip) \/ AllowEvict(ip) \/ AllowWindow(ip)
    \/ AllowDeny(ip) \/ AllowCount(ip)

Sweeper == SweepStart \/ (\E s \in Shards : SweepShard(s)) \/ SweepStop

Next ==
    \/ Tick
    \/ \E ip \in IPs : Allow(ip)
    \/ Sweeper
    \/ StopClose
    \/ StopReturn

Spec == Init /\ [][Next]_vars

-----------------------------------------------------------------------------
(* Properties *)

TypeOK ==
    /\ clock \in 0..MaxClock
    /\ visitors \in [IPs -> [present : BOOLEAN, count : 0..Limit, lastSeen : 0..MaxClock]]
    /\ sweep \in [pc : {"select", "sweep", "done"}, now : 0..MaxClock,
                  left : SUBSET Shards, due : Int]
    /\ stop \in {"no", "closed", "returned"}
    /\ admitted \in [IPs -> Seq(0..MaxClock)]
    /\ denied \in [IPs -> [since : -1..MaxClock, latest : -1..MaxClock]]
    /\ \A s \in Shards : Cardinality(Visitors(s)) <= MaxPerShard

(* RATE_LIMIT is "Requests per minute per client IP": among the requests   *)
(* admitted from an address since its entry was last evicted, any Limit +  *)
(* 1 in a row span more than a minute, whatever the sweep removes.         *)
AtMostLimitPerMinute ==
    \A ip \in IPs : \A i, j \in 1..Len(admitted[ip]) :
      j >= i + Limit => admitted[ip][j] - admitted[ip][i] > Minute

(* The answer to a refused request says Retry-After: 60.  A client that    *)
(* retries, however eagerly, is not refused for longer than a minute       *)
(* without being admitted in between.                                      *)
DenialEnds ==
    \A ip \in IPs : denied[ip].latest - denied[ip].since <= Minute
=============================================================================
