---------------------------- MODULE AuthThrottle ----------------------------
(***************************************************************************)
(* The waits that follow failed authentication attempts: one AuthThrottle  *)
(* of delivery/middleware and the handler that uses it.  The server makes  *)
(* two, which share nothing: one for POST /login, one for AdminAuth.       *)
(*                                                                         *)
(* The handler asks Blocked, compares the credential and then calls Fail   *)
(* or Reset.  Each call holds the lock; between two of them other requests *)
(* run.  A request that Blocked turns away changes nothing and has no      *)
(* action.                                                                 *)
(***************************************************************************)
EXTENDS Integers, FiniteSets, FiniteSetsExt

CONSTANTS
    IPs,            \* client addresses
    Requests,       \* requests in flight at once
    Base, Cap,      \* first wait and longest wait (max in the code), in ticks
    MaxEntries,
    MaxClock        \* bound: the clock stops here

VARIABLES
    clock,
    entries,    \* address -> its authAttempt; failures = 0: none
    request,    \* request -> what its handler is doing
    last        \* history: the latest failure, until a success or an overflow

vars == <<clock, entries, request, last>>

NoEntry == [failures |-> 0, nextAllowed |-> 0, lastSeen |-> 0]
NoFailure == [at |-> -1, wait |-> 0, overflow |-> FALSE]
Finished == [pc |-> "idle"]

Init ==
    /\ clock = 0
    /\ entries = [ip \in IPs |-> NoEntry]
    /\ request = [r \in Requests |-> Finished]
    /\ last = [ip \in IPs |-> NoFailure]

Tick ==
    /\ clock < MaxClock
    /\ clock' = clock + 1
    /\ UNCHANGED <<entries, request, last>>

Blocked(ip) == entries[ip].nextAllowed > clock

(* The handler starts and is not turned away. *)
Arrive(r, ip) ==
    /\ request[r].pc = "idle"
    /\ ~Blocked(ip)
    /\ request' = [request EXCEPT ![r] = [pc |-> "compare", ip |-> ip]]
    /\ UNCHANGED <<clock, entries, last>>

(* The loop of Fail: base doubled n - 1 times, not beyond the cap. *)
Doubled[n \in Nat \ {0}] ==
    IF n = 1 THEN Base
    ELSE IF Doubled[n - 1] < Cap THEN 2 * Doubled[n - 1] ELSE Doubled[n - 1]

Wait(n) == Min({Cap, Doubled[n]})

(* Mutant: what is older than the first wait is dropped. *)
PrunedSoon(now, es) == [ip \in IPs |-> IF now - es[ip].lastSeen > Base THEN NoEntry ELSE es[ip]]

(* Entries that no attempt touched for longer than the longest wait. *)
Pruned(now, es) == [ip \in IPs |-> IF now - es[ip].lastSeen > Cap THEN NoEntry ELSE es[ip]]

Held(es) == {ip \in IPs : es[ip].failures > 0}

Overflows(es) == Cardinality(Held(es)) >= MaxEntries

(* Fail: prune, drop everything when full, then count the failure. *)
Fail(r) ==
    /\ request[r].pc = "compare"
    /\ LET ip == request[r].ip
           kept == Pruned(clock, entries)
           full == Overflows(kept)
           n == IF full THEN 1 ELSE kept[ip].failures + 1
           entry == [failures |-> n, nextAllowed |-> clock + Wait(n), lastSeen |-> clock]
       IN /\ entries' = [a \in IPs |-> IF a = ip THEN entry
                                       ELSE IF full THEN NoEntry ELSE kept[a]]
          /\ last' = [a \in IPs |-> IF a = ip THEN [at |-> clock, wait |-> Wait(n), overflow |-> full]
                                    ELSE IF full THEN NoFailure ELSE last[a]]
    /\ request' = [request EXCEPT ![r] = Finished]
    /\ UNCHANGED clock

(* Mutant: a success only lifts the wait, the failures still count. *)
ResetEntryKeepsCount(e) == [failures |-> e.failures, nextAllowed |-> 0, lastSeen |-> e.lastSeen]

ResetEntry(e) == NoEntry

(* The credential is right: Reset. *)
Succeed(r) ==
    /\ request[r].pc = "compare"
    /\ LET ip == request[r].ip
       IN /\ entries' = [entries EXCEPT ![ip] = ResetEntry(@)]
          /\ last' = [last EXCEPT ![ip] = NoFailure]
    /\ request' = [request EXCEPT ![r] = Finished]
    /\ UNCHANGED clock

(* AdminAuth saw no credential, or Login could not issue a session. *)
Neither(r) ==
    /\ request[r].pc = "compare"
    /\ request' = [request EXCEPT ![r] = Finished]
    /\ UNCHANGED <<clock, entries, last>>

Next ==
    \/ Tick
    \/ \E r \in Requests :
         \/ \E ip \in IPs : Arrive(r, ip)
         \/ Fail(r) \/ Succeed(r) \/ Neither(r)

Spec == Init /\ [][Next]_vars

-----------------------------------------------------------------------------
(* Properties *)

TypeOK ==
    /\ clock \in 0..MaxClock
    /\ entries \in [IPs -> [failures : Nat, nextAllowed : 0..(MaxClock + Cap),
                            lastSeen : 0..MaxClock]]
    /\ \A r \in Requests :
         request[r] = Finished \/ request[r] \in [pc : {"compare"}, ip : IPs]
    /\ last \in [IPs -> [at : -1..MaxClock, wait : 0..Cap, overflow : BOOLEAN]]
    /\ Cardinality(Held(entries)) <= MaxEntries

(* Pruning never lifts a wait: until it is over, or a success or an        *)
(* overflow clears it, the address is turned away.                         *)
WaitHolds ==
    \A ip \in IPs :
      last[ip].at >= 0 /\ clock < last[ip].at + last[ip].wait => Blocked(ip)

(* The exponential wait: each further failure of an address doubles its    *)
(* wait up to the cap, also for attempts that overtook each other between  *)
(* Blocked and Fail; the count starts again only after a success, an       *)
(* overflow, or a pause longer than the cap.                               *)
WaitsDouble ==
    [][\A ip \in IPs :
         LET before == last[ip]
             after == last'[ip]
         IN after.at >= 0 /\ after # before =>
              after.wait = IF before.at = -1 \/ after.overflow \/ after.at - before.at > Cap
                           THEN Base ELSE Min({Cap, 2 * before.wait})]_vars
=============================================================================
