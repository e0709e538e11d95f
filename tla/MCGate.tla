-------------------------------- MODULE MCGate --------------------------------
(***************************************************************************)
(* The two guards in front of the handlers, RateLimiter and AuthThrottle,  *)
(* on one clock.  They share nothing else, so a behaviour is about one of  *)
(* them: traffic says which, and the other one sees no request.            *)
(***************************************************************************)
EXTENDS RateLimiter, TLC

CONSTANTS
    s1,
    AuthIPs, Requests, Base, Cap, MaxEntries

VARIABLES
    traffic,       \* "api" or "auth"
    entries, request, last

Throttle == INSTANCE AuthThrottle WITH IPs <- AuthIPs

ASSUME ThrottleAssumption ==
    /\ Base \in Nat \ {0}
    /\ Cap \in Nat
    /\ Base <= Cap
    /\ MaxEntries \in Nat \ {0}
    /\ IsFiniteSet(AuthIPs)

(* Every address in the same shard; the sweep visits the others too. *)
OneShard == [ip \in IPs |-> s1]

gateVars == <<vars, traffic, entries, request, last>>

GateInit ==
    /\ Init
    /\ Throttle!Init
    /\ traffic \in {"api", "auth"}

ApiStep == traffic = "api" /\ Next /\ UNCHANGED <<traffic, entries, request, last>>

AuthStep ==
    /\ traffic = "auth"
    /\ Throttle!Next
    /\ UNCHANGED <<traffic, visitors, sweep, stop, admitted, denied>>

GateSpec == GateInit /\ [][ApiStep \/ AuthStep]_gateVars

-----------------------------------------------------------------------------
(* The limiter's and the throttle's state are well formed, and neither map *)
(* outgrows its bound.                                                     *)
GateTypeOK == TypeOK /\ Throttle!TypeOK

(* A wait earned by failed attempts is never lifted by pruning the map. *)
WaitHolds == Throttle!WaitHolds

(* Waits double with every failure, up to the cap. *)
WaitsDouble == Throttle!WaitsDouble
=============================================================================
