------------------------------ MODULE MCUpstream ------------------------------
(***************************************************************************)
(* The two levels of failover below the pipeline: a combo's walk over its  *)
(* tiers (ComboUpstream), and the call of one upstream with its keys and   *)
(* relays (HTTPClient).  To the combo such a call is one outcome, whatever *)
(* keys and relays it went through: they share no state, a behaviour is    *)
(* about one of them, and level says which.                                *)
(***************************************************************************)
EXTENDS ComboUpstream, Sequences, TLC

CONSTANTS KeyCounts, Strategies

VARIABLES
    level,         \* "combo" or "client"
    nKeys, nextKey, limited, pools, strategy, idx, call, rejected

PoolLists == {<<>>, <<"strict", "lax">>, <<"bypass">>}

Client == INSTANCE HTTPClient WITH req <- call

ASSUME ClientAssumption ==
    /\ KeyCounts \subseteq Nat \ {0}
    /\ \A p \in PoolLists : p \in Seq({"strict", "lax", "bypass"})
    /\ Strategies \subseteq {"round-robin", "random", "none"}

Symmetry == Permutations(Requests)

clientVars == <<nKeys, nextKey, limited, pools, strategy, idx, call, rejected>>

UpstreamInit ==
    /\ Init
    /\ Client!Init
    /\ level \in {"combo", "client"}
    /\ level = "combo" => nKeys = 1 /\ pools = <<>> /\ strategy = "none"

ComboStep == level = "combo" /\ Next /\ UNCHANGED <<level, clientVars>>

ClientStep == level = "client" /\ Client!Next /\ UNCHANGED <<level, vars>>

UpstreamSpec == UpstreamInit /\ [][ComboStep \/ ClientStep]_<<vars, level, clientVars>>

-----------------------------------------------------------------------------
(* A strict relay that failed is never bypassed. *)
StrictFailureIsFinal == Client!StrictFailureIsFinal

(* A 429 is passed on only after one rejection per key, and cools down the *)
(* key it was the answer to.                                               *)
RotatesBeforeGivingUp == Client!RotatesBeforeGivingUp
=============================================================================
