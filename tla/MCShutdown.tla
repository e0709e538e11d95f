------------------------------ MODULE MCShutdown ------------------------------
(***************************************************************************)
(* The two parts of the server that own goroutines which its shutdown has  *)
(* to join: the refreshers of ProviderManager and the usage recorder of    *)
(* the store (ClientKeyUsage).  They share no state; a behaviour is about  *)
(* one of them, and part says which.                                       *)
(***************************************************************************)
EXTENDS ProviderManager

CONSTANTS Keys, Producers, Closers, QueueSize, BatchSize, MaxTouches

VARIABLES
    part,          \* "manager" or "usage"
    queue, closed, pending, runner, prod, closer, dbOpen, calls, accepted,
    persisted, lost

Usage == INSTANCE ClientKeyUsage

ASSUME UsageAssumption ==
    /\ QueueSize \in Nat \ {0}
    /\ BatchSize \in Nat \ {0}
    /\ MaxTouches \in Nat

usageVars == <<queue, closed, pending, runner, prod, closer, dbOpen, calls,
               accepted, persisted, lost>>

allVars == <<vars, part, usageVars>>

ShutdownInit ==
    /\ Init
    /\ Usage!Init
    /\ part \in {"manager", "usage"}
    /\ part = "usage" => rows = {}

Manager(step) == part = "manager" /\ step /\ UNCHANGED <<part, usageVars>>

Recorder(step) == part = "usage" /\ step /\ UNCHANGED <<part, vars>>

ManagerStep == Manager(Next)

UsageStep == Recorder(Usage!Next)

(* ProviderManager!Fairness and ClientKeyUsage!Fairness, in the behaviours *)
(* they are about.                                                         *)
ShutdownFairness ==
    /\ WF_allVars(Manager(Stopping))
    /\ \A i \in 1..MaxRefs : WF_allVars(Manager(i <= Len(refs) /\ Refresh(i)))
    /\ WF_allVars(Recorder(Usage!Run))
    /\ \A c \in Closers : WF_allVars(Recorder(Usage!CloseContinues(c)))
    /\ \A p \in Producers : WF_allVars(Recorder(Usage!EnqueueRecover(p)))

ShutdownSpec ==
    ShutdownInit /\ [][ManagerStep \/ UsageStep]_allVars /\ ShutdownFairness

-----------------------------------------------------------------------------
(* No accepted touch of a client key is lost or counted twice, and the     *)
(* recorder's queue is drained before the database closes.                 *)
TouchesConserved == Usage!TouchesConserved

(* Shutdown never hangs: Manager.Stop returns, however many Rebuild calls  *)
(* race it, every Store.Close call returns, and requests blocked on the    *)
(* recorder's full queue are released.                                     *)
ShutdownEnds == StopReturns /\ Usage!CloseReturns
=============================================================================
