----------------------------- MODULE RingBuffer -----------------------------
(***************************************************************************)
(* infrastructure/ringbuffer: a fixed array with a write position and a    *)
(* size, behind a lock.  The recorder keeps two of them, the request log   *)
(* and the timeseries; Push is called by the requests and by the sampler.  *)
(***************************************************************************)
EXTENDS Integers, Sequences

CONSTANTS
    Items,      \* what is recorded
    Zero,       \* the zero value of the element type, in unused slots
    Requested   \* the capacity New is called with

ASSUME RequestedAssumption == Requested \in Int

VARIABLES data, head, size

vars == <<data, head, size>>

(* New: a capacity that is not positive is taken as 1. *)
Cap == IF Requested <= 0 THEN 1 ELSE Requested

Slots == 0..(Cap - 1)

Init ==
    /\ data = [slot \in Slots |-> Zero]
    /\ head = 0
    /\ size = 0

(* Mutant: the write position stops at the last slot. *)
AdvanceStuck(slot) == IF slot + 1 < Cap THEN slot + 1 ELSE slot

(* Mutant: the write position runs past the array. *)
AdvanceOver(slot) == slot + 1

(* r.head = (r.head + 1) % r.cap *)
Advance(slot) == (slot + 1) % Cap

Push(item) ==
    /\ data' = [data EXCEPT ![head] = item]
    /\ head' = Advance(head)
    /\ size' = IF size < Cap THEN size + 1 ELSE size

(* The slots keep what they held. *)
Clear ==
    /\ head' = 0
    /\ size' = 0
    /\ UNCHANGED data

Next == (\E item \in Items : Push(item)) \/ Clear

Spec == Init /\ [][Next]_vars

-----------------------------------------------------------------------------
(* What the readers get *)

(* The slot of the oldest entry. *)
Start == (head - size + Cap) % Cap

(* Entries from the oldest to the newest. *)
Snapshot == [i \in 1..size |-> data[(Start + (i - 1)) % Cap]]

-----------------------------------------------------------------------------
(* Properties *)

TypeOK ==
    /\ data \in [Slots -> Items \cup {Zero}]
    /\ head \in Slots
    /\ size \in 0..Cap

(* Snapshot never returns a slot that was not written since the last       *)
(* Clear and before it: the zero value is not handed to the dashboard.     *)
NoZeroInSnapshot == \A i \in 1..size : Snapshot[i] \in Items

Log == INSTANCE BoundedLog WITH log <- Snapshot, Capacity <- Cap

(* "When full, the oldest entry is overwritten": what Snapshot returns is  *)
(* the bounded log, whatever the write position.                           *)
ImplementsBoundedLog == Log!Spec
=============================================================================
