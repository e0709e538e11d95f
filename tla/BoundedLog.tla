----------------------------- MODULE BoundedLog -----------------------------
(***************************************************************************)
(* What the dashboard's histories promise: the latest Capacity entries, in *)
(* the order they were recorded.                                           *)
(***************************************************************************)
EXTENDS Naturals, Sequences

CONSTANTS Items, Capacity

VARIABLE log

Init == log = <<>>

(* A new entry goes to the end; the oldest one makes room when it is full. *)
Push(item) ==
    log' = IF Len(log) < Capacity THEN Append(log, item) ELSE Append(Tail(log), item)

Clear == log' = <<>>

Next == (\E item \in Items : Push(item)) \/ Clear

Spec == Init /\ [][Next]_log
=============================================================================
