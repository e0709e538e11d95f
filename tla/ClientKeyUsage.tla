---------------------------- MODULE ClientKeyUsage ----------------------------
(***************************************************************************)
(* The usage recorder of internal/infrastructure/registry/apikeys.go:      *)
(* request goroutines Enqueue one touch each on a bounded channel, one     *)
(* goroutine (run) batches the touches and writes them in one transaction, *)
(* and Store.Close closes the channel, waits for the last flush and then   *)
(* closes the database.                                                    *)
(***************************************************************************)
EXTENDS Integers, Sequences, FiniteSets, SequencesExt

CONSTANTS
    Keys,          \* hashes of client keys
    Producers,     \* goroutines calling TouchClientKey
    Closers,       \* goroutines calling Store.Close
    QueueSize,     \* clientKeyQueueSize
    BatchSize,     \* clientKeyBatchSize: distinct keys that force a flush
    MaxTouches     \* bound: Enqueue calls

VARIABLES
    queue,         \* the channel's buffer
    closed,        \* the closed flag and the closed channel: set in one hold of mu
    pending,       \* run's map, as touches per key
    runner,        \* "select", "flush" (batch or tick), "drain" (last flush), "done"
    prod,          \* prod[p]: the touch p is sending and how its last call ended
    closer,        \* "idle", "once" (inside closeOnce), "wait" (behind it), "db", "done"
    dbOpen,        \* sqlDB
    calls,         \* Enqueue calls made, for the bound
    accepted,      \* touches whose Enqueue returned nil (history)
    persisted,     \* use_count in the database
    lost           \* touches of a transaction that failed (history)

vars == <<queue, closed, pending, runner, prod, closer, dbOpen, calls,
          accepted, persisted, lost>>

AnyKey == CHOOSE k \in Keys : TRUE

Zero == [k \in Keys |-> 0]

Plus(f, g) == [k \in Keys |-> f[k] + g[k]]

Bump(f, k) == [f EXCEPT ![k] = @ + 1]

(* len(pending): the map has an entry per touched key. *)
Batch == {k \in Keys : pending[k] > 0}

Init ==
    /\ queue = <<>>
    /\ closed = FALSE
    /\ pending = Zero
    /\ runner = "select"
    /\ prod = [p \in Producers |-> [pc |-> "idle", key |-> AnyKey, last |-> "none"]]
    /\ closer = [c \in Closers |-> "idle"]
    /\ dbOpen = TRUE
    /\ calls = 0
    /\ accepted = Zero
    /\ persisted = Zero
    /\ lost = Zero

-----------------------------------------------------------------------------
(* Enqueue *)

(* The closed flag is read under RLock and released before the send. *)
EnqueueBegin(p, k) ==
    /\ prod[p].pc = "idle"
    /\ calls < MaxTouches
    /\ calls' = calls + 1
    /\ prod' = [prod EXCEPT ![p] =
         IF closed THEN [pc |-> "idle", key |-> AnyKey, last |-> "closed"]
                   ELSE [pc |-> "send", key |-> k, last |-> "none"]]
    /\ UNCHANGED <<queue, closed, pending, runner, closer, dbOpen,
                   accepted, persisted, lost>>

EndEnqueue(p, result) ==
    prod' = [prod EXCEPT ![p] = [pc |-> "idle", key |-> AnyKey, last |-> result]]

(* Mutant: Enqueue drops the touch when the queue is full, and returns nil. *)
EnqueueSendDropping(p) ==
    /\ prod[p].pc = "send"
    /\ ~closed
    /\ queue' = IF Len(queue) < QueueSize THEN Append(queue, prod[p].key) ELSE queue
    /\ accepted' = Bump(accepted, prod[p].key)
    /\ EndEnqueue(p, "nil")
    /\ UNCHANGED <<closed, pending, runner, closer, dbOpen, calls, persisted, lost>>

(* select: the send proceeds when the buffer has room. *)
EnqueueSend(p) ==
    /\ prod[p].pc = "send"
    /\ ~closed
    /\ Len(queue) < QueueSize
    /\ queue' = Append(queue, prod[p].key)
    /\ accepted' = Bump(accepted, prod[p].key)
    /\ EndEnqueue(p, "nil")
    /\ UNCHANGED <<closed, pending, runner, closer, dbOpen, calls, persisted, lost>>

(* A send on the closed channel panics, also for a sender that was already *)
(* blocked on the full buffer; the deferred recover reports ErrStoreClosed. *)
EnqueueRecover(p) ==
    /\ prod[p].pc = "send"
    /\ closed
    /\ EndEnqueue(p, "closed")
    /\ UNCHANGED <<queue, closed, pending, runner, closer, dbOpen, calls,
                   accepted, persisted, lost>>

EnqueueCtxDone(p) ==
    /\ prod[p].pc = "send"
    /\ EndEnqueue(p, "ctx")
    /\ UNCHANGED <<queue, closed, pending, runner, closer, dbOpen, calls,
                   accepted, persisted, lost>>

-----------------------------------------------------------------------------
(* run *)

Receive ==
    /\ runner = "select"
    /\ queue # <<>>
    /\ queue' = Tail(queue)
    /\ pending' = Bump(pending, Head(queue))
    /\ runner' = IF Cardinality(Batch \cup {Head(queue)}) >= BatchSize
                   THEN "flush" ELSE "select"
    /\ UNCHANGED <<closed, prod, closer, dbOpen, calls, accepted, persisted, lost>>

TickerFires ==
    /\ runner = "select"
    /\ Batch # {}
    /\ runner' = "flush"
    /\ UNCHANGED <<queue, closed, pending, prod, closer, dbOpen, calls,
                   accepted, persisted, lost>>

(* A closed channel is received from until it is empty. *)
QueueClosed ==
    /\ runner = "select"
    /\ closed
    /\ queue = <<>>
    /\ runner' = "drain"
    /\ UNCHANGED <<queue, closed, pending, prod, closer, dbOpen, calls,
                   accepted, persisted, lost>>

(* flush: one transaction writes the whole batch or, on any error or on    *)
(* the timeout, none of it; the batch is cleared in both cases.  An UPDATE *)
(* that finds no row, of a key deleted meanwhile, is part of a transaction *)
(* that succeeds.                                                          *)
Flush ==
    /\ runner \in {"flush", "drain"}
    /\ \/ dbOpen /\ persisted' = Plus(persisted, pending) /\ UNCHANGED lost
       \/ Batch # {} /\ lost' = Plus(lost, pending) /\ UNCHANGED persisted
    /\ pending' = Zero
    /\ runner' = IF runner = "drain" THEN "done" ELSE "select"
    /\ UNCHANGED <<queue, closed, prod, closer, dbOpen, calls, accepted>>

-----------------------------------------------------------------------------
(* Store.Close *)

(* closeOnce: the first caller runs the body, the others wait for it. *)
CloseBegin(c) ==
    /\ closer[c] = "idle"
    /\ IF closed
         THEN closer' = [closer EXCEPT ![c] = "wait"] /\ UNCHANGED closed
         ELSE closer' = [closer EXCEPT ![c] = "once"] /\ closed' = TRUE
    /\ UNCHANGED <<queue, pending, runner, prod, dbOpen, calls,
                   accepted, persisted, lost>>

(* <-r.done *)
CloseUsage(c) ==
    /\ closer[c] = "once"
    /\ runner = "done"
    /\ closer' = [closer EXCEPT ![c] = "db"]
    /\ UNCHANGED <<queue, closed, pending, runner, prod, dbOpen, calls,
                   accepted, persisted, lost>>

CloseWaited(c) ==
    /\ closer[c] = "wait"
    /\ \E d \in Closers : closer[d] \in {"db", "done"}
    /\ closer' = [closer EXCEPT ![c] = "db"]
    /\ UNCHANGED <<queue, closed, pending, runner, prod, dbOpen, calls,
                   accepted, persisted, lost>>

CloseSQL(c) ==
    /\ closer[c] = "db"
    /\ dbOpen' = FALSE
    /\ closer' = [closer EXCEPT ![c] = "done"]
    /\ UNCHANGED <<queue, closed, pending, runner, prod, calls,
                   accepted, persisted, lost>>

Enqueue(p) ==
    \/ \E k \in Keys : EnqueueBegin(p, k)
    \/ EnqueueSend(p)
    \/ EnqueueRecover(p)
    \/ EnqueueCtxDone(p)

Run == Receive \/ TickerFires \/ QueueClosed \/ Flush

CloseContinues(c) == CloseUsage(c) \/ CloseWaited(c) \/ CloseSQL(c)

Close(c) == CloseBegin(c) \/ CloseContinues(c)

Next ==
    \/ \E p \in Producers : Enqueue(p)
    \/ Run
    \/ \E c \in Closers : Close(c)

Spec == Init /\ [][Next]_vars

(* The scheduler runs run() and a Close call that can go on, and a flush   *)
(* ends by clientKeyFlushTimeout at the latest; nothing forces a request   *)
(* or a Close call to begin.                                               *)
Fairness ==
    /\ WF_vars(Run)
    /\ \A c \in Closers : WF_vars(CloseContinues(c))
    /\ \A p \in Producers : WF_vars(EnqueueRecover(p))

FairSpec == Spec /\ Fairness

-----------------------------------------------------------------------------
(* Properties *)

Queued(k) == Cardinality({i \in 1..Len(queue) : queue[i] = k})

(* No accepted touch disappears and none is counted twice: at any moment   *)
(* it is in the channel, in the batch, in the database, or in a            *)
(* transaction whose failure was logged.  "Store.Close drains the queue    *)
(* before closing the database": once the database is closed, every touch  *)
(* whose Enqueue returned nil has been through its transaction.            *)
TouchesConserved ==
    \A k \in Keys :
      /\ accepted[k] = Queued(k) + pending[k] + persisted[k] + lost[k]
      /\ ~dbOpen => accepted[k] = persisted[k] + lost[k]

(* Close never hangs: the run goroutine drains whatever senders raced with *)
(* it, every Close call returns, and a request blocked on the full queue   *)
(* is released.                                                            *)
CloseReturns ==
    /\ \A c \in Closers : closer[c] # "idle" ~> closer[c] = "done"
    /\ \A p \in Producers : (closed /\ prod[p].pc = "send") ~> prod[p].pc = "idle"
=============================================================================
