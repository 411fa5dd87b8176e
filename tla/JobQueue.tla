------------------------------ MODULE JobQueue ------------------------------
(***************************************************************************)
(* The durable job queue of ragops: the "jobs" table and the transactions  *)
(* SqlAlchemyJobQueue runs against it (src/ragops/persistence/job_queue.py *)
(* and JobRow in persistence/models.py).                                   *)
(*                                                                         *)
(* The claim locks its row (FOR UPDATE SKIP LOCKED) and is one step.       *)
(* heartbeat, complete, fail and cancel are a SELECT without a lock, a     *)
(* check of what it returned, and an UPDATE that writes the columns the    *)
(* code changed.  The database runs READ COMMITTED, so other sessions may  *)
(* commit between the two: each is a Read step and a Write step, joined by *)
(* the session's open transaction txn[s].                                  *)
(*                                                                         *)
(* Time is relative.  leaseLeft[j] is the number of ticks until            *)
(* lease_expires_at, delayLeft[j] the number until available_at, and       *)
(* txn[s].age the number since the session read its clock.  All three stop *)
(* at a bound, so the specification is finite without a horizon.           *)
(***************************************************************************)
EXTENDS Naturals, FiniteSets

CONSTANTS
  Jobs,         \* rows the table may hold; a row is one idempotency key
  Workers,      \* worker ids: sessions that claim, renew and settle
  Operators,    \* sessions that call cancel
  MaxAttempts,  \* JobSpec.max_attempts
  Lease,        \* lease_seconds, in ticks
  RetryDelay,   \* retry_delay_seconds, in ticks
  None          \* SQL NULL

ASSUME QueueAssumption ==
  /\ MaxAttempts \in Nat \ {0}
  /\ Lease \in Nat \ {0}
  /\ RetryDelay \in Nat
  /\ None \notin Nat
  /\ None \notin Workers
  /\ None \notin Jobs
  /\ Workers \cap Operators = {}

VARIABLES
  status,      \* JobRow.status, or "absent" before the row is inserted
  attempts,    \* JobRow.attempt_count
  leasedBy,    \* JobRow.leased_by
  leaseLeft,   \* ticks until JobRow.lease_expires_at, None for NULL
  delayLeft,   \* ticks until JobRow.available_at
  txn          \* the transaction each session has open

rowVars == <<status, attempts, leasedBy, leaseLeft, delayLeft>>
queueVars == <<status, attempts, leasedBy, leaseLeft, delayLeft, txn>>

Sessions == Workers \cup Operators
Terminal == {"completed", "failed", "cancelled"}
Statuses == {"absent", "pending", "leased"} \cup Terminal
Columns == {"status", "leased_by", "lease_expires_at"}

AgeCap == IF Lease > RetryDelay THEN Lease ELSE RetryDelay
Minus(a, b) == IF a > b THEN a - b ELSE 0

(* What fail decides from its snapshot is part of the op: "retry" returns  *)
(* the job to the queue, "bury" fails it for good.  dirty is the set of    *)
(* columns whose new value differs from the snapshot: an UPDATE of the     *)
(* unit of work writes these and no other.                                 *)
NoTxn == [op |-> "none", job |-> None, age |-> 0, dirty |-> {}]
Txns == [op : {"heartbeat", "complete", "retry", "bury", "cancel"},
         job : Jobs, age : 0..AgeCap, dirty : SUBSET Columns]

Target(op) ==
  CASE op = "complete" -> "completed"
    [] op = "retry"    -> "pending"
    [] op = "bury"     -> "failed"
    [] op = "cancel"   -> "cancelled"

Init ==
  /\ status = [j \in Jobs |-> "absent"]
  /\ attempts = [j \in Jobs |-> 0]
  /\ leasedBy = [j \in Jobs |-> None]
  /\ leaseLeft = [j \in Jobs |-> None]
  /\ delayLeft = [j \in Jobs |-> 0]
  /\ txn = [s \in Sessions |-> NoTxn]

-----------------------------------------------------------------------------
(* Mutant: ON CONFLICT DO UPDATE, which puts an existing row back.         *)
EnqueueOverwrites(j, delay) ==
  /\ status' = [status EXCEPT ![j] = "pending"]
  /\ delayLeft' = [delayLeft EXCEPT ![j] = delay]
  /\ UNCHANGED <<attempts, leasedBy, leaseLeft, txn>>

(* enqueue: ON CONFLICT DO NOTHING on the idempotency key, so a second     *)
(* enqueue of the same key returns the row as it is and changes nothing.   *)
Enqueue(j, delay) ==
  /\ status[j] = "absent"
  /\ status' = [status EXCEPT ![j] = "pending"]
  /\ delayLeft' = [delayLeft EXCEPT ![j] = delay]
  /\ UNCHANGED <<attempts, leasedBy, leaseLeft, txn>>

(* Mutants: the deadline is not looked at; the attempt limit is off by one. *)
ClaimableUnexpired(j) ==
  \/ status[j] = "pending" /\ delayLeft[j] = 0
  \/ status[j] = "leased" /\ attempts[j] < MaxAttempts
ClaimableOnceMore(j) ==
  \/ status[j] = "pending" /\ delayLeft[j] = 0
  \/ status[j] = "leased" /\ leaseLeft[j] = 0 /\ attempts[j] <= MaxAttempts

(* claimable_job_statement.  The ORDER BY is left open: with SKIP LOCKED a *)
(* claim may pass over any row another transaction holds.                  *)
Claimable(j) ==
  \/ status[j] = "pending" /\ delayLeft[j] = 0
  \/ status[j] = "leased" /\ leaseLeft[j] = 0 /\ attempts[j] < MaxAttempts

(* Mutants: the sweep does not look at the status; its limit is off by one. *)
ExhaustedAnyStatus(j) == leaseLeft[j] = 0 /\ attempts[j] >= MaxAttempts
ExhaustedTooLate(j) ==
  status[j] = "leased" /\ leaseLeft[j] = 0 /\ attempts[j] > MaxAttempts

(* _mark_exhausted_leases_failed, the first statement of every claim *)
Exhausted(j) ==
  status[j] = "leased" /\ leaseLeft[j] = 0 /\ attempts[j] >= MaxAttempts

(* claim by worker w: sweep, then take row j.  lag is how old the clock    *)
(* reading the new deadline starts from is when the claim commits.         *)
Claim(w, j, lag) ==
  /\ txn[w] = NoTxn
  /\ Claimable(j)
  /\ status' = [i \in Jobs |-> IF i = j THEN "leased"
                               ELSE IF Exhausted(i) THEN "failed" ELSE status[i]]
  /\ attempts' = [attempts EXCEPT ![j] = @ + 1]
  /\ leasedBy' = [i \in Jobs |-> IF i = j THEN w
                                 ELSE IF Exhausted(i) THEN None ELSE leasedBy[i]]
  /\ leaseLeft' = [i \in Jobs |-> IF i = j THEN Minus(Lease, lag)
                                  ELSE IF Exhausted(i) THEN None ELSE leaseLeft[i]]
  /\ UNCHANGED <<delayLeft, txn>>

(* a claim that sweeps and returns no row: none is claimable, or every one *)
(* that is is locked by another transaction                                *)
ClaimNothing(w) ==
  /\ txn[w] = NoTxn
  /\ \E j \in Jobs : Exhausted(j)
  /\ status' = [i \in Jobs |-> IF Exhausted(i) THEN "failed" ELSE status[i]]
  /\ leasedBy' = [i \in Jobs |-> IF Exhausted(i) THEN None ELSE leasedBy[i]]
  /\ leaseLeft' = [i \in Jobs |-> IF Exhausted(i) THEN None ELSE leaseLeft[i]]
  /\ UNCHANGED <<attempts, delayLeft, txn>>

-----------------------------------------------------------------------------
(* _owned_lease: the row says LEASED and names this worker.  The deadline  *)
(* is not looked at.                                                       *)
Owns(w, j) == status[j] = "leased" /\ leasedBy[j] = w

(* Mutant: the status is left as it was. *)
DirtyWithoutStatus(j, target) ==
  {c \in Columns : \/ c = "leased_by" /\ leasedBy[j] # None
                   \/ c = "lease_expires_at" /\ leaseLeft[j] # None}

Dirty(j, target) ==
  {c \in Columns : \/ c = "status" /\ status[j] # target
                   \/ c = "leased_by" /\ leasedBy[j] # None
                   \/ c = "lease_expires_at" /\ leaseLeft[j] # None}

Open(s, op, j, dirty) ==
  /\ txn[s] = NoTxn
  /\ txn' = [txn EXCEPT ![s] = [op |-> op, job |-> j, age |-> 0, dirty |-> dirty]]
  /\ UNCHANGED rowVars

HeartbeatRead(w, j) == Owns(w, j) /\ Open(w, "heartbeat", j, {"lease_expires_at"})

CompleteRead(w, j) == Owns(w, j) /\ Open(w, "complete", j, Dirty(j, "completed"))

(* Mutants: fail always retries; its limit is off by one. *)
FailReadRetries(w, j) == Owns(w, j) /\ Open(w, "retry", j, Dirty(j, "pending"))
FailReadOnceMore(w, j) ==
  /\ Owns(w, j)
  /\ \/ attempts[j] > MaxAttempts /\ Open(w, "bury", j, Dirty(j, "failed"))
     \/ attempts[j] <= MaxAttempts /\ Open(w, "retry", j, Dirty(j, "pending"))

FailRead(w, j) ==
  /\ Owns(w, j)
  /\ \/ attempts[j] >= MaxAttempts /\ Open(w, "bury", j, Dirty(j, "failed"))
     \/ attempts[j] < MaxAttempts /\ Open(w, "retry", j, Dirty(j, "pending"))

CancelRead(o, j) ==
  /\ status[j] \notin {"absent", "completed", "failed"}
  /\ Open(o, "cancel", j, Dirty(j, "cancelled"))

HeartbeatWrite(w) ==
  LET j == txn[w].job IN
  /\ txn[w].op = "heartbeat"
  /\ leaseLeft' = [leaseLeft EXCEPT ![j] = Minus(Lease, txn[w].age)]
  /\ txn' = [txn EXCEPT ![w] = NoTxn]
  /\ UNCHANGED <<status, attempts, leasedBy, delayLeft>>

(* The UPDATE of complete, fail and cancel: by primary key alone. *)
Flush(s) ==
  LET j == txn[s].job
      Written(c, old, new) == IF c \in txn[s].dirty THEN [old EXCEPT ![j] = new] ELSE old
  IN /\ status' = Written("status", status, Target(txn[s].op))
     /\ leasedBy' = Written("leased_by", leasedBy, None)
     /\ leaseLeft' = Written("lease_expires_at", leaseLeft, None)
     /\ txn' = [txn EXCEPT ![s] = NoTxn]

CompleteWrite(w) ==
  txn[w].op = "complete" /\ Flush(w) /\ UNCHANGED <<attempts, delayLeft>>

(* Mutant: the retry delay starts when the row is written. *)
FailWriteLateDelay(w) ==
  /\ \/ /\ txn[w].op = "bury"
        /\ delayLeft' = delayLeft
     \/ /\ txn[w].op = "retry"
        /\ delayLeft' = [delayLeft EXCEPT ![txn[w].job] = RetryDelay + txn[w].age]
  /\ Flush(w)
  /\ UNCHANGED attempts

FailWrite(w) ==
  /\ \/ /\ txn[w].op = "bury"
        /\ delayLeft' = delayLeft
     \/ /\ txn[w].op = "retry"
        /\ delayLeft' = [delayLeft EXCEPT ![txn[w].job] = Minus(RetryDelay, txn[w].age)]
  /\ Flush(w)
  /\ UNCHANGED attempts

CancelWrite(o) ==
  txn[o].op = "cancel" /\ Flush(o) /\ UNCHANGED <<attempts, delayLeft>>

(* the session ends before it commits: an error, or the process died *)
Rollback(s) ==
  /\ txn[s] # NoTxn
  /\ txn' = [txn EXCEPT ![s] = NoTxn]
  /\ UNCHANGED rowVars

(* One tick of the clock every session reads. *)
Tick ==
  /\ leaseLeft' = [j \in Jobs |-> IF leaseLeft[j] \in {None, 0} THEN leaseLeft[j]
                                  ELSE leaseLeft[j] - 1]
  /\ delayLeft' = [j \in Jobs |-> Minus(delayLeft[j], 1)]
  /\ txn' = [s \in Sessions |->
               IF txn[s] = NoTxn \/ txn[s].age = AgeCap THEN txn[s]
               ELSE [txn[s] EXCEPT !.age = @ + 1]]
  /\ UNCHANGED <<status, attempts, leasedBy>>

-----------------------------------------------------------------------------
WorkerStep(w) ==
  \/ \E j \in Jobs, lag \in 0..Lease : Claim(w, j, lag)
  \/ ClaimNothing(w)
  \/ \E j \in Jobs : HeartbeatRead(w, j) \/ CompleteRead(w, j) \/ FailRead(w, j)
  \/ HeartbeatWrite(w) \/ CompleteWrite(w) \/ FailWrite(w)

Next ==
  \/ \E j \in Jobs, delay \in 0..RetryDelay : Enqueue(j, delay)
  \/ \E w \in Workers : WorkerStep(w)
  \/ \E o \in Operators : CancelWrite(o) \/ \E j \in Jobs : CancelRead(o, j)
  \/ \E s \in Sessions : Rollback(s)
  \/ Tick

Spec == Init /\ [][Next]_queueVars

-----------------------------------------------------------------------------
TypeOK ==
  /\ status \in [Jobs -> Statuses]
  /\ attempts \in [Jobs -> Nat]
  /\ leasedBy \in [Jobs -> Workers \cup {None}]
  /\ leaseLeft \in [Jobs -> 0..Lease \cup {None}]
  /\ delayLeft \in [Jobs -> 0..RetryDelay]
  /\ txn \in [Sessions -> Txns \cup {NoTxn}]

(* A leased row always names its worker and has a deadline.  A leased row  *)
(* without one is lost: neither claimable_job_statement nor the sweep of   *)
(* exhausted leases selects it (a NULL deadline is never <= now), and no   *)
(* worker can settle it.  Every UPDATE of a transaction that read an older *)
(* row could break it, because it overwrites columns one by one.           *)
LeasedIsRecoverable ==
  \A j \in Jobs : status[j] = "leased" => leasedBy[j] # None /\ leaseLeft[j] # None

(* The attempt limit can be overshot, for a pending row is claimed         *)
(* whatever its attempt_count, and a fail that read the row before its     *)
(* last attempts puts it back.  Each such fail was decided at an attempt   *)
(* of its own below the limit, by a worker of its own that is not the one  *)
(* running the job, so the overshoot is bounded by both.                   *)
OvershootBounded ==
  \A j \in Jobs :
    /\ attempts[j] <= MaxAttempts + MaxAttempts - 1
    /\ attempts[j] <= MaxAttempts + Cardinality(Workers) - 1

(* A finished job is reopened or relabelled only by a transaction that     *)
(* was already open, having read the row before it was finished: without   *)
(* one, completed, failed and cancelled rows stay as they are.             *)
FinishedUnlessStale ==
  [][\A j \in Jobs :
       (status[j] \in Terminal /\ \A s \in Sessions : txn[s].job # j)
         => status'[j] = status[j]]_queueVars
=============================================================================
