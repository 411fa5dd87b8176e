--------------------------- MODULE JobQueueProofs ---------------------------
(***************************************************************************)
(* What holds of the job queue under every interleaving of its sessions,   *)
(* for every number of jobs, workers and operators: the table and the open *)
(* transactions stay well formed, and, when no session cancels, no stale   *)
(* write can leave a leased row without its owner or its deadline.         *)
(***************************************************************************)
EXTENDS JobQueue, FiniteSetTheorems, TLAPS

(* Subtraction that stops at zero stays within the bound of its minuend. *)
LEMMA MinusBound ==
  ASSUME NEW a \in Nat, NEW b \in Nat, NEW c \in Nat, a <= c
  PROVE  Minus(a, b) \in 0..c
BY DEF Minus

LEMMA AgeCapNat == AgeCap \in Nat /\ 0 \in 0..AgeCap
BY QueueAssumption DEF AgeCap

(* A new transaction record is one of Txns. *)
LEMMA OpenTypeOK ==
  ASSUME TypeOK, NEW s \in Sessions, NEW j \in Jobs, NEW dirty \in SUBSET Columns,
         NEW op \in {"heartbeat", "complete", "retry", "bury", "cancel"},
         Open(s, op, j, dirty)
  PROVE  TypeOK'
<1>1. [op |-> op, job |-> j, age |-> 0, dirty |-> dirty] \in Txns
  BY AgeCapNat DEF Txns
<1>2. txn' \in [Sessions -> Txns \cup {NoTxn}]
  BY <1>1 DEF Open, TypeOK
<1> QED
  BY <1>2 DEF Open, TypeOK, rowVars

LEMMA DirtyType ==
  ASSUME NEW j, NEW target
  PROVE  Dirty(j, target) \in SUBSET Columns
BY DEF Dirty

(* The UPDATE of a settling transaction keeps the row well formed. *)
LEMMA FlushTypeOK ==
  ASSUME TypeOK, NEW s \in Sessions, Flush(s),
         txn[s].op \in {"complete", "retry", "bury", "cancel"}
  PROVE  /\ status' \in [Jobs -> Statuses]
         /\ leasedBy' \in [Jobs -> Workers \cup {None}]
         /\ leaseLeft' \in [Jobs -> 0..Lease \cup {None}]
         /\ txn' \in [Sessions -> Txns \cup {NoTxn}]
<1> DEFINE j == txn[s].job
<1>1. Target(txn[s].op) \in Statuses
  BY DEF Target, Statuses, Terminal
<1>2. status' \in [Jobs -> Statuses]
  BY <1>1 DEF Flush, TypeOK
<1>3. leasedBy' \in [Jobs -> Workers \cup {None}]
  BY DEF Flush, TypeOK
<1>4. leaseLeft' \in [Jobs -> 0..Lease \cup {None}]
  BY DEF Flush, TypeOK
<1>5. txn' \in [Sessions -> Txns \cup {NoTxn}]
  BY DEF Flush, TypeOK
<1> QED
  BY <1>2, <1>3, <1>4, <1>5

-----------------------------------------------------------------------------
LEMMA InitTypeOK == Init => TypeOK
BY QueueAssumption DEF Init, TypeOK, Statuses, Terminal

LEMMA EnqueueTypeOK ==
  ASSUME TypeOK, NEW j \in Jobs, NEW delay \in 0..RetryDelay, Enqueue(j, delay)
  PROVE  TypeOK'
BY DEF Enqueue, TypeOK, Statuses

LEMMA ClaimTypeOK ==
  ASSUME TypeOK, NEW w \in Workers, NEW j \in Jobs, NEW lag \in Nat, Claim(w, j, lag)
  PROVE  TypeOK'
<1>1. Minus(Lease, lag) \in 0..Lease
  BY MinusBound, QueueAssumption
<1>2. status' \in [Jobs -> Statuses]
  BY DEF Claim, TypeOK, Statuses, Terminal
<1>3. attempts' \in [Jobs -> Nat]
  BY DEF Claim, TypeOK
<1>4. leasedBy' \in [Jobs -> Workers \cup {None}]
  BY DEF Claim, TypeOK
<1>5. leaseLeft' \in [Jobs -> 0..Lease \cup {None}]
  BY <1>1 DEF Claim, TypeOK
<1> QED
  BY <1>2, <1>3, <1>4, <1>5 DEF Claim, TypeOK

LEMMA ClaimNothingTypeOK ==
  ASSUME TypeOK, NEW w \in Workers, ClaimNothing(w)
  PROVE  TypeOK'
<1>1. status' \in [Jobs -> Statuses]
  BY DEF ClaimNothing, TypeOK, Statuses, Terminal
<1>2. leasedBy' \in [Jobs -> Workers \cup {None}]
  BY DEF ClaimNothing, TypeOK
<1>3. leaseLeft' \in [Jobs -> 0..Lease \cup {None}]
  BY DEF ClaimNothing, TypeOK
<1> QED
  BY <1>1, <1>2, <1>3 DEF ClaimNothing, TypeOK

LEMMA ReadTypeOK ==
  ASSUME TypeOK, NEW s \in Sessions, NEW j \in Jobs,
         HeartbeatRead(s, j) \/ CompleteRead(s, j) \/ FailRead(s, j) \/ CancelRead(s, j)
  PROVE  TypeOK'
<1>1. CASE HeartbeatRead(s, j)
  <2>1. {"lease_expires_at"} \in SUBSET Columns
    BY DEF Columns
  <2> QED
    BY <1>1, <2>1, OpenTypeOK DEF HeartbeatRead
<1>2. CASE CompleteRead(s, j)
  BY <1>2, OpenTypeOK, DirtyType DEF CompleteRead
<1>3. CASE FailRead(s, j)
  BY <1>3, OpenTypeOK, DirtyType DEF FailRead
<1>4. CASE CancelRead(s, j)
  BY <1>4, OpenTypeOK, DirtyType DEF CancelRead
<1> QED
  BY <1>1, <1>2, <1>3, <1>4

(* A write only happens in an open transaction, which is a record of Txns. *)
LEMMA OpenIsTxn ==
  ASSUME TypeOK, NEW s \in Sessions, txn[s].op # "none"
  PROVE  txn[s] \in Txns /\ txn[s].job \in Jobs /\ txn[s].age \in Nat
<1>1. txn[s] \in Txns
  BY DEF TypeOK, NoTxn
<1>2. txn[s].age \in 0..AgeCap /\ txn[s].job \in Jobs
  BY <1>1 DEF Txns
<1> QED
  BY <1>1, <1>2, AgeCapNat

LEMMA WriteTypeOK ==
  ASSUME TypeOK, NEW s \in Sessions,
         HeartbeatWrite(s) \/ CompleteWrite(s) \/ FailWrite(s) \/ CancelWrite(s)
  PROVE  TypeOK'
<1>1. CASE HeartbeatWrite(s)
  <2>1. txn[s].age \in Nat
    BY <1>1, OpenIsTxn DEF HeartbeatWrite
  <2>2. Minus(Lease, txn[s].age) \in 0..Lease
    BY <2>1, QueueAssumption DEF Minus
  <2>3. leaseLeft' \in [Jobs -> 0..Lease \cup {None}]
    BY <1>1, <2>2 DEF HeartbeatWrite, TypeOK
  <2>4. txn' \in [Sessions -> Txns \cup {NoTxn}]
    BY <1>1 DEF HeartbeatWrite, TypeOK
  <2> QED
    BY <1>1, <2>3, <2>4 DEF HeartbeatWrite, TypeOK
<1>2. CASE CompleteWrite(s)
  BY <1>2, FlushTypeOK DEF CompleteWrite, TypeOK
<1>3. CASE FailWrite(s)
  <2>1. txn[s].age \in Nat
    BY <1>3, OpenIsTxn DEF FailWrite
  <2>2. Minus(RetryDelay, txn[s].age) \in 0..RetryDelay
    BY <2>1, MinusBound, QueueAssumption
  <2>3. delayLeft' \in [Jobs -> 0..RetryDelay]
    BY <1>3, <2>2 DEF FailWrite, TypeOK
  <2> QED
    BY <1>3, <2>3, FlushTypeOK DEF FailWrite, TypeOK
<1>4. CASE CancelWrite(s)
  BY <1>4, FlushTypeOK DEF CancelWrite, TypeOK
<1> QED
  BY <1>1, <1>2, <1>3, <1>4

LEMMA RollbackTypeOK ==
  ASSUME TypeOK, NEW s \in Sessions, Rollback(s)
  PROVE  TypeOK'
BY DEF Rollback, TypeOK, rowVars

LEMMA TickTypeOK ==
  ASSUME TypeOK, Tick
  PROVE  TypeOK'
<1>1. leaseLeft' \in [Jobs -> 0..Lease \cup {None}]
  <2> SUFFICES ASSUME NEW j \in Jobs
               PROVE  leaseLeft'[j] \in 0..Lease \cup {None}
    BY DEF Tick
  <2>1. CASE leaseLeft[j] \in {None, 0}
    BY <2>1 DEF Tick, TypeOK
  <2>2. CASE leaseLeft[j] \notin {None, 0}
    <3>1. leaseLeft[j] \in 0..Lease /\ leaseLeft[j] # 0
      BY <2>2 DEF TypeOK
    <3> QED
      BY <2>2, <3>1, QueueAssumption DEF Tick
  <2> QED
    BY <2>1, <2>2
<1>2. delayLeft' \in [Jobs -> 0..RetryDelay]
  <2> SUFFICES ASSUME NEW j \in Jobs
               PROVE  Minus(delayLeft[j], 1) \in 0..RetryDelay
    BY DEF Tick
  <2> QED
    BY MinusBound, QueueAssumption DEF TypeOK
<1>3. txn' \in [Sessions -> Txns \cup {NoTxn}]
  <2> SUFFICES ASSUME NEW s \in Sessions
               PROVE  txn'[s] \in Txns \cup {NoTxn}
    BY DEF Tick
  <2>1. CASE txn[s] = NoTxn \/ txn[s].age = AgeCap
    BY <2>1 DEF Tick, TypeOK
  <2>2. CASE ~(txn[s] = NoTxn \/ txn[s].age = AgeCap)
    <3>1. txn[s] \in Txns
      BY <2>2 DEF TypeOK
    <3>2. txn[s].age \in 0..AgeCap /\ txn[s].age # AgeCap
      BY <3>1, <2>2 DEF Txns
    <3>3. txn[s].age + 1 \in 0..AgeCap
      BY <3>2, AgeCapNat
    <3>4. [txn[s] EXCEPT !.age = @ + 1] \in Txns
      BY <3>1, <3>3 DEF Txns
    <3> QED
      BY <2>2, <3>4 DEF Tick
  <2> QED
    BY <2>1, <2>2
<1> QED
  BY <1>1, <1>2, <1>3 DEF Tick, TypeOK

LEMMA NextTypeOK == TypeOK /\ [Next]_queueVars => TypeOK'
<1> SUFFICES ASSUME TypeOK, [Next]_queueVars
             PROVE  TypeOK'
  OBVIOUS
<1> USE DEF Sessions
<1>1. CASE \E j \in Jobs, delay \in 0..RetryDelay : Enqueue(j, delay)
  BY <1>1, EnqueueTypeOK
<1>2. ASSUME NEW w \in Workers, WorkerStep(w)
      PROVE  TypeOK'
  <2>1. CASE \E j \in Jobs, lag \in 0..Lease : Claim(w, j, lag)
    BY <2>1, ClaimTypeOK
  <2>2. CASE ClaimNothing(w)
    BY <2>2, ClaimNothingTypeOK
  <2>3. CASE \E j \in Jobs : HeartbeatRead(w, j) \/ CompleteRead(w, j) \/ FailRead(w, j)
    BY <2>3, ReadTypeOK
  <2>4. CASE HeartbeatWrite(w) \/ CompleteWrite(w) \/ FailWrite(w)
    BY <2>4, WriteTypeOK
  <2> QED
    BY <1>2, <2>1, <2>2, <2>3, <2>4 DEF WorkerStep
<1>3. CASE \E o \in Operators : CancelWrite(o) \/ \E j \in Jobs : CancelRead(o, j)
  BY <1>3, WriteTypeOK, ReadTypeOK
<1>4. CASE \E s \in Sessions : Rollback(s)
  BY <1>4, RollbackTypeOK
<1>5. CASE Tick
  BY <1>5, TickTypeOK
<1>6. CASE UNCHANGED queueVars
  BY <1>6 DEF queueVars, TypeOK
<1> QED
  BY <1>1, <1>2, <1>3, <1>4, <1>5, <1>6 DEF Next

(* The table and the transactions are well formed in every reachable       *)
(* state of the queue (job_queue.py, JobRow).                              *)
THEOREM QueueTypeCorrect == Spec => []TypeOK
BY InitTypeOK, NextTypeOK, PTL DEF Spec

-----------------------------------------------------------------------------
(* The invariant behind LeasedIsRecoverable: a transaction that settles a  *)
(* row read it LEASED, so its UPDATE writes the status along with the      *)
(* owner and the deadline it clears.                                       *)
SettlesStatus ==
  \A s \in Sessions :
    /\ txn[s].op # "cancel"
    /\ txn[s].op \in {"complete", "retry", "bury"} => "status" \in txn[s].dirty

RecoverableInv == TypeOK /\ LeasedIsRecoverable /\ SettlesStatus

LEMMA InitRecoverable == Init => RecoverableInv
BY InitTypeOK DEF Init, RecoverableInv, LeasedIsRecoverable, SettlesStatus, NoTxn

LEMMA ReadRecoverable ==
  ASSUME RecoverableInv, NEW w \in Workers, NEW j \in Jobs,
         HeartbeatRead(w, j) \/ CompleteRead(w, j) \/ FailRead(w, j)
  PROVE  RecoverableInv'
<1> USE DEF Sessions
<1>1. TypeOK'
  BY ReadTypeOK DEF RecoverableInv
<1>2. status' = status /\ leasedBy' = leasedBy /\ leaseLeft' = leaseLeft
  BY DEF HeartbeatRead, CompleteRead, FailRead, Open, rowVars
<1>3. LeasedIsRecoverable'
  BY <1>2 DEF RecoverableInv, LeasedIsRecoverable
<1>4. status[j] = "leased"
  BY DEF HeartbeatRead, CompleteRead, FailRead, Owns
<1>5. \A target \in {"completed", "pending", "failed"} : "status" \in Dirty(j, target)
  BY <1>4 DEF Dirty, Columns
<1>6. \E op \in {"heartbeat", "complete", "retry", "bury"}, dirty \in SUBSET Columns :
        /\ txn' = [txn EXCEPT ![w] = [op |-> op, job |-> j, age |-> 0, dirty |-> dirty]]
        /\ op # "heartbeat" => "status" \in dirty
  <2>1. CASE HeartbeatRead(w, j)
    BY <2>1 DEF HeartbeatRead, Open, Columns
  <2>2. CASE CompleteRead(w, j)
    BY <2>2, <1>5, DirtyType DEF CompleteRead, Open
  <2>3. CASE FailRead(w, j)
    BY <2>3, <1>5, DirtyType DEF FailRead, Open
  <2> QED
    BY <2>1, <2>2, <2>3
<1>7. SettlesStatus'
  BY <1>6 DEF RecoverableInv, SettlesStatus, TypeOK
<1> QED
  BY <1>1, <1>3, <1>7 DEF RecoverableInv

LEMMA WriteRecoverable ==
  ASSUME RecoverableInv, NEW w \in Workers,
         HeartbeatWrite(w) \/ CompleteWrite(w) \/ FailWrite(w)
  PROVE  RecoverableInv'
<1> USE DEF Sessions
<1>1. TypeOK'
  BY WriteTypeOK DEF RecoverableInv
<1>2. txn[w] \in Txns /\ txn[w].job \in Jobs
  BY OpenIsTxn DEF RecoverableInv, HeartbeatWrite, CompleteWrite, FailWrite
<1>3. SettlesStatus'
  <2>1. txn' = [txn EXCEPT ![w] = NoTxn]
    BY DEF HeartbeatWrite, CompleteWrite, FailWrite, Flush
  <2> QED
    BY <2>1 DEF RecoverableInv, SettlesStatus, TypeOK, NoTxn
<1>4. LeasedIsRecoverable'
  <2>1. CASE HeartbeatWrite(w)
    <3>1. Minus(Lease, txn[w].age) # None
      BY <1>2, MinusBound, QueueAssumption, OpenIsTxn, <2>1 DEF HeartbeatWrite, RecoverableInv
    <3> QED
      BY <2>1, <3>1 DEF HeartbeatWrite, RecoverableInv, LeasedIsRecoverable, TypeOK
  <2>2. CASE CompleteWrite(w) \/ FailWrite(w)
    <3>1. Flush(w) /\ txn[w].op \in {"complete", "retry", "bury"}
      BY <2>2 DEF CompleteWrite, FailWrite
    <3>2. "status" \in txn[w].dirty /\ Target(txn[w].op) # "leased"
      BY <3>1 DEF RecoverableInv, SettlesStatus, Target
    <3>3. status' = [status EXCEPT ![txn[w].job] = Target(txn[w].op)]
      BY <3>1, <3>2 DEF Flush
    <3>4. \A j \in Jobs : j # txn[w].job => leasedBy'[j] = leasedBy[j] /\ leaseLeft'[j] = leaseLeft[j]
      BY <3>1 DEF Flush, RecoverableInv, TypeOK
    <3> QED
      BY <3>2, <3>3, <3>4, <1>2 DEF RecoverableInv, LeasedIsRecoverable, TypeOK
  <2> QED
    BY <2>1, <2>2
<1> QED
  BY <1>1, <1>3, <1>4 DEF RecoverableInv

LEMMA ClaimRecoverable ==
  ASSUME RecoverableInv, NEW w \in Workers,
         ClaimNothing(w) \/ \E j \in Jobs, lag \in Nat : Claim(w, j, lag)
  PROVE  RecoverableInv'
<1>1. CASE ClaimNothing(w)
  <2>1. TypeOK'
    BY <1>1, ClaimNothingTypeOK DEF RecoverableInv
  <2>2. LeasedIsRecoverable'
    BY <1>1 DEF ClaimNothing, RecoverableInv, LeasedIsRecoverable, TypeOK
  <2> QED
    BY <1>1, <2>1, <2>2 DEF ClaimNothing, RecoverableInv, SettlesStatus
<1>2. ASSUME NEW j \in Jobs, NEW lag \in Nat, Claim(w, j, lag)
      PROVE  RecoverableInv'
  <2>1. TypeOK'
    BY <1>2, ClaimTypeOK DEF RecoverableInv
  <2>2. Minus(Lease, lag) # None
    BY MinusBound, QueueAssumption
  <2>3. LeasedIsRecoverable'
    BY <1>2, <2>2, QueueAssumption DEF Claim, RecoverableInv, LeasedIsRecoverable, TypeOK
  <2> QED
    BY <1>2, <2>1, <2>3 DEF Claim, RecoverableInv, SettlesStatus
<1> QED
  BY <1>1, <1>2

LEMMA TickRecoverable ==
  ASSUME RecoverableInv, Tick
  PROVE  RecoverableInv'
<1>1. TypeOK'
  BY TickTypeOK DEF RecoverableInv
<1>2. LeasedIsRecoverable'
  <2> SUFFICES ASSUME NEW j \in Jobs, leaseLeft[j] # None
               PROVE  leaseLeft'[j] # None
    BY DEF Tick, RecoverableInv, LeasedIsRecoverable
  <2>1. leaseLeft[j] \in Nat
    BY QueueAssumption DEF RecoverableInv, TypeOK
  <2>2. leaseLeft'[j] \in Nat
    BY <2>1 DEF Tick
  <2> QED
    BY <2>2, QueueAssumption
<1>3. \A s \in Sessions : txn'[s].op = txn[s].op /\ txn'[s].dirty = txn[s].dirty
  <2> SUFFICES ASSUME NEW s \in Sessions
               PROVE  txn'[s].op = txn[s].op /\ txn'[s].dirty = txn[s].dirty
    OBVIOUS
  <2>1. CASE txn[s] = NoTxn
    BY <2>1 DEF Tick
  <2>2. CASE txn[s] # NoTxn
    <3>1. txn[s] \in Txns
      BY <2>2 DEF RecoverableInv, TypeOK
    <3> QED
      BY <3>1 DEF Tick, Txns
  <2> QED
    BY <2>1, <2>2
<1>4. SettlesStatus'
  BY <1>3 DEF RecoverableInv, SettlesStatus
<1> QED
  BY <1>1, <1>2, <1>4 DEF RecoverableInv

LEMMA NextRecoverable ==
  ASSUME Operators = {}
  PROVE  RecoverableInv /\ [Next]_queueVars => RecoverableInv'
<1> SUFFICES ASSUME RecoverableInv, [Next]_queueVars
             PROVE  RecoverableInv'
  OBVIOUS
<1>1. CASE \E j \in Jobs, delay \in 0..RetryDelay : Enqueue(j, delay)
  BY <1>1, EnqueueTypeOK
  DEF Enqueue, RecoverableInv, LeasedIsRecoverable, SettlesStatus, TypeOK
<1>2. ASSUME NEW w \in Workers, WorkerStep(w)
      PROVE  RecoverableInv'
  BY <1>2, ClaimRecoverable, ReadRecoverable, WriteRecoverable, QueueAssumption DEF WorkerStep
<1>3. CASE \E s \in Sessions : Rollback(s)
  BY <1>3, RollbackTypeOK
  DEF Rollback, RecoverableInv, LeasedIsRecoverable, SettlesStatus, TypeOK, NoTxn, rowVars
<1>4. CASE Tick
  BY <1>4, TickRecoverable
<1>5. CASE UNCHANGED queueVars
  BY <1>5 DEF queueVars, RecoverableInv, LeasedIsRecoverable, SettlesStatus, TypeOK
<1> QED
  BY <1>1, <1>2, <1>3, <1>4, <1>5 DEF Next

(* As long as nothing cancels jobs, which no caller in the program does,   *)
(* every leased job keeps its owner and its deadline, whatever stale       *)
(* heartbeat, complete or fail is written over it.                         *)
THEOREM LeasedJobsRecoverable ==
  ASSUME Operators = {}
  PROVE  Spec => []LeasedIsRecoverable
<1>1. RecoverableInv => LeasedIsRecoverable
  BY DEF RecoverableInv
<1> QED
  BY <1>1, InitRecoverable, NextRecoverable, PTL DEF Spec

-----------------------------------------------------------------------------
(* Only an Enqueue touches an absent row and only a claim's sweep a leased *)
(* one without naming it, so a finished row changes under no step but a    *)
(* Flush of a transaction that names it.                                   *)
LEMMA UntouchedStep ==
  ASSUME TypeOK, [Next]_queueVars, NEW j \in Jobs,
         status[j] \in Terminal, \A s \in Sessions : txn[s].job # j
  PROVE  status'[j] = status[j]
<1>1. ASSUME NEW s \in Sessions, Flush(s)
      PROVE  status'[j] = status[j]
  BY <1>1 DEF Flush, TypeOK
<1>2. CASE \E i \in Jobs, delay \in 0..RetryDelay : Enqueue(i, delay)
  BY <1>2 DEF Enqueue, Terminal, TypeOK
<1>3. ASSUME NEW w \in Workers, WorkerStep(w)
      PROVE  status'[j] = status[j]
  <2>1. CASE \E i \in Jobs, lag \in 0..Lease : Claim(w, i, lag)
    BY <2>1 DEF Claim, Claimable, Exhausted, Terminal, TypeOK
  <2>2. CASE ClaimNothing(w)
    BY <2>2 DEF ClaimNothing, Exhausted, Terminal, TypeOK
  <2>3. CASE \E i \in Jobs : HeartbeatRead(w, i) \/ CompleteRead(w, i) \/ FailRead(w, i)
    BY <2>3 DEF HeartbeatRead, CompleteRead, FailRead, Open, rowVars
  <2>4. CASE HeartbeatWrite(w) \/ CompleteWrite(w) \/ FailWrite(w)
    BY <2>4, <1>1 DEF HeartbeatWrite, CompleteWrite, FailWrite, Sessions
  <2> QED
    BY <1>3, <2>1, <2>2, <2>3, <2>4 DEF WorkerStep
<1>4. CASE \E o \in Operators : CancelWrite(o) \/ \E i \in Jobs : CancelRead(o, i)
  BY <1>4, <1>1 DEF CancelWrite, CancelRead, Open, rowVars, Sessions
<1>5. CASE \E s \in Sessions : Rollback(s)
  BY <1>5 DEF Rollback, rowVars
<1>6. CASE Tick
  BY <1>6 DEF Tick
<1>7. CASE UNCHANGED queueVars
  BY <1>7 DEF queueVars
<1> QED
  BY <1>2, <1>3, <1>4, <1>5, <1>6, <1>7 DEF Next

(* A completed, failed or cancelled row is never reopened or relabelled    *)
(* except by a transaction that was open on it: only an UPDATE by primary  *)
(* key of complete, fail or cancel can do it (job_queue.py).               *)
THEOREM FinishedStaysFinished == Spec => FinishedUnlessStale
<1>1. TypeOK /\ [Next]_queueVars =>
        [\A j \in Jobs :
           (status[j] \in Terminal /\ \A s \in Sessions : txn[s].job # j)
             => status'[j] = status[j]]_queueVars
  BY UntouchedStep
<1> QED
  BY <1>1, QueueTypeCorrect, PTL DEF Spec, FinishedUnlessStale

-----------------------------------------------------------------------------
(* The invariant behind OvershootBounded counts the open transactions that *)
(* will put a row back to pending.  Each was decided by a worker of its    *)
(* own, at an attempt of its own that was below the limit: as long as the  *)
(* row is below the limit they are no more than its attempts, and fewer    *)
(* while its owner has none of them open.  From the limit on every further *)
(* attempt is paid for: it takes a pending row, which only one of these    *)
(* transactions can provide, and none is added.                            *)
Retries(j) == {w \in Workers : txn[w].op = "retry" /\ txn[w].job = j}
Ready(j) == IF status[j] = "pending" THEN 1 ELSE 0
Spent(j) == attempts[j] + Cardinality(Retries(j)) + Ready(j)

WithinBudget(j) ==
  /\ status[j] = "absent" => attempts[j] = 0
  /\ attempts[j] < MaxAttempts =>
       /\ Cardinality(Retries(j)) <= attempts[j]
       /\ \A w \in Workers \ Retries(j) :
            Owns(w, j) => Cardinality(Retries(j)) < attempts[j]
  /\ attempts[j] >= MaxAttempts =>
       /\ Spent(j) <= MaxAttempts + MaxAttempts - 1
       /\ Spent(j) <= MaxAttempts + Cardinality(Workers) - 1

AttemptsInv == TypeOK /\ \A j \in Jobs : WithinBudget(j)

(* How many members a set of workers has, and with one more or one less. *)
LEMMA CrewSize ==
  ASSUME IsFiniteSet(Workers), NEW S \in SUBSET Workers
  PROVE  /\ Cardinality(Workers) \in Nat
         /\ Cardinality(S) \in Nat
         /\ \A w \in Workers \ S : /\ Cardinality(S) <= Cardinality(Workers) - 1
                                  /\ Cardinality(S \cup {w}) = Cardinality(S) + 1
         /\ \A w \in S : Cardinality(S \ {w}) = Cardinality(S) - 1
<1>1. IsFiniteSet(S) /\ Cardinality(Workers) \in Nat /\ Cardinality(S) \in Nat
  BY FS_Subset, FS_CardinalityType
<1>2. ASSUME NEW w \in Workers \ S
      PROVE  /\ Cardinality(S) <= Cardinality(Workers) - 1
             /\ Cardinality(S \cup {w}) = Cardinality(S) + 1
  <2>1. Cardinality(S \cup {w}) = Cardinality(S) + 1
    BY <1>1, FS_AddElement
  <2>2. Cardinality(S \cup {w}) <= Cardinality(Workers)
    BY FS_Subset
  <2> QED
    BY <1>1, <2>1, <2>2
<1>3. ASSUME NEW w \in S
      PROVE  Cardinality(S \ {w}) = Cardinality(S) - 1
  BY <1>1, FS_RemoveElement
<1> QED
  BY <1>1, <1>2, <1>3

(* A session that ends its transaction leaves the retries of a row. *)
LEMMA EndOfTxn ==
  ASSUME TypeOK, NEW s \in Sessions, txn' = [txn EXCEPT ![s] = NoTxn], NEW j
  PROVE  Retries(j)' = Retries(j) \ {s}
BY DEF TypeOK, Retries, NoTxn, Sessions

(* A step that adds no attempt and no owner, opens no retry and makes the  *)
(* row ready only by closing one keeps it within its budget.               *)
LEMMA NothingAdded ==
  ASSUME IsFiniteSet(Workers), AttemptsInv, NEW j \in Jobs, NEW s,
         attempts' = attempts,
         status'[j] = "absent" => status[j] = "absent",
         \A w \in Workers : Owns(w, j)' => Owns(w, j),
         Retries(j)' = Retries(j) \ {s},
         s \notin Retries(j) /\ status'[j] = "pending" => status[j] = "pending"
  PROVE  WithinBudget(j)'
<1> DEFINE R == Retries(j)
           card == Cardinality(R)
           crew == Cardinality(Workers)
<1>1. attempts[j] \in Nat /\ MaxAttempts \in Nat /\ R \in SUBSET Workers /\ WithinBudget(j)
  BY QueueAssumption DEF AttemptsInv, TypeOK, Retries
<1>2. card \in Nat /\ crew \in Nat
  BY <1>1, CrewSize
<1>3. CASE s \notin R
  <2>1. Retries(j)' = R
    BY <1>3
  <2>2. Cardinality(Retries(j)') = card
    BY <2>1
  <2>3. Ready(j) \in {0, 1} /\ Ready(j)' \in {0, 1} /\ Ready(j)' <= Ready(j)
    BY <1>3 DEF Ready
  <2>4. Spent(j) = card + attempts[j] + Ready(j) /\ Spent(j)' = card + attempts[j] + Ready(j)'
    BY <1>1, <1>2, <2>2, <2>3 DEF Spent
  <2>5. Spent(j) \in Nat /\ Spent(j)' \in Nat /\ Spent(j)' <= Spent(j)
    BY <1>1, <1>2, <2>3, <2>4
  <2>6. status'[j] = "absent" => attempts'[j] = 0
    BY <1>1 DEF WithinBudget
  <2>7. attempts'[j] < MaxAttempts =>
          /\ Cardinality(Retries(j)') <= attempts'[j]
          /\ \A w \in Workers \ Retries(j)' :
               Owns(w, j)' => Cardinality(Retries(j)') < attempts'[j]
    BY <1>1, <2>1, <2>2 DEF WithinBudget
  <2>8. attempts'[j] >= MaxAttempts =>
          /\ Spent(j)' <= MaxAttempts + MaxAttempts - 1
          /\ Spent(j)' <= MaxAttempts + crew - 1
    BY <1>1, <1>2, <2>5 DEF WithinBudget
  <2> QED
    BY <2>6, <2>7, <2>8 DEF WithinBudget
<1>4. CASE s \in R
  <2>1. Retries(j)' = R \ {s} /\ Cardinality(Retries(j)') = card - 1
    BY <1>1, <1>4, CrewSize
  <2>2. Ready(j) \in {0, 1} /\ Ready(j)' \in {0, 1}
    BY DEF Ready
  <2>3. Spent(j) = card + attempts[j] + Ready(j) /\ Spent(j)' = card - 1 + attempts[j] + Ready(j)'
    BY <1>1, <1>2, <2>1, <2>2 DEF Spent
  <2>4. Spent(j) \in Nat /\ Spent(j)' \in Int /\ Spent(j)' <= Spent(j)
    BY <1>1, <1>2, <2>2, <2>3
  <2>5. attempts[j] < MaxAttempts => card - 1 < attempts[j]
    BY <1>1, <1>2 DEF WithinBudget
  <2> QED
    BY <1>1, <1>2, <2>1, <2>4, <2>5 DEF WithinBudget
<1> QED
  BY <1>3, <1>4

LEMMA InitAttempts == ASSUME IsFiniteSet(Workers) PROVE Init => AttemptsInv
<1> SUFFICES ASSUME Init, NEW j \in Jobs
             PROVE  WithinBudget(j)
  BY InitTypeOK DEF AttemptsInv
<1>1. Retries(j) = {}
  BY DEF Init, Retries, NoTxn, Sessions
<1>2. status[j] = "absent" /\ attempts[j] = 0 /\ Cardinality(Retries(j)) = 0
  BY <1>1, FS_EmptySet DEF Init
<1> QED
  BY <1>2, QueueAssumption DEF WithinBudget, Owns

(* Steps that leave the open retries as they are and make no row ready. *)
LEMMA RetriesKept ==
  ASSUME IsFiniteSet(Workers), AttemptsInv, NEW j \in Jobs,
         attempts' = attempts, Retries(j)' = Retries(j),
         status'[j] \in {"absent", "pending"} => status[j] = status'[j],
         \A w \in Workers : Owns(w, j)' => Owns(w, j)
  PROVE  WithinBudget(j)'
<1>1. None \notin Retries(j)
  BY QueueAssumption DEF Retries
<1>2. Retries(j)' = Retries(j) \ {None}
  BY <1>1
<1> QED
  BY <1>1, <1>2, NothingAdded

LEMMA EnqueueAttempts ==
  ASSUME IsFiniteSet(Workers), AttemptsInv, NEW i \in Jobs, NEW delay \in 0..RetryDelay,
         Enqueue(i, delay), NEW j \in Jobs
  PROVE  WithinBudget(j)'
<1>1. Retries(j)' = Retries(j) /\ attempts' = attempts
  BY DEF Enqueue, Retries
<1>2. CASE j # i
  <2>1. status'[j] = status[j] /\ leasedBy' = leasedBy
    BY <1>2 DEF Enqueue, AttemptsInv, TypeOK
  <2> QED
    BY <1>1, <2>1, RetriesKept DEF Owns
<1>3. CASE j = i
  <2>1. attempts[j] = 0 /\ WithinBudget(j) /\ status'[j] = "pending"
    BY <1>3 DEF Enqueue, AttemptsInv, WithinBudget, TypeOK
  <2>2. Cardinality(Retries(j)) <= 0
    BY <2>1, QueueAssumption DEF WithinBudget
  <2> QED
    BY <1>1, <2>1, <2>2, QueueAssumption DEF WithinBudget, Owns
<1> QED
  BY <1>2, <1>3

(* The claim itself.  Its worker has no transaction open, so it is none of *)
(* the workers with a retry, which leaves room for one more attempt.       *)
LEMMA ClaimAttempts ==
  ASSUME IsFiniteSet(Workers), AttemptsInv, NEW w \in Workers, NEW i \in Jobs, NEW lag \in Nat,
         Claim(w, i, lag), NEW j \in Jobs
  PROVE  WithinBudget(j)'
<1> DEFINE card == Cardinality(Retries(j))
           crew == Cardinality(Workers)
<1>1. Retries(j)' = Retries(j)
  BY DEF Claim, Retries
<1>2. CASE j # i
  <2>1. attempts'[j] = attempts[j] /\ status'[j] \in {"failed", status[j]}
    BY <1>2 DEF Claim, AttemptsInv, TypeOK
  <2>2. \A v \in Workers : Owns(v, j)' => Owns(v, j)
    BY <1>2, QueueAssumption DEF Claim, AttemptsInv, TypeOK, Owns
  <2>3. attempts[j] \in Nat /\ MaxAttempts \in Nat /\ card \in Nat /\ crew \in Nat
    BY QueueAssumption, CrewSize DEF AttemptsInv, TypeOK, Retries
  <2>4. Ready(j) \in {0, 1} /\ Ready(j)' \in {0, 1} /\ Ready(j)' <= Ready(j)
    BY <2>1 DEF Ready
  <2>5. Spent(j) \in Nat /\ Spent(j)' \in Nat /\ Spent(j)' <= Spent(j)
    BY <1>1, <2>1, <2>3, <2>4 DEF Spent
  <2> QED
    BY <1>1, <2>1, <2>2, <2>3, <2>5 DEF AttemptsInv, WithinBudget
<1>3. CASE j = i
  <2>1. /\ attempts'[j] = attempts[j] + 1
        /\ status'[j] = "leased"
        /\ status[j] = "pending" \/ attempts[j] < MaxAttempts
    BY <1>3 DEF Claim, Claimable, AttemptsInv, TypeOK
  <2>2. attempts[j] \in Nat /\ MaxAttempts \in Nat \ {0} /\ card \in Nat /\ crew \in Nat
    BY QueueAssumption, CrewSize DEF AttemptsInv, TypeOK, Retries
  <2>3. w \in Workers \ Retries(j)
    BY DEF Claim, Retries, NoTxn
  <2>4. card <= crew - 1
    BY <2>3, CrewSize DEF Retries
  <2>5. WithinBudget(j)
    BY DEF AttemptsInv
  <2>6. Spent(j)' = attempts[j] + 1 + card
    BY <1>1, <2>1, <2>2 DEF Spent, Ready
  <2>7. CASE attempts[j] < MaxAttempts
    <3>1. card <= attempts[j]
      BY <2>5, <2>7 DEF WithinBudget
    <3> QED
      BY <1>1, <2>1, <2>2, <2>4, <2>6, <2>7, <3>1 DEF WithinBudget
  <2>8. CASE attempts[j] >= MaxAttempts
    <3>1. Spent(j) = attempts[j] + card + 1
      BY <2>1, <2>2, <2>8 DEF Spent, Ready
    <3> QED
      BY <1>1, <2>1, <2>2, <2>5, <2>6, <2>8, <3>1 DEF WithinBudget
  <2> QED
    BY <2>2, <2>7, <2>8
<1> QED
  BY <1>2, <1>3

LEMMA SweepAttempts ==
  ASSUME IsFiniteSet(Workers), AttemptsInv, NEW w \in Workers, ClaimNothing(w), NEW j \in Jobs
  PROVE  WithinBudget(j)'
<1>1. attempts' = attempts /\ Retries(j)' = Retries(j)
  BY DEF ClaimNothing, Retries
<1>2. status'[j] \in {"failed", status[j]}
  BY DEF ClaimNothing
<1>3. \A v \in Workers : Owns(v, j)' => Owns(v, j)
  BY QueueAssumption DEF ClaimNothing, Owns
<1> QED
  BY <1>1, <1>2, <1>3, RetriesKept

(* A transaction that only reads: a fail below the limit opens one retry,  *)
(* for which there is room while the owner has none open.                  *)
LEMMA ReadAttempts ==
  ASSUME IsFiniteSet(Workers), AttemptsInv, NEW s \in Sessions, NEW i \in Jobs,
         \/ s \in Workers /\ (HeartbeatRead(s, i) \/ CompleteRead(s, i) \/ FailRead(s, i))
         \/ CancelRead(s, i),
         NEW j \in Jobs
  PROVE  WithinBudget(j)'
<1>1. status' = status /\ attempts' = attempts /\ leasedBy' = leasedBy /\ txn[s] = NoTxn
  BY DEF HeartbeatRead, CompleteRead, FailRead, CancelRead, Open, rowVars
<1>2. s \notin Retries(j)
  BY <1>1 DEF Retries, NoTxn
<1>3. CASE txn'[s].op # "retry" \/ txn'[s].job # j
  <2>1. \A v \in Sessions : v # s => txn'[v] = txn[v]
    BY DEF HeartbeatRead, CompleteRead, FailRead, CancelRead, Open, AttemptsInv, TypeOK
  <2>2. Retries(j)' = Retries(j)
    BY <1>2, <1>3, <2>1 DEF Retries, Sessions
  <2> QED
    BY <1>1, <2>2, RetriesKept DEF Owns
<1>4. CASE txn'[s].op = "retry" /\ txn'[s].job = j
  <2> DEFINE card == Cardinality(Retries(j))
  <2>1. s \in Workers /\ Owns(s, j) /\ attempts[j] < MaxAttempts
    BY <1>4 DEF HeartbeatRead, CompleteRead, FailRead, CancelRead, Open, AttemptsInv, TypeOK
  <2>2. Retries(j)' = Retries(j) \cup {s}
    BY <1>4, <2>1 DEF FailRead, HeartbeatRead, CompleteRead, CancelRead, Open, Retries,
                      Sessions, AttemptsInv, TypeOK
  <2>3. Cardinality(Retries(j)') = card + 1 /\ card \in Nat
    BY <1>2, <2>1, <2>2, CrewSize DEF Retries
  <2>4. card < attempts[j] /\ WithinBudget(j) /\ attempts[j] \in Nat
    BY <1>2, <2>1 DEF AttemptsInv, WithinBudget, TypeOK
  <2>5. \A v \in Workers : Owns(v, j)' => v = s
    BY <1>1, <2>1 DEF Owns
  <2> QED
    BY <1>1, <2>1, <2>2, <2>3, <2>4, <2>5, QueueAssumption DEF WithinBudget
<1> QED
  BY <1>3, <1>4

(* A transaction that ends: committed, only a retry makes its row ready. *)
LEMMA WriteAttempts ==
  ASSUME IsFiniteSet(Workers), AttemptsInv, NEW s \in Sessions,
         \/ s \in Workers /\ (HeartbeatWrite(s) \/ CompleteWrite(s) \/ FailWrite(s))
         \/ CancelWrite(s) \/ Rollback(s),
         NEW j \in Jobs
  PROVE  WithinBudget(j)'
<1>1. attempts' = attempts /\ txn' = [txn EXCEPT ![s] = NoTxn]
  BY DEF HeartbeatWrite, CompleteWrite, FailWrite, CancelWrite, Rollback, Flush, rowVars
<1>2. Retries(j)' = Retries(j) \ {s}
  BY <1>1, EndOfTxn DEF AttemptsInv
<1>3. CASE HeartbeatWrite(s) \/ Rollback(s)
  <2>1. status' = status /\ leasedBy' = leasedBy
    BY <1>3 DEF HeartbeatWrite, Rollback, rowVars
  <2> QED
    BY <1>1, <1>2, <2>1, NothingAdded DEF Owns
<1>4. CASE \/ s \in Workers /\ (CompleteWrite(s) \/ FailWrite(s))
           \/ CancelWrite(s)
  <2>0. Flush(s) /\ txn[s].op \in {"complete", "retry", "bury", "cancel"}
    BY <1>4 DEF CompleteWrite, FailWrite, CancelWrite
  <2>1. txn[s].job \in Jobs
    BY <2>0, OpenIsTxn DEF AttemptsInv
  <2>2. status'[j] # status[j] => txn[s].job = j /\ status'[j] = Target(txn[s].op)
    BY <2>0, <2>1 DEF Flush, AttemptsInv, TypeOK
  <2>3. leasedBy'[j] \in {None, leasedBy[j]}
    BY <2>0, <2>1 DEF Flush, AttemptsInv, TypeOK
  <2>4. Target(txn[s].op) \notin {"absent", "leased"}
    BY <2>0 DEF Target
  <2>5. Target(txn[s].op) = "pending" => txn[s].op = "retry"
    BY <2>0 DEF Target
  <2>6. \A w \in Workers : Owns(w, j)' => Owns(w, j)
    BY <2>2, <2>3, <2>4, QueueAssumption DEF Owns
  <2>7. txn[s].op = "retry" => s \in Workers
    BY <1>4 DEF CancelWrite
  <2>8. s \notin Retries(j) /\ status'[j] = "pending" => status[j] = "pending"
    BY <2>2, <2>5, <2>7 DEF Retries
  <2> QED
    BY <1>1, <1>2, <2>2, <2>4, <2>6, <2>8, NothingAdded
<1> QED
  BY <1>3, <1>4

LEMMA TickAttempts ==
  ASSUME IsFiniteSet(Workers), AttemptsInv, Tick, NEW j \in Jobs
  PROVE  WithinBudget(j)'
<1>1. \A s \in Sessions : txn'[s].op = txn[s].op /\ txn'[s].job = txn[s].job
  <2> SUFFICES ASSUME NEW s \in Sessions
               PROVE  txn'[s].op = txn[s].op /\ txn'[s].job = txn[s].job
    OBVIOUS
  <2>1. CASE txn[s] = NoTxn
    BY <2>1 DEF Tick
  <2>2. CASE txn[s] # NoTxn
    <3>1. txn[s] \in Txns
      BY <2>2 DEF AttemptsInv, TypeOK
    <3> QED
      BY <3>1 DEF Tick, Txns
  <2> QED
    BY <2>1, <2>2
<1>2. Retries(j)' = Retries(j)
  BY <1>1 DEF Retries, Sessions
<1> QED
  BY <1>2, RetriesKept DEF Tick, Owns

LEMMA StutterAttempts ==
  ASSUME IsFiniteSet(Workers), AttemptsInv, UNCHANGED queueVars, NEW j \in Jobs
  PROVE  WithinBudget(j)'
<1>1. Retries(j)' = Retries(j) /\ attempts' = attempts
  BY DEF queueVars, Retries
<1> QED
  BY <1>1, RetriesKept DEF queueVars, Owns

LEMMA NextAttempts ==
  ASSUME IsFiniteSet(Workers)
  PROVE  AttemptsInv /\ [Next]_queueVars => AttemptsInv'
<1> SUFFICES ASSUME AttemptsInv, [Next]_queueVars, NEW j \in Jobs
             PROVE  WithinBudget(j)'
  BY NextTypeOK DEF AttemptsInv
<1> USE DEF Sessions
<1>1. CASE \E i \in Jobs, delay \in 0..RetryDelay : Enqueue(i, delay)
  BY <1>1, EnqueueAttempts
<1>2. ASSUME NEW w \in Workers, WorkerStep(w)
      PROVE  WithinBudget(j)'
  <2>1. CASE \E i \in Jobs, lag \in 0..Lease : Claim(w, i, lag)
    BY <2>1, ClaimAttempts
  <2>2. CASE ClaimNothing(w)
    BY <2>2, SweepAttempts
  <2>3. CASE \E i \in Jobs : HeartbeatRead(w, i) \/ CompleteRead(w, i) \/ FailRead(w, i)
    BY <2>3, ReadAttempts
  <2>4. CASE HeartbeatWrite(w) \/ CompleteWrite(w) \/ FailWrite(w)
    BY <2>4, WriteAttempts
  <2> QED
    BY <1>2, <2>1, <2>2, <2>3, <2>4 DEF WorkerStep
<1>3. CASE \E o \in Operators : CancelWrite(o) \/ \E i \in Jobs : CancelRead(o, i)
  BY <1>3, WriteAttempts, ReadAttempts
<1>4. CASE \E s \in Sessions : Rollback(s)
  BY <1>4, WriteAttempts
<1>5. CASE Tick
  BY <1>5, TickAttempts
<1>6. CASE UNCHANGED queueVars
  BY <1>6, StutterAttempts
<1> QED
  BY <1>1, <1>2, <1>3, <1>4, <1>5, <1>6 DEF Next

LEMMA AttemptsBounded == ASSUME IsFiniteSet(Workers) PROVE AttemptsInv => OvershootBounded
<1> SUFFICES ASSUME AttemptsInv, NEW j \in Jobs
             PROVE  /\ attempts[j] <= MaxAttempts + MaxAttempts - 1
                    /\ attempts[j] <= MaxAttempts + Cardinality(Workers) - 1
  BY DEF OvershootBounded
<1> DEFINE card == Cardinality(Retries(j))
           crew == Cardinality(Workers)
<1>1. attempts[j] \in Nat /\ MaxAttempts \in Nat \ {0} /\ card \in Nat /\ crew \in Nat
  BY QueueAssumption, CrewSize DEF AttemptsInv, TypeOK, Retries
<1>2. attempts[j] <= Spent(j)
  BY <1>1 DEF Spent, Ready
<1>3. Spent(j) \in Nat
  BY <1>1 DEF Spent, Ready
<1> QED
  BY <1>1, <1>2, <1>3 DEF AttemptsInv, WithinBudget

(* However stale its writes and its cancellations, the queue hands a job   *)
(* out at most MaxAttempts - 1 times beyond the limit, and no more than    *)
(* one time beyond it for every other worker (claimable_job_statement and  *)
(* fail, job_queue.py).                                                    *)
THEOREM AttemptsOvershootBounded ==
  ASSUME IsFiniteSet(Workers)
  PROVE  Spec => []OvershootBounded
BY InitAttempts, NextAttempts, AttemptsBounded, PTL DEF Spec
=============================================================================
