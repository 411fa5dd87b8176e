-------------------------- MODULE JobWorkerProofs --------------------------
(***************************************************************************)
(* For every number of jobs and workers and every timing with TimelyLease: *)
(* a job that a worker runs stays leased to it, no two workers run one     *)
(* job, no job is handed out more than MaxAttempts times, and a finished   *)
(* job stays as it is, whatever crashes, restarts, database errors and     *)
(* stop signals happen.                                                    *)
(***************************************************************************)
EXTENDS JobWorker, JobQueueProofs

LEMMA IntervalNat == HeartbeatInterval \in Nat
BY QueueAssumption, WorkerAssumption DEF HeartbeatInterval

(* Type correctness needs to know that a busy worker holds a job. *)
WTypeInv ==
  /\ WTypeOK
  /\ \A w \in Workers : pc[w] = "busy" => held[w] # None

LEMMA LeaveType ==
  ASSUME WTypeInv, NEW w \in Workers, NEW to \in {"idle", "exited", "stopped", "down"},
         Leave(w, to), TypeOK'
  PROVE  WTypeInv'
<1>1. pc' \in [Workers -> {"idle", "busy", "exited", "stopped", "down"}]
  BY DEF Leave, WTypeInv, WTypeOK
<1>2. held' \in [Workers -> Jobs \cup {None}]
  BY DEF Leave, WTypeInv, WTypeOK
<1>3. task' \in [Workers -> {"none", "running", "returned", "raised"}]
  BY DEF Leave, WTypeInv, WTypeOK
<1>4. fuse' \in [Workers -> 0..(HeartbeatInterval + Slow)]
  BY IntervalNat, WorkerAssumption DEF Leave, WTypeInv, WTypeOK
<1>5. \A v \in Workers : pc'[v] = "busy" => held'[v] # None
  BY DEF Leave, WTypeInv, WTypeOK
<1> QED
  BY <1>1, <1>2, <1>3, <1>4, <1>5 DEF Leave, WTypeInv, WTypeOK

LEMMA UnchangedTypeOK == ASSUME TypeOK, UNCHANGED queueVars PROVE TypeOK'
BY DEF TypeOK, queueVars

LEMMA PollType ==
  ASSUME WTypeInv, NEW w \in Workers, Poll(w)
  PROVE  WTypeInv'
<1>1. CASE PollSweeps(w)
  <2>1. TypeOK'
    BY <1>1, ClaimNothingTypeOK DEF PollSweeps, WTypeInv, WTypeOK
  <2> QED
    BY <1>1, <2>1 DEF PollSweeps, workerVars, WTypeInv, WTypeOK
<1>2. ASSUME NEW j \in Jobs, NEW lag \in Lags, PollTakes(w, j, lag)
      PROVE  WTypeInv'
  <2>1. lag \in Nat
    BY WorkerAssumption DEF Lags
  <2>2. TypeOK'
    BY <1>2, <2>1, ClaimTypeOK DEF PollTakes, WTypeInv, WTypeOK
  <2>3. HeartbeatInterval + Slow \in 0..(HeartbeatInterval + Slow)
    BY IntervalNat, WorkerAssumption
  <2>4. fuse' \in [Workers -> 0..(HeartbeatInterval + Slow)]
    BY <1>2, <2>3 DEF PollTakes, WTypeInv, WTypeOK
  <2>5. held' \in [Workers -> Jobs \cup {None}] /\ held'[w] = j
    BY <1>2 DEF PollTakes, WTypeInv, WTypeOK
  <2>6. \A v \in Workers : pc'[v] = "busy" => held'[v] # None
    BY <1>2, QueueAssumption DEF PollTakes, WTypeInv, WTypeOK
  <2> QED
    BY <1>2, <2>2, <2>4, <2>5, <2>6 DEF PollTakes, WTypeInv, WTypeOK
<1> QED
  BY <1>1, <1>2 DEF Poll

LEMMA TaskEndsType ==
  ASSUME WTypeInv, NEW w \in Workers, TaskEnds(w)
  PROVE  WTypeInv'
<1>1. TypeOK'
  BY UnchangedTypeOK DEF TaskEnds, WTypeInv, WTypeOK
<1>2. fuse' \in [Workers -> 0..(HeartbeatInterval + Slow)]
  BY IntervalNat, WorkerAssumption DEF TaskEnds, WTypeInv, WTypeOK
<1> QED
  BY <1>1, <1>2 DEF TaskEnds, WTypeInv, WTypeOK

LEMMA HeartbeatRaisesType ==
  ASSUME WTypeInv, NEW w \in Workers, HeartbeatRaises(w), TypeOK'
  PROVE  WTypeInv'
<1>1. fuse' \in [Workers -> 0..(HeartbeatInterval + Slow)]
  BY IntervalNat, WorkerAssumption DEF HeartbeatRaises, WTypeInv, WTypeOK
<1> QED
  BY <1>1 DEF HeartbeatRaises, WTypeInv, WTypeOK

LEMMA RollbackType ==
  ASSUME TypeOK, NEW w \in Workers, Rollback(w) \/ UNCHANGED queueVars
  PROVE  TypeOK'
BY RollbackTypeOK, UnchangedTypeOK DEF Sessions

LEMMA ProgressType ==
  ASSUME WTypeInv, NEW w \in Workers, Progress(w)
  PROVE  WTypeInv'
<1> USE DEF Sessions
<1>0. TypeOK
  BY DEF WTypeInv, WTypeOK
<1>1. CASE HeartbeatBegins(w)
  <2>1. held[w] \in Jobs
    BY <1>1 DEF HeartbeatBegins, HeartbeatDue, WTypeInv, WTypeOK
  <2>2. TypeOK'
    BY <1>0, <1>1, <2>1, ReadTypeOK DEF HeartbeatBegins
  <2> QED
    BY <1>1, <2>2 DEF HeartbeatBegins, workerVars, WTypeInv, WTypeOK
<1>2. CASE HeartbeatCommits(w)
  <2>1. TypeOK'
    BY <1>0, <1>2, WriteTypeOK DEF HeartbeatCommits
  <2>2. fuse' \in [Workers -> 0..(HeartbeatInterval + Slow)]
    BY <1>2, IntervalNat, WorkerAssumption DEF HeartbeatCommits, WTypeInv, WTypeOK
  <2> QED
    BY <1>2, <2>1, <2>2 DEF HeartbeatCommits, WTypeInv, WTypeOK
<1>3. CASE HeartbeatRefused(w)
  BY <1>0, <1>3, UnchangedTypeOK, HeartbeatRaisesType DEF HeartbeatRefused
<1>4. CASE SettleBegins(w)
  <2>1. held[w] \in Jobs
    BY <1>4 DEF SettleBegins, Settling, WTypeInv, WTypeOK
  <2>2. TypeOK'
    BY <1>0, <1>4, <2>1, ReadTypeOK DEF SettleBegins
  <2> QED
    BY <1>4, <2>2 DEF SettleBegins, workerVars, WTypeInv, WTypeOK
<1>5. CASE SettleCommits(w)
  <2>1. TypeOK'
    BY <1>0, <1>5, WriteTypeOK DEF SettleCommits
  <2> QED
    BY <1>5, <2>1, LeaveType DEF SettleCommits
<1>6. CASE SettleRefused(w)
  BY <1>0, <1>6, UnchangedTypeOK, LeaveType DEF SettleRefused
<1> QED
  BY <1>1, <1>2, <1>3, <1>4, <1>5, <1>6 DEF Progress

LEMMA TroubleType ==
  ASSUME WTypeInv, NEW w \in Workers, Trouble(w) \/ Stops(w) \/ Restart(w)
  PROVE  WTypeInv'
<1>0. TypeOK
  BY DEF WTypeInv, WTypeOK
<1>1. CASE PollFails(w)
  BY <1>0, <1>1, UnchangedTypeOK, LeaveType DEF PollFails
<1>2. CASE HeartbeatFails(w)
  BY <1>0, <1>2, RollbackType, HeartbeatRaisesType DEF HeartbeatFails
<1>3. CASE SettleFails(w)
  BY <1>0, <1>3, RollbackType, LeaveType DEF SettleFails
<1>4. CASE Crash(w)
  BY <1>0, <1>4, RollbackType, LeaveType DEF Crash
<1>5. CASE StopSignal(w)
  BY <1>0, <1>5, UnchangedTypeOK DEF StopSignal, WTypeInv, WTypeOK
<1>6. CASE Stops(w)
  BY <1>0, <1>6, UnchangedTypeOK, LeaveType DEF Stops
<1>7. CASE Restart(w)
  BY <1>0, <1>7, UnchangedTypeOK DEF Restart, WTypeInv, WTypeOK
<1> QED
  BY <1>1, <1>2, <1>3, <1>4, <1>5, <1>6, <1>7 DEF Trouble

LEMMA SubmitType ==
  ASSUME WTypeInv, NEW j \in Jobs, Submit(j)
  PROVE  WTypeInv'
<1>1. \A delay \in {0, RetryDelay} : delay \in 0..RetryDelay
  BY QueueAssumption
<1>2. TypeOK'
  BY <1>1, EnqueueTypeOK DEF Submit, WTypeInv, WTypeOK
<1> QED
  BY <1>2 DEF Submit, workerVars, WTypeInv, WTypeOK

LEMMA AdvanceType ==
  ASSUME WTypeInv, Advance
  PROVE  WTypeInv'
<1>1. TypeOK'
  BY TickTypeOK DEF Advance, WTypeInv, WTypeOK
<1>2. fuse' \in [Workers -> 0..(HeartbeatInterval + Slow)]
  BY IntervalNat, WorkerAssumption DEF Advance, Minus, WTypeInv, WTypeOK
<1> QED
  BY <1>1, <1>2 DEF Advance, WTypeInv, WTypeOK

LEMMA WNextType == WTypeInv /\ [WNext]_vars => WTypeInv'
<1> SUFFICES ASSUME WTypeInv, [WNext]_vars
             PROVE  WTypeInv'
  OBVIOUS
<1>1. CASE UNCHANGED vars
  BY <1>1, UnchangedTypeOK DEF vars, queueVars, WTypeInv, WTypeOK
<1> QED
  BY <1>1, SubmitType, PollType, TaskEndsType, ProgressType, TroubleType, AdvanceType DEF WNext

LEMMA WInitType == WInit => WTypeInv
BY InitTypeOK, IntervalNat, WorkerAssumption DEF WInit, WTypeInv, WTypeOK

(* The table, the transactions and the workers are well formed in every    *)
(* reachable state, however late the workers are.                          *)
THEOREM WorkerTypeCorrect == WSpec => []WTypeOK
<1>1. WTypeInv => WTypeOK
  BY DEF WTypeInv
<1> QED
  BY <1>1, WInitType, WNextType, PTL DEF WSpec

-----------------------------------------------------------------------------
(* However late the workers are, they only use the operations of the       *)
(* queue, so its bound on the attempts holds of them too.                  *)
LEMMA WorkerStepAttempts ==
  ASSUME IsFiniteSet(Workers), AttemptsInv, WTypeInv, NEW w \in Workers,
         Poll(w) \/ TaskEnds(w) \/ Progress(w) \/ Trouble(w) \/ Stops(w) \/ Restart(w),
         NEW j \in Jobs
  PROVE  WithinBudget(j)'
<1> USE DEF Sessions
<1>1. CASE UNCHANGED queueVars
  BY <1>1, StutterAttempts
<1>2. CASE Rollback(w) \/ SettleCommits(w) \/ HeartbeatCommits(w)
  BY <1>2, WriteAttempts DEF SettleCommits, HeartbeatCommits
<1>3. CASE Poll(w)
  <2>1. CASE PollSweeps(w)
    BY <2>1, SweepAttempts DEF PollSweeps
  <2>2. ASSUME NEW i \in Jobs, NEW lag \in Lags, PollTakes(w, i, lag)
        PROVE  WithinBudget(j)'
    BY <2>2, WorkerAssumption, ClaimAttempts DEF PollTakes, Lags
  <2> QED
    BY <1>3, <2>1, <2>2 DEF Poll
<1>4. CASE HeartbeatBegins(w) \/ SettleBegins(w)
  <2>1. held[w] \in Jobs
    BY <1>4 DEF HeartbeatBegins, HeartbeatDue, SettleBegins, Settling, WTypeInv, WTypeOK
  <2> QED
    BY <1>4, <2>1, ReadAttempts DEF HeartbeatBegins, SettleBegins
<1>5. CASE Progress(w)
  BY <1>1, <1>2, <1>4, <1>5 DEF Progress, HeartbeatRefused, SettleRefused
<1>6. CASE Trouble(w) \/ TaskEnds(w) \/ Stops(w) \/ Restart(w)
  BY <1>1, <1>2, <1>6
  DEF Trouble, PollFails, HeartbeatFails, SettleFails, Crash, StopSignal, TaskEnds, Stops, Restart
<1> QED
  BY <1>3, <1>5, <1>6

LEMMA WNextAttempts ==
  ASSUME IsFiniteSet(Workers)
  PROVE  AttemptsInv /\ WTypeInv /\ [WNext]_vars => AttemptsInv'
<1> SUFFICES ASSUME AttemptsInv, WTypeInv, [WNext]_vars, NEW j \in Jobs
             PROVE  WithinBudget(j)'
  BY WNextType DEF AttemptsInv, WTypeInv, WTypeOK
<1>1. CASE \E i \in Jobs : Submit(i)
  <2>1. \A delay \in {0, RetryDelay} : delay \in 0..RetryDelay
    BY QueueAssumption
  <2> QED
    BY <1>1, <2>1, EnqueueAttempts DEF Submit
<1>2. CASE \E w \in Workers : \/ Poll(w) \/ TaskEnds(w) \/ Progress(w)
                             \/ Trouble(w) \/ Stops(w) \/ Restart(w)
  BY <1>2, WorkerStepAttempts
<1>3. CASE Advance
  BY <1>3, TickAttempts DEF Advance
<1>4. CASE UNCHANGED vars
  BY <1>4, StutterAttempts DEF vars, queueVars
<1> QED
  BY <1>1, <1>2, <1>3, <1>4 DEF WNext

(* The workers hand a job out at most MaxAttempts - 1 times beyond the     *)
(* limit, and no more than one time beyond it for every other worker, even *)
(* when all of them stall and crash (run_once and run_forever, worker.py). *)
THEOREM StalledAttemptsBounded ==
  ASSUME IsFiniteSet(Workers)
  PROVE  WSpec => []OvershootBounded
<1>1. WInit => AttemptsInv
  BY InitAttempts DEF WInit
<1> QED
  BY <1>1, WInitType, WNextType, WNextAttempts, AttemptsBounded, PTL DEF WSpec

-----------------------------------------------------------------------------
(* The inductive invariant.  The lease of a running job outlasts the fuse  *)
(* of its worker, with Slow to spare while the job may still have to be    *)
(* settled after a failed heartbeat; an open heartbeat was begun at most   *)
(* Slow before its fuse runs out; and a transaction that will settle a job *)
(* decided by the attempts the row still has, and will write the status.   *)
Renewing(w) == task[w] = "running" \/ txn[w].op = "heartbeat"

WorkerOK(w) ==
  /\ pc[w] = "busy" <=> held[w] # None
  /\ held[w] = None => task[w] = "none" /\ txn[w] = NoTxn
  /\ held[w] # None =>
       /\ task[w] # "none"
       /\ Owns(w, held[w]) /\ leaseLeft[held[w]] # None
       /\ txn[w] # NoTxn => txn[w].job = held[w]
       /\ txn[w].op # "cancel"
       /\ task[w] = "running" => txn[w].op \in {"none", "heartbeat"}
       /\ leaseLeft[held[w]] > fuse[w]
       /\ Renewing(w) => leaseLeft[held[w]] > fuse[w] + Slow
       /\ txn[w].op = "heartbeat" => txn[w].age + fuse[w] <= Slow
       /\ txn[w].op = "retry" => attempts[held[w]] < MaxAttempts
       /\ txn[w].op = "bury" => attempts[held[w]] >= MaxAttempts
       /\ txn[w].op \in {"complete", "retry", "bury"} => "status" \in txn[w].dirty

JobOK(j) ==
  /\ attempts[j] <= MaxAttempts
  /\ status[j] = "pending" => attempts[j] < MaxAttempts
  /\ status[j] = "absent" => attempts[j] = 0

LeaseInv ==
  /\ WTypeInv
  /\ \A w \in Workers : WorkerOK(w)
  /\ \A j \in Jobs : JobOK(j)

SameRow(j) ==
  /\ status'[j] = status[j] /\ attempts'[j] = attempts[j]
  /\ leasedBy'[j] = leasedBy[j] /\ leaseLeft'[j] = leaseLeft[j]

(* A step of another worker that leaves the row of v's job alone does not  *)
(* disturb v.                                                              *)
LEMMA OtherWorkerOK ==
  ASSUME NEW v \in Workers, WorkerOK(v),
         pc'[v] = pc[v], held'[v] = held[v], task'[v] = task[v], fuse'[v] = fuse[v],
         txn'[v] = txn[v], held[v] # None => SameRow(held[v])
  PROVE  WorkerOK(v)'
BY DEF WorkerOK, SameRow, Owns, Renewing

LEMMA SameRowJobOK == ASSUME NEW j, JobOK(j), SameRow(j) PROVE JobOK(j)'
BY DEF JobOK, SameRow

(* The facts about a holder that the steps below use, as numbers. *)
LEMMA HolderFacts ==
  ASSUME LeaseInv, NEW w \in Workers, held[w] # None
  PROVE  /\ held[w] \in Jobs
         /\ status[held[w]] = "leased" /\ leasedBy[held[w]] = w
         /\ leaseLeft[held[w]] \in Nat /\ leaseLeft[held[w]] # 0
         /\ fuse[w] \in Nat
         /\ ~Claimable(held[w]) /\ ~Exhausted(held[w])
<1>1. held[w] \in Jobs /\ fuse[w] \in Nat
  BY IntervalNat, WorkerAssumption DEF LeaseInv, WTypeInv, WTypeOK
<1>2. leaseLeft[held[w]] \in Nat
  BY <1>1, QueueAssumption DEF LeaseInv, WTypeInv, WTypeOK, TypeOK, WorkerOK
<1>3. leaseLeft[held[w]] > fuse[w] /\ Owns(w, held[w])
  BY DEF LeaseInv, WorkerOK
<1>4. leaseLeft[held[w]] # 0
  BY <1>1, <1>2, <1>3
<1> QED
  BY <1>1, <1>2, <1>3, <1>4 DEF Owns, Claimable, Exhausted

(* Two workers that hold a job hold different ones. *)
LEMMA HeldApart ==
  ASSUME LeaseInv, NEW v \in Workers, NEW w \in Workers, v # w, held[v] # None
  PROVE  held[v] # held[w]
BY HolderFacts

LEMMA TimelyNumbers ==
  ASSUME TimelyLease
  PROVE  /\ Lease \in Nat /\ Slow \in Nat /\ HeartbeatInterval \in Nat
         /\ Lease > HeartbeatInterval + 3 * Slow
BY IntervalNat, QueueAssumption, WorkerAssumption DEF TimelyLease

(* A worker that lets its job go, the row of which no other worker holds.  *)
LEMMA LeaveLeaseInv ==
  ASSUME LeaseInv, WTypeInv', NEW w \in Workers,
         NEW to \in {"idle", "exited", "stopped", "down"}, Leave(w, to),
         txn' = [txn EXCEPT ![w] = NoTxn],
         \A j \in Jobs : j # held[w] => SameRow(j),
         \A j \in Jobs : j = held[w] => JobOK(j)'
  PROVE  LeaseInv'
<1>1. WorkerOK(w)'
  BY DEF Leave, WorkerOK, LeaseInv, WTypeInv, WTypeOK, TypeOK, Sessions
<1>2. ASSUME NEW v \in Workers, v # w
      PROVE  WorkerOK(v)'
  <2>1. held[v] # None => SameRow(held[v])
    BY <1>2, HeldApart, HolderFacts
  <2> QED
    BY <1>2, <2>1, OtherWorkerOK
    DEF Leave, LeaseInv, WTypeInv, WTypeOK, TypeOK, Sessions
<1>3. ASSUME NEW j \in Jobs
      PROVE  JobOK(j)'
  <2>1. CASE j = held[w]
    BY <2>1
  <2>2. CASE j # held[w]
    BY <2>2, SameRowJobOK DEF LeaseInv
  <2> QED
    BY <2>1, <2>2
<1> QED
  BY <1>1, <1>2, <1>3 DEF LeaseInv

-----------------------------------------------------------------------------
LEMMA PollTakesLeaseInv ==
  ASSUME LeaseInv, WTypeInv', TimelyLease,
         NEW w \in Workers, NEW j \in Jobs, NEW lag \in Lags, PollTakes(w, j, lag)
  PROVE  LeaseInv'
<1>0. /\ Claim(w, j, lag)
      /\ pc' = [pc EXCEPT ![w] = "busy"]
      /\ held' = [held EXCEPT ![w] = j]
      /\ task' = [task EXCEPT ![w] = "running"]
      /\ fuse' = [fuse EXCEPT ![w] = HeartbeatInterval + Slow]
      /\ txn' = txn /\ txn[w] = NoTxn
  BY DEF PollTakes, Claim
<1>1. \A v \in Workers : held[v] # None => held[v] # j
  BY <1>0, HolderFacts DEF Claim
<1>2. \A i \in Jobs : i # j /\ ~Exhausted(i) => SameRow(i)
  BY <1>0 DEF Claim, SameRow, LeaseInv, WTypeInv, WTypeOK, TypeOK
<1>3. WorkerOK(w)'
  <2>1. lag \in Nat /\ lag <= Slow
    BY TimelyNumbers DEF Lags
  <2>2. leaseLeft'[j] = Lease - lag
    BY <1>0, <2>1, TimelyNumbers DEF Claim, Minus
  <2>3. /\ leaseLeft'[j] \in Nat /\ leaseLeft'[j] # None
        /\ leaseLeft'[j] > HeartbeatInterval + Slow + Slow
    BY <2>1, <2>2, TimelyNumbers, QueueAssumption
  <2>4. /\ pc'[w] = "busy" /\ held'[w] = j /\ task'[w] = "running"
        /\ fuse'[w] = HeartbeatInterval + Slow /\ txn'[w] = NoTxn
    BY <1>0 DEF LeaseInv, WTypeInv, WTypeOK
  <2>5. status'[j] = "leased" /\ leasedBy'[j] = w
    BY <1>0 DEF Claim
  <2> QED
    BY <2>3, <2>4, <2>5, TimelyNumbers, QueueAssumption DEF WorkerOK, Owns, Renewing, NoTxn
<1>4. ASSUME NEW v \in Workers, v # w
      PROVE  WorkerOK(v)'
  <2>1. held[v] # None => SameRow(held[v])
    BY <1>1, <1>2, HolderFacts
  <2> QED
    BY <1>0, <1>4, <2>1, OtherWorkerOK DEF LeaseInv, WTypeInv, WTypeOK
<1>5. ASSUME NEW i \in Jobs
      PROVE  JobOK(i)'
  <2>1. CASE i = j
    <3>1. attempts[j] \in Nat /\ attempts[j] < MaxAttempts
      BY <1>0 DEF Claim, Claimable, LeaseInv, JobOK, WTypeInv, WTypeOK, TypeOK
    <3>2. attempts'[j] = attempts[j] + 1 /\ status'[j] = "leased"
      BY <1>0 DEF Claim, LeaseInv, WTypeInv, WTypeOK, TypeOK
    <3> QED
      BY <2>1, <3>1, <3>2, QueueAssumption DEF JobOK
  <2>2. CASE i # j /\ Exhausted(i)
    BY <1>0, <2>2 DEF Claim, LeaseInv, JobOK, WTypeInv, WTypeOK, TypeOK
  <2>3. CASE i # j /\ ~Exhausted(i)
    BY <1>2, <2>3, SameRowJobOK DEF LeaseInv
  <2> QED
    BY <2>1, <2>2, <2>3
<1> QED
  BY <1>3, <1>4, <1>5 DEF LeaseInv

LEMMA PollSweepsLeaseInv ==
  ASSUME LeaseInv, WTypeInv', NEW w \in Workers, PollSweeps(w)
  PROVE  LeaseInv'
<1>1. \A i \in Jobs : ~Exhausted(i) => SameRow(i)
  BY DEF PollSweeps, ClaimNothing, SameRow
<1>2. ASSUME NEW v \in Workers
      PROVE  WorkerOK(v)'
  <2>1. held[v] # None => SameRow(held[v])
    BY <1>1, HolderFacts
  <2> QED
    BY <2>1, OtherWorkerOK DEF PollSweeps, ClaimNothing, workerVars, LeaseInv
<1>3. ASSUME NEW i \in Jobs
      PROVE  JobOK(i)'
  BY DEF PollSweeps, ClaimNothing, LeaseInv, JobOK
<1> QED
  BY <1>2, <1>3 DEF LeaseInv

(* A step of w that changes no row, nor any other worker. *)
LEMMA OwnStepLeaseInv ==
  ASSUME LeaseInv, WTypeInv', NEW w \in Workers, UNCHANGED rowVars, WorkerOK(w)',
         \A v \in Workers : v # w =>
           /\ pc'[v] = pc[v] /\ held'[v] = held[v] /\ task'[v] = task[v]
           /\ fuse'[v] = fuse[v] /\ txn'[v] = txn[v]
  PROVE  LeaseInv'
<1>1. \A v \in Workers : WorkerOK(v)'
  BY OtherWorkerOK DEF rowVars, SameRow, LeaseInv
<1>2. \A j \in Jobs : JobOK(j)'
  BY SameRowJobOK DEF rowVars, SameRow, LeaseInv
<1> QED
  BY <1>1, <1>2 DEF LeaseInv

LEMMA TaskEndsLeaseInv ==
  ASSUME LeaseInv, WTypeInv', TimelyLease, NEW w \in Workers, TaskEnds(w)
  PROVE  LeaseInv'
<1>1. held[w] # None /\ WorkerOK(w)
  BY DEF TaskEnds, LeaseInv, WorkerOK
<1>2. /\ leaseLeft[held[w]] \in Nat /\ fuse[w] \in Nat
      /\ leaseLeft[held[w]] > fuse[w] + Slow
  BY <1>1, HolderFacts DEF TaskEnds, WorkerOK, Renewing
<1>3. /\ UNCHANGED <<queueVars, pc, held>>
      /\ task'[w] \in {"returned", "raised"}
      /\ fuse'[w] = IF txn[w] = NoTxn THEN Slow ELSE fuse[w]
  BY DEF TaskEnds, LeaseInv, WTypeInv, WTypeOK
<1>4. txn[w] # NoTxn => txn[w].op = "heartbeat"
  BY <1>1 DEF TaskEnds, WorkerOK, LeaseInv, WTypeInv, WTypeOK, TypeOK, Txns, Sessions
<1>5. WorkerOK(w)'
  <2>1. CASE txn[w] = NoTxn
    BY <1>1, <1>2, <1>3, <2>1, TimelyNumbers DEF WorkerOK, Renewing, Owns, NoTxn, queueVars
  <2>2. CASE txn[w] # NoTxn
    BY <1>1, <1>2, <1>3, <1>4, <2>2, TimelyNumbers DEF WorkerOK, Renewing, Owns, queueVars
  <2> QED
    BY <2>1, <2>2
<1> QED
  BY <1>3, <1>5, OwnStepLeaseInv
  DEF TaskEnds, queueVars, rowVars, LeaseInv, WTypeInv, WTypeOK

LEMMA HeartbeatBeginsLeaseInv ==
  ASSUME LeaseInv, WTypeInv', TimelyLease, NEW w \in Workers, HeartbeatBegins(w)
  PROVE  LeaseInv'
<1>1. held[w] # None /\ WorkerOK(w)
  BY DEF HeartbeatBegins, HeartbeatDue, LeaseInv, WorkerOK
<1>2. /\ leaseLeft[held[w]] \in Nat /\ fuse[w] \in Nat /\ fuse[w] <= Slow
      /\ leaseLeft[held[w]] > fuse[w] + Slow
  BY <1>1, HolderFacts DEF HeartbeatBegins, HeartbeatDue, WorkerOK, Renewing
<1>3. /\ UNCHANGED rowVars /\ UNCHANGED workerVars
      /\ \A v \in Workers : v # w => txn'[v] = txn[v]
      /\ txn'[w] = [op |-> "heartbeat", job |-> held[w], age |-> 0, dirty |-> {"lease_expires_at"}]
  BY DEF HeartbeatBegins, HeartbeatRead, Open, LeaseInv, WTypeInv, WTypeOK, TypeOK, Sessions
<1>4. WorkerOK(w)'
  BY <1>1, <1>2, <1>3, TimelyNumbers
  DEF HeartbeatBegins, HeartbeatDue, WorkerOK, Renewing, Owns, rowVars, workerVars
<1> QED
  BY <1>3, <1>4, OwnStepLeaseInv DEF workerVars

(* An open transaction belongs to the worker's job. *)
LEMMA TxnFacts ==
  ASSUME LeaseInv, NEW w \in Workers, txn[w].op # "none"
  PROVE  /\ held[w] # None /\ WorkerOK(w) /\ pc[w] = "busy"
         /\ txn[w].job = held[w] /\ txn[w].age \in Nat
<1>1. txn[w] # NoTxn /\ txn[w].age \in Nat
  BY OpenIsTxn DEF NoTxn, LeaseInv, WTypeInv, WTypeOK, Sessions
<1> QED
  BY <1>1 DEF LeaseInv, WorkerOK

LEMMA HeartbeatCommitsLeaseInv ==
  ASSUME LeaseInv, WTypeInv', TimelyLease, NEW w \in Workers, HeartbeatCommits(w)
  PROVE  LeaseInv'
<1>1. /\ held[w] # None /\ WorkerOK(w) /\ txn[w].op = "heartbeat"
      /\ txn[w].job = held[w] /\ txn[w].age \in Nat
  BY TxnFacts DEF HeartbeatCommits, HeartbeatWrite
<1>2. held[w] \in Jobs /\ fuse[w] \in Nat /\ txn[w].age <= Slow
  BY <1>1, HolderFacts, TimelyNumbers DEF WorkerOK
<1>a. Minus(Lease, txn[w].age) = Lease - txn[w].age
  BY <1>1, <1>2, TimelyNumbers DEF Minus
<1>3. /\ status' = status /\ attempts' = attempts /\ leasedBy' = leasedBy
      /\ leaseLeft' = [leaseLeft EXCEPT ![held[w]] = Lease - txn[w].age]
      /\ txn' = [txn EXCEPT ![w] = NoTxn]
      /\ pc' = pc /\ held' = held /\ task' = task
      /\ fuse' = [fuse EXCEPT ![w] = IF task[w] = "running" THEN HeartbeatInterval + Slow ELSE Slow]
  BY <1>1, <1>a DEF HeartbeatCommits, HeartbeatWrite
<1>4. /\ leaseLeft'[held[w]] \in Nat /\ leaseLeft'[held[w]] # None
      /\ leaseLeft'[held[w]] > HeartbeatInterval + Slow + Slow
  BY <1>1, <1>2, <1>3, TimelyNumbers, QueueAssumption
  DEF LeaseInv, WTypeInv, WTypeOK, TypeOK
<1>5. txn'[w] = NoTxn
  BY <1>3 DEF LeaseInv, WTypeInv, WTypeOK, TypeOK, Sessions
<1>6. WorkerOK(w)'
  <2>1. CASE task[w] = "running"
    BY <1>1, <1>3, <1>4, <1>5, <2>1, TimelyNumbers
    DEF WorkerOK, Owns, Renewing, NoTxn, LeaseInv, WTypeInv, WTypeOK
  <2>2. CASE task[w] # "running"
    BY <1>1, <1>3, <1>4, <1>5, <2>2, TimelyNumbers
    DEF WorkerOK, Owns, Renewing, NoTxn, LeaseInv, WTypeInv, WTypeOK
  <2> QED
    BY <2>1, <2>2
<1>7. ASSUME NEW v \in Workers, v # w
      PROVE  WorkerOK(v)'
  <2>1. held[v] # None => SameRow(held[v])
    BY <1>3, <1>7, HeldApart, HolderFacts DEF SameRow, LeaseInv, WTypeInv, WTypeOK, TypeOK
  <2> QED
    BY <1>3, <1>7, <2>1, OtherWorkerOK DEF LeaseInv, WTypeInv, WTypeOK, TypeOK, Sessions
<1>8. \A j \in Jobs : JobOK(j)'
  BY <1>3 DEF LeaseInv, JobOK
<1> QED
  BY <1>6, <1>7, <1>8 DEF LeaseInv

(* The holder of a job is never refused. *)
LEMMA NeverRefused ==
  ASSUME LeaseInv, NEW w \in Workers
  PROVE  ~HeartbeatRefused(w) /\ ~SettleRefused(w)
<1>1. pc[w] = "busy" => Owns(w, held[w])
  BY DEF LeaseInv, WorkerOK
<1> QED
  BY <1>1 DEF HeartbeatRefused, HeartbeatDue, SettleRefused, Settling

LEMMA HeartbeatFailsLeaseInv ==
  ASSUME LeaseInv, WTypeInv', TimelyLease, NEW w \in Workers, HeartbeatFails(w)
  PROVE  LeaseInv'
<1>1. held[w] # None /\ WorkerOK(w) /\ Renewing(w)
  BY TxnFacts DEF HeartbeatFails, HeartbeatDue, LeaseInv, WorkerOK, Renewing
<1>2. /\ leaseLeft[held[w]] \in Nat /\ fuse[w] \in Nat
      /\ leaseLeft[held[w]] > fuse[w] + Slow
  BY <1>1, HolderFacts DEF WorkerOK
<1>3. /\ UNCHANGED rowVars
      /\ \A v \in Workers : v # w => txn'[v] = txn[v]
      /\ txn'[w] = NoTxn
  BY DEF HeartbeatFails, HeartbeatDue, Rollback, queueVars, rowVars,
         LeaseInv, WTypeInv, WTypeOK, TypeOK, Sessions
<1>4. /\ pc' = pc /\ held' = held /\ task'[w] = "raised" /\ fuse'[w] = Slow
      /\ \A v \in Workers : v # w => task'[v] = task[v] /\ fuse'[v] = fuse[v]
  BY DEF HeartbeatFails, HeartbeatRaises, LeaseInv, WTypeInv, WTypeOK
<1>5. WorkerOK(w)'
  BY <1>1, <1>2, <1>3, <1>4, TimelyNumbers DEF WorkerOK, Owns, Renewing, NoTxn, rowVars
<1> QED
  BY <1>3, <1>4, <1>5, OwnStepLeaseInv

LEMMA SettleBeginsLeaseInv ==
  ASSUME LeaseInv, WTypeInv', TimelyLease, NEW w \in Workers, SettleBegins(w)
  PROVE  LeaseInv'
<1>1. held[w] # None /\ WorkerOK(w) /\ task[w] # "running"
  BY DEF SettleBegins, Settling, LeaseInv, WorkerOK
<1>2. leaseLeft[held[w]] \in Nat /\ fuse[w] \in Nat /\ held[w] \in Jobs
  BY <1>1, HolderFacts
<1>s. \A target \in {"completed", "pending", "failed"} : "status" \in Dirty(held[w], target)
  BY <1>1, HolderFacts DEF Dirty, Columns
<1>3. \E op \in {"complete", "bury", "retry"}, dirty \in SUBSET Columns :
        /\ op = "retry" => attempts[held[w]] < MaxAttempts
        /\ op = "bury" => attempts[held[w]] >= MaxAttempts
        /\ "status" \in dirty
        /\ Open(w, op, held[w], dirty)
  BY <1>s, DirtyType DEF SettleBegins, CompleteRead, FailRead
<1>4. PICK op \in {"complete", "bury", "retry"}, dirty \in SUBSET Columns :
        /\ op = "retry" => attempts[held[w]] < MaxAttempts
        /\ op = "bury" => attempts[held[w]] >= MaxAttempts
        /\ "status" \in dirty
        /\ Open(w, op, held[w], dirty)
  BY <1>3
<1>5. /\ UNCHANGED rowVars /\ UNCHANGED workerVars
      /\ \A v \in Workers : v # w => txn'[v] = txn[v]
      /\ txn'[w] = [op |-> op, job |-> held[w], age |-> 0, dirty |-> dirty]
  BY <1>4 DEF SettleBegins, Open, LeaseInv, WTypeInv, WTypeOK, TypeOK, Sessions
<1>6. txn[w] = NoTxn
  BY <1>4 DEF Open
<1>7. WorkerOK(w)'
  BY <1>1, <1>2, <1>4, <1>5, <1>6 DEF WorkerOK, Owns, Renewing, rowVars, workerVars
<1> QED
  BY <1>5, <1>7, OwnStepLeaseInv DEF workerVars

LEMMA SettleCommitsLeaseInv ==
  ASSUME LeaseInv, WTypeInv', NEW w \in Workers, SettleCommits(w)
  PROVE  LeaseInv'
<1>1. /\ Flush(w) /\ attempts' = attempts
      /\ txn[w].op \in {"complete", "retry", "bury"}
  BY DEF SettleCommits, CompleteWrite, FailWrite
<1>2. held[w] # None /\ WorkerOK(w) /\ txn[w].job = held[w]
  BY <1>1, TxnFacts
<1>3. held[w] \in Jobs
  BY <1>2, HolderFacts
<1>4. txn' = [txn EXCEPT ![w] = NoTxn]
  BY <1>1 DEF Flush
<1>5. \A j \in Jobs : j # held[w] => SameRow(j)
  BY <1>1, <1>2 DEF Flush, SameRow, LeaseInv, WTypeInv, WTypeOK, TypeOK
<1>6. status'[held[w]] \in {status[held[w]], Target(txn[w].op)}
  BY <1>1, <1>2, <1>3 DEF Flush, LeaseInv, WTypeInv, WTypeOK, TypeOK
<1>7. JobOK(held[w])
  BY <1>3 DEF LeaseInv
<1>8. txn[w].op = "retry" => attempts[held[w]] < MaxAttempts
  BY <1>2 DEF WorkerOK
<1>9. status[held[w]] = "leased"
  BY <1>2, HolderFacts
<1>10. ASSUME NEW j \in Jobs, j = held[w]
       PROVE  JobOK(j)'
  BY <1>1, <1>6, <1>7, <1>8, <1>9, <1>10 DEF JobOK, Target
<1> QED
  BY <1>4, <1>5, <1>10, LeaveLeaseInv DEF SettleCommits

(* A worker that ends its transaction, if it has one, without a commit and *)
(* lets its job go.                                                        *)
LEMMA LetGoLeaseInv ==
  ASSUME LeaseInv, WTypeInv', NEW w \in Workers,
         NEW to \in {"idle", "exited", "stopped", "down"}, Leave(w, to),
         (txn[w] = NoTxn /\ UNCHANGED queueVars) \/ Rollback(w)
  PROVE  LeaseInv'
<1>1. txn' = [txn EXCEPT ![w] = NoTxn]
  BY DEF Rollback, queueVars, LeaseInv, WTypeInv, WTypeOK, TypeOK, Sessions
<1>2. \A j \in Jobs : SameRow(j)
  BY DEF Rollback, queueVars, rowVars, SameRow
<1>3. \A j \in Jobs : JobOK(j)'
  BY <1>2, SameRowJobOK DEF LeaseInv
<1> QED
  BY <1>1, <1>2, <1>3, LeaveLeaseInv

LEMMA TroubleLeaseInv ==
  ASSUME LeaseInv, WTypeInv', TimelyLease,
         NEW w \in Workers, Trouble(w) \/ Stops(w) \/ Restart(w)
  PROVE  LeaseInv'
<1>1. pc[w] = "idle" => txn[w] = NoTxn
  BY QueueAssumption DEF LeaseInv, WorkerOK
<1>2. CASE PollFails(w)
  BY <1>1, <1>2, LetGoLeaseInv DEF PollFails
<1>3. CASE HeartbeatFails(w)
  BY <1>3, HeartbeatFailsLeaseInv
<1>4. CASE SettleFails(w)
  BY <1>4, LetGoLeaseInv DEF SettleFails
<1>5. CASE Crash(w)
  BY <1>5, LetGoLeaseInv DEF Crash
<1>6. CASE Stops(w)
  BY <1>1, <1>6, LetGoLeaseInv DEF Stops
<1>7. CASE StopSignal(w) \/ Restart(w)
  <2>1. /\ UNCHANGED queueVars /\ held' = held /\ task' = task /\ fuse' = fuse
        /\ \A v \in Workers : v # w => pc'[v] = pc[v]
        /\ pc'[w] = "busy" <=> pc[w] = "busy"
    BY <1>7 DEF StopSignal, Restart, LeaseInv, WTypeInv, WTypeOK
  <2>2. WorkerOK(w)'
    BY <2>1 DEF queueVars, LeaseInv, WorkerOK, Owns, Renewing
  <2> QED
    BY <2>1, <2>2, OwnStepLeaseInv DEF queueVars, rowVars
<1> QED
  BY <1>2, <1>3, <1>4, <1>5, <1>6, <1>7 DEF Trouble

LEMMA SubmitLeaseInv ==
  ASSUME LeaseInv, WTypeInv', NEW j \in Jobs, Submit(j)
  PROVE  LeaseInv'
<1>1. /\ status[j] = "absent" /\ status' = [status EXCEPT ![j] = "pending"]
      /\ UNCHANGED <<attempts, leasedBy, leaseLeft, txn>> /\ UNCHANGED workerVars
  BY DEF Submit, Enqueue
<1>2. \A i \in Jobs : i # j => SameRow(i)
  BY <1>1 DEF SameRow, LeaseInv, WTypeInv, WTypeOK, TypeOK
<1>3. ASSUME NEW v \in Workers
      PROVE  WorkerOK(v)'
  <2>1. held[v] # None => SameRow(held[v])
    BY <1>1, <1>2, HolderFacts
  <2> QED
    BY <1>1, <2>1, OtherWorkerOK DEF workerVars, LeaseInv
<1>4. ASSUME NEW i \in Jobs
      PROVE  JobOK(i)'
  <2>1. CASE i = j
    BY <1>1, <2>1, QueueAssumption DEF LeaseInv, JobOK, WTypeInv, WTypeOK, TypeOK
  <2>2. CASE i # j
    BY <1>2, <2>2, SameRowJobOK DEF LeaseInv
  <2> QED
    BY <2>1, <2>2
<1> QED
  BY <1>3, <1>4 DEF LeaseInv

LEMMA AdvanceLeaseInv ==
  ASSUME LeaseInv, WTypeInv', TimelyLease, Advance
  PROVE  LeaseInv'
<1>1. ASSUME NEW w \in Workers
      PROVE  WorkerOK(w)'
  <2>0. /\ UNCHANGED <<pc, held, task, status, attempts, leasedBy>>
        /\ fuse'[w] = Minus(fuse[w], 1)
    BY DEF Advance, Tick
  <2>1. CASE held[w] = None
    <3>1. txn'[w] = txn[w]
      BY <2>1 DEF Advance, Tick, LeaseInv, WorkerOK, Sessions
    <3> QED
      BY <2>0, <2>1, <3>1 DEF LeaseInv, WorkerOK
  <2>2. CASE held[w] # None
    <3>1. WorkerOK(w) /\ pc[w] = "busy"
      BY <2>2 DEF LeaseInv, WorkerOK
    <3>2. /\ held[w] \in Jobs /\ fuse[w] \in Nat /\ fuse[w] > 0
          /\ leaseLeft[held[w]] \in Nat /\ leaseLeft[held[w]] # 0
      BY <2>2, <3>1, HolderFacts DEF Advance, TimelyLease
    <3>3. fuse'[w] = fuse[w] - 1
      BY <2>0, <3>2 DEF Minus
    <3>4. /\ leaseLeft'[held[w]] = leaseLeft[held[w]] - 1
          /\ leaseLeft'[held[w]] \in Nat /\ leaseLeft'[held[w]] # None
      BY <3>2, QueueAssumption DEF Advance, Tick
    <3>5. /\ txn'[w].op = txn[w].op /\ txn'[w].job = txn[w].job
          /\ txn'[w].dirty = txn[w].dirty
          /\ txn'[w] # NoTxn => txn[w] # NoTxn
          /\ txn[w].op = "heartbeat" => /\ txn[w].age \in Nat
                                        /\ txn'[w].age \in {txn[w].age, txn[w].age + 1}
      <4>1. CASE txn[w] = NoTxn
        BY <4>1 DEF Advance, Tick, NoTxn, Sessions
      <4>2. CASE txn[w] # NoTxn
        <5>1. txn[w] \in Txns /\ txn[w].age \in Nat
          BY <4>2, AgeCapNat DEF LeaseInv, WTypeInv, WTypeOK, TypeOK, Txns, Sessions
        <5> QED
          BY <4>2, <5>1 DEF Advance, Tick, Txns, Sessions
      <4> QED
        BY <4>1, <4>2
    <3>6. txn'[w].op = "heartbeat" => txn'[w].age + fuse'[w] <= Slow
      BY <2>2, <3>1, <3>2, <3>3, <3>5, TimelyNumbers DEF WorkerOK
    <3>7. /\ leaseLeft'[held[w]] > fuse'[w]
          /\ Renewing(w) => leaseLeft'[held[w]] > fuse'[w] + Slow
      BY <2>2, <3>1, <3>2, <3>3, <3>4, TimelyNumbers DEF WorkerOK
    <3> QED
      BY <2>0, <2>2, <3>1, <3>4, <3>5, <3>6, <3>7 DEF WorkerOK, Owns, Renewing
  <2> QED
    BY <2>1, <2>2
<1>2. \A j \in Jobs : JobOK(j)'
  BY DEF Advance, Tick, LeaseInv, JobOK
<1> QED
  BY <1>1, <1>2 DEF LeaseInv

LEMMA WInitLeaseInv == WInit => LeaseInv
<1> SUFFICES ASSUME WInit PROVE LeaseInv
  OBVIOUS
<1>1. WTypeInv
  BY WInitType
<1>2. \A w \in Workers : WorkerOK(w)
  BY DEF WInit, Init, WorkerOK, Sessions
<1>3. \A j \in Jobs : JobOK(j)
  BY QueueAssumption DEF WInit, Init, JobOK
<1> QED
  BY <1>1, <1>2, <1>3 DEF LeaseInv

LEMMA WNextLeaseInv ==
  ASSUME TimelyLease
  PROVE  LeaseInv /\ [WNext]_vars => LeaseInv'
<1> SUFFICES ASSUME LeaseInv, [WNext]_vars
             PROVE  LeaseInv'
  OBVIOUS
<1>0. WTypeInv'
  BY WNextType DEF LeaseInv
<1>1. CASE \E j \in Jobs : Submit(j)
  BY <1>0, <1>1, SubmitLeaseInv
<1>2. ASSUME NEW w \in Workers, Poll(w)
      PROVE  LeaseInv'
  BY <1>0, <1>2, PollTakesLeaseInv, PollSweepsLeaseInv DEF Poll
<1>3. ASSUME NEW w \in Workers, TaskEnds(w)
      PROVE  LeaseInv'
  BY <1>0, <1>3, TaskEndsLeaseInv
<1>4. ASSUME NEW w \in Workers, Progress(w)
      PROVE  LeaseInv'
  BY <1>0, <1>4, HeartbeatBeginsLeaseInv, HeartbeatCommitsLeaseInv, SettleBeginsLeaseInv,
     SettleCommitsLeaseInv, NeverRefused DEF Progress
<1>5. ASSUME NEW w \in Workers, Trouble(w) \/ Stops(w) \/ Restart(w)
      PROVE  LeaseInv'
  BY <1>0, <1>5, TroubleLeaseInv
<1>6. CASE Advance
  BY <1>0, <1>6, AdvanceLeaseInv
<1>7. CASE UNCHANGED vars
  <2>1. \A w \in Workers : WorkerOK(w)'
    BY <1>7 DEF vars, LeaseInv, WorkerOK, Owns, Renewing
  <2>2. \A j \in Jobs : JobOK(j)'
    BY <1>7 DEF vars, LeaseInv, JobOK
  <2> QED
    BY <1>0, <2>1, <2>2 DEF LeaseInv
<1> QED
  BY <1>1, <1>2, <1>3, <1>4, <1>5, <1>6, <1>7 DEF WNext

-----------------------------------------------------------------------------
(* With a timely lease, whatever a worker runs is leased to it and the     *)
(* lease has not run out: live work is not handed to a second worker.      *)
THEOREM LiveWorkStaysLeased ==
  ASSUME TimelyLease
  PROVE  WSpec => []LiveWorkIsLeased
<1>1. LeaseInv => LiveWorkIsLeased
  BY HolderFacts DEF LiveWorkIsLeased, Owns
<1> QED
  BY <1>1, WInitLeaseInv, WNextLeaseInv, PTL DEF WSpec

(* With a timely lease no two workers run the same job. *)
THEOREM NoTwoHandlers ==
  ASSUME TimelyLease
  PROVE  WSpec => []OneHandlerPerJob
<1>1. LeaseInv => OneHandlerPerJob
  BY HeldApart DEF OneHandlerPerJob
<1> QED
  BY <1>1, WInitLeaseInv, WNextLeaseInv, PTL DEF WSpec

(* With a timely lease no job is handed out more than MaxAttempts times. *)
THEOREM AttemptsStayWithinLimit ==
  ASSUME TimelyLease
  PROVE  WSpec => []AttemptsWithinLimit
<1>1. LeaseInv => AttemptsWithinLimit
  BY DEF LeaseInv, JobOK, AttemptsWithinLimit
<1> QED
  BY <1>1, WInitLeaseInv, WNextLeaseInv, PTL DEF WSpec

(* With a timely lease a worker is never refused the job it runs, neither  *)
(* when a heartbeat renews it nor when the worker completes or fails it    *)
(* (_owned_lease).                                                         *)
THEOREM RefusalsDoNotHappen ==
  ASSUME TimelyLease
  PROVE  WSpec => /\ [][\A w \in Workers : ~HeartbeatRefused(w)]_vars
                  /\ RefusalNeverEndsWorker
<1>1. LeaseInv => \A w \in Workers : ~HeartbeatRefused(w)
  BY NeverRefused
<1>2. LeaseInv => \A w \in Workers : ~SettleRefused(w)
  BY NeverRefused
<1> QED
  BY <1>1, <1>2, WInitLeaseInv, WNextLeaseInv, PTL DEF WSpec, RefusalNeverEndsWorker

(* The step of the invariant that keeps finished jobs: the only UPDATE of  *)
(* a row comes from a worker that holds its job, and that row is leased.   *)
LEMMA FinishedStep ==
  ASSUME TimelyLease, LeaseInv, [WNext]_vars, NEW j \in Jobs, status[j] \in Terminal
  PROVE  status'[j] = status[j]
<1>1. status[j] \notin {"absent", "pending", "leased"}
  BY DEF Terminal
<1>2. CASE \E i \in Jobs : Submit(i)
  BY <1>1, <1>2 DEF Submit, Enqueue, LeaseInv, WTypeInv, WTypeOK, TypeOK
<1>3. ASSUME NEW w \in Workers, Poll(w)
      PROVE  status'[j] = status[j]
  BY <1>1, <1>3 DEF Poll, PollTakes, PollSweeps, Claim, ClaimNothing, Claimable, Exhausted
<1>4. ASSUME NEW w \in Workers, Progress(w)
      PROVE  status'[j] = status[j]
  <2>1. CASE SettleCommits(w)
    <3>1. Flush(w) /\ txn[w].op # "none"
      BY <2>1 DEF SettleCommits, CompleteWrite, FailWrite
    <3>2. txn[w].job # j
      BY <1>1, <3>1, TxnFacts, HolderFacts
    <3> QED
      BY <3>1, <3>2 DEF Flush, LeaseInv, WTypeInv, WTypeOK, TypeOK
  <2>2. CASE ~SettleCommits(w)
    BY <1>4, <2>2 DEF Progress, HeartbeatBegins, HeartbeatRead, HeartbeatCommits, HeartbeatWrite,
       HeartbeatRefused, SettleBegins, CompleteRead, FailRead, SettleRefused, Open,
       rowVars, queueVars
  <2> QED
    BY <2>1, <2>2
<1>5. ASSUME NEW w \in Workers, TaskEnds(w) \/ Trouble(w) \/ Stops(w) \/ Restart(w)
      PROVE  status'[j] = status[j]
  BY <1>5 DEF TaskEnds, Trouble, PollFails, HeartbeatFails, SettleFails, Crash, StopSignal,
     Stops, Restart, Rollback, rowVars, queueVars
<1>6. CASE Advance
  BY <1>6 DEF Advance, Tick
<1>7. CASE UNCHANGED vars
  BY <1>7 DEF vars
<1> QED
  BY <1>2, <1>3, <1>4, <1>5, <1>6, <1>7 DEF WNext

(* With a timely lease a completed or failed job is never reopened. *)
THEOREM FinishedStaysFinal ==
  ASSUME TimelyLease
  PROVE  WSpec => FinishedIsFinal
<1>1. LeaseInv /\ [WNext]_vars =>
        [\A j \in Jobs : status[j] \in Terminal => status'[j] = status[j]]_vars
  BY FinishedStep
<1> QED
  BY <1>1, WInitLeaseInv, WNextLeaseInv, PTL DEF WSpec, FinishedIsFinal

-----------------------------------------------------------------------------
(* The refinement: the queue and its workers keep the contract.            *)
HolderIn(h, j) ==
  IF \E w \in Workers : h[w] = j THEN CHOOSE w \in Workers : h[w] = j ELSE None

LEMMA HolderInUnique ==
  ASSUME NEW h, NEW w \in Workers, NEW j, h[w] = j, \A v \in Workers : h[v] = j => v = w
  PROVE  HolderIn(h, j) = w
BY DEF HolderIn

LEMMA HolderInNone ==
  ASSUME NEW h, NEW j, \A v \in Workers : h[v] # j
  PROVE  HolderIn(h, j) = None
BY DEF HolderIn

LEMMA HolderIsHolderIn == \A j : Holder(j) = HolderIn(held, j) /\ Holder(j)' = HolderIn(held', j)
BY DEF Holder, HolderIn

LEMMA HolderOfHeld ==
  ASSUME LeaseInv, NEW w \in Workers, held[w] # None
  PROVE  Holder(held[w]) = w
BY HeldApart, HolderInUnique, HolderIsHolderIn

LEMMA AbandonedHasNoHolder ==
  ASSUME LeaseInv, NEW j \in Jobs, Claimable(j) \/ Exhausted(j)
  PROVE  Holder(j) = None /\ \A w \in Workers : held[w] # j
<1>1. \A w \in Workers : held[w] # j
  BY HolderFacts, QueueAssumption
<1> QED
  BY <1>1, HolderInNone, HolderIsHolderIn

LEMMA StutterKeeps ==
  ASSUME UNCHANGED <<status, attempts, held>>
  PROVE  UNCHANGED Contract!contractVars
<1>1. \A j : Phase(j)' = Phase(j) /\ Holder(j)' = Holder(j)
  BY DEF Phase, Holder
<1> QED
  BY <1>1 DEF Contract!contractVars

LEMMA LetGoHolder ==
  ASSUME LeaseInv, NEW w \in Workers, held' = [held EXCEPT ![w] = None], NEW j \in Jobs
  PROVE  Holder(j)' = IF j = held[w] THEN None ELSE Holder(j)
<1>1. CASE j = held[w]
  <2>1. \A v \in Workers : held'[v] # j
    BY <1>1, HeldApart, QueueAssumption DEF LeaseInv, WTypeInv, WTypeOK
  <2> QED
    BY <1>1, <2>1, HolderInNone, HolderIsHolderIn
<1>2. CASE j # held[w]
  <2>1. \A v \in Workers : (held'[v] = j) <=> (held[v] = j)
    BY <1>2, QueueAssumption DEF LeaseInv, WTypeInv, WTypeOK
  <2> QED
    BY <1>2, <2>1 DEF Holder
<1> QED
  BY <1>1, <1>2

LEMMA LoseKeeps ==
  ASSUME LeaseInv, NEW w \in Workers, NEW to, Leave(w, to), UNCHANGED <<status, attempts>>
  PROVE  [Contract!Next]_(Contract!contractVars)
<1>1. CASE held[w] = None
  <2>1. held' = held
    BY <1>1 DEF Leave, LeaseInv, WTypeInv, WTypeOK
  <2> QED
    BY <2>1, StutterKeeps
<1>2. CASE held[w] # None
  <2>1. held[w] \in Jobs /\ Holder(held[w]) = w /\ w # None
    BY <1>2, HolderFacts, HolderOfHeld, QueueAssumption
  <2>2. \A j \in Jobs : Holder(j)' = IF j = held[w] THEN None ELSE Holder(j)
    BY LetGoHolder DEF Leave
  <2>3. \A j \in Jobs : Phase(j)' = Phase(j)
    BY DEF Phase
  <2>4. Contract!Lose(held[w])
    BY <2>1, <2>2, <2>3 DEF Contract!Lose
  <2> QED
    BY <2>1, <2>4 DEF Contract!Next
<1> QED
  BY <1>1, <1>2

LEMMA SubmitKeeps ==
  ASSUME LeaseInv, NEW j \in Jobs, Submit(j)
  PROVE  Contract!Submit(j)
<1>1. /\ status[j] = "absent" /\ status' = [status EXCEPT ![j] = "pending"]
      /\ attempts' = attempts /\ held' = held
  BY DEF Submit, Enqueue, workerVars
<1>2. \A i \in Jobs : Holder(i)' = Holder(i)
  BY <1>1 DEF Holder
<1>3. /\ Phase(j) = "absent" /\ Phase(j)' = "waiting"
      /\ \A i \in Jobs : i # j => Phase(i)' = Phase(i)
  BY <1>1 DEF Phase, LeaseInv, WTypeInv, WTypeOK, TypeOK
<1> QED
  BY <1>1, <1>2, <1>3 DEF Contract!Submit

(* the jobs a claim sweeps: abandoned, and out of attempts *)
Swept == {i \in Jobs : Exhausted(i)}

LEMMA SweptAreSpent ==
  ASSUME LeaseInv
  PROVE  \A i \in Swept : Phase(i) = "held" /\ Holder(i) = None /\ attempts[i] = MaxAttempts
<1> SUFFICES ASSUME NEW i \in Jobs, Exhausted(i)
             PROVE  Phase(i) = "held" /\ Holder(i) = None /\ attempts[i] = MaxAttempts
  BY DEF Swept
<1>1. attempts[i] = MaxAttempts
  BY QueueAssumption DEF Exhausted, LeaseInv, JobOK, WTypeInv, WTypeOK, TypeOK
<1> QED
  BY <1>1, AbandonedHasNoHolder DEF Exhausted, Phase

LEMMA PollSweepsKeeps ==
  ASSUME LeaseInv, NEW w \in Workers, PollSweeps(w)
  PROVE  Contract!Bury(Swept)
<1>1. /\ status' = [i \in Jobs |-> IF Exhausted(i) THEN "failed" ELSE status[i]]
      /\ attempts' = attempts /\ held' = held
  BY DEF PollSweeps, ClaimNothing, workerVars
<1>2. \A i \in Jobs : Holder(i)' = Holder(i)
  BY <1>1 DEF Holder
<1>3. \A i \in Jobs : Phase(i)' = IF i \in Swept THEN "buried" ELSE Phase(i)
  BY <1>1 DEF Phase, Swept
<1> QED
  BY <1>1, <1>2, <1>3, SweptAreSpent DEF Contract!Bury, Contract!Abandoned, Swept

LEMMA PollTakesKeeps ==
  ASSUME LeaseInv, NEW w \in Workers, NEW j \in Jobs, NEW lag, PollTakes(w, j, lag)
  PROVE  Contract!HandOut(w, j, Swept)
<1>1. /\ Claimable(j) /\ pc[w] = "idle"
      /\ status' = [i \in Jobs |-> IF i = j THEN "leased"
                                   ELSE IF Exhausted(i) THEN "failed" ELSE status[i]]
      /\ attempts' = [attempts EXCEPT ![j] = @ + 1]
      /\ held' = [held EXCEPT ![w] = j]
  BY DEF PollTakes, Claim
<1>2. held[w] = None /\ \A v \in Workers : held[v] # j
  BY <1>1, AbandonedHasNoHolder DEF LeaseInv, WorkerOK
<1>3. Holder(j)' = w
  <2>1. held'[w] = j /\ \A v \in Workers : held'[v] = j => v = w
    BY <1>1, <1>2 DEF LeaseInv, WTypeInv, WTypeOK
  <2>2. HolderIn(held', j) = w
    BY <2>1, HolderInUnique
  <2> QED
    BY <2>2, HolderIsHolderIn
<1>4. \A i \in Jobs : i # j => Holder(i)' = Holder(i)
  <2> SUFFICES ASSUME NEW i \in Jobs, i # j
               PROVE  Holder(i)' = Holder(i)
    OBVIOUS
  <2>1. \A v \in Workers : (held'[v] = i) <=> (held[v] = i)
    BY <1>1, <1>2, QueueAssumption DEF LeaseInv, WTypeInv, WTypeOK
  <2> QED
    BY <2>1 DEF Holder
<1>5. \A i \in Jobs : Holder(i) # w
  <2> SUFFICES ASSUME NEW i \in Jobs, \E v \in Workers : held[v] = i
               PROVE  Holder(i) # w
    BY QueueAssumption DEF Holder
  <2>1. PICK v \in Workers : held[v] = i
    OBVIOUS
  <2> QED
    BY <1>2, <2>1, HolderOfHeld, QueueAssumption
<1>6. /\ j \notin Swept /\ attempts[j] < MaxAttempts
      /\ Phase(j) = "waiting" \/ (Phase(j) = "held" /\ Holder(j) = None)
  BY <1>1, AbandonedHasNoHolder, QueueAssumption
  DEF Claimable, Exhausted, Swept, Phase, LeaseInv, JobOK, WTypeInv, WTypeOK, TypeOK
<1>7. \A i \in Jobs : Phase(i)' = IF i = j THEN "held"
                                  ELSE IF i \in Swept THEN "buried" ELSE Phase(i)
  BY <1>1 DEF Phase, Swept
<1> QED
  BY <1>1, <1>3, <1>4, <1>5, <1>6, <1>7, SweptAreSpent
  DEF Contract!HandOut, Contract!Idle, Contract!Abandoned, Swept

LEMMA SettleKeeps ==
  ASSUME LeaseInv, NEW w \in Workers, SettleCommits(w)
  PROVE  Contract!Finish(held[w]) \/ Contract!GiveUp(held[w])
<1>1. /\ Flush(w) /\ attempts' = attempts /\ Leave(w, "idle")
      /\ txn[w].op \in {"complete", "retry", "bury"}
  BY DEF SettleCommits, CompleteWrite, FailWrite
<1>2. held[w] # None /\ WorkerOK(w) /\ txn[w].job = held[w]
  BY <1>1, TxnFacts
<1>3. /\ held[w] \in Jobs /\ status[held[w]] = "leased"
      /\ Holder(held[w]) = w /\ w # None
  BY <1>2, HolderFacts, HolderOfHeld, QueueAssumption
<1>4. \A j \in Jobs : Holder(j)' = IF j = held[w] THEN None ELSE Holder(j)
  BY <1>1, LetGoHolder DEF Leave
<1>5. status' = [status EXCEPT ![held[w]] = Target(txn[w].op)]
  BY <1>1, <1>2 DEF Flush, WorkerOK
<1>6. \A j \in Jobs : j # held[w] => Phase(j)' = Phase(j)
  BY <1>5 DEF Phase, LeaseInv, WTypeInv, WTypeOK, TypeOK
<1>7. status'[held[w]] = Target(txn[w].op)
  BY <1>3, <1>5 DEF LeaseInv, WTypeInv, WTypeOK, TypeOK
<1> DEFINE j == held[w]
<1>8. ASSUME NEW i \in Jobs, i = held[w]
      PROVE  Phase(i)' = CASE txn[w].op = "complete" -> "done"
                           [] txn[w].op = "retry" -> "waiting"
                           [] txn[w].op = "bury" -> "buried"
  BY <1>1, <1>7, <1>8 DEF Phase, Target
<1>9. CASE txn[w].op = "complete"
  <2>1. Contract!Finish(held[w])
    BY <1>1, <1>3, <1>4, <1>6, <1>8, <1>9 DEF Contract!Finish
  <2> QED
    BY <2>1
<1>10. CASE txn[w].op \in {"retry", "bury"}
  <2>1. /\ txn[w].op = "retry" => attempts[held[w]] < MaxAttempts
        /\ txn[w].op = "bury" => ~(attempts[held[w]] < MaxAttempts)
    BY <1>2, <1>3, QueueAssumption DEF WorkerOK, LeaseInv, WTypeInv, WTypeOK, TypeOK
  <2>2. Contract!GiveUp(held[w])
    BY <1>1, <1>3, <1>4, <1>6, <1>8, <1>10, <2>1 DEF Contract!GiveUp
  <2> QED
    BY <2>2
<1> QED
  BY <1>1, <1>9, <1>10

LEMMA StepKeepsContract ==
  LeaseInv /\ [WNext]_vars => [Contract!Next]_(Contract!contractVars)
<1> SUFFICES ASSUME LeaseInv, [WNext]_vars
             PROVE  [Contract!Next]_(Contract!contractVars)
  OBVIOUS
<1>1. CASE \E j \in Jobs : Submit(j)
  BY <1>1, SubmitKeeps DEF Contract!Next
<1>2. ASSUME NEW w \in Workers, Poll(w)
      PROVE  Contract!Next
  BY <1>2, PollSweepsKeeps, PollTakesKeeps DEF Poll, Contract!Next, Swept
<1>3. ASSUME NEW w \in Workers, SettleCommits(w)
      PROVE  Contract!Next
  <2>1. held[w] \in Jobs
    BY <1>3, TxnFacts, HolderFacts DEF SettleCommits, CompleteWrite, FailWrite
  <2> QED
    BY <1>3, <2>1, SettleKeeps DEF Contract!Next
<1>4. ASSUME NEW w \in Workers, PollFails(w) \/ SettleFails(w) \/ Crash(w) \/ Stops(w)
      PROVE  [Contract!Next]_(Contract!contractVars)
  <2>1. PICK to : Leave(w, to) /\ UNCHANGED <<status, attempts>>
    BY <1>4 DEF PollFails, SettleFails, Crash, Stops, Rollback, rowVars, queueVars
  <2> QED
    BY <2>1, LoseKeeps
<1>5. ASSUME NEW w \in Workers,
             \/ TaskEnds(w) \/ HeartbeatBegins(w) \/ HeartbeatCommits(w) \/ SettleBegins(w)
             \/ HeartbeatFails(w) \/ StopSignal(w) \/ Restart(w)
      PROVE  UNCHANGED <<status, attempts, held>>
  BY <1>5 DEF TaskEnds, HeartbeatBegins, HeartbeatRead, HeartbeatCommits, HeartbeatWrite,
     SettleBegins, CompleteRead, FailRead, HeartbeatFails, HeartbeatRaises, StopSignal, Restart,
     Open, Rollback, rowVars, queueVars, workerVars
<1>6. CASE Advance \/ UNCHANGED vars
  BY <1>6, StutterKeeps DEF Advance, Tick, vars
<1> QED
  BY <1>1, <1>2, <1>3, <1>4, <1>5, <1>6, StutterKeeps, NeverRefused
  DEF WNext, Progress, Trouble

(* With a timely lease the queue and its workers implement the contract:   *)
(* every step of theirs is a step of JobContract or leaves it unchanged.   *)
THEOREM WorkersKeepContract ==
  ASSUME TimelyLease
  PROVE  WSpec => KeepsContract
<1>1. WInit => Contract!Init
  <2> SUFFICES ASSUME WInit PROVE Contract!Init
    OBVIOUS
  <2>1. \A j \in Jobs : Phase(j) = "absent" /\ Holder(j) = None
    BY QueueAssumption DEF WInit, Init, Phase, Holder
  <2> QED
    BY <2>1 DEF WInit, Init, Contract!Init
<1> QED
  BY <1>1, WInitLeaseInv, WNextLeaseInv, StepKeepsContract, PTL
  DEF WSpec, KeepsContract, Contract!Spec
=============================================================================
