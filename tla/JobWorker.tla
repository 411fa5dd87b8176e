------------------------------ MODULE JobWorker ------------------------------
(***************************************************************************)
(* The worker processes of ragops (src/ragops/worker.py, _run_worker in    *)
(* cli.py) running over the job queue: the poll loop, the handler task and *)
(* the heartbeats that keep its lease, the settling of the job, and the    *)
(* ways a worker ends: a stop signal, an exception that leaves             *)
(* run_forever, and the death of the process.                              *)
(*                                                                         *)
(* fuse[w] counts the ticks until worker w must have taken its next step.  *)
(* A heartbeat falls due HeartbeatInterval ticks after the last one, and   *)
(* Slow is how late the worker may be, from the moment it should wake to   *)
(* the commit.  Unless MayStall, time does not pass a worker's fuse.  With *)
(* MayStall a worker may be arbitrarily late (a paused machine, a blocked  *)
(* event loop, a database that does not answer).                           *)
(***************************************************************************)
EXTENDS JobQueue

CONSTANTS
  MinimumInterval,  \* MINIMUM_HEARTBEAT_INTERVAL_SECONDS, in ticks
  Slow,             \* how late a worker may be, in ticks
  MayStall,         \* TRUE: no bound on how late a worker may be
  Stoppable         \* the workers that may be sent a stop signal

ASSUME WorkerAssumption ==
  /\ MinimumInterval \in Nat
  /\ Slow \in Nat
  /\ MayStall \in BOOLEAN
  /\ Stoppable \subseteq Workers

VARIABLES
  pc,     \* where run_forever is
  held,   \* the job run_once has claimed and not settled, or None
  task,   \* the handler of held: "running", or how _execute ended
  stop,   \* the stop event
  fuse    \* ticks within which the worker must take its next step

workerVars == <<pc, held, task, stop, fuse>>
vars == <<status, attempts, leasedBy, leaseLeft, delayLeft, txn, pc, held, task, stop, fuse>>

(* Mutant: one heartbeat per lease. *)
HeartbeatIntervalFull == Lease

(* max(lease / HEARTBEATS_PER_LEASE, MINIMUM_HEARTBEAT_INTERVAL_SECONDS),  *)
(* rounded up: a worker wakes at the first tick that is not too early.     *)
HeartbeatInterval ==
  LET third == (Lease + 2) \div 3
  IN IF third > MinimumInterval THEN third ELSE MinimumInterval

(* how old a claim's clock may be when the claim commits *)
Lags == 0..Slow

WInit ==
  /\ Init
  /\ pc = [w \in Workers |-> "idle"]
  /\ held = [w \in Workers |-> None]
  /\ task = [w \in Workers |-> "none"]
  /\ stop = [w \in Workers |-> FALSE]
  /\ fuse = [w \in Workers |-> 0]

Leave(w, to) ==
  /\ pc' = [pc EXCEPT ![w] = to]
  /\ held' = [held EXCEPT ![w] = None]
  /\ task' = [task EXCEPT ![w] = "none"]
  /\ fuse' = [fuse EXCEPT ![w] = 0]
  /\ UNCHANGED stop

-----------------------------------------------------------------------------
(* run_once: claim a job and start its handler, which raises at once when  *)
(* the worker has none for the job's kind (TaskEnds covers it).            *)
PollTakes(w, j, lag) ==
  /\ pc[w] = "idle" /\ ~stop[w]
  /\ Claim(w, j, lag)
  /\ pc' = [pc EXCEPT ![w] = "busy"]
  /\ held' = [held EXCEPT ![w] = j]
  /\ task' = [task EXCEPT ![w] = "running"]
  /\ fuse' = [fuse EXCEPT ![w] = HeartbeatInterval + Slow]
  /\ UNCHANGED stop

PollSweeps(w) ==
  /\ pc[w] = "idle" /\ ~stop[w]
  /\ ClaimNothing(w)
  /\ UNCHANGED workerVars

(* an error of the database during the claim leaves run_forever *)
PollFails(w) ==
  /\ pc[w] = "idle" /\ ~stop[w]
  /\ Leave(w, "exited")
  /\ UNCHANGED queueVars

(* The handler returns or raises.  A heartbeat under way is finished first. *)
TaskEnds(w) ==
  /\ pc[w] = "busy" /\ task[w] = "running"
  /\ \E outcome \in {"returned", "raised"} : task' = [task EXCEPT ![w] = outcome]
  /\ fuse' = IF txn[w] = NoTxn THEN [fuse EXCEPT ![w] = Slow] ELSE fuse
  /\ UNCHANGED <<queueVars, pc, held, stop>>

HeartbeatDue(w) ==
  pc[w] = "busy" /\ task[w] = "running" /\ txn[w] = NoTxn /\ fuse[w] <= Slow

HeartbeatBegins(w) ==
  /\ HeartbeatDue(w)
  /\ HeartbeatRead(w, held[w])
  /\ UNCHANGED workerVars

(* Mutant: the next heartbeat is counted from the end of the last window. *)
HeartbeatCommitsLate(w) ==
  /\ HeartbeatWrite(w)
  /\ fuse' = [fuse EXCEPT ![w] = IF task[w] = "running" THEN @ + HeartbeatInterval + Slow ELSE Slow]
  /\ UNCHANGED <<pc, held, task, stop>>

HeartbeatCommits(w) ==
  /\ HeartbeatWrite(w)
  /\ fuse' = [fuse EXCEPT ![w] = IF task[w] = "running" THEN HeartbeatInterval + Slow ELSE Slow]
  /\ UNCHANGED <<pc, held, task, stop>>

(* Mutant: the error of a heartbeat is logged and the handler goes on. *)
HeartbeatRaisesQuietly(w) ==
  /\ fuse' = [fuse EXCEPT ![w] = HeartbeatInterval + Slow]
  /\ UNCHANGED <<pc, held, task, stop>>

(* A heartbeat that raises ends _execute: the handler is cancelled if it   *)
(* has not ended, and the job goes to _fail even if it has returned.       *)
HeartbeatRaises(w) ==
  /\ task' = [task EXCEPT ![w] = "raised"]
  /\ fuse' = [fuse EXCEPT ![w] = Slow]
  /\ UNCHANGED <<pc, held, stop>>

HeartbeatRefused(w) ==
  /\ HeartbeatDue(w)
  /\ ~Owns(w, held[w])
  /\ HeartbeatRaises(w)
  /\ UNCHANGED queueVars

HeartbeatFails(w) ==
  /\ \/ HeartbeatDue(w) /\ UNCHANGED queueVars
     \/ txn[w].op = "heartbeat" /\ Rollback(w)
  /\ HeartbeatRaises(w)

-----------------------------------------------------------------------------
(* _complete and _fail run outside run_once's try: when they raise, the    *)
(* exception leaves run_forever.                                           *)
Settling(w) == pc[w] = "busy" /\ task[w] \in {"returned", "raised"}

SettleBegins(w) ==
  /\ Settling(w)
  /\ \/ task[w] = "returned" /\ CompleteRead(w, held[w])
     \/ task[w] = "raised" /\ FailRead(w, held[w])
  /\ UNCHANGED workerVars

SettleCommits(w) ==
  /\ CompleteWrite(w) \/ FailWrite(w)
  /\ Leave(w, "idle")

SettleRefused(w) ==
  /\ Settling(w) /\ txn[w] = NoTxn
  /\ ~Owns(w, held[w])
  /\ Leave(w, "exited")
  /\ UNCHANGED queueVars

SettleFails(w) ==
  /\ Settling(w)
  /\ \/ txn[w] = NoTxn /\ UNCHANGED queueVars
     \/ txn[w].op # "heartbeat" /\ Rollback(w)
  /\ Leave(w, "exited")

-----------------------------------------------------------------------------
(* The stop event is read at the head of the loop only. *)
StopSignal(w) ==
  /\ w \in Stoppable /\ ~stop[w]
  /\ pc[w] \in {"idle", "busy"}
  /\ stop' = [stop EXCEPT ![w] = TRUE]
  /\ UNCHANGED <<queueVars, pc, held, task, fuse>>

Stops(w) ==
  /\ pc[w] = "idle" /\ stop[w]
  /\ Leave(w, "stopped")
  /\ UNCHANGED queueVars

(* The process dies: the server rolls its transaction back. *)
Crash(w) ==
  /\ pc[w] \in {"idle", "busy"}
  /\ \/ txn[w] = NoTxn /\ UNCHANGED queueVars
     \/ Rollback(w)
  /\ Leave(w, "down")

(* The supervisor (compose.yaml, the ECS service) starts the worker again; *)
(* with --worker-id it comes back under the same name.                     *)
Restart(w) ==
  /\ pc[w] \in {"down", "exited"}
  /\ pc' = [pc EXCEPT ![w] = "idle"]
  /\ stop' = [stop EXCEPT ![w] = FALSE]
  /\ UNCHANGED <<queueVars, held, task, fuse>>

Submit(j) == \E delay \in {0, RetryDelay} : Enqueue(j, delay) /\ UNCHANGED workerVars

Advance ==
  /\ MayStall \/ \A w \in Workers : pc[w] = "busy" => fuse[w] > 0
  /\ Tick
  /\ fuse' = [w \in Workers |-> Minus(fuse[w], 1)]
  /\ UNCHANGED <<pc, held, task, stop>>

Poll(w) == PollSweeps(w) \/ \E j \in Jobs, lag \in Lags : PollTakes(w, j, lag)

Progress(w) ==
  \/ HeartbeatBegins(w) \/ HeartbeatCommits(w) \/ HeartbeatRefused(w)
  \/ SettleBegins(w) \/ SettleCommits(w) \/ SettleRefused(w)

Trouble(w) ==
  PollFails(w) \/ HeartbeatFails(w) \/ SettleFails(w) \/ Crash(w) \/ StopSignal(w)

WNext ==
  \/ \E j \in Jobs : Submit(j)
  \/ \E w \in Workers : Poll(w) \/ TaskEnds(w) \/ Progress(w) \/ Trouble(w)
                        \/ Stops(w) \/ Restart(w)
  \/ Advance

WSpec == WInit /\ [][WNext]_vars

(* Time passes; a process takes the step it is ready for; a supervisor     *)
(* restarts what died; and a worker that keeps coming back to its loop     *)
(* polls, however often it dies in between.                                *)
Upkeep ==
  /\ WF_vars(Advance)
  /\ \A w \in Workers : WF_vars(Progress(w)) /\ WF_vars(Restart(w)) /\ SF_vars(Poll(w))

FairWSpec == WSpec /\ Upkeep

-----------------------------------------------------------------------------
WTypeOK ==
  /\ TypeOK
  /\ pc \in [Workers -> {"idle", "busy", "exited", "stopped", "down"}]
  /\ held \in [Workers -> Jobs \cup {None}]
  /\ task \in [Workers -> {"none", "running", "returned", "raised"}]
  /\ stop \in [Workers -> BOOLEAN]
  /\ fuse \in [Workers -> 0..(HeartbeatInterval + Slow)]

(* A lease that outlives its worker's lateness: one heartbeat interval and *)
(* three late steps fit in it (the renewal that is late, the commit of the *)
(* one before, and the settling of a job whose heartbeat failed).          *)
TimelyLease == ~MayStall /\ Lease > HeartbeatInterval + 3 * Slow

(* The comment at worker.py:26 and README.md:600: live work is not handed  *)
(* to a second worker.  Whatever a worker is running is leased to it, and  *)
(* the lease has not run out.                                              *)
LiveWorkIsLeased ==
  \A w \in Workers :
    held[w] # None => Owns(w, held[w]) /\ leaseLeft[held[w]] # 0

(* The same between two workers: no two of them run one job. *)
OneHandlerPerJob ==
  \A v, w \in Workers : held[v] # None /\ held[v] = held[w] => v = w

(* The attempt limit: a job is not handed out more than max_attempts times. *)
AttemptsWithinLimit == \A j \in Jobs : attempts[j] <= MaxAttempts

(* The stale-worker protection of README.md:220: a job that is finished is *)
(* never reopened or relabelled.                                           *)
FinishedIsFinal ==
  [][\A j \in Jobs : status[j] \in Terminal => status'[j] = status[j]]_vars

(* run_forever's docstring: a worker leaves its loop when it is told to    *)
(* stop.  States the part of it that is not about database errors.         *)
RefusalNeverEndsWorker ==
  [][\A w \in Workers : ~SettleRefused(w)]_vars

(* The comment at worker.py:158: a handler does not go on against a lease   *)
(* its worker no longer holds.  However late a worker was, once its job is *)
(* no longer leased to it, it learns of it and lets the job go, even when  *)
(* the handler would hang.                                                 *)
StrayHandlerStops ==
  \A w \in Workers, j \in Jobs : (held[w] = j /\ ~Owns(w, j)) ~> held[w] # j

(* A submitted job is completed or failed in the end, whatever crashes,    *)
(* errors and restarts happen and however late workers are, as long as     *)
(* some worker is not stopped and handlers do not hang.                    *)
HandlersEnd == \A w \in Workers : WF_vars(TaskEnds(w))

EveryJobSettles ==
  HandlersEnd =>
    \A j \in Jobs : status[j] = "pending" ~> status[j] \in {"completed", "failed"}

(* The queue and its workers keep the contract of module JobContract.      *)
Phase(j) ==
  CASE status[j] = "pending" -> "waiting"
    [] status[j] = "leased" -> "held"
    [] status[j] = "completed" -> "done"
    [] status[j] = "failed" -> "buried"
    [] OTHER -> status[j]

Holder(j) ==
  IF \E w \in Workers : held[w] = j THEN CHOOSE w \in Workers : held[w] = j ELSE None

Contract == INSTANCE JobContract
  WITH phase <- [j \in Jobs |-> Phase(j)],
       tries <- attempts,
       holder <- [j \in Jobs |-> Holder(j)]

KeepsContract == Contract!Spec
=============================================================================
