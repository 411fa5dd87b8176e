----------------------------- MODULE EvalSystem -----------------------------
(***************************************************************************)
(* An evaluation from its submission to its end: the run and its job are   *)
(* written together (evaluation/service.py), the job is handed to workers  *)
(* under the contract of JobContract, which JobWorker is shown to keep,    *)
(* and its handler (build_evaluation_job_handler) executes the run.        *)
(*                                                                         *)
(* The runners are the workers.  There is one job, for its idempotency key *)
(* is the run.                                                             *)
(***************************************************************************)
EXTENDS EvalRunner

CONSTANTS
  MaxAttempts  \* JobSpec.max_attempts

ASSUME SystemAssumption ==
  /\ MaxAttempts \in Nat \ {0}
  /\ None \notin Runners

VARIABLES
  phase, tries, holder,  \* the job, as JobContract has it
  blamed                 \* history: a call of the runner has failed

Job == "job"
Queue == INSTANCE JobContract WITH Jobs <- {Job}, Workers <- Runners

jobVars == <<phase, tries, holder>>
sysVars == <<state, total, completed, pins, result, answer, judged, tx,
             pc, view, seen, pinned, skip, at, found, phase, tries, holder, blamed>>

SInit == RInit /\ Queue!Init /\ blamed = FALSE

-----------------------------------------------------------------------------
(* Mutant: the run is committed before its job is. *)
SubmitWithoutJob == Create /\ UNCHANGED <<runnerVars, jobVars, blamed>>

(* create_retrieval_evaluation with enqueue=True: one transaction *)
Submit == Create /\ Queue!Submit(Job) /\ UNCHANGED <<runnerVars, blamed>>

(* a worker claims the job and its handler starts *)
Take(w) ==
  /\ Queue!HandOut(w, Job, {})
  /\ Starts(w) \/ StartFails(w)
  /\ UNCHANGED blamed

Sweep == Queue!Bury({Job}) /\ phase' # phase /\ UNCHANGED <<vars, blamed>>

(* nothing is left to claim: the workers go on polling *)
PollsInVain == phase[Job] \in {"done", "buried"} /\ UNCHANGED sysVars

(* a search answered from another index than the variant's results *)
Drifts(w) ==
  /\ \/ pc[w] = "search" /\ at[w] <= Total
     \/ pc[w] = "pin"
  /\ pc'[w] = "mark"

Works(w) ==
  /\ Execute(w)
  /\ blamed' = (blamed \/ Drifts(w))
  /\ UNCHANGED jobVars

Stumbles(w) ==
  /\ \/ Raises(w) /\ blamed' = TRUE
     \/ MarkFails(w) /\ UNCHANGED blamed
  /\ UNCHANGED jobVars

(* run_once: _complete when the handler has returned, _fail when it raised *)
Settles(w) ==
  /\ Leaves(w)
  /\ \/ pc[w] = "returned" /\ Queue!Finish(Job)
     \/ pc[w] = "raised" /\ Queue!GiveUp(Job)
  /\ UNCHANGED blamed

(* a heartbeat raises: the handler is cancelled and the job given up, even *)
(* when the handler has just ended                                         *)
HeartbeatRaises(w) ==
  /\ Aborted(w) \/ Leaves(w)
  /\ Queue!GiveUp(Job)
  /\ UNCHANGED blamed

Dies(w) ==
  /\ Aborted(w) \/ Leaves(w)
  /\ Queue!Lose(Job)
  /\ UNCHANGED blamed

SNext ==
  \/ Submit
  \/ Sweep
  \/ PollsInVain
  \/ \E w \in Runners :
       Take(w) \/ Works(w) \/ Stumbles(w) \/ Settles(w) \/ HeartbeatRaises(w) \/ Dies(w)

SSpec == SInit /\ [][SNext]_sysVars

(* A worker that is up takes its next step, and some worker polls.         *)
FairSSpec ==
  /\ SSpec
  /\ WF_sysVars(Sweep \/ \E w \in Runners : Take(w))
  /\ \A w \in Runners : WF_sysVars(Works(w)) /\ WF_sysVars(Settles(w))

-----------------------------------------------------------------------------
STypeOK ==
  /\ RTypeOK
  /\ blamed \in BOOLEAN
  /\ phase \in [{Job} -> {"absent", "waiting", "held", "done", "buried"}]
  /\ tries \in [{Job} -> 0..MaxAttempts]
  /\ holder \in [{Job} -> Runners \cup {None}]

(* A run that says COMPLETED is whole, however often its worker died on    *)
(* the way: every query has a result, every selected one an answer, and    *)
(* every answer that can be judged its verdicts.                           *)
CompletedIsWhole ==
  state = "completed" =>
    /\ Stored = Items
    /\ Generation => \A i \in GenItems :
         answer[i] # None /\ (Judging /\ answer[i] = "usable" => judged[i])

(* pin_index_fingerprint's docstring: a variant's results come from one    *)
(* index, the one pinned for it, across crashes and resumptions.           *)
OneIndexPerVariant ==
  \A i \in Items : result[i] # None => pins[VariantOf(i)] = result[i]

(* completed_queries is exactly the number of results, at every moment at  *)
(* which the run can be read.                                              *)
ProgressIsExact == completed = Cardinality(Stored)

(* A run is marked FAILED only when something it called has failed: no     *)
(* check of the runner or the repository fails a run for being resumed.    *)
NoSpuriousFailure == state = "failed" => blamed

(* A run that has ended stays as it ended. *)
EndedIsFinal == [][(state \in Ended) => (state' = state)]_sysVars

(* README.md:604: work already committed is skipped.  No query is searched *)
(* again for a result the run has, no answer asked for again.              *)
CommittedWorkIsSkipped ==
  [][\A w \in Runners :
       /\ Searches(w) => result[at[w]] = None
       /\ Answers(w) => answer[at[w]] = None
       /\ Judges(w) => ~judged[at[w]]]_sysVars

(* Every submitted run comes to an end, or its job is buried.              *)
EveryRunEnds == state = "queued" ~> (state \in Ended \/ phase[Job] = "buried")

(* README.md:602-605: a failed job returns to the queue and, redelivered,  *)
(* resumes its run: no delivery finds the run failed already.              *)
RedeliveredJobResumes == [][\A w \in Runners : Take(w) => state # "failed"]_sysVars
=============================================================================
