-------------------------- MODULE OnlineEvaluation --------------------------
(***************************************************************************)
(* Answers of the API and their online evaluation.  A request is answered  *)
(* through the generation cache (RetrievalCitedAnswerService.answer), a    *)
(* sampled one is put into the job queue before the answer is returned     *)
(* (OnlineEvaluationSampler.submit), and a worker has it judged by every   *)
(* profile, each through the judge cache, and inserts one row per trace    *)
(* (build_online_judge_handler).                                           *)
(*                                                                         *)
(* The queue is that of JobContract, with one difference: a worker that    *)
(* has lost its lease may go on with its handler, as JobWorker's runs show *)
(* for a worker that stalls.                                               *)
(*                                                                         *)
(* A request is its own trace.  Failed answers are sampled as well: they   *)
(* are judged as the empty answer, response 0.                             *)
(***************************************************************************)
EXTENDS ResponseCache, Sequences

CONSTANTS
  Requests,     \* requests of /v1/answer
  Workers,
  Prompt,       \* the rendered prompt of each request
  Setups,       \* the requests that come, those selected_for_online_evaluation
                \* selects, and the judge profiles in order
  MaxAttempts,  \* JobSpec.max_attempts
  MaxFailures,  \* bound: failed calls (a failed repair goes with its first attempt)
  MaxLosses,    \* bound: lost leases and deaths of workers
  None

(* what a caller is given: a response, the calls it reports, whether it    *)
(* came from the cache                                                     *)
Outcomes == [response : Nat, usage : SUBSET Nat, hit : BOOLEAN]

ASSUME OnlineAssumption ==
  /\ Callers = Requests \cup Workers
  /\ Requests \cap Workers = {}
  /\ \A s \in Setups : /\ s.sampled \subseteq s.requests /\ s.requests \subseteq Requests
                       /\ Len(s.profiles) \in Nat \ {0}
                       /\ DOMAIN s.profiles = 1..Len(s.profiles)
  /\ MaxAttempts \in Nat \ {0} /\ MaxFailures \in Nat /\ MaxLosses \in Nat
  /\ None \notin Callers \cup Seq(Outcomes)

VARIABLES
  setup,                 \* one of Setups, fixed
  request,               \* where each request is
  reply,                 \* the answer it was given
  phase, tries, holder,  \* the job of each trace, as JobContract has it
  task,                  \* the handler each worker executes
  evaluation,            \* the rows of online_evaluations
  failures, losses

jobVars == <<phase, tries, holder>>
vars == <<setup, cacheVars, request, reply, jobVars, task, evaluation, failures, losses>>

Queue == INSTANCE JobContract WITH Jobs <- Requests

NoReply == [response |-> 0, usage |-> {}, hit |-> FALSE]
NoTask == [trace |-> None, verdicts |-> <<>>]

OInit ==
  /\ CInit
  /\ setup \in Setups
  /\ request = [u \in Requests |-> IF u \in setup.requests THEN "new" ELSE "never"]
  /\ reply = [u \in Requests |-> NoReply]
  /\ Queue!Init
  /\ task = [w \in Workers |-> NoTask]
  /\ evaluation = [u \in Requests |-> None]
  /\ failures = 0
  /\ losses = 0

Outcome(c) == [response |-> ask[c].response, usage |-> ask[c].usage, hit |-> ask[c].hit]

Failing == failures < MaxFailures /\ failures' = failures + 1

(* CachingGenerator and CachingJudge look for k; the lookup may fail *)
Looks(c, k) == (Asks(c, k) /\ UNCHANGED failures) \/ (Breaks(c) /\ Failing)

(* CachingGenerator and CachingJudge at work for one caller *)
Serves(c) ==
  /\ \/ (Stores(c) \/ Calls(c, "parsed")) /\ UNCHANGED failures
     \/ /\ IF ask[c].pc = "second" THEN UNCHANGED failures ELSE Failing
        /\ StoreFails(c) \/ \E r \in Responses \ {"parsed"} : Calls(c, r)
  /\ UNCHANGED <<request, reply, jobVars, task, evaluation, losses>>

-----------------------------------------------------------------------------
(* RetrievalCitedAnswerService.answer *)
Arrives(u) ==
  /\ request[u] = "new"
  /\ request' = [request EXCEPT ![u] = "asking"]
  /\ Looks(u, Prompt[u])
  /\ UNCHANGED <<reply, jobVars, task, evaluation, losses>>

(* CitedAnswerer.answer: a GenerationFailure is an answer too, any other   *)
(* error is the caller's                                                   *)
Generated(u) ==
  /\ request[u] = "asking"
  /\ \/ /\ Answered(u)
        /\ reply' = [reply EXCEPT ![u] = Outcome(u)]
        /\ request' = [request EXCEPT ![u] = IF u \in setup.sampled THEN "sampling" ELSE "replied"]
     \/ /\ ask[u].pc = "raised"
        /\ request' = [request EXCEPT ![u] = "error"]
        /\ UNCHANGED reply
  /\ Forgets(u)
  /\ UNCHANGED <<jobVars, task, evaluation, failures, losses>>

(* the job is enqueued, or that fails and is logged: the answer is given   *)
Samples(u) ==
  /\ request[u] = "sampling"
  /\ request' = [request EXCEPT ![u] = "replied"]
  /\ \/ Queue!Submit(u) /\ UNCHANGED failures
     \/ Failing /\ UNCHANGED jobVars
  /\ UNCHANGED <<cacheVars, reply, task, evaluation, losses>>

-----------------------------------------------------------------------------
Profiles == setup.profiles

Busy(w) == task[w].trace # None
Next1(w) == Len(task[w].verdicts) + 1
JudgeKey(w) ==
  LET u == task[w].trace IN <<Profiles[Next1(w)], Prompt[u], reply[u].response>>

(* Mutant: an abandoned job is not handed out again. *)
TakesWaiting(w, u) ==
  /\ ~Busy(w) /\ phase[u] = "waiting"
  /\ Queue!HandOut(w, u, {})
  /\ task' = [task EXCEPT ![w].trace = u]
  /\ UNCHANGED <<cacheVars, request, reply, evaluation, failures, losses>>

(* a worker is given the job of trace u *)
Takes(w, u) ==
  /\ ~Busy(w)
  /\ Queue!HandOut(w, u, {})
  /\ task' = [task EXCEPT ![w].trace = u]
  /\ UNCHANGED <<cacheVars, request, reply, evaluation, failures, losses>>

Sweeps ==
  /\ Queue!Bury({u \in Requests : Queue!Abandoned(u) /\ tries[u] = MaxAttempts})
  /\ phase' # phase
  /\ UNCHANGED <<cacheVars, request, reply, task, evaluation, failures, losses>>

(* the handler: the profiles one after the other, then the row *)
Judges(w) ==
  /\ Busy(w) /\ ask[w].pc = "quiet" /\ Next1(w) <= Len(Profiles)
  /\ Looks(w, JudgeKey(w))
  /\ UNCHANGED <<request, reply, jobVars, task, evaluation, losses>>

Judged(w) ==
  /\ Busy(w) /\ ask[w].pc = "answered"
  /\ task' = [task EXCEPT ![w].verdicts = Append(@, Outcome(w))]
  /\ Forgets(w)
  /\ UNCHANGED <<request, reply, jobVars, evaluation, failures, losses>>

Leaves(w) == task' = [task EXCEPT ![w] = NoTask]
Holds(w) == holder[task[w].trace] = w

(* ON CONFLICT (trace_id) DO NOTHING *)
RowOf(w) ==
  LET u == task[w].trace IN IF evaluation[u] = None THEN task[w].verdicts ELSE evaluation[u]

AllJudged(w) == Busy(w) /\ ask[w].pc = "quiet" /\ Next1(w) = Len(Profiles) + 1

(* Mutant: the INSERT has no ON CONFLICT, so that of a trace judged again  *)
(* raises.                                                                 *)
RecordsOnce(w) ==
  /\ AllJudged(w)
  /\ IF evaluation[task[w].trace] = None
     THEN /\ evaluation' = [evaluation EXCEPT ![task[w].trace] = task[w].verdicts]
          /\ task' = [task EXCEPT ![w].verdicts = Append(@, None)]
          /\ UNCHANGED jobVars
     ELSE /\ IF Holds(w) THEN Queue!GiveUp(task[w].trace) ELSE UNCHANGED jobVars
          /\ Leaves(w) /\ UNCHANGED evaluation
  /\ UNCHANGED <<cacheVars, request, reply, failures, losses>>

Records(w) ==
  /\ AllJudged(w)
  /\ evaluation' = [evaluation EXCEPT ![task[w].trace] = RowOf(w)]
  /\ task' = [task EXCEPT ![w].verdicts = Append(@, None)]
  /\ UNCHANGED <<cacheVars, request, reply, jobVars, failures, losses>>

(* Mutant: the job is complete when the first profile has judged. *)
ReturnsEarly(w) ==
  /\ Busy(w) /\ ask[w].pc = "quiet" /\ Next1(w) > 1
  /\ IF Holds(w) THEN Queue!Finish(task[w].trace) ELSE UNCHANGED jobVars
  /\ Leaves(w)
  /\ UNCHANGED <<cacheVars, request, reply, evaluation, failures, losses>>

(* the handler has returned; a worker without the lease is refused *)
Returns(w) ==
  /\ Busy(w) /\ Next1(w) > Len(Profiles) + 1
  /\ IF Holds(w) THEN Queue!Finish(task[w].trace) ELSE UNCHANGED jobVars
  /\ Leaves(w)
  /\ UNCHANGED <<cacheVars, request, reply, evaluation, failures, losses>>

(* the handler raises when a judge fails, or the database under its INSERT *)
Raises(w) ==
  /\ \/ Busy(w) /\ ask[w].pc \in {"failed", "raised"} /\ UNCHANGED failures
     \/ AllJudged(w) /\ Failing
  /\ IF Holds(w) THEN Queue!GiveUp(task[w].trace) ELSE UNCHANGED jobVars
  /\ Leaves(w) /\ Forgets(w)
  /\ UNCHANGED <<request, reply, evaluation, losses>>

(* the lease runs out under a worker that stalls *)
LosesLease(w) ==
  /\ Busy(w) /\ Holds(w) /\ losses < MaxLosses
  /\ Queue!Lose(task[w].trace)
  /\ losses' = losses + 1
  /\ UNCHANGED <<cacheVars, request, reply, task, evaluation, failures>>

Dies(w) ==
  /\ Busy(w) /\ losses < MaxLosses
  /\ IF Holds(w) THEN Queue!Lose(task[w].trace) ELSE UNCHANGED jobVars
  /\ losses' = losses + 1
  /\ Leaves(w) /\ Forgets(w)
  /\ UNCHANGED <<request, reply, evaluation, failures>>

(* the workers go on polling *)
PollsInVain ==
  /\ \A u \in Requests : request[u] \in {"never", "replied", "error"}
  /\ \A w \in Workers : ~Busy(w)
  /\ UNCHANGED vars

-----------------------------------------------------------------------------
Request(u) == Arrives(u) \/ Serves(u) \/ Generated(u) \/ Samples(u)

Work(w) ==
  \/ \E u \in Requests : Takes(w, u)
  \/ Judges(w) \/ Serves(w) \/ Judged(w) \/ Records(w) \/ Returns(w) \/ Raises(w)

ONext ==
  /\ UNCHANGED setup
  /\ \/ \E u \in Requests : Request(u)
     \/ \E w \in Workers : Work(w) \/ LosesLease(w) \/ Dies(w)
     \/ Sweeps
     \/ PollsInVain

OSpec == OInit /\ [][ONext]_vars

(* Requests and handlers run to their end, and a worker that has nothing   *)
(* to do asks for work.                                                    *)
OFairness ==
  /\ \A u \in Requests : WF_vars(Request(u) /\ UNCHANGED setup)
  /\ \A w \in Workers : WF_vars(Work(w) /\ UNCHANGED setup)
  /\ WF_vars(Sweeps /\ UNCHANGED setup)
FairOSpec == OSpec /\ OFairness

-----------------------------------------------------------------------------
OTypeOK ==
  /\ CTypeOK
  /\ request \in [Requests -> {"never", "new", "asking", "sampling", "replied", "error"}]
  /\ phase \in [Requests -> {"absent", "waiting", "held", "done", "buried"}]
  /\ tries \in [Requests -> 0..MaxAttempts]
  /\ holder \in [Requests -> Workers \cup {None}]
  /\ \A w \in Workers : task[w].trace \in Requests \cup {None}
  /\ failures \in 0..MaxFailures
  /\ losses \in 0..MaxLosses

(* A hit returns what the cache holds, now and at any later time: callers  *)
(* that overlap may each be given a response of their own, but nobody is   *)
(* ever given one response from the cache and somebody else another.       *)
Given(k) ==
  {reply[u].response : u \in {v \in Requests : reply[v].hit /\ Prompt[v] = k}}
    \cup {ask[c].response : c \in {d \in Callers : ask[d].hit /\ ask[d].key = k}}

Rows == {u \in Requests : evaluation[u] # None}
RowKey(u, n) == <<Profiles[n], Prompt[u], reply[u].response>>

HitsAgree ==
  /\ \A k \in DOMAIN cache : Given(k) \subseteq {cache[k]}
  /\ \A u \in Rows : \A n \in DOMAIN Profiles :
       evaluation[u][n].hit => evaluation[u][n].response = cache[RowKey(u, n)]

(* Every call of the provider whose usage the program saw is counted once: *)
(* an answer reports exactly the calls made for it, the failed attempt     *)
(* before a repair included, and no two answers or verdicts that are given *)
(* or stored report the same call.                                         *)
Reported ==
  {<<reply[u].usage, u>> : u \in Requests}
    \cup {<<evaluation[u][n].usage, <<u, n>>>> : u \in Rows, n \in DOMAIN Profiles}

SpendCountedOnce ==
  /\ \A c \in Callers : Answered(c) => ask[c].usage = ask[c].made \cap metered
  /\ \A x, y \in Reported : x # y => x[1] \cap y[1] = {}

(* A job that is done has left the verdicts of every profile. *)
DoneIsEvaluated ==
  \A u \in Requests : phase[u] = "done" =>
    evaluation[u] # None /\ Len(evaluation[u]) = Len(Profiles)

(* The attempts of a sample, but the one under way or the one that ended   *)
(* well, are no more than the failures and losses there have been.  That   *)
(* an earlier attempt has left verdicts in the cache, or the row, never    *)
(* uses up a later one (build_online_judge_handler): a job is given up     *)
(* only after MaxAttempts things went wrong.                               *)
AttemptsAreAccountedFor ==
  \A u \in Requests :
    tries[u] <= failures + losses
                  + (IF holder[u] # None \/ phase[u] = "done" THEN 1 ELSE 0)

(* A sample that has reached the queue is evaluated, or its attempts are   *)
(* used up.                                                                *)
EverySampleSettles ==
  \A u \in UNION {s.sampled : s \in Setups} : phase[u] # "absent" ~> (evaluation[u] # None \/ phase[u] = "buried")
=============================================================================
