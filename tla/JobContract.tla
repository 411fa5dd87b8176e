----------------------------- MODULE JobContract -----------------------------
(***************************************************************************)
(* What the job queue and its workers promise together, with no clock, no  *)
(* row and no transaction (README.md:599-605): a job is in the hands of at *)
(* most one worker, a job whose worker is gone is handed out again until   *)
(* its attempts are used up, and a job that is done or buried stays so.    *)
(***************************************************************************)
EXTENDS Naturals

CONSTANTS Jobs, Workers, MaxAttempts, None

VARIABLES
  phase,   \* "absent", "waiting", "held", "done" or "buried"
  tries,   \* how often the job has been handed out
  holder   \* the worker running the job now; a held job without one is abandoned

contractVars == <<phase, tries, holder>>

Init ==
  /\ phase = [j \in Jobs |-> "absent"]
  /\ tries = [j \in Jobs |-> 0]
  /\ holder = [j \in Jobs |-> None]

Abandoned(j) == phase[j] = "held" /\ holder[j] = None
Idle(w) == \A j \in Jobs : holder[j] # w

Submit(j) ==
  /\ phase[j] = "absent"
  /\ phase' = [phase EXCEPT ![j] = "waiting"]
  /\ UNCHANGED <<tries, holder>>

(* A worker asks for work: abandoned jobs without an attempt left are      *)
(* buried (Bury), and a job that has one may be handed to it (HandOut).    *)
Bury(B) ==
  /\ \A j \in B : Abandoned(j) /\ tries[j] = MaxAttempts
  /\ phase' = [j \in Jobs |-> IF j \in B THEN "buried" ELSE phase[j]]
  /\ UNCHANGED <<tries, holder>>

(* Mutants: the attempts are not counted; a job is handed out while its    *)
(* worker still runs it.                                                   *)
HandOutUnlimited(w, j, B) ==
  /\ Idle(w)
  /\ phase[j] = "waiting" \/ Abandoned(j)
  /\ B = {}
  /\ phase' = [phase EXCEPT ![j] = "held"]
  /\ tries' = [tries EXCEPT ![j] = @ + 1]
  /\ holder' = [holder EXCEPT ![j] = w]
HandOutTwice(w, j, B) ==
  /\ Idle(w)
  /\ phase[j] \in {"waiting", "held"} /\ tries[j] < MaxAttempts
  /\ B = {}
  /\ phase' = [phase EXCEPT ![j] = "held"]
  /\ tries' = [tries EXCEPT ![j] = @ + 1]
  /\ holder' = [holder EXCEPT ![j] = w]

HandOut(w, j, B) ==
  /\ Idle(w)
  /\ phase[j] = "waiting" \/ Abandoned(j)
  /\ tries[j] < MaxAttempts
  /\ \A i \in B : Abandoned(i) /\ tries[i] = MaxAttempts
  /\ phase' = [i \in Jobs |-> IF i = j THEN "held"
                              ELSE IF i \in B THEN "buried" ELSE phase[i]]
  /\ tries' = [tries EXCEPT ![j] = @ + 1]
  /\ holder' = [holder EXCEPT ![j] = w]

Finish(j) ==
  /\ holder[j] # None
  /\ phase' = [phase EXCEPT ![j] = "done"]
  /\ holder' = [holder EXCEPT ![j] = None]
  /\ UNCHANGED tries

GiveUp(j) ==
  /\ holder[j] # None
  /\ phase' = [phase EXCEPT ![j] = IF tries[j] < MaxAttempts THEN "waiting" ELSE "buried"]
  /\ holder' = [holder EXCEPT ![j] = None]
  /\ UNCHANGED tries

(* the worker is gone and did not say what became of the job *)
Lose(j) ==
  /\ holder[j] # None
  /\ holder' = [holder EXCEPT ![j] = None]
  /\ UNCHANGED <<phase, tries>>

Next ==
  \/ \E j \in Jobs : Submit(j) \/ Finish(j) \/ GiveUp(j) \/ Lose(j)
  \/ \E B \in SUBSET Jobs : Bury(B)
  \/ \E w \in Workers, j \in Jobs, B \in SUBSET Jobs : HandOut(w, j, B)

Spec == Init /\ [][Next]_contractVars
=============================================================================
