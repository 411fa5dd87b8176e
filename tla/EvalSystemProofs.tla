-------------------------- MODULE EvalSystemProofs --------------------------
(***************************************************************************)
(* What holds of an evaluation from its submission to its end, for any     *)
(* number of workers, attempts, queries, variants and indexes, whatever    *)
(* workers die and whatever calls fail on the way.                         *)
(***************************************************************************)
EXTENDS EvalSystem, EvalRunnerProofs

(***************************************************************************)
(* The invariant.  At most one runner is under way, the one that holds the *)
(* job, and nobody else writes to the run.  So what it read is still there *)
(* when it writes: its copy of the state and of the pins is the row's, the *)
(* row its transaction would write is the row as it is with the one change *)
(* its point asks for, and each loop has done what lies before it.         *)
(***************************************************************************)
StatePoints == {"claim", "begin", "leave", "answered", "judged", "score"}

(* the states the run may be in while its runner is at point p *)
StatesAt(p) ==
  CASE p = "claim" -> {"queued"}
    [] p = "load" -> {"preparing", "retrieving", "generating", "judging", "scoring"}
    [] p = "size" -> {"preparing", "retrieving"}
    [] p = "begin" -> {"preparing"}
    [] p = "list" -> {"retrieving", "generating", "judging"}
    [] p \in {"search", "pin", "store", "leave"} -> {"retrieving"}
    [] p \in {"answer", "answered"} -> {"generating"}
    [] p \in {"judge", "judged"} -> {"judging"}
    [] p = "score" -> {"scoring"}
    [] OTHER -> States \ (Ended \cup {"absent"})

Synced(r) ==
  /\ pc[r] \in Running => state \in StatesAt(pc[r])
  /\ pc[r] \in Points => view[r] = state /\ pinned[r] = pins
  /\ pc[r] \in {"claim", "load", "size"} => seen[r] = completed

(* the row a transaction opened at this point writes *)
NewRow(r) ==
  CASE pc[r] \in StatePoints -> [Row EXCEPT !.state = Target(pc[r])]
    [] pc[r] = "size" -> [Row EXCEPT !.completed = seen[r], !.total = Total]
    [] pc[r] = "pin" -> [Row EXCEPT !.pins[VariantOf(at[r])] = found[r]]
    [] pc[r] = "store" -> [Row EXCEPT !.completed = Cardinality(Stored) + 1]
    [] pc[r] = "mark" -> [Row EXCEPT !.state = "failed"]
    [] OTHER -> Row

Current(r) ==
  tx[r] # NoTx =>
    /\ tx[r].row = NewRow(r)
    /\ tx[r].dirty = {c \in Columns : tx[r].row[c] # Row[c]}
    /\ pc[r] = "store" => tx[r].value = found[r]

(* what the loops have behind them, and what is still before them *)
Behind(r, i) == i < at[r] \/ i \in skip[r]

SearchLoop(r) ==
  /\ pc[r] \in {"search", "pin", "store"} =>
       \A i \in Items : Behind(r, i) <=> result[i] # None
  /\ pc[r] \in {"pin", "store"} => at[r] \notin skip[r]
  /\ pc[r] = "pin" => pins[VariantOf(at[r])] = None
  /\ pc[r] = "store" => pins[VariantOf(at[r])] = found[r]

AnswerLoop(r) ==
  pc[r] = "answer" => \A i \in Items : ~Behind(r, i) => answer[i] = None

HasVerdicts == Judging => \A i \in GenItems : answer[i] = "usable" => judged[i]

JudgeLoop(r) ==
  /\ pc[r] = "judge" =>
       \A i \in Items :
         /\ ~Behind(r, i) => ~judged[i]
         /\ Behind(r, i) /\ i \in GenItems /\ answer[i] = "usable" => judged[i]
  /\ pc[r] = "judged" => HasVerdicts

Steady(r) == Synced(r) /\ Current(r) /\ SearchLoop(r) /\ AnswerLoop(r) /\ JudgeLoop(r)

JobTypeOK ==
  /\ blamed \in BOOLEAN
  /\ phase \in [{Job} -> {"absent", "waiting", "held", "done", "buried"}]
  /\ tries \in [{Job} -> 0..MaxAttempts]
  /\ holder \in [{Job} -> Runners \cup {None}]

OnlyHolderRuns ==
  /\ holder[Job] # None => phase[Job] = "held"
  /\ \A r \in Runners : pc[r] # "off" <=> holder[Job] = r
  /\ \A c \in Clients : tx[c] = NoTx

TablesAgree ==
  /\ completed = Cardinality(Stored)
  /\ \A i \in Items : result[i] # None => pins[VariantOf(i)] = result[i]
  /\ state \in {"scoring", "completed"} => HasVerdicts

Blame ==
  /\ state = "failed" => blamed
  /\ \A r \in Runners : pc[r] = "mark" => blamed

SInv ==
  /\ StagesInv
  /\ JobTypeOK
  /\ OnlyHolderRuns
  /\ TablesAgree
  /\ Blame
  /\ \A r \in Runners : Steady(r)

(* Whatever the system does is, for the run, a step of its runners.        *)
LEMMA Projects ==
  ASSUME [SNext]_sysVars
  PROVE  [RNext]_vars
<1>1. CASE Submit
  BY <1>1 DEF Submit, RNext
<1>2. CASE Sweep \/ PollsInVain \/ UNCHANGED sysVars
  BY <1>2 DEF Sweep, PollsInVain, sysVars, vars
<1>3. ASSUME NEW w \in Runners,
             Take(w) \/ Works(w) \/ Stumbles(w) \/ Settles(w) \/ HeartbeatRaises(w) \/ Dies(w)
      PROVE  RNext
  BY <1>3 DEF Take, Works, Stumbles, Settles, HeartbeatRaises, Dies, RNext
<1> QED
  BY <1>1, <1>2, <1>3 DEF SNext

-----------------------------------------------------------------------------
(* Where no transaction can be open. *)
LEMMA NoTxAt ==
  ASSUME RInv, NEW r \in Runners, pc[r] \notin RowPoints \cup {"store", "answer"}
  PROVE  tx[r] = NoTx
BY DEF RInv, Wired

(* A step that leaves the tables alone. *)
LEMMA TablesQuiet ==
  ASSUME UNCHANGED tableVars
  PROVE  /\ Row' = Row /\ Stored' = Stored
         /\ HasVerdicts' = HasVerdicts
         /\ TablesAgree => TablesAgree'
<1>1. /\ state' = state /\ total' = total /\ completed' = completed /\ pins' = pins
      /\ result' = result /\ answer' = answer /\ judged' = judged
  BY DEF tableVars
<1>2. Row' = Row /\ Stored' = Stored
  BY <1>1 DEF Row, Stored
<1>3. HasVerdicts' = HasVerdicts
  BY <1>1 DEF HasVerdicts
<1> QED
  BY <1>1, <1>2, <1>3 DEF TablesAgree

LEMMA StoreQuiet == UNCHANGED storeVars => UNCHANGED tableVars /\ tx' = tx
BY DEF storeVars, tableVars

(* A runner that is not under way has nothing to keep. *)
LEMMA OffSteady ==
  ASSUME NEW r \in Runners, tx'[r] = NoTx, pc'[r] \in {"off", "returned", "raised"}
  PROVE  Steady(r)'
BY DEF Steady, Synced, Current, SearchLoop, AnswerLoop, JudgeLoop, Running, Points

(* A transaction has been opened for what the runner's point asks for. *)
LEMMA OpenSteady ==
  ASSUME StoreTypeOK, NEW r \in Runners, Steady(r), TablesAgree, UNCHANGED runnerVars,
         NEW table, NEW i, NEW x, Open(r, table, i, x, NewRow(r)),
         pc[r] = "store" => x = found[r]
  PROVE  Steady(r)' /\ TablesAgree' /\ state' = state /\ pc'[r] = pc[r]
<1>0. r \in Callers
  BY DEF Callers
<1>1. /\ pc' = pc /\ view' = view /\ seen' = seen /\ pinned' = pinned
      /\ skip' = skip /\ at' = at /\ found' = found
  BY DEF runnerVars
<1>2. UNCHANGED tableVars
  BY DEF Open
<1>3. /\ Row' = Row /\ Stored' = Stored /\ HasVerdicts' = HasVerdicts /\ TablesAgree'
  BY <1>2, TablesQuiet
<1>4. /\ state' = state /\ completed' = completed /\ pins' = pins
      /\ result' = result /\ answer' = answer /\ judged' = judged
  BY <1>2 DEF tableVars
<1>5. NewRow(r)' = NewRow(r)
  BY <1>1, <1>3 DEF NewRow
<1>6. /\ tx'[r].row = NewRow(r)
      /\ tx'[r].dirty = {c \in Columns : NewRow(r)[c] # Row[c]}
      /\ tx'[r].value = x
  BY <1>0 DEF Open, StoreTypeOK
<1>7. Current(r)'
  BY <1>1, <1>3, <1>5, <1>6 DEF Current
<1>8. Synced(r)'
  BY <1>1, <1>4 DEF Steady, Synced
<1>9. SearchLoop(r)' /\ AnswerLoop(r)' /\ JudgeLoop(r)'
  BY <1>1, <1>3, <1>4 DEF Steady, SearchLoop, AnswerLoop, JudgeLoop, Behind
<1> QED
  BY <1>1, <1>3, <1>4, <1>7, <1>8, <1>9 DEF Steady

(* A commit writes the row its transaction meant to write.                 *)
LEMMA CommitWrites ==
  ASSUME StoreTypeOK, NEW s \in Callers, Commit(s),
         tx[s].dirty = {c \in Columns : tx[s].row[c] # Row[c]}
  PROVE  /\ state' = tx[s].row.state /\ total' = tx[s].row.total
         /\ completed' = tx[s].row.completed /\ pins' = tx[s].row.pins
<1>1. {"state", "total", "completed", "pins"} \subseteq Columns
  BY DEF Columns
<1>2. /\ Row["state"] = state /\ Row["total"] = total
      /\ Row["completed"] = completed /\ Row["pins"] = pins
  BY DEF Row
<1> QED
  BY <1>1, <1>2 DEF Commit

(* What a runner's step does, seen from the run. *)
RunKept(r) ==
  /\ TablesAgree' /\ Steady(r)'
  /\ state' # state => state \notin Ended /\ (state' = "failed" => pc[r] = "mark")

StepKeeps(r) == RunKept(r) /\ (pc'[r] = "mark" => pc[r] = "mark" \/ Drifts(r))

LEMMA RunnerFacts ==
  ASSUME SInv, NEW r \in Runners
  PROVE  /\ r \in Callers /\ RInv /\ StoreTypeOK /\ LocalTypeOK /\ Wired(r) /\ Reached(r)
         /\ Steady(r) /\ TablesAgree
BY TypeSplit DEF SInv, StagesInv, ProgressInv, RInv, Callers

LEMMA EnterAt ==
  ASSUME NEW p, NEW s
  PROVE  /\ Enter(p, s) \in {"list", "score"} => s \in StatesAt(Enter(p, s))
         /\ Enter(p, s) \in {"list", "score", "returned"}
BY DEF Enter, StatesAt

(* Coming and going, and the steps between the loops. *)
LEMMA PassagesKeep ==
  ASSUME SInv, NEW r \in Runners,
         Starts(r) \/ StartFails(r) \/ Leaves(r) \/ ReturnsCancelled(r) \/ Loads(r)
  PROVE  StepKeeps(r)
<1>0. /\ r \in Callers /\ RInv /\ StoreTypeOK /\ LocalTypeOK /\ Wired(r)
      /\ Steady(r) /\ TablesAgree
  BY RunnerFacts
<1>1. UNCHANGED storeVars /\ tx[r] = NoTx
  BY <1>0, NoTxAt DEF Starts, StartFails, Leaves, ReturnsCancelled, Loads, RowPoints
<1>2. UNCHANGED tableVars /\ tx'[r] = NoTx
  BY <1>1, StoreQuiet
<1>3. TablesAgree' /\ state' = state /\ pins' = pins /\ completed' = completed
  BY <1>0, <1>2, TablesQuiet DEF tableVars
<1>4. Current(r)'
  BY <1>2 DEF Current
<1>5. CASE pc'[r] \in {"off", "returned", "raised"}
  BY <1>2, <1>3, <1>5, OffSteady DEF StepKeeps, RunKept
<1>6. CASE Starts(r) /\ pc'[r] \notin {"off", "returned", "raised"}
  <2>1. state \notin Ended \cup {"absent"}
    BY <1>0, <1>6 DEF Starts, Ends, Goto, LocalTypeOK
  <2>2. /\ pc'[r] = IF state = "queued" THEN "claim" ELSE "load"
        /\ view'[r] = state /\ seen'[r] = completed /\ pinned'[r] = pins
    BY <1>0, <1>6, <2>1 DEF Starts, Goto, LocalTypeOK
  <2>3. state \in StatesAt(pc'[r])
    BY <1>0, <2>1, <2>2 DEF StatesAt, StoreTypeOK, States, Ended
  <2>4. Synced(r)'
    BY <1>3, <2>2, <2>3 DEF Synced
  <2>5. SearchLoop(r)' /\ AnswerLoop(r)' /\ JudgeLoop(r)'
    BY <2>2 DEF SearchLoop, AnswerLoop, JudgeLoop
  <2> QED
    BY <1>3, <1>4, <2>2, <2>4, <2>5 DEF StepKeeps, RunKept, Steady
<1>7. CASE Loads(r)
  <2>1. pc[r] = "load" /\ view[r] = state /\ pinned[r] = pins /\ seen[r] = completed
        /\ state \in StatesAt("load")
    BY <1>0, <1>7 DEF Loads, Steady, Synced, Running, Points
  <2>2. /\ pc'[r] = IF state \in {"preparing", "retrieving"} THEN "size" ELSE Enter("load", state)
        /\ view'[r] = state /\ seen'[r] = completed /\ pinned'[r] = pins
    BY <1>0, <1>7, <2>1 DEF Loads, Goto, KeepLocals, LocalTypeOK
  <2>3. pc'[r] \in {"size", "list", "score", "returned"}
        /\ (pc'[r] # "returned" => state \in StatesAt(pc'[r]))
    BY <2>2, EnterAt DEF StatesAt
  <2>4. Synced(r)'
    BY <1>3, <2>2, <2>3 DEF Synced, Running, Points
  <2>5. SearchLoop(r)' /\ AnswerLoop(r)' /\ JudgeLoop(r)'
    BY <2>3 DEF SearchLoop, AnswerLoop, JudgeLoop
  <2> QED
    BY <1>3, <1>4, <2>3, <2>4, <2>5 DEF StepKeeps, RunKept, Steady
<1> QED
  BY <1>0, <1>5, <1>6, <1>7 DEF StartFails, Leaves, ReturnsCancelled, Ends, Goto, LocalTypeOK

(* A loop is begun with what the stage has already done. *)
LEMMA ListsKeeps ==
  ASSUME SInv, NEW r \in Runners, Lists(r)
  PROVE  StepKeeps(r)
<1>0. /\ r \in Callers /\ RInv /\ StoreTypeOK /\ LocalTypeOK /\ Wired(r)
      /\ Steady(r) /\ TablesAgree
  BY RunnerFacts
<1>1. UNCHANGED tableVars /\ tx'[r] = NoTx
  BY <1>0, NoTxAt, StoreQuiet DEF Lists, RowPoints
<1>2. /\ TablesAgree' /\ state' = state /\ pins' = pins /\ completed' = completed
      /\ result' = result /\ answer' = answer /\ judged' = judged
  BY <1>0, <1>1, TablesQuiet DEF tableVars
<1>3. view[r] = state /\ pinned[r] = pins /\ state \in {"retrieving", "generating", "judging"}
  BY <1>0 DEF Lists, Steady, Synced, Running, Points, StatesAt
<1>4. /\ pc'[r] = CASE state = "retrieving" -> "search" [] state = "generating" -> "answer"
                    [] state = "judging" -> "judge"
      /\ view'[r] = state /\ pinned'[r] = pins /\ at'[r] = 1 /\ skip'[r] = Passed(state)
  BY <1>0, <1>3 DEF Lists, Goto, LocalTypeOK
<1>5. Synced(r)' /\ Current(r)'
  BY <1>1, <1>2, <1>3, <1>4 DEF Synced, Current, StatesAt
<1>6. \A i \in Items : Behind(r, i)' <=> i \in Passed(state)
  <2>1. \A i \in Items : ~(i < 1)
    BY StoreAssumption DEF Items
  <2> QED
    BY <1>4, <2>1 DEF Behind
<1>7. SearchLoop(r)' /\ AnswerLoop(r)' /\ JudgeLoop(r)'
  <2>1. SearchLoop(r)'
    BY <1>2, <1>3, <1>4, <1>6 DEF SearchLoop, Passed, Stored
  <2>2. CASE state = "generating"
    BY <1>2, <1>4, <1>6, <2>1, <2>2 DEF AnswerLoop, JudgeLoop, Passed
  <2>3. CASE state = "judging"
    <3>1. pc'[r] = "judge"
      BY <1>4, <2>3
    <3>2. \A i \in Items : Behind(r, i)' <=> i \notin GenItems \/ answer[i] = "unusable" \/ judged[i]
      BY <1>6, <2>3 DEF Passed
    <3> QED
      BY <1>2, <2>1, <3>1, <3>2 DEF AnswerLoop, JudgeLoop
  <2>4. CASE state = "retrieving"
    BY <1>4, <2>1, <2>4 DEF AnswerLoop, JudgeLoop
  <2> QED
    BY <1>3, <2>2, <2>3, <2>4
<1> QED
  BY <1>2, <1>3, <1>4, <1>5, <1>7 DEF StepKeeps, RunKept, Steady

(* To the next item of a loop: every item but one is as it was.            *)
LEMMA BehindMoves ==
  ASSUME LocalTypeOK, NEW r \in Runners, at[r] \in Items, at'[r] = at[r] + 1, skip'[r] = skip[r],
         NEW i \in Items
  PROVE  Behind(r, i)' <=> Behind(r, i) \/ i = at[r]
<1>1. at[r] \in Nat /\ i \in Nat
  BY StoreAssumption DEF Items
<1>2. i < at[r] + 1 <=> i < at[r] \/ i = at[r]
  BY <1>1
<1> QED
  BY <1>2 DEF Behind

LEMMA SkipsKeeps ==
  ASSUME SInv, NEW r \in Runners, Skips(r)
  PROVE  StepKeeps(r)
<1>0. /\ r \in Callers /\ RInv /\ StoreTypeOK /\ LocalTypeOK /\ Wired(r)
      /\ Steady(r) /\ TablesAgree
  BY RunnerFacts
<1>1. UNCHANGED tableVars /\ tx'[r] = NoTx
  BY StoreQuiet DEF Skips
<1>2. /\ TablesAgree' /\ state' = state /\ pins' = pins /\ completed' = completed
      /\ result' = result /\ answer' = answer /\ judged' = judged /\ HasVerdicts' = HasVerdicts
  BY <1>0, <1>1, TablesQuiet DEF tableVars
<1>3. /\ pc' = pc /\ view' = view /\ pinned' = pinned /\ skip' = skip /\ found' = found
      /\ at'[r] = at[r] + 1 /\ at[r] \in skip[r] /\ pc[r] \in {"search", "answer", "judge"}
  BY <1>0 DEF Skips, Advance, LocalTypeOK
<1>4. at[r] \in Items
  BY <1>0, <1>3 DEF LocalTypeOK
<1>5. \A i \in Items : Behind(r, i)' <=> Behind(r, i)
  BY <1>0, <1>3, <1>4, BehindMoves DEF Behind
<1>6. Synced(r)' /\ Current(r)'
  BY <1>0, <1>1, <1>2, <1>3 DEF Steady, Synced, Current
<1>7. SearchLoop(r)' /\ AnswerLoop(r)' /\ JudgeLoop(r)'
  BY <1>0, <1>2, <1>3, <1>5 DEF Steady, SearchLoop, AnswerLoop, JudgeLoop
<1> QED
  BY <1>2, <1>3, <1>6, <1>7 DEF StepKeeps, RunKept, Steady

(* A search: what the pin does not name goes to the pin, what it names is  *)
(* stored, and anything else is another index's.                           *)
LEMMA SearchesKeeps ==
  ASSUME SInv, NEW r \in Runners, Searches(r)
  PROVE  StepKeeps(r)
<1>0. /\ r \in Callers /\ RInv /\ StoreTypeOK /\ LocalTypeOK /\ Wired(r)
      /\ Steady(r) /\ TablesAgree
  BY RunnerFacts
<1>1. UNCHANGED tableVars /\ tx'[r] = NoTx
  BY <1>0, NoTxAt, StoreQuiet DEF Searches, RowPoints
<1>2. /\ TablesAgree' /\ state' = state /\ pins' = pins /\ completed' = completed
      /\ result' = result
  BY <1>0, <1>1, TablesQuiet DEF tableVars
<1>3. PICK x \in Indexes : LET expected == pinned[r][VariantOf(at[r])] IN
       /\ found' = [found EXCEPT ![r] = x]
       /\ Goto(r, CASE expected = None -> "pin" [] expected = x -> "store" [] OTHER -> "mark")
  BY DEF Searches
<1>4. /\ state = "retrieving" /\ view[r] = state /\ pinned[r] = pins
      /\ at[r] \in Items \ skip[r] /\ pc[r] = "search" /\ at[r] <= Total
  BY <1>0, StoreAssumption DEF Searches, Steady, Synced, Running, Points, StatesAt, Items
<1>5. /\ view' = view /\ pinned' = pinned /\ skip' = skip /\ at' = at /\ found'[r] = x
      /\ pc'[r] \in {"pin", "store", "mark"}
      /\ pc'[r] = "pin" => pins[VariantOf(at[r])] = None
      /\ pc'[r] = "store" => pins[VariantOf(at[r])] = x
  BY <1>0, <1>3, <1>4 DEF Searches, Goto, LocalTypeOK
<1>6. Synced(r)' /\ Current(r)'
  BY <1>1, <1>2, <1>4, <1>5 DEF Synced, Current, StatesAt, States, Ended
<1>7. SearchLoop(r)'
  BY <1>0, <1>2, <1>4, <1>5 DEF Steady, SearchLoop, Behind
<1>8. AnswerLoop(r)' /\ JudgeLoop(r)'
  BY <1>5 DEF AnswerLoop, JudgeLoop
<1>9. pc'[r] = "mark" => Drifts(r)
  BY <1>4 DEF Drifts
<1> QED
  BY <1>2, <1>6, <1>7, <1>8, <1>9 DEF StepKeeps, RunKept, Steady

(* Every variant has an item, so a run with all its results has all pins.  *)
LEMMA VariantHasItem ==
  ASSUME NEW v \in Variants
  PROVE  v + 1 \in Items /\ VariantOf(v + 1) = v
<1>1. NV \in Nat /\ NV > 0 /\ Total \in Nat /\ Total > 0 /\ Total % NV = 0 /\ v \in 0..(NV - 1)
  BY StoreAssumption DEF Variants
<1>2. v \in Nat /\ v < NV /\ (v + 1) - 1 = v
  BY <1>1
<1>3. \A n, m \in Nat : 0 < n /\ n < m => n % m = n
  OBVIOUS
<1>4. v % NV = v
  BY <1>1, <1>2
<1>5. ~(Total < NV)
  BY <1>1, <1>3
<1> QED
  BY <1>1, <1>2, <1>4, <1>5 DEF Items, VariantOf

LEMMA RetrievedKeeps ==
  ASSUME SInv, NEW r \in Runners, Retrieved(r)
  PROVE  StepKeeps(r)
<1>0. /\ r \in Callers /\ RInv /\ StoreTypeOK /\ LocalTypeOK /\ Wired(r)
      /\ Steady(r) /\ TablesAgree
  BY RunnerFacts
<1>1. UNCHANGED tableVars /\ tx'[r] = NoTx
  BY <1>0, NoTxAt, StoreQuiet DEF Retrieved, RowPoints
<1>2. /\ TablesAgree' /\ state' = state /\ pins' = pins
  BY <1>0, <1>1, TablesQuiet DEF tableVars
<1>3. \A i \in Items : result[i] # None
  <2>1. \A i \in Items : i < at[r]
    BY <1>0, StoreAssumption DEF Retrieved, LocalTypeOK, Items
  <2> QED
    BY <1>0, <2>1 DEF Retrieved, Steady, SearchLoop, Behind
<1>4. completed = Total
  <2>1. Stored = Items
    BY <1>3 DEF Stored
  <2> QED
    BY <1>0, <2>1, FS_Interval, StoreAssumption DEF TablesAgree, Items
<1>5. \A v \in Variants : pins[v] # None
  BY <1>0, <1>3, VariantHasItem DEF TablesAgree
<1>6. pc'[r] = "leave" /\ view' = view /\ pinned' = pinned
  BY <1>0, <1>4, <1>5 DEF Retrieved, RetrievalComplete, Goto, KeepLocals, LocalTypeOK
<1>7. Synced(r)'
  BY <1>0, <1>2, <1>6 DEF Retrieved, Steady, Synced, Running, Points, StatesAt
<1> QED
  BY <1>1, <1>2, <1>6, <1>7 DEF StepKeeps, RunKept, Steady, Current, SearchLoop, AnswerLoop, JudgeLoop

(* A loop has come to its end. *)
LEMMA StageEndsKeeps ==
  ASSUME SInv, NEW r \in Runners, StageEnds(r)
  PROVE  StepKeeps(r)
<1>0. /\ r \in Callers /\ RInv /\ StoreTypeOK /\ LocalTypeOK /\ Wired(r)
      /\ Steady(r) /\ TablesAgree
  BY RunnerFacts
<1>1. at[r] \notin Items /\ \A i \in Items : i < at[r]
  BY <1>0, StoreAssumption DEF StageEnds, LocalTypeOK, Items
<1>2. UNCHANGED tableVars /\ tx'[r] = NoTx
  BY <1>0, <1>1, StoreQuiet DEF StageEnds, Wired, RowPoints
<1>3. /\ TablesAgree' /\ state' = state /\ pins' = pins /\ HasVerdicts' = HasVerdicts
  BY <1>0, <1>2, TablesQuiet DEF tableVars
<1>4. /\ view' = view /\ pinned' = pinned
      /\ pc'[r] = IF pc[r] = "answer" THEN "answered" ELSE "judged"
      /\ pc[r] \in {"answer", "judge"}
  BY <1>0 DEF StageEnds, Goto, KeepLocals, LocalTypeOK
<1>5. Synced(r)'
  BY <1>0, <1>3, <1>4 DEF Steady, Synced, Running, Points, StatesAt
<1>6. pc[r] = "judge" => HasVerdicts
  BY <1>0, <1>1, StoreAssumption DEF Steady, JudgeLoop, Behind, HasVerdicts
<1> QED
  BY <1>2, <1>3, <1>4, <1>5, <1>6 DEF StepKeeps, RunKept, Steady, Current, SearchLoop, AnswerLoop, JudgeLoop

(* The calls: none of the checks they make fails, and what they open is    *)
(* what their point asks for.                                              *)
LEMMA AsksKeep ==
  ASSUME SInv, NEW r \in Runners, SetsState(r) \/ SetsProgress(r) \/ Pins(r) \/ Marks(r)
  PROVE  StepKeeps(r)
<1>0. /\ r \in Callers /\ RInv /\ StoreTypeOK /\ LocalTypeOK /\ Wired(r)
      /\ Steady(r) /\ TablesAgree
  BY RunnerFacts
<1>a. ASSUME UNCHANGED runnerVars, Open(r, "run", 1, None, NewRow(r)), pc[r] # "store"
      PROVE  StepKeeps(r)
  BY <1>0, <1>a, OpenSteady DEF StepKeeps, RunKept
<1>1. CASE SetsState(r)
  <2>1. Allowed(state, Target(pc[r]))
    BY <1>0, <1>1 DEF SetsState, Steady, Synced, Running, Points, StatesAt, Target, Allowed,
       NextStates
  <2>2. NewRow(r) = [Row EXCEPT !.state = Target(pc[r])]
    BY <1>1 DEF SetsState, NewRow, StatePoints
  <2> QED
    BY <1>1, <1>a, <2>1, <2>2 DEF SetsState, SetStateRead
<1>2. CASE SetsProgress(r)
  <2>1. ProgressValid(seen[r])
    BY <1>0, <1>2, StoreAssumption DEF SetsProgress, Steady, Synced, ProgressValid, StoreTypeOK
  <2>2. NewRow(r) = [Row EXCEPT !.completed = seen[r], !.total = Total]
    BY <1>2 DEF SetsProgress, NewRow, StatePoints
  <2> QED
    BY <1>2, <1>a, <2>1, <2>2 DEF SetsProgress, SetProgressRead
<1>3. CASE Pins(r)
  <2>1. PinValid(VariantOf(at[r]), found[r])
    BY <1>0, <1>3 DEF Pins, Steady, SearchLoop, PinValid
  <2>2. NewRow(r) = [Row EXCEPT !.pins[VariantOf(at[r])] = found[r]]
    BY <1>3 DEF Pins, NewRow, StatePoints
  <2> QED
    BY <1>3, <1>a, <2>1, <2>2 DEF Pins, PinRead
<1>4. CASE Marks(r)
  <2>1. state \notin Ended
    BY <1>0, <1>4 DEF Marks, Steady, Synced, Running, StatesAt
  <2>2. NewRow(r) = [Row EXCEPT !.state = "failed"]
    BY <1>4 DEF Marks, NewRow, StatePoints
  <2> QED
    BY <1>4, <1>a, <2>1, <2>2 DEF Marks, SetStateRead
<1> QED
  BY <1>1, <1>2, <1>3, <1>4

LEMMA StoresKeeps ==
  ASSUME SInv, NEW r \in Runners, Stores(r)
  PROVE  StepKeeps(r)
<1>0. /\ r \in Callers /\ RInv /\ StoreTypeOK /\ LocalTypeOK /\ Wired(r)
      /\ Steady(r) /\ TablesAgree
  BY RunnerFacts
<1>1. at[r] \in Items /\ at[r] \notin skip[r] /\ pc[r] = "store"
  BY <1>0 DEF Stores, Wired, Steady, SearchLoop
<1>2. ~(at[r] < at[r])
  BY <1>1, StoreAssumption DEF Items
<1>3. result[at[r]] = None
  BY <1>0, <1>1, <1>2 DEF Steady, SearchLoop, Behind
<1>4. NewRow(r) = [Row EXCEPT !.completed = Cardinality(Stored) + 1]
  BY <1>1 DEF NewRow, StatePoints
<1> QED
  BY <1>0, <1>1, <1>3, <1>4, OpenSteady DEF Stores, AddResultRead, StepKeeps, RunKept

LEMMA AnswersKeeps ==
  ASSUME SInv, NEW r \in Runners, Answers(r)
  PROVE  StepKeeps(r)
<1>0. /\ r \in Callers /\ RInv /\ StoreTypeOK /\ LocalTypeOK /\ Wired(r)
      /\ Steady(r) /\ TablesAgree
  BY RunnerFacts
<1>1. at[r] \in Items /\ at[r] \notin skip[r] /\ pc[r] = "answer"
  BY DEF Answers
<1>2. ~(at[r] < at[r])
  BY <1>1, StoreAssumption DEF Items
<1>3. answer[at[r]] = None
  BY <1>0, <1>1, <1>2 DEF Steady, AnswerLoop, Behind
<1>4. NewRow(r) = Row
  BY <1>1 DEF NewRow, StatePoints
<1>5. PICK o \in Outcomes : UpdateAnswerRead(r, at[r], o) /\ UNCHANGED runnerVars
  BY <1>3 DEF Answers
<1>6. Open(r, "answer", at[r], o, NewRow(r))
  BY <1>4, <1>5 DEF UpdateAnswerRead
<1> QED
  BY <1>0, <1>1, <1>5, <1>6, OpenSteady DEF StepKeeps, RunKept

LEMMA JudgesKeeps ==
  ASSUME SInv, NEW r \in Runners, Judges(r)
  PROVE  StepKeeps(r)
<1>0. /\ r \in Callers /\ RInv /\ StoreTypeOK /\ LocalTypeOK /\ Wired(r)
      /\ Steady(r) /\ TablesAgree
  BY RunnerFacts
<1>1. tx'[r] = NoTx
  BY <1>0, NoTxAt DEF Judges, UpdateJudges, RowPoints
<1>2. /\ state' = state /\ pins' = pins /\ completed' = completed /\ result' = result
      /\ answer' = answer /\ judged' = [judged EXCEPT ![at[r]] = TRUE]
      /\ pc' = pc /\ view' = view /\ pinned' = pinned /\ skip' = skip /\ at'[r] = at[r] + 1
      /\ at[r] \in Items \ skip[r] /\ pc[r] = "judge"
  BY <1>0 DEF Judges, UpdateJudges, Advance, LocalTypeOK
<1>3. Stored' = Stored /\ (HasVerdicts => HasVerdicts')
  BY <1>0, <1>2, StoreAssumption DEF Stored, HasVerdicts, StoreTypeOK
<1>4. TablesAgree'
  BY <1>0, <1>2, <1>3 DEF TablesAgree
<1>5. Synced(r)' /\ Current(r)' /\ SearchLoop(r)' /\ AnswerLoop(r)'
  BY <1>0, <1>1, <1>2 DEF Steady, Synced, Current, SearchLoop, AnswerLoop
<1>6. \A i \in Items : Behind(r, i)' <=> Behind(r, i) \/ i = at[r]
  BY <1>0, <1>2, BehindMoves
<1>7. JudgeLoop(r)'
  BY <1>0, <1>2, <1>6 DEF Steady, JudgeLoop, StoreTypeOK
<1> QED
  BY <1>2, <1>4, <1>5, <1>7 DEF StepKeeps, RunKept, Steady

(* A call that raises leaves the tables as they are, and so does the death *)
(* of the runner.                                                          *)
LEMMA RaisesKeeps ==
  ASSUME SInv, NEW r \in Runners, Raises(r) \/ MarkFails(r) \/ Aborted(r)
  PROVE  RunKept(r) /\ (~Raises(r) => StepKeeps(r))
<1>0. /\ r \in Callers /\ RInv /\ StoreTypeOK /\ LocalTypeOK /\ Wired(r)
      /\ Steady(r) /\ TablesAgree
  BY RunnerFacts
<1>1. UNCHANGED tableVars /\ tx'[r] = NoTx
  BY <1>0, StoreQuiet, Settled DEF Raises, MarkFails, Aborted, Rollback
<1>2. TablesAgree' /\ state' = state
  BY <1>0, <1>1, TablesQuiet DEF tableVars
<1>3. CASE Raises(r)
  <2>1. pc'[r] = "mark"
    BY <1>0, <1>3 DEF Raises, Goto, LocalTypeOK
  <2>2. state \in States \ (Ended \cup {"absent"})
    BY <1>0, <1>3 DEF Raises, Steady, Synced, Running, Points, StatesAt, States, Ended
  <2>3. Synced(r)'
    BY <1>2, <2>1, <2>2 DEF Synced, Points, StatesAt
  <2> QED
    BY <1>1, <1>2, <1>3, <2>1, <2>3 DEF StepKeeps, RunKept, Steady, Current, SearchLoop, AnswerLoop,
       JudgeLoop
<1>4. CASE MarkFails(r) \/ Aborted(r)
  <2>1. pc'[r] \in {"raised", "off"}
    BY <1>0, <1>4 DEF MarkFails, Aborted, Ends, Goto, LocalTypeOK
  <2> QED
    BY <1>1, <1>2, <2>1, OffSteady DEF StepKeeps, RunKept
<1> QED
  BY <1>3, <1>4

-----------------------------------------------------------------------------
(* The commit of a call that writes to the run row only.                   *)
LEMMA RowCommits ==
  ASSUME SInv, NEW r \in Runners, pc[r] \in RowPoints, Commit(r)
  PROVE  /\ result' = result /\ answer' = answer /\ judged' = judged
         /\ Stored' = Stored /\ HasVerdicts' = HasVerdicts /\ tx'[r] = NoTx
         /\ state' = NewRow(r).state /\ completed' = NewRow(r).completed
         /\ pins' = NewRow(r).pins
<1>0. /\ r \in Callers /\ RInv /\ StoreTypeOK /\ LocalTypeOK /\ Wired(r)
      /\ Steady(r) /\ TablesAgree
  BY RunnerFacts
<1>1. tx[r] # NoTx /\ tx[r].table = "run"
  BY <1>0 DEF Wired, Commit, RowPoints
<1>2. result' = result /\ answer' = answer /\ judged' = judged
  BY <1>1 DEF Commit
<1>3. Stored' = Stored /\ HasVerdicts' = HasVerdicts
  BY <1>2 DEF Stored, HasVerdicts
<1>4. tx[r].row = NewRow(r) /\ tx[r].dirty = {c \in Columns : tx[r].row[c] # Row[c]}
  BY <1>0, <1>1 DEF Steady, Current
<1> QED
  BY <1>0, <1>2, <1>3, <1>4, CommitWrites, Settled

(* set_state: the run moves to the state that was asked for. *)
LEMMA MovesKeep ==
  ASSUME SInv, NEW r \in Runners, Claimed(r) \/ Moved(r) \/ Marked(r)
  PROVE  StepKeeps(r)
<1>0. /\ r \in Callers /\ RInv /\ StoreTypeOK /\ LocalTypeOK /\ Wired(r)
      /\ Steady(r) /\ TablesAgree
  BY RunnerFacts
<1>1. /\ Commit(r)
      /\ pc[r] \in RowPoints
  BY DEF Claimed, Moved, Sees, Marked, RowPoints
<1>2. /\ result' = result /\ Stored' = Stored /\ HasVerdicts' = HasVerdicts /\ tx'[r] = NoTx
      /\ state' = NewRow(r).state /\ completed' = NewRow(r).completed /\ pins' = NewRow(r).pins
  BY <1>1, RowCommits
<1>3. state \notin Ended
  BY <1>0 DEF Claimed, Moved, Marked, Steady, Synced, Running, Points, StatesAt, Ended
<1>4. CASE Claimed(r) \/ Moved(r)
  <2>1. /\ pc[r] \in {"claim", "begin", "leave", "answered", "judged", "score"}
        /\ view'[r] = state' /\ seen'[r] = (IF pc[r] = "claim" THEN completed' ELSE 0)
        /\ pinned'[r] = (IF pc[r] = "claim" THEN pins' ELSE pinned[r])
        /\ pc'[r] = IF pc[r] = "claim" THEN "load" ELSE Enter(pc[r], state')
    BY <1>0, <1>4 DEF Claimed, Moved, Sees, Goto, LocalTypeOK
  <2>2. NewRow(r) = [Row EXCEPT !.state = Target(pc[r])]
    BY <2>1 DEF NewRow, StatePoints
  <2>3. state' = Target(pc[r]) /\ completed' = completed /\ pins' = pins
    BY <1>2, <2>2 DEF Row
  <2>4. pinned[r] = pins
    BY <1>0, <2>1 DEF Steady, Synced, Points
  <2>5. state' \in {"scoring", "completed"} => HasVerdicts
    <3>1. CASE pc[r] \in {"claim", "begin", "leave", "answered"}
      BY <2>3, <3>1, StoreAssumption DEF Target, HasVerdicts
    <3>2. CASE pc[r] = "judged"
      BY <1>0, <3>2 DEF Steady, JudgeLoop
    <3>3. CASE pc[r] = "score"
      BY <1>0, <3>3 DEF Steady, Synced, Running, Points, StatesAt, TablesAgree
    <3> QED
      BY <2>1, <3>1, <3>2, <3>3
  <2>6. TablesAgree'
    BY <1>0, <1>2, <2>3, <2>5 DEF TablesAgree
  <2>7. /\ pc'[r] \in {"load", "list", "score", "returned"}
        /\ pc'[r] # "returned" => state' \in StatesAt(pc'[r])
    <3>1. CASE pc[r] = "claim"
      BY <2>1, <2>3, <3>1 DEF Target, StatesAt
    <3>2. CASE pc[r] # "claim"
      BY <2>1, <3>2, EnterAt
    <3> QED
      BY <3>1, <3>2
  <2>8. Synced(r)'
    <3>1. pc'[r] \in Running => state' \in StatesAt(pc'[r])
      BY <2>7 DEF Running, Points
    <3>2. view'[r] = state' /\ pinned'[r] = pins'
      BY <2>1, <2>3, <2>4
    <3>3. pc'[r] \in {"claim", "load", "size"} => seen'[r] = completed'
      <4>1. CASE pc[r] = "claim"
        BY <2>1, <4>1
      <4>2. CASE pc[r] # "claim"
        <5>1. pc'[r] \in {"list", "score", "returned"}
          BY <2>1, <4>2, EnterAt
        <5> QED
          BY <5>1
      <4> QED
        BY <4>1, <4>2
    <3> QED
      BY <3>1, <3>2, <3>3 DEF Synced
  <2>9. Current(r)' /\ SearchLoop(r)' /\ AnswerLoop(r)' /\ JudgeLoop(r)'
    BY <1>2, <2>7 DEF Current, SearchLoop, AnswerLoop, JudgeLoop
  <2>10. state' # "failed"
    BY <2>1, <2>3 DEF Target
  <2> QED
    BY <1>3, <2>6, <2>7, <2>8, <2>9, <2>10 DEF StepKeeps, RunKept, Steady
<1>5. CASE Marked(r)
  <2>1. pc[r] = "mark" /\ pc'[r] = "raised"
    BY <1>0, <1>5 DEF Marked, Ends, Goto, LocalTypeOK
  <2>2. NewRow(r) = [Row EXCEPT !.state = "failed"]
    BY <2>1 DEF NewRow, StatePoints
  <2>3. state' = "failed" /\ completed' = completed /\ pins' = pins
    BY <1>2, <2>2 DEF Row
  <2>4. TablesAgree'
    BY <1>0, <1>2, <2>3 DEF TablesAgree
  <2> QED
    BY <1>2, <1>3, <2>1, <2>4, OffSteady DEF StepKeeps, RunKept
<1> QED
  BY <1>4, <1>5

(* set_progress: nothing that anyone reads changes but total_queries. *)
LEMMA SizedKeeps ==
  ASSUME SInv, NEW r \in Runners, Sized(r)
  PROVE  StepKeeps(r)
<1>0. /\ r \in Callers /\ RInv /\ StoreTypeOK /\ LocalTypeOK /\ Wired(r)
      /\ Steady(r) /\ TablesAgree
  BY RunnerFacts
<1>1. /\ result' = result /\ Stored' = Stored /\ HasVerdicts' = HasVerdicts /\ tx'[r] = NoTx
      /\ state' = NewRow(r).state /\ completed' = NewRow(r).completed /\ pins' = NewRow(r).pins
  BY RowCommits DEF Sized, Sees, RowPoints
<1>2. /\ pc[r] = "size" /\ view'[r] = state' /\ pinned'[r] = pinned[r]
      /\ pc'[r] = IF view[r] = "preparing" THEN "begin" ELSE Enter("size", state')
  BY <1>0 DEF Sized, Sees, Goto, LocalTypeOK
<1>3. seen[r] = completed /\ view[r] = state /\ pinned[r] = pins
  BY <1>0, <1>2 DEF Steady, Synced, Points
<1>4. NewRow(r) = [Row EXCEPT !.completed = seen[r], !.total = Total]
  BY <1>2 DEF NewRow, StatePoints
<1>5. state' = state /\ completed' = completed /\ pins' = pins
  BY <1>1, <1>3, <1>4 DEF Row
<1>6. TablesAgree'
  BY <1>0, <1>1, <1>5 DEF TablesAgree
<1>7. /\ pc'[r] \in {"begin", "list", "score", "returned"}
      /\ pc'[r] # "returned" => state' \in StatesAt(pc'[r])
  BY <1>2, <1>3, <1>5, EnterAt DEF StatesAt
<1>8. Synced(r)'
  BY <1>2, <1>3, <1>5, <1>7 DEF Synced, Running, Points
<1> QED
  BY <1>1, <1>5, <1>6, <1>7, <1>8 DEF StepKeeps, RunKept, Steady, Current, SearchLoop, AnswerLoop, JudgeLoop

(* pin_index_fingerprint: the variant had no pin, so it had no result.     *)
LEMMA PinnedKeeps ==
  ASSUME SInv, NEW r \in Runners, Pinned(r)
  PROVE  StepKeeps(r)
<1>0. /\ r \in Callers /\ RInv /\ StoreTypeOK /\ LocalTypeOK /\ Wired(r)
      /\ Steady(r) /\ TablesAgree
  BY RunnerFacts
<1> DEFINE v == VariantOf(at[r])
<1>1. /\ result' = result /\ Stored' = Stored /\ HasVerdicts' = HasVerdicts /\ tx'[r] = NoTx
      /\ state' = NewRow(r).state /\ completed' = NewRow(r).completed /\ pins' = NewRow(r).pins
  BY RowCommits DEF Pinned, RowPoints
<1>2. /\ pc[r] = "pin" /\ at[r] \in Items /\ found[r] \in Indexes
      /\ view[r] = state /\ pinned[r] = pins /\ state = "retrieving"
  BY <1>0 DEF Pinned, Wired, Steady, Synced, Running, Points, StatesAt
<1>3. v \in Variants /\ pins[v] = None /\ at[r] \notin skip[r]
  BY <1>0, <1>2, VariantOfType DEF Steady, SearchLoop
<1>4. /\ view' = view /\ skip' = skip /\ at' = at /\ found' = found /\ pc'[r] = "store"
      /\ pinned'[r] = [pinned[r] EXCEPT ![v] = found[r]]
  BY <1>0 DEF Pinned, Goto, LocalTypeOK
<1>5. NewRow(r) = [Row EXCEPT !.pins[v] = found[r]]
  BY <1>2 DEF NewRow, StatePoints
<1>6. state' = state /\ completed' = completed /\ pins' = [pins EXCEPT ![v] = found[r]]
  BY <1>1, <1>5 DEF Row
<1>7. pins'[v] = found[r] /\ \A u \in Variants : u # v => pins'[u] = pins[u]
  BY <1>0, <1>3, <1>6 DEF StoreTypeOK
<1>8. TablesAgree'
  BY <1>0, <1>1, <1>3, <1>6, <1>7, VariantOfType DEF TablesAgree
<1>9. Synced(r)'
  BY <1>2, <1>4, <1>6 DEF Synced, StatesAt
<1>10. SearchLoop(r)'
  BY <1>0, <1>1, <1>2, <1>3, <1>4, <1>7 DEF Steady, SearchLoop, Behind
<1> QED
  BY <1>1, <1>4, <1>6, <1>8, <1>9, <1>10 DEF StepKeeps, RunKept, Steady, Current, AnswerLoop, JudgeLoop

(* add_result: the row and its count go in together. *)
LEMMA StoreCommitsKeeps ==
  ASSUME SInv, NEW r \in Runners, StoreCommits(r)
  PROVE  StepKeeps(r)
<1>0. /\ r \in Callers /\ RInv /\ StoreTypeOK /\ LocalTypeOK /\ Wired(r)
      /\ Steady(r) /\ TablesAgree
  BY RunnerFacts
<1>1. /\ Commit(r) /\ pc[r] = "store" /\ tx[r] # NoTx
      /\ tx[r].table = "result" /\ tx[r].item = at[r] /\ tx[r].value = found[r]
      /\ at[r] \in Items /\ found[r] \in Indexes /\ at[r] \notin skip[r]
  BY <1>0 DEF StoreCommits, Commit, Wired, RowPoints, Steady, Current, SearchLoop
<1>2. /\ tx[r].row = NewRow(r) /\ tx[r].dirty = {c \in Columns : tx[r].row[c] # Row[c]}
      /\ NewRow(r) = [Row EXCEPT !.completed = Cardinality(Stored) + 1]
  BY <1>0, <1>1 DEF Steady, Current, NewRow, StatePoints
<1>3. state' = state /\ completed' = Cardinality(Stored) + 1 /\ pins' = pins
  BY <1>0, <1>1, <1>2, CommitWrites DEF Row
<1>4. ~(at[r] < at[r])
  BY <1>1, StoreAssumption DEF Items
<1>5. result[at[r]] = None
  BY <1>0, <1>1, <1>4 DEF Steady, SearchLoop, Behind
<1>6. /\ result' = [result EXCEPT ![at[r]] = found[r]] /\ answer' = answer /\ judged' = judged
      /\ tx'[r] = NoTx /\ HasVerdicts' = HasVerdicts
  BY <1>0, <1>1, Settled DEF Commit, HasVerdicts
<1>7. Cardinality(Stored') = Cardinality(Stored) + 1
  BY <1>0, <1>1, <1>5, CommitStored
<1>8. /\ state = "retrieving" /\ view[r] = state /\ pinned[r] = pins
      /\ pins[VariantOf(at[r])] = found[r]
  BY <1>0, <1>1 DEF Steady, Synced, SearchLoop, Running, Points, StatesAt
<1>9. TablesAgree'
  BY <1>0, <1>1, <1>3, <1>6, <1>7, <1>8 DEF TablesAgree, StoreTypeOK
<1>10. /\ pc'[r] = "search" /\ at'[r] = at[r] + 1
       /\ view' = view /\ pinned' = pinned /\ skip' = skip
  BY <1>0 DEF StoreCommits, ToNextSearch, Goto, Advance, LocalTypeOK
<1>11. Synced(r)'
  BY <1>3, <1>8, <1>10 DEF Synced, StatesAt
<1>12. \A i \in Items : Behind(r, i)' <=> Behind(r, i) \/ i = at[r]
  BY <1>0, <1>1, <1>10, BehindMoves
<1>13. \A i \in Items : result'[i] # None <=> result[i] # None \/ i = at[r]
  BY <1>0, <1>1, <1>6, StoreAssumption DEF StoreTypeOK
<1>14. SearchLoop(r)'
  BY <1>0, <1>1, <1>10, <1>12, <1>13 DEF Steady, SearchLoop
<1> QED
  BY <1>3, <1>6, <1>9, <1>10, <1>11, <1>14 DEF StepKeeps, RunKept, Steady, Current, AnswerLoop, JudgeLoop

LEMMA AnswerCommitsKeeps ==
  ASSUME SInv, NEW r \in Runners, AnswerCommits(r)
  PROVE  StepKeeps(r)
<1>0. /\ r \in Callers /\ RInv /\ StoreTypeOK /\ LocalTypeOK /\ Wired(r)
      /\ Steady(r) /\ TablesAgree
  BY RunnerFacts
<1>1. /\ Commit(r) /\ pc[r] = "answer" /\ tx[r] # NoTx
      /\ tx[r].table = "answer" /\ tx[r].item = at[r] /\ at[r] \in Items
  BY <1>0 DEF AnswerCommits, Commit, Wired, RowPoints
<1>2. /\ tx[r].row = Row /\ tx[r].dirty = {c \in Columns : tx[r].row[c] # Row[c]}
  BY <1>0, <1>1 DEF Steady, Current, NewRow, StatePoints
<1>3. state' = state /\ completed' = completed /\ pins' = pins
  BY <1>0, <1>1, <1>2, CommitWrites DEF Row
<1>4. /\ result' = result /\ answer' = [answer EXCEPT ![at[r]] = tx[r].value]
      /\ tx'[r] = NoTx
  BY <1>0, <1>1, Settled DEF Commit
<1>5. state = "generating" /\ view[r] = state /\ pinned[r] = pins
  BY <1>0, <1>1 DEF Steady, Synced, Running, Points, StatesAt
<1>6. TablesAgree'
  BY <1>0, <1>3, <1>4, <1>5 DEF TablesAgree, Stored
<1>7. /\ pc' = pc /\ at'[r] = at[r] + 1 /\ view' = view /\ pinned' = pinned /\ skip' = skip
  BY <1>0 DEF AnswerCommits, Advance, LocalTypeOK
<1>8. Synced(r)'
  BY <1>0, <1>1, <1>3, <1>5, <1>7 DEF Synced, StatesAt
<1>9. \A i \in Items : Behind(r, i)' <=> Behind(r, i) \/ i = at[r]
  BY <1>0, <1>1, <1>7, BehindMoves
<1>10. AnswerLoop(r)'
  BY <1>0, <1>1, <1>4, <1>7, <1>9 DEF Steady, AnswerLoop, StoreTypeOK
<1> QED
  BY <1>1, <1>3, <1>4, <1>6, <1>7, <1>8, <1>10 DEF StepKeeps, RunKept, Steady, Current, SearchLoop, JudgeLoop

LEMMA RunnerKeeps ==
  ASSUME SInv, NEW r \in Runners,
         Starts(r) \/ StartFails(r) \/ Execute(r) \/ MarkFails(r) \/ Aborted(r) \/ Leaves(r)
  PROVE  StepKeeps(r)
<1>1. CASE MarkFails(r) \/ Aborted(r)
  <2>1. ~Raises(r)
    <3>1. pc'[r] \in {"raised", "off"} /\ LocalTypeOK
      BY <1>1, RunnerFacts DEF MarkFails, Aborted, Ends, Goto, LocalTypeOK
    <3> QED
      BY <3>1 DEF Raises, Goto, LocalTypeOK
  <2> QED
    BY <1>1, <2>1, RaisesKeeps
<1>2. CASE ~(MarkFails(r) \/ Aborted(r))
  BY <1>2, PassagesKeep, ListsKeeps, SkipsKeeps, SearchesKeeps, RetrievedKeeps, StageEndsKeeps,
     AsksKeep, StoresKeeps, AnswersKeeps, JudgesKeeps, MovesKeep, SizedKeeps, PinnedKeeps,
     StoreCommitsKeeps, AnswerCommitsKeeps DEF Execute
<1> QED
  BY <1>1, <1>2

-----------------------------------------------------------------------------
(* The job and its runners.  A worker's step is kept if it leaves the job  *)
(* with the worker exactly when the worker is still under way, and takes   *)
(* note of what has failed.                                                *)
LEMMA WorkerKeeps ==
  ASSUME SInv, [SNext]_sysVars, NEW w \in Runners, RunnerStep(w),
         RunKept(w), JobTypeOK',
         holder[Job] \in {None, w}, holder'[Job] \in {None, w},
         holder'[Job] # None => phase'[Job] = "held",
         pc'[w] # "off" <=> holder'[Job] = w,
         blamed => blamed', pc'[w] = "mark" => blamed'
  PROVE  SInv'
<1>1. StagesInv'
  BY Projects, StepStages DEF SInv
<1>2. RInv /\ RInv' /\ LocalTypeOK /\ w \in Callers
  BY <1>1, RunnerFacts DEF StagesInv, ProgressInv
<1>3. OnlyLocals(w) /\ OnlyTx(w)
  BY <1>2, RunnerLocals, RunnerTx DEF RunnerStep
<1>4. ASSUME NEW q \in Runners \ {w}
      PROVE  pc[q] = "off" /\ pc'[q] = "off" /\ tx'[q] = NoTx /\ holder'[Job] # q
  <2>1. pc[q] = "off"
    BY SystemAssumption DEF SInv, OnlyHolderRuns
  <2>2. pc'[q] = "off"
    BY <1>3, <2>1 DEF OnlyLocals
  <2>3. tx'[q] = NoTx
    BY <1>2, <2>2 DEF RInv, Wired, RowPoints
  <2> QED
    BY <2>1, <2>2, <2>3, SystemAssumption
<1>5. \A c \in Clients : tx'[c] = NoTx
  BY <1>3, StoreAssumption DEF OnlyTx, Callers, SInv, OnlyHolderRuns
<1>6. OnlyHolderRuns'
  BY <1>4, <1>5 DEF OnlyHolderRuns
<1>7. \A r \in Runners : Steady(r)'
  BY <1>4, OffSteady DEF RunKept
<1>8. Blame'
  BY <1>4 DEF RunKept, SInv, Blame
<1> QED
  BY <1>1, <1>6, <1>7, <1>8 DEF SInv, RunKept

LEMMA TakeKeeps ==
  ASSUME SInv, [SNext]_sysVars, NEW w \in Runners, Take(w)
  PROVE  SInv' /\ RunKept(w)
<1>0. LocalTypeOK /\ JobTypeOK /\ OnlyHolderRuns /\ Blame
  BY RunnerFacts DEF SInv
<1>1. holder[Job] = None
  BY <1>0 DEF Take, Queue!HandOut, Queue!Abandoned, OnlyHolderRuns
<1>2. /\ phase' = [i \in {Job} |-> IF i = Job THEN "held" ELSE IF i \in {} THEN "buried" ELSE phase[i]]
      /\ tries' = [tries EXCEPT ![Job] = @ + 1] /\ tries[Job] < MaxAttempts
      /\ holder' = [holder EXCEPT ![Job] = w] /\ blamed' = blamed
  BY DEF Take, Queue!HandOut
<1>3. holder'[Job] = w /\ phase'[Job] = "held"
  BY <1>0, <1>2 DEF JobTypeOK
<1>4. JobTypeOK'
  <2>1. tries[Job] \in 0..MaxAttempts /\ MaxAttempts \in Nat
    BY <1>0, SystemAssumption DEF JobTypeOK
  <2>2. tries[Job] + 1 \in 0..MaxAttempts
    BY <1>2, <2>1
  <2> QED
    BY <1>0, <1>2, <2>2 DEF JobTypeOK
<1>5. RunnerStep(w) /\ StepKeeps(w)
  BY RunnerKeeps DEF Take, RunnerStep
<1>6. pc[w] = "off" /\ pc'[w] # "off"
  BY <1>0 DEF Take, Starts, StartFails, Ends, Goto, LocalTypeOK
<1>7. pc'[w] = "mark" => blamed'
  BY <1>5, <1>6 DEF StepKeeps, Drifts
<1> QED
  BY <1>1, <1>2, <1>3, <1>4, <1>5, <1>6, <1>7, WorkerKeeps DEF StepKeeps

LEMMA WorksKeeps ==
  ASSUME SInv, [SNext]_sysVars, NEW w \in Runners, Works(w) \/ Stumbles(w)
  PROVE  SInv' /\ RunKept(w)
<1>0. LocalTypeOK /\ Wired(w) /\ JobTypeOK /\ OnlyHolderRuns /\ Blame
  BY RunnerFacts DEF SInv
<1>1. UNCHANGED jobVars /\ RunnerStep(w) /\ blamed' \in BOOLEAN /\ (blamed => blamed')
  BY <1>0 DEF Works, Stumbles, RunnerStep, JobTypeOK
<1>2. phase' = phase /\ tries' = tries /\ holder' = holder /\ JobTypeOK'
  BY <1>0, <1>1 DEF jobVars, JobTypeOK
<1>3. pc[w] \in Running
  BY <1>0 DEF Works, Stumbles, Execute, Loads, SetsState, SetsProgress, Claimed, Sized, Moved,
     Lists, Skips, ReturnsCancelled, CancelSeen, Searches, Pins, Pinned, Stores, StoreCommits,
     Retrieved, Answers, AnswerCommits, Judges, StageEnds, Marks, Marked, Raises, MarkFails,
     Running, Points
<1>4. holder[Job] = w
  BY <1>0, <1>3 DEF OnlyHolderRuns, Running, Points
<1>5. RunKept(w) /\ (pc'[w] = "mark" => blamed')
  <2>1. CASE Works(w)
    BY <1>0, <2>1, RunnerKeeps DEF Works, StepKeeps, Blame
  <2>2. CASE Stumbles(w) /\ Raises(w) /\ blamed' = TRUE
    BY <2>2, RaisesKeeps
  <2>3. CASE MarkFails(w)
    <3>1. pc'[w] = "raised"
      BY <1>0, <2>3 DEF MarkFails, Ends, Goto, LocalTypeOK
    <3> QED
      BY <2>3, <3>1, RunnerKeeps DEF StepKeeps
  <2> QED
    BY <2>1, <2>2, <2>3 DEF Stumbles
<1>6. pc'[w] # "off"
  <2>1. CASE Works(w) \/ Raises(w)
    <3>1. CASE Execute(w)
      <4>1. CASE Loads(w) \/ SetsState(w) \/ SetsProgress(w)
        BY <1>0, <1>3, <4>1, EnterType
           DEF Loads, SetsState, SetsProgress, Goto, runnerVars, LocalTypeOK, Running, Points
      <4>2. CASE Claimed(w) \/ Sized(w) \/ Moved(w)
        BY <1>0, <4>2, EnterType DEF Claimed, Sized, Moved, Goto, LocalTypeOK
      <4>3. CASE Lists(w) \/ Skips(w) \/ ReturnsCancelled(w)
        <5>1. CASE Lists(w)
          BY <1>0, <5>1 DEF Lists, Goto, LocalTypeOK, Wired
        <5>2. CASE Skips(w)
          BY <1>0, <1>3, <5>2 DEF Skips, Running, Points
        <5>3. CASE ReturnsCancelled(w)
          BY <1>0, <5>3 DEF ReturnsCancelled, Ends, Goto, LocalTypeOK
        <5> QED
          BY <4>3, <5>1, <5>2, <5>3
      <4>4. CASE Searches(w) \/ Pins(w) \/ Pinned(w) \/ Stores(w) \/ StoreCommits(w) \/ Retrieved(w)
        BY <1>0, <1>3, <4>4 DEF Searches, Pins, Pinned, Stores, StoreCommits, ToNextSearch,
           Retrieved, Goto, KeepLocals, runnerVars, LocalTypeOK, Running, Points
      <4>5. CASE Answers(w) \/ AnswerCommits(w) \/ Judges(w) \/ StageEnds(w)
        BY <1>0, <1>3, <4>5 DEF Answers, AnswerCommits, Judges, StageEnds, Goto, KeepLocals,
           runnerVars, LocalTypeOK, Running, Points
      <4>6. CASE Marks(w) \/ Marked(w)
        BY <1>0, <1>3, <4>6 DEF Marks, Marked, Ends, Goto, runnerVars, LocalTypeOK, Running, Points
      <4> QED
        BY <3>1, <4>1, <4>2, <4>3, <4>4, <4>5, <4>6 DEF Execute
    <3>2. CASE Raises(w)
      BY <1>0, <3>2 DEF Raises, Goto, LocalTypeOK
    <3> QED
      BY <2>1, <3>1, <3>2 DEF Works
  <2>2. CASE MarkFails(w)
    BY <1>0, <2>2 DEF MarkFails, Ends, Goto, LocalTypeOK
  <2> QED
    BY <2>1, <2>2 DEF Stumbles
<1>7. holder'[Job] # None => phase'[Job] = "held"
  BY <1>0, <1>2 DEF OnlyHolderRuns
<1> QED
  BY <1>1, <1>2, <1>4, <1>5, <1>6, <1>7, WorkerKeeps

(* The handler has ended, or is made to end, and the job is let go.        *)
LEMMA EndsKeep ==
  ASSUME SInv, [SNext]_sysVars, NEW w \in Runners,
         Settles(w) \/ HeartbeatRaises(w) \/ Dies(w)
  PROVE  SInv' /\ RunKept(w)
<1>0. LocalTypeOK /\ JobTypeOK /\ OnlyHolderRuns /\ Blame
  BY RunnerFacts DEF SInv
<1>1. /\ Aborted(w) \/ Leaves(w)
      /\ blamed' = blamed
      /\ Queue!Finish(Job) \/ Queue!GiveUp(Job) \/ Queue!Lose(Job)
  BY DEF Settles, HeartbeatRaises, Dies
<1>2. RunnerStep(w) /\ StepKeeps(w)
  BY <1>1, RunnerKeeps DEF RunnerStep
<1>3. pc[w] # "off" /\ pc'[w] = "off"
  BY <1>0, <1>1 DEF Aborted, Leaves, Ends, Goto, LocalTypeOK, Running, Points
<1>4. holder[Job] = w
  BY <1>0, <1>3 DEF OnlyHolderRuns
<1>5. JobTypeOK' /\ holder'[Job] = None
  BY <1>0, <1>1 DEF Queue!Finish, Queue!GiveUp, Queue!Lose, JobTypeOK
<1>6. holder'[Job] # w
  BY <1>5, SystemAssumption
<1> QED
  BY <1>1, <1>2, <1>3, <1>4, <1>5, <1>6, WorkerKeeps DEF StepKeeps

LEMMA SubmitKeeps ==
  ASSUME SInv, [SNext]_sysVars, Submit
  PROVE  SInv' /\ state' = "queued" /\ state = "absent"
<1>0. StoreTypeOK /\ LocalTypeOK /\ RInv /\ JobTypeOK /\ OnlyHolderRuns /\ TablesAgree /\ Blame
  BY TypeSplit DEF SInv, StagesInv, ProgressInv, RInv
<1>1. StagesInv'
  BY Projects, StepStages DEF SInv
<1>2. /\ state = "absent" /\ state' = "queued" /\ pc' = pc /\ tx' = tx /\ blamed' = blamed
      /\ completed' = completed /\ pins' = pins /\ result' = result
      /\ phase[Job] = "absent" /\ phase' = [phase EXCEPT ![Job] = "waiting"]
      /\ tries' = tries /\ holder' = holder
  BY DEF Submit, Create, runnerVars, Queue!Submit
<1>3. holder[Job] = None
  BY <1>0, <1>2 DEF OnlyHolderRuns
<1>4. \A r \in Runners : pc[r] = "off" /\ tx[r] = NoTx
  BY <1>0, <1>3, SystemAssumption, NoTxAt DEF OnlyHolderRuns, RowPoints
<1>5. \A r \in Runners : Steady(r)'
  BY <1>2, <1>4, OffSteady
<1>6. TablesAgree' /\ JobTypeOK' /\ OnlyHolderRuns' /\ Blame'
  BY <1>0, <1>2, <1>3, <1>4 DEF TablesAgree, Stored, JobTypeOK, OnlyHolderRuns, Blame
<1> QED
  BY <1>1, <1>2, <1>5, <1>6 DEF SInv

LEMMA IdleKeeps ==
  ASSUME SInv, [SNext]_sysVars, Sweep \/ PollsInVain \/ UNCHANGED sysVars
  PROVE  SInv' /\ UNCHANGED vars
<1>0. JobTypeOK /\ OnlyHolderRuns /\ TablesAgree /\ Blame
  BY DEF SInv
<1>1. StagesInv'
  BY Projects, StepStages DEF SInv
<1>2. UNCHANGED vars /\ blamed' = blamed
  BY DEF Sweep, PollsInVain, sysVars, vars
<1>3. JobTypeOK' /\ holder' = holder /\ (holder[Job] # None => phase'[Job] = "held")
  <2>1. CASE Sweep
    <3>1. Queue!Abandoned(Job) /\ tries' = tries /\ holder' = holder
          /\ phase' = [j \in {Job} |-> IF j \in {Job} THEN "buried" ELSE phase[j]]
      BY <2>1 DEF Sweep, Queue!Bury
    <3> QED
      BY <1>0, <1>2, <3>1 DEF Queue!Abandoned, JobTypeOK
  <2>2. CASE PollsInVain \/ UNCHANGED sysVars
    BY <1>0, <1>2, <2>2 DEF PollsInVain, sysVars, JobTypeOK, OnlyHolderRuns
  <2> QED
    BY <2>1, <2>2
<1>4. /\ state' = state /\ completed' = completed /\ pins' = pins /\ result' = result
      /\ answer' = answer /\ judged' = judged /\ tx' = tx /\ pc' = pc /\ view' = view
      /\ seen' = seen /\ pinned' = pinned /\ skip' = skip /\ at' = at /\ found' = found
      /\ total' = total
  BY <1>2 DEF vars
<1>5. UNCHANGED tableVars /\ UNCHANGED runnerVars
  BY <1>4 DEF tableVars, runnerVars
<1>6. TablesAgree' /\ Row' = Row /\ Stored' = Stored /\ HasVerdicts' = HasVerdicts
  BY <1>0, <1>5, TablesQuiet
<1>7. OnlyHolderRuns' /\ Blame'
  BY <1>0, <1>2, <1>3, <1>4 DEF OnlyHolderRuns, Blame
<1>8. ASSUME NEW r \in Runners PROVE Steady(r)'
  <2>1. Steady(r)
    BY DEF SInv
  <2>2. NewRow(r)' = NewRow(r)
    BY <1>4, <1>6 DEF NewRow
  <2> QED
    BY <1>4, <1>6, <2>1, <2>2 DEF Steady, Synced, Current, SearchLoop, AnswerLoop, JudgeLoop, Behind
<1> QED
  BY <1>1, <1>2, <1>3, <1>6, <1>7, <1>8 DEF SInv

LEMMA InitSystem == SInit => SInv
<1> SUFFICES ASSUME SInit PROVE SInv
  OBVIOUS
<1>1. StagesInv
  BY InitStages DEF SInit
<1>2. \A r \in Runners : pc[r] = "off" /\ tx[r] = NoTx
  BY DEF SInit, RInit, Init, Callers
<1>3. \A c \in Clients : tx[c] = NoTx
  BY DEF SInit, RInit, Init, Callers
<1>4. /\ phase = [j \in {Job} |-> "absent"] /\ tries = [j \in {Job} |-> 0]
      /\ holder = [j \in {Job} |-> None] /\ blamed = FALSE
  BY DEF SInit, Queue!Init
<1>5. JobTypeOK
  <2>1. "absent" \in {"absent", "waiting", "held", "done", "buried"} /\ 0 \in 0..MaxAttempts
    BY SystemAssumption
  <2>2. FALSE \in BOOLEAN
    OBVIOUS
  <2> QED
    BY <1>4, <2>1, <2>2, Zenon DEF JobTypeOK
<1>6. OnlyHolderRuns
  BY <1>2, <1>3, <1>4, SystemAssumption DEF OnlyHolderRuns
<1>7. TablesAgree
  <2>1. state = "absent" /\ completed = 0 /\ \A i \in Items : result[i] = None
    BY DEF SInit, RInit, Init
  <2>2. Stored = {}
    BY <2>1 DEF Stored
  <2> QED
    BY <2>1, <2>2, FS_EmptySet DEF TablesAgree
<1>8. Blame
  BY <1>2 DEF Blame, SInit, RInit, Init
<1>9. \A r \in Runners : Steady(r)
  BY <1>2 DEF Steady, Synced, Current, SearchLoop, AnswerLoop, JudgeLoop, Running, Points
<1> QED
  BY <1>1, <1>5, <1>6, <1>7, <1>8, <1>9 DEF SInv

LEMMA StepSystem == SInv /\ [SNext]_sysVars => SInv'
<1> SUFFICES ASSUME SInv, [SNext]_sysVars PROVE SInv'
  OBVIOUS
<1>1. ASSUME NEW w \in Runners,
             Take(w) \/ Works(w) \/ Stumbles(w) \/ Settles(w) \/ HeartbeatRaises(w) \/ Dies(w)
      PROVE  SInv'
  BY <1>1, TakeKeeps, WorksKeeps, EndsKeep
<1> QED
  BY <1>1, SubmitKeeps, IdleKeeps DEF SNext

LEMMA SystemInv == SSpec => []SInv
BY InitSystem, StepSystem, PTL DEF SSpec

(* Types of the run, its results, its runners and its job.                 *)
THEOREM SystemTypeCorrect == SSpec => []STypeOK
<1>1. SInv => STypeOK
  BY DEF SInv, StagesInv, ProgressInv, RInv, JobTypeOK, STypeOK
<1> QED
  BY <1>1, SystemInv, PTL

(* completed_queries is at every moment exactly the number of results, for *)
(* add_result counts under no other writer and the size that set_progress  *)
(* writes is the one the row has (add_result, set_progress).               *)
THEOREM ProgressStaysExact == SSpec => []ProgressIsExact
<1>1. SInv => ProgressIsExact
  BY DEF SInv, TablesAgree, ProgressIsExact
<1> QED
  BY <1>1, SystemInv, PTL

(* pin_index_fingerprint: the results of a variant come from the one index *)
(* pinned for it, across any deaths and resumptions.                       *)
THEOREM VariantsKeepTheirIndex == SSpec => []OneIndexPerVariant
<1>1. SInv => OneIndexPerVariant
  BY DEF SInv, TablesAgree, OneIndexPerVariant
<1> QED
  BY <1>1, SystemInv, PTL

(* A run that says COMPLETED has every result, every selected answer and   *)
(* every verdict asked for, however often its worker died (run).           *)
THEOREM CompletedRunsAreWhole == SSpec => []CompletedIsWhole
<1>1. ASSUME SInv PROVE CompletedIsWhole
  <2>1. Justified(state) /\ TablesAgree
    BY <1>1 DEF SInv, StagesInv
  <2> QED
    BY <2>1 DEF Justified, HasResults, HasAnswers, TablesAgree, HasVerdicts, CompletedIsWhole
<1> QED
  BY <1>1, SystemInv, PTL

(* A run is FAILED only after a call of its runner has failed: no check of *)
(* the runner or of the repositories refuses a resumed run (_mark_failed). *)
THEOREM NoRunFailsUnprovoked == SSpec => []NoSpuriousFailure
<1>1. SInv => NoSpuriousFailure
  BY DEF SInv, Blame, NoSpuriousFailure
<1> QED
  BY <1>1, SystemInv, PTL

(* The state a run has ended in is never written again (set_state).        *)
THEOREM EndedRunsStayEnded == SSpec => EndedIsFinal
<1>1. SInv /\ [SNext]_sysVars => [(state \in Ended) => (state' = state)]_sysVars
  <2> SUFFICES ASSUME SInv, [SNext]_sysVars, state \in Ended PROVE state' = state
    OBVIOUS
  <2>1. ASSUME NEW w \in Runners,
               Take(w) \/ Works(w) \/ Stumbles(w) \/ Settles(w) \/ HeartbeatRaises(w) \/ Dies(w)
        PROVE  state' = state
    <3>1. RunKept(w)
      BY <2>1, TakeKeeps, WorksKeeps, EndsKeep
    <3> QED
      BY <3>1 DEF RunKept
  <2>2. CASE Submit
    BY <2>2, SubmitKeeps DEF Ended
  <2>3. CASE Sweep \/ PollsInVain \/ UNCHANGED sysVars
    BY <2>3, IdleKeeps DEF vars
  <2> QED
    BY <2>1, <2>2, <2>3 DEF SNext
<1> QED
  BY <1>1, SystemInv, PTL DEF SSpec, EndedIsFinal

(* src/README.md:604: a resumed run searches no query again whose result   *)
(* it has, asks for no answer again and judges no answer again.            *)
THEOREM CommittedWorkStaysSkipped == SSpec => CommittedWorkIsSkipped
<1>1. ASSUME SInv, NEW w \in Runners
      PROVE  /\ Searches(w) => result[at[w]] = None
             /\ Answers(w) => answer[at[w]] = None
             /\ Judges(w) => ~judged[at[w]]
  <2>1. Steady(w)
    BY <1>1 DEF SInv
  <2>2. \A i \in Items \ skip[w] : i = at[w] => ~Behind(w, i)
    BY StoreAssumption DEF Behind, Items
  <2> QED
    BY <2>1, <2>2 DEF Steady, SearchLoop, AnswerLoop, JudgeLoop, Searches, Answers, Judges
<1>2. SInv /\ [SNext]_sysVars =>
        [\A w \in Runners :
           /\ Searches(w) => result[at[w]] = None
           /\ Answers(w) => answer[at[w]] = None
           /\ Judges(w) => ~judged[at[w]]]_sysVars
  BY <1>1
<1> QED
  BY <1>2, SystemInv, PTL DEF SSpec, CommittedWorkIsSkipped
=============================================================================
