-------------------------- MODULE EvalRunnerProofs --------------------------
(***************************************************************************)
(* What holds of an evaluation run whatever number of runners execute it   *)
(* at once, for any number of queries, variants and indexes.               *)
(***************************************************************************)
EXTENDS EvalRunner, FiniteSetTheorems, TLAPS

-----------------------------------------------------------------------------
(* The tables: what each call of the repositories, and the commit of its   *)
(* transaction, makes of a well formed store, and how the results that are *)
(* stored are counted.                                                     *)
LEMMA VariantOfType ==
  ASSUME NEW i \in Items
  PROVE  VariantOf(i) \in Variants
<1>1. i - 1 \in Nat /\ NV \in Nat /\ NV > 0
  BY StoreAssumption DEF Items
<1>2. \A a, b \in Nat : b > 0 => a % b \in 0..(b - 1)
  OBVIOUS
<1> QED
  BY <1>1, <1>2 DEF VariantOf, Variants

LEMMA RowType == StoreTypeOK => Row \in Rows
BY DEF StoreTypeOK, Row, Rows

LEMMA TxType ==
  ASSUME StoreTypeOK, NEW s \in Callers, tx[s] # NoTx
  PROVE  /\ tx[s] \in Txs
         /\ tx[s].row \in Rows
         /\ tx[s].item \in Items
         /\ tx[s].table \in {"run", "result", "answer"}
         /\ tx[s].table = "result" => tx[s].value \in Indexes
         /\ tx[s].table = "answer" => tx[s].value \in Outcomes
<1>1. tx[s] \in Txs
  BY DEF StoreTypeOK
<1>2. 1 \in Items
  BY StoreAssumption DEF Items
<1> QED
  BY <1>1, <1>2 DEF Txs

LEMMA InitStoreType == Init => StoreTypeOK
<1> SUFFICES ASSUME Init PROVE StoreTypeOK
  OBVIOUS
<1>1. total \in {0, Total} /\ completed \in 0..Total
  BY StoreAssumption DEF Init
<1> QED
  BY <1>1 DEF Init, StoreTypeOK, States

LEMMA OpenType ==
  ASSUME StoreTypeOK, NEW s \in Callers, NEW row \in Rows, NEW table, NEW i, NEW x,
         \/ table = "run" /\ i = 1 /\ x = None
         \/ table = "result" /\ i \in Items /\ x \in Indexes
         \/ table = "answer" /\ i \in Items /\ x \in Outcomes,
         Open(s, table, i, x, row)
  PROVE  StoreTypeOK'
<1> DEFINE t == [table |-> table, item |-> i, value |-> x, row |-> row,
                 dirty |-> {c \in Columns : row[c] # Row[c]}]
<1>1. t \in Txs
  BY DEF Txs
<1>2. tx' \in [Callers -> Txs \cup {NoTx}]
  BY <1>1 DEF Open, StoreTypeOK
<1> QED
  BY <1>2 DEF Open, StoreTypeOK, tableVars

LEMMA SetStateType ==
  ASSUME StoreTypeOK, NEW s \in Callers, NEW to \in States, SetStateRead(s, to)
  PROVE  StoreTypeOK'
<1>1. [Row EXCEPT !.state = to] \in Rows
  BY RowType DEF Rows
<1> QED
  BY <1>1, OpenType DEF SetStateRead

LEMMA SetProgressType ==
  ASSUME StoreTypeOK, NEW s \in Callers, NEW done \in 0..Total, SetProgressRead(s, done)
  PROVE  StoreTypeOK'
<1>1. [Row EXCEPT !.completed = done, !.total = Total] \in Rows
  BY RowType DEF Rows
<1> QED
  BY <1>1, OpenType DEF SetProgressRead

LEMMA PinType ==
  ASSUME StoreTypeOK, NEW s \in Callers, NEW v \in Variants, NEW x \in Indexes, PinRead(s, v, x)
  PROVE  StoreTypeOK'
<1>1. [Row EXCEPT !.pins[v] = x] \in Rows
  BY RowType DEF Rows
<1> QED
  BY <1>1, OpenType DEF PinRead

(* How many results are stored: never more than there are items, and all   *)
(* of them only when every item has one.                                   *)
LEMMA StoredCount ==
  /\ IsFiniteSet(Stored) /\ Cardinality(Stored) \in Nat
  /\ Cardinality(Stored) <= Total
  /\ Cardinality(Stored) = Total => Stored = Items
<1>1. IsFiniteSet(Items) /\ Cardinality(Items) = Total
  BY FS_Interval, StoreAssumption DEF Items
<1>2. Stored \subseteq Items
  BY DEF Stored
<1> QED
  BY <1>1, <1>2, FS_Subset, FS_CardinalityType

LEMMA AddResultType ==
  ASSUME StoreTypeOK, NEW s \in Callers, NEW i \in Items, NEW x \in Indexes, AddResultRead(s, i, x)
  PROVE  StoreTypeOK'
<1>1. Cardinality(Stored) + 1 \in 0..Total
  BY StoredCount, StoreAssumption DEF AddResultRead, StoreTypeOK
<1>2. [Row EXCEPT !.completed = Cardinality(Stored) + 1] \in Rows
  BY <1>1, RowType DEF Rows
<1> QED
  BY <1>2, OpenType DEF AddResultRead

LEMMA UpdateAnswerType ==
  ASSUME StoreTypeOK, NEW s \in Callers, NEW i \in Items, NEW o \in Outcomes,
         UpdateAnswerRead(s, i, o)
  PROVE  StoreTypeOK'
BY RowType, OpenType DEF UpdateAnswerRead

LEMMA CommitType ==
  ASSUME StoreTypeOK, NEW s \in Callers, Commit(s)
  PROVE  StoreTypeOK'
<1>1. /\ tx[s].row \in Rows
      /\ tx[s].item \in Items
      /\ tx[s].table = "result" => tx[s].value \in Indexes
      /\ tx[s].table = "answer" => tx[s].value \in Outcomes
  BY TxType DEF Commit
<1>2. /\ state' \in States
      /\ total' \in {0, Total}
      /\ completed' \in 0..Total
      /\ pins' \in [Variants -> Indexes \cup {None}]
  BY <1>1 DEF Commit, StoreTypeOK, Rows
<1>3. result' \in [Items -> Indexes \cup {None}]
  BY <1>1 DEF Commit, StoreTypeOK
<1>4. answer' \in [Items -> Outcomes \cup {None}]
  BY <1>1 DEF Commit, StoreTypeOK
<1>5. tx' \in [Callers -> Txs \cup {NoTx}] /\ judged' \in [Items -> BOOLEAN]
  BY DEF Commit, StoreTypeOK
<1> QED
  BY <1>2, <1>3, <1>4, <1>5 DEF StoreTypeOK

LEMMA QuietTypes ==
  ASSUME StoreTypeOK,
         \/ UNCHANGED storeVars
         \/ Create
         \/ \E s \in Callers : Rollback(s)
         \/ \E i \in Items : UpdateJudges(i)
  PROVE  StoreTypeOK'
<1>1. CASE UNCHANGED storeVars
  BY <1>1 DEF storeVars, StoreTypeOK
<1>2. CASE Create
  BY <1>2 DEF Create, StoreTypeOK, States
<1>3. CASE \E s \in Callers : Rollback(s)
  BY <1>3 DEF Rollback, StoreTypeOK, tableVars
<1>4. CASE \E i \in Items : UpdateJudges(i)
  BY <1>4 DEF UpdateJudges, StoreTypeOK
<1> QED
  BY <1>1, <1>2, <1>3, <1>4

-----------------------------------------------------------------------------
LocalTypeOK ==
  /\ pc \in [Runners -> Running \cup {"off", "returned", "raised"}]
  /\ view \in [Runners -> States]
  /\ seen \in [Runners -> 0..Total]
  /\ pinned \in [Runners -> [Variants -> Indexes \cup {None}]]
  /\ skip \in [Runners -> SUBSET Items]
  /\ at \in [Runners -> 1..(Total + 1)]
  /\ found \in [Runners -> Indexes \cup {None}]

(* What ties a runner's open transaction to the point it has reached.      *)
RowPoints == {"claim", "size", "begin", "pin", "leave", "answered", "judged", "score", "mark"}

Wired(r) ==
  /\ pc[r] = "list" => view[r] \in {"retrieving", "generating", "judging"}
  /\ pc[r] \in {"pin", "store"} => found[r] \in Indexes /\ at[r] \in Items
  /\ tx[r] # NoTx =>
       \/ pc[r] \in RowPoints /\ tx[r].table = "run"
       \/ pc[r] = "store" /\ tx[r].table = "result" /\ tx[r].item = at[r]
       \/ pc[r] = "answer" /\ at[r] \in Items /\ tx[r].table = "answer" /\ tx[r].item = at[r]

RInv == RTypeOK /\ \A r \in Runners : Wired(r)

(* What one step of the system does to the tables.                         *)
Moves ==
  \/ UNCHANGED storeVars
  \/ Create
  \/ \E i \in Items : UpdateJudges(i)
  \/ \E s \in Callers : Rollback(s)
  \/ \E s \in Callers : Commit(s)
  \/ \E s \in Callers, to \in States : SetStateRead(s, to)
  \/ \E r \in Runners : SetProgressRead(r, seen[r])
  \/ \E s \in Callers, v \in Variants, x \in Indexes : PinRead(s, v, x)
  \/ \E s \in Callers, i \in Items, x \in Indexes : AddResultRead(s, i, x)
  \/ \E s \in Callers, i \in Items, o \in Outcomes : UpdateAnswerRead(s, i, o)

LEMMA TypeSplit == RTypeOK <=> StoreTypeOK /\ LocalTypeOK
BY DEF RTypeOK, LocalTypeOK


LEMMA MovesType ==
  ASSUME RInv, Moves
  PROVE  StoreTypeOK'
<1>1. StoreTypeOK /\ \A r \in Runners : seen[r] \in 0..Total
  BY DEF RInv, RTypeOK
<1>2. Runners \subseteq Callers
  BY DEF Callers
<1> QED
  BY <1>1, <1>2, QuietTypes, CommitType, SetStateType, SetProgressType, PinType,
     AddResultType, UpdateAnswerType DEF Moves

LEMMA RunnerMoves ==
  ASSUME RInv, NEW r \in Runners,
         Starts(r) \/ StartFails(r) \/ Execute(r) \/ Raises(r) \/ MarkFails(r)
           \/ Aborted(r) \/ Leaves(r)
  PROVE  Moves
<1>0. r \in Callers /\ LocalTypeOK /\ Wired(r)
  BY TypeSplit DEF Callers, RInv
<1>1. CASE Starts(r) \/ StartFails(r) \/ Leaves(r) \/ Loads(r) \/ Lists(r) \/ Skips(r)
           \/ ReturnsCancelled(r) \/ Searches(r) \/ Retrieved(r) \/ StageEnds(r)
  BY <1>1 DEF Starts, StartFails, Leaves, Loads, Lists, Skips, ReturnsCancelled, Searches,
     Retrieved, StageEnds, Moves
<1>2. CASE SetsState(r)
  <2>1. Target(pc[r]) \in States
    BY <1>2 DEF SetsState, Target, States, Ended
  <2> QED
    BY <1>0, <1>2, <2>1 DEF SetsState, Moves
<1>3. CASE SetsProgress(r)
  BY <1>3 DEF SetsProgress, Moves
<1>4. CASE Claimed(r) \/ Sized(r) \/ Moved(r)
  BY <1>0, <1>4 DEF Claimed, Sized, Moved, Sees, Moves
<1>5. CASE Pins(r)
  <2>1. VariantOf(at[r]) \in Variants /\ found[r] \in Indexes
    BY <1>0, <1>5, VariantOfType DEF Pins, Wired
  <2> QED
    BY <1>0, <1>5, <2>1 DEF Pins, Moves
<1>6. CASE Pinned(r) \/ StoreCommits(r) \/ AnswerCommits(r) \/ Marked(r)
  BY <1>0, <1>6 DEF Pinned, StoreCommits, AnswerCommits, Marked, Moves
<1>7. CASE Stores(r)
  <2>1. at[r] \in Items /\ found[r] \in Indexes
    BY <1>0, <1>7 DEF Stores, Wired
  <2> QED
    BY <1>0, <1>7, <2>1 DEF Stores, Moves
<1>8. CASE Answers(r)
  BY <1>0, <1>8 DEF Answers, Moves
<1>9. CASE Judges(r)
  BY <1>9 DEF Judges, Moves
<1>10. CASE Marks(r)
  BY <1>0, <1>10 DEF Marks, Moves, States, Ended
<1>11. CASE Raises(r) \/ MarkFails(r) \/ Aborted(r)
  BY <1>0, <1>11 DEF Raises, MarkFails, Aborted, Moves
<1> QED
  BY <1>1, <1>2, <1>3, <1>4, <1>5, <1>6, <1>7, <1>8, <1>9, <1>10, <1>11 DEF Execute

LEMMA StepMoves ==
  ASSUME RInv, [RNext]_vars
  PROVE  Moves
<1>1. CASE Create /\ UNCHANGED runnerVars
  BY <1>1 DEF Moves
<1>2. CASE \E c \in Clients : CancelClient(c)
  BY <1>2 DEF CancelClient, CancelRead, Callers, Moves, States, Ended
<1>3. CASE UNCHANGED vars
  BY <1>3 DEF vars, storeVars, Moves
<1> QED
  BY <1>1, <1>2, <1>3, RunnerMoves DEF RNext

-----------------------------------------------------------------------------
LEMMA EnterType ==
  ASSUME NEW p, NEW s
  PROVE  /\ Enter(p, s) \in {"list", "score", "returned"}
         /\ Enter(p, s) = "list" => s \in {"retrieving", "generating", "judging"}
BY DEF Enter

(* The locals of the runner that takes a step stay well formed.            *)
LEMMA RunnerTypes ==
  ASSUME RInv, StoreTypeOK', NEW r \in Runners,
         Starts(r) \/ StartFails(r) \/ Execute(r) \/ Raises(r) \/ MarkFails(r)
           \/ Aborted(r) \/ Leaves(r)
  PROVE  LocalTypeOK'
<1>0. LocalTypeOK /\ StoreTypeOK /\ Wired(r)
  BY TypeSplit DEF RInv
<1>a. /\ "absent" \in States /\ 0 \in 0..Total /\ 1 \in 1..(Total + 1)
      /\ [v \in Variants |-> None] \in [Variants -> Indexes \cup {None}]
  BY StoreAssumption DEF States
<1>b. \A p : p \in Running \cup {"off", "returned", "raised"} /\ Ends(r, p) => LocalTypeOK'
  BY <1>0, <1>a DEF Ends, Goto, Forget, LocalTypeOK
<1>1. CASE Starts(r)
  <2>1. CASE state \in Ended
    BY <1>b, <1>1, <2>1 DEF Starts
  <2>2. CASE state \notin Ended
    <3>1. PICK p \in Running : pc' = [pc EXCEPT ![r] = p]
      BY <1>1, <2>2 DEF Starts, Goto, Running, Points
    <3>2. /\ view' = [view EXCEPT ![r] = state] /\ seen' = [seen EXCEPT ![r] = completed]
          /\ pinned' = [pinned EXCEPT ![r] = pins] /\ UNCHANGED <<skip, at, found>>
      BY <1>1, <2>2 DEF Starts
    <3> QED
      BY <1>0, <3>1, <3>2 DEF StoreTypeOK, LocalTypeOK
  <2> QED
    BY <2>1, <2>2
<1>2. CASE StartFails(r) \/ Leaves(r) \/ ReturnsCancelled(r) \/ Marked(r) \/ MarkFails(r)
           \/ Aborted(r)
  BY <1>b, <1>2 DEF StartFails, Leaves, ReturnsCancelled, Marked, MarkFails, Aborted
<1>3. CASE Loads(r)
  BY <1>0, <1>3, EnterType DEF Loads, Goto, KeepLocals, LocalTypeOK, Running, Points
<1>4. CASE SetsState(r) \/ SetsProgress(r) \/ Raises(r) \/ Retrieved(r) \/ StageEnds(r)
  BY <1>0, <1>4 DEF SetsState, SetsProgress, Raises, Retrieved, StageEnds, Goto, KeepLocals,
     runnerVars, LocalTypeOK, Running, Points
<1>5. CASE Claimed(r) \/ Sized(r) \/ Moved(r)
  <2>1. /\ pc' \in [Runners -> Running \cup {"off", "returned", "raised"}]
        /\ UNCHANGED <<skip, at, found>>
    BY <1>0, <1>5, EnterType DEF Claimed, Sized, Moved, Sees, Goto, LocalTypeOK, Running, Points
  <2>2. PICK p : Sees(r, p)
    BY <1>5 DEF Claimed, Sized, Moved
  <2>3. view' \in [Runners -> States]
    BY <1>0, <2>2 DEF Sees, LocalTypeOK, StoreTypeOK
  <2>4. seen' \in [Runners -> 0..Total]
    BY <1>0, <1>a, <2>2 DEF Sees, LocalTypeOK, StoreTypeOK
  <2>5. pinned' \in [Runners -> [Variants -> Indexes \cup {None}]]
    BY <1>0, <2>2 DEF Sees, LocalTypeOK, StoreTypeOK
  <2> QED
    BY <1>0, <2>1, <2>3, <2>4, <2>5 DEF LocalTypeOK
<1>6. CASE Lists(r)
  <2>1. Passed(view[r]) \subseteq Items
    BY <1>0, <1>6 DEF Lists, Wired, Passed, Stored
  <2> QED
    BY <1>0, <1>6, <1>a, <2>1 DEF Lists, Wired, Goto, LocalTypeOK, Running, Points
<1>7. CASE Skips(r)
  BY <1>0, <1>7, StoreAssumption DEF Skips, Advance, LocalTypeOK, Items
<1>8. CASE Searches(r)
  BY <1>0, <1>8 DEF Searches, Goto, LocalTypeOK, Running, Points
<1>9. CASE Pins(r)
  BY <1>0, <1>9 DEF Pins, Goto, KeepLocals, runnerVars, LocalTypeOK, Running, Points
<1>10. CASE Pinned(r)
  <2>1. VariantOf(at[r]) \in Variants /\ found[r] \in Indexes
    BY <1>0, <1>10, VariantOfType DEF Pinned, Wired
  <2> QED
    BY <1>0, <1>10, <2>1 DEF Pinned, Goto, LocalTypeOK, Running, Points
<1>11. CASE Stores(r) \/ StoreCommits(r)
  <2>1. at[r] \in Items
    BY <1>0, <1>11 DEF Stores, StoreCommits, Wired
  <2>2. CASE ToNextSearch(r)
    BY <1>0, <2>1, <2>2, StoreAssumption DEF ToNextSearch, Advance, Goto, LocalTypeOK, Running,
       Points, Items
  <2>3. CASE UNCHANGED runnerVars
    BY <1>0, <2>3 DEF runnerVars, LocalTypeOK
  <2> QED
    BY <1>11, <2>2, <2>3 DEF Stores, StoreCommits
<1>12. CASE Answers(r) \/ Judges(r)
  BY <1>0, <1>12, StoreAssumption DEF Answers, Judges, Advance, runnerVars, LocalTypeOK, Items
<1>13. CASE AnswerCommits(r)
  <2>1. at[r] \in Items
    BY <1>0, <1>13 DEF AnswerCommits, Commit, Wired, RowPoints
  <2> QED
    BY <1>0, <1>13, <2>1, StoreAssumption DEF AnswerCommits, Advance, LocalTypeOK, Items
<1>14. CASE Marks(r)
  BY <1>0, <1>14, <1>b DEF Marks, runnerVars, LocalTypeOK
<1> QED
  BY <1>1, <1>2, <1>3, <1>4, <1>5, <1>6, <1>7, <1>8, <1>9, <1>10, <1>11, <1>12, <1>13, <1>14
     DEF Execute

-----------------------------------------------------------------------------
(* A step of one session leaves the locals and transactions of the others. *)
OnlyTx(s) == \A q \in Callers \ {s} : tx'[q] = tx[q]

LEMMA StoreFrame ==
  ASSUME StoreTypeOK, NEW s \in Callers,
         \/ UNCHANGED storeVars
         \/ Commit(s) \/ Rollback(s)
         \/ \E table, i, x, row : Open(s, table, i, x, row)
         \/ \E i : UpdateJudges(i)
  PROVE  OnlyTx(s)
<1>1. CASE UNCHANGED storeVars
  BY <1>1 DEF storeVars, OnlyTx
<1>2. CASE Commit(s) \/ Rollback(s)
  BY <1>2 DEF Commit, Rollback, StoreTypeOK, OnlyTx
<1>3. CASE \E table, i, x, row : Open(s, table, i, x, row)
  BY <1>3 DEF Open, StoreTypeOK, OnlyTx
<1>4. CASE \E i : UpdateJudges(i)
  BY <1>4 DEF UpdateJudges, OnlyTx
<1> QED
  BY <1>1, <1>2, <1>3, <1>4

OnlyLocals(r) ==
  \A q \in Runners \ {r} :
    /\ pc'[q] = pc[q] /\ view'[q] = view[q] /\ seen'[q] = seen[q]
    /\ skip'[q] = skip[q] /\ at'[q] = at[q] /\ found'[q] = found[q]

LEMMA RunnerTx ==
  ASSUME RInv, NEW r \in Runners,
         Starts(r) \/ StartFails(r) \/ Execute(r) \/ Raises(r) \/ MarkFails(r)
           \/ Aborted(r) \/ Leaves(r)
  PROVE  OnlyTx(r)
<1>0. r \in Callers /\ StoreTypeOK
  BY TypeSplit DEF Callers, RInv
<1>1. CASE Starts(r) \/ StartFails(r) \/ Leaves(r) \/ Loads(r) \/ Lists(r) \/ Skips(r)
           \/ ReturnsCancelled(r) \/ Searches(r) \/ Retrieved(r) \/ StageEnds(r)
  BY <1>0, <1>1, StoreFrame DEF Starts, StartFails, Leaves, Loads, Lists, Skips, ReturnsCancelled,
     Searches, Retrieved, StageEnds
<1>2. CASE SetsState(r) \/ SetsProgress(r) \/ Pins(r) \/ Stores(r) \/ Answers(r) \/ Marks(r)
           \/ Judges(r)
  BY <1>0, <1>2, StoreFrame DEF SetsState, SetsProgress, Pins, Stores, Answers, Marks, Judges,
     SetStateRead, SetProgressRead, PinRead, AddResultRead, UpdateAnswerRead
<1>3. CASE Claimed(r) \/ Sized(r) \/ Moved(r) \/ Pinned(r) \/ StoreCommits(r)
           \/ AnswerCommits(r) \/ Marked(r)
  BY <1>0, <1>3, StoreFrame DEF Claimed, Sized, Moved, Sees, Pinned, StoreCommits, AnswerCommits,
     Marked
<1>4. CASE Raises(r) \/ MarkFails(r) \/ Aborted(r)
  BY <1>0, <1>4, StoreFrame DEF Raises, MarkFails, Aborted
<1> QED
  BY <1>1, <1>2, <1>3, <1>4 DEF Execute

LEMMA RunnerLocals ==
  ASSUME RInv, NEW r \in Runners,
         Starts(r) \/ StartFails(r) \/ Execute(r) \/ Raises(r) \/ MarkFails(r)
           \/ Aborted(r) \/ Leaves(r)
  PROVE  OnlyLocals(r)
<1>0. LocalTypeOK
  BY TypeSplit DEF RInv
<1>1. CASE Starts(r) \/ StartFails(r) \/ Leaves(r) \/ ReturnsCancelled(r) \/ Marked(r)
           \/ MarkFails(r) \/ Aborted(r) \/ Marks(r)
  BY <1>0, <1>1 DEF Starts, StartFails, Leaves, ReturnsCancelled, Marked, MarkFails, Aborted,
     Marks, Ends, Goto, Forget, runnerVars, LocalTypeOK, OnlyLocals
<1>2. CASE Loads(r) \/ SetsState(r) \/ SetsProgress(r) \/ Raises(r) \/ Retrieved(r)
           \/ StageEnds(r) \/ Lists(r) \/ Skips(r)
  BY <1>0, <1>2 DEF Loads, SetsState, SetsProgress, Raises, Retrieved, StageEnds, Lists, Skips,
     Goto, KeepLocals, Advance, runnerVars, LocalTypeOK, OnlyLocals
<1>3. CASE Claimed(r) \/ Sized(r) \/ Moved(r)
  BY <1>0, <1>3 DEF Claimed, Sized, Moved, Sees, Goto, LocalTypeOK, OnlyLocals
<1>4. CASE Searches(r) \/ Pins(r) \/ Pinned(r) \/ Stores(r) \/ StoreCommits(r)
  BY <1>0, <1>4 DEF Searches, Pins, Pinned, Stores, StoreCommits, ToNextSearch, Advance, Goto,
     KeepLocals, runnerVars, LocalTypeOK, OnlyLocals
<1>5. CASE Answers(r) \/ AnswerCommits(r) \/ Judges(r)
  BY <1>0, <1>5 DEF Answers, AnswerCommits, Judges, Advance, runnerVars, LocalTypeOK, OnlyLocals
<1> QED
  BY <1>1, <1>2, <1>3, <1>4, <1>5 DEF Execute

-----------------------------------------------------------------------------
LEMMA Settled ==
  ASSUME StoreTypeOK, NEW s \in Callers, Commit(s) \/ Rollback(s)
  PROVE  tx'[s] = NoTx
BY DEF StoreTypeOK, Commit, Rollback

LEMMA Opened ==
  ASSUME StoreTypeOK, NEW s \in Callers, NEW table, NEW i, NEW x, NEW row,
         Open(s, table, i, x, row)
  PROVE  tx'[s].table = table /\ tx'[s].item = i
BY DEF StoreTypeOK, Open

LEMMA RunnerWired ==
  ASSUME RInv, NEW r \in Runners,
         Starts(r) \/ StartFails(r) \/ Execute(r) \/ Raises(r) \/ MarkFails(r)
           \/ Aborted(r) \/ Leaves(r)
  PROVE  Wired(r)'
<1>0. r \in Callers /\ StoreTypeOK /\ LocalTypeOK /\ Wired(r)
  BY TypeSplit DEF Callers, RInv
<1>a. (tx'[r] = NoTx /\ pc'[r] \notin {"list", "pin", "store"}) => Wired(r)'
  BY DEF Wired
<1>1. CASE Starts(r) \/ StartFails(r) \/ Leaves(r) \/ Loads(r) \/ Retrieved(r)
  <2>1. tx[r] = NoTx /\ tx' = tx
    BY <1>0, <1>1 DEF Starts, StartFails, Leaves, Loads, Retrieved, Wired, RowPoints, storeVars
  <2>2. CASE pc'[r] # "list"
    BY <1>0, <1>1, <1>a, <2>1, <2>2 DEF Starts, StartFails, Leaves, Loads, Retrieved, Ends, Goto,
       Enter, LocalTypeOK
  <2>3. CASE pc'[r] = "list"
    <3>1. Loads(r)
      BY <1>0, <1>1, <2>3 DEF Starts, StartFails, Leaves, Retrieved, Ends, Goto, LocalTypeOK
    <3> QED
      BY <1>0, <2>1, <2>3, <3>1, EnterType DEF Loads, Goto, KeepLocals, LocalTypeOK, Wired
  <2> QED
    BY <2>2, <2>3
<1>2. CASE ReturnsCancelled(r) \/ Lists(r) \/ Skips(r) \/ StageEnds(r)
  <2>1. tx[r] = NoTx /\ tx' = tx
    BY <1>0, <1>2, StoreAssumption DEF ReturnsCancelled, Lists, Skips, StageEnds, Wired, RowPoints,
       storeVars, LocalTypeOK, Items
  <2>2. pc'[r] \notin {"list", "pin", "store"}
    BY <1>0, <1>2 DEF ReturnsCancelled, Lists, Skips, StageEnds, Ends, Goto, LocalTypeOK, Wired
  <2> QED
    BY <1>a, <2>1, <2>2
<1>3. CASE Searches(r)
  <2>1. tx[r] = NoTx /\ tx' = tx
    BY <1>0, <1>3 DEF Searches, Wired, RowPoints, storeVars
  <2>2. at'[r] \in Items /\ found'[r] \in Indexes /\ pc'[r] # "list"
    BY <1>0, <1>3 DEF Searches, Goto, LocalTypeOK
  <2> QED
    BY <2>1, <2>2 DEF Wired
<1>4. CASE SetsState(r) \/ SetsProgress(r) \/ Pins(r) \/ Marks(r)
  <2>1. CASE UNCHANGED runnerVars
    <3>1. pc[r] \in RowPoints /\ tx'[r].table = "run"
      BY <1>0, <1>4, <2>1, Opened DEF SetsState, SetsProgress, Pins, Marks, SetStateRead,
         SetProgressRead, PinRead, RowPoints, Goto, Ends, Forget, runnerVars, LocalTypeOK
    <3> QED
      BY <1>0, <2>1, <3>1 DEF Wired, runnerVars, RowPoints
  <2>2. CASE tx' = tx /\ tx[r] = NoTx /\ pc'[r] \in {"mark", "raised"}
    BY <1>a, <2>2
  <2> QED
    BY <1>0, <1>4, <2>1, <2>2 DEF SetsState, SetsProgress, Pins, Marks, Ends, Goto, storeVars,
       LocalTypeOK
<1>5. CASE Claimed(r) \/ Sized(r) \/ Moved(r)
  <2>1. tx'[r] = NoTx /\ view'[r] = state'
    BY <1>0, <1>5, Settled DEF Claimed, Sized, Moved, Sees, LocalTypeOK
  <2>2. pc'[r] \notin {"pin", "store"}
    BY <1>0, <1>5, EnterType DEF Claimed, Sized, Moved, Goto, LocalTypeOK
  <2>3. pc'[r] = "list" => state' \in {"retrieving", "generating", "judging"}
    BY <1>0, <1>5, EnterType DEF Claimed, Sized, Moved, Goto, LocalTypeOK
  <2> QED
    BY <2>1, <2>2, <2>3 DEF Wired
<1>6. CASE Pinned(r)
  BY <1>0, <1>6, Settled DEF Pinned, Goto, LocalTypeOK, Wired
<1>7. CASE Stores(r)
  <2>1. CASE AddResultRead(r, at[r], found[r]) /\ UNCHANGED runnerVars
    <3>1. tx'[r].table = "result" /\ tx'[r].item = at[r]
      BY <1>0, <2>1, Opened DEF AddResultRead
    <3> QED
      BY <1>0, <1>7, <2>1, <3>1 DEF Stores, Wired, runnerVars
  <2>2. CASE ToNextSearch(r) /\ UNCHANGED storeVars
    BY <1>0, <1>7, <1>a, <2>2 DEF Stores, ToNextSearch, Goto, storeVars, LocalTypeOK
  <2> QED
    BY <1>7, <2>1, <2>2 DEF Stores
<1>8. CASE StoreCommits(r) \/ AnswerCommits(r) \/ Marked(r)
  BY <1>0, <1>8, <1>a, Settled DEF StoreCommits, AnswerCommits, Marked, ToNextSearch, Ends, Goto,
     LocalTypeOK
<1>9. CASE Answers(r)
  <2>1. CASE tx' = tx
    BY <1>0, <1>9, <1>a, <2>1 DEF Answers, runnerVars
  <2>2. CASE (\E o \in Outcomes : UpdateAnswerRead(r, at[r], o)) /\ UNCHANGED runnerVars
    <3>1. tx'[r].table = "answer" /\ tx'[r].item = at[r]
      BY <1>0, <2>2, Opened DEF UpdateAnswerRead
    <3> QED
      BY <1>0, <1>9, <2>2, <3>1 DEF Answers, Wired, runnerVars
  <2> QED
    BY <1>9, <2>1, <2>2 DEF Answers, storeVars
<1>10. CASE Judges(r)
  <2>1. tx[r] = NoTx /\ tx' = tx /\ pc' = pc
    BY <1>0, <1>10 DEF Judges, UpdateJudges, Wired, RowPoints
  <2> QED
    BY <1>10, <1>a, <2>1 DEF Judges
<1>11. CASE Raises(r) \/ MarkFails(r) \/ Aborted(r)
  <2>1. tx'[r] = NoTx
    BY <1>0, <1>11, Settled DEF Raises, MarkFails, Aborted, storeVars
  <2>2. pc'[r] \in {"mark", "raised", "off"}
    BY <1>0, <1>11 DEF Raises, MarkFails, Aborted, Ends, Goto, LocalTypeOK
  <2> QED
    BY <1>a, <2>1, <2>2
<1> QED
  BY <1>1, <1>2, <1>3, <1>4, <1>5, <1>6, <1>7, <1>8, <1>9, <1>10, <1>11 DEF Execute

-----------------------------------------------------------------------------
RunnerStep(r) ==
  Starts(r) \/ StartFails(r) \/ Execute(r) \/ Raises(r) \/ MarkFails(r) \/ Aborted(r) \/ Leaves(r)

(* Every step is the step of one runner, or one that no runner's locals    *)
(* and no runner's transaction take part in.                               *)
LEMMA StepKinds ==
  ASSUME RInv, [RNext]_vars
  PROVE  \/ \E r \in Runners : RunnerStep(r)
         \/ UNCHANGED runnerVars /\ \A r \in Runners : tx'[r] = tx[r]
<1>1. CASE Create /\ UNCHANGED runnerVars
  BY <1>1 DEF Create
<1>2. CASE \E c \in Clients : CancelClient(c)
  <2>1. PICK c \in Clients : CancelClient(c)
    BY <1>2
  <2>2. c \in Callers /\ \A r \in Runners : r \in Callers \ {c}
    BY StoreAssumption DEF Callers
  <2>3. OnlyTx(c)
    BY <2>1, <2>2, StoreFrame DEF CancelClient, CancelRead, SetStateRead, RInv, RTypeOK
  <2> QED
    BY <2>1, <2>2, <2>3 DEF CancelClient, OnlyTx
<1>3. CASE UNCHANGED vars
  BY <1>3 DEF vars, runnerVars
<1> QED
  BY <1>1, <1>2, <1>3 DEF RNext, RunnerStep

LEMMA InitInv == RInit => RInv
<1> SUFFICES ASSUME RInit PROVE RInv
  OBVIOUS
<1>1. StoreTypeOK
  BY InitStoreType DEF RInit
<1>2. LocalTypeOK
  BY StoreAssumption DEF RInit, LocalTypeOK, States
<1>3. \A r \in Runners : Wired(r)
  BY DEF RInit, Init, Wired, Callers
<1> QED
  BY <1>1, <1>2, <1>3, TypeSplit DEF RInv

LEMMA StepInv == RInv /\ [RNext]_vars => RInv'
<1> SUFFICES ASSUME RInv, [RNext]_vars PROVE RInv'
  OBVIOUS
<1>1. StoreTypeOK'
  BY StepMoves, MovesType
<1>2. CASE \E r \in Runners : RunnerStep(r)
  <2>1. PICK r \in Runners : RunnerStep(r)
    BY <1>2
  <2>2. LocalTypeOK' /\ Wired(r)'
    BY <1>1, <2>1, RunnerTypes, RunnerWired DEF RunnerStep
  <2>3. OnlyTx(r) /\ OnlyLocals(r)
    BY <2>1, RunnerTx, RunnerLocals DEF RunnerStep
  <2>4. ASSUME NEW q \in Runners, q # r PROVE Wired(q)'
    BY <2>3, <2>4 DEF OnlyTx, OnlyLocals, Wired, RInv, Callers
  <2> QED
    BY <1>1, <2>2, <2>4, TypeSplit DEF RInv, RTypeOK, StoreTypeOK, LocalTypeOK
<1>3. CASE UNCHANGED runnerVars /\ \A r \in Runners : tx'[r] = tx[r]
  <2>1. LocalTypeOK'
    BY <1>3, TypeSplit DEF RInv, LocalTypeOK, runnerVars
  <2>2. \A r \in Runners : Wired(r)'
    BY <1>3 DEF Wired, RInv, runnerVars
  <2> QED
    BY <1>1, <2>1, <2>2 DEF RInv, RTypeOK, StoreTypeOK, LocalTypeOK
<1> QED
  BY <1>2, <1>3, StepKinds

(* The tables, the open transactions and the runners' locals stay well     *)
(* formed, and a runner's transaction belongs to the point it has reached. *)
THEOREM RunTypeCorrect == RSpec => []RTypeOK
<1>1. RSpec => []RInv
  BY InitInv, StepInv, PTL DEF RSpec
<1> QED
  BY <1>1, PTL DEF RInv

-----------------------------------------------------------------------------
(* Why progress is never ahead of the results.  A transaction that read    *)
(* the row writes a count that was right when it read, and results are     *)
(* never taken away; a transaction that inserts a result counts it too,    *)
(* and no other inserts the same one.                                      *)
CountOf(s) ==
  tx[s] # NoTx =>
    IF tx[s].table = "result"
    THEN result[tx[s].item] = None /\ tx[s].row.completed <= Cardinality(Stored) + 1
    ELSE tx[s].row.completed <= Cardinality(Stored)

Counted ==
  /\ completed <= Cardinality(Stored)
  /\ \A s \in Callers : CountOf(s)
  /\ \A s, t \in Callers :
       s # t /\ tx[s].table = "result" /\ tx[t].table = "result" => tx[s].item # tx[t].item

SeenCounted == \A r \in Runners : seen[r] <= Cardinality(Stored)

ProgressInv == RInv /\ Counted /\ SeenCounted

(* What a commit makes of the stored results. *)
LEMMA CommitStored ==
  ASSUME StoreTypeOK, NEW s \in Callers, Commit(s),
         tx[s].table = "result" => result[tx[s].item] = None
  PROVE  /\ Stored \subseteq Stored'
         /\ Cardinality(Stored) <= Cardinality(Stored')
         /\ tx[s].table # "result" => Stored' = Stored
         /\ tx[s].table = "result" => /\ Stored' = Stored \cup {tx[s].item}
                                      /\ Cardinality(Stored') = Cardinality(Stored) + 1
<1>0. /\ tx[s].item \in Items
      /\ tx[s].table = "result" => tx[s].value \in Indexes
  BY TxType DEF Commit
<1>1. CASE tx[s].table # "result"
  <2>1. Stored' = Stored
    BY <1>1 DEF Commit, Stored
  <2> QED
    BY <1>1, <2>1, StoredCount
<1>2. CASE tx[s].table = "result"
  <2>1. tx[s].item \notin Stored
    BY <1>2 DEF Stored
  <2>2. result' = [result EXCEPT ![tx[s].item] = tx[s].value] /\ tx[s].value # None
    BY <1>0, <1>2, StoreAssumption DEF Commit
  <2>3. Stored' = Stored \cup {tx[s].item}
    BY <1>0, <2>2 DEF Stored, StoreTypeOK
  <2>4. Cardinality(Stored') = Cardinality(Stored) + 1
    BY <2>1, <2>3, FS_AddElement, StoredCount
  <2> QED
    BY <1>2, <2>3, <2>4, StoredCount
<1> QED
  BY <1>1, <1>2

LEMMA OpenCounted ==
  ASSUME StoreTypeOK, Counted, NEW s \in Callers, NEW table, NEW i, NEW x, NEW row \in Rows,
         Open(s, table, i, x, row),
         IF table = "result"
         THEN result[i] = None /\ row.completed <= Cardinality(Stored) + 1 /\ InsertFree(s, i)
         ELSE row.completed <= Cardinality(Stored)
  PROVE  Counted' /\ Stored' = Stored
<1>1. Stored' = Stored /\ UNCHANGED <<result, completed>>
  BY DEF Open, tableVars, Stored
<1>2. OnlyTx(s)
  BY StoreFrame
<1>3. tx'[s].table = table /\ tx'[s].item = i /\ tx'[s].row = row
  BY DEF Open, StoreTypeOK
<1>4. CountOf(s)'
  BY <1>1, <1>3 DEF CountOf
<1>5. ASSUME NEW q \in Callers, q # s PROVE CountOf(q)'
  BY <1>1, <1>2, <1>5 DEF Counted, CountOf, OnlyTx
<1>6. ASSUME NEW p \in Callers, NEW q \in Callers, p # q,
             tx'[p].table = "result", tx'[q].table = "result"
      PROVE  tx'[p].item # tx'[q].item
  BY <1>2, <1>3, <1>6 DEF Counted, OnlyTx, InsertFree
<1> QED
  BY <1>1, <1>4, <1>5, <1>6 DEF Counted

LEMMA CommitCounted ==
  ASSUME StoreTypeOK, Counted, NEW s \in Callers, Commit(s)
  PROVE  Counted' /\ Cardinality(Stored) <= Cardinality(Stored')
<1>0. CountOf(s) /\ tx[s] # NoTx /\ tx[s].row \in Rows
  BY TxType DEF Counted, Commit
<1>1. /\ Stored \subseteq Stored'
      /\ Cardinality(Stored) <= Cardinality(Stored')
      /\ tx[s].table # "result" => Stored' = Stored
      /\ tx[s].table = "result" => /\ Stored' = Stored \cup {tx[s].item}
                                   /\ Cardinality(Stored') = Cardinality(Stored) + 1
  BY <1>0, CommitStored DEF CountOf
<1>2. Cardinality(Stored) \in Nat /\ Cardinality(Stored') \in Nat
  <2>1. StoreTypeOK'
    BY CommitType
  <2>2. Stored \cup {tx[s].item} \subseteq Items
    BY TxType, <1>0 DEF Stored
  <2> QED
    BY <1>1, <2>2, StoredCount
<1>3. OnlyTx(s) /\ tx'[s] = NoTx
  BY StoreFrame, Settled
<1>4. completed' <= Cardinality(Stored')
  <2>1. completed' \in {completed, tx[s].row.completed}
    BY DEF Commit
  <2>2. completed \in Nat /\ tx[s].row.completed \in Nat
    BY <1>0 DEF StoreTypeOK, Rows
  <2> QED
    BY <1>0, <1>1, <1>2, <2>1, <2>2 DEF Counted, CountOf
<1>5. ASSUME NEW q \in Callers PROVE CountOf(q)'
  <2>1. CASE q = s
    BY <1>3, <2>1 DEF CountOf
  <2>2. CASE q # s
    <3>1. tx'[q] = tx[q] /\ CountOf(q)
      BY <1>3, <2>2 DEF OnlyTx, Counted
    <3>2. SUFFICES ASSUME tx[q] # NoTx PROVE CountOf(q)'
      BY <3>1 DEF CountOf
    <3>3. tx[q].row.completed \in Nat
      BY <3>2, TxType DEF Rows
    <3>4. CASE tx[q].table # "result"
      BY <1>1, <1>2, <3>1, <3>2, <3>3, <3>4 DEF CountOf
    <3>5. CASE tx[q].table = "result"
      <4>1. tx[s].table = "result" => tx[s].item # tx[q].item
        BY <2>2, <3>5 DEF Counted
      <4>2. result'[tx[q].item] = None
        BY <3>1, <3>2, <3>5, <4>1, TxType DEF Commit, CountOf, StoreTypeOK
      <4> QED
        BY <1>1, <1>2, <3>1, <3>2, <3>3, <3>5, <4>2 DEF CountOf
    <3> QED
      BY <3>4, <3>5
  <2> QED
    BY <2>1, <2>2
<1>6. ASSUME NEW p \in Callers, NEW q \in Callers, p # q,
             tx'[p].table = "result", tx'[q].table = "result"
      PROVE  tx'[p].item # tx'[q].item
  BY <1>3, <1>6 DEF Counted, OnlyTx, NoTx
<1> QED
  BY <1>1, <1>4, <1>5, <1>6 DEF Counted

LEMMA MovesCounted ==
  ASSUME RInv, Counted, SeenCounted, Moves
  PROVE  Counted' /\ Cardinality(Stored) <= Cardinality(Stored')
<1>0. /\ StoreTypeOK /\ LocalTypeOK /\ Runners \subseteq Callers
      /\ Cardinality(Stored) \in Nat /\ completed \in Nat
      /\ Row \in Rows /\ Row.completed = completed
  BY TypeSplit, StoredCount, RowType DEF RInv, Callers, StoreTypeOK, Row
<1>1. CASE UNCHANGED storeVars \/ Create \/ \E i \in Items : UpdateJudges(i)
  <2>1. UNCHANGED <<completed, result, tx>>
    BY <1>1 DEF storeVars, Create, UpdateJudges
  <2>2. Stored' = Stored
    BY <2>1 DEF Stored
  <2> QED
    BY <1>0, <2>1, <2>2 DEF Counted, CountOf
<1>2. CASE \E s \in Callers : Rollback(s)
  <2>1. PICK s \in Callers : Rollback(s)
    BY <1>2
  <2>2. UNCHANGED <<completed, result>> /\ tx'[s] = NoTx /\ OnlyTx(s)
    BY <1>0, <2>1, Settled, StoreFrame DEF Rollback, tableVars
  <2>3. Stored' = Stored
    BY <2>2 DEF Stored
  <2>4. ASSUME NEW q \in Callers PROVE CountOf(q)'
    BY <2>2, <2>3 DEF Counted, CountOf, OnlyTx
  <2>5. ASSUME NEW p \in Callers, NEW q \in Callers, p # q,
               tx'[p].table = "result", tx'[q].table = "result"
        PROVE  tx'[p].item # tx'[q].item
    BY <2>2, <2>5 DEF Counted, OnlyTx, NoTx
  <2> QED
    BY <1>0, <2>2, <2>3, <2>4, <2>5 DEF Counted
<1>3. CASE \E s \in Callers : Commit(s)
  BY <1>0, <1>3, CommitCounted
<1>4. CASE \E s \in Callers, to \in States : SetStateRead(s, to)
  <2>1. PICK s \in Callers, to \in States : SetStateRead(s, to)
    BY <1>4
  <2> DEFINE row == [Row EXCEPT !.state = to]
  <2>2. row \in Rows /\ row.completed = completed
    BY <1>0 DEF Rows
  <2>3. Open(s, "run", 1, None, row)
    BY <2>1 DEF SetStateRead
  <2> HIDE DEF row
  <2> QED
    BY <1>0, <2>2, <2>3, OpenCounted DEF Counted
<1>5. CASE \E r \in Runners : SetProgressRead(r, seen[r])
  <2>1. PICK r \in Runners : SetProgressRead(r, seen[r])
    BY <1>5
  <2> DEFINE row == [Row EXCEPT !.completed = seen[r], !.total = Total]
  <2>2. row \in Rows /\ row.completed = seen[r]
    BY <1>0 DEF Rows, LocalTypeOK
  <2>3. Open(r, "run", 1, None, row)
    BY <2>1 DEF SetProgressRead
  <2> HIDE DEF row
  <2> QED
    BY <1>0, <2>2, <2>3, OpenCounted DEF SeenCounted
<1>6. CASE \E s \in Callers, v \in Variants, x \in Indexes : PinRead(s, v, x)
  <2>1. PICK s \in Callers, v \in Variants, x \in Indexes : PinRead(s, v, x)
    BY <1>6
  <2> DEFINE row == [Row EXCEPT !.pins[v] = x]
  <2>2. row \in Rows /\ row.completed = completed
    BY <1>0 DEF Rows
  <2>3. Open(s, "run", 1, None, row)
    BY <2>1 DEF PinRead
  <2> HIDE DEF row
  <2> QED
    BY <1>0, <2>2, <2>3, OpenCounted DEF Counted
<1>7. CASE \E s \in Callers, i \in Items, x \in Indexes : AddResultRead(s, i, x)
  <2>1. PICK s \in Callers, i \in Items, x \in Indexes : AddResultRead(s, i, x)
    BY <1>7
  <2>2. Cardinality(Stored) + 1 \in 0..Total
    BY <1>0, <2>1, StoreAssumption DEF AddResultRead, StoreTypeOK
  <2> DEFINE row == [Row EXCEPT !.completed = Cardinality(Stored) + 1]
  <2>3. row \in Rows /\ row.completed = Cardinality(Stored) + 1
    BY <1>0, <2>2 DEF Rows
  <2>4. Open(s, "result", i, x, row)
    BY <2>1 DEF AddResultRead
  <2> HIDE DEF row
  <2> QED
    BY <1>0, <2>1, <2>3, <2>4, OpenCounted DEF AddResultRead
<1>8. CASE \E s \in Callers, i \in Items, o \in Outcomes : UpdateAnswerRead(s, i, o)
  BY <1>0, <1>8, OpenCounted DEF UpdateAnswerRead, Counted
<1> QED
  BY <1>1, <1>2, <1>3, <1>4, <1>5, <1>6, <1>7, <1>8 DEF Moves

(* Where a runner's copy of the count comes from. *)
LEMMA SeenMoved ==
  ASSUME RInv, [RNext]_vars
  PROVE  \A q \in Runners : seen'[q] \in {seen[q], 0, completed, completed'}
<1>0. LocalTypeOK
  BY TypeSplit DEF RInv
<1>1. CASE \E r \in Runners : RunnerStep(r)
  <2>1. PICK r \in Runners : RunnerStep(r)
    BY <1>1
  <2>2. OnlyLocals(r)
    BY <2>1, RunnerLocals DEF RunnerStep
  <2>3. seen'[r] \in {seen[r], 0, completed, completed'}
    <3>1. CASE Starts(r)
      BY <1>0, <3>1 DEF Starts, Ends, Forget, LocalTypeOK
    <3>2. CASE StartFails(r) \/ Leaves(r) \/ ReturnsCancelled(r) \/ Marked(r) \/ MarkFails(r)
               \/ Aborted(r) \/ Marks(r)
      BY <1>0, <3>2 DEF StartFails, Leaves, ReturnsCancelled, Marked, MarkFails, Aborted, Marks,
         Ends, Forget, runnerVars, LocalTypeOK
    <3>3. CASE Claimed(r) \/ Sized(r) \/ Moved(r)
      BY <1>0, <3>3 DEF Claimed, Sized, Moved, Sees, LocalTypeOK
    <3>4. CASE \/ Loads(r) \/ SetsState(r) \/ SetsProgress(r) \/ Raises(r) \/ Retrieved(r)
               \/ StageEnds(r) \/ Lists(r) \/ Skips(r) \/ Searches(r) \/ Pins(r) \/ Pinned(r)
               \/ Stores(r) \/ StoreCommits(r) \/ Answers(r) \/ AnswerCommits(r) \/ Judges(r)
      BY <3>4 DEF Loads, SetsState, SetsProgress, Raises, Retrieved, StageEnds, Lists, Skips,
         Searches, Pins, Pinned, Stores, StoreCommits, Answers, AnswerCommits, Judges, KeepLocals,
         ToNextSearch, runnerVars
    <3> QED
      BY <2>1, <3>1, <3>2, <3>3, <3>4 DEF RunnerStep, Execute
  <2> QED
    BY <2>2, <2>3 DEF OnlyLocals
<1>2. CASE UNCHANGED runnerVars
  BY <1>2 DEF runnerVars
<1> QED
  BY <1>1, <1>2, StepKinds

LEMMA InitProgress == RInit => ProgressInv
<1> SUFFICES ASSUME RInit PROVE ProgressInv
  OBVIOUS
<1>1. RInv
  BY InitInv
<1>2. Stored = {}
  BY DEF RInit, Init, Stored
<1>3. Cardinality(Stored) = 0
  BY <1>2, FS_EmptySet
<1>4. Counted
  BY <1>3 DEF RInit, Init, Counted, CountOf, NoTx
<1>5. SeenCounted
  BY <1>3 DEF RInit, SeenCounted
<1> QED
  BY <1>1, <1>4, <1>5 DEF ProgressInv

LEMMA StepProgress == ProgressInv /\ [RNext]_vars => ProgressInv'
<1> SUFFICES ASSUME ProgressInv, [RNext]_vars PROVE ProgressInv'
  OBVIOUS
<1>1. RInv /\ Counted /\ SeenCounted /\ RInv' /\ Moves
  BY StepInv, StepMoves DEF ProgressInv
<1>2. Counted' /\ Cardinality(Stored) <= Cardinality(Stored')
  BY <1>1, MovesCounted
<1>3. StoreTypeOK /\ StoreTypeOK' /\ LocalTypeOK
  BY <1>1, MovesType, TypeSplit DEF RInv
<1>4. IsFiniteSet(Items) /\ Stored \subseteq Items /\ Stored' \subseteq Items
  BY FS_Interval, StoreAssumption DEF Items, Stored
<1>5. Cardinality(Stored) \in Nat /\ Cardinality(Stored') \in Nat
  BY <1>4, FS_Subset, FS_CardinalityType
<1>6. ASSUME NEW q \in Runners PROVE seen'[q] <= Cardinality(Stored')
  <2>1. seen'[q] \in {seen[q], 0, completed, completed'}
    BY <1>1, SeenMoved
  <2>2. seen[q] \in Nat /\ completed \in Nat /\ completed' \in Nat
    BY <1>3 DEF LocalTypeOK, StoreTypeOK
  <2> QED
    BY <1>1, <1>2, <1>5, <2>1, <2>2 DEF Counted, SeenCounted
<1> QED
  BY <1>1, <1>2, <1>6 DEF ProgressInv, SeenCounted

(* However many runners read and write the row at once, completed_queries  *)
(* never counts a result that is not committed (set_progress, add_result). *)
THEOREM ProgressStaysBehind == RSpec => []ProgressNeverAhead
<1>1. RSpec => []ProgressInv
  BY InitProgress, StepProgress, PTL DEF RSpec
<1>2. ProgressInv => ProgressNeverAhead
  BY DEF ProgressInv, Counted, ProgressNeverAhead
<1> QED
  BY <1>1, <1>2, PTL

-----------------------------------------------------------------------------
(* Why no stage is left before its work is stored.  A state that asks for  *)
(* stored results or answers is only ever read, written or aimed at once   *)
(* they are there, and neither is ever taken away.                         *)
HasResults == Stored = Items
HasAnswers == Generation => \A i \in GenItems : answer[i] # None

Justified(s) ==
  /\ s \in {"generating", "judging", "scoring", "completed"} => HasResults
  /\ s \in {"judging", "scoring", "completed"} => HasAnswers

Reached(r) ==
  /\ pc[r] \in {"leave", "answer", "answered", "judge", "judged", "score"} => HasResults
  /\ pc[r] \in {"answered", "judge", "judged", "score"} => HasAnswers
  /\ pc[r] = "answer" =>
       \A i \in GenItems : i < at[r] \/ i \in skip[r] => answer[i] # None

StagesInv ==
  /\ ProgressInv
  /\ Justified(state)
  /\ \A s \in Callers : tx[s] # NoTx => Justified(tx[s].row.state)
  /\ \A r \in Runners : Justified(view[r]) /\ Reached(r)

(* What is stored stays stored. *)
LEMMA Kept ==
  ASSUME ProgressInv, Moves
  PROVE  /\ HasResults => HasResults'
         /\ HasAnswers => HasAnswers'
         /\ \A i \in Items : answer[i] # None => answer'[i] # None
<1>0. StoreTypeOK /\ Counted
  BY DEF ProgressInv, RInv, RTypeOK
<1>1. CASE \E s \in Callers : Commit(s)
  <2>1. PICK s \in Callers : Commit(s)
    BY <1>1
  <2>2. tx[s] # NoTx /\ CountOf(s)
    BY <1>0, <2>1 DEF Commit, Counted
  <2>3. Stored \subseteq Stored'
    BY <1>0, <2>1, <2>2, CommitStored DEF CountOf
  <2>4. tx[s].item \in Items /\ (tx[s].table = "answer" => tx[s].value # None)
    BY <1>0, <2>2, TxType, StoreAssumption
  <2>5. \A i \in Items : answer[i] # None => answer'[i] # None
    BY <1>0, <2>1, <2>4 DEF Commit, StoreTypeOK
  <2> QED
    BY <2>3, <2>5, StoreAssumption DEF HasResults, HasAnswers, Stored
<1>2. CASE UNCHANGED <<result, answer>>
  BY <1>2 DEF HasResults, HasAnswers, Stored
<1> QED
  BY <1>1, <1>2 DEF Moves, storeVars, Create, UpdateJudges, Rollback, tableVars, SetStateRead,
     SetProgressRead, PinRead, AddResultRead, UpdateAnswerRead, Open

LEMMA JustifiedKept ==
  ASSUME ProgressInv, Moves, NEW s
  PROVE  Justified(s) => Justified(s)'
BY Kept DEF Justified

(* Where the state of the run, the state a transaction is about to write   *)
(* and a runner's copy of the state come from.                             *)
LEMMA StateMoved ==
  ASSUME Moves
  PROVE  \/ state' \in {state, "queued"}
         \/ \E s \in Callers : tx[s] # NoTx /\ state' = tx[s].row.state
BY DEF Moves, storeVars, Create, UpdateJudges, Rollback, tableVars, SetStateRead,
   SetProgressRead, PinRead, AddResultRead, UpdateAnswerRead, Open, Commit

Aims(r) ==
  /\ pc[r] \in {"claim", "begin", "leave", "answered", "judged", "score"}
  /\ tx'[r].row.state = Target(pc[r])

LEMMA OpenRow ==
  ASSUME StoreTypeOK, NEW s \in Callers, NEW table, NEW i, NEW x, NEW row,
         Open(s, table, i, x, row)
  PROVE  tx'[s].row = row
BY DEF Open, StoreTypeOK

LEMMA RunnerRow ==
  ASSUME RInv, NEW r \in Runners, RunnerStep(r), tx'[r] # NoTx
  PROVE  tx'[r] = tx[r] \/ tx'[r].row.state \in {state, "failed"} \/ Aims(r)
<1>0. r \in Callers /\ StoreTypeOK
  BY TypeSplit DEF Callers, RInv
<1>1. CASE \/ UNCHANGED storeVars
           \/ \E i : UpdateJudges(i)
           \/ Commit(r) \/ Rollback(r)
  BY <1>0, <1>1, Settled DEF storeVars, UpdateJudges
<1>2. CASE SetsState(r)
  <2>1. CASE SetStateRead(r, Target(pc[r]))
    <3>1. tx'[r].row.state = Target(pc[r])
      BY <1>0, <2>1, OpenRow DEF SetStateRead, Row
    <3> QED
      BY <1>2, <3>1 DEF SetsState, Aims
  <2> QED
    BY <1>1, <1>2, <2>1 DEF SetsState
<1>3. CASE SetsProgress(r)
  <2>1. CASE SetProgressRead(r, seen[r])
    BY <1>0, <2>1, OpenRow DEF SetProgressRead, Row
  <2> QED
    BY <1>1, <1>3, <2>1 DEF SetsProgress
<1>4. CASE Pins(r)
  <2>1. CASE PinRead(r, VariantOf(at[r]), found[r])
    BY <1>0, <2>1, OpenRow DEF PinRead, Row
  <2> QED
    BY <1>1, <1>4, <2>1 DEF Pins
<1>5. CASE Stores(r)
  <2>1. CASE AddResultRead(r, at[r], found[r])
    BY <1>0, <2>1, OpenRow DEF AddResultRead, Row
  <2> QED
    BY <1>1, <1>5, <2>1 DEF Stores
<1>6. CASE Answers(r)
  <2>1. CASE \E o \in Outcomes : UpdateAnswerRead(r, at[r], o)
    BY <1>0, <2>1, OpenRow DEF UpdateAnswerRead, Row
  <2> QED
    BY <1>1, <1>6, <2>1 DEF Answers
<1>7. CASE Marks(r)
  <2>1. CASE SetStateRead(r, "failed")
    BY <1>0, <2>1, OpenRow DEF SetStateRead, Row
  <2> QED
    BY <1>1, <1>7, <2>1 DEF Marks
<1> QED
  BY <1>1, <1>2, <1>3, <1>4, <1>5, <1>6, <1>7 DEF RunnerStep, Starts, StartFails, Leaves, Execute,
     Loads, Claimed, Sized, Moved, Sees, Lists, Skips, ReturnsCancelled, Searches, Pinned,
     StoreCommits, Retrieved, AnswerCommits, Judges, StageEnds, Marked, Raises, MarkFails, Aborted

LEMMA RowMoved ==
  ASSUME RInv, [RNext]_vars, NEW s \in Callers, tx'[s] # NoTx
  PROVE  \/ tx'[s] = tx[s]
         \/ tx'[s].row.state \in {state, "failed", "cancelled"}
         \/ s \in Runners /\ Aims(s)
<1>0. StoreTypeOK
  BY TypeSplit DEF RInv
<1>1. CASE \E r \in Runners : RunnerStep(r)
  <2>1. PICK r \in Runners : RunnerStep(r)
    BY <1>1
  <2>2. OnlyTx(r)
    BY <2>1, RunnerTx DEF RunnerStep
  <2>3. CASE s = r
    BY <2>1, <2>3, RunnerRow
  <2>4. CASE s # r
    BY <2>2, <2>4 DEF OnlyTx
  <2> QED
    BY <2>3, <2>4
<1>2. CASE \E c \in Clients : CancelClient(c)
  <2>1. PICK c \in Clients : CancelClient(c)
    BY <1>2
  <2>2. c \in Callers
    BY DEF Callers
  <2>3. OnlyTx(c)
    BY <1>0, <2>1, <2>2, StoreFrame DEF CancelClient, CancelRead, SetStateRead
  <2>4. CASE s # c
    BY <2>3, <2>4 DEF OnlyTx
  <2>5. CASE s = c /\ CancelRead(c)
    BY <1>0, <2>2, <2>5, OpenRow DEF CancelRead, SetStateRead, Row
  <2>6. CASE s = c /\ Commit(c)
    BY <1>0, <2>2, <2>6, Settled
  <2> QED
    BY <2>1, <2>4, <2>5, <2>6 DEF CancelClient
<1>3. CASE (Create /\ UNCHANGED runnerVars) \/ UNCHANGED vars
  BY <1>3 DEF Create, vars
<1> QED
  BY <1>1, <1>2, <1>3 DEF RNext, RunnerStep

LEMMA RunnerView ==
  ASSUME RInv, NEW r \in Runners, RunnerStep(r)
  PROVE  view'[r] \in {view[r], "absent", state, state'}
<1>0. LocalTypeOK
  BY TypeSplit DEF RInv
<1>1. CASE Starts(r)
  BY <1>0, <1>1 DEF Starts, Ends, Forget, LocalTypeOK
<1>2. CASE StartFails(r) \/ Leaves(r) \/ ReturnsCancelled(r) \/ Marked(r) \/ MarkFails(r)
           \/ Aborted(r) \/ Marks(r)
  BY <1>0, <1>2 DEF StartFails, Leaves, ReturnsCancelled, Marked, MarkFails, Aborted, Marks,
     Ends, Forget, runnerVars, LocalTypeOK
<1>3. CASE Claimed(r) \/ Sized(r) \/ Moved(r)
  BY <1>0, <1>3 DEF Claimed, Sized, Moved, Sees, LocalTypeOK
<1>4. CASE \/ Loads(r) \/ SetsState(r) \/ SetsProgress(r) \/ Raises(r) \/ Retrieved(r)
           \/ StageEnds(r) \/ Lists(r) \/ Skips(r) \/ Searches(r) \/ Pins(r) \/ Pinned(r)
           \/ Stores(r) \/ StoreCommits(r) \/ Answers(r) \/ AnswerCommits(r) \/ Judges(r)
  BY <1>4 DEF Loads, SetsState, SetsProgress, Raises, Retrieved, StageEnds, Lists, Skips,
     Searches, Pins, Pinned, Stores, StoreCommits, Answers, AnswerCommits, Judges, KeepLocals,
     ToNextSearch, runnerVars
<1> QED
  BY <1>1, <1>2, <1>3, <1>4 DEF RunnerStep, Execute

(* A runner aims only at a state that what it has gone through justifies. *)
LEMMA AimJustified ==
  ASSUME NEW r \in Runners, Reached(r), Aims(r)
  PROVE  Justified(tx'[r].row.state)
BY StoreAssumption DEF Aims, Target, Reached, Justified, HasAnswers

LEMMA EnterScore ==
  ASSUME NEW p, NEW s, Enter(p, s) = "score"
  PROVE  s = "scoring"
BY DEF Enter

LEMMA Before ==
  ASSUME NEW n \in Nat, NEW i \in Nat
  PROVE  i < n + 1 => i < n \/ i = n
OBVIOUS

LEMMA RunnerReached ==
  ASSUME StagesInv, Moves, NEW r \in Runners, RunnerStep(r), Justified(view[r])'
  PROVE  Reached(r)'
<1>0. /\ LocalTypeOK /\ StoreTypeOK /\ Wired(r) /\ Reached(r)
      /\ Justified(view[r]) /\ Counted
  BY TypeSplit DEF StagesInv, ProgressInv, RInv
<1>a. ASSUME pc'[r] \notin {"leave", "answer", "answered", "judge", "judged", "score"}
      PROVE  Reached(r)'
  BY <1>a DEF Reached
<1>k. /\ HasResults => HasResults'
      /\ HasAnswers => HasAnswers'
      /\ \A i \in GenItems : answer[i] # None => answer'[i] # None
  BY Kept, StoreAssumption DEF StagesInv
<1>n. \A i \in GenItems : i \in Nat
  BY StoreAssumption DEF Items
<1>b. ASSUME pc'[r] = pc[r], at'[r] = at[r], skip'[r] = skip[r]
      PROVE  Reached(r)'
  BY <1>0, <1>k, <1>b DEF Reached
<1>c. ASSUME pc'[r] = "score", view'[r] = "scoring"
      PROVE  Reached(r)'
  BY <1>c DEF Reached, Justified
<1>1. CASE Starts(r)
  BY <1>0, <1>1, <1>a DEF Starts, Ends, Goto, LocalTypeOK
<1>2. CASE StartFails(r) \/ Leaves(r) \/ ReturnsCancelled(r) \/ Marked(r) \/ MarkFails(r)
           \/ Aborted(r) \/ Raises(r)
  BY <1>0, <1>2, <1>a DEF StartFails, Leaves, ReturnsCancelled, Marked, MarkFails, Aborted, Raises,
     Ends, Goto, LocalTypeOK
<1>3. CASE Loads(r)
  <2>1. CASE pc'[r] = "score"
    BY <1>0, <1>3, <1>c, <2>1, EnterScore DEF Loads, Goto, KeepLocals, LocalTypeOK
  <2>2. CASE pc'[r] # "score"
    BY <1>0, <1>3, <1>a, <2>2, EnterType DEF Loads, Goto, LocalTypeOK
  <2> QED
    BY <2>1, <2>2
<1>4. CASE SetsState(r) \/ SetsProgress(r) \/ Pins(r) \/ Marks(r)
  BY <1>0, <1>4, <1>a, <1>b DEF SetsState, SetsProgress, Pins, Marks, Ends, Goto, KeepLocals,
     runnerVars, LocalTypeOK
<1>5. CASE Claimed(r)
  BY <1>0, <1>5, <1>a DEF Claimed, Goto, LocalTypeOK
<1>6. CASE Sized(r) \/ Moved(r)
  <2>1. view'[r] = state'
    BY <1>0, <1>6 DEF Sized, Moved, Sees, LocalTypeOK
  <2>2. CASE pc'[r] = "score"
    BY <1>0, <1>6, <1>c, <2>1, <2>2, EnterScore DEF Sized, Moved, Goto, LocalTypeOK
  <2>3. CASE pc'[r] # "score"
    <3>1. pc'[r] = "begin" \/ pc'[r] = Enter("size", state') \/ pc'[r] = Enter(pc[r], state')
      BY <1>0, <1>6 DEF Sized, Moved, Goto, LocalTypeOK
    <3>2. pc'[r] \in {"begin", "list", "returned"}
      BY <2>3, <3>1, EnterType
    <3> QED
      BY <1>a, <3>2
  <2> QED
    BY <2>2, <2>3
<1>7. CASE Lists(r)
  <2>1. /\ UNCHANGED storeVars /\ at'[r] = 1 /\ skip'[r] = Passed(view[r])
        /\ view'[r] = view[r]
    BY <1>0, <1>7 DEF Lists, LocalTypeOK
  <2>2. CASE view[r] = "retrieving"
    BY <1>0, <1>7, <1>a, <2>2 DEF Lists, Goto, LocalTypeOK
  <2>3. CASE view[r] = "generating"
    <3>1. pc'[r] = "answer"
      BY <1>0, <1>7, <2>3 DEF Lists, Goto, LocalTypeOK
    <3>2. skip'[r] = {i \in Items : i \notin GenItems \/ answer'[i] # None}
      BY <2>1, <2>3 DEF Passed, storeVars
    <3>3. \A i \in GenItems : ~(i < 1)
      BY StoreAssumption DEF Items
    <3> QED
      BY <2>1, <2>3, <3>1, <3>2, <3>3 DEF Reached, Justified
  <2>4. CASE view[r] = "judging"
    <3>1. pc'[r] = "judge"
      BY <1>0, <1>7, <2>4 DEF Lists, Goto, LocalTypeOK
    <3> QED
      BY <2>1, <2>4, <3>1 DEF Reached, Justified
  <2> QED
    BY <1>0, <1>7, <2>2, <2>3, <2>4 DEF Lists, Wired
<1>8. CASE Skips(r)
  <2>1. CASE pc[r] = "answer"
    <3>1. /\ pc'[r] = "answer" /\ skip'[r] = skip[r] /\ at'[r] = at[r] + 1 /\ answer' = answer
          /\ at[r] \in skip[r] /\ at[r] \in Nat
      BY <1>0, <1>8, <2>1, StoreAssumption DEF Skips, Advance, LocalTypeOK, storeVars
    <3>2. \A i \in GenItems : i < at[r] + 1 => i < at[r] \/ i = at[r]
      BY <1>n, <3>1, Before
    <3> QED
      BY <1>0, <1>k, <2>1, <3>1, <3>2 DEF Reached
  <2>2. CASE pc[r] # "answer"
    BY <1>0, <1>8, <1>k, <2>2 DEF Skips, Reached
  <2> QED
    BY <2>1, <2>2
<1>9. CASE Searches(r) \/ Pinned(r) \/ Stores(r) \/ StoreCommits(r)
  BY <1>0, <1>9, <1>a DEF Searches, Pinned, Stores, StoreCommits, ToNextSearch, Goto, runnerVars,
     LocalTypeOK
<1>10. CASE Retrieved(r)
  <2>1. CASE RetrievalComplete
    <3>1. Cardinality(Stored) = Total
      BY <1>0, <2>1, StoredCount, StoreAssumption DEF RetrievalComplete, Counted
    <3>2. HasResults
      BY <3>1, StoredCount DEF HasResults
    <3>3. pc'[r] = "leave"
      BY <1>0, <1>10, <2>1 DEF Retrieved, Goto, LocalTypeOK
    <3> QED
      BY <1>k, <3>2, <3>3 DEF Reached
  <2>2. CASE ~RetrievalComplete
    BY <1>0, <1>10, <1>a, <2>2 DEF Retrieved, Goto, LocalTypeOK
  <2> QED
    BY <2>1, <2>2
<1>11. CASE Answers(r) \/ AnswerCommits(r)
  <2>1. CASE UNCHANGED runnerVars
    BY <1>b, <2>1 DEF runnerVars
  <2>2. CASE Advance(r) /\ answer'[at[r]] # None
    <3>1. /\ pc[r] = "answer" /\ pc'[r] = "answer" /\ skip'[r] = skip[r]
          /\ at'[r] = at[r] + 1 /\ at[r] \in Nat
      BY <1>0, <1>11, <2>2, StoreAssumption DEF Answers, AnswerCommits, Advance, runnerVars,
         LocalTypeOK
    <3>2. \A i \in GenItems : i < at[r] + 1 => i < at[r] \/ i = at[r]
      BY <1>n, <3>1, Before
    <3> QED
      BY <1>0, <1>k, <2>2, <3>1, <3>2 DEF Reached
  <2>3. ASSUME AnswerCommits(r) PROVE answer'[at[r]] # None
    <3>1. tx[r] # NoTx /\ tx[r].table = "answer" /\ tx[r].item = at[r] /\ at[r] \in Items
      BY <1>0, <2>3 DEF AnswerCommits, Commit, Wired, RowPoints
    <3>2. tx[r].value # None
      BY <1>0, <3>1, TxType, StoreAssumption DEF Callers
    <3> QED
      BY <1>0, <2>3, <3>1, <3>2 DEF AnswerCommits, Commit, StoreTypeOK
  <2> QED
    BY <1>11, <2>1, <2>2, <2>3 DEF Answers, AnswerCommits, storeVars
<1>12. CASE Judges(r)
  BY <1>0, <1>12, <1>k DEF Judges, Reached
<1>13. CASE StageEnds(r)
  <2>1. CASE pc[r] = "answer"
    <3>1. pc'[r] = "answered" /\ at[r] > Total
      BY <1>0, <1>13, <2>1 DEF StageEnds, Goto, LocalTypeOK
    <3>2. \A i \in GenItems : i < at[r]
      <4>1. at[r] \in Nat /\ Total \in Nat
        BY <1>0, StoreAssumption DEF LocalTypeOK
      <4>2. \A i \in GenItems : i \in 1..Total
        BY StoreAssumption DEF Items
      <4> QED
        BY <3>1, <4>1, <4>2
    <3>3. HasAnswers
      BY <1>0, <2>1, <3>2 DEF Reached, HasAnswers
    <3> QED
      BY <1>0, <1>k, <2>1, <3>1, <3>3 DEF Reached
  <2>2. CASE pc[r] = "judge"
    BY <1>0, <1>13, <1>k, <2>2 DEF StageEnds, Goto, LocalTypeOK, Reached
  <2> QED
    BY <1>13, <2>1, <2>2 DEF StageEnds
<1> QED
  BY <1>1, <1>2, <1>3, <1>4, <1>5, <1>6, <1>7, <1>8, <1>9, <1>10, <1>11, <1>12, <1>13
     DEF RunnerStep, Execute

LEMMA InitStages == RInit => StagesInv
<1> SUFFICES ASSUME RInit PROVE StagesInv
  OBVIOUS
<1>1. ProgressInv
  BY InitProgress
<1>2. Justified(state) /\ \A r \in Runners : Justified(view[r])
  BY DEF RInit, Init, Justified
<1>3. \A s \in Callers : tx[s] = NoTx
  BY DEF RInit, Init
<1>4. \A r \in Runners : Reached(r)
  BY DEF RInit, Reached
<1> QED
  BY <1>1, <1>2, <1>3, <1>4 DEF StagesInv

LEMMA StepStages == StagesInv /\ [RNext]_vars => StagesInv'
<1> SUFFICES ASSUME StagesInv, [RNext]_vars PROVE StagesInv'
  OBVIOUS
<1>0. ProgressInv /\ ProgressInv' /\ RInv /\ Moves
  BY StepProgress, StepMoves DEF StagesInv, ProgressInv
<1>1. Justified(state)'
  <2>1. CASE state' \in {state, "queued"}
    BY <1>0, <2>1, JustifiedKept DEF StagesInv, Justified
  <2>2. CASE \E s \in Callers : tx[s] # NoTx /\ state' = tx[s].row.state
    <3>1. PICK s \in Callers : tx[s] # NoTx /\ state' = tx[s].row.state
      BY <2>2
    <3> DEFINE to == tx[s].row.state
    <3>2. Justified(to)
      BY <3>1 DEF StagesInv
    <3>3. HasResults' \/ to \notin {"generating", "judging", "scoring", "completed"}
      BY <1>0, <3>2, Kept DEF Justified
    <3>4. HasAnswers' \/ to \notin {"judging", "scoring", "completed"}
      BY <1>0, <3>2, Kept DEF Justified
    <3> QED
      BY <3>1, <3>3, <3>4 DEF Justified
  <2> QED
    BY <1>0, <2>1, <2>2, StateMoved
<1>2. ASSUME NEW s \in Callers, tx'[s] # NoTx
      PROVE  Justified(tx[s].row.state)'
  <2> DEFINE to == tx'[s].row.state
  <2>1. CASE tx'[s] = tx[s]
    BY <1>0, <1>2, <2>1, Kept DEF StagesInv, Justified
  <2>2. CASE to \in {state, "failed", "cancelled"}
    BY <1>0, <2>2, Kept DEF StagesInv, Justified
  <2>3. CASE s \in Runners /\ Aims(s)
    <3>1. Justified(to)
      BY <2>3, AimJustified DEF StagesInv
    <3> QED
      BY <1>0, <3>1, Kept DEF Justified
  <2> QED
    BY <1>0, <1>2, <2>1, <2>2, <2>3, RowMoved
<1>3. ASSUME NEW r \in Runners, NEW q \in Runners, RunnerStep(r)
      PROVE  Justified(view[q])' /\ Reached(q)'
  <2>1. CASE q = r
    <3>1. view'[r] \in {view[r], "absent", state, state'}
      BY <1>0, <1>3, RunnerView
    <3>2. Justified(view[r])'
      BY <1>0, <1>1, <3>1, Kept DEF StagesInv, Justified
    <3> QED
      BY <1>0, <1>3, <2>1, <3>2, RunnerReached
  <2>2. CASE q # r
    <3>1. OnlyLocals(r)
      BY <1>0, <1>3, RunnerLocals DEF RunnerStep
    <3>2. pc'[q] = pc[q] /\ view'[q] = view[q] /\ skip'[q] = skip[q] /\ at'[q] = at[q]
      BY <2>2, <3>1 DEF OnlyLocals
    <3>3. Justified(view[q]) /\ Reached(q) /\ GenItems \subseteq Items
      BY StoreAssumption DEF StagesInv
    <3> QED
      BY <1>0, <3>2, <3>3, Kept DEF Justified, Reached
  <2> QED
    BY <2>1, <2>2
<1>4. ASSUME NEW q \in Runners, UNCHANGED runnerVars
      PROVE  Justified(view[q])' /\ Reached(q)'
  <2>1. Justified(view[q]) /\ Reached(q) /\ GenItems \subseteq Items
    BY StoreAssumption DEF StagesInv
  <2> QED
    BY <1>0, <1>4, <2>1, Kept DEF Justified, Reached, runnerVars
<1>5. \A q \in Runners : Justified(view[q])' /\ Reached(q)'
  BY <1>0, <1>3, <1>4, StepKinds
<1> QED
  BY <1>0, <1>1, <1>2, <1>5 DEF StagesInv

(* A run past RETRIEVING has every result and one past GENERATING every    *)
(* answer, however many runners move it on at once: the checks of          *)
(* _run_retrieval are made on rows another runner may have changed since,  *)
(* and hold all the same.                                                  *)
THEOREM StagesStayInOrder == RSpec => []StagesInOrder
<1>1. RSpec => []StagesInv
  BY InitStages, StepStages, PTL DEF RSpec
<1>2. StagesInv => StagesInOrder
  BY DEF StagesInv, Justified, HasResults, HasAnswers, StagesInOrder
<1> QED
  BY <1>1, <1>2, PTL
=============================================================================
