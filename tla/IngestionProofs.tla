-------------------------- MODULE IngestionProofs --------------------------
(***************************************************************************)
(* Theorems about ingestion, for any number of processes, contents and     *)
(* documents, any batch sizes, and any crashes.                            *)
(***************************************************************************)
EXTENDS Ingestion, FiniteSetTheorems, NaturalsInduction, TLAPS

-----------------------------------------------------------------------------
(* The inductive invariant.  A process knows its content from the moment   *)
(* it has read it.                                                         *)
Embedding == {"missing", "embeddings", "advancing", "refresh", "recount", "refreshing"}
Inserting == Writing \cup {"embeddings", "advancing"}
Knowing == Inserting \cup Embedding \cup
             {"registered", "validate", "build", "rename", "find", "create"}

(* The rows of an open transaction are of one table, and every row still   *)
(* to come has a higher number: a process inserts in ascending order.      *)
Behind(i, k) ==
  /\ me[i].pc \in Writing => k < me[i].at
  /\ me[i].pc = "embeddings" => \A l \in me[i].rows : k < l

Table(i) == IF me[i].pc \in Writing THEN me[i].pc ELSE "embeddings"

RowsInOrder(i) ==
  /\ me[i].pc \notin Inserting => tx[i] = {}
  /\ \A row \in tx[i] : \E k \in Numbers : row = RowOf(Table(i), Content(i), k) /\ Behind(i, k)
  /\ tx[i] \cap stored = {}

(* the documents whose embeddings an open transaction has inserted *)
Pending(i) == {k \in Numbers : RowOf("embeddings", Content(i), k) \in tx[i]}

(* Every document before the current batch has its embedding, and every    *)
(* document of the batch has it, is about to get it or waits for it.       *)
BatchesCover(i) ==
  /\ me[i].pc \in {"missing", "embeddings", "advancing"} =>
       1..(me[i].at - 1) \subseteq Embedded(Content(i))
  /\ me[i].pc \in {"embeddings", "advancing"} =>
       me[i].at..me[i].upto \subseteq Embedded(Content(i)) \cup me[i].rows \cup Pending(i)
  /\ me[i].pc = "advancing" => me[i].rows = {}
  /\ me[i].pc \in {"refresh", "recount", "refreshing"} => Embedded(Content(i)) = Numbers

Whole == [state |-> "ready", count |-> Documents]

(* What a process has read of the index row is still so when it writes.    *)
RowIsFresh(i) ==
  /\ me[i].pc \in Embedding => index[Content(i)].state # "absent"
  /\ me[i].pc = "advancing" =>
       lock[Content(i)] = i /\ me[i].row = index[Content(i)]
  /\ me[i].pc \in {"recount", "refreshing"} => me[i].row = Whole
  /\ me[i].pc = "refreshing" => me[i].count = Documents

Sound(i) ==
  /\ me[i].pc \in Knowing => Content(i) \in Contents
  /\ RowsInOrder(i)
  /\ BatchesCover(i)
  /\ RowIsFresh(i)
  /\ me[i].failure # "progress"

IndexSound ==
  /\ ProgressExact
  /\ \A c \in Contents : index[c].state = "absent" => index[c] = NoIndex
  /\ \A c \in Contents : \A i \in Ingestors :
       lock[c] = i => At(i, "advancing") /\ Content(i) = c

Apart == \A i, j \in Ingestors : i # j => tx[i] \cap tx[j] = {}

IInv ==
  /\ ITypeOK
  /\ IndexSound
  /\ Apart
  /\ \A i \in Ingestors : Sound(i)

-----------------------------------------------------------------------------
LEMMA LeastElement ==
  ASSUME NEW S \in SUBSET Nat, S # {}
  PROVE  \E k \in S : \A l \in S : k <= l
<1> DEFINE Less == {ss \in Nat \X Nat : ss[1] < ss[2]}
<1>1. IsWellFoundedOn(Less, Nat)
  BY NatLessThanWellFounded DEF OpToRel
<1>2. PICK k \in S : \A l \in S : ~(<<l, k>> \in Less)
  <2> HIDE DEF Less
  <2> QED
    BY <1>1, WFMin
<1>3. ASSUME NEW l \in S PROVE k <= l
  <2>1. l \in Nat /\ k \in Nat
    OBVIOUS
  <2>2. l < k => <<l, k>> \in Less
    BY <2>1
  <2> QED
    BY <1>2, <2>1, <2>2
<1> QED
  BY <1>3

LEMMA NumbersFinite == IsFiniteSet(Numbers) /\ Cardinality(Numbers) = Documents
BY StoreAssumption, FS_Interval DEF Numbers

LEMMA NextRowIsLeast ==
  ASSUME NEW i \in Ingestors, me[i] \in Locals, me[i].rows # {}
  PROVE  /\ NextRow(i) \in me[i].rows
         /\ NextRow(i) \in Numbers
         /\ \A l \in me[i].rows : NextRow(i) <= l
<1>1. me[i].rows \in SUBSET Nat /\ me[i].rows \subseteq Numbers
  BY StoreAssumption DEF Locals, Numbers
<1>2. \E k \in me[i].rows : \A l \in me[i].rows : k <= l
  BY <1>1, LeastElement
<1> QED
  BY <1>1, <1>2 DEF NextRow

-----------------------------------------------------------------------------
(* A step of one process leaves the others as they are. *)
WorldTypeOK ==
  /\ disk \in [Places -> Storage]
  /\ bucket \in Storage
  /\ spoilt \subseteq Ingestors
  /\ crashes \in 0..MaxCrashes
  /\ <<cloud, remote, published>> \in BOOLEAN \X BOOLEAN \X BOOLEAN
  /\ source \in Contents

Alone(i) ==
  /\ me' = [me EXCEPT ![i] = me'[i]]
  /\ tx' = [tx EXCEPT ![i] = tx'[i]]
  /\ stored \subseteq stored'
  /\ \A j \in Ingestors \ {i} : tx[j] \cap (stored' \cup tx'[i]) = {}
  /\ \A c \in Contents : index[c].state # "absent" => index'[c].state # "absent"
  /\ \A j \in Ingestors \ {i} :
       At(j, "advancing") =>
         lock'[Content(j)] = j /\ index'[Content(j)] = index[Content(j)]

LEMMA OthersStaySound ==
  ASSUME IInv, NEW i \in Ingestors, Alone(i), stored' \subseteq Rows, NEW j \in Ingestors \ {i}
  PROVE  Sound(j)'
<1>1. me'[j] = me[j] /\ tx'[j] = tx[j] /\ Sound(j)
  BY DEF Alone, IInv, ITypeOK
<1>2. Embedded(Content(j)) \subseteq Embedded(Content(j))' /\ Embedded(Content(j))' \subseteq Numbers
  BY <1>1 DEF Alone, Embedded, Content
<1>3. RowsInOrder(j)'
  <2>1. tx[j] \cap stored' = {}
    BY DEF Alone
  <2> QED
    BY <1>1, <2>1 DEF Sound, RowsInOrder, Behind, Table, Content
<1>4. Pending(j)' = Pending(j)
  BY <1>1 DEF Pending, Content
<1>5. me[j].pc \in Knowing => Content(j) \in Contents /\ Content(j)' = Content(j)
  BY <1>1 DEF Sound, Content
<1>6. BatchesCover(j)'
  BY <1>1, <1>2, <1>4 DEF Sound, BatchesCover
<1>7. RowIsFresh(j)'
  BY <1>1, <1>5 DEF Sound, RowIsFresh, Content, Knowing, Inserting, Embedding, Alone, At
<1> QED
  BY <1>1, <1>3, <1>5, <1>6, <1>7 DEF Sound

LEMMA Assembled ==
  ASSUME IInv, NEW i \in Ingestors, Alone(i),
         corpora' \subseteq Contents, stored' \subseteq Rows,
         index' \in [Contents -> IndexRows],
         lock' \in [Contents -> Ingestors \cup {None}],
         tx'[i] \subseteq Rows, me'[i] \in Locals,
         WorldTypeOK', IndexSound', Sound(i)'
  PROVE  IInv'
<1>1. \A j \in Ingestors : Sound(j)'
  BY OthersStaySound
<1>2. me' \in [Ingestors -> Locals] /\ tx' \in [Ingestors -> SUBSET Rows]
  BY DEF Alone, IInv, ITypeOK
<1>3. ITypeOK'
  BY <1>2 DEF ITypeOK, WorldTypeOK
<1>4. Apart'
  BY DEF Apart, Alone, IInv, ITypeOK
<1> QED
  BY <1>1, <1>3, <1>4 DEF IInv

(* a step that leaves rows and index alone *)
LEMMA QuietStep ==
  ASSUME IInv, NEW i \in Ingestors, ~At(i, "advancing"),
         UNCHANGED <<stored, index, tx, lock>>, corpora' \subseteq Contents,
         me' = [me EXCEPT ![i] = me'[i]], me'[i] \in Locals, WorldTypeOK', Sound(i)'
  PROVE  IInv'
<1>1. Alone(i)
  <2>1. tx' = [tx EXCEPT ![i] = tx'[i]]
    BY DEF IInv, ITypeOK
  <2>2. \A j \in Ingestors \ {i} : tx[j] \cap (stored' \cup tx'[i]) = {}
    BY DEF IInv, Sound, RowsInOrder, Apart
  <2>3. \A j \in Ingestors \ {i} : At(j, "advancing") => lock[Content(j)] = j
    BY DEF IInv, Sound, RowIsFresh, At
  <2> QED
    BY <2>1, <2>2, <2>3 DEF Alone
<1>2. IndexSound'
  <2>1. ProgressExact'
    BY DEF IInv, IndexSound, ProgressExact, Embedded
  <2>2. ASSUME NEW c \in Contents, NEW j \in Ingestors, lock'[c] = j
        PROVE  At(j, "advancing")' /\ Content(j)' = c
    BY <2>2 DEF IInv, IndexSound, ITypeOK, At, Content
  <2> QED
    BY <2>1, <2>2 DEF IInv, IndexSound
<1> QED
  BY <1>1, <1>2, Assembled DEF IInv, ITypeOK

LEMMA PlainIsSound ==
  ASSUME NEW i \in Ingestors, tx'[i] = {},
         me'[i].pc \notin Inserting \cup Embedding,
         me'[i].pc \in Knowing => me'[i].content \in Contents,
         me'[i].failure # "progress"
  PROVE  Sound(i)'
BY DEF Sound, RowsInOrder, BatchesCover, RowIsFresh, Inserting, Embedding, Content

LEMMA IdleType == \A why \in Failures : Idle(why) \in Locals
BY StoreAssumption DEF Idle, Locals, NoIndex, IndexRows, Points, Writing

(* a step between points at which a process has no transaction open and    *)
(* nothing to remember of the index                                        *)
LEMMA PlainStep ==
  ASSUME IInv, NEW i \in Ingestors, me[i].pc \notin Inserting,
         NEW m \in Locals, me' = [me EXCEPT ![i] = m],
         m.pc \notin Inserting \cup Embedding,
         m.pc \in Knowing => m.content \in Contents, m.failure # "progress",
         UNCHANGED <<stored, index, tx, lock>>, corpora' \subseteq Contents, WorldTypeOK'
  PROVE  IInv'
<1>1. me'[i] = m
  BY DEF IInv, ITypeOK
<1>2. tx'[i] = {}
  BY DEF IInv, Sound, RowsInOrder
<1>3. Sound(i)'
  BY <1>1, <1>2, PlainIsSound
<1> QED
  BY <1>1, <1>3, QuietStep DEF At, Inserting

LEMMA WorldTypeStays ==
  ASSUME IInv, UNCHANGED worldVars, UNCHANGED <<crashes, published>>,
         spoilt' \subseteq Ingestors, disk' \in [Places -> Storage], bucket' \in Storage
  PROVE  WorldTypeOK'
BY DEF IInv, ITypeOK, WorldTypeOK, worldVars

LEMMA PutType ==
  ASSUME IInv, NEW p, NEW f \in Files, NEW x \in Contained, Put(p, f, x)
  PROVE  disk' \in [Places -> Storage] /\ bucket' \in Storage
BY DEF IInv, ITypeOK, Put, Storage

LEMMA NothingType == Nothing \in Storage
BY DEF Nothing, Storage, Contained

Frame ==
  UNCHANGED <<crashes, published>> /\ UNCHANGED worldVars /\ spoilt' \subseteq Ingestors

LEMMA StartsKeeps ==
  ASSUME IInv, NEW i \in Ingestors, Starts(i), Frame
  PROVE  IInv'
<1> DEFINE m == [Idle("none") EXCEPT !.pc = IF cloud THEN "hydrate" ELSE "check"]
<1>1. m \in Locals /\ m.pc \in {"hydrate", "check"} /\ m.failure = "none"
  BY IdleType DEF Idle, Locals, Points, Failures
<1>2. disk' \in [Places -> Storage] /\ bucket' \in Storage
  BY NothingType DEF Starts, Wipe, fileVars, IInv, ITypeOK
<1>3. me[i].pc = "down" /\ me' = [me EXCEPT ![i] = m] /\ UNCHANGED storeVars
  BY DEF Starts, At
<1>4. WorldTypeOK'
  BY <1>2, WorldTypeStays DEF Frame
<1> QED
  BY <1>1, <1>3, <1>4, PlainStep
  DEF storeVars, IInv, ITypeOK, Knowing, Inserting, Embedding, Writing

LEMMA HydrateKeeps ==
  ASSUME IInv, NEW i \in Ingestors, Frame,
         \/ \E n \in {DatasetFiles, Parts} : Lists(i, n)
         \/ \E f \in me[i].todo : Fetches(i, f)
         \/ Hydrated(i)
  PROVE  IInv'
<1>1. me[i] \in Locals /\ me[i].pc = "hydrate" /\ me[i].failure # "progress"
  BY DEF IInv, ITypeOK, Lists, Fetches, Hydrated, At, Sound
<1>2. disk' \in [Places -> Storage] /\ bucket' \in Storage
  <2>1. CASE UNCHANGED fileVars
    BY <2>1 DEF fileVars, IInv, ITypeOK
  <2>2. CASE \E f \in me[i].todo : Fetches(i, f)
    <3>1. PICK f \in me[i].todo : Put(i, f, bucket[f])
      BY <2>2 DEF Fetches, Download
    <3>2. f \in Files /\ bucket[f] \in Contained
      BY <1>1 DEF Locals, IInv, ITypeOK, Storage
    <3> QED
      BY <3>1, <3>2, PutType
  <2> QED
    BY <2>1, <2>2 DEF Lists, Hydrated
<1>3. PICK m : /\ m \in Locals /\ me' = [me EXCEPT ![i] = m]
               /\ m.pc \in {"hydrate", "check"} /\ m.failure = me[i].failure
  <2>1. CASE \E n \in {DatasetFiles, Parts} : Lists(i, n)
    <3>1. PICK n \in {DatasetFiles, Parts} : Lists(i, n)
      BY <2>1
    <3> DEFINE m == [me[i] EXCEPT !.listed = @ \cup n,
                                  !.todo = @ \cup (n \cap Present(bucket))]
    <3>2. n \subseteq Files
      BY DEF Files
    <3>3. m \in Locals
      BY <1>1, <3>2 DEF Locals
    <3>4. me' = [me EXCEPT ![i] = m]
      BY <3>1 DEF Lists
    <3>5. m.pc = "hydrate" /\ m.failure = me[i].failure
      BY <1>1 DEF Locals
    <3> QED
      BY <3>3, <3>4, <3>5
  <2>2. CASE \E f \in me[i].todo : Fetches(i, f)
    <3>1. PICK f \in me[i].todo : Fetches(i, f)
      BY <2>2
    <3> DEFINE m == [me[i] EXCEPT !.todo = @ \ {f}]
    <3>3. m \in Locals
      BY <1>1 DEF Locals
    <3>4. me' = [me EXCEPT ![i] = m]
      BY <3>1 DEF Fetches
    <3>5. m.pc = "hydrate" /\ m.failure = me[i].failure
      BY <1>1 DEF Locals
    <3> QED
      BY <3>3, <3>4, <3>5
  <2>3. CASE Hydrated(i)
    <3> DEFINE m == [me[i] EXCEPT !.pc = "check", !.listed = {}]
    <3>1. m \in Locals
      BY <1>1 DEF Locals, Points
    <3>2. me' = [me EXCEPT ![i] = m]
      BY <2>3 DEF Hydrated
    <3>3. m.pc = "check" /\ m.failure = me[i].failure
      BY <1>1 DEF Locals
    <3> QED
      BY <3>1, <3>2, <3>3
  <2> QED
    BY <2>1, <2>2, <2>3
<1>4. UNCHANGED storeVars
  BY DEF Lists, Fetches, Hydrated
<1>5. WorldTypeOK'
  BY <1>2, WorldTypeStays DEF Frame
<1> QED
  BY <1>1, <1>3, <1>4, <1>5, PlainStep
  DEF storeVars, IInv, ITypeOK, Knowing, Inserting, Embedding, Writing

LEMMA FailsKeeps ==
  ASSUME IInv, NEW i \in Ingestors, NEW why \in Failures \ {"progress"}, Fails(i, why),
         me[i].pc \notin Inserting, Frame
  PROVE  IInv'
<1>1. Idle(why) \in Locals /\ Idle(why).pc = "down" /\ Idle(why).failure = why
  BY IdleType DEF Idle
<1>2. WorldTypeOK'
  BY WorldTypeStays DEF Fails, Frame, fileVars, IInv, ITypeOK
<1> QED
  BY <1>1, <1>2, PlainStep
  DEF Fails, storeVars, IInv, ITypeOK, Knowing, Inserting, Embedding, Writing

LEMMA GotoKeeps ==
  ASSUME IInv, NEW i \in Ingestors, NEW p \in Points, Goto(i, p),
         me[i].pc \notin Inserting, p \notin Inserting \cup Embedding,
         p \in Knowing => me[i].pc \in Knowing,
         UNCHANGED storeVars, Frame, disk' \in [Places -> Storage], bucket' \in Storage
  PROVE  IInv'
<1> DEFINE m == [me[i] EXCEPT !.pc = p]
<1>1. me[i] \in Locals /\ me[i].failure # "progress"
      /\ (p \in Knowing => me[i].content \in Contents)
  BY DEF IInv, ITypeOK, Sound, Content
<1>2. m \in Locals /\ m.pc = p /\ m.failure = me[i].failure /\ m.content = me[i].content
  BY <1>1 DEF Locals
<1>3. WorldTypeOK'
  BY WorldTypeStays DEF Frame
<1> QED
  BY <1>1, <1>2, <1>3, PlainStep DEF Goto, storeVars, IInv, ITypeOK

LEMMA FilesType ==
  IInv /\ UNCHANGED fileVars => disk' \in [Places -> Storage] /\ bucket' \in Storage
BY DEF IInv, ITypeOK, fileVars

LEMMA UnpackKeeps ==
  ASSUME IInv, NEW i \in Ingestors, ChecksMarker(i) \/ Extracts(i), Frame
  PROVE  IInv'
<1> DEFINE early == {"check", "extract", "extracting", "mark"}
<1>1. me[i].pc \in early /\ me[i].pc \notin Inserting
  BY DEF ChecksMarker, Extracts, At, Inserting, Writing, Fails
<1>2. CASE Fails(i, "nodata")
  BY <1>1, <1>2, FailsKeeps DEF Failures
<1>3. CASE \E p \in {"extract", "extracting", "mark", "read"} : Goto(i, p) /\ UNCHANGED storeVars
                 /\ disk' \in [Places -> Storage] /\ bucket' \in Storage
  <2>1. PICK p \in {"extract", "extracting", "mark", "read"} : Goto(i, p)
    BY <1>3
  <2>2. p \in Points /\ p \notin Inserting \cup Embedding /\ p \notin Knowing
    BY DEF Points, Inserting, Embedding, Knowing, Writing
  <2> QED
    BY <1>1, <1>3, <2>1, <2>2, GotoKeeps
<1>4. CASE ChecksMarker(i) /\ ~Fails(i, "nodata")
  <2>1. UNCHANGED <<storeVars, fileVars>> /\ (Goto(i, "extract") \/ Goto(i, "read"))
    BY <1>4 DEF ChecksMarker
  <2> QED
    BY <1>3, <2>1, FilesType
<1>5. CASE Extracts(i)
  <2>1. \E p \in {"extracting", "mark", "read"} : Goto(i, p)
    BY <1>5 DEF Extracts
  <2>2. \E f \in Files, x \in Contained : Put(Place(i), f, x)
    BY <1>5 DEF Extracts, ExtractStart, ExtractEnd, Mark, Files, DatasetFiles, Contained
  <2> QED
    BY <1>3, <1>5, <2>1, <2>2, PutType DEF Extracts
<1> QED
  BY <1>2, <1>4, <1>5

LEMMA ReadsKeeps ==
  ASSUME IInv, NEW i \in Ingestors, Reads(i), Frame
  PROVE  IInv'
<1>1. me[i].pc = "read" /\ me[i] \in Locals /\ me[i].failure # "progress"
  BY DEF Reads, At, IInv, ITypeOK, Sound
<1>2. CASE Fails(i, "torn")
  BY <1>1, <1>2, FailsKeeps DEF Failures, Inserting, Writing
<1>3. CASE ~Fails(i, "torn")
  <2>1. PICK c \in Contents :
          me' = [me EXCEPT ![i].pc = "registered", ![i].content = c, ![i].saw = corpora]
    BY <1>3, IngestionAssumption DEF Reads, Cuts, IInv, ITypeOK
  <2> DEFINE m == [me[i] EXCEPT !.pc = "registered", !.content = c, !.saw = corpora]
  <2>2. m \in Locals /\ m.pc = "registered" /\ m.content = c /\ m.failure = me[i].failure
    BY <1>1 DEF Locals, Points, IInv, ITypeOK
  <2>3. UNCHANGED <<storeVars, fileVars>>
    BY <1>3 DEF Reads
  <2>4. WorldTypeOK'
    BY <2>3, FilesType, WorldTypeStays DEF Frame
  <2> QED
    BY <1>1, <2>1, <2>2, <2>3, <2>4, PlainStep, ZenonT(40)
    DEF storeVars, IInv, ITypeOK, Knowing, Inserting, Embedding, Writing
<1> QED
  BY <1>2, <1>3

LEMMA ChecksKeep ==
  ASSUME IInv, NEW i \in Ingestors, Validates(i) \/ Builds(i), Frame
  PROVE  IInv'
<1>1. me[i].pc \in {"validate", "build", "rename"}
  BY DEF Validates, Builds, At, Fails
<1>2. me[i].pc \notin Inserting /\ me[i].pc \in Knowing
  BY <1>1 DEF Inserting, Knowing, Writing
<1>3. CASE \E why \in {"counts", "corrupt", "exists"} : Fails(i, why)
  BY <1>2, <1>3, FailsKeeps DEF Failures
<1>4. CASE ~\E why \in {"counts", "corrupt", "exists"} : Fails(i, why)
  <2>1. PICK p \in {"build", "rename", "find"} : Goto(i, p)
    BY <1>4 DEF Validates, Builds
  <2>2. UNCHANGED storeVars
    BY <1>4 DEF Validates, Builds
  <2>3. disk' \in [Places -> Storage] /\ bucket' \in Storage
    <3>1. CASE UNCHANGED fileVars
      BY <3>1, FilesType
    <3>2. CASE Build(Place(i))
      <4>1. \A d \in Places : [f \in Files |-> IF f \in Parts THEN "whole" ELSE disk[d][f]] \in Storage
        BY DEF IInv, ITypeOK, Storage, Contained
      <4> QED
        BY <3>2, <4>1 DEF Build, IInv, ITypeOK
    <3> QED
      BY <1>4, <3>1, <3>2 DEF Validates, Builds
  <2>4. p \in Points /\ p \notin Inserting \cup Embedding
    BY DEF Points, Inserting, Embedding, Writing
  <2> QED
    BY <1>2, <2>1, <2>2, <2>3, <2>4, GotoKeeps
<1> QED
  BY <1>3, <1>4

LEMMA PublishesKeep ==
  ASSUME IInv, NEW i \in Ingestors, NEW f \in me[i].todo, Publishes(i, f), Frame
  PROVE  IInv'
<1> DEFINE m == [me[i] EXCEPT !.todo = @ \ {f}]
<1>1. me[i].pc = "publish" /\ me[i] \in Locals /\ me[i].failure # "progress"
  BY DEF Publishes, At, IInv, ITypeOK, Sound
<1>2. m \in Locals /\ m.pc = "publish" /\ m.failure = me[i].failure
  BY <1>1 DEF Locals
<1>3. disk' \in [Places -> Storage] /\ bucket' \in Storage
  <2>1. \A p : p \in Places => disk[p][f] \in Contained
    BY <1>1 DEF Locals, IInv, ITypeOK, Storage
  <2>2. disk[i][f] \in Contained
    BY <2>1, IngestionAssumption
  <2> QED
    BY <1>1, <2>2 DEF Publishes, Upload, Locals, IInv, ITypeOK, Storage
<1>4. WorldTypeOK'
  BY <1>3, WorldTypeStays DEF Frame
<1>5. me' = [me EXCEPT ![i] = m] /\ UNCHANGED storeVars
  BY DEF Publishes
<1> QED
  BY <1>1, <1>2, <1>4, <1>5, PlainStep
  DEF storeVars, IInv, ITypeOK, Knowing, Inserting, Embedding, Writing

LEMMA ExitsKeeps ==
  ASSUME IInv, NEW i \in Ingestors, Exits(i), UNCHANGED worldVars
  PROVE  IInv'
<1>1. me[i].pc = "publish"
  BY DEF Exits, At
<1>2. Idle("none") \in Locals /\ Idle("none").pc = "down" /\ Idle("none").failure = "none"
  BY IdleType DEF Idle, Failures
<1>3. WorldTypeOK'
  BY DEF Exits, IInv, ITypeOK, WorldTypeOK, worldVars, fileVars
<1> QED
  BY <1>1, <1>2, <1>3, PlainStep
  DEF Exits, storeVars, IInv, ITypeOK, Knowing, Inserting, Embedding, Writing

LEMMA EditsKeeps == IInv /\ Edits => IInv'
<1> SUFFICES ASSUME IInv, Edits PROVE IInv'
  OBVIOUS
<1>1. UNCHANGED <<corpora, stored, index, tx, lock, me, spoilt, crashes, published, disk, bucket,
                  cloud, remote>> /\ source' \in Contents
  BY DEF Edits, storeVars, processVars, fileVars
<1>2. ITypeOK'
  BY <1>1 DEF IInv, ITypeOK
<1>3. IndexSound' /\ Apart'
  BY <1>1 DEF IInv, IndexSound, ProgressExact, Embedded, At, Content, Apart
<1>4. \A i \in Ingestors : Sound(i)'
  BY <1>1 DEF IInv, Sound, RowsInOrder, BatchesCover, RowIsFresh, Behind, Table, Content,
    Pending, Embedded
<1> QED
  BY <1>2, <1>3, <1>4 DEF IInv

-----------------------------------------------------------------------------
LEMMA BatchEndType ==
  ASSUME NEW i \in Ingestors, NEW k \in 1..(Documents + 1), NEW n \in 1..Documents
  PROVE  BatchEnd(i, k, n) \in 0..Documents /\ BatchEnd(i, k, n) <= n
<1>1. Batch[i] \in Nat /\ Batch[i] > 0 /\ Documents \in Nat
  BY IngestionAssumption, StoreAssumption
<1> QED
  BY <1>1 DEF BatchEnd

(* Turns names its successor *)
Turned(i, p, k, n) ==
  [me[i] EXCEPT !.pc = p, !.at = k, !.upto = BatchEnd(i, k, n), !.rows = {}, !.row = NoIndex]

LEMMA TurnsType ==
  ASSUME IInv, NEW i \in Ingestors, NEW p \in Points, NEW k \in 1..(Documents + 1),
         NEW n \in 1..Documents, Turns(i, p, k, n)
  PROVE  /\ Turned(i, p, k, n) \in Locals
         /\ me' = [me EXCEPT ![i] = Turned(i, p, k, n)]
         /\ me'[i] = Turned(i, p, k, n)
         /\ me'[i].pc = p /\ me'[i].content = me[i].content
         /\ me'[i].at = k /\ me'[i].rows = {} /\ me'[i].failure = me[i].failure
<1>1. me[i] \in Locals /\ me \in [Ingestors -> Locals]
  BY DEF IInv, ITypeOK
<1>2. NoIndex \in IndexRows
  BY StoreAssumption DEF NoIndex, IndexRows
<1>3. Turned(i, p, k, n) \in Locals
  BY <1>1, <1>2, BatchEndType DEF Turned, Locals
<1>4. me' = [me EXCEPT ![i] = Turned(i, p, k, n)]
  BY <1>1 DEF Turns, Turned
<1> QED
  BY <1>1, <1>3, <1>4 DEF Turned, Locals

LEMMA RegistersKeeps ==
  ASSUME IInv, NEW i \in Ingestors, Registers(i), Frame
  PROVE  IInv'
<1>1. me[i].pc = "registered" /\ me[i] \in Locals /\ me[i].failure # "progress"
      /\ Content(i) \in Contents /\ me[i].pc \notin Inserting
  BY DEF Registers, At, IInv, ITypeOK, Sound, Knowing, Inserting, Writing, Fails
<1>2. CASE Fails(i, "unique")
  BY <1>1, <1>2, FailsKeeps DEF Failures
<1>3. CASE ~Fails(i, "unique")
  <2> DEFINE m == [me[i] EXCEPT !.pc = "documents", !.saw = {}, !.at = 1,
                                !.upto = BatchEnd(i, 1, Documents)]
  <2>1. me' = [me EXCEPT ![i] = m] /\ Register(Content(i)) /\ UNCHANGED fileVars
    BY <1>3 DEF Registers
  <2>2. BatchEnd(i, 1, Documents) \in 0..Documents
    BY BatchEndType, StoreAssumption
  <2>3. 1 \in 1..(Documents + 1)
    BY StoreAssumption
  <2>4. m \in Locals /\ m.pc = "documents" /\ m.content = me[i].content
        /\ m.failure = me[i].failure
    BY <1>1, <2>2, <2>3 DEF Locals, Points, Writing
  <2>5. me'[i] = m
    BY <2>1 DEF IInv, ITypeOK
  <2>6. UNCHANGED <<stored, index, tx, lock>> /\ corpora' \subseteq Contents
    BY <1>1, <2>1 DEF Register, IInv, ITypeOK
  <2>7. tx'[i] = {}
    BY <1>1, <2>6 DEF IInv, Sound, RowsInOrder
  <2>8. Sound(i)'
    BY <1>1, <2>4, <2>5, <2>7
    DEF Sound, RowsInOrder, BatchesCover, RowIsFresh, Content, Inserting, Embedding, Writing
  <2>9. WorldTypeOK'
    BY <2>1, FilesType, WorldTypeStays DEF Frame
  <2> QED
    BY <1>1, <2>1, <2>4, <2>5, <2>6, <2>8, <2>9, QuietStep DEF At
<1> QED
  BY <1>2, <1>3

-----------------------------------------------------------------------------
(* Inserting and committing rows. *)
LEMMA RowType ==
  ASSUME NEW table \in Tables, NEW c \in Contents, NEW k \in Numbers
  PROVE  RowOf(table, c, k) \in Rows
BY DEF RowOf, Rows

LEMMA InsertKeeps ==
  ASSUME IInv, NEW i \in Ingestors, NEW row \in Rows, InsertRow(i, row),
         NEW m \in Locals, me' = [me EXCEPT ![i] = m], ~At(i, "advancing"),
         Sound(i)', WorldTypeOK'
  PROVE  IInv'
<1>1. /\ UNCHANGED <<corpora, stored, index, lock>>
      /\ tx' = [tx EXCEPT ![i] = IF row \in stored THEN @ ELSE @ \cup {row}]
      /\ \A j \in Ingestors \ {i} : row \notin tx[j]
  BY DEF InsertRow, Free
<1>2. me'[i] = m /\ tx'[i] \subseteq tx[i] \cup {row} /\ tx \in [Ingestors -> SUBSET Rows]
  BY <1>1 DEF IInv, ITypeOK
<1>3. Alone(i)
  <2>1. \A j \in Ingestors \ {i} : tx[j] \cap (stored' \cup tx'[i]) = {}
    BY <1>1, <1>2 DEF IInv, Sound, RowsInOrder, Apart
  <2>2. \A j \in Ingestors \ {i} : At(j, "advancing") => lock[Content(j)] = j
    BY DEF IInv, Sound, RowIsFresh, At
  <2>3. tx' = [tx EXCEPT ![i] = tx'[i]]
    BY <1>1, <1>2
  <2>4. me' = [me EXCEPT ![i] = me'[i]]
    BY <1>2
  <2> QED
    BY <1>1, <2>1, <2>2, <2>3, <2>4 DEF Alone
<1>4. IndexSound'
  <2>1. ProgressExact'
    BY <1>1 DEF IInv, IndexSound, ProgressExact, Embedded
  <2>2. ASSUME NEW c \in Contents, NEW j \in Ingestors, lock'[c] = j
        PROVE  At(j, "advancing")' /\ Content(j)' = c
    BY <1>1, <2>2 DEF IInv, IndexSound, ITypeOK, At, Content
  <2> QED
    BY <1>1, <2>1, <2>2 DEF IInv, IndexSound
<1>5. corpora' \subseteq Contents /\ stored' \subseteq Rows /\ index' \in [Contents -> IndexRows]
      /\ lock' \in [Contents -> Ingestors \cup {None}]
  BY <1>1 DEF IInv, ITypeOK
<1> QED
  BY <1>2, <1>3, <1>4, <1>5, Assembled

LEMMA WritesRowKeeps ==
  ASSUME IInv, NEW i \in Ingestors, WritesRow(i), Frame
  PROVE  IInv'
<1> DEFINE row == RowOf(me[i].pc, Content(i), me[i].at)
           m   == [me[i] EXCEPT !.at = @ + 1]
<1>1. me[i].pc \in Writing /\ me[i] \in Locals /\ me[i].at <= me[i].upto
      /\ Content(i) \in Contents /\ me[i].failure # "progress"
  BY DEF WritesRow, IInv, ITypeOK, Sound, Knowing, Inserting
<1>2. me[i].at \in Numbers /\ me[i].at + 1 \in 1..(Documents + 1)
  BY <1>1, StoreAssumption DEF Locals, Numbers
<1>3. m \in Locals /\ m.pc = me[i].pc /\ m.at = me[i].at + 1 /\ m.content = Content(i)
      /\ m.failure = me[i].failure
  BY <1>1, <1>2 DEF Locals, Content
<1>4. row \in Rows
  BY <1>1, <1>2, RowType DEF Writing, Tables
<1>5. InsertRow(i, row) /\ me' = [me EXCEPT ![i] = m] /\ UNCHANGED fileVars
  BY DEF WritesRow
<1>6. me'[i] = m
  BY <1>5 DEF IInv, ITypeOK
<1>7. stored' = stored /\ tx'[i] = IF row \in stored THEN tx[i] ELSE tx[i] \cup {row}
  BY <1>5 DEF InsertRow, IInv, ITypeOK
<1>8. RowsInOrder(i)'
  <2>1. \A x \in tx[i] : \E k \in Numbers : x = RowOf(me[i].pc, Content(i), k) /\ k < me[i].at
    BY <1>1 DEF IInv, Sound, RowsInOrder, Table, Behind
  <2>2. \A x \in tx'[i] :
           \E k \in Numbers : x = RowOf(me[i].pc, Content(i), k) /\ k < me[i].at + 1
    <3>1. \A k \in Numbers : k < me[i].at => k < me[i].at + 1
      BY <1>2 DEF Numbers
    <3>2. me[i].at < me[i].at + 1
      BY <1>2 DEF Numbers
    <3> QED
      BY <1>2, <1>7, <2>1, <3>1, <3>2
  <2>3. tx'[i] \cap stored' = {}
    BY <1>7 DEF IInv, Sound, RowsInOrder
  <2>4. me'[i].pc # "embeddings" /\ me'[i].pc \in Inserting
    BY <1>1, <1>3, <1>6 DEF Writing, Inserting
  <2> QED
    BY <1>1, <1>3, <1>6, <2>2, <2>3, <2>4 DEF RowsInOrder, Table, Behind, Content
<1>9. Sound(i)'
  BY <1>1, <1>3, <1>6, <1>8 DEF Sound, BatchesCover, RowIsFresh, Content, Embedding, Writing
<1>10. WorldTypeOK'
  BY <1>5, FilesType, WorldTypeStays DEF Frame
<1> QED
  BY <1>1, <1>3, <1>4, <1>5, <1>9, <1>10, InsertKeeps DEF At, Writing

LEMMA EmbedsRowKeeps ==
  ASSUME IInv, NEW i \in Ingestors, EmbedsRow(i), Frame
  PROVE  IInv'
<1> DEFINE k == NextRow(i)
           row == RowOf("embeddings", Content(i), k)
           m == [me[i] EXCEPT !.rows = @ \ {k}]
<1>1. me[i].pc = "embeddings" /\ me[i] \in Locals /\ me[i].rows # {}
      /\ Content(i) \in Contents /\ me[i].failure # "progress"
  BY DEF EmbedsRow, At, IInv, ITypeOK, Sound, Knowing, Inserting
<1>2. k \in me[i].rows /\ k \in Numbers /\ \A l \in me[i].rows : k <= l
  BY <1>1, NextRowIsLeast
<1>3. InsertRow(i, row) /\ me' = [me EXCEPT ![i] = m] /\ UNCHANGED fileVars
  BY DEF EmbedsRow
<1> HIDE DEF k
<1>4. m \in Locals /\ m.pc = "embeddings" /\ m.rows = me[i].rows \ {k} /\ m.content = Content(i)
      /\ m.failure = me[i].failure /\ m.at = me[i].at /\ m.upto = me[i].upto
  BY <1>1 DEF Locals, Content
<1>5. row \in Rows
  BY <1>1, <1>2, RowType DEF Tables
<1>6. me'[i] = m
  BY <1>3 DEF IInv, ITypeOK
<1>7. /\ stored' = stored /\ index' = index
      /\ tx'[i] = IF row \in stored THEN tx[i] ELSE tx[i] \cup {row}
  BY <1>3 DEF InsertRow, IInv, ITypeOK
<1>8. RowsInOrder(i)'
  <2>1. \A x \in tx[i] : \E n \in Numbers :
           x = RowOf("embeddings", Content(i), n) /\ \A l \in me[i].rows : n < l
    BY <1>1 DEF IInv, Sound, RowsInOrder, Table, Behind, Writing
  <2>2. \A l \in me[i].rows \ {k} : k < l
    BY <1>1, <1>2 DEF Locals, Numbers
  <2>3. \A x \in tx'[i] : \E n \in Numbers :
           x = RowOf("embeddings", Content(i), n) /\ \A l \in me[i].rows \ {k} : n < l
    BY <1>2, <1>7, <2>1, <2>2
  <2>4. tx'[i] \cap stored' = {}
    BY <1>7 DEF IInv, Sound, RowsInOrder
  <2> QED
    BY <1>4, <1>6, <2>3, <2>4 DEF RowsInOrder, Table, Behind, Content, Writing, Inserting
<1>9. BatchesCover(i)'
  <2>1. 1..(me[i].at - 1) \subseteq Embedded(Content(i))
        /\ me[i].at..me[i].upto \subseteq Embedded(Content(i)) \cup me[i].rows \cup Pending(i)
    BY <1>1 DEF IInv, Sound, BatchesCover
  <2>2. k \in Embedded(Content(i)) \/ row \in tx'[i]
    BY <1>2, <1>7 DEF Embedded
  <2>3. Content(i)' = Content(i) /\ Embedded(Content(i))' = Embedded(Content(i))
    BY <1>4, <1>6, <1>7 DEF Embedded, Content
  <2>4. Pending(i) \subseteq Pending(i)' /\ (row \in tx'[i] => k \in Pending(i)')
    BY <1>2, <1>7, <2>3 DEF Pending
  <2> QED
    BY <1>4, <1>6, <2>1, <2>2, <2>3, <2>4 DEF BatchesCover
<1>10. RowIsFresh(i)'
  BY <1>1, <1>4, <1>6, <1>7 DEF IInv, Sound, RowIsFresh, Content, Embedding
<1>11. Sound(i)'
  BY <1>1, <1>4, <1>6, <1>8, <1>9, <1>10 DEF Sound, Content
<1>12. WorldTypeOK'
  BY <1>3, FilesType, WorldTypeStays DEF Frame
<1> QED
  BY <1>1, <1>3, <1>4, <1>5, <1>11, <1>12, InsertKeeps DEF At

LEMMA SizeType ==
  ASSUME NEW table, NEW c \in Contents
  PROVE  SizeOf(table, c) \in 1..Documents
BY StoreAssumption DEF SizeOf

LEMMA CommitsNoEmbeddings ==
  ASSUME IInv, NEW i \in Ingestors, CommitsBatch(i)
  PROVE  \A c \in Contents : Embedded(c)' = Embedded(c)
<1>1. me[i].pc \in Writing /\ stored' = stored \cup tx[i]
  BY DEF CommitsBatch, CommitRows
<1>2. \A c \in Contents, k \in Numbers : RowOf("embeddings", c, k) \notin tx[i]
  BY <1>1 DEF IInv, Sound, RowsInOrder, Table, RowOf, Writing
<1> QED
  BY <1>1, <1>2 DEF Embedded

LEMMA CommitsBatchKeeps ==
  ASSUME IInv, NEW i \in Ingestors, CommitsBatch(i), Frame
  PROVE  IInv'
<1>1. me[i].pc \in Writing /\ me[i] \in Locals /\ me[i].at > me[i].upto
      /\ Content(i) \in Contents /\ me[i].failure # "progress"
  BY DEF CommitsBatch, IInv, ITypeOK, Sound, Knowing, Inserting
<1>2. /\ stored' = stored \cup tx[i] /\ tx' = [tx EXCEPT ![i] = {}]
      /\ UNCHANGED <<corpora, index, lock>> /\ UNCHANGED fileVars
  BY DEF CommitsBatch, CommitRows
<1>3. tx'[i] = {} /\ tx[i] \subseteq Rows
  BY <1>2 DEF IInv, ITypeOK
<1>4. PICK p \in Writing \cup {"validate"} :
        \E k \in 1..(Documents + 1), n \in 1..Documents : Turns(i, p, k, n)
  <2>1. me[i].at \in 1..(Documents + 1) /\ 1 \in 1..(Documents + 1)
    BY <1>1, StoreAssumption DEF Locals
  <2>2. After(me[i].pc) \in Writing \cup {"validate"}
    BY DEF After, Writing
  <2> QED
    BY <1>1, <2>1, <2>2, SizeType DEF CommitsBatch
<1>5. p \in Points
  BY DEF Points, Writing
<1>6. me'[i] \in Locals /\ me' = [me EXCEPT ![i] = me'[i]] /\ me'[i].pc = p
      /\ me'[i].content = Content(i) /\ me'[i].failure = me[i].failure
  BY <1>4, <1>5, TurnsType DEF Content
<1>7. \A c \in Contents : Embedded(c)' = Embedded(c)
  BY CommitsNoEmbeddings
<1>8. Alone(i)
  <2>1. \A j \in Ingestors \ {i} : tx[j] \cap (stored' \cup tx'[i]) = {}
    BY <1>2, <1>3 DEF IInv, Sound, RowsInOrder, Apart
  <2>2. \A j \in Ingestors \ {i} : At(j, "advancing") => lock[Content(j)] = j
    BY DEF IInv, Sound, RowIsFresh, At
  <2>3. tx' = [tx EXCEPT ![i] = tx'[i]]
    BY <1>2, <1>3
  <2> QED
    BY <1>2, <1>6, <2>1, <2>2, <2>3 DEF Alone
<1>9. IndexSound'
  <2>1. ProgressExact'
    BY <1>2, <1>7 DEF IInv, IndexSound, ProgressExact
  <2>2. ASSUME NEW c \in Contents, NEW j \in Ingestors, lock'[c] = j
        PROVE  At(j, "advancing")' /\ Content(j)' = c
    <3>1. At(j, "advancing") /\ Content(j) = c /\ j # i
      BY <1>1, <1>2, <2>2 DEF IInv, IndexSound, At, Writing
    <3> QED
      BY <1>6, <3>1 DEF IInv, ITypeOK, At, Content
  <2> QED
    BY <1>2, <2>1, <2>2 DEF IInv, IndexSound
<1>10. Sound(i)'
  BY <1>1, <1>3, <1>6
  DEF Sound, RowsInOrder, BatchesCover, RowIsFresh, Content, Embedding, Writing
<1>11. WorldTypeOK'
  BY <1>2, FilesType, WorldTypeStays DEF Frame
<1>12. corpora' \subseteq Contents /\ stored' \subseteq Rows /\ index' \in [Contents -> IndexRows]
       /\ lock' \in [Contents -> Ingestors \cup {None}]
  BY <1>2, <1>3 DEF IInv, ITypeOK
<1> QED
  BY <1>3, <1>6, <1>8, <1>9, <1>10, <1>11, <1>12, Assembled

(* the first batch of _embed_missing *)
LEMMA EntersEmbedding ==
  ASSUME IInv, NEW i \in Ingestors, me[i].pc \in {"find", "create"},
         Turns(i, "missing", 1, Documents), UNCHANGED <<stored, tx>>,
         index'[Content(i)].state # "absent"
  PROVE  me' = [me EXCEPT ![i] = me'[i]] /\ me'[i] \in Locals /\ Sound(i)'
<1>1. Content(i) \in Contents /\ me[i].failure # "progress" /\ tx[i] = {}
  BY DEF IInv, Sound, Knowing, RowsInOrder, Inserting, Writing
<1>2. 1 \in 1..(Documents + 1) /\ Documents \in 1..Documents /\ "missing" \in Points
  BY StoreAssumption DEF Points
<1>3. /\ me' = [me EXCEPT ![i] = me'[i]] /\ me'[i] \in Locals
      /\ me'[i].pc = "missing" /\ me'[i].content = Content(i) /\ me'[i].at = 1
      /\ me'[i].failure = me[i].failure
  BY <1>2, TurnsType DEF Content
<1>4. 1..(me'[i].at - 1) = {}
  BY <1>3
<1> QED
  BY <1>1, <1>3, <1>4 DEF Sound, RowsInOrder, BatchesCover, RowIsFresh, Content, Inserting, Writing

LEMMA FindsIndexKeeps ==
  ASSUME IInv, NEW i \in Ingestors, FindsIndex(i), Frame
  PROVE  IInv'
<1>1. me[i].pc \in {"find", "create"} /\ me[i].pc \notin Inserting /\ Content(i) \in Contents
  BY DEF FindsIndex, At, IInv, Sound, Inserting, Knowing, Writing, Fails
<1>2. WorldTypeOK'
  BY FilesType, WorldTypeStays DEF Frame, FindsIndex
<1>3. CASE Fails(i, "unique")
  BY <1>1, <1>3, FailsKeeps DEF Failures
<1>4. CASE Goto(i, "create") /\ UNCHANGED storeVars
  <2>1. "create" \in Points /\ "create" \notin Inserting \cup Embedding /\ me[i].pc \in Knowing
    BY <1>1 DEF Points, Inserting, Embedding, Writing, Knowing
  <2> QED
    BY <1>1, <1>4, <2>1, FilesType, GotoKeeps DEF FindsIndex
<1>5. CASE index[Content(i)] # NoIndex /\ Turns(i, "missing", 1, Documents) /\ UNCHANGED storeVars
  <2>1. index[Content(i)].state # "absent"
    BY <1>1, <1>5 DEF IInv, IndexSound
  <2>2. me' = [me EXCEPT ![i] = me'[i]] /\ me'[i] \in Locals /\ Sound(i)'
    BY <1>1, <1>5, <2>1, EntersEmbedding DEF storeVars
  <2> QED
    BY <1>1, <1>2, <1>5, <2>2, QuietStep DEF storeVars, IInv, ITypeOK, At
<1>6. CASE /\ index[Content(i)] = NoIndex
           /\ CreateIndex(Content(i)) /\ Turns(i, "missing", 1, Documents)
  <2> DEFINE c == Content(i)
             new == [state |-> "building", count |-> 0]
  <2>1. index' = [index EXCEPT ![c] = new] /\ UNCHANGED <<corpora, stored, tx, lock>>
    BY <1>6 DEF CreateIndex
  <2>2. new \in IndexRows /\ index' \in [Contents -> IndexRows] /\ index'[c] = new
        /\ \A d \in Contents \ {c} : index'[d] = index[d]
    BY <1>1, <2>1, StoreAssumption DEF IndexRows, IInv, ITypeOK
  <2>3. me' = [me EXCEPT ![i] = me'[i]] /\ me'[i] \in Locals /\ Sound(i)'
    BY <1>1, <1>6, <2>1, <2>2, EntersEmbedding
  <2>4. \A j \in Ingestors : At(j, "advancing") => Content(j) \in Contents /\ Content(j) # c
                               /\ lock[Content(j)] = j
    BY <1>6 DEF IInv, Sound, RowIsFresh, Knowing, Inserting, Embedding, At, NoIndex
  <2>5. Alone(i)
    <3>1. \A j \in Ingestors \ {i} : tx[j] \cap (stored' \cup tx'[i]) = {}
      BY <2>1 DEF IInv, Sound, RowsInOrder, Apart
    <3>2. tx' = [tx EXCEPT ![i] = tx'[i]]
      BY <2>1 DEF IInv, ITypeOK
    <3>3. \A d \in Contents : index[d].state # "absent" => index'[d].state # "absent"
      BY <2>2
    <3> QED
      BY <2>1, <2>2, <2>3, <2>4, <3>1, <3>2, <3>3 DEF Alone
  <2>6. IndexSound'
    <3>1. \A d \in Contents : Embedded(d)' = Embedded(d)
      BY <2>1 DEF Embedded
    <3>2. 0 = Cardinality(Embedded(c)) /\ Embedded(c) # Numbers
      BY <1>1, <1>6 DEF IInv, IndexSound, ProgressExact, NoIndex
    <3>3. ProgressExact'
      BY <1>1, <2>1, <2>2, <3>1, <3>2 DEF IInv, IndexSound, ProgressExact
    <3>4. ASSUME NEW d \in Contents, NEW j \in Ingestors, lock'[d] = j
          PROVE  At(j, "advancing")' /\ Content(j)' = d
      <4>1. At(j, "advancing") /\ Content(j) = d /\ j # i
        BY <1>1, <2>1, <3>4 DEF IInv, IndexSound, At
      <4> QED
        BY <2>3, <4>1 DEF IInv, ITypeOK, At, Content
    <3>5. \A d \in Contents : index'[d].state = "absent" => index'[d] = NoIndex
      BY <2>2 DEF IInv, IndexSound
    <3> QED
      BY <3>3, <3>4, <3>5 DEF IndexSound
  <2> QED
    BY <1>2, <2>1, <2>2, <2>3, <2>5, <2>6, Assembled DEF IInv, ITypeOK
<1> QED
  BY <1>3, <1>4, <1>5, <1>6 DEF FindsIndex

LEMMA NextBatchKnows ==
  ASSUME IInv, NEW i \in Ingestors, NextBatch(i)
  PROVE  Content(i)' = Content(i)
BY DEF NextBatch, Turns, Content, IInv, ITypeOK, Locals

(* the batch is done: the next one, or the recount *)
LEMMA NextBatchSound ==
  ASSUME IInv, NEW i \in Ingestors, me[i].pc \in {"missing", "advancing"}, NextBatch(i),
         1..me[i].upto \subseteq Embedded(Content(i))', tx'[i] = {},
         index'[Content(i)].state # "absent"
  PROVE  me' = [me EXCEPT ![i] = me'[i]] /\ me'[i] \in Locals /\ Sound(i)'
<1>1. Content(i) \in Contents /\ me[i].failure # "progress" /\ me[i] \in Locals
  BY DEF IInv, ITypeOK, Sound, Knowing, Embedding, Inserting
<1>2. me[i].upto \in 0..Documents /\ Documents \in Nat /\ Documents > 0
  BY <1>1, StoreAssumption DEF Locals
<1>3. CASE me[i].upto < Documents
  <2>1. me[i].upto + 1 \in 1..(Documents + 1) /\ Documents \in 1..Documents
        /\ "missing" \in Points
    BY <1>2, <1>3 DEF Points
  <2>2. Turns(i, "missing", me[i].upto + 1, Documents)
    BY <1>3 DEF NextBatch
  <2>3. /\ me' = [me EXCEPT ![i] = me'[i]] /\ me'[i] \in Locals
        /\ me'[i].pc = "missing" /\ me'[i].content = Content(i) /\ me'[i].at = me[i].upto + 1
        /\ me'[i].failure = me[i].failure
    BY <2>1, <2>2, TurnsType DEF Content
  <2>4. me'[i].at - 1 = me[i].upto
    BY <1>2, <2>3
  <2>5. Embedded(Content(i))' = Embedded(me[i].content)'
    BY <2>3 DEF Embedded, Content
  <2>6. BatchesCover(i)'
    BY <2>3, <2>4, <2>5 DEF BatchesCover, Content
  <2> QED
    BY <1>1, <2>3, <2>6 DEF Sound, RowsInOrder, RowIsFresh, Content, Inserting, Writing
<1>4. CASE ~(me[i].upto < Documents)
  <2>1. 1 \in 1..(Documents + 1) /\ Documents \in 1..Documents /\ "refresh" \in Points
    BY <1>2 DEF Points
  <2>2. Turns(i, "refresh", 1, Documents)
    BY <1>4 DEF NextBatch
  <2>3. /\ me' = [me EXCEPT ![i] = me'[i]] /\ me'[i] \in Locals
        /\ me'[i].pc = "refresh" /\ me'[i].content = Content(i)
        /\ me'[i].failure = me[i].failure
    BY <2>1, <2>2, TurnsType DEF Content
  <2>4. me[i].upto = Documents
    BY <1>2, <1>4
  <2>5. Embedded(Content(i))' = Numbers
    BY <2>3, <2>4 DEF Embedded, Content, Numbers
  <2>6. BatchesCover(i)'
    BY <2>3, <2>5 DEF BatchesCover
  <2> QED
    BY <1>1, <2>3, <2>6 DEF Sound, RowsInOrder, RowIsFresh, Content, Inserting, Writing
<1> QED
  BY <1>3, <1>4

LEMMA ReadsMissingKeeps ==
  ASSUME IInv, NEW i \in Ingestors, ReadsMissing(i), Frame
  PROVE  IInv'
<1> DEFINE missing == Missing(Content(i), me[i].at..me[i].upto)
<1>1. me[i].pc = "missing" /\ me[i] \in Locals /\ Content(i) \in Contents
      /\ me[i].failure # "progress" /\ tx[i] = {} /\ index[Content(i)].state # "absent"
      /\ UNCHANGED <<corpora, stored, index, tx, lock>> /\ UNCHANGED fileVars
  BY DEF ReadsMissing, At, IInv, ITypeOK, Sound, Knowing, RowsInOrder, RowIsFresh, Embedding,
    Inserting, Writing, storeVars
<1>2. me[i].at \in 1..(Documents + 1) /\ me[i].upto \in 0..Documents /\ Documents \in Nat
  BY <1>1, StoreAssumption DEF Locals
<1>3. 1..(me[i].at - 1) \subseteq Embedded(Content(i))
      /\ me[i].at..me[i].upto \subseteq Embedded(Content(i)) \cup missing
  BY <1>1 DEF IInv, Sound, BatchesCover, Missing
<1>4. me' = [me EXCEPT ![i] = me'[i]] /\ me'[i] \in Locals /\ Sound(i)'
  <2>1. CASE missing = {}
    <3>1. 1..me[i].upto \subseteq 1..(me[i].at - 1) \cup me[i].at..me[i].upto
      BY <1>2
    <3>2. 1..me[i].upto \subseteq Embedded(Content(i))
      BY <1>3, <2>1, <3>1
    <3>3. Content(i)' = Content(i)
      BY <1>1, <2>1, NextBatchKnows DEF ReadsMissing
    <3>4. Embedded(Content(i)) \subseteq Embedded(Content(i))'
      BY <1>1, <3>3 DEF Embedded
    <3> QED
      BY <1>1, <2>1, <3>2, <3>3, <3>4, NextBatchSound DEF ReadsMissing
  <2>2. CASE missing # {}
    <3> DEFINE m == [me[i] EXCEPT !.pc = "embeddings", !.rows = missing]
    <3>1. missing \subseteq Numbers
      BY <1>2 DEF Missing, Numbers
    <3>2. m \in Locals /\ m.pc = "embeddings" /\ m.rows = missing /\ m.content = Content(i)
          /\ m.at = me[i].at /\ m.upto = me[i].upto /\ m.failure = me[i].failure
      BY <1>1, <3>1 DEF Locals, Points, Content
    <3>3. me' = [me EXCEPT ![i] = m]
      BY <2>2 DEF ReadsMissing
    <3>4. me'[i] = m
      BY <3>3 DEF IInv, ITypeOK
    <3>5. Embedded(Content(i))' = Embedded(Content(i))
      BY <1>1, <3>2, <3>4 DEF Embedded, Content
    <3>6. BatchesCover(i)'
      BY <1>3, <3>2, <3>4, <3>5 DEF BatchesCover
    <3> QED
      BY <1>1, <3>2, <3>3, <3>4, <3>6 DEF Sound, RowsInOrder, RowIsFresh, Content
  <2> QED
    BY <2>1, <2>2
<1>5. WorldTypeOK'
  BY <1>1, FilesType, WorldTypeStays DEF Frame
<1> QED
  BY <1>1, <1>4, <1>5, QuietStep DEF IInv, ITypeOK, At

LEMMA LocksIndexKeeps ==
  ASSUME IInv, NEW i \in Ingestors, LocksIndex(i), Frame
  PROVE  IInv'
<1> DEFINE c == Content(i)
           m == [me[i] EXCEPT !.pc = "advancing", !.row = index[c]]
<1>1. me[i].pc = "embeddings" /\ me[i].rows = {} /\ me[i] \in Locals /\ c \in Contents
      /\ me[i].failure # "progress" /\ index[c].state # "absent"
  BY DEF LocksIndex, At, IInv, ITypeOK, Sound, Knowing, Inserting, RowIsFresh, Embedding
<1>2. lock[c] = None /\ lock' = [lock EXCEPT ![c] = i] /\ me' = [me EXCEPT ![i] = m]
      /\ UNCHANGED <<corpora, stored, index, tx>> /\ UNCHANGED fileVars
  BY DEF LocksIndex, LockIndex
<1>3. m \in Locals /\ m.pc = "advancing" /\ m.row = index[c] /\ m.content = c /\ m.rows = {}
      /\ m.at = me[i].at /\ m.upto = me[i].upto /\ m.failure = me[i].failure
  BY <1>1 DEF Locals, Points, IInv, ITypeOK, Content
<1>4. me'[i] = m /\ lock'[c] = i /\ \A d \in Contents \ {c} : lock'[d] = lock[d]
  BY <1>1, <1>2 DEF IInv, ITypeOK
<1>5. c' = c /\ Embedded(c)' = Embedded(c) /\ Pending(i)' = Pending(i)
  BY <1>2, <1>3, <1>4 DEF Content, Embedded, Pending
<1>6. \A j \in Ingestors \ {i} : At(j, "advancing") =>
         Content(j) \in Contents \ {c} /\ lock[Content(j)] = j
  BY <1>2, StoreAssumption DEF IInv, Sound, RowIsFresh, At, Knowing, Inserting
<1>7. Alone(i)
  <2>1. \A j \in Ingestors \ {i} : tx[j] \cap (stored' \cup tx'[i]) = {}
    BY <1>2 DEF IInv, Sound, RowsInOrder, Apart
  <2>2. tx' = [tx EXCEPT ![i] = tx'[i]] /\ me' = [me EXCEPT ![i] = me'[i]]
    BY <1>2, <1>4 DEF IInv, ITypeOK
  <2> QED
    BY <1>2, <1>4, <1>6, <2>1, <2>2 DEF Alone
<1>8. IndexSound'
  <2>1. ProgressExact'
    BY <1>2 DEF IInv, IndexSound, ProgressExact, Embedded
  <2>2. ASSUME NEW d \in Contents, NEW j \in Ingestors, lock'[d] = j
        PROVE  At(j, "advancing")' /\ Content(j)' = d
    <3>1. CASE d = c
      <4>1. j = i /\ me'[j].pc = "advancing" /\ me'[j].content = d
        BY <1>3, <1>4, <2>2, <3>1
      <4> QED
        BY <4>1 DEF At, Content
    <3>2. CASE d # c
      <4>1. At(j, "advancing") /\ Content(j) = d /\ j # i
        BY <1>1, <1>4, <2>2, <3>2 DEF IInv, IndexSound, At
      <4> QED
        BY <1>2, <4>1 DEF IInv, ITypeOK, At, Content
    <3> QED
      BY <3>1, <3>2
  <2> QED
    BY <1>2, <2>1, <2>2 DEF IInv, IndexSound
<1>9. Sound(i)'
  <2>1. RowsInOrder(i)'
    <3>1. tx[i] \cap stored = {} /\ \A row \in tx[i] : \E k \in Numbers :
             row = RowOf("embeddings", c, k)
      BY <1>1 DEF IInv, Sound, RowsInOrder, Table, Writing
    <3>2. me'[i].pc = "advancing" /\ me'[i].pc \in Inserting \ Writing /\ Content(i)' = c
      BY <1>3, <1>4, <1>5 DEF Inserting, Writing
    <3>3. \A row \in tx'[i] : \E k \in Numbers :
             row = RowOf(Table(i)', Content(i)', k) /\ Behind(i, k)'
      BY <1>2, <3>1, <3>2 DEF Table, Behind
    <3> QED
      BY <1>2, <3>1, <3>2, <3>3 DEF RowsInOrder
  <2>2. BatchesCover(i)'
    BY <1>1, <1>3, <1>4, <1>5 DEF IInv, Sound, BatchesCover
  <2>3. RowIsFresh(i)'
    BY <1>1, <1>2, <1>3, <1>4, <1>5 DEF RowIsFresh
  <2> QED
    BY <1>1, <1>3, <1>4, <2>1, <2>2, <2>3 DEF Sound, Content
<1>10. WorldTypeOK'
  BY <1>2, FilesType, WorldTypeStays DEF Frame
<1>11. lock' \in [Contents -> Ingestors \cup {None}]
  BY <1>2 DEF IInv, ITypeOK
<1> QED
  BY <1>2, <1>3, <1>4, <1>7, <1>8, <1>9, <1>10, <1>11, Assembled DEF IInv, ITypeOK

(* The counter an ingestion writes is the number of embeddings there are   *)
(* when it commits.                                                        *)
LEMMA AdvancedIsExact ==
  ASSUME IInv, NEW i \in Ingestors, me[i].pc = "advancing"
  PROVE  /\ Content(i) \in Contents
         /\ Embedded(Content(i)) \cup Pending(i) \subseteq Numbers
         /\ Cardinality(Embedded(Content(i)) \cup Pending(i)) = Advanced(i, me[i].row)
         /\ Advanced(i, me[i].row) \in 0..Documents
         /\ Advanced(i, me[i].row) = Documents <=> Embedded(Content(i)) \cup Pending(i) = Numbers
<1> DEFINE c == Content(i)
           E == Embedded(c)
           P == Pending(i)
<1>1. c \in Contents /\ me[i].row = index[c] /\ index[c].count = Cardinality(E)
  BY DEF IInv, Sound, Knowing, Inserting, RowIsFresh, IndexSound, ProgressExact
<1>2. E \subseteq Numbers /\ P \subseteq Numbers
  BY DEF Embedded, Pending
<1>3. E \cap P = {}
  <2>1. tx[i] \cap stored = {}
    BY DEF IInv, Sound, RowsInOrder
  <2> QED
    BY <2>1 DEF Embedded, Pending
<1>4. IsFiniteSet(E) /\ IsFiniteSet(P) /\ IsFiniteSet(E \cup P)
      /\ Cardinality(E) \in Nat /\ Cardinality(P) \in Nat /\ Cardinality(E \cup P) \in Nat
  BY <1>2, NumbersFinite, FS_Subset, FS_Union, FS_CardinalityType
<1>5. Cardinality(E \cup P) = Cardinality(E) + Cardinality(P)
  <2>1. Cardinality(E \cap P) = 0
    BY <1>3, FS_EmptySet
  <2> HIDE DEF E, P
  <2>2. Cardinality(E \cup P) = Cardinality(E) + Cardinality(P) - Cardinality(E \cap P)
    BY <1>4, FS_Union
  <2> QED
    BY <1>4, <2>1, <2>2
<1>6. Cardinality(P) = Cardinality(tx[i])
  <2> DEFINE f == [k \in P |-> RowOf("embeddings", c, k)]
  <2>1. \A row \in tx[i] : \E k \in Numbers : row = RowOf("embeddings", c, k)
    BY DEF IInv, Sound, RowsInOrder, Table, Writing
  <2>2. f \in [P -> tx[i]]
    BY DEF Pending
  <2>3. \A k, l \in P : f[k] = f[l] => k = l
    BY DEF RowOf
  <2>4. \A row \in tx[i] : \E k \in P : f[k] = row
    <3> SUFFICES ASSUME NEW row \in tx[i] PROVE \E k \in P : f[k] = row
      OBVIOUS
    <3>1. PICK k \in Numbers : row = RowOf("embeddings", c, k)
      BY <2>1
    <3>2. k \in P
      BY <3>1 DEF Pending
    <3> QED
      BY <3>1, <3>2
  <2>5. f \in Bijection(P, tx[i])
    <3> HIDE DEF f, P
    <3> QED
      BY <2>2, <2>3, <2>4 DEF Bijection, Injection, Surjection, IsInjective
  <2>6. ExistsBijection(P, tx[i])
    BY <2>5 DEF ExistsBijection
  <2> QED
    BY <1>4, <2>6, FS_Bijection
<1>7. Cardinality(E \cup P) <= Documents
      /\ (Cardinality(E \cup P) = Documents <=> E \cup P = Numbers)
  <2>1. E \cup P \in SUBSET Numbers
    BY <1>2
  <2> QED
    BY <2>1, NumbersFinite, FS_Subset
<1>8. Advanced(i, me[i].row) = Cardinality(E \cup P)
  BY <1>1, <1>5, <1>6 DEF Advanced
<1> HIDE DEF E, P
<1>9. Cardinality(E \cup P) \in 0..Documents
  BY <1>4, <1>7, StoreAssumption
<1> QED
  BY <1>1, <1>2, <1>7, <1>8, <1>9 DEF E, P

LEMMA AdvancesKeeps ==
  ASSUME IInv, NEW i \in Ingestors, Advances(i), Frame
  PROVE  IInv'
<1> DEFINE c == Content(i)
           n == Advanced(i, me[i].row)
           new == Progressed(index[c], n)
<1>1. me[i].pc = "advancing" /\ me[i] \in Locals /\ c \in Contents /\ me[i].row = index[c]
      /\ me[i].rows = {} /\ lock[c] = i /\ index[c].state # "absent"
  BY DEF Advances, At, IInv, ITypeOK, Sound, Knowing, Inserting, RowIsFresh, BatchesCover,
    Embedding
<1>2. /\ n \in 0..Documents /\ Cardinality(Embedded(c) \cup Pending(i)) = n
      /\ Embedded(c) \cup Pending(i) \subseteq Numbers
      /\ n = Documents <=> Embedded(c) \cup Pending(i) = Numbers
  BY <1>1, AdvancedIsExact
<1>3. CommitEmbeddings(i, c, me[i].row) /\ NextBatch(i) /\ UNCHANGED fileVars
  BY <1>2, StoreAssumption DEF Advances
<1>4. /\ index' = [index EXCEPT ![c] = new]
      /\ stored' = stored \cup tx[i]
      /\ tx' = [tx EXCEPT ![i] = {}]
      /\ lock' = [lock EXCEPT ![c] = None]
      /\ corpora' = corpora
  BY <1>1, <1>3 DEF CommitEmbeddings
<1> HIDE DEF n
<1>5. new \in IndexRows /\ new.state # "absent" /\ new.count = n
      /\ (new.state = "ready" <=> n = Documents \/ index[c].state = "ready")
  BY <1>1, <1>2 DEF Progressed, IndexRows, IInv, ITypeOK
<1> HIDE DEF new
<1>6. /\ index'[c] = new /\ index' \in [Contents -> IndexRows]
      /\ \A d \in Contents \ {c} : index'[d] = index[d]
      /\ tx'[i] = {} /\ tx[i] \subseteq Rows
      /\ lock'[c] = None /\ lock' \in [Contents -> Ingestors \cup {None}]
      /\ \A d \in Contents \ {c} : lock'[d] = lock[d]
  BY <1>1, <1>4, <1>5 DEF IInv, ITypeOK
<1>7. \A row \in tx[i] : \E k \in Numbers : row = RowOf("embeddings", c, k)
  BY <1>1 DEF IInv, Sound, RowsInOrder, Table, Writing
<1>8. Embedded(c)' = Embedded(c) \cup Pending(i)
  <2>1. c' = c
    BY <1>3, NextBatchKnows
  <2> QED
    BY <1>4, <2>1 DEF Embedded, Pending
<1>9. \A d \in Contents \ {c} : Embedded(d)' = Embedded(d)
  <2>1. \A d \in Contents \ {c}, k \in Numbers : RowOf("embeddings", d, k) \notin tx[i]
    BY <1>7 DEF RowOf
  <2> QED
    BY <1>4, <2>1 DEF Embedded
<1>10. /\ me' = [me EXCEPT ![i] = me'[i]] /\ me'[i] \in Locals /\ Sound(i)'
  <2>1. 1..me[i].upto \subseteq 1..(me[i].at - 1) \cup me[i].at..me[i].upto
    BY <1>1, StoreAssumption DEF Locals
  <2>2. 1..(me[i].at - 1) \cup me[i].at..me[i].upto \subseteq Embedded(c) \cup Pending(i)
    BY <1>1 DEF IInv, Sound, BatchesCover
  <2>3. 1..me[i].upto \subseteq Embedded(c)'
    BY <1>8, <2>1, <2>2
  <2>4. index'[c].state # "absent" /\ tx'[i] = {}
    BY <1>5, <1>6
  <2> QED
    BY <1>1, <1>3, <2>3, <2>4, NextBatchSound
<1>11. \A j \in Ingestors \ {i} : At(j, "advancing") =>
          Content(j) \in Contents \ {c} /\ lock[Content(j)] = j
  BY <1>1 DEF IInv, Sound, RowIsFresh, At, Knowing, Inserting
<1>12. Alone(i)
  <2>1. \A j \in Ingestors \ {i} : tx[j] \cap (stored' \cup tx'[i]) = {}
    BY <1>4, <1>6 DEF IInv, Sound, RowsInOrder, Apart
  <2>2. tx' = [tx EXCEPT ![i] = tx'[i]]
    BY <1>4, <1>6
  <2>3. \A d \in Contents : index[d].state # "absent" => index'[d].state # "absent"
    BY <1>5, <1>6
  <2> QED
    BY <1>4, <1>6, <1>10, <1>11, <2>1, <2>2, <2>3 DEF Alone
<1>13. IndexSound'
  <2>1. ASSUME NEW d \in Contents
        PROVE  /\ index'[d].count = Cardinality(Embedded(d)')
               /\ index'[d].state = "ready" <=> Embedded(d)' = Numbers
    <3>1. CASE d # c
      BY <1>6, <1>9, <3>1 DEF IInv, IndexSound, ProgressExact
    <3>2. CASE d = c
      <4>1. Embedded(d)' = Embedded(c) \cup Pending(i)
        BY <1>4, <3>2 DEF Embedded, Pending
      <4>2. index[c].state = "ready" => Embedded(c) = Numbers
        BY <1>1 DEF IInv, IndexSound, ProgressExact
      <4> QED
        BY <1>2, <1>5, <1>6, <3>2, <4>1, <4>2
    <3> QED
      BY <3>1, <3>2
  <2>2. ProgressExact'
    BY <2>1 DEF ProgressExact
  <2>3. ASSUME NEW d \in Contents, NEW j \in Ingestors, lock'[d] = j
        PROVE  At(j, "advancing")' /\ Content(j)' = d
    <3>1. d # c
      BY <1>6, <2>3, StoreAssumption
    <3>2. At(j, "advancing") /\ Content(j) = d /\ j # i
      BY <1>6, <2>3, <3>1 DEF IInv, IndexSound
    <3> QED
      BY <1>10, <3>2 DEF IInv, ITypeOK, At, Content
  <2>4. \A d \in Contents : index'[d].state = "absent" => index'[d] = NoIndex
    BY <1>5, <1>6 DEF IInv, IndexSound
  <2> QED
    BY <2>2, <2>3, <2>4 DEF IndexSound
<1>14. WorldTypeOK'
  BY <1>3, FilesType, WorldTypeStays DEF Frame
<1>15. corpora' \subseteq Contents /\ stored' \subseteq Rows
  BY <1>4, <1>6 DEF IInv, ITypeOK
<1> QED
  BY <1>6, <1>10, <1>12, <1>13, <1>14, <1>15, Assembled

(* At the recount every document has its embedding, and the UPDATE of     *)
(* refresh_progress changes nothing.                                       *)
LEMMA RefreshFacts ==
  ASSUME IInv, NEW i \in Ingestors, Refreshes(i)
  PROVE  /\ me[i].pc \in {"refresh", "recount", "refreshing"} /\ me[i] \in Locals
         /\ Content(i) \in Contents /\ me[i].failure # "progress" /\ tx[i] = {}
         /\ Embedded(Content(i)) = Numbers
         /\ index[Content(i)] = Whole /\ Whole \in IndexRows
         /\ Cardinality(Embedded(Content(i))) = Documents
         /\ me[i].pc \in {"recount", "refreshing"} => me[i].row = Whole
         /\ me[i].pc = "refreshing" => me[i].count = Documents
         /\ ~(me[i].pc = "refreshing" /\ RefreshRefused(me[i].row, me[i].count))
         /\ UNCHANGED <<corpora, stored, index, tx, lock, disk, bucket>>
<1> DEFINE c == Content(i)
<1>1. me[i].pc \in {"refresh", "recount", "refreshing"} /\ me[i] \in Locals /\ c \in Contents
      /\ me[i].failure # "progress" /\ tx[i] = {} /\ Embedded(c) = Numbers
  <2>1. me[i].pc \in {"refresh", "recount", "refreshing"}
    BY DEF Refreshes, At, Fails
  <2> QED
    BY <2>1 DEF IInv, ITypeOK, Sound, Knowing, Embedding, Inserting, Writing, RowsInOrder,
      BatchesCover
<1>2. index[c] = Whole /\ Whole \in IndexRows /\ Cardinality(Embedded(c)) = Documents
  <2>1. index[c] \in IndexRows /\ index[c].count = Documents /\ index[c].state = "ready"
    BY <1>1, NumbersFinite DEF IInv, ITypeOK, IndexSound, ProgressExact
  <2> QED
    BY <1>1, <2>1, NumbersFinite, StoreAssumption DEF Whole, IndexRows
<1>3. /\ me[i].pc \in {"recount", "refreshing"} => me[i].row = Whole
      /\ me[i].pc = "refreshing" => me[i].count = Documents
  BY DEF IInv, Sound, RowIsFresh
<1>4. ~(me[i].pc = "refreshing" /\ RefreshRefused(me[i].row, me[i].count))
  BY <1>3, StoreAssumption DEF RefreshRefused, Whole
<1>5. ASSUME me[i].pc = "refreshing", CommitRefresh(c, me[i].row, me[i].count)
      PROVE  UNCHANGED <<corpora, stored, index, tx, lock>>
  <2>1. index[c].state = "ready" /\ index[c].count = Documents
    BY <1>2 DEF Whole
  <2>2. me[i].row.state = "ready" /\ me[i].row.count = Documents /\ me[i].count = Documents
    BY <1>3, <1>5 DEF Whole
  <2>3. index' = [index EXCEPT ![c] = [state |-> "ready", count |-> Documents]]
    BY <1>5, <2>1, <2>2 DEF CommitRefresh, Progressed
  <2>4. index' = [index EXCEPT ![c] = index[c]]
    BY <1>2, <2>3 DEF Whole
  <2>5. index' = index
    <3>1. index \in [Contents -> IndexRows]
      BY DEF IInv, ITypeOK
    <3> QED
      BY <1>1, <2>4, <3>1
  <2> QED
    BY <1>5, <2>5 DEF CommitRefresh
<1>6. UNCHANGED <<corpora, stored, index, tx, lock, disk, bucket>>
  BY <1>4, <1>5 DEF Refreshes, At, storeVars, fileVars
<1> QED
  BY <1>1, <1>2, <1>3, <1>4, <1>6

LEMMA RefreshesKeeps ==
  ASSUME IInv, NEW i \in Ingestors, Refreshes(i), Frame
  PROVE  IInv'
<1> DEFINE c == Content(i)
<1>1. me[i].pc \in {"refresh", "recount", "refreshing"} /\ me[i] \in Locals /\ c \in Contents
      /\ me[i].failure # "progress" /\ tx[i] = {} /\ Embedded(c) = Numbers
      /\ UNCHANGED <<corpora, stored, index, tx, lock, disk, bucket>>
  BY RefreshFacts
<1>2. index[c] = Whole /\ Whole \in IndexRows /\ Cardinality(Embedded(c)) = Documents
      /\ (me[i].pc \in {"recount", "refreshing"} => me[i].row = Whole)
      /\ ~(me[i].pc = "refreshing" /\ RefreshRefused(me[i].row, me[i].count))
  BY RefreshFacts
<1>3. WorldTypeOK'
  BY <1>1, WorldTypeStays DEF Frame, IInv, ITypeOK
<1>4. ASSUME NEW m \in Locals, me' = [me EXCEPT ![i] = m],
             m.content = c, m.failure = me[i].failure, m.row = Whole,
             \/ m.pc = "recount"
             \/ m.pc = "refreshing" /\ m.count = Documents
      PROVE  IInv'
  <2>1. me'[i] = m
    BY <1>4 DEF IInv, ITypeOK
  <2>2. Content(i)' = c /\ Embedded(c)' = Numbers
    BY <1>1, <1>4, <2>1 DEF Content, Embedded
  <2>3. Sound(i)'
    BY <1>1, <1>2, <1>4, <2>1, <2>2
    DEF Sound, RowsInOrder, BatchesCover, RowIsFresh, Inserting, Writing, Whole
  <2> QED
    BY <1>1, <1>3, <1>4, <2>1, <2>3, QuietStep DEF IInv, ITypeOK, At
<1>5. CASE /\ me[i].pc = "refresh"
           /\ me' = [me EXCEPT ![i].pc = "recount", ![i].row = index[c]]
  <2> DEFINE m == [me[i] EXCEPT !.pc = "recount", !.row = index[c]]
  <2>1. m \in Locals /\ m.pc = "recount" /\ m.row = Whole /\ m.content = c
        /\ m.failure = me[i].failure
    BY <1>1, <1>2, ZenonT(40) DEF Locals, Points, Content
  <2> QED
    BY <1>4, <1>5, <2>1
<1>6. CASE /\ me[i].pc = "recount"
           /\ me' = [me EXCEPT ![i].pc = "refreshing", ![i].count = Cardinality(Embedded(c))]
  <2> DEFINE m == [me[i] EXCEPT !.pc = "refreshing", !.count = Cardinality(Embedded(c))]
  <2>1. m \in Locals /\ m.pc = "refreshing" /\ m.row = Whole /\ m.content = c
        /\ m.failure = me[i].failure /\ m.count = Documents
    <3>1. Cardinality(Embedded(c)) = Documents /\ Documents \in 0..Documents
      BY <1>2, StoreAssumption
    <3>2. me[i].row = Whole
      BY <1>2, <1>6
    <3> QED
      BY <1>1, <3>1, <3>2, ZenonT(40) DEF Locals, Points, Content
  <2> QED
    BY <1>4, <1>6, <2>1
<1>7. CASE me' = [me EXCEPT ![i] = [Idle("none") EXCEPT
                !.pc = "publish", !.todo = IF cloud THEN Present(disk[i]) ELSE {}]]
  <2> DEFINE m == [Idle("none") EXCEPT
                     !.pc = "publish", !.todo = IF cloud THEN Present(disk[i]) ELSE {}]
  <2>1. m \in Locals /\ m.pc = "publish" /\ m.failure = "none"
    <3>1. Idle("none") \in Locals /\ Idle("none").failure = "none"
      BY IdleType DEF Idle, Failures
    <3>2. (IF cloud THEN Present(disk[i]) ELSE {}) \subseteq Files
      BY DEF Present
    <3> QED
      BY <3>1, <3>2 DEF Locals, Points
  <2> QED
    BY <1>1, <1>3, <1>7, <2>1, PlainStep
    DEF IInv, ITypeOK, Knowing, Inserting, Embedding, Writing
<1> QED
  BY <1>2, <1>5, <1>6, <1>7 DEF Refreshes, At

LEMMA DiesKeeps ==
  ASSUME IInv, NEW i \in Ingestors, Dies(i), UNCHANGED worldVars
  PROVE  IInv'
<1>1. /\ tx' = [tx EXCEPT ![i] = {}]
      /\ lock' = [c \in Contents |-> IF lock[c] = i THEN None ELSE lock[c]]
      /\ UNCHANGED <<corpora, stored, index, disk, bucket, published, cloud, remote, source>>
      /\ me' = [me EXCEPT ![i] = Idle("none")]
      /\ crashes < MaxCrashes /\ crashes' = crashes + 1
      /\ spoilt' \subseteq Ingestors
  BY DEF Dies, Rollback, fileVars, worldVars, Unpacking, IInv, ITypeOK
<1>2. /\ Idle("none") \in Locals /\ me'[i] = Idle("none") /\ tx'[i] = {}
      /\ lock' \in [Contents -> Ingestors \cup {None}]
  BY <1>1, IdleType DEF IInv, ITypeOK, Failures
<1>3. Sound(i)'
  <2>1. me'[i].pc = "down" /\ me'[i].failure = "none"
    BY <1>2 DEF Idle
  <2> QED
    BY <1>2, <2>1, PlainIsSound DEF Knowing, Inserting, Embedding, Writing
<1>4. WorldTypeOK'
  <2>1. crashes' \in 0..MaxCrashes
    BY <1>1, IngestionAssumption DEF IInv, ITypeOK
  <2> QED
    BY <1>1, <2>1 DEF IInv, ITypeOK, WorldTypeOK
<1>5. Alone(i)
  <2>1. \A j \in Ingestors \ {i} : tx[j] \cap (stored' \cup tx'[i]) = {}
    BY <1>1, <1>2 DEF IInv, Sound, RowsInOrder
  <2>2. \A j \in Ingestors \ {i} : At(j, "advancing") => lock'[Content(j)] = j
    BY <1>1 DEF IInv, Sound, RowIsFresh, At, Knowing, Inserting
  <2>3. tx' = [tx EXCEPT ![i] = tx'[i]] /\ me' = [me EXCEPT ![i] = me'[i]]
    BY <1>1, <1>2
  <2> QED
    BY <1>1, <2>1, <2>2, <2>3 DEF Alone
<1>6. IndexSound'
  <2>1. ProgressExact'
    BY <1>1 DEF IInv, IndexSound, ProgressExact, Embedded
  <2>2. ASSUME NEW c \in Contents, NEW j \in Ingestors, lock'[c] = j
        PROVE  At(j, "advancing")' /\ Content(j)' = c
    <3>1. lock[c] = j /\ j # i
      BY <1>1, <2>2, StoreAssumption
    <3>2. At(j, "advancing") /\ Content(j) = c
      BY <3>1 DEF IInv, IndexSound
    <3> QED
      BY <1>1, <3>1, <3>2 DEF IInv, ITypeOK, At, Content
  <2> QED
    BY <1>1, <2>1, <2>2 DEF IInv, IndexSound
<1> QED
  BY <1>1, <1>2, <1>3, <1>4, <1>5, <1>6, Assembled DEF IInv, ITypeOK

-----------------------------------------------------------------------------
LEMMA IInitInv == IInit => IInv
<1> SUFFICES ASSUME IInit PROVE IInv
  OBVIOUS
<1> USE DEF IInit, Init, FInit
<1>1. \A i \in Ingestors : me[i] = Idle("none") /\ me[i].pc = "down" /\ me[i].failure = "none"
  BY DEF Idle
<1>2. ITypeOK
  <2>1. me \in [Ingestors -> Locals]
    BY IdleType DEF Failures
  <2>2. index \in [Contents -> IndexRows]
    BY StoreAssumption DEF NoIndex, IndexRows
  <2>3. crashes \in 0..MaxCrashes
    BY IngestionAssumption
  <2> QED
    BY <2>1, <2>2, <2>3, NothingType DEF ITypeOK
<1>3. \A i \in Ingestors : Sound(i)
  BY <1>1 DEF Sound, RowsInOrder, BatchesCover, RowIsFresh, Knowing, Inserting, Embedding, Writing
<1>4. IndexSound
  <2>1. \A c \in Contents : Embedded(c) = {}
    BY DEF Embedded
  <2>2. 1 \in Numbers
    BY StoreAssumption DEF Numbers
  <2>3. ProgressExact
    BY <2>1, <2>2, FS_EmptySet DEF ProgressExact, NoIndex
  <2>4. \A c \in Contents : index[c] = NoIndex /\ lock[c] \notin Ingestors
    BY StoreAssumption
  <2> QED
    BY <2>3, <2>4 DEF IndexSound
<1> QED
  BY <1>2, <1>3, <1>4 DEF IInv, Apart

LEMMA INextInv == IInv /\ [INext]_vars => IInv'
<1> SUFFICES ASSUME IInv, [INext]_vars PROVE IInv'
  OBVIOUS
<1>1. CASE Edits
  BY <1>1, EditsKeeps
<1>2. ASSUME NEW i \in Ingestors, Dies(i), UNCHANGED worldVars PROVE IInv'
  BY <1>2, DiesKeeps
<1>3. ASSUME NEW i \in Ingestors, Exits(i), UNCHANGED worldVars PROVE IInv'
  BY <1>3, ExitsKeeps
<1>4. ASSUME NEW i \in Ingestors, Step(i), ~Exits(i), UNCHANGED worldVars PROVE IInv'
  <2>1. Frame
    BY <1>4 DEF Step, Extracts, Frame, IInv, ITypeOK
  <2>2. CASE Starts(i)
    BY <2>1, <2>2, StartsKeeps
  <2>3. CASE \/ \E n \in {DatasetFiles, Parts} : Lists(i, n)
             \/ \E f \in me[i].todo : Fetches(i, f)
             \/ Hydrated(i)
    BY <2>1, <2>3, HydrateKeeps
  <2>4. CASE ChecksMarker(i) \/ Extracts(i)
    BY <2>1, <2>4, UnpackKeeps
  <2>5. CASE Reads(i)
    BY <2>1, <2>5, ReadsKeeps
  <2>6. CASE Registers(i)
    BY <2>1, <2>6, RegistersKeeps
  <2>7. CASE WritesRow(i)
    BY <2>1, <2>7, WritesRowKeeps
  <2>8. CASE CommitsBatch(i)
    BY <2>1, <2>8, CommitsBatchKeeps
  <2>9. CASE Validates(i) \/ Builds(i)
    BY <2>1, <2>9, ChecksKeep
  <2>10. CASE FindsIndex(i)
    BY <2>1, <2>10, FindsIndexKeeps
  <2>11. CASE ReadsMissing(i)
    BY <2>1, <2>11, ReadsMissingKeeps
  <2>12. CASE EmbedsRow(i)
    BY <2>1, <2>12, EmbedsRowKeeps
  <2>13. CASE LocksIndex(i)
    BY <2>1, <2>13, LocksIndexKeeps
  <2>14. CASE Advances(i)
    BY <2>1, <2>14, AdvancesKeeps
  <2>15. CASE Refreshes(i)
    BY <2>1, <2>15, RefreshesKeeps
  <2>16. CASE \E f \in me[i].todo : Publishes(i, f)
    BY <2>1, <2>16, PublishesKeep
  <2> QED
    BY <1>4, <2>2, <2>3, <2>4, <2>5, <2>6, <2>7, <2>8, <2>9, <2>10, <2>11, <2>12, <2>13,
      <2>14, <2>15, <2>16 DEF Step
<1>5. CASE UNCHANGED vars
  <2>1. UNCHANGED <<corpora, stored, index, tx, lock, me, spoilt, crashes, published, disk, bucket,
                    cloud, remote, source>>
    BY <1>5 DEF vars, storeVars, processVars, fileVars, worldVars
  <2>2. ITypeOK'
    BY <2>1 DEF IInv, ITypeOK
  <2>3. IndexSound' /\ Apart'
    BY <2>1 DEF IInv, IndexSound, ProgressExact, Embedded, At, Content, Apart
  <2>4. \A i \in Ingestors : Sound(i)'
    BY <2>1 DEF IInv, Sound, RowsInOrder, BatchesCover, RowIsFresh, Behind, Table, Content,
      Pending, Embedded
  <2> QED
    BY <2>2, <2>3, <2>4 DEF IInv
<1> QED
  BY <1>1, <1>2, <1>3, <1>4, <1>5 DEF INext

LEMMA IngestionInvariant == ISpec => []IInv
BY IInitInv, INextInv, PTL DEF ISpec

(* Rows, locks, files and the locals of every process keep their types,    *)
(* however ingestions overlap.                                             *)
THEOREM IngestionTypeCorrect == ISpec => []ITypeOK
<1>1. IInv => ITypeOK
  BY DEF IInv
<1> QED
  BY <1>1, IngestionInvariant, PTL

(* The counter of an index row is the number of the embeddings that are    *)
(* committed, and the row says READY exactly when no document lacks one,   *)
(* whatever ingestions overlap and wherever they die (advance_progress and *)
(* refresh_progress of persistence/embeddings.py).                         *)
THEOREM CounterStaysExact == ISpec => []ProgressExact
<1>1. IInv => ProgressExact
  BY DEF IInv, IndexSound
<1> QED
  BY <1>1, IngestionInvariant, PTL

(* No ingestion ever fails for a count that exceeds the corpus or falls    *)
(* below it at a READY index: the ValueErrors of advance_progress and      *)
(* refresh_progress are unreachable.                                       *)
THEOREM ProgressIsNeverRefused ==
  ISpec => [](\A i \in Ingestors : me[i].failure # "progress")
<1>1. IInv => \A i \in Ingestors : me[i].failure # "progress"
  BY DEF IInv, Sound
<1> QED
  BY <1>1, IngestionInvariant, PTL

-----------------------------------------------------------------------------
(* Waiting.  The level of a process is the number of the row it wants, or  *)
(* more than any number if it wants none: whoever waits for a row waits    *)
(* for a process of a higher level, and the holder of an index row waits   *)
(* for nobody.                                                             *)
Level(i) ==
  IF me[i].pc \in Writing /\ me[i].at <= me[i].upto THEN me[i].at
  ELSE IF At(i, "embeddings") /\ me[i].rows # {} THEN NextRow(i)
  ELSE Documents + 1

LEMMA LevelType ==
  ASSUME IInv, NEW i \in Ingestors
  PROVE  /\ Level(i) \in 1..(Documents + 1)
         /\ Wanted(i) # {} => Wanted(i) = {RowOf(Table(i), Content(i), Level(i))}
                              /\ Level(i) \in Numbers
<1>1. me[i] \in Locals /\ Documents \in Nat
  BY StoreAssumption DEF IInv, ITypeOK
<1>2. CASE me[i].pc \in Writing /\ me[i].at <= me[i].upto
  <2>1. me[i].at \in Numbers
    BY <1>1, <1>2 DEF Locals, Numbers
  <2> QED
    BY <1>1, <1>2, <2>1 DEF Level, Wanted, Table, Numbers
<1>3. CASE ~(me[i].pc \in Writing /\ me[i].at <= me[i].upto)
           /\ At(i, "embeddings") /\ me[i].rows # {}
  <2>1. NextRow(i) \in Numbers
    BY <1>1, <1>3, NextRowIsLeast
  <2>2. me[i].pc \notin Writing
    BY <1>3 DEF At, Writing
  <2> QED
    BY <1>1, <1>3, <2>1, <2>2 DEF Level, Wanted, Table, Numbers
<1>4. CASE /\ ~(me[i].pc \in Writing /\ me[i].at <= me[i].upto)
           /\ ~(At(i, "embeddings") /\ me[i].rows # {})
  BY <1>1, <1>4 DEF Level, Wanted
<1> QED
  BY <1>2, <1>3, <1>4

LEMMA WaitingAscends ==
  ASSUME IInv, NEW i \in Ingestors, NEW j \in Ingestors, tx[j] \cap Wanted(i) # {}
  PROVE  Level(i) < Level(j)
<1>1. Level(i) \in Numbers /\ RowOf(Table(i), Content(i), Level(i)) \in tx[j]
  BY LevelType
<1>2. PICK k \in Numbers :
         RowOf(Table(i), Content(i), Level(i)) = RowOf(Table(j), Content(j), k) /\ Behind(j, k)
  BY <1>1 DEF IInv, Sound, RowsInOrder
<1>3. k = Level(i)
  BY <1>2 DEF RowOf
<1>4. me[j] \in Locals /\ k < Documents + 1
  BY StoreAssumption DEF IInv, ITypeOK, Numbers
<1>5. k < Level(j)
  <2>1. CASE me[j].pc \in Writing /\ me[j].at <= me[j].upto
    BY <1>2, <2>1 DEF Level, Behind
  <2>2. CASE ~(me[j].pc \in Writing /\ me[j].at <= me[j].upto)
             /\ At(j, "embeddings") /\ me[j].rows # {}
    BY <1>2, <1>4, <2>2, NextRowIsLeast DEF Level, Behind, At
  <2>3. CASE /\ ~(me[j].pc \in Writing /\ me[j].at <= me[j].upto)
             /\ ~(At(j, "embeddings") /\ me[j].rows # {})
    BY <1>4, <2>3 DEF Level
  <2> QED
    BY <2>1, <2>2, <2>3
<1> QED
  BY <1>3, <1>5

LEMMA LockHolderWaitsForNobody ==
  ASSUME IInv, NEW j \in Ingestors, At(j, "advancing")
  PROVE  WaitsFor(j) = {}
BY DEF WaitsFor, Wanted, At, Writing

(* Ingestions never wait for each other in a circle, whatever their batch  *)
(* sizes: each inserts the rows of its transaction in ascending order, and *)
(* locks the index row last (repository.py, embedding_order).              *)
THEOREM IngestionsNeverDeadlock == ISpec => []NoWaitCycle
<1>1. ASSUME IInv PROVE NoWaitCycle
  <2> SUFFICES ASSUME NEW S \in SUBSET Ingestors, S # {}
               PROVE  \E i \in S : WaitsFor(i) \cap S = {}
    BY DEF NoWaitCycle
  <2>1. CASE \E j \in S : At(j, "advancing")
    BY <1>1, <2>1, LockHolderWaitsForNobody
  <2>2. CASE \A j \in S : ~At(j, "advancing")
    <3> DEFINE below == {Documents + 1 - Level(j) : j \in S}
    <3>1. \A j \in S : Level(j) \in 1..(Documents + 1)
      BY <1>1, LevelType
    <3>2. below \in SUBSET Nat /\ below # {}
      BY <3>1, StoreAssumption
    <3>3. PICK k \in below : \A l \in below : k <= l
      <4> HIDE DEF below
      <4> QED
        BY <3>2, LeastElement
    <3>4. PICK i \in S : k = Documents + 1 - Level(i)
      BY <3>3
    <3>5. \A j \in S : Level(j) <= Level(i)
      <4> SUFFICES ASSUME NEW j \in S PROVE Level(j) <= Level(i)
        OBVIOUS
      <4>1. Documents + 1 - Level(i) <= Documents + 1 - Level(j)
        BY <3>3, <3>4
      <4> QED
        BY <3>1, <4>1, StoreAssumption
    <3>6. ASSUME NEW j \in WaitsFor(i) \cap S PROVE FALSE
      <4>1. CASE tx[j] \cap Wanted(i) # {}
        <5>1. Level(i) < Level(j)
          BY <1>1, <4>1, WaitingAscends
        <5> QED
          BY <3>1, <3>5, <5>1
      <4>2. CASE /\ At(i, "refreshing") \/ At(i, "embeddings")
                 /\ lock[Content(i)] = j
        <5>1. Content(i) \in Contents
          BY <1>1, <4>2 DEF IInv, Sound, Knowing, Embedding, Inserting, At
        <5> QED
          BY <1>1, <2>2, <4>2, <5>1 DEF IInv, IndexSound
      <4> QED
        BY <4>1, <4>2 DEF WaitsFor
    <3> QED
      BY <3>6
  <2> QED
    BY <2>1, <2>2
<1> QED
  BY <1>1, IngestionInvariant, PTL

-----------------------------------------------------------------------------
(* What ingestion does to the index, seen from outside. *)
LEMMA IndexStutters ==
  ASSUME IInv, UNCHANGED <<index, stored>>
  PROVE  UNCHANGED (Contract!indexVars)
BY DEF Contract!indexVars, Embedded

LEMMA AdvancesKeepsContract ==
  ASSUME IInv, NEW i \in Ingestors, Advances(i)
  PROVE  [Contract!Next]_(Contract!indexVars)
<1> DEFINE n == Advanced(i, me[i].row)
<1>0. PICK c \in Contents, D \in SUBSET Numbers : c = Content(i) /\ D = Pending(i)
  BY DEF Advances, At, IInv, Sound, Knowing, Inserting, Pending
<1>1. me[i].pc = "advancing" /\ me[i].row = index[c]
      /\ index[c].state # "absent"
  BY <1>0 DEF Advances, At, IInv, Sound, Knowing, Inserting, RowIsFresh, Embedding
<1>2. /\ n \in 0..Documents /\ Embedded(c) \cup D \subseteq Numbers
      /\ n = Documents <=> Embedded(c) \cup D = Numbers
  BY <1>0, <1>1, AdvancedIsExact
<1>3. CommitEmbeddings(i, c, me[i].row)
  BY <1>0, <1>2, StoreAssumption DEF Advances
<1>4. index' = [index EXCEPT ![c] = Progressed(index[c], n)] /\ stored' = stored \cup tx[i]
  BY <1>1, <1>3 DEF CommitEmbeddings
<1>5. \A row \in tx[i] : \E k \in Numbers : row = RowOf("embeddings", c, k)
  BY <1>0, <1>1 DEF IInv, Sound, RowsInOrder, Table, Writing
<1>6. tx[i] \cap stored = {} /\ index \in [Contents -> IndexRows]
  BY DEF IInv, ITypeOK, Sound, RowsInOrder
<1>7. \A d \in Contents : {k \in Numbers : RowOf("embeddings", d, k) \in stored'} =
         IF d = c THEN Embedded(c) \cup D ELSE Embedded(d)
  BY <1>0, <1>4, <1>5 DEF Embedded, Pending, RowOf
<1>8. Embedded(c) \cap D = {}
  BY <1>0, <1>6 DEF Embedded, Pending
<1>9. CASE D = {}
  <2>1. tx[i] = {}
    BY <1>0, <1>5, <1>9 DEF Pending
  <2>2. n = index[c].count
    <3>1. index[c].count \in Nat
      BY <1>1, <1>6, StoreAssumption DEF IndexRows
    <3> QED
      BY <1>1, <2>1, <3>1, FS_EmptySet DEF Advanced
  <2>3. n = Documents => index[c].state = "ready"
    BY <1>1, <1>2, <1>9 DEF IInv, IndexSound, ProgressExact
  <2>4. Progressed(index[c], n) = index[c]
    BY <1>1, <1>6, <2>2, <2>3 DEF Progressed, IndexRows
  <2>5. index' = index /\ stored' = stored
    BY <1>4, <1>6, <2>1, <2>4
  <2> QED
    BY <2>5, IndexStutters
<1>10. CASE D # {}
  <2>1. Embedded(c) # Numbers
    BY <1>2, <1>8, <1>10
  <2>2. index[c].state = "building"
    BY <1>1, <1>6, <2>1 DEF IInv, IndexSound, ProgressExact, IndexRows
  <2>3. \A d \in Contents : index'[d].state =
          IF d = c THEN IF n = Documents THEN "ready" ELSE "building" ELSE index[d].state
    BY <1>1, <1>4, <1>6, <2>2 DEF Progressed
  <2>4. D \in (SUBSET Numbers) \ {{}}
    BY <1>0, <1>10
  <2> DEFINE phase == [d \in Contents |-> index[d].state]
             embedded == [d \in Contents |-> Embedded(d)]
             after == [d \in Contents |->
                         {k \in Numbers : RowOf("embeddings", d, k) \in stored'}]
  <2>5. embedded' = after
    BY DEF Embedded
  <2>6. after = [embedded EXCEPT ![c] = @ \cup D]
    BY <1>0, <1>7
  <2>7. phase' = [phase EXCEPT ![c] = IF n = Documents THEN "ready" ELSE "building"]
    <3> HIDE DEF n
    <3> QED
      BY <1>1, <2>3
  <2>8. phase[c] = "building" /\ embedded[c] = Embedded(c)
    BY <1>1, <2>2
  <2>9. embedded'[c] = Embedded(c) \cup D
    BY <1>0, <1>7, <2>5
  <2>10. Contract!Embed(c, D)
    <3> HIDE DEF n
    <3> QED
      BY <1>2, <1>8, <2>5, <2>6, <2>7, <2>8, <2>9 DEF Contract!Embed
  <2> QED
    BY <2>4, <2>10 DEF Contract!Next
<1> QED
  BY <1>9, <1>10

LEMMA FindsIndexKeepsContract ==
  ASSUME IInv, NEW i \in Ingestors, FindsIndex(i)
  PROVE  [Contract!Next]_(Contract!indexVars)
<1>1. CASE UNCHANGED storeVars
  BY <1>1, IndexStutters DEF storeVars
<1>2. CASE index[Content(i)] = NoIndex /\ CreateIndex(Content(i)) /\ At(i, "create")
  <2>0. PICK c \in Contents : c = Content(i)
    BY <1>2 DEF IInv, Sound, Knowing, At
  <2>1. c \in Contents /\ index \in [Contents -> IndexRows]
    BY DEF IInv, ITypeOK
  <2>2. /\ stored' = stored /\ index[c].state = "absent"
        /\ index' = [index EXCEPT ![c] = [state |-> "building", count |-> 0]]
    BY <1>2, <2>0 DEF CreateIndex, NoIndex
  <2>3. [d \in Contents |-> index'[d].state] =
          [[d \in Contents |-> index[d].state] EXCEPT ![c] = "building"]
    BY <2>1, <2>2
  <2>4. [d \in Contents |-> Embedded(d)]' = [d \in Contents |-> Embedded(d)]
    BY <2>2 DEF Embedded
  <2>5. Contract!Announce(c)
    BY <2>1, <2>2, <2>3, <2>4 DEF Contract!Announce
  <2> QED
    BY <2>1, <2>5 DEF Contract!Next
<1> QED
  BY <1>1, <1>2 DEF FindsIndex, Fails

LEMMA IngestionStepKeepsContract ==
  ASSUME IInv, [INext]_vars
  PROVE  [Contract!Next]_(Contract!indexVars)
<1>1. CASE Edits \/ UNCHANGED vars
  BY <1>1, IndexStutters DEF Edits, vars, storeVars
<1>2. ASSUME NEW i \in Ingestors, Advances(i) PROVE [Contract!Next]_(Contract!indexVars)
  BY <1>2, AdvancesKeepsContract
<1>3. ASSUME NEW i \in Ingestors, FindsIndex(i) PROVE [Contract!Next]_(Contract!indexVars)
  BY <1>3, FindsIndexKeepsContract
<1>4. ASSUME NEW i \in Ingestors, CommitsBatch(i) PROVE [Contract!Next]_(Contract!indexVars)
  <2>1. index' = index /\ \A c \in Contents : Embedded(c)' = Embedded(c)
    BY <1>4, CommitsNoEmbeddings DEF CommitsBatch, CommitRows
  <2> QED
    BY <2>1 DEF Contract!indexVars
<1>5. ASSUME NEW i \in Ingestors, Refreshes(i) PROVE [Contract!Next]_(Contract!indexVars)
  <2>1. UNCHANGED <<index, stored>>
    BY <1>5, RefreshFacts
  <2> QED
    BY <2>1, IndexStutters
<1>6. ASSUME NEW i \in Ingestors, Dies(i) \/ Exits(i) \/ Step(i),
             ~Advances(i), ~FindsIndex(i), ~CommitsBatch(i), ~Refreshes(i)
      PROVE  [Contract!Next]_(Contract!indexVars)
  <2>1. UNCHANGED <<index, stored>>
    <3>1. CASE Dies(i) \/ Exits(i)
      BY <3>1 DEF Dies, Exits, Rollback, storeVars
    <3>2. CASE Step(i) /\ ~Exits(i)
      <4>1. CASE Starts(i) \/ Hydrated(i) \/ ChecksMarker(i) \/ Extracts(i) \/ Reads(i)
        BY <4>1 DEF Starts, Hydrated, ChecksMarker, Extracts, Reads, Fails, storeVars
      <4>2. CASE Registers(i) \/ WritesRow(i) \/ Validates(i) \/ Builds(i)
        BY <4>2 DEF Registers, Register, WritesRow, InsertRow, Validates, Builds, Fails, storeVars
      <4>3. CASE ReadsMissing(i) \/ EmbedsRow(i) \/ LocksIndex(i)
        BY <4>3 DEF ReadsMissing, EmbedsRow, InsertRow, LocksIndex, LockIndex, storeVars
      <4>4. CASE \/ \E n \in {DatasetFiles, Parts} : Lists(i, n)
                 \/ \E f \in me[i].todo : Fetches(i, f) \/ Publishes(i, f)
        BY <4>4 DEF Lists, Fetches, Publishes, storeVars
      <4> QED
        BY <1>6, <3>2, <4>1, <4>2, <4>3, <4>4 DEF Step
    <3> QED
      BY <1>6, <3>1, <3>2
  <2> QED
    BY <2>1, IndexStutters
<1> QED
  BY <1>1, <1>2, <1>3, <1>4, <1>5, <1>6 DEF INext

(* Ingestion implements IndexContract: an index gains embeddings, loses    *)
(* none, and turns READY in the very transaction that stores the last one. *)
THEOREM IngestionKeepsContract == ISpec => KeepsIndexContract
<1>1. IInit => Contract!Init
  BY DEF IInit, Init, Contract!Init, Embedded, NoIndex
<1> QED
  BY <1>1, IInitInv, INextInv, IngestionStepKeepsContract, PTL
  DEF ISpec, KeepsIndexContract, Contract!Spec

-----------------------------------------------------------------------------
(***************************************************************************)
(* Files.  A process in the cloud has its disk to itself: what it has      *)
(* unpacked and built is whole until it is published, and what it has      *)
(* published stays whole, for nothing else is ever uploaded.  On a shared  *)
(* disk files are torn, but nothing that is there is ever taken away.      *)
(***************************************************************************)
Unpacked == Points \ {"hydrate", "check", "extract", "extracting", "mark"}
Built == {"find", "create", "publish"} \cup Embedding

OwnFiles(i) ==
  /\ me[i].pc # "down" =>
       \A f \in Files : disk[i][f] = "torn" => me[i].pc = "extracting" /\ f = "data"
  /\ me[i].pc \in Unpacked \cup {"mark"} => disk[i]["data"] = "whole"
  /\ me[i].pc \in Unpacked => disk[i]["marker"] = "whole"
  /\ me[i].pc = "rename" => ~DirectoryExists(disk[i])
  /\ me[i].pc \in Built => Intact(disk[i])
  /\ me[i].pc = "publish" => \A f \in Files \ me[i].todo : bucket[f] = "whole"
  /\ me[i].pc \in Knowing => Content(i) = Pinned
  /\ me[i].failure \notin {"torn", "exists"}

Bucket ==
  /\ \A f \in Files : bucket[f] # "torn"
  /\ published => \A f \in Files : bucket[f] = "whole"

SharedFiles ==
  /\ Has(disk[Shared], "marker") => Has(disk[Shared], "data")
  /\ DirectoryExists(disk[Shared]) => Intact(disk[Shared])
  /\ \A i \in Ingestors :
       /\ me[i].pc \in {"extracting", "mark"} => Has(disk[Shared], "data")
       /\ me[i].failure \notin {"corrupt", "nodata"}

NeverSpoilt == cloud => spoilt = {}

FilesInv ==
  /\ cloud => remote
  /\ cloud => Bucket /\ corpora \subseteq {Pinned} /\ \A i \in Ingestors : OwnFiles(i)
  /\ ~cloud => SharedFiles

(***************************************************************************)
(* Counts.  The queries and relevances that are there are those of the     *)
(* contents that have been registered, and a process that counts has       *)
(* written all of its own.                                                 *)
(***************************************************************************)
Written(table, c, n, rows) == \A k \in 1..n : RowOf(table, c, k) \in rows

Earlier(pc) ==
  CASE pc = "queries" -> {"documents"}
    [] pc = "qrels" -> {"documents", "queries"}
    [] pc = "validate" -> Writing
    [] OTHER -> {}

Registered(row) ==
  row[1] \in {"queries", "qrels"} =>
    \E c \in corpora : \E k \in 1..Relevances[c] : row = RowOf(row[1], c, k)

Counts(i) ==
  /\ me[i].pc \in Knowing \ {"registered"} => Content(i) \in corpora
  /\ me[i].pc \in Writing =>
       /\ me[i].upto <= SizeOf(me[i].pc, Content(i))
       /\ Written(me[i].pc, Content(i), me[i].at - 1, stored \cup tx[i])
  /\ \A table \in Earlier(me[i].pc) :
       Written(table, Content(i), SizeOf(table, Content(i)), stored)
  /\ \A row \in tx[i] : Registered(row)
  /\ me[i].failure = "counts" => Cardinality(corpora) > 1

CountsInv ==
  /\ IsFiniteSet(corpora)
  /\ \A row \in stored : Registered(row)
  /\ \A i \in Ingestors : Counts(i)

LEMMA FileTypes ==
  ASSUME IInv
  PROVE  /\ me \in [Ingestors -> Locals] /\ disk \in [Places -> Storage] /\ bucket \in Storage
         /\ Ingestors \subseteq Places /\ Shared \in Places /\ Shared \notin Ingestors
         /\ \A i \in Ingestors : Place(i) \in Places /\ (cloud => Place(i) = i)
                                                     /\ (~cloud => Place(i) = Shared)
BY IngestionAssumption DEF IInv, ITypeOK, Place

(* What a step of process i has to leave alone, and what it has to leave   *)
(* behind for itself.                                                      *)
Tidy(i) ==
  /\ cloud' = cloud /\ remote' = remote
  /\ \A j \in Ingestors \ {i} : me'[j] = me[j]
  /\ cloud => /\ Bucket' /\ corpora' \subseteq {Pinned}
              /\ \A j \in Ingestors \ {i} : disk'[j] = disk[j]
              /\ \A f \in Files : bucket[f] = "whole" => bucket'[f] = "whole"
  /\ ~cloud => /\ Has(disk'[Shared], "marker") => Has(disk'[Shared], "data")
               /\ DirectoryExists(disk'[Shared]) => Intact(disk'[Shared])
               /\ Has(disk[Shared], "data") => Has(disk'[Shared], "data")

Fares(i) ==
  /\ cloud => OwnFiles(i)'
  /\ ~cloud => /\ me'[i].pc \in {"extracting", "mark"} => Has(disk'[Shared], "data")
               /\ me'[i].failure \notin {"corrupt", "nodata"}

LEMMA TidyStep ==
  ASSUME FilesInv, NEW i \in Ingestors, Tidy(i), Fares(i)
  PROVE  FilesInv'
<1>1. ASSUME cloud PROVE FilesInv'
  <2>1. ASSUME NEW j \in Ingestors \ {i} PROVE OwnFiles(j)'
    <3>1. OwnFiles(j) /\ me'[j] = me[j] /\ disk'[j] = disk[j]
      BY <1>1 DEF FilesInv, Tidy
    <3>2. \A f \in Files : bucket[f] = "whole" => bucket'[f] = "whole"
      BY <1>1 DEF Tidy
    <3> QED
      BY <3>1, <3>2 DEF OwnFiles, Content, DirectoryExists, Intact, Has
  <2> QED
    BY <1>1, <2>1 DEF FilesInv, Tidy, Fares
<1>2. ASSUME ~cloud PROVE FilesInv'
  BY <1>2 DEF FilesInv, Tidy, Fares, SharedFiles
<1> QED
  BY <1>1, <1>2

(* A step that leaves the files alone is tidy. *)
LEMMA QuietTidy ==
  ASSUME FilesInv, NEW i \in Ingestors,
         UNCHANGED <<disk, bucket, cloud, remote>>,
         \A j \in Ingestors \ {i} : me'[j] = me[j],
         published' = published, cloud => corpora' \subseteq {Pinned}
  PROVE  Tidy(i)
BY DEF FilesInv, Tidy, Bucket, SharedFiles, Has, DirectoryExists, Intact

(* A step within one stage of an ingestion. *)
LEMMA StageFiles ==
  ASSUME FilesInv, NEW i \in Ingestors,
         UNCHANGED <<disk, bucket, cloud, remote, published, corpora>>,
         \A j \in Ingestors \ {i} : me'[j] = me[j],
         me'[i].content = me[i].content, me'[i].failure = me[i].failure,
         me[i].pc \notin {"down", "extracting", "mark"},
         me'[i].pc \notin {"extracting", "mark", "rename", "publish"},
         me'[i].pc \in Unpacked => me[i].pc \in Unpacked,
         me'[i].pc \in Built => me[i].pc \in Built,
         me'[i].pc \in Knowing => me[i].pc \in Knowing
  PROVE  FilesInv'
<1>1. Tidy(i)
  BY QuietTidy DEF FilesInv
<1>2. cloud => OwnFiles(i)
  BY DEF FilesInv
<1>3. cloud => OwnFiles(i)'
  BY <1>2 DEF OwnFiles, Content, Intact
<1>4. Fares(i)
  BY <1>3 DEF Fares, FilesInv, SharedFiles
<1> QED
  BY <1>1, <1>4, TidyStep

(* The end of a process. *)
LEMMA EndsFiles ==
  ASSUME IInv, FilesInv, NEW i \in Ingestors, NEW why,
         me' = [me EXCEPT ![i] = Idle(why)],
         UNCHANGED <<disk, bucket, cloud, remote, published, corpora>>,
         cloud => why \notin {"torn", "exists"},
         ~cloud => why \notin {"corrupt", "nodata"}
  PROVE  FilesInv'
<1>1. me'[i] = Idle(why) /\ \A j \in Ingestors \ {i} : me'[j] = me[j]
  BY FileTypes
<1>2. Tidy(i)
  BY <1>1, QuietTidy DEF FilesInv
<1>3. Fares(i)
  BY <1>1 DEF Fares, OwnFiles, Idle, Unpacked, Built, Embedding, Knowing, Inserting, Writing, Points
<1> QED
  BY <1>2, <1>3, TidyStep

LEMMA StartsFiles ==
  ASSUME IInv, FilesInv, NEW i \in Ingestors, Starts(i), UNCHANGED <<worldVars, published>>
  PROVE  FilesInv'
<1>1. /\ me'[i].pc = IF cloud THEN "hydrate" ELSE "check"
      /\ me'[i].failure = "none" /\ \A j \in Ingestors \ {i} : me'[j] = me[j]
  BY FileTypes DEF Starts, Idle
<1>2. corpora' = corpora /\ cloud' = cloud /\ remote' = remote
  BY DEF Starts, storeVars, worldVars
<1>3. CASE cloud
  <2>1. disk' = [disk EXCEPT ![i] = Nothing] /\ bucket' = bucket
    BY <1>3 DEF Starts, Wipe
  <2>2. disk'[i] = Nothing /\ \A j \in Ingestors \ {i} : disk'[j] = disk[j]
    BY <2>1, FileTypes
  <2>3. Tidy(i)
    BY <1>1, <1>2, <1>3, <2>1, <2>2 DEF Tidy, FilesInv, Bucket
  <2>4. Fares(i)
    BY <1>1, <1>3, <2>2 DEF Fares, OwnFiles, Nothing, Unpacked, Built, Embedding, Knowing,
       Inserting, Writing, Points
  <2> QED
    BY <2>3, <2>4, TidyStep
<1>4. CASE ~cloud
  <2>1. UNCHANGED <<disk, bucket>>
    BY <1>4 DEF Starts, fileVars
  <2>2. Tidy(i)
    BY <1>1, <1>2, <1>4, <2>1, QuietTidy
  <2>3. Fares(i)
    BY <1>1, <1>4 DEF Fares
  <2> QED
    BY <2>2, <2>3, TidyStep
<1> QED
  BY <1>3, <1>4

LEMMA FetchesFiles ==
  ASSUME IInv, FilesInv, NEW i \in Ingestors, NEW f \in me[i].todo, Fetches(i, f),
         UNCHANGED <<worldVars, published>>
  PROVE  FilesInv'
<1>1. f \in Files
  BY FileTypes DEF Locals
<1>2. /\ me'[i].pc = "hydrate" /\ me'[i].failure = me[i].failure /\ me[i].pc = "hydrate"
      /\ \A j \in Ingestors \ {i} : me'[j] = me[j]
  BY FileTypes DEF Fetches, At, Locals
<1>3. /\ corpora' = corpora /\ cloud' = cloud /\ remote' = remote /\ bucket' = bucket
      /\ disk' = [disk EXCEPT ![i] = [@ EXCEPT ![f] = bucket[f]]]
  BY DEF Fetches, storeVars, worldVars, Download, Put
<1>4. /\ \A p \in Places \ {i} : disk'[p] = disk[p]
      /\ disk'[i] = [disk[i] EXCEPT ![f] = bucket[f]]
  BY <1>3, FileTypes
<1>5. Tidy(i)
  BY <1>2, <1>3, <1>4, FileTypes DEF Tidy, FilesInv, Bucket, SharedFiles, Has
<1>6. ASSUME cloud, NEW g \in Files PROVE disk'[i][g] # "torn"
  <2>1. disk[i][g] # "torn" /\ bucket[f] # "torn"
    BY <1>1, <1>2, <1>6 DEF FilesInv, OwnFiles, Bucket
  <2>2. disk[i] \in Storage
    BY FileTypes
  <2> QED
    BY <1>4, <2>1, <2>2 DEF Storage
<1>7. Fares(i)
  BY <1>2, <1>6 DEF Fares, FilesInv, SharedFiles, OwnFiles, Unpacked, Built, Embedding, Knowing,
     Inserting, Writing, Points
<1> QED
  BY <1>5, <1>7, TidyStep

LEMMA PublishesFiles ==
  ASSUME IInv, FilesInv, NEW i \in Ingestors, NEW f \in me[i].todo, Publishes(i, f),
         UNCHANGED <<worldVars, published>>
  PROVE  FilesInv'
<1>1. f \in Files
  BY FileTypes DEF Locals
<1>2. /\ me[i].pc = "publish" /\ me'[i].pc = "publish" /\ me'[i].failure = me[i].failure
      /\ me'[i].todo = me[i].todo \ {f} /\ \A j \in Ingestors \ {i} : me'[j] = me[j]
  BY FileTypes DEF Publishes, At, Locals
<1>3. /\ corpora' = corpora /\ cloud' = cloud /\ remote' = remote /\ published' = published
      /\ disk' = disk /\ bucket' = [bucket EXCEPT ![f] = disk[i][f]]
  BY DEF Publishes, storeVars, worldVars, Upload
<1>4. ASSUME cloud PROVE disk[i][f] = "whole"
  BY <1>1, <1>2, <1>4 DEF FilesInv, OwnFiles, Unpacked, Built, Points, Files, DatasetFiles, Intact
<1>5. ASSUME cloud, NEW g \in Files PROVE bucket'[g] = IF g = f THEN "whole" ELSE bucket[g]
  BY <1>3, <1>4, <1>5, FileTypes DEF Storage
<1>6. Tidy(i)
  BY <1>2, <1>3, <1>5 DEF Tidy, FilesInv, Bucket, SharedFiles
<1>7. ASSUME cloud PROVE OwnFiles(i)'
  <2>1. OwnFiles(i)
    BY <1>7 DEF FilesInv
  <2>2. \A g \in Files \ me'[i].todo : bucket'[g] = "whole"
    BY <1>2, <1>5, <1>7, <2>1 DEF OwnFiles
  <2> QED
    BY <1>2, <1>3, <2>1, <2>2 DEF OwnFiles, Intact, Knowing, Inserting, Embedding, Writing
<1>8. Fares(i)
  BY <1>2, <1>7 DEF Fares, FilesInv, SharedFiles
<1> QED
  BY <1>6, <1>8, TidyStep

LEMMA ExitsFiles ==
  ASSUME IInv, FilesInv, NEW i \in Ingestors, Exits(i), UNCHANGED worldVars
  PROVE  FilesInv'
<1>1. /\ me'[i] = Idle("none") /\ \A j \in Ingestors \ {i} : me'[j] = me[j]
      /\ UNCHANGED <<disk, bucket, cloud, remote, corpora>>
      /\ me[i].pc = "publish" /\ me[i].todo = {}
  BY FileTypes DEF Exits, At, storeVars, fileVars, worldVars
<1>2. cloud => \A f \in Files : bucket[f] = "whole"
  BY <1>1 DEF FilesInv, OwnFiles
<1>3. Tidy(i)
  BY <1>1, <1>2 DEF Tidy, FilesInv, Bucket, SharedFiles
<1>4. Fares(i)
  BY <1>1 DEF Fares, OwnFiles, Idle, Unpacked, Built, Embedding, Knowing, Inserting, Writing, Points
<1> QED
  BY <1>3, <1>4, TidyStep

(* Unpacking. *)
LEMMA ChecksMarkerFiles ==
  ASSUME IInv, FilesInv, NEW i \in Ingestors, ChecksMarker(i), UNCHANGED <<worldVars, published>>
  PROVE  FilesInv'
<1> DEFINE here == disk[Place(i)]
<1>0. UNCHANGED <<disk, bucket, cloud, remote, published, corpora>> /\ me[i].pc = "check"
  BY DEF ChecksMarker, Fails, storeVars, fileVars, worldVars, At
<1>1. CASE remote /\ Has(here, "marker") /\ ~Has(here, "data") /\ Fails(i, "nodata")
  <2>1. ~cloud => (Has(here, "marker") => Has(here, "data"))
    BY FileTypes DEF FilesInv, SharedFiles
  <2> QED
    BY <1>0, <1>1, <2>1, EndsFiles DEF Fails
<1>2. CASE /\ ~remote \/ (Has(here, "marker") => Has(here, "data"))
           /\ Goto(i, IF remote /\ ~Has(here, "marker") THEN "extract" ELSE "read")
  <2>1. /\ me'[i].pc = IF remote /\ ~Has(here, "marker") THEN "extract" ELSE "read"
        /\ me'[i].failure = me[i].failure /\ \A j \in Ingestors \ {i} : me'[j] = me[j]
    BY <1>2, FileTypes DEF Goto, Locals
  <2>2. Tidy(i)
    BY <1>0, <2>1, QuietTidy DEF FilesInv
  <2>3. ASSUME cloud PROVE OwnFiles(i)'
    <3>1. OwnFiles(i) /\ remote /\ here = disk[i]
      BY <2>3, FileTypes DEF FilesInv
    <3>2. \A f \in Files : disk[i][f] # "torn"
      BY <1>0, <3>1 DEF OwnFiles
    <3>3. CASE Has(here, "marker")
      <4>1. disk[i]["marker"] = "whole" /\ disk[i]["data"] = "whole"
        BY <1>2, <3>1, <3>2, <3>3, FileTypes DEF Storage, Contained, Has, Files, DatasetFiles
      <4> QED
        BY <1>0, <2>1, <3>1, <3>2, <3>3, <4>1 DEF OwnFiles, Unpacked, Built, Embedding, Knowing,
           Inserting, Writing, Points
    <3>4. CASE ~Has(here, "marker")
      BY <1>0, <2>1, <3>1, <3>2, <3>4 DEF OwnFiles, Unpacked, Built, Embedding, Knowing,
         Inserting, Writing, Points
    <3> QED
      BY <3>3, <3>4
  <2>4. Fares(i)
    BY <2>1, <2>3 DEF Fares, FilesInv, SharedFiles
  <2> QED
    BY <2>2, <2>4, TidyStep
<1> QED
  BY <1>1, <1>2 DEF ChecksMarker

LEMMA ExtractsFiles ==
  ASSUME IInv, FilesInv, NeverSpoilt, NEW i \in Ingestors, Extracts(i),
         UNCHANGED <<worldVars, published>>
  PROVE  FilesInv'
<1> DEFINE p == Place(i)
<1>1. PICK f \in {"data", "marker"}, x \in {"torn", "whole"}, q \in {"extracting", "mark", "read"} :
        /\ Goto(i, q) /\ Put(p, f, x)
        /\ q = "extracting" => me[i].pc = "extract" /\ f = "data"
        /\ q = "mark" => /\ me[i].pc = "extracting" /\ f = "data"
                         /\ cloud => x = "whole"
        /\ q = "read" => me[i].pc = "mark" /\ f = "marker" /\ x = "whole"
  <2>1. CASE At(i, "extract") /\ ExtractStart(p) /\ Goto(i, "extracting")
    BY <2>1 DEF ExtractStart, At
  <2>2. CASE /\ At(i, "extracting") /\ Goto(i, "mark")
             /\ ExtractEnd(p, Unpacking(i) # {} \/ i \in spoilt)
    <3>1. cloud => Unpacking(i) = {} /\ i \notin spoilt
      BY FileTypes DEF Unpacking, NeverSpoilt
    <3> QED
      BY <2>2, <3>1 DEF ExtractEnd, At
  <2>3. CASE At(i, "mark") /\ Mark(p) /\ Goto(i, "read")
    BY <2>3 DEF Mark, At
  <2> QED
    BY <2>1, <2>2, <2>3 DEF Extracts
<1>2. /\ me'[i].pc = q /\ me'[i].failure = me[i].failure
      /\ \A j \in Ingestors \ {i} : me'[j] = me[j]
  BY <1>1, FileTypes DEF Goto, Locals
<1>3. /\ corpora' = corpora /\ cloud' = cloud /\ remote' = remote /\ bucket' = bucket
      /\ disk' = [disk EXCEPT ![p] = [@ EXCEPT ![f] = x]] /\ f \in Files
  BY <1>1 DEF Extracts, storeVars, worldVars, Put, Files, DatasetFiles
<1>4. /\ \A r \in Places \ {p} : disk'[r] = disk[r]
      /\ disk'[p] = [disk[p] EXCEPT ![f] = x]
  BY <1>3, FileTypes
<1>5. /\ disk'[p][f] = x
      /\ \A g \in Files \ {f} : disk'[p][g] = disk[p][g]
  BY <1>3, <1>4, FileTypes DEF Storage
<1>6. \A g \in Parts : g # f
  BY <1>1, ArtifactAssumption DEF DatasetFiles
<1>7. /\ DirectoryExists(disk'[p]) => DirectoryExists(disk[p])
      /\ Intact(disk[p]) => Intact(disk'[p])
      /\ Has(disk[p], "data") => Has(disk'[p], "data")
      /\ f = "data" => Has(disk'[p], "data") /\ disk'[p]["marker"] = disk[p]["marker"]
      /\ f = "marker" => disk'[p]["data"] = disk[p]["data"]
  BY <1>5, <1>6 DEF DirectoryExists, Intact, Has, Files, DatasetFiles
<1>8. Tidy(i)
  <2>1. ASSUME cloud PROVE \A j \in Ingestors \ {i} : disk'[j] = disk[j]
    BY <1>4, <2>1, FileTypes
  <2>2. ASSUME ~cloud
        PROVE  /\ Has(disk'[Shared], "marker") => Has(disk'[Shared], "data")
               /\ DirectoryExists(disk'[Shared]) => Intact(disk'[Shared])
               /\ Has(disk[Shared], "data") => Has(disk'[Shared], "data")
    <3>1. p = Shared /\ SharedFiles
      BY <2>2, FileTypes DEF FilesInv
    <3>2. f = "marker" => Has(disk[p], "data")
      BY <1>1, <3>1 DEF SharedFiles
    <3> QED
      BY <1>7, <3>1, <3>2 DEF SharedFiles
  <2> QED
    BY <1>2, <1>3, <2>1, <2>2 DEF Tidy, FilesInv, Bucket
<1>9. ASSUME cloud PROVE OwnFiles(i)'
  <2>1. OwnFiles(i) /\ p = i
    BY <1>9, FileTypes DEF FilesInv
  <2>2. q # "extracting" => \A g \in Files : disk'[i][g] # "torn"
    <3>1. CASE q = "mark"
      <4>1. \A g \in Files \ {"data"} : disk[i][g] # "torn"
        BY <3>1, <1>1, <2>1 DEF OwnFiles
      <4> QED
        BY <3>1, <4>1, <1>1, <1>5, <1>9, <2>1
    <3>2. CASE q = "read"
      BY <3>2, <1>1, <1>5, <1>9, <2>1 DEF OwnFiles
    <3> QED
      BY <3>1, <3>2
  <2> QED
    BY <1>1, <1>2, <1>5, <1>7, <1>9, <2>1, <2>2 DEF OwnFiles, Unpacked, Built, Embedding,
       Knowing, Inserting, Writing, Points
<1>10. Fares(i)
  <2>1. ASSUME ~cloud PROVE me'[i].pc \in {"extracting", "mark"} => Has(disk'[Shared], "data")
    BY <1>1, <1>2, <1>7, <2>1, FileTypes
  <2> QED
    BY <1>2, <1>9, <2>1 DEF Fares, FilesInv, SharedFiles
<1> QED
  BY <1>8, <1>10, TidyStep

LEMMA ReadsFiles ==
  ASSUME IInv, FilesInv, NEW i \in Ingestors, Reads(i), UNCHANGED <<worldVars, published>>
  PROVE  FilesInv'
<1>0. /\ UNCHANGED <<disk, bucket, cloud, remote, published, corpora>> /\ me[i].pc = "read"
  BY DEF Reads, Fails, storeVars, fileVars, worldVars, At
<1>1. ASSUME cloud PROVE remote /\ disk[Place(i)]["data"] = "whole" /\ OwnFiles(i)
  BY <1>0, <1>1, FileTypes DEF FilesInv, OwnFiles, Unpacked, Points
<1>2. CASE remote /\ disk[Place(i)]["data"] # "whole" /\ Fails(i, "torn")
  BY <1>0, <1>1, <1>2, EndsFiles DEF Fails
<1>3. ASSUME NEW c, cloud => c = Pinned,
             me' = [me EXCEPT ![i].pc = "registered", ![i].content = c, ![i].saw = corpora]
      PROVE  FilesInv'
  <2>1. /\ me'[i].pc = "registered" /\ me'[i].content = c /\ me'[i].failure = me[i].failure
        /\ \A j \in Ingestors \ {i} : me'[j] = me[j]
    BY <1>3, FileTypes DEF Locals
  <2>2. Tidy(i)
    BY <1>0, <2>1, QuietTidy DEF FilesInv
  <2>3. ASSUME cloud PROVE OwnFiles(i)'
    BY <1>0, <1>1, <1>3, <2>1, <2>3 DEF OwnFiles, Content, Unpacked, Built, Embedding, Knowing,
       Inserting, Writing, Points
  <2>4. Fares(i)
    BY <2>1, <2>3 DEF Fares, FilesInv, SharedFiles
  <2> QED
    BY <2>2, <2>4, TidyStep
<1> QED
  BY <1>1, <1>2, <1>3 DEF Reads

LEMMA RegistersFiles ==
  ASSUME IInv, FilesInv, NEW i \in Ingestors, Registers(i), UNCHANGED <<worldVars, published>>
  PROVE  FilesInv'
<1>0. UNCHANGED <<disk, bucket, cloud, remote, published>> /\ me[i].pc = "registered"
  BY DEF Registers, Fails, fileVars, worldVars, At
<1>1. CASE RegisterConflicts(Content(i), me[i].saw) /\ Fails(i, "unique")
  BY <1>0, <1>1, EndsFiles DEF Fails, storeVars
<1>2. CASE /\ Register(Content(i))
           /\ me' = [me EXCEPT ![i].pc = "documents", ![i].saw = {}, ![i].at = 1,
                               ![i].upto = BatchEnd(i, 1, Documents)]
  <2>1. /\ me'[i].pc = "documents" /\ me'[i].content = me[i].content
        /\ me'[i].failure = me[i].failure /\ \A j \in Ingestors \ {i} : me'[j] = me[j]
    BY <1>2, FileTypes DEF Locals
  <2>2. cloud => OwnFiles(i)
    BY DEF FilesInv
  <2>3. cloud => Content(i) = Pinned /\ corpora' \subseteq {Pinned}
    BY <1>0, <1>2, <2>2 DEF FilesInv, OwnFiles, Knowing, Register
  <2>4. Tidy(i)
    BY <1>0, <2>1, <2>3, QuietTidy
  <2>5. ASSUME cloud PROVE OwnFiles(i)'
    BY <1>0, <2>1, <2>2, <2>3, <2>5 DEF OwnFiles, Content, Unpacked, Built, Embedding, Knowing,
       Inserting, Writing, Points
  <2>6. Fares(i)
    BY <2>1, <2>5 DEF Fares, FilesInv, SharedFiles
  <2> QED
    BY <2>4, <2>6, TidyStep
<1> QED
  BY <1>1, <1>2 DEF Registers

LEMMA BuildsFiles ==
  ASSUME IInv, FilesInv, NEW i \in Ingestors, Builds(i), UNCHANGED <<worldVars, published>>
  PROVE  FilesInv'
<1> DEFINE here == disk[Place(i)]
<1>0. UNCHANGED <<cloud, remote, published, corpora>> /\ me[i].pc \in {"build", "rename"}
  BY DEF Builds, Build, Fails, storeVars, worldVars, At
<1>1. CASE /\ At(i, "build") /\ DirectoryExists(here) /\ ~Intact(here)
           /\ Fails(i, "corrupt")
  <2>1. ~cloud => (DirectoryExists(here) => Intact(here))
    BY FileTypes DEF FilesInv, SharedFiles
  <2> QED
    BY <1>0, <1>1, <2>1, EndsFiles DEF Fails, fileVars
<1>2. CASE At(i, "rename") /\ DirectoryExists(here) /\ Fails(i, "exists")
  <2>1. cloud => ~DirectoryExists(here)
    BY <1>2, FileTypes DEF FilesInv, OwnFiles, At
  <2> QED
    BY <1>0, <1>2, <2>1, EndsFiles DEF Fails, fileVars
<1>3. ASSUME NEW q \in {"find", "rename"}, Goto(i, q),
             \A j \in Ingestors \ {i} : cloud => disk'[j] = disk[j], bucket' = bucket,
             disk'[Place(i)]["marker"] = here["marker"], disk'[Place(i)]["data"] = here["data"],
             q = "find" => Intact(disk'[Place(i)]),
             q = "rename" => disk' = disk /\ ~DirectoryExists(here)
      PROVE  FilesInv'
  <2>1. /\ me'[i].pc = q /\ me'[i].content = me[i].content
        /\ me'[i].failure = me[i].failure /\ \A j \in Ingestors \ {i} : me'[j] = me[j]
    BY <1>3, FileTypes DEF Goto, Locals
  <2>2. ~cloud => (DirectoryExists(disk'[Shared]) => Intact(disk'[Shared]))
    BY <1>3, FileTypes DEF FilesInv, SharedFiles
  <2>3. Tidy(i)
    BY <1>0, <1>3, <2>1, <2>2, FileTypes DEF Tidy, FilesInv, Bucket, SharedFiles, Has
  <2>4. ASSUME cloud PROVE OwnFiles(i)'
    <3>1. OwnFiles(i) /\ Place(i) = i
      BY <2>4, FileTypes DEF FilesInv
    <3>2. /\ disk'[i]["data"] = "whole" /\ disk'[i]["marker"] = "whole"
          /\ q = "find" => \A f \in Parts : disk'[i][f] = "whole"
      BY <1>0, <1>3, <3>1 DEF OwnFiles, Unpacked, Points, Intact
    <3>3. \A f \in Files : disk'[i][f] # "torn"
      <4>1. CASE q = "find"
        BY <3>2, <4>1 DEF Files, DatasetFiles
      <4>2. CASE q = "rename"
        BY <1>0, <1>3, <3>1, <4>2 DEF OwnFiles
      <4> QED
        BY <4>1, <4>2
    <3> QED
      BY <1>0, <1>3, <2>1, <3>1, <3>2, <3>3 DEF OwnFiles, Content, Intact, Built, Embedding,
         Knowing, Inserting, Writing
  <2>5. Fares(i)
    BY <2>1, <2>4 DEF Fares, FilesInv, SharedFiles
  <2> QED
    BY <2>3, <2>5, TidyStep
<1>4. CASE /\ At(i, "build") /\ (DirectoryExists(here) => Intact(here))
           /\ Goto(i, IF DirectoryExists(here) THEN "find" ELSE "rename")
           /\ UNCHANGED <<storeVars, fileVars>>
  <2>1. UNCHANGED <<disk, bucket>>
    BY <1>4 DEF fileVars
  <2> QED
    BY <1>3, <1>4, <2>1
<1>5. CASE At(i, "rename") /\ Build(Place(i)) /\ Goto(i, "find")
  <2> DEFINE built == [f \in Files |-> IF f \in Parts THEN "whole" ELSE here[f]]
  <2>1. disk' = [disk EXCEPT ![Place(i)] = built] /\ bucket' = bucket
    BY <1>5 DEF Build
  <2>2. disk'[Place(i)] = built /\ \A p \in Places \ {Place(i)} : disk'[p] = disk[p]
    BY <2>1, FileTypes
  <2>3. /\ built["data"] = here["data"] /\ built["marker"] = here["marker"]
        /\ \A f \in Parts : built[f] = "whole"
    BY ArtifactAssumption DEF Files, DatasetFiles
  <2>4. Intact(disk'[Place(i)])
    BY <2>2, <2>3 DEF Intact
  <2>5. \A j \in Ingestors \ {i} : cloud => disk'[j] = disk[j]
    BY <2>2, FileTypes
  <2> QED
    BY <1>3, <1>5, <2>1, <2>2, <2>3, <2>4, <2>5
<1> QED
  BY <1>1, <1>2, <1>4, <1>5 DEF Builds

LEMMA TurnsLocals ==
  ASSUME IInv, NEW i \in Ingestors, NEW p, NEW k, NEW n, Turns(i, p, k, n)
  PROVE  /\ me'[i].pc = p /\ me'[i].content = me[i].content /\ me'[i].failure = me[i].failure
         /\ me'[i].at = k /\ me'[i].upto = BatchEnd(i, k, n)
         /\ \A j \in Ingestors \ {i} : me'[j] = me[j]
BY FileTypes DEF Turns, Locals

(* The stages that read and write tables only. *)
InStage(i) ==
  \/ Hydrated(i) \/ WritesRow(i) \/ CommitsBatch(i) \/ FindsIndex(i) \/ Validates(i)
  \/ ReadsMissing(i) \/ EmbedsRow(i) \/ LocksIndex(i) \/ Advances(i) \/ Refreshes(i)
  \/ \E n \in {DatasetFiles, Parts} : Lists(i, n)

Refreshed(i) ==
  me' = [me EXCEPT ![i] = [Idle("none") EXCEPT
           !.pc = "publish", !.todo = IF cloud THEN Present(disk[i]) ELSE {}]]

Within(i) ==
  /\ me'[i].content = me[i].content /\ me'[i].failure = me[i].failure
  /\ \A j \in Ingestors \ {i} : me'[j] = me[j]
  /\ \/ me[i].pc = "hydrate" /\ me'[i].pc \in {"hydrate", "check"}
     \/ me[i].pc \in Writing /\ me'[i].pc \in Writing \cup {"validate"}
     \/ me[i].pc = "validate" /\ me'[i].pc = "build"
     \/ me[i].pc \in {"find", "create"} \cup Embedding
        /\ me'[i].pc \in {"find", "create"} \cup Embedding

LEMMA StageMoves ==
  ASSUME IInv, NEW i \in Ingestors, InStage(i)
  PROVE  /\ UNCHANGED <<disk, bucket, corpora>>
         /\ \/ Within(i)
            \/ me[i].pc = "refreshing" /\ Refreshed(i)
            \/ \E why \in {"counts", "unique", "progress"} :
                 me' = [me EXCEPT ![i] = Idle(why)] /\ (why = "counts" => Validates(i))
<1> USE FileTypes DEF At
<1>1. CASE Hydrated(i) \/ \E n \in {DatasetFiles, Parts} : Lists(i, n)
  BY <1>1 DEF Hydrated, Lists, Within, Locals, storeVars, fileVars
<1>2. CASE WritesRow(i)
  BY <1>2 DEF WritesRow, InsertRow, Within, Locals, fileVars
<1>3. CASE CommitsBatch(i)
  <2>1. me[i].pc \in Writing /\ UNCHANGED <<disk, bucket, corpora>>
    BY <1>3 DEF CommitsBatch, CommitRows, fileVars
  <2>2. After(me[i].pc) \in Writing \cup {"validate"}
    BY <2>1 DEF After, Writing
  <2>3. \E p \in {me[i].pc, After(me[i].pc)} : \E k, n : Turns(i, p, k, n)
    BY <1>3 DEF CommitsBatch
  <2> QED
    BY <2>1, <2>2, <2>3, TurnsLocals DEF Within
<1>4. CASE Validates(i)
  BY <1>4 DEF Validates, Fails, Goto, Within, Locals, storeVars, fileVars
<1>5. CASE FindsIndex(i)
  <2>1. UNCHANGED <<disk, bucket, corpora>> /\ me[i].pc \in {"find", "create"}
    BY <1>5 DEF FindsIndex, CreateIndex, Fails, fileVars, storeVars
  <2>2. CASE Turns(i, "missing", 1, Documents)
    BY <2>1, <2>2, TurnsLocals DEF Within, Embedding
  <2>3. CASE Goto(i, "create") \/ Fails(i, "unique")
    BY <2>1, <2>3 DEF Goto, Fails, Within, Locals
  <2> QED
    BY <1>5, <2>2, <2>3 DEF FindsIndex
<1>6. ASSUME NextBatch(i), me[i].pc \in Embedding PROVE Within(i)
  BY <1>6, TurnsLocals DEF NextBatch, Within, Embedding
<1>7. CASE ReadsMissing(i)
  <2>1. UNCHANGED <<disk, bucket, corpora>> /\ me[i].pc = "missing"
    BY <1>7 DEF ReadsMissing, fileVars, storeVars
  <2>2. CASE NextBatch(i)
    BY <1>6, <2>1, <2>2 DEF Embedding
  <2>3. CASE \E rows : me' = [me EXCEPT ![i].pc = "embeddings", ![i].rows = rows]
    BY <2>1, <2>3 DEF Within, Locals, Embedding
  <2> QED
    BY <1>7, <2>1, <2>2, <2>3 DEF ReadsMissing
<1>8. CASE EmbedsRow(i)
  BY <1>8 DEF EmbedsRow, InsertRow, Within, Locals, Embedding, fileVars
<1>9. CASE LocksIndex(i)
  BY <1>9 DEF LocksIndex, LockIndex, Within, Locals, Embedding, fileVars
<1>10. CASE Advances(i)
  <2>1. UNCHANGED <<disk, bucket, corpora>> /\ me[i].pc = "advancing"
    BY <1>10 DEF Advances, CommitEmbeddings, Rollback, fileVars
  <2> QED
    BY <1>6, <1>10, <2>1 DEF Advances, Embedding
<1>11. CASE Refreshes(i)
  <2>1. UNCHANGED <<disk, bucket, corpora>>
    BY <1>11 DEF Refreshes, CommitRefresh, Fails, storeVars, fileVars
  <2> QED
    BY <1>11, <2>1 DEF Refreshes, Refreshed, Fails, Within, Locals, Embedding
<1> QED
  BY <1>1, <1>2, <1>3, <1>4, <1>5, <1>7, <1>8, <1>9, <1>10, <1>11 DEF InStage

LEMMA InStageFiles ==
  ASSUME IInv, FilesInv, NEW i \in Ingestors, InStage(i), UNCHANGED <<worldVars, published>>
  PROVE  FilesInv'
<1>0. UNCHANGED <<disk, bucket, corpora, cloud, remote, published>>
  BY StageMoves DEF worldVars
<1>1. CASE Within(i)
  BY <1>0, <1>1, StageFiles DEF Within, Unpacked, Built, Embedding, Knowing, Inserting, Writing, Points
<1>2. CASE me[i].pc = "refreshing" /\ Refreshed(i)
  <2>1. /\ me'[i].pc = "publish" /\ me'[i].failure = "none" /\ (cloud => me'[i].todo = Present(disk[i]))
        /\ \A j \in Ingestors \ {i} : me'[j] = me[j]
    BY <1>2, FileTypes DEF Refreshed, Idle
  <2>2. Tidy(i)
    BY <1>0, <2>1, QuietTidy DEF FilesInv
  <2>3. ASSUME cloud PROVE OwnFiles(i)'
    <3>1. OwnFiles(i)
      BY <2>3 DEF FilesInv
    <3>2. disk[i]["data"] = "whole" /\ disk[i]["marker"] = "whole" /\ Intact(disk[i])
      BY <1>2, <3>1 DEF OwnFiles, Unpacked, Points, Built, Embedding
    <3>3. \A f \in Files : disk[i][f] = "whole"
      BY <3>2 DEF Intact, Files, DatasetFiles
    <3>4. Files \ me'[i].todo = {}
      BY <2>1, <2>3, <3>3 DEF Present, Has
    <3> QED
      BY <1>0, <1>2, <2>1, <3>2, <3>3, <3>4 DEF OwnFiles, Intact, Knowing, Inserting, Embedding, Writing
  <2>4. Fares(i)
    BY <2>1, <2>3 DEF Fares, FilesInv, SharedFiles
  <2> QED
    BY <2>2, <2>4, TidyStep
<1>3. CASE \E why \in {"counts", "unique", "progress"} : me' = [me EXCEPT ![i] = Idle(why)]
  BY <1>0, <1>3, EndsFiles
<1> QED
  BY <1>1, <1>2, <1>3, StageMoves

LEMMA InitFiles == IInit => FilesInv
<1> SUFFICES ASSUME IInit PROVE FilesInv
  OBVIOUS
<1>1. \A i \in Ingestors : me[i].pc = "down" /\ me[i].failure = "none"
  BY DEF IInit, Idle
<1>2. corpora = {} /\ published = FALSE /\ bucket = Nothing /\ disk = [p \in Places |-> Nothing]
  BY DEF IInit, Init, FInit
<1>3. Shared \in Places
  BY IngestionAssumption
<1>4. Bucket /\ SharedFiles
  BY <1>1, <1>2, <1>3, ArtifactAssumption
     DEF Bucket, SharedFiles, Nothing, Has, DirectoryExists, Files, DatasetFiles
<1>5. \A i \in Ingestors : OwnFiles(i)
  BY <1>1 DEF OwnFiles, Unpacked, Built, Embedding, Knowing, Inserting, Writing, Points
<1> QED
  BY <1>2, <1>4, <1>5 DEF FilesInv, IInit

LEMMA StepSpoilt == IInv /\ NeverSpoilt /\ [INext]_vars => NeverSpoilt'
<1> SUFFICES ASSUME IInv, NeverSpoilt, [INext]_vars, cloud' PROVE spoilt' = {}
  BY DEF NeverSpoilt
<1>1. cloud /\ spoilt = {}
  BY DEF NeverSpoilt, INext, Edits, vars, worldVars
<1>2. ASSUME NEW i \in Ingestors PROVE Unpacking(i) = {}
  BY <1>1, FileTypes DEF Unpacking
<1>3. ASSUME NEW i \in Ingestors, Step(i) PROVE spoilt' = {}
  BY <1>1, <1>3 DEF Step, Extracts, Exits
<1>4. ASSUME NEW i \in Ingestors, Dies(i) PROVE spoilt' = {}
  BY <1>1, <1>2, <1>4 DEF Dies
<1> QED
  BY <1>1, <1>3, <1>4 DEF INext, Edits, vars, processVars

LEMMA StepFiles == IInv /\ NeverSpoilt /\ FilesInv /\ [INext]_vars => FilesInv'
<1> SUFFICES ASSUME IInv, NeverSpoilt, FilesInv, [INext]_vars PROVE FilesInv'
  OBVIOUS
<1>1. ASSUME UNCHANGED <<me, disk, bucket, cloud, remote, published, corpora>> PROVE FilesInv'
  BY <1>1 DEF FilesInv, OwnFiles, Bucket, SharedFiles, Has, DirectoryExists, Intact, Content
<1>2. CASE UNCHANGED vars
  BY <1>1, <1>2 DEF vars, storeVars, processVars, fileVars, worldVars
<1>3. CASE Edits
  BY <1>1, <1>3 DEF Edits, storeVars, processVars, fileVars
<1>4. ASSUME NEW i \in Ingestors, Step(i), UNCHANGED worldVars PROVE FilesInv'
  <2>1. CASE Exits(i)
    BY <1>4, <2>1, ExitsFiles
  <2>2. CASE /\ InStage(i) \/ Starts(i) \/ ChecksMarker(i) \/ Extracts(i) \/ Reads(i)
                \/ Registers(i) \/ Builds(i)
                \/ \E f \in me[i].todo : Fetches(i, f) \/ Publishes(i, f)
             /\ UNCHANGED published
    BY <1>4, <2>2, InStageFiles, StartsFiles, ChecksMarkerFiles, ExtractsFiles, ReadsFiles,
       RegistersFiles, BuildsFiles, FetchesFiles, PublishesFiles
  <2> QED
    BY <1>4, <2>1, <2>2 DEF Step, InStage
<1>5. ASSUME NEW i \in Ingestors, Dies(i), UNCHANGED worldVars PROVE FilesInv'
  BY <1>5, EndsFiles DEF Dies, Rollback, fileVars, worldVars
<1> QED
  BY <1>2, <1>3, <1>4, <1>5 DEF INext

LEMMA FilesInvariant == ISpec => [](IInv /\ FilesInv)
<1>1. IInit => FilesInv
  BY InitFiles
<1>2. IInit => NeverSpoilt
  BY DEF IInit, NeverSpoilt
<1> QED
  BY <1>1, <1>2, StepSpoilt, StepFiles, IngestionInvariant, PTL DEF ISpec

(* Only whole files are ever uploaded, and a process ends well only after  *)
(* it has uploaded all of its disk; what a later process publishes cannot  *)
(* replace a whole file by another (publish_ingestion, build).             *)
THEOREM PublishedStaysWhole == ISpec => []PublishedIsWhole
<1>1. FilesInv => PublishedIsWhole
  BY DEF FilesInv, Bucket, PublishedIsWhole, Intact, Files, DatasetFiles
<1> QED
  BY <1>1, FilesInvariant, PTL

-----------------------------------------------------------------------------
(* What a step of process i has to leave behind for the counts. *)
LEMMA CountsStep ==
  ASSUME CountsInv, NEW i \in Ingestors,
         \A j \in Ingestors \ {i} : me'[j] = me[j] /\ tx'[j] = tx[j],
         corpora \subseteq corpora', IsFiniteSet(corpora'), stored \subseteq stored',
         \A row \in stored' \cup tx'[i] : Registered(row)',
         Counts(i)'
  PROVE  CountsInv'
<1>1. ASSUME NEW row, Registered(row) PROVE Registered(row)'
  BY <1>1 DEF Registered
<1>2. Cardinality(corpora) > 1 => Cardinality(corpora') > 1
  <2>1. /\ Cardinality(corpora) \in Nat /\ Cardinality(corpora') \in Nat
        /\ Cardinality(corpora) <= Cardinality(corpora')
    BY FS_Subset, FS_CardinalityType DEF CountsInv
  <2> QED
    BY <2>1
<1>3. ASSUME NEW j \in Ingestors \ {i} PROVE Counts(j)'
  <2>1. Counts(j) /\ me'[j] = me[j] /\ tx'[j] = tx[j]
    BY DEF CountsInv
  <2>2. Content(j)' = Content(j)
    BY <2>1 DEF Content
  <2>3. ASSUME NEW table, NEW c, NEW n, Written(table, c, n, stored)
        PROVE  Written(table, c, n, stored')
    BY <2>3 DEF Written
  <2>4. \A table, n : Written(table, Content(j), n, stored \cup tx[j]) =>
                        Written(table, Content(j), n, stored' \cup tx[j])
    BY DEF Written
  <2>5. \A row \in tx'[j] : Registered(row)'
    BY <1>1, <2>1 DEF Counts
  <2> QED
    BY <1>2, <2>1, <2>2, <2>3, <2>4, <2>5 DEF Counts
<1> QED
  BY <1>3 DEF CountsInv

(* A step that leaves the rows alone, outside of the batches. *)
LEMMA QuietCounts ==
  ASSUME CountsInv, NEW i \in Ingestors, UNCHANGED <<corpora, stored, tx>>,
         \A j \in Ingestors \ {i} : me'[j] = me[j],
         me'[i].pc \notin Writing \cup {"validate"},
         me'[i].pc \in Knowing \ {"registered"} =>
           me[i].pc \in Knowing \ {"registered"} /\ me'[i].content = me[i].content,
         me'[i].failure = "counts" =>
           me[i].failure = "counts" \/ Cardinality(corpora) > 1
  PROVE  CountsInv'
<1>1. Counts(i)
  BY DEF CountsInv
<1>2. Earlier(me'[i].pc) = {}
  BY DEF Earlier, Writing
<1>3. \A row : Registered(row)' <=> Registered(row)
  BY DEF Registered
<1>4. Counts(i)'
  BY <1>1, <1>2, <1>3 DEF Counts, Content
<1> QED
  BY <1>1, <1>3, <1>4, CountsStep DEF CountsInv, Counts

LEMMA EndsCounts ==
  ASSUME IInv, CountsInv, NEW i \in Ingestors, UNCHANGED <<corpora, stored>>,
         tx' = tx \/ tx' = [tx EXCEPT ![i] = {}], NEW why, me' = [me EXCEPT ![i] = Idle(why)],
         why = "counts" => Cardinality(corpora) > 1
  PROVE  CountsInv'
<1>1. /\ me'[i] = Idle(why) /\ \A j \in Ingestors \ {i} : me'[j] = me[j] /\ tx'[j] = tx[j]
      /\ tx'[i] \subseteq tx[i]
  BY FileTypes DEF IInv, ITypeOK
<1>2. me'[i].pc = "down" /\ me'[i].failure = why /\ Earlier("down") = {}
  BY <1>1 DEF Idle, Earlier
<1>3. \A row : Registered(row)' <=> Registered(row)
  BY DEF Registered
<1>4. \A row \in stored' \cup tx'[i] : Registered(row)'
  BY <1>1, <1>3 DEF CountsInv, Counts
<1>5. Counts(i)'
  BY <1>2, <1>4 DEF Counts, Knowing, Inserting, Embedding, Writing
<1> QED
  BY <1>1, <1>4, <1>5, CountsStep DEF CountsInv

(* The steps that touch files only, and Reads. *)
LEMMA OutsideCounts ==
  ASSUME IInv, CountsInv, NEW i \in Ingestors,
         \/ Starts(i) \/ ChecksMarker(i) \/ Extracts(i) \/ Reads(i) \/ Builds(i) \/ Exits(i)
         \/ \E f \in me[i].todo : Fetches(i, f) \/ Publishes(i, f)
  PROVE  CountsInv'
<1>1. UNCHANGED <<corpora, stored, tx>>
  BY DEF Starts, ChecksMarker, Extracts, Reads, Builds, Exits, Fetches, Publishes, Fails, storeVars
<1>2. CASE \E why \in {"nodata", "torn", "corrupt", "exists", "none"} : me' = [me EXCEPT ![i] = Idle(why)]
  BY <1>1, <1>2, EndsCounts
<1>3. ASSUME NEW q \in {"hydrate", "check", "extract", "extracting", "mark", "read", "registered",
                        "rename", "find", "publish"},
             me'[i].pc = q, \A j \in Ingestors \ {i} : me'[j] = me[j],
             me'[i].failure = me[i].failure \/ me'[i].failure = "none",
             q \in {"rename", "find"} =>
               me[i].pc \in {"build", "rename"} /\ me'[i].content = me[i].content
      PROVE  CountsInv'
  BY <1>1, <1>3, QuietCounts DEF Knowing, Inserting, Embedding, Writing
<1>4. ASSUME NEW q, Goto(i, q)
      PROVE  /\ me'[i].pc = q /\ \A j \in Ingestors \ {i} : me'[j] = me[j]
             /\ me'[i].failure = me[i].failure /\ me'[i].content = me[i].content
  BY <1>4, FileTypes DEF Goto, Locals
<1>5. CASE Starts(i)
  BY <1>3, <1>5, FileTypes DEF Starts, Idle
<1>6. CASE ChecksMarker(i)
  BY <1>2, <1>3, <1>4, <1>6 DEF ChecksMarker, Fails
<1>7. CASE Extracts(i)
  BY <1>3, <1>4, <1>7 DEF Extracts
<1>8. CASE Reads(i)
  <2>1. CASE \E c : me' = [me EXCEPT ![i].pc = "registered", ![i].content = c, ![i].saw = corpora]
    BY <1>3, <2>1, FileTypes DEF Locals
  <2> QED
    BY <1>2, <1>8, <2>1 DEF Reads, Fails
<1>9. CASE Builds(i)
  BY <1>2, <1>3, <1>4, <1>9 DEF Builds, Fails, At
<1>10. CASE Exits(i)
  BY <1>2, <1>10 DEF Exits
<1>11. ASSUME NEW f \in me[i].todo, Fetches(i, f) \/ Publishes(i, f) PROVE CountsInv'
  BY <1>3, <1>11, FileTypes DEF Fetches, Publishes, At, Locals
<1> QED
  BY <1>5, <1>6, <1>7, <1>8, <1>9, <1>10, <1>11

LEMMA RegistersCounts ==
  ASSUME IInv, CountsInv, NEW i \in Ingestors, Registers(i)
  PROVE  CountsInv'
<1>1. CASE Fails(i, "unique")
  BY <1>1, EndsCounts DEF Fails, storeVars
<1>2. CASE /\ Register(Content(i))
           /\ me' = [me EXCEPT ![i].pc = "documents", ![i].saw = {}, ![i].at = 1,
                               ![i].upto = BatchEnd(i, 1, Documents)]
  <2>1. /\ me'[i].pc = "documents" /\ Content(i)' = Content(i) /\ me'[i].at = 1
        /\ me'[i].upto = BatchEnd(i, 1, Documents)
        /\ me'[i].failure = me[i].failure /\ \A j \in Ingestors \ {i} : me'[j] = me[j]
    BY <1>2, FileTypes DEF Content, Locals
  <2>2. corpora' = corpora \cup {Content(i)} /\ stored' = stored /\ tx' = tx
    BY <1>2 DEF Register
  <2>3. me[i].pc = "registered" /\ tx[i] = {}
    BY DEF Registers, At, IInv, Sound, RowsInOrder, Inserting, Writing
  <2>4. IsFiniteSet(corpora')
    BY <2>2, FS_AddElement DEF CountsInv
  <2>5. \A row : Registered(row) => Registered(row)'
    BY <2>2 DEF Registered
  <2>6. me'[i].upto <= SizeOf("documents", Content(i))
    BY <2>1, BatchEndType, StoreAssumption DEF SizeOf
  <2>7. me'[i].failure = "counts" => Cardinality(corpora') > 1
    <3>1. /\ Cardinality(corpora) \in Nat /\ Cardinality(corpora') \in Nat
          /\ Cardinality(corpora) <= Cardinality(corpora')
      BY <2>2, <2>4, FS_Subset, FS_CardinalityType DEF CountsInv
    <3>2. me[i].failure = "counts" => Cardinality(corpora) > 1
      BY DEF CountsInv, Counts
    <3> QED
      BY <2>1, <3>1, <3>2
  <2>8. Counts(i)'
    BY <2>1, <2>2, <2>6, <2>7, <2>3 DEF Counts, Written, Earlier, Writing
  <2>9. \A row \in stored' \cup tx'[i] : Registered(row)'
    BY <2>2, <2>3, <2>5 DEF CountsInv
  <2> QED
    BY <2>1, <2>2, <2>4, <2>8, <2>9, CountsStep
<1> QED
  BY <1>1, <1>2 DEF Registers

(* A row of a batch is inserted. *)
LEMMA InsertCounts ==
  ASSUME IInv, CountsInv, NEW i \in Ingestors, NEW row, InsertRow(i, row), Registered(row),
         \A j \in Ingestors \ {i} : me'[j] = me[j], Counts(i)'
  PROVE  CountsInv'
<1>1. /\ corpora' = corpora /\ stored' = stored
      /\ tx'[i] \subseteq tx[i] \cup {row} /\ \A j \in Ingestors \ {i} : tx'[j] = tx[j]
  BY DEF InsertRow, IInv, ITypeOK
<1>2. \A r : Registered(r)' <=> Registered(r)
  BY <1>1 DEF Registered
<1>3. \A r \in stored' \cup tx'[i] : Registered(r)'
  BY <1>1, <1>2 DEF CountsInv, Counts
<1> QED
  BY <1>1, <1>3, CountsStep DEF CountsInv

LEMMA WritesRowCounts ==
  ASSUME IInv, CountsInv, NEW i \in Ingestors, WritesRow(i)
  PROVE  CountsInv'
<1> DEFINE t == me[i].pc
           k == me[i].at
           row == RowOf(t, Content(i), k)
<1>1. /\ t \in Writing /\ k <= me[i].upto /\ InsertRow(i, row) /\ Counts(i)
      /\ me[i].upto <= SizeOf(t, Content(i)) /\ Content(i) \in corpora /\ Content(i) \in Contents
  BY DEF WritesRow, CountsInv, Counts, Knowing, Inserting, Writing, IInv, Sound
<1>2. k \in Nat /\ 1 <= k /\ k <= SizeOf(t, Content(i)) /\ SizeOf(t, Content(i)) \in 1..Documents
      /\ Documents \in Nat
  BY <1>1, SizeType, FileTypes, StoreAssumption DEF Locals
<1>3. Registered(row)
  <2>1. t \in {"queries", "qrels"} => k \in 1..Relevances[Content(i)]
    BY <1>2, StoreAssumption DEF SizeOf
  <2>2. row[1] = t
    BY DEF RowOf
  <2> QED
    BY <1>1, <2>1, <2>2 DEF Registered
<1>4. /\ me'[i].pc = t /\ me'[i].at = k + 1 /\ me'[i].upto = me[i].upto
      /\ Content(i)' = Content(i) /\ me'[i].failure = me[i].failure
      /\ \A j \in Ingestors \ {i} : me'[j] = me[j]
  BY FileTypes DEF WritesRow, Locals, Content
<1>5. /\ corpora' = corpora /\ stored' = stored
      /\ stored' \cup tx'[i] = stored \cup tx[i] \cup {row}
  <2>1. tx' = [tx EXCEPT ![i] = IF row \in stored THEN @ ELSE @ \cup {row}] /\ stored' = stored
        /\ corpora' = corpora
    BY <1>1 DEF InsertRow
  <2> QED
    BY <2>1 DEF IInv, ITypeOK
<1>6. Written(t, Content(i), me'[i].at - 1, stored' \cup tx'[i])
  <2>1. \A l \in 1..(me'[i].at - 1) : l \in 1..(k - 1) \/ l = k
    BY <1>2, <1>4
  <2> QED
    BY <1>1, <1>5, <2>1 DEF Counts, Written
<1>7. \A r \in tx'[i] : Registered(r)'
  <2>1. \A r : Registered(r)' <=> Registered(r)
    BY <1>5 DEF Registered
  <2> QED
    BY <1>1, <1>3, <1>5, <2>1 DEF Counts, CountsInv
<1>8. Counts(i)'
  <2>1. \A table \in Earlier(t) : Written(table, Content(i), SizeOf(table, Content(i)), stored')
    BY <1>1, <1>5 DEF Counts
  <2>2. me'[i].failure = "counts" => Cardinality(corpora') > 1
    BY <1>1, <1>4, <1>5 DEF Counts
  <2> HIDE DEF row, t, k
  <2> QED
    BY <1>1, <1>4, <1>5, <1>6, <1>7, <2>1, <2>2 DEF Counts
<1> HIDE DEF row
<1> QED
  BY <1>1, <1>3, <1>4, <1>8, InsertCounts

(* The rows of a batch are committed.  With the last one of a table every  *)
(* row of it is there.                                                     *)
LEMMA CommitsBatchCounts ==
  ASSUME IInv, CountsInv, NEW i \in Ingestors, CommitsBatch(i)
  PROVE  CountsInv'
<1> DEFINE t == me[i].pc
           c == Content(i)
           size == SizeOf(t, c)
<1>1. /\ t \in Writing /\ me[i].at > me[i].upto /\ Counts(i)
      /\ c \in corpora /\ c \in Contents
  BY DEF CommitsBatch, CountsInv, Counts, Knowing, Inserting, Writing, IInv, Sound
<1>2. /\ corpora' = corpora /\ stored' = stored \cup tx[i] /\ tx'[i] = {}
      /\ \A j \in Ingestors \ {i} : tx'[j] = tx[j]
  BY DEF CommitsBatch, CommitRows, IInv, ITypeOK
<1>3. \A r : Registered(r)' <=> Registered(r)
  BY <1>2 DEF Registered
<1>4. \A r \in stored' \cup tx'[i] : Registered(r)'
  BY <1>1, <1>2, <1>3 DEF CountsInv, Counts
<1>5. /\ size \in 1..Documents /\ me[i].at \in 1..(Documents + 1) /\ me[i].upto \in 0..Documents
      /\ Documents \in Nat
  BY <1>1, SizeType, FileTypes, StoreAssumption DEF Locals
<1>6. Written(t, c, me[i].at - 1, stored')
  BY <1>1, <1>2 DEF Counts
<1>7. ASSUME NEW table \in Earlier(t) PROVE Written(table, c, SizeOf(table, c), stored')
  BY <1>1, <1>2 DEF Counts, Written
<1>8. CASE me[i].upto < size /\ Turns(i, t, me[i].at, size)
  <2>1. me'[i].pc = t /\ me'[i].at = me[i].at /\ Content(i)' = c /\ me'[i].upto <= size
        /\ me'[i].failure = me[i].failure /\ \A j \in Ingestors \ {i} : me'[j] = me[j]
    BY <1>5, <1>8, TurnsLocals, BatchEndType DEF Content
  <2>2. Counts(i)'
    BY <1>1, <1>2, <1>4, <1>6, <1>7, <2>1 DEF Counts
  <2> QED
    BY <1>2, <1>4, <2>1, <2>2, CountsStep DEF CountsInv
<1>9. CASE ~(me[i].upto < size) /\ Turns(i, After(t), 1, SizeOf(After(t), c))
  <2>1. SizeOf(After(t), c) \in 1..Documents /\ 1 \in 1..(Documents + 1)
    BY <1>1, <1>5, SizeType
  <2>2. /\ me'[i].pc = After(t) /\ me'[i].at = 1 /\ Content(i)' = c
        /\ me'[i].upto <= SizeOf(After(t), c)
        /\ me'[i].failure = me[i].failure /\ \A j \in Ingestors \ {i} : me'[j] = me[j]
    BY <1>9, <2>1, TurnsLocals, BatchEndType DEF Content
  <2>3. Written(t, c, size, stored')
    <3>1. 1..size \subseteq 1..(me[i].at - 1)
      BY <1>1, <1>5, <1>9
    <3> QED
      BY <1>6, <3>1 DEF Written
  <2>4. Earlier(After(t)) \subseteq Earlier(t) \cup {t}
    BY <1>1 DEF Earlier, After, Writing
  <2>5. \A table \in Earlier(After(t)) : Written(table, c, SizeOf(table, c), stored')
    BY <1>7, <2>3, <2>4
  <2>6. Written(After(t), c, 1 - 1, stored' \cup tx'[i])
    BY DEF Written
  <2>7. Counts(i)'
    BY <1>1, <1>2, <1>4, <2>2, <2>5, <2>6 DEF Counts
  <2> QED
    BY <1>2, <1>4, <2>2, <2>7, CountsStep DEF CountsInv
<1> QED
  BY <1>8, <1>9 DEF CommitsBatch

(* Embeddings are no queries and no relevances. *)
LEMMA EmbedsCounts ==
  ASSUME IInv, CountsInv, NEW i \in Ingestors, EmbedsRow(i) \/ Advances(i)
  PROVE  CountsInv'
<1>1. me[i].pc \in {"embeddings", "advancing"} /\ Counts(i) /\ corpora' = corpora
  BY DEF EmbedsRow, Advances, InsertRow, CommitEmbeddings, Rollback, At, CountsInv
<1>2. \A r : Registered(r)' <=> Registered(r)
  BY <1>1 DEF Registered
<1>3. CASE EmbedsRow(i)
  <2> DEFINE row == RowOf("embeddings", Content(i), NextRow(i))
  <2>1. InsertRow(i, row) /\ Registered(row)
    BY <1>3 DEF EmbedsRow, Registered, RowOf
  <2>2. /\ me'[i].pc = me[i].pc /\ Content(i)' = Content(i) /\ me'[i].failure = me[i].failure
        /\ \A j \in Ingestors \ {i} : me'[j] = me[j]
    BY <1>3, FileTypes DEF EmbedsRow, Locals, Content
  <2>3. stored' = stored /\ tx'[i] \subseteq tx[i] \cup {row}
    BY <2>1 DEF InsertRow, IInv, ITypeOK
  <2>4. Counts(i)'
    BY <1>1, <1>2, <2>1, <2>2, <2>3 DEF Counts, Earlier, Writing
  <2> QED
    BY <2>1, <2>2, <2>4, InsertCounts
<1>4. CASE Advances(i) /\ NextBatch(i) /\ CommitEmbeddings(i, Content(i), me[i].row)
  <2>1. /\ me'[i].pc \in {"missing", "refresh"} /\ Content(i)' = Content(i)
        /\ me'[i].failure = me[i].failure /\ \A j \in Ingestors \ {i} : me'[j] = me[j]
    BY <1>4, TurnsLocals DEF NextBatch, Content
  <2>2. /\ stored' = stored \cup tx[i] /\ tx'[i] = {}
        /\ \A j \in Ingestors \ {i} : tx'[j] = tx[j]
    BY <1>4 DEF CommitEmbeddings, IInv, ITypeOK
  <2>3. \A r \in stored' \cup tx'[i] : Registered(r)'
    BY <1>1, <1>2, <2>2 DEF CountsInv, Counts
  <2>4. Counts(i)'
    BY <1>1, <2>1, <2>2, <2>3 DEF Counts, Earlier, Writing, Knowing, Inserting, Embedding
  <2> QED
    BY <1>1, <2>1, <2>2, <2>3, <2>4, CountsStep DEF CountsInv
<1>5. CASE me' = [me EXCEPT ![i] = Idle("progress")] /\ Rollback(i)
  BY <1>5, EndsCounts DEF Rollback
<1> QED
  BY <1>3, <1>4, <1>5 DEF Advances

(* What validate_persisted_counts compares can only differ if another      *)
(* content has been registered.                                            *)
LEMMA CountsAgree ==
  ASSUME IInv, CountsInv, NEW i \in Ingestors, me[i].pc = "validate",
         ~(Cardinality(corpora) > 1)
  PROVE  PersistedCounts(Content(i)) = SourceCounts(Content(i))
<1> DEFINE c == Content(i)
<1>1. c \in corpora /\ c \in Contents /\ Counts(i)
  BY DEF CountsInv, Counts, Knowing, Inserting, Writing, IInv, Sound
<1>2. corpora = {c}
  <2> SUFFICES ASSUME NEW d \in corpora, d # c PROVE FALSE
    BY <1>1
  <2>1. IsFiniteSet({c}) /\ Cardinality({c}) = 1
    BY FS_Singleton
  <2>2. IsFiniteSet({c} \cup {d}) /\ Cardinality({c} \cup {d}) = 1 + 1
    BY <2>1, FS_AddElement
  <2>3. Cardinality({c} \cup {d}) <= Cardinality(corpora) /\ Cardinality(corpora) \in Nat
    BY <1>1, FS_Subset, FS_CardinalityType DEF CountsInv
  <2> QED
    BY <2>2, <2>3
<1>3. \A table \in Writing : Written(table, c, SizeOf(table, c), stored)
  BY <1>1 DEF Counts, Earlier
<1>4. CountOf("documents", c) = Documents
  <2>1. {k \in Numbers : RowOf("documents", c, k) \in stored} = Numbers
    BY <1>3 DEF Written, SizeOf, Writing, Numbers
  <2> QED
    BY <2>1, NumbersFinite DEF CountOf
<1>5. ASSUME NEW table \in {"queries", "qrels"} PROVE Count(table) = Relevances[c]
  <2> DEFINE K == 1..Relevances[c]
             R == {row \in stored : row[1] = table}
             f == [k \in K |-> RowOf(table, c, k)]
  <2>1. IsFiniteSet(K) /\ Cardinality(K) = Relevances[c]
    <3>1. Relevances[c] \in Nat /\ 1 <= Relevances[c]
      BY <1>1, StoreAssumption
    <3>2. \A n \in Int : IsFiniteSet(1..n) /\ Cardinality(1..n) = IF 1 > n THEN 0 ELSE n - 1 + 1
      BY FS_Interval
    <3> QED
      BY <3>1, <3>2
  <2>2. \A k \in K : f[k] \in R
    BY <1>3 DEF Written, SizeOf, Writing, RowOf
  <2>3. \A k, l \in K : f[k] = f[l] => k = l
    BY DEF RowOf
  <2>4. \A row \in R : \E k \in K : f[k] = row
    BY <1>2 DEF CountsInv, Registered
  <2>5. f \in Bijection(K, R)
    <3>1. f \in [K -> R]
      BY <2>2
    <3> HIDE DEF f, K, R
    <3> QED
      BY <3>1, <2>3, <2>4 DEF Bijection, Injection, Surjection, IsInjective
  <2>6. ExistsBijection(K, R)
    BY <2>5 DEF ExistsBijection
  <2> QED
    BY <2>1, <2>6, FS_Bijection DEF Count
<1> QED
  BY <1>4, <1>5 DEF PersistedCounts, SourceCounts

(* The other steps of a stage leave the rows as they are. *)
LEMMA InStageCounts ==
  ASSUME IInv, CountsInv, NEW i \in Ingestors, InStage(i)
  PROVE  CountsInv'
<1>1. CASE WritesRow(i) \/ CommitsBatch(i) \/ EmbedsRow(i) \/ Advances(i)
  BY <1>1, WritesRowCounts, CommitsBatchCounts, EmbedsCounts
<1>2. CASE \/ Hydrated(i) \/ FindsIndex(i) \/ Validates(i) \/ ReadsMissing(i) \/ LocksIndex(i)
           \/ Refreshes(i) \/ \E n \in {DatasetFiles, Parts} : Lists(i, n)
  <2>1. UNCHANGED <<corpora, stored, tx>>
    BY <1>2 DEF Hydrated, FindsIndex, CreateIndex, Validates, ReadsMissing, LocksIndex, LockIndex,
       Refreshes, CommitRefresh, Lists, Fails, storeVars
  <2>2. CASE Within(i) /\ me'[i].pc \notin Writing \cup {"validate"}
    BY <2>1, <2>2, QuietCounts DEF Within, Knowing, Inserting, Embedding, Writing
  <2>3. CASE Within(i) /\ me'[i].pc \in Writing \cup {"validate"}
    <3>1. me[i].pc \in Writing
      BY <2>3 DEF Within, Embedding, Writing
    <3> QED
      BY <1>2, <3>1 DEF Hydrated, FindsIndex, Validates, ReadsMissing, LocksIndex, Refreshes, Lists,
         At, Writing
  <2>4. CASE Refreshed(i)
    <3>1. /\ me'[i].pc = "publish" /\ me'[i].failure = "none"
          /\ \A j \in Ingestors \ {i} : me'[j] = me[j]
      BY <2>4, FileTypes DEF Refreshed, Idle
    <3> QED
      BY <2>1, <3>1, QuietCounts DEF Knowing, Inserting, Embedding, Writing
  <2>5. ASSUME NEW why \in {"counts", "unique", "progress"},
               me' = [me EXCEPT ![i] = Idle(why)], why = "counts" => Validates(i)
        PROVE  CountsInv'
    <3>1. why = "counts" => Cardinality(corpora) > 1
      <4> SUFFICES ASSUME Validates(i), ~(Cardinality(corpora) > 1),
                          me'[i].pc = "down"
                   PROVE  FALSE
        BY <2>5, FileTypes DEF Idle
      <4>1. PersistedCounts(Content(i)) = SourceCounts(Content(i))
        BY CountsAgree DEF Validates, At
      <4> QED
        BY <4>1, FileTypes DEF Validates, Goto, Locals
    <3> QED
      BY <2>1, <2>5, <3>1, EndsCounts
  <2> QED
    BY <2>2, <2>3, <2>4, <2>5, StageMoves
<1> QED
  BY <1>1, <1>2 DEF InStage

LEMMA InitCounts == IInit => CountsInv
<1> SUFFICES ASSUME IInit PROVE CountsInv
  OBVIOUS
<1>1. corpora = {} /\ stored = {} /\ \A i \in Ingestors : tx[i] = {} /\ me[i] = Idle("none")
  BY DEF IInit, Init
<1>2. \A i \in Ingestors : Counts(i)
  BY <1>1 DEF Counts, Idle, Earlier, Knowing, Inserting, Embedding, Writing
<1> QED
  BY <1>1, <1>2, FS_EmptySet DEF CountsInv

LEMMA StepCounts == IInv /\ CountsInv /\ [INext]_vars => CountsInv'
<1> SUFFICES ASSUME IInv, CountsInv, [INext]_vars PROVE CountsInv'
  OBVIOUS
<1>1. CASE UNCHANGED vars \/ Edits
  <2>1. UNCHANGED <<me, corpora, stored, tx>>
    BY <1>1 DEF Edits, vars, storeVars, processVars
  <2> QED
    BY <2>1 DEF CountsInv, Counts, Registered, Content
<1>2. ASSUME NEW i \in Ingestors, Step(i) PROVE CountsInv'
  BY <1>2, OutsideCounts, InStageCounts, RegistersCounts DEF Step, InStage
<1>3. ASSUME NEW i \in Ingestors, Dies(i) PROVE CountsInv'
  BY <1>3, EndsCounts DEF Dies, Rollback
<1> QED
  BY <1>1, <1>2, <1>3 DEF INext

(* Counts differ only after another content has been registered, which     *)
(* does not happen where every process has a disk of its own; what else    *)
(* fails an ingestion is torn files on a shared disk, or files published   *)
(* by halves (validate_persisted_counts, build, materialize_dataset).      *)
THEOREM FailuresHaveReasons == ISpec => []FailuresAreExplained
<1>1. ASSUME IInv, FilesInv, CountsInv PROVE FailuresAreExplained
  <2>1. Cardinality(corpora) > 1 => ~cloud
    <3> SUFFICES ASSUME cloud PROVE ~(Cardinality(corpora) > 1)
      OBVIOUS
    <3>1. IsFiniteSet({Pinned}) /\ Cardinality({Pinned}) = 1
      BY FS_Singleton
    <3>2. corpora \subseteq {Pinned}
      BY <1>1 DEF FilesInv
    <3>3. Cardinality(corpora) <= 1 /\ Cardinality(corpora) \in Nat
      BY <3>1, <3>2, FS_Subset, FS_CardinalityType
    <3> QED
      BY <3>3
  <2> QED
    BY <1>1, <2>1 DEF IInv, Sound, FilesInv, OwnFiles, SharedFiles, CountsInv, Counts,
       FailuresAreExplained
<1>2. ISpec => []CountsInv
  BY InitCounts, StepCounts, IngestionInvariant, PTL DEF ISpec
<1> QED
  BY <1>1, <1>2, FilesInvariant, PTL
=============================================================================
