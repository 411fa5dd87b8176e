----------------------------- MODULE Artifacts -----------------------------
(***************************************************************************)
(* The files of one dataset on local storage and in the bucket: the        *)
(* extracted dataset cache (ingestion/sources.py), the content-addressed   *)
(* BM25 directory (ingestion/artifacts.py), and their publication and      *)
(* hydration by S3ArtifactStore (artifact_store.py).                       *)
(*                                                                         *)
(* A storage is a function from files to what is there.  "data" stands for *)
(* corpus, queries and relevances, torn while some of it is missing or cut *)
(* short; "marker" is the .complete file beside it.  A BM25 directory has  *)
(* the files of Parts and is intact, by its hash, if it has them all.      *)
(* Objects of the bucket and downloads appear whole or not at all; the     *)
(* archive, verified before it gets its name, is left out.                 *)
(***************************************************************************)
EXTENDS Naturals, FiniteSets

CONSTANTS
  Places,  \* local storages
  Parts    \* files of the BM25 directory

DatasetFiles == {"marker", "data"}
Files == DatasetFiles \cup Parts

ASSUME ArtifactAssumption ==
  /\ Parts # {}
  /\ Parts \cap DatasetFiles = {}

Contained == {"absent", "torn", "whole"}
Storage == [Files -> Contained]
Nothing == [f \in Files |-> "absent"]

VARIABLES
  disk,    \* the local storage of each place
  bucket   \* the objects in S3

fileVars == <<disk, bucket>>

FInit ==
  /\ disk = [p \in Places |-> Nothing]
  /\ bucket = Nothing

Has(storage, f) == storage[f] # "absent"
Present(storage) == {f \in Files : Has(storage, f)}
DirectoryExists(storage) == \E f \in Parts : Has(storage, f)
Intact(storage) == \A f \in Parts : storage[f] = "whole"

Put(p, f, x) ==
  /\ disk' = [disk EXCEPT ![p] = [@ EXCEPT ![f] = x]]
  /\ UNCHANGED bucket

(* materialize_dataset: the archive is unpacked over what is there, and    *)
(* the marker written when the directory has what a dataset needs.         *)
(* Extraction truncates each file and writes it again, so that files are   *)
(* torn while anybody extracts, and stay so if a process has died over a   *)
(* file that nobody extracts after it.                                     *)
ExtractStart(p) == Put(p, "data", "torn")
ExtractEnd(p, torn) == Put(p, "data", IF torn THEN "torn" ELSE "whole")
Mark(p) == Put(p, "marker", "whole")

(* Mutant: the directory is built in its place, without a temporary one. *)
BuildInPlace(p) ==
  /\ \E f \in Parts : disk[p][f] = "absent" /\ Put(p, f, "whole")

(* Bm25sIndexBuilder.build: a finished temporary directory takes the name  *)
(* of its hash in one step                                                 *)
Build(p) ==
  /\ ~DirectoryExists(disk[p])
  /\ disk' = [disk EXCEPT ![p] = [f \in Files |-> IF f \in Parts THEN "whole" ELSE @[f]]]
  /\ UNCHANGED bucket

(* The order in which a tree is listed and transferred: of two files in    *)
(* todo the marker goes before the data beside it.                         *)
Transferable(todo, f) == f \in todo /\ (f = "data" => "marker" \notin todo)

Download(p, f) == Put(p, f, bucket[f])

Upload(p, f) ==
  /\ bucket' = [bucket EXCEPT ![f] = disk[p][f]]
  /\ UNCHANGED disk

Wipe(p) ==
  /\ disk' = [disk EXCEPT ![p] = Nothing]
  /\ UNCHANGED bucket
=============================================================================
