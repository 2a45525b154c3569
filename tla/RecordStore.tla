---------------------------- MODULE RecordStore ----------------------------
(***************************************************************************)
(* What record intake promises to everything that reads records, whatever  *)
(* happens to storage, to the database connection or to the process:       *)
(*                                                                         *)
(*   - a file appears in the metadata in one step, together with its       *)
(*     record or as the new current version of its record;                 *)
(*   - it appears only when its object can be read, and from then on both  *)
(*     its row and its object are permanent;                               *)
(*   - a record has one current file, the one published last.              *)
(*                                                                         *)
(* The objects of files that are not in the metadata are nobody's promise: *)
(* they may come and go.                                                   *)
(***************************************************************************)
CONSTANTS
  File,      \* file ids
  RecordId,  \* record ids
  Existing,  \* records that were there to begin with, each with one file
  NoRecord

VARIABLES
  row,      \* the record of each file that has a row, NoRecord for the others
  current,  \* the files whose row says isCurrent
  readable  \* the files whose object storage will hand out

vars == <<row, current, readable>>

Files(rec) == {f \in File : row[f] = rec}

Linked == {f \in File : row[f] # NoRecord}

Init ==
  /\ row = [f \in File |-> IF f \in Existing THEN f ELSE NoRecord]
  /\ current = Existing
  /\ readable = Existing

(* A file's metadata is committed; it replaces its record's current file.  *)
Publish(f, rec) ==
  /\ row[f] = NoRecord
  /\ f \in readable
  /\ row' = [row EXCEPT ![f] = rec]
  /\ current' = (current \ Files(rec)) \cup {f}
  /\ UNCHANGED readable

(* Objects without metadata are written, accepted or removed.              *)
Restock ==
  /\ readable' \in SUBSET File
  /\ Linked \subseteq readable'
  /\ UNCHANGED <<row, current>>

Next == (\E f \in File, rec \in RecordId : Publish(f, rec)) \/ Restock

Spec == Init /\ [][Next]_vars
=============================================================================
