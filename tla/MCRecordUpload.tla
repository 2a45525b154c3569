-------------------------- MODULE MCRecordUpload ---------------------------
(* Small instances of RecordUpload for TLC.                                *)
EXTENDS RecordUpload, TLC

Uploads == Permutations(Request)
=============================================================================
