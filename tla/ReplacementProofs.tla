------------------------- MODULE ReplacementProofs -------------------------
(***************************************************************************)
(* Proofs about what the requests of RecordUpload share: the current file  *)
(* of a record.  Every record keeps exactly one, and record intake         *)
(* implements the promise of RecordStore.                                  *)
(*                                                                         *)
(* A replacement retires the file its snapshot saw.  Nobody else can have  *)
(* retired it by the time COMMIT takes effect, because the replacement     *)
(* holds the row lock of its record from before the conflict check until   *)
(* then (ReplacementInv), also when its client has gone.                   *)
(***************************************************************************)
EXTENDS RecordUploadProofs

USE DEF At, Move, Finish, Throw, Settle, Append, Fault, progress

InTransaction(r) == pc[r] \in {"callback", "commit"} \/ r \in pending

MayApply(r) == pc[r] = "commit" \/ r \in pending

HoldsRowLock(r) == Replaces(r) /\ InTransaction(r) => lock[Record(r)] = r

SawOneFile(r) ==
  Replaces(r) /\ (pc[r] = "lock" \/ InTransaction(r)) =>
    \E g \in linked : /\ snapshot[r].current = {g}
                      /\ g # r
                      /\ RecordOf(g) = Record(r)

RetiresCurrent(r) == MayApply(r) => Retired(r) \subseteq current

ReplacementInv(r) == HoldsRowLock(r) /\ SawOneFile(r) /\ RetiresCurrent(r)

SharedInv == OneCurrentFile /\ \A r \in Request : ReplacementInv(r)

Publishes(r) == MayApply(r) /\ Apply(r) /\ UNCHANGED <<input, object>>

----------------------------------------------------------------------------
(* Steps, seen from the shared state.                                      *)

LEMMA LinkedOnlyByApply ==
  ASSUME TypeOK, NEW r \in Request, StepOf(r)
  PROVE  Publishes(r) \/ UNCHANGED <<linked, current>>
<1> USE DEF local, database, storeVars, Publishes, MayApply
<1>1. CASE Arrive(r) \/ Authorise(r) \/ Stage(r) \/ Resession(r) \/ Prepare(r)
  BY <1>1 DEF Arrive, Authorise, Stage, Resession, Prepare
<1>2. CASE \/ Put(r) \/ Readback(r) \/ UndoPut(r) \/ WriteFailed(r)
           \/ Scan(r) \/ Accept(r) \/ Reject(r) \/ Rejected(r)
  BY <1>2 DEF Put, Readback, UndoPut, WriteFailed, Scan, Accept, Reject,
              Rejected
<1>3. CASE Begin(r) \/ Lock(r) \/ Callback(r) \/ Commit(r) \/ Resolve(r)
  BY <1>3 DEF Begin, Lock, Callback, Commit, Resolve, Abort
<1>4. CASE \/ Confirm(r) \/ Compensate(r) \/ Delete(r) \/ CleanupRequired(r)
           \/ Release(r)
  BY <1>4 DEF Confirm, Compensate, Delete, CleanupRequired, Release
<1> QED
  BY <1>1, <1>2, <1>3, <1>4 DEF StepOf, RequestStep

(* What a request uploads is settled once it has arrived.                  *)
LEMMA InputFixed ==
  ASSUME NEW r \in Request, StepOf(r), pc[r] # "idle"
  PROVE  UNCHANGED input
<1> USE DEF local
<1>1. CASE Arrive(r) \/ Authorise(r) \/ Stage(r) \/ Resession(r) \/ Prepare(r)
  BY <1>1 DEF Arrive, Authorise, Stage, Resession, Prepare
<1>2. CASE \/ Put(r) \/ Readback(r) \/ UndoPut(r) \/ WriteFailed(r)
           \/ Scan(r) \/ Accept(r) \/ Reject(r) \/ Rejected(r)
  BY <1>2 DEF Put, Readback, UndoPut, WriteFailed, Scan, Accept, Reject,
              Rejected
<1>3. CASE Begin(r) \/ Lock(r) \/ Callback(r) \/ Commit(r) \/ Resolve(r)
  BY <1>3 DEF Begin, Lock, Callback, Commit, Resolve, Abort
<1>4. CASE \/ Confirm(r) \/ Compensate(r) \/ Delete(r) \/ CleanupRequired(r)
           \/ Release(r)
  BY <1>4 DEF Confirm, Compensate, Delete, CleanupRequired, Release
<1> QED
  BY <1>1, <1>2, <1>3, <1>4 DEF StepOf, RequestStep

(* A request unlocks only what it locked, and locks only what is free.     *)
LEMMA OthersKeepLocks ==
  ASSUME TypeOK, NEW r \in Request, StepOf(r),
         NEW q \in Request, q # r, NEW rec \in Existing, lock[rec] = q
  PROVE  lock'[rec] = q
<1> USE DEF TypeOK, database, Unlock
<1>1. CASE Lock(r)
  BY <1>1, DistinctIds DEF Lock, Abort, File
<1>2. CASE Callback(r) \/ Commit(r) \/ Resolve(r)
  BY <1>2 DEF Callback, Commit, Resolve, Abort, Apply
<1>3. CASE \/ Arrive(r) \/ Authorise(r) \/ Stage(r) \/ Resession(r)
           \/ Prepare(r) \/ Begin(r)
  BY <1>3 DEF Arrive, Authorise, Stage, Resession, Prepare, Begin
<1>4. CASE \/ Put(r) \/ Readback(r) \/ UndoPut(r) \/ WriteFailed(r)
           \/ Scan(r) \/ Accept(r) \/ Reject(r) \/ Rejected(r)
  BY <1>4 DEF Put, Readback, UndoPut, WriteFailed, Scan, Accept, Reject,
              Rejected
<1>5. CASE \/ Confirm(r) \/ Compensate(r) \/ Delete(r) \/ CleanupRequired(r)
           \/ Release(r)
  BY <1>5 DEF Confirm, Compensate, Delete, CleanupRequired, Release
<1> QED
  BY <1>1, <1>2, <1>3, <1>4, <1>5 DEF StepOf, RequestStep

(* A file keeps its place in the metadata, and its record.                 *)
LEMMA LinkedKeepsRecord ==
  ASSUME TypeOK, RequestsInv, NEW r \in Request, StepOf(r), NEW f \in linked
  PROVE  f \in linked' /\ RecordOf(f)' = RecordOf(f)
<1>1. f \in linked'
  BY LinkedOnlyByApply DEF Publishes, Apply
<1>2. CASE f \in Existing
  BY <1>1, <1>2 DEF RecordOf
<1>3. CASE f = r
  <2>1. pc[r] # "idle"
    BY <1>3 DEF RequestsInv, RequestInv, CommitInv, MayBeLinked
  <2> QED
    BY <1>1, <2>1, InputFixed DEF RecordOf, Record
<1>4. CASE f \in Request \ {r}
  BY <1>1, <1>4, OthersUntouched DEF UntouchedRequest, RecordOf, Record, File
<1> QED
  BY <1>2, <1>3, <1>4 DEF TypeOK, File

(* Only the file that created a record can be its first.                   *)
LEMMA NewRecordHasNoFile ==
  ASSUME TypeOK, RequestsInv, NEW r \in Request, ~Replaces(r), NEW f \in File,
         RecordOf(f) = Record(r)
  PROVE  f = r
<1>1. CASE f \in Existing
  BY <1>1, DistinctIds DEF RecordOf, Replaces
<1>2. CASE f \in Request \ Existing
  BY <1>2, DistinctIds DEF RecordOf, Replaces, RequestsInv, RequestInv
<1> QED
  BY <1>1, <1>2 DEF File

(* What COMMIT retires is what is current in the record, no more, no less. *)
LEMMA RetiresTheCurrentFile ==
  ASSUME TypeOK, RequestsInv, SharedInv, NEW r \in Request, MayApply(r)
  PROVE  Retired(r) = CurrentOf(Record(r)) /\ r \notin linked
<1>1. r \notin linked
  BY DEF RequestsInv, RequestInv, CommitInv, MayBeLinked, MayApply
<1>2. CASE Replaces(r)
  <2>1. PICK g \in linked : /\ snapshot[r].current = {g}
                            /\ RecordOf(g) = Record(r)
    BY <1>2 DEF SharedInv, ReplacementInv, SawOneFile, MayApply, InTransaction
  <2>2. PICK h \in linked : CurrentOf(Record(r)) = {h}
    BY <2>1 DEF SharedInv, OneCurrentFile
  <2>3. g \in current
    BY <1>2, <2>1 DEF SharedInv, ReplacementInv, RetiresCurrent, Retired
  <2>4. g \in CurrentOf(Record(r))
    BY <2>1, <2>3 DEF CurrentOf
  <2> QED
    BY <1>1, <1>2, <2>1, <2>2, <2>4 DEF Retired
<1>3. CASE ~Replaces(r)
  <2>1. CurrentOf(Record(r)) = {}
    BY <1>1, <1>3, NewRecordHasNoFile DEF CurrentOf, TypeOK
  <2> QED
    BY <1>1, <1>3, <2>1 DEF Retired
<1> QED
  BY <1>2, <1>3

----------------------------------------------------------------------------
(* One request's step and the replacements in progress.                    *)

(* Somebody else's COMMIT does not retire what r is about to retire: it    *)
(* would have to hold the lock that r holds.                               *)
LEMMA OthersKeepReplacement ==
  ASSUME TypeOK, RequestsInv, SharedInv, NEW r \in Request, StepOf(r),
         NEW q \in Request, q # r
  PROVE  ReplacementInv(q)'
<1> USE DEF SharedInv, ReplacementInv, InTransaction, MayApply
<1>1. UntouchedRequest(q)
  BY OthersUntouched DEF File
<1>2. /\ pc'[q] = pc[q] /\ (q \in pending' <=> q \in pending)
      /\ Record(q)' = Record(q) /\ Replaces(q)' = Replaces(q)
      /\ snapshot'[q] = snapshot[q] /\ Retired(q)' = Retired(q)
  BY <1>1 DEF UntouchedRequest, Untouched, Record, Replaces, Retired
<1>3. Record(q) \in Existing \/ ~Replaces(q)
  BY DEF RequestsInv, RequestInv, Replaces
<1>4. HoldsRowLock(q)'
  BY <1>2, <1>3, OthersKeepLocks DEF HoldsRowLock
<1>5. SawOneFile(q)'
  BY <1>2, LinkedKeepsRecord DEF SawOneFile
<1>6. RetiresCurrent(q)'
  <2> SUFFICES ASSUME MayApply(q), Publishes(r)
               PROVE  Retired(q) \subseteq current'
    BY <1>2, LinkedOnlyByApply DEF RetiresCurrent
  <2>1. Retired(q) = CurrentOf(Record(q)) /\ Retired(r) = CurrentOf(Record(r))
    BY RetiresTheCurrentFile DEF Publishes
  <2>2. CASE Replaces(q) /\ Record(q) = Record(r)
    <3>1. Replaces(r)
      BY <1>3, <2>2, DistinctIds DEF Replaces
    <3>2. lock[Record(q)] = q /\ lock[Record(r)] = r
      BY <2>2, <3>1 DEF HoldsRowLock, Publishes
    <3> QED
      BY <2>2, <3>2
  <2>3. CASE Replaces(q) /\ Record(q) # Record(r)
    BY <2>1, <2>3 DEF Publishes, Apply, CurrentOf
  <2>4. CASE ~Replaces(q)
    BY <2>4 DEF Retired
  <2> QED
    BY <2>2, <2>3, <2>4
<1> QED
  BY <1>4, <1>5, <1>6

LEMMA OwnReplacement ==
  ASSUME TypeOK, RequestsInv, SharedInv, NEW r \in Request, StepOf(r)
  PROVE  ReplacementInv(r)'
<1> USE DEF TypeOK, local, database, storeVars, SharedInv, ReplacementInv,
            HoldsRowLock, SawOneFile, RetiresCurrent, InTransaction, MayApply,
            Record, Replaces, Retired
<1>1. r \notin pending \/ pc[r] \in {"release", "done", "confirm"}
  BY DEF RequestsInv, RequestInv, CommitInv, MayBeLinked
<1>2. \A f \in linked : f \in linked' /\ RecordOf(f)' = RecordOf(f)
  BY LinkedKeepsRecord
<1>3. CASE \/ Authorise(r) \/ Stage(r) \/ Resession(r) \/ Prepare(r)
           \/ Put(r) \/ Readback(r) \/ UndoPut(r) \/ WriteFailed(r)
           \/ Scan(r) \/ Accept(r) \/ Reject(r) \/ Rejected(r)
  <2>1. r \notin pending' /\ pc'[r] \notin {"lock", "callback", "commit"}
    BY <1>1, <1>3 DEF Authorise, Stage, Resession, Prepare, Put, Readback,
                      UndoPut, WriteFailed, Scan, Accept, Reject, Rejected
  <2> QED
    BY <2>1
<1>4. CASE Arrive(r)
  <2>1. r \notin pending' /\ pc'[r] \notin {"lock", "callback", "commit"}
    BY <1>1, <1>4 DEF Arrive
  <2> QED
    BY <2>1
<1>5. CASE Begin(r)
  <2>1. r \notin pending' /\ pc'[r] \notin {"commit"} /\ Record(r)' = Record(r)
        /\ (Replaces(r) => pc'[r] = "lock")
        /\ snapshot'[r].current = CurrentOf(Record(r))
    BY <1>1, <1>5 DEF Begin
  <2>2. ASSUME Replaces(r)
        PROVE  \E g \in linked : /\ CurrentOf(Record(r)) = {g}
                                 /\ g # r
                                 /\ RecordOf(g) = Record(r)
    <3>1. Record(r) \in Existing /\ Record(r) \in linked
      BY <2>2 DEF RequestsInv, RequestInv, ExistingInv
    <3>2. PICK g \in linked : CurrentOf(Record(r)) = {g}
      BY <3>1 DEF OneCurrentFile, RecordOf
    <3>3. r \notin linked
      BY <1>5 DEF RequestsInv, RequestInv, CommitInv, MayBeLinked, Begin
    <3> QED
      BY <3>2, <3>3 DEF CurrentOf
  <2> QED
    BY <1>2, <2>1, <2>2
<1>6. CASE Lock(r)
  <2>1. UNCHANGED <<linked, current, input, snapshot>> /\ r \notin pending'
        /\ pc'[r] \in {"callback", "confirm"}
    BY <1>1, <1>6 DEF Lock, Abort
  <2>2. Replaces(r) => Record(r) \in Existing
    BY DEF RequestsInv, RequestInv
  <2>3. pc'[r] = "callback" /\ Replaces(r) => lock'[Record(r)] = r
    BY <1>6, <2>2 DEF Lock, Abort
  <2> QED
    BY <1>2, <1>6, <2>1, <2>3 DEF Lock
<1>7. CASE Callback(r)
  BY <1>1, <1>2, <1>7 DEF Callback, Abort, WriteConflict
<1>8. CASE Commit(r)
  BY <1>1, <1>2, <1>8 DEF Commit, Abort, Apply
<1>9. CASE Confirm(r) \/ Compensate(r) \/ Delete(r) \/ CleanupRequired(r) \/ Release(r)
  <2>1. /\ UNCHANGED <<linked, current, lock, pending, input, snapshot>>
        /\ pc'[r] \notin {"lock", "callback", "commit"}
    BY <1>9 DEF Confirm, Compensate, Delete, CleanupRequired, Release
  <2> QED
    BY <1>2, <2>1
<1>10. CASE Resolve(r)
  BY <1>1, <1>10 DEF Resolve, Apply
<1> QED
  BY <1>3, <1>4, <1>5, <1>6, <1>7, <1>8, <1>9, <1>10 DEF StepOf, RequestStep

(* Publishing a file leaves every record with one current file.            *)
LEMMA StepKeepsOneCurrentFile ==
  ASSUME TypeOK, RequestsInv, SharedInv, NEW r \in Request, StepOf(r)
  PROVE  OneCurrentFile'
<1>1. \A f \in linked : f \in linked' /\ RecordOf(f)' = RecordOf(f)
  BY LinkedKeepsRecord
<1>2. CASE UNCHANGED <<linked, current>>
  <2> SUFFICES ASSUME NEW f \in linked
               PROVE  \E g \in linked : CurrentOf(RecordOf(f))' = {g}
    BY <1>2 DEF OneCurrentFile
  <2>1. PICK g \in linked : CurrentOf(RecordOf(f)) = {g}
    BY DEF SharedInv, OneCurrentFile
  <2>2. CurrentOf(RecordOf(f))' = CurrentOf(RecordOf(f))
    BY <1>1, <1>2 DEF CurrentOf, TypeOK
  <2> QED
    BY <2>1, <2>2
<1>3. CASE Publishes(r)
  <2> USE <1>3 DEF Publishes
  <2>1. Retired(r) = CurrentOf(Record(r)) /\ r \notin linked
    BY RetiresTheCurrentFile
  <2>2. /\ linked' = linked \cup {r}
        /\ current' = (current \ CurrentOf(Record(r))) \cup {r}
        /\ RecordOf(r)' = RecordOf(r)
    BY <2>1 DEF Apply, RecordOf, Record
  <2>3. RecordOf(r) = Record(r)
    BY DistinctIds DEF RecordOf
  <2> SUFFICES ASSUME NEW f \in linked'
               PROVE  \E g \in linked' : CurrentOf(RecordOf(f))' = {g}
    BY DEF OneCurrentFile
  <2>4. RecordOf(f)' = RecordOf(f)
    BY <1>1, <2>2
  <2>5. CASE RecordOf(f) = Record(r)
    <3>1. CurrentOf(RecordOf(f))' = {r}
      BY <1>1, <2>2, <2>3, <2>4, <2>5 DEF CurrentOf, TypeOK
    <3> QED
      BY <2>2, <3>1
  <2>6. CASE RecordOf(f) # Record(r)
    <3>1. PICK g \in linked : CurrentOf(RecordOf(f)) = {g}
      BY <2>2, <2>3, <2>6 DEF SharedInv, OneCurrentFile
    <3>2. CurrentOf(RecordOf(f))' = CurrentOf(RecordOf(f))
      BY <1>1, <2>2, <2>3, <2>4, <2>6 DEF CurrentOf, TypeOK
    <3> QED
      BY <2>2, <3>1, <3>2
  <2> QED
    BY <2>5, <2>6
<1> QED
  BY <1>2, <1>3, LinkedOnlyByApply

(* A crash releases the locks of requests that are not waiting for COMMIT; *)
(* nothing else outside the requests touches what they share.              *)
LEMMA EnvironmentKeepsShared ==
  ASSUME TypeOK, RequestsInv, SharedInv, Environment
  PROVE  SharedInv'
<1> USE DEF database, local
<1>1. /\ UNCHANGED <<linked, current, pending, input, snapshot>>
      /\ UNCHANGED <<pc, lock>> \/ \A q \in Request : pc'[q] \in {"idle", "done"}
      /\ \A q \in pending, rec \in Existing : lock[rec] = q => lock'[rec] = q
  <2>1. CASE Crash
    BY <2>1 DEF Crash, Active, TypeOK
  <2>2. CASE Revoke \/ Restore \/ Reassign \/ BucketCatchesUp
    BY <2>2 DEF Revoke, Restore, Reassign, BucketCatchesUp
  <2> QED
    BY <2>1, <2>2 DEF Environment
<1>2. OneCurrentFile'
  BY <1>1 DEF SharedInv, OneCurrentFile, CurrentOf, RecordOf, Record
<1>3. ASSUME NEW q \in Request PROVE ReplacementInv(q)'
  <2>1. Replaces(q) => Record(q) \in Existing
    BY DEF RequestsInv, RequestInv, Replaces
  <2>2. q \in pending => pc[q] \in {"release", "done", "confirm"}
    BY DEF RequestsInv, RequestInv, CommitInv, MayBeLinked
  <2> USE DEF SharedInv, ReplacementInv, InTransaction, MayApply, Record,
              Replaces
  <2>3. HoldsRowLock(q)'
    BY <1>1, <2>1 DEF HoldsRowLock
  <2>4. SawOneFile(q)'
    BY <1>1 DEF SawOneFile, RecordOf
  <2>5. RetiresCurrent(q)'
    BY <1>1 DEF RetiresCurrent, Retired
  <2> QED
    BY <2>3, <2>4, <2>5
<1> QED
  BY <1>2, <1>3 DEF SharedInv

LEMMA SharedInvAlways == Spec => [](TypeOK /\ RequestsInv /\ SharedInv)
<1>1. Init => SharedInv
  <2> SUFFICES ASSUME Init PROVE SharedInv
    OBVIOUS
  <2>1. OneCurrentFile
    BY DistinctIds DEF Init, OneCurrentFile, CurrentOf, RecordOf
  <2>2. ASSUME NEW r \in Request PROVE ReplacementInv(r)
    BY DEF Init, ReplacementInv, HoldsRowLock, SawOneFile, RetiresCurrent,
           InTransaction, MayApply
  <2> QED
    BY <2>1, <2>2 DEF SharedInv
<1>2. TypeOK /\ RequestsInv /\ SharedInv /\ [Next]_vars => SharedInv'
  <2> SUFFICES ASSUME TypeOK, RequestsInv, SharedInv, [Next]_vars
               PROVE  SharedInv'
    OBVIOUS
  <2>1. CASE \E r \in Request : StepOf(r)
    BY <2>1, OwnReplacement, OthersKeepReplacement, StepKeepsOneCurrentFile
       DEF SharedInv
  <2>2. CASE Environment
    BY <2>2, EnvironmentKeepsShared
  <2>3. CASE UNCHANGED vars
    BY <2>3 DEF vars, local, database, SharedInv, OneCurrentFile, CurrentOf,
       RecordOf, Record, ReplacementInv, HoldsRowLock, SawOneFile,
       RetiresCurrent, InTransaction, MayApply, Replaces, Retired
  <2> QED
    BY <2>1, <2>2, <2>3 DEF Next, StepOf, Stop
<1> QED
  BY <1>1, <1>2, RequestsInvAlways, PTL DEF Spec

----------------------------------------------------------------------------
(* Two replacements of a record, a COMMIT whose answer was lost, a restart *)
(* of the process: every record in the metadata still has exactly one      *)
(* current file.                                                           *)
THEOREM OneCurrentFileAlways == Spec => []OneCurrentFile
<1>1. SharedInv => OneCurrentFile
  BY DEF SharedInv
<1> QED
  BY <1>1, SharedInvAlways, PTL

(* Every step of record intake is, in the metadata and the readable        *)
(* objects, a step of RecordStore or a stutter: the COMMIT of a request    *)
(* publishes its file, everything else moves unlinked objects.             *)
THEOREM IntakeImplementsRecordStore == Spec => ImplementsRecordStore
<1>1. Init => Contract!Init
  BY DistinctIds DEF Init, Contract!Init, RecordOf, File
<1>2. ASSUME TypeOK, RequestsInv, SharedInv, TypeOK', RequestsInv', [Next]_vars
      PROVE  [Contract!Next]_(Contract!vars)
  <2> DEFINE row == [f \in File |-> IF f \in linked THEN RecordOf(f) ELSE None]
             readable == {f \in File : object[f] = "ACCEPTED"}
  <2> USE <1>2
  <2>1. ASSUME UNCHANGED <<linked, current>>,
               \A f \in linked : RecordOf(f)' = RecordOf(f)
        PROVE  Contract!Restock
    <3>1. row' = row
      BY <2>1
    <3>2. Contract!Linked \subseteq linked
      BY DEF Contract!Linked
    <3>3. linked' \subseteq readable'
      BY DEF TypeOK, RequestsInv, RequestInv, ObjectInv, MayBeLinked,
             ExistingInv, File
    <3> QED
      BY <2>1, <3>1, <3>2, <3>3 DEF Contract!Restock
  <2>2. ASSUME NEW r \in Request, StepOf(r), Publishes(r)
        PROVE  Contract!Publish(r, Record(r)) /\ Record(r) \in File
    <3> USE <2>2 DEF Publishes, MayApply
    <3>1. /\ Retired(r) = CurrentOf(Record(r))
          /\ r \notin linked
          /\ r \in File
          /\ Record(r) \in File
      BY RetiresTheCurrentFile DEF File, Record, TypeOK
    <3>2. RecordOf(r) = Record(r) /\ \A f \in File : RecordOf(f)' = RecordOf(f)
      BY DistinctIds DEF RecordOf, Record
    <3>3. r \in readable /\ readable' = readable
      BY <3>1 DEF RequestsInv, RequestInv, ObjectInv, MayBeLinked, AfterAccept,
                  MayApply, File
    <3>4. row[r] = None /\ row' = [row EXCEPT ![r] = Record(r)]
      BY <3>1, <3>2 DEF Apply
    <3>5. current \cap Contract!Files(Record(r)) = CurrentOf(Record(r))
      BY <3>1, DistinctIds DEF Contract!Files, CurrentOf, TypeOK
    <3>6. current' = (current \ Contract!Files(Record(r))) \cup {r}
      BY <3>1, <3>5 DEF Apply
    <3> QED
      BY <3>1, <3>3, <3>4, <3>6 DEF Contract!Publish
  <2>3. CASE \E r \in Request : StepOf(r)
    <3> PICK r \in Request : StepOf(r)
      BY <2>3
    <3>1. \A f \in linked : RecordOf(f)' = RecordOf(f)
      BY LinkedKeepsRecord
    <3>2. CASE UNCHANGED <<linked, current>>
      BY <2>1, <3>1, <3>2 DEF Contract!Next
    <3>3. CASE Publishes(r)
      <4>1. Contract!Publish(r, Record(r)) /\ r \in File /\ Record(r) \in File
        BY <2>2, <3>3 DEF File
      <4>2. \E f \in File, rec \in File : Contract!Publish(f, rec)
        BY <4>1 DEF Contract!Publish
      <4> QED
        BY <4>2 DEF Contract!Next
    <3> QED
      BY <3>2, <3>3, LinkedOnlyByApply
  <2>4. CASE Environment \/ UNCHANGED vars
    <3>1. UNCHANGED <<linked, current, input>>
      BY <2>4 DEF Environment, Crash, Revoke, Restore, Reassign,
         BucketCatchesUp, vars, local, database
    <3> QED
      BY <2>1, <3>1 DEF Contract!Next, RecordOf, Record
  <2> QED
    BY <2>3, <2>4 DEF Next, StepOf, Stop
<1> QED
  BY <1>1, <1>2, SharedInvAlways, PTL DEF Spec, ImplementsRecordStore, Contract!Spec
=============================================================================
