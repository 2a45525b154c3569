---------------------------- MODULE RecordUpload ----------------------------
(***************************************************************************)
(* POST /api/records/upload, from the route to the committed metadata:     *)
(*                                                                         *)
(*   apps/web/app/api/records/upload/route.ts   admission, slots, session  *)
(*   apps/web/lib/record-service.ts             authority, transaction     *)
(*   packages/application/src/index.ts          intake and compensation    *)
(*   packages/storage/src/s3.ts                 the object (ObjectStore)   *)
(*                                                                         *)
(* One web process handles any number of requests; each advances from one  *)
(* await to the next, and pc names the await it has reached.  A request is *)
(* also the id of the file it uploads (a fresh UUID in the code) and, when *)
(* it replaces nothing, of the record it creates.                          *)
(***************************************************************************)
EXTENDS Naturals, FiniteSets

CONSTANTS
  Request,           \* upload requests, each made once
  Existing,          \* records that already have a current file
  Actors,            \* who uploads: persons, company members, or both
  MaxInFlight,       \* the literal 2 of the route
  AllowUnscannedDev, \* the scan policy's development exception
  Faults,            \* what the environment may do wrong
  None               \* no lock holder, no record

File == Request \cup Existing

ASSUME DistinctIds == Request \cap Existing = {} /\ None \notin File

ASSUME FiniteRequests == IsFiniteSet(Request)

Ground == {"session", "account", "context", "latest"}

Actor == {"PERSON", "COMPANY"}

ASSUME KnownActors == Actors \subseteq Actor

ScanResult == {"CLEAN", "REJECTED", "NOT_SCANNED_DEV"}

VARIABLES
  pc, input, scan, uncertain, snapshot, outcome, \* each request's own state
  answer,                                        \* the status its client gets
  inFlight,                                      \* the process's upload slots
  linked, current, lock, pending, audit,         \* PostgreSQL
  object, late,                                  \* the bucket
  holds, reassigned                              \* what authorises an upload

Bucket == INSTANCE ObjectStore WITH Keys <- File

local == <<input, scan, uncertain, snapshot>>
database == <<linked, current, lock, pending>>
storeVars == <<object, late>>
authority == <<holds, reassigned>>
progress == <<pc, outcome, answer>>
vars == <<progress, local, inFlight, database, audit, storeVars, authority>>

Fault(kind) == kind \in Faults

Record(r) == input[r].record

RecordOf(f) == IF f \in Existing THEN f ELSE Record(f)

Replaces(r) == Record(r) # r

----------------------------------------------------------------------------
(* Where a request can be.                                                 *)
Prepared == {"put", "readback", "undoPut", "writeFailed", "scan", "accept",
             "reject", "rejected", "begin", "lock", "callback", "commit",
             "confirm", "compensate", "delete", "cleanupRequired"}

HoldsSlot == {"stage", "resession", "prepare", "release"} \cup Prepared

Step == {"idle", "authorise", "done"} \cup HoldsSlot

(* How intake, or the route before it, ended.  The errors are told apart   *)
(* by what they leave for the operator (`unknown`, `reconcile` and         *)
(* `auditFailed` leave an object), not by what the client hears.           *)
Outcome == {"none", "unauthenticated", "busy", "forbidden", "failed",
            "writeFailed", "unknown", "reconcile", "auditFailed", "created",
            "crashed"}

(* What the client hears: one 503 for every error after admission, and the *)
(* framework's 500 for what the route does not catch.                      *)
Status(result) ==
  CASE result = "unauthenticated" -> "401"
    [] result = "busy"            -> "429"
    [] result = "forbidden"       -> "403"
    [] result = "created"         -> "201"
    [] OTHER                      -> "503"

Answer == {"none", "401", "429", "403", "201", "503", "500"}

Event == {"RECORD_UPLOAD_DENIED", "RECORD_STORAGE_WRITE_FAILED",
          "RECORD_FILE_REJECTED", "RECORD_OBJECT_CLEANUP_REQUIRED"}

TypeOK ==
  /\ pc \in [Request -> Step]
  /\ input \in [Request -> [record : File, actor : Actor]]
  /\ scan \in [Request -> ScanResult \cup {"NONE"}]
  /\ uncertain \in [Request -> BOOLEAN]
  /\ snapshot \in [Request -> [authorised : BOOLEAN, current : SUBSET File]]
  /\ outcome \in [Request -> Outcome]
  /\ answer \in [Request -> Answer]
  /\ inFlight \in Nat
  /\ linked \subseteq File
  /\ current \subseteq linked
  /\ lock \in [Existing -> Request \cup {None}]
  /\ pending \subseteq Request
  /\ audit \subseteq Event \X Request
  /\ Bucket!TypeOK
  /\ holds \subseteq Ground
  /\ reassigned \subseteq Request

Init ==
  /\ pc = [r \in Request |-> "idle"]
  /\ input = [r \in Request |-> [record |-> r, actor |-> "COMPANY"]]
  /\ scan = [r \in Request |-> "NONE"]
  /\ uncertain = [r \in Request |-> FALSE]
  /\ snapshot = [r \in Request |-> [authorised |-> FALSE, current |-> {}]]
  /\ outcome = [r \in Request |-> "none"]
  /\ answer = [r \in Request |-> "none"]
  /\ inFlight = 0
  /\ linked = Existing
  /\ current = Existing
  /\ lock = [rec \in Existing |-> None]
  /\ pending = {}
  /\ audit = {}
  /\ object = [f \in File |-> IF f \in Existing THEN "ACCEPTED" ELSE "ABSENT"]
  /\ late = {}
  /\ holds = Ground
  /\ reassigned = {}

----------------------------------------------------------------------------
At(r, step) == pc[r] = step

Move(r, step) == pc' = [pc EXCEPT ![r] = step] /\ UNCHANGED <<outcome, answer>>

(* The route returns its response.                                         *)
Finish(r, result) ==
  /\ pc' = [pc EXCEPT ![r] = "done"]
  /\ outcome' = [outcome EXCEPT ![r] = result]
  /\ answer' = [answer EXCEPT ![r] = Status(result)]

(* An error leaves the route: whatever the result, the client hears 500.   *)
Throw(r, result) ==
  /\ pc' = [pc EXCEPT ![r] = "done"]
  /\ outcome' = [outcome EXCEPT ![r] = result]
  /\ answer' = [answer EXCEPT ![r] = "500"]

(* Intake settles; the route's finally block runs next.                    *)
Settle(r, result) ==
  /\ pc' = [pc EXCEPT ![r] = "release"]
  /\ outcome' = [outcome EXCEPT ![r] = result]
  /\ UNCHANGED answer

Append(event, r) == audit' = audit \cup {<<event, r>>}

(* apiSession: a live session of an active, verified account.              *)
SessionResolves == {"session", "account"} \subseteq holds

(* `context` stands for the relationship, company, definition, membership  *)
(* and existing-record conditions.  A new record also needs the latest     *)
(* version of its definition, a person's upload the person's own account,  *)
(* and a person may not name a record to replace.                          *)
UploadContext(r) ==
  /\ "context" \in holds
  /\ ~Replaces(r) => "latest" \in holds
  /\ input[r].actor = "PERSON" => "account" \in holds /\ ~Replaces(r)

ScanAccepted(result) ==
  result = "CLEAN" \/ (result = "NOT_SCANNED_DEV" /\ AllowUnscannedDev)

----------------------------------------------------------------------------
(* The route: admission, staging and the second look at the session.       *)

(* The cap is read here, before the authorisation is awaited ...  The      *)
(* session is looked up outside the route's try block.                     *)
Arrive(r) ==
  /\ At(r, "idle")
  /\ \E rec \in Existing \cup {r}, who \in Actors :
       input' = [input EXCEPT ![r] = [record |-> rec, actor |-> who]]
  /\ \/ ~SessionResolves /\ Finish(r, "unauthenticated")
     \/ SessionResolves /\ inFlight >= MaxInFlight /\ Finish(r, "busy")
     \/ SessionResolves /\ inFlight < MaxInFlight /\ Move(r, "authorise")
     \/ Fault("database") /\ Throw(r, "failed")
  /\ UNCHANGED <<scan, uncertain, snapshot, inFlight, database, audit,
                 storeVars, authority>>

(* ... and the slot is taken here, after it.                               *)
Authorise(r) ==
  /\ At(r, "authorise")
  /\ \/ /\ UploadContext(r)
        /\ inFlight' = inFlight + 1
        /\ Move(r, "stage")
        /\ UNCHANGED audit
     \/ /\ ~UploadContext(r)
        /\ Append("RECORD_UPLOAD_DENIED", r)
        /\ Finish(r, "forbidden")
        /\ UNCHANGED inFlight
     \/ /\ Fault("database")
        /\ Append("RECORD_UPLOAD_DENIED", r) \/ UNCHANGED audit
        /\ Finish(r, "forbidden")
        /\ UNCHANGED inFlight
  /\ UNCHANGED <<local, database, storeVars, authority>>

(* Defect: a failed staging gives the slot back and still runs `finally`.  *)
StageReleasesTwice(r) ==
  /\ At(r, "stage")
  /\ \/ Move(r, "resession") /\ UNCHANGED inFlight
     \/ Settle(r, "failed") /\ inFlight' = inFlight - 1
  /\ UNCHANGED <<local, database, audit, storeVars, authority>>

(* A body that cannot be staged is refused with nothing left to clean up.  *)
Stage(r) ==
  /\ At(r, "stage")
  /\ \/ Move(r, "resession") /\ UNCHANGED inFlight
     \/ Finish(r, "failed") /\ inFlight' = inFlight - 1
  /\ UNCHANGED <<local, database, audit, storeVars, authority>>

(* Defect: the 401 after staging returns outside the try block.            *)
ResessionKeepsSlot(r) ==
  /\ At(r, "resession")
  /\ (SessionResolves /\ Move(r, "prepare")) \/ Finish(r, "unauthenticated")
  /\ UNCHANGED <<local, inFlight, database, audit, storeVars, authority>>

(* The session may have ended, or the client gone, while the body came in. *)
Resession(r) ==
  /\ At(r, "resession")
  /\ \/ SessionResolves /\ Move(r, "prepare")
     \/ Settle(r, "unauthenticated")
     \/ Fault("database") /\ Settle(r, "failed")
  /\ UNCHANGED <<local, inFlight, database, audit, storeVars, authority>>

(* persistRelationshipUpload reads the context the metadata is built from; *)
(* the intake service's own checks are functions of that context.          *)
Prepare(r) ==
  /\ At(r, "prepare")
  /\ \/ UploadContext(r) /\ Move(r, "put")
     \/ ~UploadContext(r) /\ Settle(r, "failed")
     \/ Fault("database") /\ Settle(r, "failed")
  /\ UNCHANGED <<local, inFlight, database, audit, storeVars, authority>>

(* finally: the staging directory and the slot are given back.  A cleanup  *)
(* that throws replaces the response, whatever it was.                     *)
Release(r) ==
  /\ At(r, "release")
  /\ inFlight' = inFlight - 1
  /\ \/ Finish(r, outcome[r])
     \/ Fault("cleanup") /\ Throw(r, outcome[r])
  /\ UNCHANGED <<local, database, audit, storeVars, authority>>

----------------------------------------------------------------------------
(* The object: quarantine, readback, scan, acceptance or rejection.        *)

(* HEAD fails, or the key is refused: nothing was written.  The PUT fails: *)
(* it may be served later.                                                 *)
Put(r) ==
  /\ At(r, "put")
  /\ \/ Bucket!PutQuarantined(r) /\ Move(r, "readback")
     \/ Fault("storage") /\ UNCHANGED storeVars /\ Move(r, "writeFailed")
     \/ Fault("storage") /\ Bucket!Abandon("PUT", r) /\ Move(r, "undoPut")
  /\ UNCHANGED <<local, inFlight, database, audit, authority>>

Readback(r) ==
  /\ At(r, "readback")
  /\ \/ Move(r, "scan")
     \/ Fault("storage") /\ Move(r, "undoPut")
  /\ UNCHANGED <<local, inFlight, database, audit, storeVars, authority>>

UndoPut(r) ==
  /\ At(r, "undoPut")
  /\ \/ Bucket!DeleteObject(r)
     \/ Fault("storage") /\ Bucket!DeleteFails(r)
  /\ Move(r, "writeFailed")
  /\ UNCHANGED <<local, inFlight, database, audit, authority>>

WriteFailed(r) ==
  /\ At(r, "writeFailed")
  /\ \/ Append("RECORD_STORAGE_WRITE_FAILED", r) /\ Settle(r, "writeFailed")
     \/ Fault("database") /\ UNCHANGED audit /\ Settle(r, "auditFailed")
  /\ UNCHANGED <<local, inFlight, database, storeVars, authority>>

(* Defect: a scanner that throws is taken for one that found nothing.      *)
ScanFailsOpen(r) ==
  /\ At(r, "scan")
  /\ \/ \E result \in ScanResult :
          /\ scan' = [scan EXCEPT ![r] = result]
          /\ Move(r, IF ScanAccepted(result) THEN "accept" ELSE "reject")
     \/ Fault("scanner") /\ UNCHANGED scan /\ Move(r, "accept")
  /\ UNCHANGED <<input, uncertain, snapshot, inFlight, database, audit,
                 storeVars, authority>>

Scan(r) ==
  /\ At(r, "scan")
  /\ \/ \E result \in ScanResult :
          /\ scan' = [scan EXCEPT ![r] = result]
          /\ Move(r, IF ScanAccepted(result) THEN "accept" ELSE "reject")
     \/ Fault("scanner") /\ UNCHANGED scan /\ Move(r, "compensate")
  /\ UNCHANGED <<input, uncertain, snapshot, inFlight, database, audit,
                 storeVars, authority>>

Accept(r) ==
  /\ At(r, "accept")
  /\ \/ Bucket!Transition("ACCEPT", r) /\ Move(r, "begin")
     \/ Fault("storage") /\ Bucket!TransitionFails("ACCEPT", r) /\ Move(r, "compensate")
  /\ UNCHANGED <<local, inFlight, database, audit, authority>>

Reject(r) ==
  /\ At(r, "reject")
  /\ \/ Bucket!Transition("REJECT", r) /\ Move(r, "rejected")
     \/ Fault("storage") /\ Bucket!TransitionFails("REJECT", r) /\ Move(r, "compensate")
  /\ UNCHANGED <<local, inFlight, database, audit, authority>>

(* The event, or the failure to write it, then the throw that leads to the *)
(* outer catch.                                                            *)
Rejected(r) ==
  /\ At(r, "rejected")
  /\ \/ Append("RECORD_FILE_REJECTED", r)
     \/ Fault("database") /\ UNCHANGED audit
  /\ Move(r, "compensate")
  /\ UNCHANGED <<local, inFlight, database, storeVars, authority>>

----------------------------------------------------------------------------
(* The metadata transaction: serializable, so every read sees the snapshot *)
(* taken by its first statement.                                           *)

CurrentOf(rec) == {f \in current : RecordOf(f) = rec}

(* Defect: the transaction does not look at the session again.             *)
AuthorisedAtStaging(r) == UploadContext(r) /\ r \notin reassigned

(* What the callback will find: account, session, context, and metadata    *)
(* that still names the relationship's person and company.                 *)
Authorised(r) == SessionResolves /\ UploadContext(r) /\ r \notin reassigned

Begin(r) ==
  /\ At(r, "begin")
  /\ snapshot' = [snapshot EXCEPT ![r] =
                    [authorised |-> Authorised(r),
                     current |-> CurrentOf(Record(r))]]
  /\ Move(r, IF Replaces(r) THEN "lock" ELSE "callback")
  /\ UNCHANGED <<input, scan, uncertain, inFlight, database, audit,
                 storeVars, authority>>

Unlock(r) == [rec \in Existing |-> IF lock[rec] = r THEN None ELSE lock[rec]]

(* Rolled back: no COMMIT was issued, or PostgreSQL refused it (P2034).    *)
Abort(r) ==
  /\ lock' = Unlock(r)
  /\ uncertain' = [uncertain EXCEPT ![r] = FALSE]
  /\ Move(r, "confirm")
  /\ UNCHANGED <<linked, current, pending>>

(* SELECT ... FOR UPDATE on the record that is being replaced.             *)
Lock(r) ==
  /\ At(r, "lock")
  /\ \/ /\ lock[Record(r)] = None
        /\ lock' = [lock EXCEPT ![Record(r)] = r]
        /\ Move(r, "callback")
        /\ UNCHANGED <<linked, current, pending, uncertain>>
     \/ Fault("database") /\ Abort(r)
  /\ UNCHANGED <<input, scan, snapshot, inFlight, audit, storeVars, authority>>

(* Defect: the previous current file is not retired.                       *)
RetiredNone(r) == {}

(* The rows the transaction marks as no longer current.                    *)
Retired(r) == IF Replaces(r) THEN snapshot[r].current ELSE {}

(* A row to retire was changed since the snapshot: PostgreSQL refuses the  *)
(* update of a serializable transaction.                                   *)
WriteConflict(r) == ~(Retired(r) \subseteq current)

Callback(r) ==
  /\ At(r, "callback")
  /\ \/ /\ snapshot[r].authorised /\ ~WriteConflict(r)
        /\ Move(r, "commit")
        /\ UNCHANGED <<database, uncertain>>
     \/ (~snapshot[r].authorised \/ WriteConflict(r)) /\ Abort(r)
     \/ Fault("database") /\ Abort(r)
  /\ UNCHANGED <<input, scan, snapshot, inFlight, audit, storeVars, authority>>

(* Defect: the new file's row is written without isCurrent.                *)
ApplyWithoutCurrent(r) ==
  /\ linked' = linked \cup {r}
  /\ current' = current \ Retired(r)
  /\ lock' = Unlock(r)

(* Record, file and success activity become visible together.              *)
Apply(r) ==
  /\ linked' = linked \cup {r}
  /\ current' = (current \ Retired(r)) \cup {r}
  /\ lock' = Unlock(r)

(* COMMIT succeeds; is refused; or is sent and the answer lost.            *)
Commit(r) ==
  /\ At(r, "commit")
  /\ \/ Apply(r) /\ Settle(r, "created") /\ UNCHANGED <<pending, uncertain>>
     \/ Fault("database") /\ Abort(r)
     \/ /\ Fault("database")
        /\ pending' = pending \cup {r}
        /\ uncertain' = [uncertain EXCEPT ![r] = TRUE]
        /\ Move(r, "confirm")
        /\ UNCHANGED <<linked, current, lock>>
  /\ UNCHANGED <<input, scan, snapshot, inFlight, audit, storeVars, authority>>

(* The server finishes a transaction whose client no longer listens.       *)
Resolve(r) ==
  /\ r \in pending
  /\ pending' = pending \ {r}
  /\ Apply(r) \/ (lock' = Unlock(r) /\ UNCHANGED <<linked, current>>)
  /\ UNCHANGED <<progress, local, inFlight, audit, storeVars, authority>>

----------------------------------------------------------------------------
(* Compensation: what becomes of the object when the upload fails.         *)

(* Defect: a row that is absent now is taken for a transaction that failed.*)
ConfirmTrustsAbsence(r) ==
  /\ At(r, "confirm")
  /\ \/ r \in linked /\ Settle(r, "created")
     \/ r \notin linked /\ Move(r, "compensate")
  /\ UNCHANGED <<local, inFlight, database, audit, storeVars, authority>>

(* Defect: a commit whose answer was lost is reported as done.             *)
ConfirmTrustsCommit(r) ==
  /\ At(r, "confirm")
  /\ \/ (r \in linked \/ uncertain[r]) /\ Settle(r, "created")
     \/ r \notin linked /\ ~uncertain[r] /\ Move(r, "compensate")
  /\ UNCHANGED <<local, inFlight, database, audit, storeVars, authority>>

(* Defect: the row is read again until it appears.                         *)
ConfirmPolls(r) ==
  /\ At(r, "confirm")
  /\ \/ r \in linked /\ Settle(r, "created")
     \/ r \notin linked /\ ~uncertain[r] /\ Move(r, "compensate")
  /\ UNCHANGED <<local, inFlight, database, audit, storeVars, authority>>

(* After a failed transaction: a committed file is a success all the same. *)
(* An uncertain outcome preserves the object; any other leads to the outer *)
(* catch, whether the file was read as absent or could not be read.        *)
Confirm(r) ==
  /\ At(r, "confirm")
  /\ \/ r \in linked /\ Settle(r, "created")
     \/ /\ r \notin linked \/ Fault("database")
        /\ IF uncertain[r] THEN Settle(r, "unknown") ELSE Move(r, "compensate")
  /\ UNCHANGED <<local, inFlight, database, audit, storeVars, authority>>

Compensate(r) ==
  /\ At(r, "compensate")
  /\ \/ r \notin linked /\ Move(r, "delete")
     \/ r \in linked /\ Settle(r, "failed")
     \/ Fault("database") /\ Settle(r, "unknown")
  /\ UNCHANGED <<local, inFlight, database, audit, storeVars, authority>>

Delete(r) ==
  /\ At(r, "delete")
  /\ \/ Bucket!DeleteObject(r) /\ Settle(r, "failed")
     \/ Fault("storage") /\ Bucket!DeleteFails(r) /\ Move(r, "cleanupRequired")
  /\ UNCHANGED <<local, inFlight, database, audit, authority>>

(* Defect: the failed delete is swallowed.                                 *)
CleanupSwallowed(r) ==
  /\ At(r, "cleanupRequired")
  /\ Settle(r, "failed")
  /\ UNCHANGED <<local, inFlight, database, audit, storeVars, authority>>

CleanupRequired(r) ==
  /\ At(r, "cleanupRequired")
  /\ \/ Append("RECORD_OBJECT_CLEANUP_REQUIRED", r) /\ Settle(r, "reconcile")
     \/ Fault("database") /\ UNCHANGED audit /\ Settle(r, "auditFailed")
  /\ UNCHANGED <<local, inFlight, database, storeVars, authority>>

----------------------------------------------------------------------------
(* The environment.                                                        *)

(* The web process dies and is restarted: its requests are gone, its slot  *)
(* counter starts at zero, PostgreSQL rolls back what had not reached      *)
(* COMMIT.  Late storage requests and pending commits outlive it.          *)
Active(r) == pc[r] \notin {"idle", "done"}

Crash ==
  /\ Fault("crash")
  /\ \E r \in Request : Active(r)
  /\ pc' = [r \in Request |-> IF Active(r) THEN "done" ELSE pc[r]]
  /\ outcome' = [r \in Request |-> IF Active(r) THEN "crashed" ELSE outcome[r]]
  /\ inFlight' = 0
  /\ lock' = [rec \in Existing |-> IF lock[rec] \in pending THEN lock[rec] ELSE None]
  /\ UNCHANGED <<answer, local, linked, current, pending, audit, storeVars,
                 authority>>

(* Logout, suspension, an ended relationship, a revoked role, a new        *)
(* definition version.  A deleted session and a superseded version never   *)
(* come back.                                                              *)
Revoke ==
  /\ Fault("revocation")
  /\ \E g \in holds : holds' = holds \ {g}
  /\ UNCHANGED <<progress, local, inFlight, database, audit, storeVars,
                 reassigned>>

Restore ==
  /\ \E g \in {"account", "context"} \ holds : holds' = holds \cup {g}
  /\ UNCHANGED <<progress, local, inFlight, database, audit, storeVars,
                 reassigned>>

(* The relationship comes to name another person or company than the one   *)
(* the prepared requests have read.                                        *)
Reassign ==
  /\ Fault("reassignment")
  /\ reassigned' = {r \in Request : pc[r] \in Prepared}
  /\ UNCHANGED <<progress, local, inFlight, database, audit, storeVars,
                 holds>>

BucketCatchesUp ==
  /\ Bucket!LateRequest
  /\ UNCHANGED <<progress, local, inFlight, database, audit, authority>>

----------------------------------------------------------------------------
RequestStep(r) ==
  \/ Authorise(r) \/ Stage(r) \/ Resession(r) \/ Prepare(r)
  \/ Put(r) \/ Readback(r) \/ UndoPut(r) \/ WriteFailed(r)
  \/ Scan(r) \/ Accept(r) \/ Reject(r) \/ Rejected(r)
  \/ Begin(r) \/ Lock(r) \/ Callback(r) \/ Commit(r)
  \/ Confirm(r) \/ Compensate(r) \/ Delete(r) \/ CleanupRequired(r)
  \/ Release(r)

Environment == Crash \/ Revoke \/ Restore \/ Reassign \/ BucketCatchesUp

Quiescent == \A r \in Request : pc[r] = "done" /\ r \notin pending

Stop == Quiescent /\ UNCHANGED vars

Next ==
  \/ \E r \in Request : Arrive(r) \/ RequestStep(r) \/ Resolve(r)
  \/ Environment
  \/ Stop

Spec == Init /\ [][Next]_vars

(* The event loop runs every request on; S3 calls (10 s), the transaction  *)
(* (10 s) and staging (120 s) all time out; PostgreSQL finishes a COMMIT   *)
(* it received.  Nothing is assumed of Arrive, of late storage requests or *)
(* of the environment.                                                     *)
Fairness == \A r \in Request : WF_vars(RequestStep(r)) /\ WF_vars(Resolve(r))

FairSpec == Spec /\ Fairness

----------------------------------------------------------------------------
(* The object of every file in the metadata is there and readable.  The    *)
(* compensating delete of record intake (index.ts 74-93) must therefore    *)
(* never reach a file whose COMMIT went through, or still may.             *)
LinkedObjectsAccepted == \A f \in linked : object[f] = "ACCEPTED"

(* Concurrent replacements, lost acknowledgements and restarts leave every *)
(* record with exactly one current file (record-service.ts 60, 77-78).     *)
OneCurrentFile ==
  \A f \in linked : \E g \in linked : CurrentOf(RecordOf(f)) = {g}

(* An unaccepted scan result never becomes a readable object or a row: not *)
(* by the normal path, and not by a storage request served late.           *)
OnlyScannedFiles ==
  \A r \in Request :
    r \in linked \/ object[r] = "ACCEPTED" => ScanAccepted(scan[r])

(* What the client may conclude from the status it got (route.ts 11-36).   *)
(* 201: the row is there, for good.  A refusal (401, 403, 429), also the   *)
(* one after the body was read: no row, no object, and neither a COMMIT    *)
(* nor a storage request still on its way.  503 says that the upload could *)
(* not be completed and to check the record before retrying, and the check *)
(* finds a row only if the answer to the COMMIT was lost: no error before  *)
(* the COMMIT, and no failed compensation, hides a record.  500 promises   *)
(* nothing.                                                                *)
Refusal == {"401", "403", "429"}

AnswerIsTrue ==
  \A r \in Request :
    /\ answer[r] = "201" => r \in linked
    /\ answer[r] \in Refusal =>
         /\ r \notin linked \cup pending
         /\ object[r] = "ABSENT"
         /\ \A op \in Bucket!StoreRequest : <<op, r>> \notin late
    /\ answer[r] = "503" /\ r \in linked \cup pending => uncertain[r]

(* A request that ended with a definite outcome leaves no object behind    *)
(* without a row, unless an activity event tells the operator to look.     *)
(* Only an unknown commit, a refused audit insert and a crash may.         *)
NoSilentOrphan ==
  \A r \in Request :
    /\ pc[r] = "done"
    /\ object[r] # "ABSENT"
    /\ r \notin linked
    => \/ outcome[r] \in {"unknown", "auditFailed", "crashed"}
       \/ \E event \in {"RECORD_STORAGE_WRITE_FAILED",
                        "RECORD_OBJECT_CLEANUP_REQUIRED"} :
            <<event, r>> \in audit

(* The process's counter is the number of requests between taking and      *)
(* giving back a slot: no error path leaks a slot or returns one twice.    *)
SlotsMatchRequests ==
  inFlight = Cardinality({r \in Request : pc[r] \in HoldsSlot})

(* The deployment document's "two concurrent uploads per process".         *)
ConcurrentUploadsCapped == inFlight <= MaxInFlight

(* The first step that may link a file is its transaction's snapshot.  An  *)
(* upload that has not reached it when its authority is lost for good --   *)
(* its session ended, the definition version it creates a record under was *)
(* superseded, its relationship was given to others -- never commits,      *)
(* whatever is restored, retried or served late after that.                *)
BeforeTransaction ==
  {"idle", "authorise", "stage", "resession", "prepare", "put", "readback",
   "undoPut", "writeFailed", "scan", "accept", "reject", "rejected", "begin"}

AuthorityLost(r) ==
  /\ pc[r] \in BeforeTransaction
  /\ \/ "session" \notin holds
     \/ "latest" \notin holds /\ pc[r] # "idle" /\ ~Replaces(r)
     \/ r \in reassigned

LostAuthorityNeverCommits ==
  \A r \in Request : [](AuthorityLost(r) => [](r \notin linked))

(* Every upload that was started is answered and gives its slot back, even *)
(* when it waits for the row lock of a transaction whose client is gone.   *)
UploadsSettle == \A r \in Request : pc[r] # "idle" ~> pc[r] = "done"

(* Record intake implements the record store's promise.                    *)
Contract == INSTANCE RecordStore WITH
  RecordId <- File,
  NoRecord <- None,
  row <- [f \in File |-> IF f \in linked THEN RecordOf(f) ELSE None],
  readable <- {f \in File : object[f] = "ACCEPTED"}

ImplementsRecordStore == Contract!Spec
=============================================================================
