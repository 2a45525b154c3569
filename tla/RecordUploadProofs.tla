------------------------ MODULE RecordUploadProofs -------------------------
(***************************************************************************)
(* Proofs about RecordUpload, for every set of requests and records, every *)
(* cap and every set of faults.                                            *)
(*                                                                         *)
(* A step belongs to one request or to the environment.  The invariant is  *)
(* a predicate of each request (RequestInv), so a request's step is two    *)
(* cases: it preserves its own predicate (OwnStep), and it leaves what the *)
(* others' predicates speak of alone (OthersUntouched).  What requests     *)
(* share, the row lock and the current file of a record, is the subject of *)
(* ReplacementProofs.                                                      *)
(***************************************************************************)
EXTENDS RecordUpload, FiniteSetTheorems, TLAPS

USE DEF At, Move, Finish, Throw, Settle, Append, Fault, progress

StepOf(r) == Arrive(r) \/ RequestStep(r) \/ Resolve(r)

----------------------------------------------------------------------------
(* Slots.                                                                  *)

Slots == {r \in Request : pc[r] \in HoldsSlot}

(* A request takes a slot, gives one back, or does neither.                *)
LEMMA SlotTaken ==
  ASSUME TypeOK, SlotsMatchRequests, NEW r \in Request,
         pc[r] \notin HoldsSlot,
         NEW step \in HoldsSlot, pc' = [pc EXCEPT ![r] = step],
         inFlight' = inFlight + 1
  PROVE  inFlight' \in Nat /\ SlotsMatchRequests'
<1>1. Slots' = Slots \cup {r} /\ r \notin Slots
  BY DEF Slots, TypeOK
<1>2. IsFiniteSet(Slots)
  BY FiniteRequests, FS_Subset DEF Slots
<1>3. Cardinality(Slots') = Cardinality(Slots) + 1
  BY <1>1, <1>2, FS_AddElement
<1> QED
  BY <1>3 DEF SlotsMatchRequests, Slots, TypeOK

LEMMA SlotGivenBack ==
  ASSUME TypeOK, SlotsMatchRequests, NEW r \in Request,
         pc[r] \in HoldsSlot,
         NEW step, step \notin HoldsSlot, pc' = [pc EXCEPT ![r] = step],
         inFlight' = inFlight - 1
  PROVE  inFlight' \in Nat /\ SlotsMatchRequests'
<1>1. Slots' = Slots \ {r} /\ r \in Slots
  BY DEF Slots, TypeOK
<1>2. IsFiniteSet(Slots)
  BY FiniteRequests, FS_Subset DEF Slots
<1>3. Cardinality(Slots') = Cardinality(Slots) - 1 /\ Cardinality(Slots) \in Nat
  BY <1>1, <1>2, FS_RemoveElement, FS_CardinalityType
<1>4. Cardinality(Slots) # 0
  BY <1>1, <1>2, FS_EmptySet
<1> QED
  BY <1>3, <1>4 DEF SlotsMatchRequests, Slots

LEMMA SlotKept ==
  ASSUME TypeOK, SlotsMatchRequests, NEW r \in Request, NEW step,
         step \in HoldsSlot <=> pc[r] \in HoldsSlot,
         pc' = [pc EXCEPT ![r] = step], UNCHANGED inFlight
  PROVE  inFlight' \in Nat /\ SlotsMatchRequests'
<1>1. Slots' = Slots
  BY DEF Slots, TypeOK
<1> QED
  BY <1>1 DEF SlotsMatchRequests, Slots, TypeOK

LEMMA StepSlots ==
  ASSUME TypeOK, SlotsMatchRequests, NEW r \in Request, StepOf(r)
  PROVE  inFlight' \in Nat /\ SlotsMatchRequests'
<1> DEFINE Kept == \E step : /\ step \in HoldsSlot <=> pc[r] \in HoldsSlot
                             /\ pc' = [pc EXCEPT ![r] = step]
                             /\ UNCHANGED inFlight
<1> USE DEF TypeOK, local, database, authority, storeVars, HoldsSlot, Prepared
<1>1. CASE Authorise(r)
  <2>1. CASE UNCHANGED inFlight
    <3>1. Kept
      BY <1>1, <2>1 DEF Authorise
    <3> QED
      BY <3>1, SlotKept
  <2>2. CASE inFlight' = inFlight + 1 /\ pc' = [pc EXCEPT ![r] = "stage"]
    BY <1>1, <2>2, SlotTaken DEF Authorise
  <2> QED
    BY <1>1, <2>1, <2>2 DEF Authorise
<1>2. CASE Stage(r)
  <2>1. CASE UNCHANGED inFlight
    <3>1. Kept
      BY <1>2, <2>1 DEF Stage
    <3> QED
      BY <3>1, SlotKept
  <2>2. CASE inFlight' = inFlight - 1 /\ pc' = [pc EXCEPT ![r] = "done"]
    BY <1>2, <2>2, SlotGivenBack DEF Stage
  <2> QED
    BY <1>2, <2>1, <2>2 DEF Stage
<1>3. CASE Release(r)
  BY <1>3, SlotGivenBack DEF Release
<1>4. CASE Arrive(r) \/ Resolve(r) \/ Resession(r) \/ Prepare(r)
  <2>1. Kept
    BY <1>4 DEF Arrive, Resolve, Resession, Prepare
  <2> QED
    BY <2>1, SlotKept
<1>5. CASE \/ Put(r) \/ Readback(r) \/ UndoPut(r) \/ WriteFailed(r)
           \/ Scan(r) \/ Accept(r) \/ Reject(r) \/ Rejected(r)
  <2>1. Kept
    BY <1>5 DEF Put, Readback, UndoPut, WriteFailed, Scan, Accept, Reject,
                Rejected
  <2> QED
    BY <2>1, SlotKept
<1>6. CASE \/ Begin(r) \/ Lock(r) \/ Callback(r) \/ Commit(r) \/ Confirm(r)
           \/ Compensate(r) \/ Delete(r) \/ CleanupRequired(r)
  <2>1. Kept
    BY <1>6 DEF Begin, Lock, Callback, Commit, Confirm, Compensate, Delete,
                CleanupRequired, Abort
  <2> QED
    BY <2>1, SlotKept
<1> QED
  BY <1>1, <1>2, <1>3, <1>4, <1>5, <1>6 DEF StepOf, RequestStep

----------------------------------------------------------------------------
(* Types.                                                                  *)

ProgressTyped ==
  /\ pc \in [Request -> Step]
  /\ outcome \in [Request -> Outcome]
  /\ answer \in [Request -> Answer]

LEMMA StepTyped ==
  ASSUME TypeOK, NEW r \in Request, inFlight' \in Nat, StepOf(r)
  PROVE  TypeOK'
<1> USE DEF TypeOK, Bucket!TypeOK, local, database, authority, storeVars
<1>1. CASE Arrive(r)
  <2> USE <1>1 DEF Arrive
  <2>1. ProgressTyped'
    BY ZenonT(60) DEF ProgressTyped, Step, HoldsSlot, Prepared, Outcome, Status, Answer
  <2>2. input' \in [Request -> [record : File, actor : Actor]]
    BY KnownActors DEF File
  <2> QED
    BY <2>1, <2>2 DEF ProgressTyped
<1>2. CASE Authorise(r)
  <2> USE <1>2 DEF Authorise
  <2>1. ProgressTyped'
    BY DEF ProgressTyped, Step, HoldsSlot, Prepared, Outcome, Status, Answer
  <2>2. audit' \subseteq Event \X Request
    BY DEF Event
  <2> QED
    BY <2>1, <2>2 DEF ProgressTyped
<1>3. CASE Stage(r)
  BY <1>3 DEF Stage, Step, HoldsSlot, Prepared, Outcome, Status, Answer
<1>4. CASE Resession(r)
  BY <1>4 DEF Resession, Step, HoldsSlot, Prepared, Outcome, Status, Answer
<1>5. CASE Prepare(r)
  BY <1>5 DEF Prepare, Step, HoldsSlot, Prepared, Outcome, Status, Answer
<1>6. CASE Put(r)
  <2> USE <1>6 DEF Put, Bucket!PutQuarantined
  <2>1. ProgressTyped'
    BY DEF ProgressTyped, Step, HoldsSlot, Prepared, Outcome, Status, Answer
  <2>2. object' \in [File -> Bucket!ObjectState]
    BY DEF Bucket!ObjectState, Bucket!Effect, Bucket!Written, Bucket!Serve,
           Bucket!Abandon
  <2>3. late' \subseteq Bucket!StoreRequest \X File
    BY DEF Bucket!StoreRequest, File, Bucket!Serve, Bucket!Abandon
  <2> QED
    BY <2>1, <2>2, <2>3 DEF ProgressTyped
<1>7. CASE Readback(r)
  BY <1>7 DEF Readback, Step, HoldsSlot, Prepared, Outcome, Status, Answer
<1>8. CASE UndoPut(r)
  <2> USE <1>8 DEF UndoPut, Bucket!DeleteObject, Bucket!DeleteFails
  <2>1. ProgressTyped'
    BY DEF ProgressTyped, Step, HoldsSlot, Prepared, Outcome, Status, Answer
  <2>2. object' \in [File -> Bucket!ObjectState]
    BY DEF Bucket!ObjectState, Bucket!Effect, Bucket!Written, Bucket!Serve,
           Bucket!Abandon
  <2>3. late' \subseteq Bucket!StoreRequest \X File
    BY DEF Bucket!StoreRequest, File, Bucket!Serve, Bucket!Abandon
  <2> QED
    BY <2>1, <2>2, <2>3 DEF ProgressTyped
<1>9. CASE WriteFailed(r)
  <2> USE <1>9 DEF WriteFailed
  <2>1. ProgressTyped'
    BY DEF ProgressTyped, Step, HoldsSlot, Prepared, Outcome, Status, Answer
  <2>2. audit' \subseteq Event \X Request
    BY DEF Event
  <2> QED
    BY <2>1, <2>2 DEF ProgressTyped
<1>10. CASE Scan(r)
  <2> USE <1>10 DEF Scan
  <2>1. ProgressTyped'
    BY DEF ProgressTyped, Step, HoldsSlot, Prepared, Outcome, Status, Answer
  <2>2. scan' \in [Request -> ScanResult \cup {"NONE"}]
    OBVIOUS
  <2> QED
    BY <2>1, <2>2 DEF ProgressTyped
<1>11. CASE Accept(r)
  <2> USE <1>11 DEF Accept, Bucket!Transition, Bucket!TransitionFails
  <2>1. ProgressTyped'
    BY DEF ProgressTyped, Step, HoldsSlot, Prepared, Outcome, Status, Answer
  <2>2. object' \in [File -> Bucket!ObjectState]
    BY DEF Bucket!ObjectState, Bucket!Effect, Bucket!Written, Bucket!Serve,
           Bucket!Abandon
  <2>3. late' \subseteq Bucket!StoreRequest \X File
    BY DEF Bucket!StoreRequest, File, Bucket!Serve, Bucket!Abandon
  <2> QED
    BY <2>1, <2>2, <2>3 DEF ProgressTyped
<1>12. CASE Reject(r)
  <2> USE <1>12 DEF Reject, Bucket!Transition, Bucket!TransitionFails
  <2>1. ProgressTyped'
    BY DEF ProgressTyped, Step, HoldsSlot, Prepared, Outcome, Status, Answer
  <2>2. object' \in [File -> Bucket!ObjectState]
    BY DEF Bucket!ObjectState, Bucket!Effect, Bucket!Written, Bucket!Serve,
           Bucket!Abandon
  <2>3. late' \subseteq Bucket!StoreRequest \X File
    BY DEF Bucket!StoreRequest, File, Bucket!Serve, Bucket!Abandon
  <2> QED
    BY <2>1, <2>2, <2>3 DEF ProgressTyped
<1>13. CASE Rejected(r)
  <2> USE <1>13 DEF Rejected
  <2>1. ProgressTyped'
    BY DEF ProgressTyped, Step, HoldsSlot, Prepared, Outcome, Status, Answer
  <2>2. audit' \subseteq Event \X Request
    BY DEF Event
  <2> QED
    BY <2>1, <2>2 DEF ProgressTyped
<1>14. CASE Begin(r)
  <2> USE <1>14 DEF Begin
  <2>1. ProgressTyped'
    BY DEF ProgressTyped, Step, HoldsSlot, Prepared, Outcome, Status, Answer
  <2>2. snapshot' \in [Request -> [authorised : BOOLEAN, current : SUBSET File]]
    BY DEF CurrentOf, Authorised, SessionResolves, UploadContext, Replaces,
           Record
  <2> QED
    BY <2>1, <2>2 DEF ProgressTyped
<1>15. CASE Lock(r)
  <2> USE <1>15 DEF Lock
  <2>1. ProgressTyped'
    BY DEF ProgressTyped, Step, HoldsSlot, Prepared, Outcome, Status, Answer, Abort
  <2>2. lock' \in [Existing -> Request \cup {None}]
    BY DEF Abort, Unlock, Apply, Replaces
  <2>3. uncertain' \in [Request -> BOOLEAN]
    BY DEF Abort
  <2>4. linked' \subseteq File /\ current' \subseteq linked' /\ pending' \subseteq Request
    BY DEF Abort, Apply, Retired, File
  <2> QED
    BY <2>1, <2>2, <2>3, <2>4 DEF Abort, ProgressTyped
<1>16. CASE Callback(r)
  <2> USE <1>16 DEF Callback
  <2>1. ProgressTyped'
    BY DEF ProgressTyped, Step, HoldsSlot, Prepared, Outcome, Status, Answer, Abort
  <2>2. lock' \in [Existing -> Request \cup {None}]
    BY DEF Abort, Unlock, Apply, Replaces
  <2>3. uncertain' \in [Request -> BOOLEAN]
    BY DEF Abort
  <2>4. linked' \subseteq File /\ current' \subseteq linked' /\ pending' \subseteq Request
    BY DEF Abort, Apply, Retired, File
  <2> QED
    BY <2>1, <2>2, <2>3, <2>4 DEF Abort, ProgressTyped
<1>17. CASE Commit(r)
  <2> USE <1>17 DEF Commit
  <2>1. ProgressTyped'
    BY DEF ProgressTyped, Step, HoldsSlot, Prepared, Outcome, Status, Answer, Abort
  <2>2. lock' \in [Existing -> Request \cup {None}]
    BY DEF Abort, Unlock, Apply, Replaces
  <2>3. uncertain' \in [Request -> BOOLEAN]
    BY DEF Abort
  <2>4. linked' \subseteq File /\ current' \subseteq linked' /\ pending' \subseteq Request
    BY DEF Abort, Apply, Retired, File
  <2> QED
    BY <2>1, <2>2, <2>3, <2>4 DEF Abort, ProgressTyped
<1>18. CASE Confirm(r)
  BY <1>18 DEF Confirm, Step, HoldsSlot, Prepared, Outcome, Status, Answer
<1>19. CASE Compensate(r)
  BY <1>19 DEF Compensate, Step, HoldsSlot, Prepared, Outcome, Status, Answer
<1>20. CASE Delete(r)
  <2> USE <1>20 DEF Delete, Bucket!DeleteObject, Bucket!DeleteFails
  <2>1. ProgressTyped'
    BY DEF ProgressTyped, Step, HoldsSlot, Prepared, Outcome, Status, Answer
  <2>2. object' \in [File -> Bucket!ObjectState]
    BY DEF Bucket!ObjectState, Bucket!Effect, Bucket!Written, Bucket!Serve,
           Bucket!Abandon
  <2>3. late' \subseteq Bucket!StoreRequest \X File
    BY DEF Bucket!StoreRequest, File, Bucket!Serve, Bucket!Abandon
  <2> QED
    BY <2>1, <2>2, <2>3 DEF ProgressTyped
<1>21. CASE CleanupRequired(r)
  <2> USE <1>21 DEF CleanupRequired
  <2>1. ProgressTyped'
    BY DEF ProgressTyped, Step, HoldsSlot, Prepared, Outcome, Status, Answer
  <2>2. audit' \subseteq Event \X Request
    BY DEF Event
  <2> QED
    BY <2>1, <2>2 DEF ProgressTyped
<1>22. CASE Release(r)
  BY <1>22 DEF Release, Step, HoldsSlot, Prepared, Outcome, Status, Answer
<1>23. CASE Resolve(r)
  <2> USE <1>23 DEF Resolve
  <2>1. lock' \in [Existing -> Request \cup {None}] /\ uncertain' \in [Request -> BOOLEAN]
    BY DEF Abort, Unlock, Apply, Replaces
  <2>2. linked' \subseteq File /\ current' \subseteq linked' /\ pending' \subseteq Request
    BY DEF Abort, Apply, Retired, File
  <2> QED
    BY <2>1, <2>2 DEF ProgressTyped
<1> QED
  BY <1>1, <1>2, <1>3, <1>4, <1>5, <1>6, <1>7, <1>8, <1>9, <1>10, <1>11, <1>12,
     <1>13, <1>14, <1>15, <1>16, <1>17, <1>18, <1>19, <1>20, <1>21, <1>22, <1>23 DEF StepOf, RequestStep

LEMMA EnvironmentTyped ==
  ASSUME TypeOK, SlotsMatchRequests, Environment
  PROVE  TypeOK' /\ SlotsMatchRequests'
<1> USE DEF TypeOK, Bucket!TypeOK, local, database, authority, storeVars
<1>1. CASE Crash
  <2>1. Slots' = {} /\ inFlight' = 0
    BY <1>1 DEF Crash, Active, Slots, HoldsSlot, Prepared
  <2>2. SlotsMatchRequests'
    BY <2>1, FS_EmptySet DEF SlotsMatchRequests, Slots
  <2>3. ProgressTyped'
    BY <1>1 DEF ProgressTyped, Crash, Active, Step, Outcome
  <2>4. lock' \in [Existing -> Request \cup {None}]
    BY <1>1 DEF Crash
  <2> QED
    BY <1>1, <2>1, <2>2, <2>3, <2>4 DEF Crash, ProgressTyped
<1>2. CASE Revoke \/ Restore \/ Reassign
  BY <1>2 DEF Revoke, Restore, Reassign, SlotsMatchRequests, Ground
<1>3. CASE BucketCatchesUp
  <2> USE <1>3 DEF BucketCatchesUp, Bucket!LateRequest
  <2>1. object' \in [File -> Bucket!ObjectState]
    BY DEF Bucket!ObjectState, Bucket!Effect, Bucket!Written, Bucket!StoreRequest
  <2> QED
    BY <2>1 DEF SlotsMatchRequests
<1> QED
  BY <1>1, <1>2, <1>3 DEF Environment

(* Every state is well typed, and the process's slot counter is the number *)
(* of requests that hold a slot: no path through the route's early         *)
(* returns, catch and finally leaks a slot or returns one twice, and a     *)
(* restart does not inherit one.                                           *)
THEOREM TypesAndSlots == Spec => [](TypeOK /\ SlotsMatchRequests)
<1>1. Init => TypeOK /\ SlotsMatchRequests
  <2> SUFFICES ASSUME Init PROVE TypeOK /\ SlotsMatchRequests
    OBVIOUS
  <2>1. TypeOK
    BY DEF Init, TypeOK, Bucket!TypeOK, Bucket!ObjectState, Step, File, Actor,
           Outcome, Answer, Ground
  <2>2. Slots = {}
    BY DEF Init, Slots, HoldsSlot, Prepared
  <2> QED
    BY <2>1, <2>2, FS_EmptySet DEF SlotsMatchRequests, Slots, Init
<1>2. TypeOK /\ SlotsMatchRequests /\ [Next]_vars => (TypeOK /\ SlotsMatchRequests)'
  <2> SUFFICES ASSUME TypeOK, SlotsMatchRequests, [Next]_vars
               PROVE  (TypeOK /\ SlotsMatchRequests)'
    OBVIOUS
  <2>1. CASE \E r \in Request : StepOf(r)
    BY <2>1, StepSlots, StepTyped
  <2>2. CASE Environment
    BY <2>2, EnvironmentTyped
  <2>3. CASE UNCHANGED vars
    BY <2>3 DEF TypeOK, Bucket!TypeOK, SlotsMatchRequests, vars, local,
                database, authority, storeVars
  <2> QED
    BY <2>1, <2>2, <2>3 DEF Next, StepOf, Stop
<1> QED
  BY <1>1, <1>2, PTL DEF Spec

----------------------------------------------------------------------------
(* What the safety properties rest on, request by request: the step a      *)
(* request has reached, against the shared state it relies on.             *)

(* No storage request for this key was abandoned.                          *)
NothingLate(f) == \A op \in Bucket!StoreRequest : <<op, f>> \notin late

BeforePut == {"idle", "authorise", "stage", "resession", "prepare", "put"}

Quarantining == {"readback", "scan", "accept", "reject"}

AfterAccept == {"begin", "lock", "callback", "commit", "confirm"}

MayBeLinked(r) == r \in linked \cup pending

(* On the way to COMMIT nothing is late, so the object is what the last    *)
(* served request made of it; from acceptance on it is ACCEPTED, and it    *)
(* stays so for a file that is linked or may still become it.              *)
ObjectInv(r) ==
  /\ pc[r] \in BeforePut => object[r] = "ABSENT" /\ NothingLate(r)
  /\ pc[r] \in Quarantining => object[r] = "QUARANTINED" /\ NothingLate(r)
  /\ pc[r] \in AfterAccept \/ MayBeLinked(r) =>
       object[r] = "ACCEPTED" /\ NothingLate(r)

(* A file is linked, or waits for its COMMIT, only while its request       *)
(* either has settled or knows that the outcome is uncertain: a request    *)
(* that may delete the object is in neither case.                          *)
CommitInv(r) ==
  /\ MayBeLinked(r) =>
       pc[r] \in {"release", "done"} \/ (pc[r] = "confirm" /\ uncertain[r])
  /\ r \notin linked \cap pending

(* The object can be, or become, ACCEPTED only after an accepted scan.     *)
ScanInv(r) ==
  pc[r] = "accept" \/ object[r] = "ACCEPTED" \/ <<"ACCEPT", r>> \in late =>
    ScanAccepted(scan[r])

(* A request has an outcome exactly from the moment intake settles.  Only  *)
(* an upload whose COMMIT answer was lost, or that a crash cut short, can   *)
(* end in an error and still have, or get, its row.                        *)
OutcomeInv(r) ==
  /\ outcome[r] # "none" <=> pc[r] \in {"release", "done"}
  /\ outcome[r] = "crashed" => pc[r] = "done"
  /\ outcome[r] = "created" => r \in linked
  /\ outcome[r] \notin {"created", "crashed"} /\ MayBeLinked(r) => uncertain[r]

Refused == {"unauthenticated", "busy", "forbidden"}

(* The client hears what the outcome amounts to, or a bare 500.            *)
AnswerInv(r) ==
  /\ answer[r] # "none" => pc[r] = "done"
  /\ answer[r] = "201" => outcome[r] = "created"
  /\ answer[r] \in Refusal => outcome[r] \in Refused
  /\ answer[r] = "503" => outcome[r] \notin {"created", "crashed"}

(* A PUT can be late only for an upload that ends in an event or in a lost *)
(* event; the definite failures without event left no object, and a        *)
(* refused upload never had one.                                           *)
OrphanInv(r) ==
  /\ <<"PUT", r>> \in late =>
       \/ pc[r] \in {"undoPut", "writeFailed"}
       \/ outcome[r] \in {"writeFailed", "auditFailed", "crashed"}
  /\ outcome[r] \in {"unauthenticated", "busy", "forbidden", "failed"} =>
       object[r] = "ABSENT"
  /\ outcome[r] \in Refused => ~MayBeLinked(r) /\ NothingLate(r)
  /\ outcome[r] = "writeFailed" =>
       <<"RECORD_STORAGE_WRITE_FAILED", r>> \in audit
  /\ outcome[r] = "reconcile" =>
       <<"RECORD_OBJECT_CLEANUP_REQUIRED", r>> \in audit

RequestInv(r) ==
  /\ Record(r) \in Existing \cup {r}
  /\ ObjectInv(r) /\ CommitInv(r) /\ ScanInv(r)
  /\ OutcomeInv(r) /\ AnswerInv(r) /\ OrphanInv(r)

(* The files that were there to begin with are linked and undisturbed.     *)
ExistingInv ==
  \A e \in Existing : e \in linked /\ object[e] = "ACCEPTED" /\ NothingLate(e)

(* The request's own state, and what is about its file.                    *)
Untouched(f) ==
  /\ object'[f] = object[f]
  /\ \A op \in Bucket!StoreRequest : <<op, f>> \in late' <=> <<op, f>> \in late
  /\ f \in linked' <=> f \in linked
  /\ f \in pending' <=> f \in pending

UntouchedRequest(r) ==
  /\ Untouched(r)
  /\ pc'[r] = pc[r] /\ outcome'[r] = outcome[r] /\ answer'[r] = answer[r]
  /\ scan'[r] = scan[r] /\ uncertain'[r] = uncertain[r]
  /\ input'[r] = input[r] /\ snapshot'[r] = snapshot[r]
  /\ \A event \in Event : <<event, r>> \in audit' <=> <<event, r>> \in audit

LEMMA UntouchedKeepsInv ==
  ASSUME NEW q \in Request, UntouchedRequest(q), RequestInv(q)
  PROVE  RequestInv(q)'
BY DEF UntouchedRequest, Untouched, RequestInv, ObjectInv, CommitInv, ScanInv,
       OutcomeInv, AnswerInv, OrphanInv, MayBeLinked, NothingLate, Record,
       ScanAccepted, Bucket!StoreRequest, Event

LEMMA OthersUntouched ==
  ASSUME TypeOK, NEW r \in Request, StepOf(r), NEW f \in File, f # r
  PROVE  Untouched(f) /\ (f \in Request => UntouchedRequest(f))
<1> USE DEF TypeOK, Bucket!TypeOK, local, database, authority, storeVars,
            Untouched, UntouchedRequest
<1>1. CASE Arrive(r)
  BY <1>1 DEF Arrive
<1>2. CASE Authorise(r)
  BY <1>2 DEF Authorise
<1>3. CASE Stage(r)
  BY <1>3 DEF Stage
<1>4. CASE Resession(r)
  BY <1>4 DEF Resession
<1>5. CASE Prepare(r)
  BY <1>5 DEF Prepare
<1>6. CASE Put(r)
  BY <1>6 DEF Put, Bucket!PutQuarantined, Bucket!Serve, Bucket!Abandon
<1>7. CASE Readback(r)
  BY <1>7 DEF Readback
<1>8. CASE UndoPut(r)
  BY <1>8 DEF UndoPut, Bucket!DeleteObject, Bucket!DeleteFails, Bucket!Serve,
            Bucket!Abandon
<1>9. CASE WriteFailed(r)
  BY <1>9 DEF WriteFailed
<1>10. CASE Scan(r)
  BY <1>10 DEF Scan
<1>11. CASE Accept(r)
  BY <1>11 DEF Accept, Bucket!Transition, Bucket!TransitionFails, Bucket!Serve,
            Bucket!Abandon
<1>12. CASE Reject(r)
  BY <1>12 DEF Reject, Bucket!Transition, Bucket!TransitionFails, Bucket!Serve,
            Bucket!Abandon
<1>13. CASE Rejected(r)
  BY <1>13 DEF Rejected
<1>14. CASE Begin(r)
  BY <1>14 DEF Begin
<1>15. CASE Lock(r)
  BY <1>15 DEF Lock, Abort
<1>16. CASE Callback(r)
  BY <1>16 DEF Callback, Abort
<1>17. CASE Commit(r)
  BY <1>17 DEF Commit, Abort, Apply
<1>18. CASE Confirm(r)
  BY <1>18 DEF Confirm
<1>19. CASE Compensate(r)
  BY <1>19 DEF Compensate
<1>20. CASE Delete(r)
  BY <1>20 DEF Delete, Bucket!DeleteObject, Bucket!DeleteFails, Bucket!Serve,
            Bucket!Abandon
<1>21. CASE CleanupRequired(r)
  BY <1>21 DEF CleanupRequired
<1>22. CASE Release(r)
  BY <1>22 DEF Release
<1>23. CASE Resolve(r)
  BY <1>23 DEF Resolve, Apply
<1> QED
  BY <1>1, <1>2, <1>3, <1>4, <1>5, <1>6, <1>7, <1>8, <1>9, <1>10, <1>11, <1>12,
     <1>13, <1>14, <1>15, <1>16, <1>17, <1>18, <1>19, <1>20, <1>21, <1>22, <1>23 DEF StepOf, RequestStep

LEMMA OwnStep ==
  ASSUME TypeOK, NEW r \in Request, RequestInv(r), StepOf(r)
  PROVE  RequestInv(r)'
<1> USE DEF TypeOK, Bucket!TypeOK, local, database, authority, storeVars,
            RequestInv, ObjectInv, CommitInv, ScanInv, OutcomeInv, AnswerInv,
            OrphanInv, MayBeLinked, Record, BeforePut, Quarantining,
            AfterAccept, Refused, Refusal, Status, NothingLate, File
<1>1. CASE Arrive(r)
  BY <1>1 DEF Arrive
<1>2. CASE Authorise(r)
  BY <1>2 DEF Authorise
<1>3. CASE Stage(r)
  BY <1>3 DEF Stage
<1>4. CASE Resession(r)
  BY <1>4 DEF Resession
<1>5. CASE Prepare(r)
  BY <1>5 DEF Prepare
<1>6. CASE Put(r)
  BY <1>6 DEF Put, Bucket!PutQuarantined, Bucket!Serve, Bucket!Abandon,
            Bucket!Effect, Bucket!Written, Bucket!StoreRequest
<1>7. CASE Readback(r)
  BY <1>7 DEF Readback
<1>8. CASE UndoPut(r)
  BY <1>8 DEF UndoPut, Bucket!DeleteObject, Bucket!DeleteFails, Bucket!Serve,
            Bucket!Abandon,
            Bucket!Effect, Bucket!Written, Bucket!StoreRequest
<1>9. CASE WriteFailed(r)
  BY <1>9 DEF WriteFailed
<1>10. CASE Scan(r)
  BY <1>10 DEF Scan
<1>11. CASE Accept(r)
  BY <1>11 DEF Accept, Bucket!Transition, Bucket!TransitionFails, Bucket!Serve,
            Bucket!Abandon,
            Bucket!Effect, Bucket!Written, Bucket!StoreRequest
<1>12. CASE Reject(r)
  BY <1>12 DEF Reject, Bucket!Transition, Bucket!TransitionFails, Bucket!Serve,
            Bucket!Abandon,
            Bucket!Effect, Bucket!Written, Bucket!StoreRequest
<1>13. CASE Rejected(r)
  BY <1>13 DEF Rejected
<1>14. CASE Begin(r)
  BY <1>14 DEF Begin
<1>15. CASE Lock(r)
  BY <1>15 DEF Lock, Abort
<1>16. CASE Callback(r)
  BY <1>16 DEF Callback, Abort
<1>17. CASE Commit(r)
  BY <1>17 DEF Commit, Abort, Apply
<1>18. CASE Confirm(r)
  BY <1>18 DEF Confirm
<1>19. CASE Compensate(r)
  BY <1>19 DEF Compensate
<1>20. CASE Delete(r)
  BY <1>20 DEF Delete, Bucket!DeleteObject, Bucket!DeleteFails, Bucket!Serve,
            Bucket!Abandon,
            Bucket!Effect, Bucket!Written, Bucket!StoreRequest
<1>21. CASE CleanupRequired(r)
  BY <1>21 DEF CleanupRequired
<1>22. CASE Release(r)
  BY <1>22 DEF Release
<1>23. CASE Resolve(r)
  BY <1>23 DEF Resolve, Apply
<1> QED
  BY <1>1, <1>2, <1>3, <1>4, <1>5, <1>6, <1>7, <1>8, <1>9, <1>10, <1>11, <1>12,
     <1>13, <1>14, <1>15, <1>16, <1>17, <1>18, <1>19, <1>20, <1>21, <1>22, <1>23 DEF StepOf, RequestStep

LEMMA EnvironmentKeepsInv ==
  ASSUME TypeOK, NEW r \in Request, RequestInv(r), Environment
  PROVE  RequestInv(r)'
<1> USE DEF TypeOK, Bucket!TypeOK, local, database, authority, storeVars,
            RequestInv, ObjectInv, CommitInv, ScanInv, OutcomeInv, AnswerInv,
            OrphanInv, MayBeLinked, Record, BeforePut, Quarantining,
            AfterAccept, Refused, Refusal, Status, NothingLate, File
<1>1. CASE Crash
  BY <1>1 DEF Crash, Active
<1>2. CASE Revoke \/ Restore \/ Reassign
  BY <1>2 DEF Revoke, Restore, Reassign
<1>3. CASE BucketCatchesUp
  <2> USE <1>3 DEF BucketCatchesUp
  <2> PICK op \in Bucket!StoreRequest, key \in File :
             /\ <<op, key>> \in late
             /\ late' = late \ {<<op, key>>}
             /\ object' = [object EXCEPT ![key] = Bucket!Effect(op, @)]
    BY DEF Bucket!LateRequest
  <2>1. CASE key = r
    <3>1. pc[r] \notin BeforePut \cup Quarantining \cup AfterAccept /\ ~MayBeLinked(r)
      BY <2>1
    <3>2. object'[r] = Bucket!Effect(op, object[r])
      BY <2>1
    <3>3. op \in {"ACCEPT", "REJECT", "DELETE"} /\ object[r] = "ABSENT" => object'[r] = "ABSENT"
      BY <3>2 DEF Bucket!Effect, Bucket!Written
    <3>4. object'[r] = "ACCEPTED" => op = "ACCEPT"
      BY <3>2 DEF Bucket!Effect, Bucket!Written, Bucket!StoreRequest
    <3> QED
      BY <2>1, <3>1, <3>2, <3>3, <3>4 DEF Bucket!StoreRequest
  <2>2. CASE key # r
    BY <2>2 DEF Bucket!StoreRequest
  <2> QED
    BY <2>1, <2>2 DEF ProgressTyped
<1> QED
  BY <1>1, <1>2, <1>3 DEF Environment

RequestsInv == (\A r \in Request : RequestInv(r)) /\ ExistingInv

LEMMA RequestsInvInductive ==
  ASSUME TypeOK, RequestsInv, [Next]_vars
  PROVE  RequestsInv'
<1>1. CASE \E r \in Request : StepOf(r)
  <2> PICK r \in Request : StepOf(r)
    BY <1>1
  <2>1. \A q \in Request : RequestInv(q)'
    BY OwnStep, OthersUntouched, UntouchedKeepsInv DEF RequestsInv, File
  <2>2. \A e \in Existing : Untouched(e)
    BY OthersUntouched, DistinctIds DEF File
  <2> QED
    BY <2>1, <2>2 DEF RequestsInv, ExistingInv, Untouched, NothingLate,
                      Bucket!StoreRequest
<1>2. CASE Environment
  <2>1. \A q \in Request : RequestInv(q)'
    BY <1>2, EnvironmentKeepsInv DEF RequestsInv
  <2>2. \A e \in Existing : Untouched(e)
    BY <1>2 DEF Environment, Crash, Revoke, Restore, Reassign, BucketCatchesUp,
                Bucket!LateRequest, Bucket!StoreRequest, Untouched, RequestsInv,
                ExistingInv, NothingLate, TypeOK, Bucket!TypeOK, storeVars,
                database
  <2> QED
    BY <2>1, <2>2 DEF RequestsInv, ExistingInv, Untouched, NothingLate,
                      Bucket!StoreRequest
<1>3. CASE UNCHANGED vars
  <2>1. \A q \in Request : UntouchedRequest(q)
    BY <1>3 DEF vars, local, database, authority, storeVars, UntouchedRequest,
                Untouched
  <2>2. \A e \in Existing : Untouched(e)
    BY <1>3 DEF vars, database, storeVars, Untouched
  <2> QED
    BY <2>1, <2>2, UntouchedKeepsInv
    DEF RequestsInv, ExistingInv, Untouched, NothingLate, Bucket!StoreRequest
<1> QED
  BY <1>1, <1>2, <1>3 DEF Next, StepOf, Stop

LEMMA RequestsInvInitially == Init => TypeOK /\ RequestsInv
<1> SUFFICES ASSUME Init PROVE TypeOK /\ RequestsInv
  OBVIOUS
<1>1. TypeOK
  BY DEF Init, TypeOK, Bucket!TypeOK, Bucket!ObjectState, Step, File, Actor,
         Outcome, Answer, Ground
<1>2. ASSUME NEW r \in Request PROVE RequestInv(r)
  BY DistinctIds DEF Init, File, RequestInv, ObjectInv, CommitInv, ScanInv,
     OutcomeInv, AnswerInv, OrphanInv, MayBeLinked, Record, BeforePut,
     Quarantining, AfterAccept, Refused, Refusal, NothingLate
<1>3. ExistingInv
  BY DEF Init, ExistingInv, NothingLate, File
<1> QED
  BY <1>1, <1>2, <1>3 DEF RequestsInv

LEMMA RequestsInvAlways == Spec => [](TypeOK /\ RequestsInv)
<1>1. TypeOK /\ RequestsInv /\ [Next]_vars => RequestsInv'
  BY RequestsInvInductive
<1> QED
  BY <1>1, RequestsInvInitially, TypesAndSlots, PTL DEF Spec

----------------------------------------------------------------------------
(* The safety properties that follow.                                      *)

(* Whatever fails, in whatever order late storage requests and commits     *)
(* take effect, the object of a file in the metadata is there and ACCEPTED:*)
(* compensation never deletes what a COMMIT made, or may still make,       *)
(* visible.                                                                *)
THEOREM LinkedObjectsStay == Spec => []LinkedObjectsAccepted
<1>1. TypeOK /\ RequestsInv => LinkedObjectsAccepted
  BY DEF TypeOK, RequestsInv, RequestInv, ObjectInv, MayBeLinked, ExistingInv,
         LinkedObjectsAccepted, File
<1> QED
  BY <1>1, RequestsInvAlways, PTL

(* Nothing the scan did not accept is ever readable or linked.             *)
THEOREM ScanGateHolds == Spec => []OnlyScannedFiles
<1>1. RequestsInv => OnlyScannedFiles
  BY DEF RequestsInv, RequestInv, ObjectInv, ScanInv, MayBeLinked,
         OnlyScannedFiles
<1> QED
  BY <1>1, RequestsInvAlways, PTL

(* The status the client got can be relied on: 201 means the row is there, *)
(* a refusal that nothing of the upload exists or will, and after a 503    *)
(* only a lost COMMIT answer leaves a row to be found.                     *)
THEOREM AnswersAreTrue == Spec => []AnswerIsTrue
<1>1. RequestsInv => AnswerIsTrue
  BY DEF RequestsInv, RequestInv, OutcomeInv, AnswerInv, OrphanInv, Refused,
         MayBeLinked, NothingLate, AnswerIsTrue
<1> QED
  BY <1>1, RequestsInvAlways, PTL

(* An object left behind by a definite outcome is always announced.        *)
THEOREM OrphansAreAnnounced == Spec => []NoSilentOrphan
<1>1. TypeOK /\ RequestsInv => NoSilentOrphan
  BY DEF TypeOK, RequestsInv, RequestInv, OutcomeInv, OrphanInv, MayBeLinked,
         Outcome, NoSilentOrphan
<1> QED
  BY <1>1, RequestsInvAlways, PTL

(* Type correctness of record intake.                                      *)
THEOREM UploadTypesHold == Spec => []TypeOK
BY TypesAndSlots, PTL

----------------------------------------------------------------------------
(* An upload without authority.                                            *)

(* Only what was prepared has been reassigned.                             *)
ReassignedInv == \A r \in reassigned : pc[r] \in Prepared \cup {"release", "done"}

(* What its transaction will find, or has found, is not enough; ended      *)
(* sessions, superseded versions and reassigned metadata do not come back. *)
Barred(r) ==
  /\ ~MayBeLinked(r) /\ pc[r] # "commit"
  /\ pc[r] \in {"lock", "callback"} => ~snapshot[r].authorised
  /\ pc[r] \in BeforeTransaction =>
       \/ "session" \notin holds
       \/ "latest" \notin holds /\ pc[r] # "idle" /\ ~Replaces(r)
       \/ r \in reassigned /\ pc[r] \in Prepared

LEMMA RequestsLeaveAuthority ==
  ASSUME NEW r \in Request, StepOf(r)
  PROVE  UNCHANGED authority
BY DEF StepOf, RequestStep, Arrive, Authorise, Stage, Resession, Prepare, Put, Readback,
       UndoPut, WriteFailed, Scan, Accept, Reject, Rejected, Begin, Lock, Callback, Commit,
       Confirm, Compensate, Delete, CleanupRequired, Release, Resolve

(* The steps of a request after it has arrived.                            *)
Onward(r) ==
  /\ pc[r] # "idle" => input'[r] = input[r] /\ pc'[r] # "idle"
  /\ pc[r] \in Prepared => pc'[r] \in Prepared \cup {"release"}
  /\ pc[r] \notin BeforeTransaction => pc'[r] \notin BeforeTransaction
  /\ pc'[r] = "commit" => pc[r] = "commit" \/ (pc[r] = "callback" /\ snapshot[r].authorised)
  /\ pc'[r] \in {"lock", "callback"} =>
       \/ pc[r] = "begin" /\ snapshot'[r].authorised = Authorised(r)
       \/ pc[r] \in {"lock", "callback"} /\ snapshot'[r] = snapshot[r]
  /\ pc[r] # "commit" /\ ~MayBeLinked(r) => ~MayBeLinked(r)'

LEMMA StepGoesOnward ==
  ASSUME TypeOK, NEW r \in Request, StepOf(r)
  PROVE  Onward(r)
<1> USE DEF TypeOK, local, database, authority, storeVars, Onward, Prepared,
            BeforeTransaction, MayBeLinked
<1>1. CASE Arrive(r) \/ Authorise(r) \/ Stage(r) \/ Resession(r) \/ Prepare(r) \/ Release(r)
  BY <1>1 DEF Arrive, Authorise, Stage, Resession, Prepare, Release
<1>2. CASE \/ Put(r) \/ Readback(r) \/ UndoPut(r) \/ WriteFailed(r)
           \/ Scan(r) \/ Accept(r) \/ Reject(r) \/ Rejected(r)
  BY <1>2 DEF Put, Readback, UndoPut, WriteFailed, Scan, Accept, Reject, Rejected
<1>3. CASE Begin(r)
  BY <1>3 DEF Begin
<1>4. CASE Lock(r) \/ Callback(r) \/ Commit(r)
  BY <1>4 DEF Lock, Callback, Commit, Abort
<1>5. CASE Confirm(r) \/ Compensate(r) \/ Delete(r) \/ CleanupRequired(r)
  BY <1>5 DEF Confirm, Compensate, Delete, CleanupRequired
<1>6. CASE Resolve(r)
  BY <1>6 DEF Resolve, Apply
<1> QED  BY <1>1, <1>2, <1>3, <1>4, <1>5, <1>6 DEF StepOf, RequestStep

LEMMA ReassignedStep ==
  ASSUME TypeOK, ReassignedInv, [Next]_vars
  PROVE  ReassignedInv'
<1>1. CASE \E r \in Request : StepOf(r)
  <2>1. PICK r \in Request : StepOf(r)
    BY <1>1
  <2> SUFFICES ASSUME NEW q \in reassigned PROVE pc'[q] \in Prepared \cup {"release", "done"}
    BY <2>1, RequestsLeaveAuthority DEF ReassignedInv, authority
  <2>2. q \in Request /\ q \in File
    BY DEF TypeOK, File
  <2>3. CASE q # r
    BY <2>1, <2>2, <2>3, OthersUntouched DEF UntouchedRequest, ReassignedInv
  <2>4. CASE q = r /\ pc[r] \in Prepared
    BY <2>1, <2>4, StepGoesOnward DEF Onward
  <2>5. CASE q = r /\ pc[r] \in {"release", "done"}
    BY <2>1, <2>5
       DEF TypeOK, StepOf, RequestStep, Arrive, Authorise, Stage, Resession, Prepare, Put,
           Readback, UndoPut, WriteFailed, Scan, Accept, Reject, Rejected, Begin, Lock, Callback,
           Commit, Confirm, Compensate, Delete, CleanupRequired, Release, Resolve
  <2> QED  BY <2>3, <2>4, <2>5 DEF ReassignedInv
<1>2. CASE Crash
  BY <1>2 DEF Crash, Active, ReassignedInv, authority, Prepared, TypeOK
<1>3. CASE Revoke \/ Restore \/ Reassign \/ BucketCatchesUp \/ UNCHANGED vars
  BY <1>3 DEF Revoke, Restore, Reassign, BucketCatchesUp, vars, authority, ReassignedInv
<1> QED  BY <1>1, <1>2, <1>3 DEF Next, StepOf, Stop, Environment

LEMMA BarredStep ==
  ASSUME TypeOK, [Next]_vars, NEW r \in Request, Barred(r)
  PROVE  Barred(r)'
<1>1. CASE StepOf(r)
  <2>1. Onward(r) /\ UNCHANGED authority
    BY <1>1, StepGoesOnward, RequestsLeaveAuthority
  <2>2. pc'[r] # "commit" /\ ~MayBeLinked(r)'
    BY <2>1 DEF Onward, Barred
  <2>3. pc'[r] \in {"lock", "callback"} => ~snapshot'[r].authorised
    <3>1. pc[r] = "begin" => ~Authorised(r)
      BY DEF Barred, BeforeTransaction, Authorised, SessionResolves, UploadContext
    <3> QED  BY <2>1, <3>1 DEF Onward, Barred
  <2>4. ASSUME pc'[r] \in BeforeTransaction
        PROVE  \/ "session" \notin holds
               \/ "latest" \notin holds /\ pc'[r] # "idle" /\ ~Replaces(r)'
               \/ r \in reassigned /\ pc'[r] \in Prepared
    <3>1. pc[r] \in BeforeTransaction
      BY <2>1, <2>4 DEF Onward
    <3>2. CASE "session" \notin holds
      BY <3>2
    <3>3. CASE "latest" \notin holds /\ pc[r] # "idle" /\ ~Replaces(r)
      BY <2>1, <3>3 DEF Onward, Replaces, Record
    <3>4. CASE r \in reassigned /\ pc[r] \in Prepared
      BY <2>1, <2>4, <3>4 DEF Onward, BeforeTransaction
    <3> QED  BY <3>1, <3>2, <3>3, <3>4 DEF Barred
  <2> QED  BY <2>1, <2>2, <2>3, <2>4 DEF Barred, authority
<1>2. ASSUME NEW q \in Request, q # r, StepOf(q) PROVE Barred(r)'
  <2>1. UntouchedRequest(r) /\ UNCHANGED authority
    BY <1>2, OthersUntouched, RequestsLeaveAuthority DEF File
  <2> QED
    BY <2>1 DEF Barred, UntouchedRequest, Untouched, MayBeLinked, Replaces, Record, authority
<1>3. CASE Environment
  <2>1. CASE Crash
    <3>1. pc'[r] \in {"done", "idle"} /\ pc'[r] = "idle" => pc[r] = "idle"
      BY <2>1 DEF Crash, Active
    <3>2. pc'[r] \in {"done", "idle"}
      BY <2>1 DEF Crash, Active
    <3> QED
      BY <2>1, <3>1, <3>2
         DEF Crash, Barred, MayBeLinked, Replaces, Record, authority, local, BeforeTransaction,
             Prepared
  <2>2. CASE Revoke \/ Restore \/ BucketCatchesUp
    BY <2>2 DEF Revoke, Restore, BucketCatchesUp, Barred, MayBeLinked, Replaces, Record, authority,
       local, database
  <2>3. CASE Reassign
    BY <2>3 DEF Reassign, Barred, MayBeLinked, Replaces, Record, local, database
  <2> QED  BY <1>3, <2>1, <2>2, <2>3 DEF Environment
<1>4. CASE UNCHANGED vars
  BY <1>4 DEF vars, Barred, MayBeLinked, Replaces, Record, authority, local, database
<1> QED  BY <1>1, <1>2, <1>3, <1>4 DEF Next, StepOf, Stop

(* An upload whose session has ended, whose definition version was         *)
(* superseded or whose relationship was given to others before its         *)
(* transaction begins never commits, whatever is restored, retried or      *)
(* served late after that (the authorisation inside the transaction of     *)
(* record-service.ts).                                                     *)
THEOREM LostAuthorityIsFinal == Spec => LostAuthorityNeverCommits
<1>1. Init => ReassignedInv
  BY DEF Init, ReassignedInv
<1>2. Spec => [](TypeOK /\ RequestsInv /\ ReassignedInv)
  BY <1>1, ReassignedStep, RequestsInvAlways, PTL DEF Spec
<1>3. ASSUME NEW r \in Request
      PROVE  Spec => [](AuthorityLost(r) => [](r \notin linked))
  <2>1. TypeOK /\ RequestsInv /\ ReassignedInv /\ AuthorityLost(r) => Barred(r)
    BY DEF AuthorityLost, BeforeTransaction, Barred, RequestsInv, RequestInv, CommitInv,
           MayBeLinked, ReassignedInv
  <2>2. TypeOK /\ [Next]_vars /\ Barred(r) => Barred(r)'
    BY BarredStep
  <2>3. Barred(r) => r \notin linked
    BY DEF Barred, MayBeLinked
  <2> QED  BY <1>2, <2>1, <2>2, <2>3, PTL DEF Spec
<1> QED  BY <1>3 DEF LostAuthorityNeverCommits

=============================================================================
