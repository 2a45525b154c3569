---------------------------- MODULE RecordAccess ----------------------------
(***************************************************************************)
(* Reading records (record-access.ts, record-queries.ts, policy.ts, the    *)
(* pages that list and show them and the route that streams a file), query *)
(* by query, while the company, its roles and the legal grants change.     *)
(*                                                                         *)
(*   row      the session is known; the record is looked up                *)
(*   person, member, legal   the three ways in, tried in this order        *)
(*   object   the object's metadata is compared with the row               *)
(*   event    the access is to be recorded                                 *)
(*   stream   it is recorded; the object is opened                         *)
(***************************************************************************)
EXTENDS Naturals, FiniteSets

CONSTANTS
  Account,
  Worker,         \* the account of the person the records are about
  Role,
  Record,
  Version,        \* record -> the definition version it was made under
  Edited,         \* record -> a later version of that definition
  Downloadable,   \* records whose file is accepted
  Grant,
  Legal,          \* legal grant -> what it says
  Staff, Roles,   \* who works for the company at first, in which roles
  Changes,        \* changes of the tables while one looks
  NoAsk

VARIABLES
  staff, roles, retired, firm, \* active members, their roles, roles retired, company active
  alive,                       \* legal grants that are active, unrevoked, in time
  deleted, edited,
  changes,
  ask, pc, seen, log,
  grounds  \* reasons to let the reader in that held since the request came in

tables == <<staff, roles, retired, firm, alive, deleted, edited>>
accessVars == <<tables, changes, ask, pc, seen, log, grounds>>

RecordContext == {"PERSON", "COMPANY", "RELATIONSHIP"}

(* A RecordDefinitionVersion, as far as access depends on it.              *)
DefinitionVersion(version) ==
  /\ version.context \in RecordContext
  /\ version.visible \in BOOLEAN
  /\ version.roles \subseteq Role

(* A LegalAccessGrant; empty lists do not restrict it.                     *)
LegalAccessGrant(grant) ==
  /\ grant.to \in Account
  /\ {grant.view, grant.download} \subseteq BOOLEAN
  /\ grant.definitions \subseteq {Version[d].definition : d \in Record}
  /\ grant.categories \subseteq {Version[d].category : d \in Record}

ASSUME AccessTyped ==
  /\ \A d \in Record : DefinitionVersion(Version[d]) /\ DefinitionVersion(Edited[d])
  /\ \A g \in Grant : LegalAccessGrant(Legal[g])
  /\ Worker \in Account /\ Downloadable \subseteq Record
  /\ Staff \subseteq Account /\ Roles \in [Account -> SUBSET Role]

Ask == [by : Account, of : Record, op : {"view", "download"}]

ASSUME NoAskIsNoAsk == NoAsk \notin Ask

----------------------------------------------------------------------------
(* policy.ts: `gone` is the status of the row that was read.               *)

(* Defect: the definition as it is now.                                    *)
Latest(d) == IF d \in edited THEN Edited[d] ELSE Version[d]

Pinned(d) == Version[d]

CanPersonView(a, d, gone) == a = Worker /\ Pinned(d).visible /\ ~gone

CanCompanyMemberView(a, d, gone) ==
  /\ firm /\ a \in staff /\ ~gone
  /\ (roles[a] \ retired) \cap Pinned(d).roles # {}

InScope(g, d) ==
  /\ Legal[g].definitions = {} \/ Pinned(d).definition \in Legal[g].definitions
  /\ Legal[g].categories = {} \/ Pinned(d).category \in Legal[g].categories

(* Defect: who may view may download.                                      *)
ViewIsEnough(g, d, op) == g \in alive /\ Legal[g].view /\ InScope(g, d)

CanLegalProfessionalView(g, d, op) ==
  /\ g \in alive /\ Legal[g].view /\ InScope(g, d)
  /\ op = "download" => Legal[g].download

HasLegalGrant(a, d, op, gone) ==
  ~gone /\ \E g \in Grant : Legal[g].to = a /\ CanLegalProfessionalView(g, d, op)

(* canReadStoredRecord, as if nothing could come between its queries.      *)
CanRead(a, d, op) ==
  LET gone == d \in deleted
  IN  \/ CanPersonView(a, d, gone)
      \/ Pinned(d).context # "PERSON" /\ CanCompanyMemberView(a, d, gone)
      \/ Pinned(d).context = "RELATIONSHIP" /\ HasLegalGrant(a, d, op, gone)

(* What the lists keep of the rows their queries find.                     *)
PersonProjection(a, rows) == {d \in rows : CanPersonView(a, d, FALSE)}

EmployeeProjection(a, rows) == {d \in rows : CanCompanyMemberView(a, d, FALSE)}

(* personRecords, relationshipRecords, and the legal access page.          *)
PersonRecords(a) ==
  PersonProjection(a, {d \in Record \ deleted : a = Worker /\ Pinned(d).visible})

InRelationship == {d \in Record \ deleted : Pinned(d).context = "RELATIONSHIP"}

(* Defect: the projection for the member's roles is left out.              *)
AllRelationshipRecords(a) == IF firm /\ a \in staff THEN InRelationship ELSE {}

RelationshipRecords(a) ==
  IF firm /\ a \in staff
  THEN EmployeeProjection(a, InRelationship) ELSE {}

LegalRecords(a) ==
  IF \E g \in alive : Legal[g].to = a /\ Legal[g].view
  THEN {d \in InRelationship : CanRead(a, d, "view")} ELSE {}

----------------------------------------------------------------------------
(* One reader's request.                                                   *)

Go(step) == pc' = step /\ UNCHANGED <<tables, changes, ask, seen, log>>

(* auditRecordAccessDenied; it may fail, and the reader is not let in.     *)
Deny ==
  \/ /\ pc' = "denied" /\ log' = log \cup {"RECORD_ACCESS_DENIED"}
     /\ UNCHANGED <<tables, changes, ask, seen>>
  \/ Go("failed")

Arrive ==
  /\ pc = "idle"
  /\ ask' \in Ask
  /\ pc' = "row"
  /\ seen' = [op |-> ask'.op, gone |-> FALSE, links |-> FALSE]
  /\ UNCHANGED <<tables, changes, log>>

LookUp ==
  /\ pc = "row"
  /\ IF ask.op = "download" /\ ask.of \notin Downloadable THEN Deny
     ELSE /\ pc' = "person"
          /\ seen' = [seen EXCEPT !.gone = ask.of \in deleted]
          /\ UNCHANGED <<tables, changes, ask, log>>

(* The page asks a second time, for the download links.                    *)
Allow ==
  IF ask.op = "download" THEN Go("object")
  ELSE IF seen.op = "view"
  THEN /\ pc' = "person"
       /\ seen' = [seen EXCEPT !.op = "download"]
       /\ UNCHANGED <<tables, changes, ask, log>>
  ELSE /\ pc' = "event"
       /\ seen' = [seen EXCEPT !.links = TRUE]
       /\ UNCHANGED <<tables, changes, ask, log>>

Refuse == IF ask.op = seen.op THEN Deny ELSE Go("event")

AsPerson ==
  /\ pc = "person"
  /\ IF CanPersonView(ask.by, ask.of, seen.gone) THEN Allow
     ELSE IF Pinned(ask.of).context = "PERSON" THEN Refuse
     ELSE Go("member")

AsMember ==
  /\ pc = "member"
  /\ IF CanCompanyMemberView(ask.by, ask.of, seen.gone) THEN Allow
     ELSE IF Pinned(ask.of).context # "RELATIONSHIP" THEN Refuse
     ELSE Go("legal")

AsLawyer ==
  /\ pc = "legal"
  /\ IF HasLegalGrant(ask.by, ask.of, seen.op, seen.gone) THEN Allow ELSE Refuse

(* Storage and database may fail at each of these.                         *)
CompareObject == pc = "object" /\ (Go("event") \/ Go("failed"))

RecordAccessEvent ==
  /\ pc = "event"
  /\ \/ Go("failed")
     \/ /\ pc' = IF ask.op = "download" THEN "stream" ELSE "viewed"
        /\ log' = log \cup
             {IF ask.op = "download" THEN "RECORD_FILE_DOWNLOAD" ELSE "RECORD_VIEW"}
        /\ UNCHANGED <<tables, changes, ask, seen>>

Stream == pc = "stream" /\ (Go("served") \/ Go("failed"))

Answered == pc \in {"denied", "failed", "viewed", "served"}

(* Meanwhile members come and go, roles are given, taken and retired, the  *)
(* company is suspended, legal grants end, definitions are edited; rows    *)
(* are deleted by operators only.                                          *)
Change ==
  /\ changes < Changes /\ ~Answered
  /\ changes' = changes + 1
  /\ \/ \E a \in Account : staff' = (staff \ {a}) \cup ({a} \ staff)
        /\ UNCHANGED <<roles, retired, firm, alive, deleted, edited>>
     \/ \E a \in staff, r \in Role :
          roles' = [roles EXCEPT ![a] = (@ \ {r}) \cup ({r} \ @)]
        /\ UNCHANGED <<staff, retired, firm, alive, deleted, edited>>
     \/ \E r \in Role : retired' = (retired \ {r}) \cup ({r} \ retired)
        /\ UNCHANGED <<staff, roles, firm, alive, deleted, edited>>
     \/ firm' = ~firm
        /\ UNCHANGED <<staff, roles, retired, alive, deleted, edited>>
     \/ \E g \in alive : alive' = alive \ {g}
        /\ UNCHANGED <<staff, roles, retired, firm, deleted, edited>>
     \/ \E d \in Record \ deleted : deleted' = deleted \cup {d}
        /\ UNCHANGED <<staff, roles, retired, firm, alive, edited>>
     \/ \E d \in Record \ edited : edited' = edited \cup {d}
        /\ UNCHANGED <<staff, roles, retired, firm, alive, deleted>>
  /\ UNCHANGED <<ask, pc, seen, log>>

(* What the tables say in favour of the reader.                            *)
Grounds(a, d, op) ==
  LET version == Version[d]
  IN  {w \in {Worker} : a = w /\ version.visible}
      \cup {r \in version.roles : firm /\ a \in staff /\ version.context # "PERSON"
                                  /\ r \in roles[a] /\ r \notin retired}
      \cup {g \in alive : version.context = "RELATIONSHIP" /\ Legal[g].to = a
              /\ Legal[g].view /\ (op = "download" => Legal[g].download)
              /\ (Legal[g].definitions # {} => version.definition \in Legal[g].definitions)
              /\ (Legal[g].categories # {} => version.category \in Legal[g].categories)}

Remember ==
  grounds' = IF ask' = NoAsk THEN grounds
             ELSE [op \in DOMAIN grounds |->
                     grounds[op] \cup Grounds(ask.by, ask.of, op)']

AccessInit ==
  /\ staff = Staff /\ roles = Roles /\ retired = {} /\ firm = TRUE
  /\ alive = Grant /\ deleted = {} /\ edited = {} /\ changes = 0
  /\ ask = NoAsk /\ pc = "idle" /\ log = {}
  /\ seen = [op |-> "view", gone |-> FALSE, links |-> FALSE]
  /\ grounds = [op \in {"view", "download"} |-> {}]

AccessNext ==
  /\ \/ Arrive \/ LookUp \/ AsPerson \/ AsMember \/ AsLawyer
     \/ CompareObject \/ RecordAccessEvent \/ Stream \/ Change
  /\ Remember

----------------------------------------------------------------------------
(* Whoever is shown a record, a download link or a file had one and the    *)
(* same reason for it, in full, at some moment since asking, in the version *)
(* the record was made under; viewing is not downloading, two legal grants *)
(* do not add up; and the access is on record before anything is sent      *)
(* (canReadStoredRecord, GET files/[fileId], RecordPage).                  *)
AccessHasGrounds ==
  /\ pc = "served" => grounds["download"] # {} /\ "RECORD_FILE_DOWNLOAD" \in log
  /\ pc = "viewed" => grounds["view"] # {} /\ "RECORD_VIEW" \in log
  /\ seen.links => grounds["download"] # {}

(* The three lists are queries of their own (personRecords,                *)
(* relationshipRecords, LegalAccessPage): between them they show a reader  *)
(* what canReadStoredRecord would open, nothing else and nothing less, and *)
(* offer only downloads that the route serves.                             *)
ListsMatchAccess ==
  \A a \in Account, d \in Record :
    LET owned == PersonRecords(a) \cup RelationshipRecords(a)
    IN  /\ d \in owned \cup LegalRecords(a) <=> CanRead(a, d, "view")
        /\ d \in owned => CanRead(a, d, "download")

=============================================================================
