----------------------- MODULE EmploymentInvitations -----------------------
(***************************************************************************)
(* Invitations of persons into the employment of one company, and the      *)
(* relationships that accepting them starts (employment-service.ts and     *)
(* the pages that call it).  An address belongs to one account; a request  *)
(* is the id of the invitation or the relationship it creates.             *)
(***************************************************************************)
EXTENDS ServiceTransaction

CONSTANTS
  Existing,   \* invitations that are there already
  Former      \* relationships that are there already

(* A request's invitation has an id of its own.                            *)
ASSUME NewInvitations == Request \cap Existing = {}

Invitation == Request \cup Existing
Relation == Request \cup Former

Invite == [status : {"NONE", "OPEN", "ACCEPTED", "DECLINED", "REVOKED"},
           to : Account, by : Account, rel : Relation \cup {None}]

(* FORMER and ENDED are one status to this code.                           *)
Employment == [status : {"NONE", "PENDING", "ACTIVE", "ENDED"}, of : Account]

EmploymentItem ==
  [row : {"manager", "inbox", "employment"}, of : Account]
  \cup [row : {"invitation"}, of : Invitation]
  \cup [row : {"relation"}, of : Relation]

Rows(kind, S) == [row : {kind}, of : S]

----------------------------------------------------------------------------
(* What a transaction finds in its snapshot v.                             *)

(* authenticated: the session resolves to an active, verified account.     *)
Authenticated(v, a) == a \in v.active

(* invitationManager                                                       *)
ManagesPeople(v, a) == a \in v.active /\ a \in v.managers /\ v.company

Pending(v, i, late) == v.invite[i].status = "OPEN" /\ i \notin late

Answered(v, i) == v.invite[i].status \notin {"NONE", "OPEN"}

PersonInvitations(v, a) ==
  {i \in Invitation : a \in v.active /\ a \in v.persons /\ v.company
                      /\ v.invite[i].to = a /\ Pending(v, i, v.expired)}

CompanyInvitations(v, a) ==
  {i \in Invitation : ManagesPeople(v, a) /\ Pending(v, i, v.expired)}

EmploymentOf(v, p, status) ==
  {r \in Relation : v.relation[r].of = p /\ v.relation[r].status = status}

----------------------------------------------------------------------------
(* The pages: a manager types an address or revokes what the list shows, a *)
(* person answers what the inbox shows.                                    *)
AddPerson ==
  {[kind |-> "send", by |-> a, to |-> b] :
     a \in {x \in Account : ManagesPeople(db, x)}, b \in Account}

InvitationActions ==
  UNION {[kind : {"revoke"}, by : {a}, on : CompanyInvitations(db, a)]
         \cup [kind : {"accept", "decline"}, by : {a},
              on : PersonInvitations(db, a)] : a \in Account}

(* The clock is read after the snapshot: by then more may have expired.    *)
Clock(c) == {view[c].expired, db.expired}

----------------------------------------------------------------------------
(* sendEmploymentInvitation                                                *)

SendInvitation(c) ==
  LET q == input[c]
      v == view[c]
      reads == Rows("manager", {actor[c]}) \cup Rows("inbox", {q.to})
  IN  /\ Running(c) /\ q.kind = "send"
      /\ \/ ~ManagesPeople(v, actor[c]) /\ Throw(c, "denied")
         \/ /\ ManagesPeople(v, actor[c])
            /\ \E late \in Clock(c) :
                 LET waiting == {i \in Invitation :
                       v.invite[i].to = q.to /\ Pending(v, i, late)}
                 IN  \/ /\ waiting # {}
                        /\ Commit(c, "done", "existing", reads, {}, {})
                        /\ UNCHANGED db
                     \/ /\ waiting = {}
                        /\ Commit(c, "mail", "created", reads,
                             Rows("invitation", {c}) \cup Rows("inbox", {q.to}),
                             {})
                        /\ db' = [db EXCEPT !.invite[c] =
                             [status |-> "OPEN", to |-> q.to,
                              by |-> actor[c], rel |-> None]]

(* After COMMIT, once; a mail that fails leaves the invitation in the inbox. *)
MailInvitation(c) ==
  /\ pc[c] = "mail"
  /\ \/ Answer(c, "done", "created")
     \/ Answer(c, "done", "undelivered")
  /\ UNCHANGED <<input, actor, attempt, view, since, log, db>>

----------------------------------------------------------------------------
(* resolveEmploymentInvitation                                             *)

MayAnswer(v, a, q) ==
  /\ Authenticated(v, a)
  /\ v.invite[q.on].status # "NONE"
  /\ IF q.kind = "revoke" THEN ManagesPeople(v, a)
                          ELSE a \in v.persons /\ v.invite[q.on].to = a

Repeated(v, q) == q.kind = "accept" /\ v.invite[q.on].status = "ACCEPTED"

(* Defect: who answers first does not matter.                              *)
AnswerErrorLax(v, a, q, late) ==
  IF ~MayAnswer(v, a, q) THEN "denied"
  ELSE IF ~v.company \/ q.on \in late THEN "unavailable"
  ELSE "none"

AnswerError(v, a, q, late) ==
  IF ~MayAnswer(v, a, q) THEN "denied"
  ELSE IF ~v.company THEN "unavailable"
  ELSE IF Repeated(v, q) THEN "none"
  ELSE IF ~Pending(v, q.on, late) THEN "unavailable"
  ELSE IF q.kind = "accept" /\ ~ManagesPeople(v, v.invite[q.on].by)
       THEN "denied"
  ELSE "none"

AnswerReads(v, a, q) ==
  Rows("invitation", {q.on})
  \cup (IF q.kind = "revoke" THEN Rows("manager", {a}) ELSE {})

(* Defect: whatever employment there was is activated.                     *)
EmployFormer(v, c, p) ==
  LET known == {r \in Relation : v.relation[r].of = p
                                 /\ v.relation[r].status # "NONE"}
  IN  IF known # {} THEN known ELSE {c}

(* An active employment is kept, a pending one activated, or one is begun. *)
Employ(v, c, p) ==
  IF EmploymentOf(v, p, "ACTIVE") # {} THEN EmploymentOf(v, p, "ACTIVE")
  ELSE IF EmploymentOf(v, p, "PENDING") # {} THEN EmploymentOf(v, p, "PENDING")
  ELSE {c}

(* Defect: a pending employment stays pending.                             *)
ActivatesNew(v, rel) == v.relation[rel].status = "NONE"

Activates(v, rel) == v.relation[rel].status # "ACTIVE"

(* Defect: the employment is looked up before the transaction.             *)
AcceptReadsLess(v, p, q) ==
  AnswerReads(v, p, q) \cup Rows("manager", {v.invite[q.on].by})

AcceptReads(v, p, q) ==
  AnswerReads(v, p, q) \cup Rows("manager", {v.invite[q.on].by})
  \cup Rows("employment", {p})

AcceptEmployment(c, q, v, p) ==
  \E rel \in Employ(v, c, p) :
    LET changed == IF Activates(v, rel) THEN {rel} ELSE {}
        starts == IF changed = {} THEN {} ELSE Rows("employment", {p})
    IN  /\ Commit(c, "done", "accepted", AcceptReads(v, p, q),
             Rows("invitation", {q.on}) \cup Rows("inbox", {p}) \cup starts,
             Rows("invitation", {q.on}) \cup Rows("relation", changed))
        /\ db' = [db EXCEPT
             !.invite[q.on].status = "ACCEPTED",
             !.invite[q.on].rel = rel,
             !.relation[rel] = IF changed = {} THEN @
                               ELSE [status |-> "ACTIVE", of |-> p]]

AnswerInvitation(c) ==
  LET q == input[c]
      v == view[c]
      a == actor[c]
  IN  /\ Running(c) /\ q.kind \in {"accept", "decline", "revoke"}
      /\ \E late \in Clock(c) :
           \/ /\ AnswerError(v, a, q, late) # "none"
              /\ Throw(c, AnswerError(v, a, q, late))
           \/ /\ AnswerError(v, a, q, late) = "none" /\ Repeated(v, q)
              /\ Commit(c, "done", "accepted", AnswerReads(v, a, q), {}, {})
              /\ UNCHANGED db
           \/ /\ AnswerError(v, a, q, late) = "none" /\ ~Repeated(v, q)
              /\ q.kind = "accept"
              /\ AcceptEmployment(c, q, v, a)
           \/ /\ AnswerError(v, a, q, late) = "none" /\ q.kind # "accept"
              /\ Commit(c, "done", q.kind, AnswerReads(v, a, q),
                   Rows("invitation", {q.on})
                     \cup Rows("inbox", {v.invite[q.on].to}),
                   Rows("invitation", {q.on}))
              /\ db' = [db EXCEPT !.invite[q.on].status =
                   IF q.kind = "revoke" THEN "REVOKED" ELSE "DECLINED"]

----------------------------------------------------------------------------
(* The clock, and employments that end; no service of this program ends one. *)
ExpireInvitation(i) ==
  /\ Pending(db, i, db.expired)
  /\ db' = [db EXCEPT !.expired = @ \cup {i}]
  /\ UNCHANGED <<own, log>>

EndEmployment(r) ==
  /\ db.relation[r].status = "ACTIVE"
  /\ db' = [db EXCEPT !.relation[r].status = "ENDED"]
  /\ Disturb(Rows("relation", {r}))

----------------------------------------------------------------------------
(* Properties.                                                             *)

(* Accepting looks for an active relationship and then begins one; no      *)
(* unique index backs it.  An accept can still be under way when its       *)
(* invitation has expired and the next one is accepted: each finds no      *)
(* employment and begins its own, and one of the two must be refused.      *)
OneActiveEmployment ==
  \A p \in Account : Cardinality(EmploymentOf(db, p, "ACTIVE")) <= 1

(* "Never recreate an ended relationship" (resolveEmploymentInvitation):   *)
(* an employment begins only in the step in which an open invitation of    *)
(* its person is accepted and points to it; one that has ended, or an      *)
(* accept that is repeated after its answer was lost, begins nothing.      *)
EmploymentHasACause ==
  [][\A r \in Relation :
       db.relation[r].status # "ACTIVE" /\ db'.relation[r].status = "ACTIVE" =>
         /\ db.relation[r].status # "ENDED"
         /\ \E i \in Invitation :
              /\ db.invite[i].status = "OPEN"
              /\ db'.invite[i].status = "ACCEPTED"
              /\ db'.invite[i].rel = r
              /\ db.invite[i].to = db'.relation[r].of]_vars

(* The relationship an accepted invitation points to is its recipient's    *)
(* and was active: the accept commits both or neither.                     *)
AcceptedMeansEmployed ==
  \A i \in Invitation :
    IF db.invite[i].status = "ACCEPTED"
    THEN /\ db.invite[i].rel \in Relation
         /\ db.relation[db.invite[i].rel].of = db.invite[i].to
         /\ db.relation[db.invite[i].rel].status \in {"ACTIVE", "ENDED"}
    ELSE db.invite[i].rel = None

(* The invitations as their abstract specification sees them.              *)
Life == INSTANCE InvitationLife WITH
  Address <- Account,
  status <- [i \in Invitation |-> db.invite[i].status],
  address <- [i \in Invitation |-> db.invite[i].to],
  expired <- db.expired

(* Sent once, answered at most once, also when managers, recipients and    *)
(* the clock act at the same time.                                         *)
ImplementsInvitationLife == Life!Spec

=============================================================================
