------------------------ MODULE CompanyServicesProofs ------------------------
(***************************************************************************)
(* A person has one active employment, an address one open invitation, and *)
(* a definition's versions grow one by one, each by whoever had the last,  *)
(* whatever transactions PostgreSQL lets overlap.                          *)
(*                                                                         *)
(* As in TeamAccessProofs, all rests on what is known of an open           *)
(* transaction's snapshot: where it differs from the tables, an unseen     *)
(* commit changed the row, or had looked at what it changed.               *)
(***************************************************************************)
EXTENDS CompanyServices, SerializableProofs, FiniteSetTheorems, SequenceTheorems

----------------------------------------------------------------------------
(* The inductive invariant.                                                *)

InvitationRow(i) == [row |-> "invitation", of |-> i]
InboxRow(a) == [row |-> "inbox", of |-> a]
RelationRow(r) == [row |-> "relation", of |-> r]
EmploymentRow(p) == [row |-> "employment", of |-> p]
DefinitionRow(d) == [row |-> "definition", of |-> d]

(* A transaction that c did not see changed the row x; it looked at x and  *)
(* changed it.                                                             *)
Changed(c, x) == \E j \in 1 .. Len(log) : since[c] < j /\ x \in log[j].rows

Raced(c, x) ==
  \E j \in 1 .. Len(log) :
    since[c] < j /\ x \in log[j].reads /\ x \in log[j].writes

InvitationStands(c, i) ==
  LET was == view[c].invite[i]
      is == db.invite[i]
  IN  IF was.status = "NONE"
      THEN is.status = "OPEN" => Raced(c, InboxRow(is.to))
      ELSE /\ is.to = was.to
           /\ \/ is.status = was.status
              \/ /\ was.status = "OPEN" /\ is.status \in Life!Answer
                 /\ Changed(c, InvitationRow(i))

(* An employment that the snapshot does not show as active was begun by    *)
(* somebody who had looked for one; one that is no longer pending was      *)
(* changed.                                                                *)
RelationStands(c, r) ==
  LET was == view[c].relation[r]
      is == db.relation[r]
  IN  /\ was.status # "NONE" => is.of = was.of /\ is.status # "NONE"
      /\ was.status = "ACTIVE" => is.status \in {"ACTIVE", "ENDED"}
      /\ was.status = "ENDED" => is.status = "ENDED"
      /\ was.status = "PENDING" => is.status = "PENDING" \/ Changed(c, RelationRow(r))
      /\ was.status # "ACTIVE" /\ is.status = "ACTIVE" => Raced(c, EmploymentRow(is.of))

DefinitionStands(c, d) ==
  db.definition[d] = view[c].definition[d] \/ Changed(c, DefinitionRow(d))

InFlight(c) ==
  Running(c) =>
    /\ view[c] \in Database /\ since[c] <= Len(log)
    /\ view[c].expired \subseteq db.expired
    /\ \A i \in Invitation : InvitationStands(c, i)
    /\ \A r \in Relation : RelationStands(c, r)
    /\ \A d \in Definition : DefinitionStands(c, d)

LogInv == \A j \in 1 .. Len(log) : log[j].since < j

Unanswered(c) == pc[c] \in {"idle", "form", "begin", "run"}

(* What a request may create is not there before it has committed.         *)
Unsent ==
  \A c \in Request : Unanswered(c) =>
    db.invite[c].status = "NONE" /\ db.relation[c].status = "NONE"

(* What a page may send.                                                   *)
KnownInput(q) ==
  /\ q.kind \in Changes \cup {"install", "send", "accept", "decline", "revoke"}
  /\ q.kind # "install" => q.by \in Account
  /\ q.kind = "send" => q.to \in Account
  /\ q.kind \in {"accept", "decline", "revoke"} => q.on \in Invitation
  /\ q.kind \in Changes => q.on \in Definition /\ q.expected \in Nat
  /\ q.kind = "save" => q.policy \in Policy /\ q.active \in BOOLEAN

(* Who begins an attempt has one left and no answer, and is who loaded the *)
(* page.                                                                   *)
Prepared ==
  /\ DOMAIN input = Request
  /\ \A c \in Request :
       /\ pc[c] \in {"idle", "form", "begin"} => attempt[c] < Attempts
       /\ pc[c] # "idle" => KnownInput(input[c])
       /\ pc[c] \in {"begin", "run"} /\ input[c].kind # "install" =>
            actor[c] = input[c].by
       /\ Unanswered(c) => reply[c] = "none"

OneEmployment ==
  \A r, s \in Relation :
    /\ db.relation[r].status = "ACTIVE" /\ db.relation[s].status = "ACTIVE"
    /\ db.relation[r].of = db.relation[s].of
    => r = s

OneOpenInvitation ==
  \A i, j \in Invitation :
    Life!Open(i) /\ Life!Open(j) /\ db.invite[i].to = db.invite[j].to => i = j

ServicesInv ==
  /\ TypeOK /\ LogInv /\ Unsent /\ Prepared
  /\ OneEmployment /\ OneOpenInvitation /\ AcceptedMeansEmployed
  /\ \A c \in Request : InFlight(c)

----------------------------------------------------------------------------
(* The log.                                                                *)

ChangedThen(d, x) ==
  \E j \in 1 .. Len(log') : since'[d] < j /\ x \in log'[j].rows

RacedThen(d, x) ==
  \E j \in 1 .. Len(log') :
    since'[d] < j /\ x \in log'[j].reads /\ x \in log'[j].writes

(* An open transaction did not see what is appended now.                   *)
LEMMA LogGrows ==
  ASSUME ServicesInv, NEW d \in Request, Running(d), since'[d] = since[d],
         NEW e \in Entry, log' = Append(log, e)
  PROVE  /\ since'[d] <= Len(log')
         /\ \A x : Changed(d, x) \/ x \in e.rows => ChangedThen(d, x)
         /\ \A x : Raced(d, x) \/ (x \in e.reads /\ x \in e.writes) => RacedThen(d, x)
<1> DEFINE n == Len(log) + 1
<1>1. log \in Seq(Entry) /\ since[d] \in Nat /\ since[d] <= Len(log)
  BY DEF ServicesInv, TypeOK, InFlight
<1>2. /\ Len(log') = n /\ n \in 1 .. n /\ log'[n] = e /\ since[d] < n
      /\ \A j \in 1 .. Len(log) : log'[j] = log[j] /\ j \in 1 .. n
  BY <1>1
<1>3. since'[d] <= Len(log')
  BY <1>1, <1>2
<1>4. \A x : Changed(d, x) \/ x \in e.rows => ChangedThen(d, x)
  BY <1>2 DEF Changed, ChangedThen
<1>5. \A x : Raced(d, x) \/ (x \in e.reads /\ x \in e.writes) => RacedThen(d, x)
  BY <1>2 DEF Raced, RacedThen
<1> QED  BY <1>3, <1>4, <1>5

LEMMA LogIsRight ==
  ASSUME log \in Seq(Entry), LogInv, NEW e \in Entry, e.since <= Len(log),
         log' \in {log, <<>>, Append(log, e)}
  PROVE  log' \in Seq(Entry) /\ LogInv'
<1>1. CASE log' = log
  BY <1>1 DEF LogInv
<1>2. CASE log' = <<>>
  BY <1>2 DEF LogInv
<1>3. CASE log' = Append(log, e)
  <2>1. log' \in Seq(Entry) /\ Len(log') = Len(log) + 1
    BY <1>3
  <2>2. ASSUME NEW j \in 1 .. Len(log') PROVE log'[j].since < j
    <3>1. e.since \in Nat
      BY DEF Entry
    <3>2. CASE j = Len(log) + 1
      BY <1>3, <3>1, <3>2
    <3>3. CASE j # Len(log) + 1
      BY <1>3, <2>1, <3>3 DEF LogInv
    <3> QED  BY <3>2, <3>3
  <2> QED  BY <2>1, <2>2 DEF LogInv
<1> QED  BY <1>1, <1>2, <1>3

(* What becomes of the rows while d is open is covered by the log.         *)
InvitationCovered(d, i) ==
  LET was == db.invite[i]
      is == db'.invite[i]
  IN  \/ is = was
      \/ /\ was.status = "NONE" /\ is.status = "OPEN"
         /\ RacedThen(d, InboxRow(is.to))
      \/ /\ was.status = "OPEN" /\ is.status \in Life!Answer
         /\ is.to = was.to /\ ChangedThen(d, InvitationRow(i))

RelationCovered(d, r) ==
  LET was == db.relation[r]
      is == db'.relation[r]
  IN  \/ is = was
      \/ /\ was.status \in {"NONE", "PENDING"} /\ is.status = "ACTIVE"
         /\ was.status = "PENDING" => is.of = was.of
         /\ RacedThen(d, EmploymentRow(is.of)) /\ ChangedThen(d, RelationRow(r))
      \/ /\ was.status = "ACTIVE" /\ is.status = "ENDED" /\ is.of = was.of
         /\ ChangedThen(d, RelationRow(r))

DefinitionCovered(d, f) ==
  db'.definition[f] = db.definition[f] \/ ChangedThen(d, DefinitionRow(f))

LEMMA StaysInFlight ==
  ASSUME ServicesInv, NEW d \in Request, Running(d),
         view'[d] = view[d], since'[d] <= Len(log'), db.expired \subseteq db'.expired,
         \A x : Changed(d, x) => ChangedThen(d, x),
         \A x : Raced(d, x) => RacedThen(d, x),
         \A i \in Invitation : InvitationCovered(d, i),
         \A r \in Relation : RelationCovered(d, r),
         \A f \in Definition : DefinitionCovered(d, f)
  PROVE  InFlight(d)'
<1>1. /\ view[d] \in Database /\ view[d].expired \subseteq db.expired
      /\ \A i \in Invitation : InvitationStands(d, i)
      /\ \A r \in Relation : RelationStands(d, r)
      /\ \A f \in Definition : DefinitionStands(d, f)
  BY DEF ServicesInv, InFlight
<1>2. ASSUME NEW i \in Invitation PROVE InvitationStands(d, i)'
  <2>1. InvitationStands(d, i) /\ InvitationCovered(d, i)
    BY <1>1
  <2> QED
    BY <2>1 DEF InvitationStands, InvitationCovered, ChangedThen, RacedThen, Changed, Raced,
                Life!Answer, InboxRow, InvitationRow
<1>3. ASSUME NEW r \in Relation PROVE RelationStands(d, r)'
  <2>1. RelationStands(d, r) /\ RelationCovered(d, r)
    BY <1>1
  <2>2. view[d].relation[r].status \in {"NONE", "PENDING", "ACTIVE", "ENDED"}
    BY <1>1 DEF Database, Employment
  <2> QED
    BY <2>1, <2>2 DEF RelationStands, RelationCovered, ChangedThen, RacedThen, Changed, Raced,
                EmploymentRow, RelationRow
<1>4. ASSUME NEW f \in Definition PROVE DefinitionStands(d, f)'
  <2>1. DefinitionStands(d, f) /\ DefinitionCovered(d, f)
    BY <1>1
  <2> QED
    BY <2>1 DEF DefinitionStands, DefinitionCovered, ChangedThen, Changed, DefinitionRow
<1> QED
  BY <1>1, <1>2, <1>3, <1>4 DEF InFlight

----------------------------------------------------------------------------
(* What a commit does to the tables, told by what it declares.             *)

InvitationTracked(c, i, reads, writes, rows) ==
  LET was == db.invite[i]
      is == db'.invite[i]
  IN  \/ is = was
      \/ /\ i = c /\ was.status = "NONE" /\ is.status = "OPEN" /\ is.rel = None
         /\ InboxRow(is.to) \in reads /\ InboxRow(is.to) \in writes
         /\ \A k \in Invitation : Life!Open(k) => db.invite[k].to # is.to
      \/ /\ was.status = "OPEN" /\ is.status \in Life!Answer /\ is.to = was.to
         /\ InvitationRow(i) \in rows
         /\ IF is.status = "ACCEPTED"
            THEN /\ is.rel \in Relation
                 /\ db'.relation[is.rel].of = is.to
                 /\ db'.relation[is.rel].status \in {"ACTIVE", "ENDED"}
            ELSE is.rel = None

RelationTracked(c, r, reads, writes, rows) ==
  LET was == db.relation[r]
      is == db'.relation[r]
  IN  \/ is = was
      \/ /\ was.status \in {"NONE", "PENDING"} /\ is.status = "ACTIVE"
         /\ was.status = "NONE" => r = c
         /\ was.status = "PENDING" => is.of = was.of
         /\ EmploymentRow(is.of) \in reads /\ EmploymentRow(is.of) \in writes
         /\ RelationRow(r) \in rows
         /\ \A s \in Relation :
              db.relation[s].status = "ACTIVE" => db.relation[s].of # is.of
         /\ \E i \in Invitation :
              /\ db.invite[i].status = "OPEN" /\ db'.invite[i].status = "ACCEPTED"
              /\ db'.invite[i].rel = r /\ db.invite[i].to = is.of

DefinitionTracked(c, d, rows) ==
  LET before == db.definition[d].versions
      after == db'.definition[d].versions
  IN  \/ db'.definition[d] = db.definition[d]
      \/ /\ DefinitionRow(d) \in rows
         /\ before # after =>
              /\ Len(after) = Len(before) + 1
              /\ SubSeq(after, 1, Len(before)) = before
              /\ before # <<>> => /\ input[c].kind = "save" /\ input[c].on = d
                                  /\ input[c].expected = Len(before)

OneChanges(was, is, S) == \E x \in S : \A y \in S \ {x} : is[y] = was[y]

(* What lets users act; only operators change it.                          *)
Authority == <<db.active, db.managers, db.settings, db.governs, db.company>>

Tracked(c, reads, writes, rows) ==
  /\ db'.expired = db.expired /\ UNCHANGED Authority
  /\ \A i \in Invitation : InvitationTracked(c, i, reads, writes, rows)
  /\ OneChanges(db.invite, db'.invite, Invitation)
  /\ \A r \in Relation : RelationTracked(c, r, reads, writes, rows)
  /\ OneChanges(db.relation, db'.relation, Relation)
  /\ \A d \in Definition : DefinitionTracked(c, d, rows)

Declared(c, reads, writes, rows) ==
  [since |-> since[c], reads |-> reads, writes |-> writes, rows |-> rows]

Committed(c, reads, writes, rows) ==
  /\ MayCommit(log, Declared(c, reads, writes, rows))
  /\ log' = Kept(c, Append(log, Declared(c, reads, writes, rows)))
  /\ pc' \in {[pc EXCEPT ![c] = "mail"], [pc EXCEPT ![c] = "done"]}
  /\ view' = [view EXCEPT ![c] = None]
  /\ \E result \in Success \cup {"failed"} : reply' = [reply EXCEPT ![c] = result]
  /\ UNCHANGED <<input, actor, attempt, since>>

Effect(c) ==
  /\ db' \in Database
  /\ \E reads, writes, rows \in SUBSET ServiceItem :
       Committed(c, reads, writes, rows) /\ Tracked(c, reads, writes, rows)

Threw(c) == \E result \in Error \cup {"failed"} : Throw(c, result)

LEMMA CommitCommits ==
  ASSUME NEW c \in Request, NEW step \in {"mail", "done"}, NEW result \in Success,
         NEW reads, NEW writes, NEW rows,
         Commit(c, step, result, reads, writes, rows)
  PROVE  Committed(c, reads, writes, rows)
BY DEF Commit, Committed, Declared, Leave, Answer

LEMMA DeclaredIsEntry ==
  ASSUME ServicesInv, NEW c \in Request, Running(c),
         NEW reads \in SUBSET ServiceItem, NEW writes \in SUBSET ServiceItem,
         NEW rows \in SUBSET ServiceItem
  PROVE  /\ Declared(c, reads, writes, rows) \in Entry
         /\ Declared(c, reads, writes, rows).since <= Len(log)
         /\ Declared(c, reads, writes, rows).reads = reads
         /\ Declared(c, reads, writes, rows).writes = writes
         /\ Declared(c, reads, writes, rows).rows = rows
         /\ Declared(c, reads, writes, rows).since = since[c]
BY DEF ServicesInv, TypeOK, InFlight, Declared, Entry

(* What a transaction that may commit knows about its snapshot.            *)
LEMMA NotChanged ==
  ASSUME ServicesInv, NEW c \in Request, NEW reads, NEW writes, NEW rows,
         Committed(c, reads, writes, rows), NEW x \in rows
  PROVE  ~Changed(c, x)
BY DEF Committed, Declared, MayCommit, FirstUpdater, Meet, Changed

LEMMA NotRaced ==
  ASSUME ServicesInv, NEW c \in Request, Running(c),
         NEW reads \in SUBSET ServiceItem, NEW writes \in SUBSET ServiceItem,
         NEW rows \in SUBSET ServiceItem,
         Committed(c, reads, writes, rows),
         NEW x, x \in reads, x \in writes
  PROVE  ~Raced(c, x)
<1> DEFINE e == Declared(c, reads, writes, rows)
<1>1. e \in Entry /\ log \in Seq(Entry) /\ SerialOrder(Append(log, e))
  BY DeclaredIsEntry DEF ServicesInv, TypeOK, Committed, MayCommit
<1> SUFFICES ASSUME NEW j \in 1 .. Len(log), since[c] < j,
                    x \in log[j].reads, x \in log[j].writes
             PROVE  FALSE
  BY DEF Raced
<1>2. e.since < j /\ log[j].since < j /\ x \in e.reads /\ x \in e.writes
  BY DeclaredIsEntry DEF ServicesInv, LogInv
<1> HIDE DEF e
<1> QED
  BY <1>1, <1>2, NoCycle DEF Entry, Transaction

(* The transactions still open when one commits stay as they should be.    *)
LEMMA OthersStand ==
  ASSUME ServicesInv, NEW c \in Request, Running(c), Effect(c),
         NEW d \in Request, d # c
  PROVE  InFlight(d)'
<1> SUFFICES ASSUME Running(d)' PROVE InFlight(d)'
  BY DEF InFlight
<1>1. PICK reads \in SUBSET ServiceItem, writes \in SUBSET ServiceItem,
           rows \in SUBSET ServiceItem :
        Committed(c, reads, writes, rows) /\ Tracked(c, reads, writes, rows)
  BY DEF Effect
<1> DEFINE e == Declared(c, reads, writes, rows)
<1>2. Running(d) /\ view'[d] = view[d] /\ since' = since
  BY <1>1 DEF ServicesInv, TypeOK, Committed, Running
<1>3. log' = Append(log, e)
  BY <1>1, <1>2 DEF Committed, Kept
<1>4. e \in Entry /\ e.reads = reads /\ e.writes = writes /\ e.rows = rows
  BY DeclaredIsEntry
<1> HIDE DEF e
<1>5. /\ since'[d] <= Len(log')
      /\ \A x : Changed(d, x) \/ x \in rows => ChangedThen(d, x)
      /\ \A x : Raced(d, x) \/ (x \in reads /\ x \in writes) => RacedThen(d, x)
  BY <1>2, <1>3, <1>4, LogGrows
<1>6. \A i \in Invitation : InvitationCovered(d, i)
  BY <1>1, <1>5 DEF Tracked, InvitationTracked, InvitationCovered
<1>7. \A r \in Relation : RelationCovered(d, r)
  BY <1>1, <1>5 DEF Tracked, RelationTracked, RelationCovered
<1>8. \A f \in Definition : DefinitionCovered(d, f)
  BY <1>1, <1>5 DEF Tracked, DefinitionTracked, DefinitionCovered
<1>9. db.expired \subseteq db'.expired
  BY <1>1 DEF Tracked
<1> QED
  BY <1>2, <1>5, <1>6, <1>7, <1>8, <1>9, StaysInFlight

LEMMA EffectKeeps ==
  ASSUME ServicesInv, NEW c \in Request, Running(c), Effect(c)
  PROVE  ServicesInv'
<1>1. PICK reads \in SUBSET ServiceItem, writes \in SUBSET ServiceItem,
           rows \in SUBSET ServiceItem :
        Committed(c, reads, writes, rows) /\ Tracked(c, reads, writes, rows)
  BY DEF Effect
<1>2. log' \in Seq(Entry) /\ LogInv'
  <2>1. log' \in {log, <<>>, Append(log, Declared(c, reads, writes, rows))}
    BY <1>1 DEF Committed, Kept
  <2> QED
    BY <2>1, DeclaredIsEntry, LogIsRight DEF ServicesInv, TypeOK
<1>3. TypeOK'
  <2>1. pc' \in [Request -> {"idle", "form", "begin", "run", "mail", "done"}]
    BY <1>1 DEF ServicesInv, TypeOK, Committed
  <2>2. \A d \in Request : view'[d] = None \/ view'[d] \in Database
    BY <1>1 DEF ServicesInv, TypeOK, Committed, InFlight, Running
  <2>3. reply' \in [Request -> {"none", "failed", "forbidden"} \cup Error \cup Success]
    BY <1>1 DEF ServicesInv, TypeOK, Committed
  <2> QED
    BY <1>1, <1>2, <2>1, <2>2, <2>3 DEF ServicesInv, TypeOK, Committed, Effect
<1>4. \A d \in Request : d # c => pc'[d] = pc[d] /\ input'[d] = input[d]
  BY <1>1 DEF ServicesInv, TypeOK, Committed
<1>5. pc'[c] \in {"mail", "done"}
  BY <1>1 DEF ServicesInv, TypeOK, Committed
<1>6. Unsent'
  <2> SUFFICES ASSUME NEW d \in Request, Unanswered(d)'
               PROVE  db'.invite[d].status = "NONE" /\ db'.relation[d].status = "NONE"
    BY DEF Unsent
  <2>1. d # c /\ Unanswered(d)
    BY <1>4, <1>5 DEF Unanswered
  <2>2. /\ db.invite[d].status = "NONE" /\ db.relation[d].status = "NONE"
        /\ d \in Invitation /\ d \in Relation
    BY <2>1 DEF ServicesInv, Unsent, Invitation, Relation
  <2> QED
    BY <1>1, <2>1, <2>2 DEF Tracked, InvitationTracked, RelationTracked
<1>7. Prepared'
  BY <1>1, <1>4, <1>5 DEF ServicesInv, TypeOK, Prepared, Unanswered, Committed, Running
<1>8. OneEmployment'
  <2> SUFFICES ASSUME NEW r \in Relation, NEW s \in Relation, r # s,
                      db'.relation[r].status = "ACTIVE", db'.relation[s].status = "ACTIVE",
                      db'.relation[r].of = db'.relation[s].of
               PROVE  FALSE
    BY DEF OneEmployment
  <2>1. /\ RelationTracked(c, r, reads, writes, rows)
        /\ RelationTracked(c, s, reads, writes, rows)
        /\ db'.relation[r] = db.relation[r] \/ db'.relation[s] = db.relation[s]
    BY <1>1 DEF Tracked, OneChanges
  <2> QED
    BY <2>1 DEF RelationTracked, ServicesInv, OneEmployment
<1>9. OneOpenInvitation'
  <2> SUFFICES ASSUME NEW i \in Invitation, NEW j \in Invitation, i # j,
                      db'.invite[i].status = "OPEN", db'.invite[j].status = "OPEN",
                      i \notin db.expired, j \notin db.expired,
                      db'.invite[i].to = db'.invite[j].to
               PROVE  FALSE
    BY <1>1 DEF OneOpenInvitation, Life!Open, Tracked
  <2>1. \A k \in {i, j} :
          \/ db'.invite[k] = db.invite[k]
          \/ /\ k = c
             /\ \A m \in Invitation : Life!Open(m) => db.invite[m].to # db'.invite[k].to
    BY <1>1 DEF Tracked, InvitationTracked, Life!Answer
  <2>2. \A k \in {i, j} : db'.invite[k] = db.invite[k] => Life!Open(k)
    BY DEF Life!Open
  <2>3. Life!Open(i) /\ Life!Open(j) => db.invite[i].to # db.invite[j].to
    BY DEF ServicesInv, OneOpenInvitation
  <2> QED
    BY <2>1, <2>2, <2>3
<1>10. AcceptedMeansEmployed'
  <2> SUFFICES ASSUME NEW i \in Invitation
               PROVE  IF db'.invite[i].status = "ACCEPTED"
                      THEN /\ db'.invite[i].rel \in Relation
                           /\ db'.relation[db'.invite[i].rel].of = db'.invite[i].to
                           /\ db'.relation[db'.invite[i].rel].status \in {"ACTIVE", "ENDED"}
                      ELSE db'.invite[i].rel = None
    BY DEF AcceptedMeansEmployed
  <2>1. CASE db'.invite[i] = db.invite[i]
    BY <1>1, <2>1 DEF ServicesInv, AcceptedMeansEmployed, Tracked, RelationTracked
  <2>2. CASE db'.invite[i] # db.invite[i]
    BY <1>1, <2>2 DEF Tracked, InvitationTracked
  <2> QED  BY <2>1, <2>2
<1>11. ASSUME NEW d \in Request PROVE InFlight(d)'
  <2>1. CASE d = c
    BY <1>5, <2>1 DEF InFlight, Running
  <2>2. CASE d # c
    BY <2>2, OthersStand
  <2> QED  BY <2>1, <2>2
<1> QED
  BY <1>2, <1>3, <1>6, <1>7, <1>8, <1>9, <1>10, <1>11 DEF ServicesInv

----------------------------------------------------------------------------
(* What each operation does.                                               *)

LEMMA EmploymentItems ==
  /\ \A S \in SUBSET Account :
       /\ Rows("manager", S) \in SUBSET ServiceItem
       /\ Rows("inbox", S) \in SUBSET ServiceItem
       /\ Rows("employment", S) \in SUBSET ServiceItem
       /\ \A a \in S : InboxRow(a) \in Rows("inbox", S)
       /\ \A a \in S : EmploymentRow(a) \in Rows("employment", S)
  /\ \A S \in SUBSET Invitation :
       /\ Rows("invitation", S) \in SUBSET ServiceItem
       /\ \A i \in S : InvitationRow(i) \in Rows("invitation", S)
  /\ \A S \in SUBSET Relation :
       /\ Rows("relation", S) \in SUBSET ServiceItem
       /\ \A r \in S : RelationRow(r) \in Rows("relation", S)
<1>1. ASSUME NEW S \in SUBSET Account
      PROVE  /\ Rows("manager", S) \in SUBSET ServiceItem
             /\ Rows("inbox", S) \in SUBSET ServiceItem
             /\ Rows("employment", S) \in SUBSET ServiceItem
             /\ \A a \in S : InboxRow(a) \in Rows("inbox", S)
             /\ \A a \in S : EmploymentRow(a) \in Rows("employment", S)
  BY DEF Rows, ServiceItem, EmploymentItem, InboxRow, EmploymentRow
<1>2. ASSUME NEW S \in SUBSET Invitation
      PROVE  /\ Rows("invitation", S) \in SUBSET ServiceItem
             /\ \A i \in S : InvitationRow(i) \in Rows("invitation", S)
  BY DEF Rows, ServiceItem, EmploymentItem, InvitationRow
<1>3. ASSUME NEW S \in SUBSET Relation
      PROVE  /\ Rows("relation", S) \in SUBSET ServiceItem
             /\ \A r \in S : RelationRow(r) \in Rows("relation", S)
  BY DEF Rows, ServiceItem, EmploymentItem, RelationRow
<1> QED  BY <1>1, <1>2, <1>3

LEMMA DefinitionItems ==
  /\ \A S \in SUBSET Account : Item("settings", S) \in SUBSET ServiceItem
  /\ \A S \in SUBSET Definition :
       /\ Item("definition", S) \in SUBSET ServiceItem
       /\ Item("policy", S) \in SUBSET ServiceItem
       /\ \A d \in S : DefinitionRow(d) \in Item("definition", S)
  /\ \A S \in SUBSET (Definition \X Nat) : Item("version", S) \in SUBSET ServiceItem
  /\ \A S \in SUBSET Role : Item("role", S) \in SUBSET ServiceItem
<1>1. \A S \in SUBSET Account : Item("settings", S) \in SUBSET ServiceItem
  BY DEF Item, ServiceItem, DefinitionItem
<1>2. ASSUME NEW S \in SUBSET Definition
      PROVE  /\ Item("definition", S) \in SUBSET ServiceItem
             /\ Item("policy", S) \in SUBSET ServiceItem
             /\ \A d \in S : DefinitionRow(d) \in Item("definition", S)
  BY DEF Item, ServiceItem, DefinitionItem, DefinitionRow
<1>3. ASSUME NEW S \in SUBSET (Definition \X Nat)
      PROVE  Item("version", S) \in SUBSET ServiceItem
  BY DEF Item, ServiceItem, DefinitionItem
<1>4. \A S \in SUBSET Role : Item("role", S) \in SUBSET ServiceItem
  BY DEF Item, ServiceItem, DefinitionItem
<1> QED  BY <1>1, <1>2, <1>3, <1>4

(* A commit that changes nothing.                                          *)
LEMMA ReadOnly ==
  ASSUME ServicesInv, NEW c \in Request,
         NEW reads \in SUBSET ServiceItem, Committed(c, reads, {}, {}), UNCHANGED db
  PROVE  Effect(c)
<1>1. c \in Invitation /\ c \in Relation
  BY DEF Invitation, Relation
<1>2. Tracked(c, reads, {}, {})
  BY <1>1 DEF Tracked, InvitationTracked, RelationTracked, DefinitionTracked, OneChanges,
              Authority
<1> QED
  BY <1>2 DEF Effect, ServicesInv, TypeOK

(* What is known of a request whose transaction is open.                   *)
LEMMA OpenRequest ==
  ASSUME ServicesInv, NEW c \in Request, Running(c)
  PROVE  /\ view[c] \in Database /\ db \in Database
         /\ view[c].expired \subseteq db.expired
         /\ KnownInput(input[c])
         /\ input[c].kind # "install" =>
              actor[c] = input[c].by /\ actor[c] \in Account
         /\ db.invite[c].status = "NONE" /\ db.relation[c].status = "NONE"
         /\ c \in Invitation /\ c \in Relation
BY DEF ServicesInv, TypeOK, Running, InFlight, Prepared, Unsent, Unanswered, KnownInput,
       Invitation, Relation

LEMMA SendEffect ==
  ASSUME ServicesInv, NEW c \in Request, SendInvitation(c)
  PROVE  Threw(c) \/ Effect(c)
<1> DEFINE q == input[c]
           v == view[c]
           reads == Rows("manager", {actor[c]}) \cup Rows("inbox", {q.to})
           writes == Rows("invitation", {c}) \cup Rows("inbox", {q.to})
           new == [status |-> "OPEN", to |-> q.to, by |-> actor[c], rel |-> None]
           waiting(late) == {i \in Invitation : v.invite[i].to = q.to /\ Pending(v, i, late)}
<1>1. Running(c) /\ q.kind = "send"
  BY DEF SendInvitation
<1>2. /\ v \in Database /\ db \in Database /\ v.expired \subseteq db.expired
      /\ q.to \in Account /\ actor[c] \in Account /\ c \in Invitation /\ c \in Relation
      /\ db.invite[c].status = "NONE"
  BY <1>1, OpenRequest DEF KnownInput
<1>3. /\ reads \in SUBSET ServiceItem /\ writes \in SUBSET ServiceItem
      /\ InboxRow(q.to) \in reads /\ InboxRow(q.to) \in writes
  BY <1>2, EmploymentItems
<1>4. CASE Throw(c, "denied")
  BY <1>4 DEF Threw, Error
<1>5. CASE Commit(c, "done", "existing", reads, {}, {}) /\ UNCHANGED db
  <2> HIDE DEF reads
  <2> QED  BY <1>3, <1>5, CommitCommits, ReadOnly DEF Success
<1>6. ASSUME NEW late \in Clock(c), waiting(late) = {},
             Commit(c, "mail", "created", reads, writes, {}),
             db' = [db EXCEPT !.invite[c] = new]
      PROVE  Effect(c)
  <2>1. Committed(c, reads, writes, {})
    BY <1>6, CommitCommits DEF Success
  <2>2. ASSUME NEW k \in Invitation, Life!Open(k), db.invite[k].to = q.to
        PROVE  FALSE
    <3>1. ~Raced(c, InboxRow(q.to))
      <4> HIDE DEF reads, writes, q
      <4> QED  BY <1>1, <1>3, <2>1, NotRaced
    <3>2. InvitationStands(c, k)
      BY <1>1 DEF ServicesInv, InFlight
    <3>3. db.invite[k].status = "OPEN" /\ k \notin db.expired
      BY <2>2 DEF Life!Open
    <3>4. v.invite[k].status = "OPEN" /\ v.invite[k].to = q.to
      BY <2>2, <3>1, <3>2, <3>3 DEF InvitationStands, Life!Answer
    <3>5. k \notin late
      BY <1>2, <1>6, <3>3 DEF Clock
    <3> QED  BY <1>6, <3>4, <3>5 DEF Pending
  <2>3. new \in Invite
    BY <1>2 DEF Invite
  <2>4. db' \in Database
    BY <1>2, <1>6, <2>3 DEF Database
  <2>5. /\ db'.invite[c] = new
        /\ \A i \in Invitation \ {c} : db'.invite[i] = db.invite[i]
        /\ db'.expired = db.expired /\ db'.relation = db.relation
        /\ db'.definition = db.definition /\ UNCHANGED Authority
    BY <1>2, <1>6 DEF Database, Authority
  <2>6. Tracked(c, reads, writes, {})
    <3> HIDE DEF reads, writes
    <3>1. ASSUME NEW i \in Invitation PROVE InvitationTracked(c, i, reads, writes, {})
      BY <1>2, <1>3, <2>2, <2>5 DEF InvitationTracked
    <3> QED
      BY <1>2, <2>5, <3>1 DEF Tracked, RelationTracked, DefinitionTracked, OneChanges
  <2> QED
    BY <1>3, <2>1, <2>4, <2>6 DEF Effect
<1> QED
  BY <1>4, <1>5, <1>6 DEF SendInvitation

(* An answer finds the invitation as its snapshot showed it.               *)
LEMMA StillOpen ==
  ASSUME ServicesInv, NEW c \in Request, Running(c), NEW i \in Invitation,
         view[c].invite[i].status = "OPEN", ~Changed(c, InvitationRow(i))
  PROVE  db.invite[i].status = "OPEN" /\ db.invite[i].to = view[c].invite[i].to
BY DEF ServicesInv, InFlight, InvitationStands

(* The employment an accept chooses: one that is active, or else one that  *)
(* may become it.                                                          *)
LEMMA EmployChooses ==
  ASSUME NEW v, NEW c \in Request, NEW p, NEW rel \in Employ(v, c, p)
  PROVE  /\ rel \in Relation
         /\ \/ v.relation[rel].status = "ACTIVE" /\ v.relation[rel].of = p
            \/ /\ rel = c \/ (v.relation[rel].status = "PENDING" /\ v.relation[rel].of = p)
               /\ EmploymentOf(v, p, "ACTIVE") = {}
BY DEF Employ, EmploymentOf, Relation

LEMMA AcceptEffect ==
  ASSUME ServicesInv, NEW c \in Request, Running(c), input[c].kind = "accept",
         NEW late, AnswerError(view[c], actor[c], input[c], late) = "none",
         ~Repeated(view[c], input[c]),
         AcceptEmployment(c, input[c], view[c], actor[c])
  PROVE  Effect(c)
<1> DEFINE q == input[c]
           v == view[c]
           p == actor[c]
<1>1. /\ v \in Database /\ db \in Database /\ q.on \in Invitation /\ p \in Account
      /\ c \in Relation /\ c \in Invitation /\ db.relation[c].status = "NONE"
  BY OpenRequest DEF KnownInput
<1>2. v.invite[q.on].to = p /\ v.invite[q.on].status = "OPEN" /\ v.invite[q.on].by \in Account
  BY <1>1 DEF AnswerError, MayAnswer, Pending, Database, Invite
<1>3. PICK rel \in Employ(v, c, p) :
        LET changed == IF Activates(v, rel) THEN {rel} ELSE {}
            starts == IF changed = {} THEN {} ELSE Rows("employment", {p})
        IN  /\ Commit(c, "done", "accepted",
                 AnswerReads(v, p, q) \cup Rows("manager", {v.invite[q.on].by})
                   \cup Rows("employment", {p}),
                 Rows("invitation", {q.on}) \cup Rows("inbox", {p}) \cup starts,
                 Rows("invitation", {q.on}) \cup Rows("relation", changed))
            /\ db' = [db EXCEPT
                 !.invite[q.on].status = "ACCEPTED",
                 !.invite[q.on].rel = rel,
                 !.relation[rel] = IF changed = {} THEN @
                                   ELSE [status |-> "ACTIVE", of |-> p]]
  BY DEF AcceptEmployment, AcceptReads
<1> DEFINE changed == IF Activates(v, rel) THEN {rel} ELSE {}
           starts == IF changed = {} THEN {} ELSE Rows("employment", {p})
           reads == AnswerReads(v, p, q) \cup Rows("manager", {v.invite[q.on].by})
                      \cup Rows("employment", {p})
           writes == Rows("invitation", {q.on}) \cup Rows("inbox", {p}) \cup starts
           rows == Rows("invitation", {q.on}) \cup Rows("relation", changed)
<1>4. /\ rel \in Relation
      /\ \/ v.relation[rel].status = "ACTIVE" /\ v.relation[rel].of = p
         \/ /\ rel = c \/ (v.relation[rel].status = "PENDING" /\ v.relation[rel].of = p)
            /\ EmploymentOf(v, p, "ACTIVE") = {}
  BY EmployChooses
<1>5. /\ reads \in SUBSET ServiceItem /\ writes \in SUBSET ServiceItem
      /\ rows \in SUBSET ServiceItem /\ InvitationRow(q.on) \in rows
      /\ EmploymentRow(p) \in reads
      /\ Activates(v, rel) => EmploymentRow(p) \in writes /\ RelationRow(rel) \in rows
  BY <1>1, <1>2, <1>4, EmploymentItems DEF AnswerReads
<1>6. Committed(c, reads, writes, rows)
  BY <1>3, CommitCommits DEF Success
<1>7. db.invite[q.on].status = "OPEN" /\ db.invite[q.on].to = p
  <2> HIDE DEF reads, writes, rows
  <2> QED  BY <1>1, <1>2, <1>5, <1>6, NotChanged, StillOpen
<1>8. /\ db'.invite = [db.invite EXCEPT ![q.on] =
                         [@ EXCEPT !.status = "ACCEPTED", !.rel = rel]]
      /\ db'.relation = IF Activates(v, rel)
                        THEN [db.relation EXCEPT ![rel] = [status |-> "ACTIVE", of |-> p]]
                        ELSE db.relation
      /\ db'.expired = db.expired /\ db'.definition = db.definition
      /\ UNCHANGED Authority
  BY <1>1, <1>3, <1>4 DEF Database, Authority
<1>9. db' \in Database
  <2>1. [db.invite[q.on] EXCEPT !.status = "ACCEPTED", !.rel = rel] \in Invite
    <3>1. db.invite[q.on] \in Invite /\ rel \in Relation \cup {None}
      BY <1>1, <1>4 DEF Database
    <3> HIDE DEF q
    <3> QED  BY <3>1 DEF Invite
  <2>2. db'.invite \in [Invitation -> Invite]
    BY <1>1, <1>8, <2>1 DEF Database
  <2>3. db'.relation \in [Relation -> Employment]
    BY <1>1, <1>4, <1>8 DEF Database, Employment
  <2>4. db' = [db EXCEPT !.invite = db'.invite, !.relation = db'.relation]
    BY <1>1, <1>3 DEF Database
  <2> QED  BY <1>1, <2>2, <2>3, <2>4 DEF Database
<1>10. /\ db'.invite[q.on].status = "ACCEPTED" /\ db'.invite[q.on].rel = rel
       /\ db'.invite[q.on].to = p
       /\ \A i \in Invitation \ {q.on} : db'.invite[i] = db.invite[i]
  BY <1>1, <1>7, <1>8 DEF Database, Invite
<1>11. RelationStands(c, rel) /\ \A s \in Relation : RelationStands(c, s)
  BY <1>4 DEF ServicesInv, InFlight
<1> HIDE DEF reads, writes, rows
<1>12. CASE Activates(v, rel)
  <2>1. ~Changed(c, RelationRow(rel)) /\ ~Raced(c, EmploymentRow(p))
    BY <1>5, <1>6, <1>12, NotChanged, NotRaced
  <2>2. \/ rel = c /\ db.relation[rel].status = "NONE"
        \/ db.relation[rel].status = "PENDING" /\ db.relation[rel].of = p
    BY <1>1, <1>4, <1>11, <1>12, <2>1 DEF RelationStands, Activates
  <2>3. EmploymentOf(v, p, "ACTIVE") = {}
    BY <1>4, <1>12 DEF Activates
  <2>4. ASSUME NEW s \in Relation, db.relation[s].status = "ACTIVE", db.relation[s].of = p
        PROVE  FALSE
    BY <1>11, <2>1, <2>3, <2>4 DEF RelationStands, EmploymentOf
  <2>5. /\ db'.relation[rel] = [status |-> "ACTIVE", of |-> p]
        /\ \A s \in Relation \ {rel} : db'.relation[s] = db.relation[s]
    BY <1>1, <1>4, <1>8, <1>12 DEF Database
  <2>6. RelationTracked(c, rel, reads, writes, rows)
    BY <1>1, <1>5, <1>7, <1>10, <1>12, <2>2, <2>4, <2>5 DEF RelationTracked
  <2>7. InvitationTracked(c, q.on, reads, writes, rows)
    <3>1. db'.relation[rel].of = p /\ db'.relation[rel].status = "ACTIVE" /\ rel \in Relation
      BY <1>4, <2>5
    <3> DEFINE is == db'.invite[q.on]
    <3>2. /\ is.rel \in Relation /\ db'.relation[is.rel].of = is.to
          /\ db'.relation[is.rel].status \in {"ACTIVE", "ENDED"}
      BY <1>10, <3>1
    <3>3. is.status = "ACCEPTED" /\ is.to = db.invite[q.on].to
      BY <1>7, <1>10
    <3> HIDE DEF q, p
    <3> QED  BY <1>5, <1>7, <3>2, <3>3 DEF InvitationTracked, Life!Answer
  <2>8. Tracked(c, reads, writes, rows)
    <3>1. ASSUME NEW i \in Invitation PROVE InvitationTracked(c, i, reads, writes, rows)
      BY <1>10, <2>7 DEF InvitationTracked
    <3>2. ASSUME NEW r \in Relation PROVE RelationTracked(c, r, reads, writes, rows)
      BY <2>5, <2>6 DEF RelationTracked
    <3>3. /\ OneChanges(db.invite, db'.invite, Invitation)
          /\ OneChanges(db.relation, db'.relation, Relation)
      BY <1>1, <1>4, <1>10, <2>5 DEF OneChanges
    <3> QED  BY <1>8, <3>1, <3>2, <3>3 DEF Tracked, DefinitionTracked
  <2> QED  BY <1>5, <1>6, <1>9, <2>8 DEF Effect
<1>13. CASE ~Activates(v, rel)
  <2>1. v.relation[rel].status = "ACTIVE" /\ v.relation[rel].of = p
    BY <1>4, <1>13, <1>11, <1>1 DEF Activates, RelationStands
  <2>2. db.relation[rel].of = p /\ db.relation[rel].status \in {"ACTIVE", "ENDED"}
    BY <1>11, <2>1 DEF RelationStands
  <2>3. InvitationTracked(c, q.on, reads, writes, rows)
    BY <1>4, <1>5, <1>7, <1>8, <1>10, <1>13, <2>2 DEF InvitationTracked, Life!Answer
  <2>4. Tracked(c, reads, writes, rows)
    BY <1>1, <1>8, <1>10, <1>13, <2>3
       DEF Tracked, InvitationTracked, RelationTracked, DefinitionTracked, OneChanges
  <2> QED  BY <1>5, <1>6, <1>9, <2>4 DEF Effect
<1> QED
  BY <1>12, <1>13

LEMMA AnswerEffect ==
  ASSUME ServicesInv, NEW c \in Request, AnswerInvitation(c)
  PROVE  Threw(c) \/ Effect(c)
<1> DEFINE q == input[c]
           v == view[c]
           a == actor[c]
<1>1. Running(c) /\ q.kind \in {"accept", "decline", "revoke"}
  BY DEF AnswerInvitation
<1>2. /\ v \in Database /\ db \in Database /\ q.on \in Invitation /\ a \in Account
      /\ c \in Relation
  BY <1>1, OpenRequest DEF KnownInput
<1> DEFINE reads == AnswerReads(v, a, q)
<1>3. reads \in SUBSET ServiceItem
  BY <1>2, EmploymentItems DEF AnswerReads
<1>4. ASSUME NEW late, Throw(c, AnswerError(v, a, q, late)),
             AnswerError(v, a, q, late) # "none"
      PROVE  Threw(c)
  BY <1>4 DEF Threw, AnswerError, Error
<1>5. CASE Commit(c, "done", "accepted", reads, {}, {}) /\ UNCHANGED db
  <2> HIDE DEF reads
  <2> QED  BY <1>3, <1>5, CommitCommits, ReadOnly DEF Success
<1>6. ASSUME NEW late, AnswerError(v, a, q, late) = "none", q.kind # "accept",
             Commit(c, "done", q.kind, reads,
               Rows("invitation", {q.on}) \cup Rows("inbox", {v.invite[q.on].to}),
               Rows("invitation", {q.on})),
             db' = [db EXCEPT !.invite[q.on].status =
                      IF q.kind = "revoke" THEN "REVOKED" ELSE "DECLINED"]
      PROVE  Effect(c)
  <2> DEFINE writes == Rows("invitation", {q.on}) \cup Rows("inbox", {v.invite[q.on].to})
             rows == Rows("invitation", {q.on})
             answer == IF q.kind = "revoke" THEN "REVOKED" ELSE "DECLINED"
  <2>1. v.invite[q.on].status = "OPEN" /\ v.invite[q.on].to \in Account
    BY <1>2, <1>6 DEF AnswerError, MayAnswer, Repeated, Pending, Database, Invite
  <2>2. /\ writes \in SUBSET ServiceItem /\ rows \in SUBSET ServiceItem
        /\ InvitationRow(q.on) \in rows
    BY <1>2, <2>1, EmploymentItems
  <2>3. Committed(c, reads, writes, rows)
    BY <1>1, <1>6, CommitCommits DEF Success
  <2> HIDE DEF reads, writes, rows
  <2>4. db.invite[q.on].status = "OPEN" /\ db.invite[q.on].rel = None
    BY <1>1, <1>2, <2>1, <2>2, <2>3, NotChanged, StillOpen
       DEF ServicesInv, AcceptedMeansEmployed
  <2>5. /\ db'.invite = [db.invite EXCEPT ![q.on] = [@ EXCEPT !.status = answer]]
        /\ db'.relation = db.relation
        /\ db'.expired = db.expired /\ db'.definition = db.definition
        /\ UNCHANGED Authority
    BY <1>2, <1>6 DEF Database, Authority
  <2>6. db' \in Database
    <3>1. [db.invite[q.on] EXCEPT !.status = answer] \in Invite
      BY <1>2 DEF Database, Invite
    <3>2. db'.invite \in [Invitation -> Invite]
      BY <1>2, <2>5, <3>1 DEF Database
    <3>3. db' = [db EXCEPT !.invite = db'.invite]
      BY <1>2, <1>6 DEF Database
    <3> QED  BY <1>2, <3>2, <3>3 DEF Database
  <2>7. /\ db'.invite[q.on].status = answer /\ db'.invite[q.on].to = db.invite[q.on].to
        /\ db'.invite[q.on].rel = db.invite[q.on].rel
        /\ \A i \in Invitation \ {q.on} : db'.invite[i] = db.invite[i]
    BY <1>2, <2>5 DEF Database, Invite
  <2>8. InvitationTracked(c, q.on, reads, writes, rows)
    BY <2>2, <2>4, <2>7 DEF InvitationTracked, Life!Answer
  <2>9. Tracked(c, reads, writes, rows)
    BY <1>2, <2>5, <2>7, <2>8
       DEF Tracked, InvitationTracked, RelationTracked, DefinitionTracked, OneChanges
  <2> QED  BY <1>3, <2>2, <2>3, <2>6, <2>9 DEF Effect
<1> QED
  BY <1>1, <1>4, <1>5, <1>6, AcceptEffect DEF AnswerInvitation

(* Inserting the version after the last appends it.                        *)
LEMMA NextVersion ==
  ASSUME NEW S, NEW s \in Seq(S), NEW x \in S
  PROVE  LET t == WithVersion(s, Len(s) + 1, x)
         IN  t \in Seq(S) /\ Len(t) = Len(s) + 1 /\ SubSeq(t, 1, Len(s)) = s
<1> DEFINE t == WithVersion(s, Len(s) + 1, x)
<1>1. t \in [1 .. Len(s) + 1 -> S] /\ \A i \in 1 .. Len(s) : t[i] = s[i]
  BY DEF WithVersion
<1> HIDE DEF t
<1>2. t \in Seq(S) /\ Len(t) = Len(s) + 1
  BY <1>1
<1>3. SubSeq(t, 1, Len(s)) = s
  <2>1. /\ SubSeq(t, 1, Len(s)) \in Seq(S) /\ Len(SubSeq(t, 1, Len(s))) = Len(s)
        /\ \A i \in 1 .. Len(s) : SubSeq(t, 1, Len(s))[i] = s[i]
    BY <1>1, <1>2
  <2> QED  BY <2>1, SeqEqual
<1> QED  BY <1>2, <1>3 DEF t

(* A commit that updates a definition finds it as its snapshot showed it.  *)
LEMMA StillDefined ==
  ASSUME ServicesInv, NEW c \in Request, Running(c), NEW d \in Definition,
         ~Changed(c, DefinitionRow(d))
  PROVE  db.definition[d] = view[c].definition[d] /\ db.definition[d] \in Row
BY DEF ServicesInv, TypeOK, InFlight, DefinitionStands, Database

(* A commit that leaves all but definitions alone.                         *)
LEMMA DefinitionsOnly ==
  ASSUME ServicesInv, NEW c \in Request,
         NEW reads \in SUBSET ServiceItem, NEW writes \in SUBSET ServiceItem,
         NEW rows \in SUBSET ServiceItem, Committed(c, reads, writes, rows),
         NEW rowsAfter \in [Definition -> Row], db' = [db EXCEPT !.definition = rowsAfter],
         \A d \in Definition : DefinitionTracked(c, d, rows)
  PROVE  Effect(c)
<1>1. db \in Database /\ c \in Invitation /\ c \in Relation
  BY DEF ServicesInv, TypeOK, Invitation, Relation
<1>2. /\ db' \in Database /\ db'.invite = db.invite /\ db'.relation = db.relation
      /\ db'.expired = db.expired /\ UNCHANGED Authority
  BY <1>1 DEF Database, Authority
<1>3. Tracked(c, reads, writes, rows)
  BY <1>1, <1>2 DEF Tracked, InvitationTracked, RelationTracked, OneChanges
<1> QED  BY <1>2, <1>3 DEF Effect

LEMMA DefineEffect ==
  ASSUME ServicesInv, NEW c \in Request, Define(c)
  PROVE  Threw(c) \/ Effect(c)
<1> DEFINE q == input[c]
           v == view[c]
           a == actor[c]
           d == q.on
           reads == Item("settings", {a}) \cup WriteReads(q)
<1>1. Running(c) /\ q.kind \in Changes
  BY DEF Define
<1>2. /\ v \in Database /\ db \in Database /\ a \in Account
      /\ d \in Definition /\ q.expected \in Nat
      /\ q.kind = "save" => q.policy \in Policy /\ q.active \in BOOLEAN
      /\ v.definition[d] \in Row /\ v.definition[d].versions \in Seq(Policy)
  BY <1>1, OpenRequest DEF KnownInput, Changes, Database, Row
<1>3. reads \in SUBSET ServiceItem
  BY <1>2, DefinitionItems DEF WriteReads, Policy
<1>4. CASE Throw(c, "denied")
  BY <1>4 DEF Threw, Error
<1>5. CASE WriteError(v, q) # "none" /\ Throw(c, WriteError(v, q))
  BY <1>5 DEF Threw, WriteError, Error
<1>6. ASSUME WriteError(v, q) = "none", q.kind = "save",
             NEW n, n = Latest(v, d) + 1,
             Commit(c, "done", "saved", reads,
               Item("definition", {d}) \cup Item("policy", {d}),
               Item("definition", {d}) \cup Item("version", {<<d, n>>})),
             db' = [db EXCEPT !.definition[d] = Saved(@, n, q)]
      PROVE  Effect(c)
  <2> DEFINE writes == Item("definition", {d}) \cup Item("policy", {d})
             rows == Item("definition", {d}) \cup Item("version", {<<d, n>>})
             before == v.definition[d].versions
  <2>1. n = Len(before) + 1 /\ n \in Nat
    <3>1. before \in Seq(Policy) /\ n = Len(before) + 1
      BY <1>2, <1>6 DEF Latest
    <3> HIDE DEF before
    <3> QED  BY <3>1
  <2>2. /\ writes \in SUBSET ServiceItem /\ rows \in SUBSET ServiceItem
        /\ DefinitionRow(d) \in rows
    BY <1>2, <2>1, DefinitionItems
  <2>3. Committed(c, reads, writes, rows)
    BY <1>6, CommitCommits DEF Success
  <2> HIDE DEF reads, writes, rows
  <2>4. db.definition[d] = v.definition[d]
    BY <1>1, <1>2, <2>2, <2>3, NotChanged, StillDefined
  <2> DEFINE after == WithVersion(before, n, q.policy)
  <2>5. after \in Seq(Policy) /\ Len(after) = Len(before) + 1
        /\ SubSeq(after, 1, Len(before)) = before
    <3>1. before \in Seq(Policy) /\ q.policy \in Policy
      BY <1>2, <1>6
    <3> HIDE DEF before, q
    <3> QED  BY <2>1, <3>1, NextVersion
  <2>6. before # <<>> => q.expected = Len(before)
    BY <1>2, <1>6 DEF WriteError, Latest, Exists
  <2> HIDE DEF after, before
  <2>7. Saved(db.definition[d], n, q) = [versions |-> after, active |-> q.active]
    BY <2>4 DEF Saved, after, before
  <2>8. [versions |-> after, active |-> q.active] \in Row
    BY <1>2, <1>6, <2>5 DEF Row
  <2> DEFINE rowsAfter == [db.definition EXCEPT ![d] = [versions |-> after, active |-> q.active]]
  <2>9. rowsAfter \in [Definition -> Row] /\ db' = [db EXCEPT !.definition = rowsAfter]
    BY <1>2, <1>6, <2>7, <2>8 DEF Database
  <2>10. db'.definition = rowsAfter
    BY <1>2, <2>9 DEF Database
  <2>11. /\ db'.definition[d].versions = after /\ db.definition[d].versions = before
         /\ \A f \in Definition \ {d} : db'.definition[f] = db.definition[f]
    BY <1>2, <2>4, <2>10 DEF Database, before
  <2>12. \A f \in Definition : DefinitionTracked(c, f, rows)
    BY <1>6, <2>2, <2>5, <2>6, <2>11 DEF DefinitionTracked
  <2> QED  BY <1>3, <2>2, <2>3, <2>9, <2>12, DefinitionsOnly
<1>7. ASSUME q.kind # "save",
             Commit(c, "done", q.kind, reads, Item("definition", {d}), Item("definition", {d})),
             db' = [db EXCEPT !.definition[d] = Toggled(@, q)]
      PROVE  Effect(c)
  <2> DEFINE rows == Item("definition", {d})
             on == q.kind = "activate"
  <2>1. rows \in SUBSET ServiceItem /\ DefinitionRow(d) \in rows
    BY <1>2, DefinitionItems
  <2>2. Committed(c, reads, rows, rows)
    BY <1>1, <1>7, CommitCommits DEF Success, Changes
  <2> HIDE DEF reads, rows
  <2>3. db.definition[d] \in Row /\ on \in BOOLEAN
    BY <1>2 DEF Database
  <2>4. Toggled(db.definition[d], q) = [db.definition[d] EXCEPT !.active = on]
    BY DEF Toggled
  <2> HIDE DEF on
  <2>5. /\ Toggled(db.definition[d], q) \in Row
        /\ Toggled(db.definition[d], q).versions = db.definition[d].versions
    BY <2>3, <2>4 DEF Row
  <2> DEFINE rowsAfter == [db.definition EXCEPT ![d] = Toggled(db.definition[d], q)]
  <2>6. rowsAfter \in [Definition -> Row] /\ db' = [db EXCEPT !.definition = rowsAfter]
    BY <1>2, <1>7, <2>5 DEF Database
  <2>7. db'.definition = rowsAfter
    BY <1>2, <2>6 DEF Database
  <2>8. \A f \in Definition : DefinitionTracked(c, f, rows)
    BY <1>2, <2>1, <2>5, <2>7 DEF DefinitionTracked, Database
  <2> QED  BY <1>3, <2>1, <2>2, <2>6, <2>8, DefinitionsOnly
<1> QED
  BY <1>1, <1>4, <1>5, <1>6, <1>7 DEF Define, Write

(* What is there is left as it is, or retired.                             *)
Spared(d) ==
  LET before == db.definition[d]
  IN  before.versions # <<>> =>
        \/ db'.definition[d] = before
        \/ d \in Synthetic /\ db'.definition[d] = [before EXCEPT !.active = FALSE]

LEMMA InstallEffect ==
  ASSUME ServicesInv, NEW c \in Request, InstallPack(c)
  PROVE  Threw(c) \/ (Effect(c) /\ \A d \in Definition : Spared(d))
<1> USE PoliciesTyped
<1> DEFINE v == view[c]
           missing == {d \in DOMAIN Pack : ~Exists(v, d)}
           retired == {d \in Synthetic : Exists(v, d) /\ v.definition[d].active}
           touched == missing \cup retired
           reads == Item("definition", DOMAIN Pack \cup Synthetic)
                      \cup Item("policy", retired) \cup Item("role", Role)
           writes == Item("definition", touched) \cup Item("policy", missing)
           rows == Item("definition", touched) \cup Item("version", missing \X {1})
           rowsAfter == [d \in Definition |->
                 IF d \in missing
                 THEN [versions |-> WithVersion(db.definition[d].versions, 1, Pack[d]),
                       active |-> TRUE]
                 ELSE IF d \in retired THEN [db.definition[d] EXCEPT !.active = FALSE]
                 ELSE db.definition[d]]
<1>1. Running(c) /\ v \in Database /\ db \in Database
  BY OpenRequest DEF InstallPack
<1>2. missing \subseteq Definition /\ retired \subseteq Definition
  OBVIOUS
<1>3. /\ reads \in SUBSET ServiceItem /\ writes \in SUBSET ServiceItem
      /\ rows \in SUBSET ServiceItem /\ \A d \in touched : DefinitionRow(d) \in rows
  <2>1. missing \X {1} \in SUBSET (Definition \X Nat)
    BY <1>2
  <2>2. DOMAIN Pack \cup Synthetic \in SUBSET Definition
    OBVIOUS
  <2> HIDE DEF missing, retired
  <2> QED  BY <1>2, <2>1, <2>2, DefinitionItems
<1>4. CASE Throw(c, "failed")
  BY <1>4 DEF Threw
<1>5. CASE /\ Commit(c, "done", "installed", reads, writes, rows)
           /\ db' = [db EXCEPT !.definition = rowsAfter]
  <2>1. Committed(c, reads, writes, rows)
    BY <1>5, CommitCommits DEF Success
  <2>2. \A d \in touched : db.definition[d] = v.definition[d]
    <3> HIDE DEF reads, writes, rows, missing, retired
    <3> QED  BY <1>1, <1>2, <1>3, <2>1, NotChanged, StillDefined
  <2>3. \A d \in missing : db.definition[d].versions = <<>>
    BY <2>2 DEF Exists
  <2>4. ASSUME NEW d \in missing
        PROVE  /\ rowsAfter[d] \in Row /\ Len(rowsAfter[d].versions) = 1
               /\ SubSeq(rowsAfter[d].versions, 1, 0) = <<>>
    <3> DEFINE t == WithVersion(<<>>, 1, Pack[d])
    <3>1. Pack[d] \in Policy /\ <<>> \in Seq(Policy) /\ Len(<<>>) = 0
      OBVIOUS
    <3>2. t \in Seq(Policy) /\ Len(t) = 1 /\ SubSeq(t, 1, 0) = <<>>
      <4>1. LET w == WithVersion(<<>>, Len(<<>>) + 1, Pack[d])
            IN  w \in Seq(Policy) /\ Len(w) = Len(<<>>) + 1 /\ SubSeq(w, 1, Len(<<>>)) = <<>>
        BY <3>1, NextVersion
      <4> QED  BY <4>1
    <3>3. rowsAfter[d] = [versions |-> t, active |-> TRUE]
      BY <1>2, <2>3
    <3> HIDE DEF t, rowsAfter
    <3> QED  BY <3>2, <3>3 DEF Row
  <2>5. ASSUME NEW d \in Definition, d \notin missing
        PROVE  rowsAfter[d] \in Row /\ rowsAfter[d].versions = db.definition[d].versions
    BY ZenonT(60), <1>1, <2>5 DEF Database, Row
  <2>6. \A d \in Definition \ touched : rowsAfter[d] = db.definition[d]
    OBVIOUS
  <2> HIDE DEF reads, writes, rows
  <2>7. db'.definition = rowsAfter
    BY <1>1, <1>5 DEF Database
  <2>8. rowsAfter \in [Definition -> Row]
    <3>1. \A d \in Definition : rowsAfter[d] \in Row
      BY <2>4, <2>5
    <3>2. rowsAfter = [d \in Definition |-> rowsAfter[d]]
      OBVIOUS
    <3> HIDE DEF rowsAfter
    <3> QED  BY <3>1, <3>2
  <2>9. \A d \in Definition : Spared(d)
    BY <2>3, <2>7 DEF Spared
  <2> HIDE DEF rowsAfter, missing, retired
  <2>10. ASSUME NEW d \in Definition PROVE DefinitionTracked(c, d, rows)
    <3>1. CASE d \in missing
      <4>1. /\ db.definition[d].versions = <<>> /\ Len(<<>>) = 0
            /\ Len(db'.definition[d].versions) = 1
            /\ SubSeq(db'.definition[d].versions, 1, 0) = <<>>
            /\ DefinitionRow(d) \in rows
        BY <1>3, <2>3, <2>4, <2>7, <3>1
      <4> QED  BY <4>1 DEF DefinitionTracked
    <3>2. CASE d \notin missing
      BY <1>3, <2>5, <2>6, <2>7, <3>2 DEF DefinitionTracked
    <3> QED  BY <3>1, <3>2
  <2> QED  BY <1>3, <1>5, <2>1, <2>8, <2>9, <2>10, DefinitionsOnly
<1> QED
  BY <1>4, <1>5 DEF InstallPack, Missing

----------------------------------------------------------------------------
(* The steps that are not commits.                                         *)

(* The tables are as before, but for what the clock and operators change.  *)
LEMMA TablesStand ==
  ASSUME ServicesInv, db'.invite = db.invite, db'.relation = db.relation,
         db.expired \subseteq db'.expired,
         \A d \in Request : Unanswered(d)' => Unanswered(d)
  PROVE  Unsent' /\ OneEmployment' /\ OneOpenInvitation' /\ AcceptedMeansEmployed'
<1>1. Unsent' /\ OneEmployment' /\ AcceptedMeansEmployed'
  BY DEF ServicesInv, Unsent, OneEmployment, AcceptedMeansEmployed
<1>2. OneOpenInvitation'
  BY DEF ServicesInv, OneOpenInvitation, Life!Open
<1> QED  BY <1>1, <1>2

(* Whoever runs on finds nothing else changed.                             *)
LEMMA Undisturbed ==
  ASSUME ServicesInv, NEW d \in Request,
         db'.invite = db.invite, db'.relation = db.relation,
         db'.definition = db.definition, db.expired \subseteq db'.expired,
         Running(d)' => /\ Running(d) /\ log' = log
                        /\ view'[d] = view[d] /\ since'[d] = since[d]
  PROVE  InFlight(d)'
<1> SUFFICES ASSUME Running(d)' PROVE InFlight(d)'
  BY DEF InFlight
<1>1. /\ \A i \in Invitation : InvitationCovered(d, i)
      /\ \A r \in Relation : RelationCovered(d, r)
      /\ \A f \in Definition : DefinitionCovered(d, f)
  BY DEF InvitationCovered, RelationCovered, DefinitionCovered
<1>2. /\ \A x : Changed(d, x) => ChangedThen(d, x)
      /\ \A x : Raced(d, x) => RacedThen(d, x)
  BY DEF Changed, ChangedThen, Raced, RacedThen
<1>3. since'[d] <= Len(log')
  BY DEF ServicesInv, InFlight
<1> QED
  BY <1>1, <1>2, <1>3, StaysInFlight

(* A step of a request that leaves the tables alone.                       *)
LEMMA QuietKeeps ==
  ASSUME ServicesInv, UNCHANGED db, TypeOK', LogInv', Prepared',
         \A d \in Request : Unanswered(d)' => Unanswered(d),
         \A d \in Request : Running(d)' =>
           /\ Running(d) /\ log' = log
           /\ view'[d] = view[d] /\ since'[d] = since[d]
  PROVE  ServicesInv'
<1>1. Unsent' /\ OneEmployment' /\ OneOpenInvitation' /\ AcceptedMeansEmployed'
  BY TablesStand
<1>2. \A d \in Request : InFlight(d)'
  BY Undisturbed
<1> QED  BY <1>1, <1>2 DEF ServicesInv

(* An attempt that ends without a commit.                                  *)
LEMMA LeaveKeeps ==
  ASSUME ServicesInv, NEW c \in Request, Running(c),
         NEW step \in {"begin", "done"},
         NEW result \in {"none", "failed"} \cup Error,
         step = "begin" => attempt[c] < Attempts /\ result = "none",
         Leave(c, step, result), log' = Kept(c, log), UNCHANGED db
  PROVE  ServicesInv'
<1>1. /\ pc' = [pc EXCEPT ![c] = step] /\ view' = [view EXCEPT ![c] = None]
      /\ reply' = [reply EXCEPT ![c] = result]
      /\ UNCHANGED <<input, actor, attempt, since>>
  BY DEF Leave, Answer
<1>2. log' \in Seq(Entry) /\ LogInv' /\ log' \in {log, <<>>}
  BY DEF ServicesInv, TypeOK, LogInv, Kept
<1>3. TypeOK'
  BY <1>1, <1>2 DEF ServicesInv, TypeOK
<1>4. Prepared'
  BY <1>1 DEF ServicesInv, TypeOK, Prepared, Unanswered, Running
<1>5. \A d \in Request : Unanswered(d)' => Unanswered(d)
  BY <1>1 DEF ServicesInv, TypeOK, Unanswered, Running
<1>6. ASSUME NEW d \in Request, Running(d)'
      PROVE  /\ Running(d) /\ log' = log
             /\ view'[d] = view[d] /\ since'[d] = since[d]
  <2>1. d # c /\ Running(d) /\ view'[d] = view[d] /\ since'[d] = since[d]
    BY <1>1, <1>6 DEF ServicesInv, TypeOK, Running
  <2> QED  BY <2>1 DEF Kept
<1> QED
  BY <1>2, <1>3, <1>4, <1>5, <1>6, QuietKeeps

(* What the pages may send.                                                *)
LEMMA FormsAreKnown ==
  ASSUME db \in Database, NEW q \in AddPerson \cup InvitationActions \cup DefinitionForms
  PROVE  KnownInput(q) /\ q.kind # "install"
<1>1. CASE q \in AddPerson
  BY <1>1 DEF AddPerson, KnownInput, Changes
<1>2. CASE q \in InvitationActions
  <2>1. PICK a \in Account :
          q \in [kind : {"revoke"}, by : {a}, on : CompanyInvitations(db, a)]
                \cup [kind : {"accept", "decline"}, by : {a}, on : PersonInvitations(db, a)]
    BY <1>2 DEF InvitationActions
  <2>2. /\ q.kind \in {"revoke", "accept", "decline"} /\ q.by \in Account
        /\ q.on \in Invitation
    BY <2>1 DEF CompanyInvitations, PersonInvitations
  <2> QED
    BY <2>2 DEF KnownInput, Changes
<1>3. CASE q \in DefinitionForms
  <2>1. PICK a \in Account, d \in Definition : q \in Form(a, d)
    BY <1>3 DEF DefinitionForms
  <2>2. Latest(db, d) \in Nat
    <3>1. db.definition[d].versions \in Seq(Policy)
      BY DEF Database, Row
    <3> QED  BY <3>1 DEF Latest
  <2>3. /\ q.by = a /\ q.on = d /\ q.expected = Latest(db, d)
        /\ q.kind \in Changes
        /\ q.kind = "save" => q.policy \in Drafts /\ q.active \in BOOLEAN
    BY <2>1 DEF Form, Changes, DefinitionDetail
  <2> QED
    BY <2>2, <2>3, PoliciesTyped DEF KnownInput, Changes
<1> QED  BY <1>1, <1>2, <1>3

LEMMA AskKeeps ==
  ASSUME ServicesInv, NEW c \in Request, Ask(c)
  PROVE  ServicesInv'
<1>0. PICK step \in {"form", "begin"} :
        \E choice : /\ Load(c, step, choice) /\ KnownInput(choice)
                    /\ step = "begin" => choice.kind = "install"
  <2>1. CASE Load(c, "begin", [kind |-> "install"])
    BY <2>1 DEF KnownInput, Changes
  <2>2. CASE \E choice \in AddPerson \cup InvitationActions \cup DefinitionForms :
               Load(c, "form", choice)
    BY <2>2, FormsAreKnown DEF ServicesInv, TypeOK
  <2> QED  BY <2>1, <2>2 DEF Ask
<1>1. PICK choice : /\ Load(c, step, choice) /\ KnownInput(choice)
                    /\ step = "begin" => choice.kind = "install"
  BY <1>0
<1>2. /\ pc[c] = "idle" /\ pc' = [pc EXCEPT ![c] = step]
      /\ UNCHANGED <<actor, attempt, view, since, reply, log, db>>
  BY <1>1 DEF Load
<1>3. TypeOK' /\ LogInv'
  BY <1>2 DEF ServicesInv, TypeOK, LogInv
<1>4. Prepared'
  <2>3. DOMAIN input' = Request
    BY <1>1 DEF Load, ServicesInv, Prepared
  <2> SUFFICES ASSUME NEW d \in Request
               PROVE  /\ pc'[d] \in {"idle", "form", "begin"} => attempt'[d] < Attempts
                      /\ pc'[d] # "idle" => KnownInput(input'[d])
                      /\ pc'[d] \in {"begin", "run"} /\ input'[d].kind # "install" =>
                           actor'[d] = input'[d].by
                      /\ Unanswered(d)' => reply'[d] = "none"
    BY <2>3 DEF Prepared, KnownInput
  <2>1. CASE d # c
    <3>1. input'[d] = input[d]
      BY <1>1, <2>1 DEF Load, ServicesInv, Prepared
    <3>2. pc'[d] = pc[d] /\ attempt'[d] = attempt[d] /\ actor'[d] = actor[d]
      BY <1>2, <2>1 DEF ServicesInv, TypeOK
    <3> QED  BY <1>2, <3>1, <3>2 DEF ServicesInv, Prepared, Unanswered
  <2>2. CASE d = c
    <3>1. pc[c] = "idle" /\ pc'[c] = step /\ input'[c] = choice
      BY <1>1, <1>2 DEF ServicesInv, TypeOK, Prepared, Unanswered, Load
    <3> QED  BY <1>1, <1>2, <2>2, <3>1 DEF ServicesInv, Prepared, Unanswered
  <2> QED  BY <2>1, <2>2
<1>5. \A d \in Request : Unanswered(d)' => Unanswered(d)
  BY <1>2 DEF ServicesInv, TypeOK, Unanswered
<1>6. \A d \in Request : Running(d)' =>
        /\ Running(d) /\ log' = log
        /\ view'[d] = view[d] /\ since'[d] = since[d]
  BY <1>2 DEF ServicesInv, TypeOK, Running
<1> QED
  BY <1>2, <1>3, <1>4, <1>5, <1>6, QuietKeeps

LEMMA SubmitKeeps ==
  ASSUME ServicesInv, NEW c \in Request, Submit(c)
  PROVE  ServicesInv'
<1>1. PICK who \in Account \cup {None}, step \in {"begin", "done"}, result \in {"none", "forbidden"} :
        /\ pc[c] = "form" /\ actor' = [actor EXCEPT ![c] = who]
        /\ step = "begin" => who = input[c].by /\ result = "none"
        /\ pc' = [pc EXCEPT ![c] = step] /\ reply' = [reply EXCEPT ![c] = result]
        /\ UNCHANGED <<input, attempt, view, since, log, db>>
  BY DEF Submit, Answer, ValidCsrf
<1>2. TypeOK' /\ LogInv'
  BY <1>1 DEF ServicesInv, TypeOK, LogInv
<1>3. Prepared'
  BY <1>1 DEF ServicesInv, TypeOK, Prepared, Unanswered
<1>4. \A d \in Request : Unanswered(d)' => Unanswered(d)
  BY <1>1 DEF ServicesInv, TypeOK, Unanswered
<1>5. \A d \in Request : Running(d)' =>
        /\ Running(d) /\ log' = log
        /\ view'[d] = view[d] /\ since'[d] = since[d]
  BY <1>1 DEF ServicesInv, TypeOK, Running
<1> QED
  BY <1>1, <1>2, <1>3, <1>4, <1>5, QuietKeeps

LEMMA MailKeeps ==
  ASSUME ServicesInv, NEW c \in Request, MailInvitation(c)
  PROVE  ServicesInv'
<1>1. PICK result \in {"created", "undelivered"} :
        /\ pc[c] = "mail" /\ pc' = [pc EXCEPT ![c] = "done"]
        /\ reply' = [reply EXCEPT ![c] = result]
        /\ UNCHANGED <<input, actor, attempt, view, since, log, db>>
  BY DEF MailInvitation, Answer
<1>2. TypeOK' /\ LogInv'
  BY <1>1 DEF ServicesInv, TypeOK, LogInv, Success
<1>3. Prepared'
  BY <1>1 DEF ServicesInv, TypeOK, Prepared, Unanswered
<1>4. \A d \in Request : Unanswered(d)' => Unanswered(d)
  BY <1>1 DEF ServicesInv, TypeOK, Unanswered
<1>5. \A d \in Request : Running(d)' =>
        /\ Running(d) /\ log' = log
        /\ view'[d] = view[d] /\ since'[d] = since[d]
  BY <1>1 DEF ServicesInv, TypeOK, Running
<1> QED
  BY <1>1, <1>2, <1>3, <1>4, <1>5, QuietKeeps

LEMMA BeginKeeps ==
  ASSUME ServicesInv, NEW c \in Request, Begin(c)
  PROVE  ServicesInv'
<1>1. /\ pc[c] = "begin" /\ pc' = [pc EXCEPT ![c] = "run"]
      /\ attempt' = [attempt EXCEPT ![c] = @ + 1]
      /\ view' = [view EXCEPT ![c] = db] /\ since' = [since EXCEPT ![c] = Len(log)]
      /\ UNCHANGED <<input, actor, reply, log, db>>
  BY DEF Begin
<1>2. TypeOK' /\ LogInv'
  <2>1. attempt[c] \in 0 .. Attempts /\ attempt[c] < Attempts /\ Attempts \in Nat
    BY <1>1, KnownStart DEF ServicesInv, TypeOK, Prepared, Unanswered
  <2>2. attempt' \in [Request -> 0 .. Attempts]
    BY <1>1, <2>1 DEF ServicesInv, TypeOK
  <2>3. since' \in [Request -> Nat]
    BY <1>1 DEF ServicesInv, TypeOK
  <2> QED
    BY <1>1, <2>2, <2>3 DEF ServicesInv, TypeOK, LogInv
<1>3. Prepared'
  BY <1>1 DEF ServicesInv, TypeOK, Prepared, Unanswered
<1>4. \A d \in Request : Unanswered(d)' => Unanswered(d)
  BY <1>1 DEF ServicesInv, TypeOK, Unanswered
<1>5. Unsent' /\ OneEmployment' /\ OneOpenInvitation' /\ AcceptedMeansEmployed'
  BY <1>1, <1>4, TablesStand
<1>6. ASSUME NEW d \in Request PROVE InFlight(d)'
  <2>1. CASE d # c
    <3>1. Running(d)' => /\ Running(d) /\ log' = log
                         /\ view'[d] = view[d] /\ since'[d] = since[d]
      BY <1>1, <2>1 DEF ServicesInv, TypeOK, Running
    <3> QED  BY <1>1, <3>1, Undisturbed
  <2>2. CASE d = c
    <3>1. /\ view'[c] = db /\ since'[c] = Len(log) /\ db' = db /\ log' = log
          /\ db \in Database /\ Len(log) \in Nat
      BY <1>1 DEF ServicesInv, TypeOK
    <3>2. /\ \A i \in Invitation : InvitationStands(c, i)'
          /\ \A f \in Definition : DefinitionStands(c, f)'
      BY <3>1 DEF InvitationStands, DefinitionStands
    <3>3. \A r \in Relation : RelationStands(c, r)'
      BY <3>1 DEF RelationStands, Database, Employment
    <3> QED  BY <2>2, <3>1, <3>2, <3>3 DEF InFlight
  <2> QED  BY <2>1, <2>2
<1> QED
  BY <1>2, <1>3, <1>5, <1>6 DEF ServicesInv

----------------------------------------------------------------------------
(* Operators and the clock.                                                *)

LEMMA OutsideKeeps ==
  ASSUME ServicesInv, UNCHANGED <<own, log>>, db' \in Database,
         db'.invite = db.invite, db'.relation = db.relation,
         db'.definition = db.definition, db.expired \subseteq db'.expired
  PROVE  ServicesInv'
<1>1. UNCHANGED <<pc, input, actor, attempt, view, since, reply, log>>
  BY DEF own
<1>2. TypeOK' /\ LogInv' /\ Prepared'
  BY <1>1 DEF ServicesInv, TypeOK, LogInv, Prepared, Unanswered
<1>3. Unsent' /\ OneEmployment' /\ OneOpenInvitation' /\ AcceptedMeansEmployed'
  BY <1>1, TablesStand DEF Unanswered
<1>4. \A d \in Request : InFlight(d)'
  BY <1>1, Undisturbed DEF Running
<1> QED
  BY <1>2, <1>3, <1>4 DEF ServicesInv

(* An employment ends while transactions are open.                         *)
LEMMA EndKeeps ==
  ASSUME ServicesInv, NEW r \in Relation, EndEmployment(r)
  PROVE  ServicesInv'
<1> DEFINE e == [since |-> Len(log), reads |-> {}, writes |-> {},
                 rows |-> Rows("relation", {r})]
<1>1. UNCHANGED <<pc, input, actor, attempt, view, since, reply>>
  BY DEF EndEmployment, Disturb, own
<1>2. /\ db \in Database /\ log \in Seq(Entry) /\ Len(log) \in Nat
      /\ db.relation[r] \in Employment /\ db.relation[r].status = "ACTIVE"
  BY DEF ServicesInv, TypeOK, EndEmployment, Database
<1>3. e \in Entry /\ e.since <= Len(log) /\ RelationRow(r) \in e.rows
  BY <1>2, EmploymentItems DEF Entry
<1>4. log' \in {log, Append(log, e)} /\ ((\E c \in Request : Running(c)) => log' = Append(log, e))
  BY DEF EndEmployment, Disturb
<1> HIDE DEF e
<1>5. log' \in Seq(Entry) /\ LogInv'
  BY <1>2, <1>3, <1>4, LogIsRight DEF ServicesInv
<1> DEFINE ended == [db.relation[r] EXCEPT !.status = "ENDED"]
           after == [db.relation EXCEPT ![r] = ended]
<1>6. ended \in Employment /\ ended.status = "ENDED" /\ ended.of = db.relation[r].of
  BY <1>2 DEF Employment
<1>7. db' = [db EXCEPT !.relation = after]
  BY <1>2 DEF EndEmployment, Database
<1> HIDE DEF ended
<1>8. after \in [Relation -> Employment]
  BY <1>2, <1>6 DEF Database
<1>9. /\ db' \in Database /\ db'.invite = db.invite /\ db'.definition = db.definition
      /\ db'.expired = db.expired /\ db'.relation = after
  BY <1>2, <1>7, <1>8 DEF Database
<1>10. /\ db'.relation[r] = ended
       /\ \A s \in Relation \ {r} : db'.relation[s] = db.relation[s]
  BY <1>2, <1>9 DEF Database
<1>11. TypeOK' /\ Prepared'
  BY <1>1, <1>5, <1>9 DEF ServicesInv, TypeOK, Prepared, Unanswered
<1>12. Unsent'
  BY <1>1, <1>2, <1>9, <1>10 DEF ServicesInv, Unsent, Unanswered, Relation
<1>13. OneEmployment'
  BY <1>6, <1>10 DEF ServicesInv, OneEmployment
<1>14. OneOpenInvitation'
  BY <1>9 DEF ServicesInv, OneOpenInvitation, Life!Open
<1>15. AcceptedMeansEmployed'
  BY <1>6, <1>9, <1>10 DEF ServicesInv, AcceptedMeansEmployed
<1>16. ASSUME NEW d \in Request, Running(d)' PROVE InFlight(d)'
  <2>1. Running(d) /\ view'[d] = view[d] /\ since'[d] = since[d] /\ log' = Append(log, e)
    BY <1>1, <1>4, <1>16 DEF Running
  <2>2. /\ since'[d] <= Len(log')
        /\ \A x : Changed(d, x) \/ x \in e.rows => ChangedThen(d, x)
        /\ \A x : Raced(d, x) => RacedThen(d, x)
    BY <1>3, <2>1, LogGrows
  <2>3. /\ \A i \in Invitation : InvitationCovered(d, i)
        /\ \A f \in Definition : DefinitionCovered(d, f)
    BY <1>9 DEF InvitationCovered, DefinitionCovered
  <2>4. \A s \in Relation : RelationCovered(d, s)
    BY <1>2, <1>3, <1>6, <1>10, <2>2 DEF RelationCovered
  <2> QED
    BY <1>9, <2>1, <2>2, <2>3, <2>4, StaysInFlight
<1>17. \A d \in Request : InFlight(d)'
  BY <1>16 DEF InFlight
<1> QED
  BY <1>5, <1>11, <1>12, <1>13, <1>14, <1>15, <1>17 DEF ServicesInv

LEMMA OperateKeeps ==
  ASSUME ServicesInv, Operate
  PROVE  ServicesInv'
<1>1. db \in Database
  BY DEF ServicesInv, TypeOK
<1>2. ASSUME NEW i \in Invitation, ExpireInvitation(i) PROVE ServicesInv'
  <2>1. db' = [db EXCEPT !.expired = @ \cup {i}] /\ UNCHANGED <<own, log>>
    BY <1>2 DEF ExpireInvitation
  <2> QED  BY <1>1, <2>1, OutsideKeeps DEF Database
<1>3. CASE LoseAuthority
  <2>1. UNCHANGED <<own, log>>
    BY <1>3 DEF LoseAuthority
  <2>2. /\ db' \in Database /\ db'.invite = db.invite /\ db'.relation = db.relation
        /\ db'.definition = db.definition /\ db'.expired = db.expired
    BY <1>1, <1>3 DEF LoseAuthority, Database
  <2> QED  BY <2>1, <2>2, OutsideKeeps
<1>4. CASE SuspendCompany
  <2>1. db' = [db EXCEPT !.company = FALSE] /\ UNCHANGED <<own, log>>
    BY <1>4 DEF SuspendCompany
  <2> QED  BY <1>1, <2>1, OutsideKeeps DEF Database
<1>5. CASE RetireRole
  <2>1. PICK r \in db.roles : db' = [db EXCEPT !.roles = @ \ {r}] /\ UNCHANGED <<own, log>>
    BY <1>5 DEF RetireRole
  <2> QED  BY <1>1, <2>1, OutsideKeeps DEF Database
<1> QED
  BY <1>2, <1>3, <1>4, <1>5, EndKeeps DEF Operate

----------------------------------------------------------------------------
(* Every step keeps the invariant.                                         *)

LEMMA InitKeeps ==
  ASSUME Init
  PROVE  ServicesInv
<1>1. /\ db \in Database /\ db.expired = {}
      /\ \A i \in Invitation :
           /\ db.invite[i].rel = None
           /\ db.invite[i].status = IF i \in Existing THEN "OPEN" ELSE "NONE"
      /\ \A i, j \in Existing : db.invite[i].to = db.invite[j].to => i = j
      /\ \A r \in Request : db.relation[r].status = "NONE"
      /\ \A r, s \in Former : db.relation[r].of = db.relation[s].of => r = s
      /\ 0 \in 0 .. Attempts /\ 0 < Attempts
  BY KnownStart DEF Init
<1>2. TypeOK
  BY <1>1 DEF Init, TypeOK
<1>3. LogInv
  BY DEF Init, LogInv
<1>4. Unsent
  BY <1>1, NewInvitations DEF Init, Unsent, Invitation
<1>5. Prepared
  BY <1>1 DEF Init, Prepared
<1>6. OneEmployment
  BY <1>1 DEF OneEmployment, Relation
<1>7. OneOpenInvitation
  BY <1>1 DEF OneOpenInvitation, Life!Open
<1>8. AcceptedMeansEmployed
  BY <1>1 DEF AcceptedMeansEmployed
<1>9. \A c \in Request : InFlight(c)
  BY DEF Init, InFlight, Running
<1> QED
  BY <1>2, <1>3, <1>4, <1>5, <1>6, <1>7, <1>8, <1>9 DEF ServicesInv

(* What every step of a request's service is.                              *)
LEMMA ServeSteps ==
  ASSUME ServicesInv, NEW c \in Request, Serve(c)
  PROVE  \/ Submit(c) \/ Begin(c) \/ MailInvitation(c)
         \/ /\ Running(c)
            /\ \/ Effect(c)
               \/ \E step \in {"begin", "done"}, result \in {"none", "failed"} \cup Error :
                    /\ Leave(c, step, result) /\ log' = Kept(c, log)
                    /\ UNCHANGED db
                    /\ step = "begin" => attempt[c] < Attempts /\ result = "none"
<1>1. CASE Retry(c)
  BY <1>1 DEF Retry, Refused, TriesLeft, Error
<1>2. Threw(c) => \E result \in {"none", "failed"} \cup Error :
        /\ Leave(c, "done", result) /\ log' = Kept(c, log) /\ UNCHANGED db
  BY DEF Threw, Throw
<1>3. CASE Fail(c)
  BY <1>2, <1>3 DEF Fail, Threw
<1>4. CASE Duplicate(c)
  BY <1>2, <1>4 DEF Duplicate, Threw, Error
<1>5. CASE SendInvitation(c)
  BY <1>2, <1>5, SendEffect DEF SendInvitation
<1>6. CASE AnswerInvitation(c)
  BY <1>2, <1>6, AnswerEffect DEF AnswerInvitation
<1>7. CASE Define(c)
  BY <1>2, <1>7, DefineEffect DEF Define
<1>8. CASE InstallPack(c)
  BY <1>2, <1>8, InstallEffect DEF InstallPack
<1> QED
  BY <1>1, <1>3, <1>4, <1>5, <1>6, <1>7, <1>8 DEF Serve

LEMMA ServicesStep ==
  ASSUME ServicesInv, [Next]_vars
  PROVE  ServicesInv'
<1>1. ASSUME NEW c \in Request, Serve(c) PROVE ServicesInv'
  BY <1>1, ServeSteps, SubmitKeeps, BeginKeeps, MailKeeps, EffectKeeps, LeaveKeeps
<1>2. ASSUME NEW c \in Request, Ask(c) PROVE ServicesInv'
  BY <1>2, AskKeeps
<1>3. CASE Operate
  BY <1>3, OperateKeeps
<1>4. CASE Stop \/ UNCHANGED vars
  <2>1. UNCHANGED <<own, log>> /\ db' = db
    BY <1>4 DEF Stop, vars
  <2> QED  BY <2>1, OutsideKeeps DEF ServicesInv, TypeOK
<1> QED
  BY <1>1, <1>2, <1>3, <1>4 DEF Next

(* The inductive invariant: what open transactions know of the tables, and *)
(* what the tables never show.                                             *)
THEOREM ServicesInvariant == Spec => []ServicesInv
<1>1. Init => ServicesInv
  BY InitKeeps
<1>2. ServicesInv /\ [Next]_vars => ServicesInv'
  BY ServicesStep
<1> QED
  BY <1>1, <1>2, PTL DEF Spec

----------------------------------------------------------------------------
(* What follows from it.                                                   *)

(* Attempts are counted and bounded, and every table keeps its type.       *)
THEOREM TypesHold == Spec => []TypeOK
<1>1. ServicesInv => TypeOK
  BY DEF ServicesInv
<1> QED
  BY <1>1, ServicesInvariant, PTL

(* No person has two active employments, though no index forbids it, for   *)
(* any number of persons, invitations, requests and retries.               *)
THEOREM EmploymentsAreSingle == Spec => []OneActiveEmployment
<1>1. ASSUME ServicesInv PROVE OneActiveEmployment
  <2> SUFFICES ASSUME NEW p \in Account
               PROVE  Cardinality(EmploymentOf(db, p, "ACTIVE")) <= 1
    BY DEF OneActiveEmployment
  <2> DEFINE E == EmploymentOf(db, p, "ACTIVE")
  <2>1. \A r, s \in E : r = s
    BY <1>1 DEF EmploymentOf, ServicesInv, OneEmployment
  <2> HIDE DEF E
  <2>2. E = {} \/ \E r : E = {r}
    BY <2>1
  <2>3. Cardinality(E) \in {0, 1}
    BY <2>2, FS_EmptySet, FS_Singleton
  <2>4. Cardinality(E) <= 1
    BY <2>3
  <2> QED  BY <2>4 DEF E
<1>2. ServicesInv => OneActiveEmployment
  BY <1>1
<1> QED
  BY <1>2, ServicesInvariant, PTL

(* An accepted invitation points to an employment of its recipient that    *)
(* was active, however its acceptance overlapped with others.              *)
THEOREM AcceptedAreEmployed == Spec => []AcceptedMeansEmployed
<1>1. ServicesInv => AcceptedMeansEmployed
  BY DEF ServicesInv
<1> QED
  BY <1>1, ServicesInvariant, PTL

(* What a step does to the tables.                                         *)
LEMMA StepKinds ==
  ASSUME ServicesInv, [Next]_vars
  PROVE  \/ \E c \in Request : Running(c) /\ Effect(c)
         \/ \E i \in Invitation : ExpireInvitation(i)
         \/ \E r \in Relation : EndEmployment(r)
         \/ /\ db'.invite = db.invite /\ db'.relation = db.relation
            /\ db'.definition = db.definition /\ db'.expired = db.expired
<1>1. ASSUME NEW c \in Request, Serve(c), ~Effect(c) PROVE db' = db
  BY <1>1, ServeSteps DEF Submit, Begin, MailInvitation
<1>2. ASSUME NEW c \in Request, Effect(c), Serve(c) PROVE Running(c) \/ db' = db
  BY <1>2, ServeSteps DEF Submit, Begin, MailInvitation
<1>3. ASSUME NEW c \in Request, Ask(c) PROVE db' = db
  BY <1>3 DEF Ask, Load
<1>4. CASE Operate
  <2>1. db \in Database
    BY DEF ServicesInv, TypeOK
  <2>2. CASE LoseAuthority \/ SuspendCompany \/ RetireRole
    BY <2>1, <2>2 DEF LoseAuthority, SuspendCompany, RetireRole, Database
  <2> QED  BY <1>4, <2>2 DEF Operate
<1>5. CASE Stop \/ UNCHANGED vars
  BY <1>5 DEF Stop, vars
<1> QED
  BY <1>1, <1>2, <1>3, <1>4, <1>5 DEF Next

(* An employment begins with the acceptance of an open invitation of its   *)
(* person, and one that has ended never begins again.                      *)
THEOREM EmploymentsHaveCauses == Spec => EmploymentHasACause
<1> DEFINE Caused(r) ==
      db.relation[r].status # "ACTIVE" /\ db'.relation[r].status = "ACTIVE" =>
        /\ db.relation[r].status # "ENDED"
        /\ \E i \in Invitation :
             /\ db.invite[i].status = "OPEN"
             /\ db'.invite[i].status = "ACCEPTED"
             /\ db'.invite[i].rel = r
             /\ db.invite[i].to = db'.relation[r].of
<1>1. ASSUME ServicesInv, [Next]_vars, NEW r \in Relation PROVE Caused(r)
  <2>1. CASE \E c \in Request : Running(c) /\ Effect(c)
    BY <2>1 DEF Effect, Tracked, RelationTracked
  <2>2. CASE \E i \in Invitation : ExpireInvitation(i)
    <3>1. db'.relation = db.relation
      BY <1>1, <2>2 DEF ExpireInvitation, ServicesInv, TypeOK, Database
    <3> QED  BY <3>1
  <2>3. CASE \E s \in Relation : EndEmployment(s)
    <3>1. \A s \in Relation : db'.relation[s].status \in {db.relation[s].status, "ENDED"}
      BY <1>1, <2>3 DEF EndEmployment, ServicesInv, TypeOK, Database, Employment
    <3> QED  BY <3>1
  <2> QED  BY <1>1, <2>1, <2>2, <2>3, StepKinds
<1>2. ServicesInv /\ [Next]_vars => [\A r \in Relation : Caused(r)]_vars
  BY <1>1
<1> QED
  BY <1>2, ServicesInvariant, PTL DEF Spec, EmploymentHasACause

(* Versions of a definition are only appended, and whoever adds one to     *)
(* what has versions had loaded the latest.                                *)
THEOREM EditsBuild == Spec => EditsBuildOnLatest
<1> DEFINE Built(d) ==
      LET before == db.definition[d].versions
          after == db'.definition[d].versions
      IN  before # after =>
            /\ Len(after) = Len(before) + 1
            /\ SubSeq(after, 1, Len(before)) = before
            /\ before # <<>> => \E c \in Request :
                 /\ Applies(c) /\ input[c].kind = "save"
                 /\ input[c].on = d /\ input[c].expected = Len(before)
<1>1. ASSUME ServicesInv, [Next]_vars, NEW d \in Definition PROVE Built(d)
  <2>1. ASSUME NEW c \in Request, Running(c), Effect(c) PROVE Built(d)
    <3>1. Applies(c)
      BY <1>1, <2>1 DEF Applies, Running, Effect, Committed, ServicesInv, TypeOK
    <3> QED  BY <2>1, <3>1 DEF Effect, Tracked, DefinitionTracked
  <2>2. CASE db'.definition = db.definition
    BY <2>2
  <2>3. ASSUME NEW i \in Invitation, ExpireInvitation(i)
        PROVE  db'.definition = db.definition
    BY <1>1, <2>3 DEF ExpireInvitation, ServicesInv, TypeOK, Database
  <2>4. ASSUME NEW s \in Relation, EndEmployment(s)
        PROVE  db'.definition = db.definition
    BY <1>1, <2>4 DEF EndEmployment, ServicesInv, TypeOK, Database
  <2> QED  BY <1>1, <2>1, <2>2, <2>3, <2>4, StepKinds
<1>2. ServicesInv /\ [Next]_vars => [\A d \in Definition : Built(d)]_vars
  BY <1>1
<1> QED
  BY <1>2, ServicesInvariant, PTL DEF Spec, EditsBuildOnLatest

(* The starter pack at most retires what is there: a definition that was   *)
(* made or edited since the pack was read refuses it or is left as it is.  *)
THEOREM PackSpares == Spec => PackOnlyRetires
<1> DEFINE Respected(c, d) ==
      LET before == db.definition[d]
      IN  Applies(c) /\ input[c].kind = "install" /\ before.versions # <<>> =>
            \/ db'.definition[d] = before
            \/ d \in Synthetic /\ db'.definition[d] = [before EXCEPT !.active = FALSE]
<1>1. ASSUME ServicesInv, [Next]_vars, NEW c \in Request, NEW d \in Definition,
             Applies(c), input[c].kind = "install"
      PROVE  Spared(d)
  <2>1. Running(c) /\ ~Running(c)'
    BY <1>1 DEF Applies
  <2>2. ASSUME db' = db PROVE Spared(d)
    BY <2>2 DEF Spared
  <2>3. CASE Serve(c)
    <3>1. ~SendInvitation(c) /\ ~AnswerInvitation(c) /\ ~Define(c) /\ ~Duplicate(c)
      BY <1>1 DEF SendInvitation, AnswerInvitation, Define, Duplicate, Changes
    <3>2. CASE InstallPack(c)
      BY <1>1, <2>2, <3>2, InstallEffect DEF Threw, Throw
    <3>3. CASE Submit(c) \/ Begin(c) \/ Retry(c) \/ Fail(c) \/ MailInvitation(c)
      BY <2>2, <3>3 DEF Submit, Begin, Retry, Refused, Fail, Throw, MailInvitation
    <3> QED  BY <2>3, <3>1, <3>2, <3>3 DEF Serve
  <2>4. ASSUME pc'[c] = pc[c] PROVE FALSE
    BY <2>1, <2>4 DEF Running
  <2>5. ASSUME NEW e \in Request, e # c, Serve(e) PROVE FALSE
    <3>1. DOMAIN pc = Request
      BY <1>1 DEF ServicesInv, TypeOK
    <3>2. ASSUME NEW step, pc' = [pc EXCEPT ![e] = step] PROVE FALSE
      BY <2>4, <2>5, <3>1, <3>2
    <3>3. ~Submit(e) /\ ~Begin(e) /\ ~MailInvitation(e)
      BY <3>2 DEF Submit, Begin, MailInvitation, Answer
    <3>4. ~Effect(e) /\ \A step, result : ~Leave(e, step, result)
      BY <3>2 DEF Effect, Committed, Leave, Answer
    <3> QED  BY <1>1, <2>5, <3>3, <3>4, ServeSteps
  <2>6. ASSUME NEW e \in Request, Ask(e) PROVE Spared(d)
    BY <2>2, <2>6 DEF Ask, Load
  <2>7. CASE Operate \/ Stop \/ UNCHANGED vars
    <3>1. UNCHANGED own
      BY <2>7 DEF Operate, Stop, vars, ExpireInvitation, EndEmployment, Disturb,
                  LoseAuthority, SuspendCompany, RetireRole
    <3> QED  BY <2>4, <3>1 DEF own
  <2> QED  BY <1>1, <2>3, <2>5, <2>6, <2>7 DEF Next
<1>2. ServicesInv /\ [Next]_vars
        => [\A c \in Request, d \in Definition : Respected(c, d)]_vars
  BY <1>1 DEF Spared
<1> QED
  BY <1>2, ServicesInvariant, PTL DEF Spec, PackOnlyRetires

----------------------------------------------------------------------------
(* The invitations' life cycle is implemented.                             *)

LEMMA EffectLives ==
  ASSUME ServicesInv, NEW c \in Request, Effect(c)
  PROVE  [Life!Next]_(Life!vars)
<1> DEFINE status == [i \in Invitation |-> db.invite[i].status]
           address == [i \in Invitation |-> db.invite[i].to]
           status2 == [i \in Invitation |-> db'.invite[i].status]
           address2 == [i \in Invitation |-> db'.invite[i].to]
<1>1. PICK reads \in SUBSET ServiceItem, writes \in SUBSET ServiceItem,
           rows \in SUBSET ServiceItem :
        Committed(c, reads, writes, rows) /\ Tracked(c, reads, writes, rows)
  BY DEF Effect
<1>2. db'.expired = db.expired
  BY <1>1 DEF Tracked
<1>3. PICK i \in Invitation : \A k \in Invitation \ {i} : db'.invite[k] = db.invite[k]
  BY <1>1 DEF Tracked, OneChanges
<1>4. CASE db'.invite[i] = db.invite[i]
  BY <1>2, <1>3, <1>4 DEF Life!vars
<1>5. CASE /\ db.invite[i].status = "NONE" /\ db'.invite[i].status = "OPEN"
           /\ \A k \in Invitation : Life!Open(k) => db.invite[k].to # db'.invite[i].to
  <2>1. PICK a \in Account : db'.invite[i].to = a
    BY DEF Effect, Database, Invite
  <2>2. status2 = [status EXCEPT ![i] = "OPEN"] /\ address2 = [address EXCEPT ![i] = a]
    BY <1>3, <1>5, <2>1
  <2>3. Life!Send(i, a)
    BY <1>2, <1>5, <2>1, <2>2 DEF Life!Send
  <2> QED
    BY <2>3 DEF Life!Next
<1>6. CASE /\ db.invite[i].status = "OPEN" /\ db'.invite[i].status \in Life!Answer
           /\ db'.invite[i].to = db.invite[i].to
  <2>1. PICK answer \in Life!Answer : db'.invite[i].status = answer
    BY <1>6
  <2>2. status2 = [status EXCEPT ![i] = answer] /\ address2 = address
    BY <1>3, <1>6, <2>1
  <2>3. Life!Resolve(i, answer)
    BY <1>2, <1>6, <2>2 DEF Life!Resolve
  <2> QED
    BY <2>3 DEF Life!Next
<1> QED
  BY <1>1, <1>4, <1>5, <1>6 DEF Tracked, InvitationTracked

LEMMA LifeStep ==
  ASSUME ServicesInv, [Next]_vars
  PROVE  [Life!Next]_(Life!vars)
<1>1. db \in Database
  BY DEF ServicesInv, TypeOK
<1>2. ASSUME NEW i \in Invitation, ExpireInvitation(i)
      PROVE  Life!Next
  <2>1. db'.expired = db.expired \cup {i} /\ db'.invite = db.invite
    BY <1>1, <1>2 DEF ExpireInvitation, Database
  <2>2. Life!Expire(i)
    BY <2>1 DEF Life!Expire
  <2> QED  BY <2>2 DEF Life!Next
<1>3. ASSUME NEW r \in Relation, EndEmployment(r)
      PROVE  UNCHANGED Life!vars
  <2>1. db'.expired = db.expired /\ db'.invite = db.invite
    BY <1>1, <1>3 DEF EndEmployment, Database
  <2> QED  BY <2>1 DEF Life!vars
<1>4. CASE db'.invite = db.invite /\ db'.expired = db.expired
  BY <1>4 DEF Life!vars
<1> QED
  BY <1>2, <1>3, <1>4, StepKinds, EffectLives

LEMMA LifeInit ==
  ASSUME Init
  PROVE  Life!Init
<1>1. ServicesInv
  BY InitKeeps
<1>2. /\ db \in Database /\ db.expired = {}
      /\ \A i \in Invitation :
           db.invite[i].status = IF i \in Existing THEN "OPEN" ELSE "NONE"
  BY KnownStart DEF Init
<1>3. [i \in Invitation |-> db.invite[i].status] \in [Invitation -> {"NONE", "OPEN"}]
  BY <1>2
<1>4. [i \in Invitation |-> db.invite[i].to] \in [Invitation -> Account]
  BY <1>2 DEF Database, Invite
<1> QED
  BY <1>1, <1>2, <1>3, <1>4 DEF ServicesInv, OneOpenInvitation, Life!Init, Life!Open

(* An address has at most one invitation that can be answered, and every   *)
(* invitation is answered at most once, whatever overlaps or is retried.   *)
THEOREM ServicesImplementInvitationLife == Spec => ImplementsInvitationLife
<1>1. Init => Life!Init
  BY LifeInit
<1>2. ServicesInv /\ [Next]_vars => [Life!Next]_(Life!vars)
  BY LifeStep
<1> QED
  BY <1>1, <1>2, ServicesInvariant, PTL DEF Spec, ImplementsInvitationLife, Life!Spec

----------------------------------------------------------------------------
(* Authority that is gone does not come back to a request.                 *)

(* Authorised, as the tables t are.                                        *)
AuthorisedIn(t, q) ==
  LET a == q.by
  IN  IF q.kind \in Changes THEN MayDefine(t, a, q.on)
      ELSE IF q.kind \in {"send", "revoke"} THEN ManagesPeople(t, a)
      ELSE a \in t.active /\ t.company

(* An attempt of a doomed request has a snapshot that refuses it.          *)
Doomed(c) ==
  /\ pc[c] \in {"begin", "run", "done"} /\ input[c].kind # "install"
  /\ ~AuthorisedIn(db, input[c])
  /\ Running(c) => ~AuthorisedIn(view[c], input[c])
  /\ reply[c] \notin Success

LEMMA AuthorityShrinks ==
  ASSUME ServicesInv, [Next]_vars
  PROVE  /\ db'.active \subseteq db.active /\ db'.managers \subseteq db.managers
         /\ db'.settings \subseteq db.settings /\ db'.governs \subseteq db.governs
         /\ db'.company => db.company
<1>1. db \in Database
  BY DEF ServicesInv, TypeOK
<1>2. ASSUME NEW c \in Request, Effect(c) PROVE UNCHANGED Authority
  BY <1>2 DEF Effect, Tracked
<1>3. ASSUME NEW c \in Request, Serve(c), ~Effect(c) PROVE db' = db
  BY <1>3, ServeSteps DEF Submit, Begin, MailInvitation
<1>4. ASSUME NEW c \in Request, Ask(c) PROVE db' = db
  BY <1>4 DEF Ask, Load
<1>5. ASSUME NEW i \in Invitation, ExpireInvitation(i) PROVE UNCHANGED Authority
  BY <1>1, <1>5 DEF ExpireInvitation, Database, Authority
<1>6. ASSUME NEW r \in Relation, EndEmployment(r) PROVE UNCHANGED Authority
  BY <1>1, <1>6 DEF EndEmployment, Database, Authority
<1>7. CASE LoseAuthority
  BY <1>1, <1>7 DEF LoseAuthority, Database
<1>8. CASE SuspendCompany
  BY <1>1, <1>8 DEF SuspendCompany, Database
<1>9. CASE RetireRole
  BY <1>1, <1>9 DEF RetireRole, Database
<1>10. CASE UNCHANGED Authority
  BY <1>10 DEF Authority
<1>11. CASE Stop \/ UNCHANGED vars
  BY <1>11 DEF Stop, vars
<1> QED
  BY <1>2, <1>3, <1>4, <1>5, <1>6, <1>7, <1>8, <1>9, <1>10, <1>11 DEF Next, Operate

LEMMA StaysUnauthorised ==
  ASSUME ServicesInv, [Next]_vars, NEW q, ~AuthorisedIn(db, q)
  PROVE  ~AuthorisedIn(db', q)
BY AuthorityShrinks
   DEF AuthorisedIn, MayDefine, GovernanceAccess, DocumentSettings, ManagesPeople

(* A snapshot that refuses the request lets its callback only throw.       *)
LEMMA RefusedThrows ==
  ASSUME ServicesInv, NEW c \in Request, Running(c), input[c].kind # "install",
         ~AuthorisedIn(view[c], input[c]),
         SendInvitation(c) \/ AnswerInvitation(c) \/ Define(c) \/ InstallPack(c)
  PROVE  Threw(c)
<1>1. actor[c] = input[c].by
  BY OpenRequest
<1>2. CASE SendInvitation(c)
  <2>1. input[c].kind = "send" /\ ~ManagesPeople(view[c], actor[c])
    BY <1>1, <1>2 DEF SendInvitation, AuthorisedIn, Changes
  <2> QED  BY <1>2, <2>1 DEF SendInvitation, Threw, Error
<1>3. CASE AnswerInvitation(c)
  <2>1. /\ input[c].kind \in {"accept", "decline", "revoke"}
        /\ \A late \in Clock(c) : AnswerError(view[c], actor[c], input[c], late)
                                    \in {"denied", "unavailable"}
    BY <1>1, <1>3
       DEF AnswerInvitation, AuthorisedIn, AnswerError, MayAnswer, Authenticated, Changes
  <2> QED  BY <1>3, <2>1 DEF AnswerInvitation, Threw, Error
<1>4. CASE Define(c)
  <2>1. ~MayDefine(view[c], actor[c], input[c].on)
    BY <1>1, <1>4 DEF Define, AuthorisedIn
  <2> QED  BY <1>4, <2>1 DEF Define, Threw, Error
<1>5. ~InstallPack(c)
  BY DEF InstallPack
<1> QED  BY <1>2, <1>3, <1>4, <1>5

LEMMA DoomedStep ==
  ASSUME ServicesInv, [Next]_vars, NEW c \in Request, Doomed(c)
  PROVE  Doomed(c)'
<1>1. ~AuthorisedIn(db', input[c])
  BY StaysUnauthorised DEF Doomed
<1>2. CASE /\ pc'[c] = pc[c] /\ input'[c] = input[c] /\ view'[c] = view[c]
           /\ reply'[c] = reply[c]
  BY <1>1, <1>2 DEF Doomed, Running
<1>3. ASSUME NEW step \in {"begin", "done"}, NEW result \in {"none", "failed"} \cup Error,
             Leave(c, step, result)
      PROVE  Doomed(c)'
  BY <1>1, <1>3 DEF Leave, Answer, Doomed, Running, ServicesInv, TypeOK, Error, Success
<1>4. CASE Begin(c)
  BY <1>1, <1>4 DEF Begin, Doomed, Running, ServicesInv, TypeOK
<1>5. ASSUME Serve(c) PROVE Doomed(c)'
  <2>1. ~Submit(c) /\ ~MailInvitation(c)
    BY DEF Doomed, Submit, MailInvitation
  <2>2. CASE Retry(c)
    BY <1>3, <2>2 DEF Retry, Refused, Error
  <2>3. Threw(c) => Doomed(c)'
    BY <1>3 DEF Threw, Throw
  <2>4. CASE Fail(c) \/ Duplicate(c)
    BY <2>3, <2>4 DEF Fail, Duplicate, Threw, Error
  <2>5. CASE SendInvitation(c) \/ AnswerInvitation(c) \/ Define(c) \/ InstallPack(c)
    <3>1. Running(c)
      BY <2>5 DEF SendInvitation, AnswerInvitation, Define, InstallPack
    <3> QED  BY <2>3, <2>5, <3>1, RefusedThrows DEF Doomed
  <2> QED  BY <1>4, <1>5, <2>1, <2>2, <2>4, <2>5 DEF Serve
<1>6. ASSUME NEW d \in Request, d # c, Ask(d) \/ Serve(d) PROVE Doomed(c)'
  <2>1. CASE Ask(d)
    BY <1>2, <1>6, <2>1 DEF Ask, Load, ServicesInv, TypeOK, Prepared
  <2>2. CASE Serve(d)
    BY <1>2, <1>6, <2>2, ServeSteps
       DEF Submit, Begin, MailInvitation, Answer, Leave, Effect, Committed,
           ServicesInv, TypeOK
  <2> QED  BY <1>6, <2>1, <2>2
<1>7. ~Ask(c)
  BY DEF Ask, Load, Doomed
<1>8. CASE Operate \/ Stop \/ UNCHANGED vars
  <2>1. UNCHANGED own
    BY <1>8 DEF Operate, Stop, vars, ExpireInvitation, EndEmployment, Disturb,
                LoseAuthority, SuspendCompany, RetireRole
  <2> QED  BY <1>2, <2>1 DEF own
<1> QED
  BY <1>5, <1>6, <1>7, <1>8 DEF Next

(* Whoever has lost what a page rests on before an attempt begins gets     *)
(* nothing by that page, however often it is retried.                      *)
THEOREM AuthorityStaysCurrent == Spec => AuthorityIsCurrent
<1>1. ASSUME NEW c \in Request
      PROVE  Spec => [](pc[c] = "begin" /\ input[c].kind # "install" /\ ~Authorised(c) =>
                          []~(reply[c] \in Success))
  <2>1. ServicesInv /\ pc[c] = "begin" /\ input[c].kind # "install" /\ ~Authorised(c)
          => Doomed(c)
    BY DEF ServicesInv, Prepared, Unanswered, Doomed, Running, Authorised, AuthorisedIn, Success
  <2>2. ServicesInv /\ [Next]_vars /\ Doomed(c) => Doomed(c)'
    BY DoomedStep
  <2>3. Doomed(c) => ~(reply[c] \in Success)
    BY DEF Doomed
  <2> QED  BY <2>1, <2>2, <2>3, ServicesInvariant, PTL DEF Spec
<1> QED
  BY <1>1 DEF AuthorityIsCurrent

=============================================================================
