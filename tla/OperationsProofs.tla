-------------------------- MODULE OperationsProofs --------------------------
(***************************************************************************)
(* What Operations promises, for every set of constants.  The four parts   *)
(* share no state: each has an inductive invariant of its own, and a step  *)
(* of one leaves the others' variables alone.                              *)
(***************************************************************************)
EXTENDS Operations, TLAPS

----------------------------------------------------------------------------
(* The DEV client.                                                         *)

(* A script that has read a runtime file naming the DEV client has the     *)
(* secret that is still there; one that changed the client knows the       *)
(* client's secret until it ends, since nobody removes a client while a    *)
(* script runs, and only the file's own secret replaces it.                *)
DevTypes ==
  /\ client \in Secret \cup {NoSecret}
  /\ env \in Env
  /\ step \in [Operator -> {"idle", "read", "get", "send", "check", "write"}]
  /\ run \in [Operator -> [env : Env, exists : BOOLEAN, secret : Secret \cup {NoSecret}]]

FileIsRight == env.dev => client = env.secret /\ env.secret \in Secret

ScriptInv(o) ==
  /\ step[o] # "idle" /\ run[o].env.dev => env.dev /\ run[o].env.secret = env.secret
  /\ step[o] \in {"send", "check", "write"} => run[o].secret \in Secret
  /\ step[o] = "send" /\ run[o].exists =>
       env.dev /\ run[o].secret = env.secret
  /\ step[o] \in {"check", "write"} => client = run[o].secret

DevInv == DevTypes /\ FileIsRight /\ \A o \in Operator : ScriptInv(o)

LEMMA DevStarts == DevInit => DevInv
BY SecretsDiffer DEF DevInit, DevInv, DevTypes, FileIsRight, ScriptInv, Env

LEMMA DevSteps == DevInv /\ (DevNext \/ UNCHANGED devVars) => DevInv'
<1> SUFFICES ASSUME DevInv, DevNext \/ UNCHANGED devVars PROVE DevInv'
  OBVIOUS
<1> USE SecretsDiffer
<1> USE DEF DevInv, DevTypes, FileIsRight, ScriptInv
<1>1. CASE UNCHANGED devVars
  BY <1>1 DEF devVars
<1>2. CASE RemoveClient
  BY <1>2 DEF RemoveClient
<1>3. ASSUME NEW o \in Operator, Start(o) PROVE DevInv'
  BY <1>3 DEF Start, To, Env
<1>4. ASSUME NEW o \in Operator, GetClient(o) PROVE DevInv'
  BY ZenonT(60), <1>4 DEF GetClient, To
<1>5. ASSUME NEW o \in Operator, ChooseSecret(o) PROVE DevInv'
  <2>1. CASE Fail(o)
    BY <2>1 DEF Fail
  <2>2. CASE ~Fail(o)
    <3>1. PICK s \in Secret :
            /\ step' = [step EXCEPT ![o] = "send"]
            /\ run' = [run EXCEPT ![o].secret = s]
            /\ UNCHANGED <<client, env>>
            /\ run[o].exists => HasOwnSecret(run[o].env) /\ s = run[o].env.secret
      BY <1>5, <2>2 DEF ChooseSecret, HasOwnSecret, To, Env
    <3>2. run[o].exists => env.dev /\ s = env.secret
      BY <1>5, <3>1 DEF ChooseSecret, HasOwnSecret
    <3>3. DevTypes' /\ FileIsRight'
      BY <3>1
    <3>4. ScriptInv(o)'
      BY <1>5, <3>1, <3>2 DEF ChooseSecret
    <3>5. ASSUME NEW u \in Operator, u # o PROVE ScriptInv(u)'
      BY <3>1, <3>5
    <3> QED  BY <3>3, <3>4, <3>5
  <2> QED  BY <2>1, <2>2
<1>6. ASSUME NEW o \in Operator, Send(o) PROVE DevInv'
  BY <1>6 DEF Send, Fail, To
<1>7. ASSUME NEW o \in Operator, ReadBack(o) PROVE DevInv'
  BY <1>7 DEF ReadBack, Fail, To
<1>8. ASSUME NEW o \in Operator, WriteEnv(o) PROVE DevInv'
  BY <1>8 DEF WriteEnv, To, Env
<1>9. ASSUME NEW o \in Operator, Crash(o) PROVE DevInv'
  BY <1>9 DEF Crash, Fail
<1> QED
  BY <1>1, <1>2, <1>3, <1>4, <1>5, <1>6, <1>7, <1>8, <1>9 DEF DevNext

----------------------------------------------------------------------------
(* Readiness.                                                              *)

(* A probe's findings are no older than the probe, and a cached answer's   *)
(* no older than one probe before it was stamped.                          *)
ReadyTypes ==
  /\ now \in Int /\ up \in SUBSET Dependency
  /\ lastUp \in [Dependency -> Int]
  /\ pending # Nothing =>
       pending \in [since : Int, left : SUBSET Dependency, ok : SUBSET Dependency]
  /\ cached # Nothing => cached \in [at : Int, ok : SUBSET Dependency]

UpIsNow ==
  \A d \in Dependency : lastUp[d] <= now /\ (d \in up => lastUp[d] = now)

ProbeIsRecent ==
  pending # Nothing =>
    /\ pending.since <= now /\ now - pending.since <= ProbeLimit
    /\ \A d \in pending.ok : pending.since <= lastUp[d]

CacheIsRecent ==
  cached # Nothing =>
    cached.at <= now /\ \A d \in cached.ok : cached.at - ProbeLimit <= lastUp[d]

ReadyInv ==
  ReadyTypes /\ UpIsNow /\ ProbeIsRecent /\ CacheIsRecent /\ ReadyIsRecent

LEMMA ReadyStarts == ReadyInit => ReadyInv
BY ReadyAssumptions
   DEF ReadyInit, ReadyInv, ReadyTypes, UpIsNow, ProbeIsRecent, CacheIsRecent, ReadyIsRecent

LEMMA ReadySteps == ReadyInv /\ (ReadyNext \/ UNCHANGED readyVars) => ReadyInv'
<1> SUFFICES ASSUME ReadyInv, ReadyNext \/ UNCHANGED readyVars PROVE ReadyInv'
  OBVIOUS
<1> USE ReadyAssumptions
<1> USE DEF ReadyInv, ReadyTypes, UpIsNow, ProbeIsRecent, CacheIsRecent, ReadyIsRecent,
            NoReply
<1>1. CASE UNCHANGED readyVars
  BY <1>1 DEF readyVars
<1>2. CASE Get
  <2>1. CASE cached # Nothing /\ Fresh(cached.at)
    BY <1>2, <2>1 DEF Get, Fresh, Reply
  <2>2. CASE ~(cached # Nothing /\ Fresh(cached.at))
    BY <1>2, <2>2 DEF Get
  <2> QED  BY <2>1, <2>2
<1>3. CASE Settle
  BY <1>3 DEF Settle, Reply
<1>4. CASE GiveUp
  BY <1>4 DEF GiveUp
<1>5. CASE Tick
  BY <1>5 DEF Tick
<1>6. ASSUME NEW d \in Dependency, Probe(d) PROVE ReadyInv'
  <2>1. PICK ok \in {{}, {d} \cap up} :
          pending' = [pending EXCEPT !.left = @ \ {d}, !.ok = @ \cup ok]
    BY <1>6 DEF Probe
  <2>2. pending'.since = pending.since /\ pending'.ok \subseteq pending.ok \cup ({d} \cap up)
    BY <1>6, <2>1 DEF Probe
  <2>3. pending' \in [since : Int, left : SUBSET Dependency, ok : SUBSET Dependency]
    BY <1>6, <2>1 DEF Probe
  <2> QED  BY <1>6, <2>2, <2>3 DEF Probe
<1>7. ASSUME NEW d \in Dependency, Turn(d) PROVE ReadyInv'
  BY <1>7 DEF Turn
<1> QED
  BY <1>1, <1>2, <1>3, <1>4, <1>5, <1>6, <1>7 DEF ReadyNext

----------------------------------------------------------------------------
(* Dates.                                                                  *)

(* A year is longer by a day exactly when it is a leap year.               *)
LEMMA LeapIsLeapYear ==
  ASSUME NEW y \in Int PROVE Leap(y) <=> LeapYear(y)
BY DEF Leap, LeapYear, DayFromYear

(* The day before the first of the next month is the month's last.         *)
LEMMA LastDayIsDaysIn ==
  ASSUME NEW y \in Int, NEW m \in 0 .. 11 PROVE LastDay(y, m) = DaysIn(y, m)
<1> DEFINE leap == IF LeapYear(y) THEN 1 ELSE 0
<1>1. DayFromYear(y + 1) - DayFromYear(y) = 365 + leap
  BY LeapIsLeapYear DEF Leap, DayFromYear
<1>2. /\ (m + 1) \div 12 = IF m = 11 THEN 1 ELSE 0
      /\ (m + 1) % 12 = IF m = 11 THEN 0 ELSE m + 1
      /\ m \div 12 = 0 /\ m % 12 = m /\ y + 0 = y
  OBVIOUS
<1>3. /\ DayWithinYear(y, 0) = 0 /\ DayWithinYear(y, 1) = 31
      /\ DayWithinYear(y, 2) = 59 + leap /\ DayWithinYear(y, 3) = 90 + leap
      /\ DayWithinYear(y, 4) = 120 + leap /\ DayWithinYear(y, 5) = 151 + leap
      /\ DayWithinYear(y, 6) = 181 + leap /\ DayWithinYear(y, 7) = 212 + leap
      /\ DayWithinYear(y, 8) = 243 + leap /\ DayWithinYear(y, 9) = 273 + leap
      /\ DayWithinYear(y, 10) = 304 + leap /\ DayWithinYear(y, 11) = 334 + leap
  BY LeapIsLeapYear DEF DayWithinYear
<1>4. DayWithinYear(y + 1, 0) = 0
  BY DEF DayWithinYear
<1>5. DayFromYear(y) \in Int /\ DayFromYear(y + 1) \in Int
  BY DEF DayFromYear
<1> HIDE DEF leap
<1>6. leap \in {0, 1} /\ (leap = 1 <=> LeapYear(y))
  BY DEF leap
<1>7. CASE m = 11
  BY <1>1, <1>2, <1>3, <1>4, <1>5, <1>6, <1>7 DEF LastDay, DaysIn, DayNumber
<1>8. CASE m # 11
  <2>1. LastDay(y, m) = DayWithinYear(y, m + 1) - DayWithinYear(y, m)
    <3>1. DayWithinYear(y, m + 1) \in Int /\ DayWithinYear(y, m) \in Int
      BY <1>3, <1>6, <1>8
    <3> QED  BY <1>2, <1>5, <1>8, <3>1 DEF LastDay, DayNumber
  <2>2. m \in {0, 1, 2, 3, 4, 5, 6, 7, 8, 9, 10}
    BY <1>8
  <2> QED  BY <1>3, <1>6, <2>1, <2>2 DEF DaysIn
<1> QED  BY <1>7, <1>8

LEMMA MonthsAndYears ==
  ASSUME NEW k \in Nat, NEW q, NEW r, q = k \div 12, r = k % 12
  PROVE  r \in 0 .. 11 /\ q \in Int /\ k = 12 * q + r
<1>1. q \in Int /\ r \in 0 .. 11
  OBVIOUS
<1> QED  BY <1>1, Z3

(* Adding months keeps the day of the month, or takes the last.            *)
LEMMA AddsMonths ==
  ASSUME NEW date \in CalendarDate, NEW n \in Nat
  PROVE  /\ AddUtcMonths(date, n) \in CalendarDate
         /\ InMonths(date, n, AddUtcMonths(date, n))
<1> DEFINE m == date.month + n
           q == m \div 12
           r == m % 12
           y == date.year + q
<1>1. date.month \in 0 .. 11 /\ date.year \in Int /\ date.day \in Int
  BY DEF CalendarDate
<1>2. m \in Nat
  BY <1>1
<1> HIDE DEF m
<1>3. q = m \div 12 /\ r = m % 12
  OBVIOUS
<1> HIDE DEF q, r
<1>4. r \in 0 .. 11 /\ q \in Int /\ m = 12 * q + r
  BY <1>2, <1>3, MonthsAndYears
<1>5. y \in Int
  BY <1>1, <1>4
<1>6. LastDay(y, r) = DaysIn(y, r)
  BY <1>4, <1>5, LastDayIsDaysIn
<1>7. AddUtcMonths(date, n) =
        [year |-> y, month |-> r, day |-> SmallerOf(date.day, DaysIn(y, r))]
  BY <1>3, <1>6 DEF AddUtcMonths, m
<1>8. SmallerOf(date.day, DaysIn(y, r)) \in Int
  BY <1>1, <1>4, <1>5 DEF SmallerOf, DaysIn
<1>9. 12 * y + r = 12 * date.year + date.month + n
  <2>1. 12 * y + r = 12 * date.year + m
    BY <1>1, <1>4
  <2> QED  BY <1>1, <2>1 DEF m
<1> HIDE DEF y
<1> QED  BY <1>4, <1>5, <1>7, <1>8, <1>9 DEF InMonths, CalendarDate

LEMMA DatesAreTheCalendars == DatesInit => DatesAsCalendar
<1> SUFFICES ASSUME DatesInit PROVE DatesAsCalendar
  OBVIOUS
<1> USE KnownDates
<1> DEFINE base == IF policy.mode = "FIXED_FROM_RELATIONSHIP_END" THEN ended ELSE created
<1>1. /\ created \in CalendarDate /\ (ended = NoDate \/ ended \in CalendarDate)
      /\ policy.retain = NoDate \/ policy.retain \in Nat
      /\ policy.review = NoDate \/ policy.review \in Nat
  <2>1. policy.retain \in Months \cup {NoDate} /\ policy.review \in {NoDate, 12}
    BY DEF DatesInit
  <2>2. Months \subseteq Nat /\ 12 \in Nat
    OBVIOUS
  <2> QED  BY <2>1, <2>2 DEF DatesInit
<1>2. base = NoDate \/ base \in CalendarDate
  BY <1>1
<1>3. DeriveRecordDates =
        [retainUntil |-> IF policy.mode = "NONE" \/ base = NoDate \/ policy.retain = NoDate
                         THEN NoDate ELSE AddUtcMonths(base, policy.retain),
         reviewDueAt |-> IF policy.review = NoDate THEN NoDate
                         ELSE AddUtcMonths(created, policy.review)]
  BY <1>1 DEF DeriveRecordDates
<1> HIDE DEF base
<1>4. base # NoDate /\ policy.retain # NoDate =>
        /\ AddUtcMonths(base, policy.retain) # NoDate
        /\ InMonths(base, policy.retain, AddUtcMonths(base, policy.retain))
  BY <1>1, <1>2, AddsMonths
<1>5. policy.review # NoDate =>
        InMonths(created, policy.review, AddUtcMonths(created, policy.review))
  BY <1>1, AddsMonths
<1> QED
  BY <1>3, <1>4, <1>5 DEF DatesAsCalendar, base

----------------------------------------------------------------------------
(* Reading records.                                                        *)

(* The tables say only what they can; what is remembered of a request is   *)
(* what it asked.                                                          *)
AccessTypes ==
  /\ staff \subseteq Account /\ roles \in [Account -> SUBSET Role]
  /\ alive \subseteq Grant /\ deleted \subseteq Record
  /\ seen \in [op : {"view", "download"}, gone : BOOLEAN, links : BOOLEAN]
  /\ ask \in Ask \cup {NoAsk}
  /\ pc # "idle" => ask \in Ask
  /\ DOMAIN grounds = {"view", "download"}
  /\ pc \in {"idle", "row", "person", "member", "legal", "object", "event", "stream",
             "denied", "failed", "viewed", "served"}

(* Whatever the tables say now in favour of the request was remembered.    *)
Remembered ==
  ask # NoAsk =>
    \A op \in {"view", "download"} : Grounds(ask.by, ask.of, op) \subseteq grounds[op]

(* A request gets past a decision only with a reason for what it decided;  *)
(* the page's second decision is about downloads, after one about viewing. *)
Decided ==
  /\ pc = "idle" => ~seen.links
  /\ pc = "row" => seen.op = ask.op
  /\ pc # "idle" /\ ask.op = "download" => seen.op = "download"
  /\ pc # "idle" /\ seen.op # ask.op => grounds["view"] # {}
  /\ pc = "member" => Pinned(ask.of).context # "PERSON"
  /\ pc = "legal" => Pinned(ask.of).context = "RELATIONSHIP"
  /\ pc = "object" => ask.op = "download" /\ grounds["download"] # {}
  /\ pc \in {"event", "stream"} => grounds[ask.op] # {}
  /\ pc = "stream" => ask.op = "download" /\ "RECORD_FILE_DOWNLOAD" \in log

AccessInv == AccessTypes /\ Remembered /\ Decided /\ AccessHasGrounds

(* Each way in is one of the reasons.                                      *)
LEMMA PersonIsAGround ==
  ASSUME NEW a, NEW d, NEW op, NEW gone, CanPersonView(a, d, gone)
  PROVE  Grounds(a, d, op) # {}
BY DEF CanPersonView, Pinned, Grounds

LEMMA MemberIsAGround ==
  ASSUME NEW a, NEW d, NEW op, NEW gone, CanCompanyMemberView(a, d, gone),
         Pinned(d).context # "PERSON"
  PROVE  Grounds(a, d, op) # {}
BY DEF CanCompanyMemberView, Pinned, Grounds

LEMMA LegalIsAGround ==
  ASSUME NEW a, NEW d, NEW op, NEW gone, HasLegalGrant(a, d, op, gone),
         Pinned(d).context = "RELATIONSHIP"
  PROVE  Grounds(a, d, op) # {}
BY DEF HasLegalGrant, CanLegalProfessionalView, InScope, Pinned, Grounds

LEMMA AccessStarts == AccessInit => AccessInv
BY AccessTyped, NoAskIsNoAsk
   DEF AccessInit, AccessInv, AccessTypes, Remembered, Decided, AccessHasGrounds

(* Reasons are only added to.                                              *)
LEMMA GroundsStay ==
  ASSUME AccessTypes, Remember
  PROVE  /\ DOMAIN grounds' = {"view", "download"}
         /\ \A op \in {"view", "download"} : grounds[op] \subseteq grounds'[op]
         /\ Remembered'
BY DEF AccessTypes, Remember, Remembered

LEMMA AccessSteps ==
  AccessInv /\ (AccessNext \/ UNCHANGED accessVars) => AccessInv'
<1> SUFFICES ASSUME AccessInv, AccessNext \/ UNCHANGED accessVars PROVE AccessInv'
  OBVIOUS
<1> USE DEF AccessInv
<1>1. CASE UNCHANGED accessVars
  BY <1>1 DEF accessVars, tables, AccessTypes, Remembered, Grounds, Decided, AccessHasGrounds
<1>2. CASE AccessNext
  <2> USE <1>2, AccessTyped, NoAskIsNoAsk
  <2>1. Remember /\ Remembered' /\ DOMAIN grounds' = {"view", "download"}
        /\ \A op \in {"view", "download"} : grounds[op] \subseteq grounds'[op]
    BY GroundsStay DEF AccessNext
  <2>2. ask \in Ask =>
          /\ ask # NoAsk /\ ask.op \in {"view", "download"}
          /\ \A op \in {"view", "download"} : Grounds(ask.by, ask.of, op) \subseteq grounds[op]
    BY DEF Remembered, Ask
  <2>3. CASE Arrive
    <3>1. ask' \in Ask /\ ask'.op \in {"view", "download"}
      BY <2>3 DEF Arrive, Ask
    <3> QED  BY <2>1, <2>3, <3>1 DEF Arrive, AccessTypes, Decided, AccessHasGrounds, tables
  <2>4. CASE LookUp
    <3>1. ask' = ask /\ pc = "row" /\ pc' \in {"person", "denied", "failed"}
      BY <2>4 DEF LookUp, Deny, Go
    <3>2. UNCHANGED <<staff, roles, alive, deleted>>
      BY <2>4 DEF LookUp, Deny, Go, tables
    <3>3. /\ seen' \in [op : {"view", "download"}, gone : BOOLEAN, links : BOOLEAN]
          /\ seen'.op = seen.op /\ seen'.links = seen.links
      <4>1. PICK g \in BOOLEAN : seen' = [seen EXCEPT !.gone = g]
        <5>1. seen = [seen EXCEPT !.gone = seen.gone] /\ seen.gone \in BOOLEAN
          BY DEF AccessTypes
        <5>2. seen' = seen \/ seen' = [seen EXCEPT !.gone = ask.of \in deleted]
          BY <2>4 DEF LookUp, Deny, Go
        <5>3. (ask.of \in deleted) \in BOOLEAN
          OBVIOUS
        <5> QED  BY <5>1, <5>2, <5>3, Zenon
      <4> QED  BY <4>1 DEF AccessTypes
    <3>4. AccessTypes'
      BY <2>1, <3>1, <3>2, <3>3 DEF AccessTypes
    <3> QED  BY <2>1, <2>2, <3>1, <3>3, <3>4 DEF AccessTypes, Decided, AccessHasGrounds
  <2> DEFINE Deciding == ask \in Ask /\ pc \in {"person", "member", "legal"}
  <2>5. CASE Deciding /\ Allow /\ grounds[seen.op] # {}
    BY <2>1, <2>2, <2>5 DEF Allow, Go, AccessTypes, Decided, AccessHasGrounds, tables
  <2>6. CASE Deciding /\ Refuse
    <3>1. /\ UNCHANGED <<ask, seen, tables>>
          /\ \/ pc' = "event" /\ ask.op # seen.op
             \/ pc' \in {"denied", "failed"}
      BY <2>6 DEF Refuse, Deny, Go
    <3>2. ask.op # seen.op => ask.op = "view" /\ grounds'["view"] # {}
      BY <2>1, <2>2, <2>6 DEF Decided
    <3>3. AccessTypes'
      BY <2>1, <2>6, <3>1 DEF AccessTypes, tables
    <3> QED  BY <2>1, <2>2, <2>6, <3>1, <3>2, <3>3 DEF AccessTypes, Decided, AccessHasGrounds
  <2>7. CASE /\ Deciding
             /\ \/ Go("member") /\ Pinned(ask.of).context # "PERSON"
                \/ Go("legal") /\ Pinned(ask.of).context = "RELATIONSHIP"
    BY <2>1, <2>2, <2>7 DEF Go, AccessTypes, Decided, AccessHasGrounds, tables
  <2>8. Deciding => seen.op \in {"view", "download"}
    BY DEF AccessTypes
  <2> HIDE DEF AccessInv
  <2>9. CASE AsPerson
    <3>1. Deciding
      BY <2>9 DEF AsPerson, AccessInv, AccessTypes
    <3>2. CanPersonView(ask.by, ask.of, seen.gone) => grounds[seen.op] # {}
      BY <2>2, <2>8, <3>1, PersonIsAGround
    <3> QED  BY <2>5, <2>6, <2>7, <2>9, <3>1, <3>2 DEF AsPerson
  <2>10. CASE AsMember
    <3>1. Deciding
      BY <2>10 DEF AsMember, AccessInv, AccessTypes
    <3>2. CanCompanyMemberView(ask.by, ask.of, seen.gone) /\ Pinned(ask.of).context # "PERSON"
            => grounds[seen.op] # {}
      BY <2>2, <2>8, <3>1, MemberIsAGround
    <3> QED  BY <2>5, <2>6, <2>7, <2>10, <3>1, <3>2 DEF AsMember, AccessInv, Decided
  <2>11. CASE AsLawyer
    <3>1. Deciding
      BY <2>11 DEF AsLawyer, AccessInv, AccessTypes
    <3>2. HasLegalGrant(ask.by, ask.of, seen.op, seen.gone)
            /\ Pinned(ask.of).context = "RELATIONSHIP" => grounds[seen.op] # {}
      BY <2>2, <2>8, <3>1, LegalIsAGround
    <3> QED  BY <2>5, <2>6, <2>11, <3>1, <3>2 DEF AsLawyer, AccessInv, Decided
  <2> USE DEF AccessInv
  <2>12. CASE CompareObject
    BY <2>1, <2>2, <2>12
       DEF CompareObject, Go, AccessTypes, Decided, AccessHasGrounds, tables
  <2>13. CASE RecordAccessEvent
    BY <2>1, <2>2, <2>13
       DEF RecordAccessEvent, Go, AccessTypes, Decided, AccessHasGrounds, tables
  <2>14. CASE Stream
    BY <2>1, <2>2, <2>14 DEF Stream, Go, AccessTypes, Decided, AccessHasGrounds, tables
  <2>15. CASE Change
    <3>1. UNCHANGED <<ask, pc, seen, log>>
      BY <2>15 DEF Change
    <3>2. AccessTypes'
      BY <2>1, <2>15, <3>1 DEF Change, AccessTypes
    <3> QED  BY <2>1, <2>2, <3>1, <3>2 DEF AccessTypes, Decided, AccessHasGrounds
  <2> QED
    BY <2>3, <2>4, <2>9, <2>10, <2>11, <2>12, <2>13, <2>14, <2>15 DEF AccessNext
<1> QED  BY <1>1, <1>2

(* A list keeps what the same decision, taken on the row, would open.      *)
LEMMA ListsShowWhatOpens ==
  ASSUME AccessTypes, \A d \in Record : Version[d].context # "COMPANY"
  PROVE  ListsMatchAccess
<1> SUFFICES ASSUME NEW a \in Account, NEW d \in Record
             PROVE  LET owned == PersonRecords(a) \cup RelationshipRecords(a)
                    IN  /\ d \in owned \cup LegalRecords(a) <=> CanRead(a, d, "view")
                        /\ d \in owned => CanRead(a, d, "download")
  BY DEF ListsMatchAccess
<1>1. Pinned(d).context \in {"PERSON", "RELATIONSHIP"}
  BY AccessTyped DEF DefinitionVersion, RecordContext, Pinned
<1>2. d \in PersonRecords(a) <=> CanPersonView(a, d, d \in deleted)
  BY DEF PersonRecords, PersonProjection, CanPersonView
<1>3. d \in RelationshipRecords(a) <=>
        Pinned(d).context = "RELATIONSHIP" /\ CanCompanyMemberView(a, d, d \in deleted)
  BY DEF RelationshipRecords, EmployeeProjection, InRelationship, CanCompanyMemberView
<1>4. d \in LegalRecords(a) =>
        CanRead(a, d, "view")
  BY DEF LegalRecords
<1>5. Pinned(d).context = "RELATIONSHIP" /\ HasLegalGrant(a, d, "view", d \in deleted)
        /\ CanRead(a, d, "view") => d \in LegalRecords(a)
  BY DEF LegalRecords, InRelationship, HasLegalGrant, CanLegalProfessionalView
<1> QED  BY <1>1, <1>2, <1>3, <1>4, <1>5 DEF CanRead

----------------------------------------------------------------------------
(* All together.                                                           *)

OperationsInv ==
  /\ DevInv /\ ReadyInv /\ AccessInv
  /\ part = "dates" => DatesInit

LEMMA OperationsHold == Spec => []OperationsInv
<1>1. Init => OperationsInv
  BY DevStarts, ReadyStarts, AccessStarts DEF Init, OperationsInv
<1>2. OperationsInv /\ [Next]_operationsVars => OperationsInv'
  <2> SUFFICES ASSUME OperationsInv, [Next]_operationsVars PROVE OperationsInv'
    OBVIOUS
  <2>1. /\ DevNext \/ UNCHANGED devVars
        /\ ReadyNext \/ UNCHANGED readyVars
        /\ AccessNext \/ UNCHANGED accessVars
        /\ UNCHANGED <<part, datesVars>>
    BY DEF Next, operationsVars
  <2>2. (part = "dates" => DatesInit)'
    BY <2>1 DEF OperationsInv, DatesInit, datesVars
  <2> QED  BY <2>1, <2>2, DevSteps, ReadySteps, AccessSteps DEF OperationsInv
<1> QED  BY <1>1, <1>2, PTL DEF Spec

(* For any number of operators and secrets: through crashes, repeats and   *)
(* races of the script, the DEV client never has the secret it would share *)
(* with production, and a runtime file that names it has its secret        *)
(* (keycloak-dev-client.py, main).                                         *)
THEOREM DevSecretsMatch == Spec => []SecretsMatch
<1>1. OperationsInv => SecretsMatch
  BY SecretsDiffer DEF OperationsInv, DevInv, DevTypes, FileIsRight, SecretsMatch
<1> QED  BY <1>1, OperationsHold, PTL

(* For any dependencies, life of the cache, limit of a probe and bound of  *)
(* the clock: "ready" is no older than cache and probe together            *)
(* (GET ready).                                                            *)
THEOREM ReadyStaysRecent == Spec => []ReadyIsRecent
<1>1. OperationsInv => ReadyIsRecent
  BY DEF OperationsInv, ReadyInv
<1> QED  BY <1>1, OperationsHold, PTL

(* For all accounts, records, definitions and legal grants, and any number *)
(* of changes between the queries: who gets a record, a link or a file had *)
(* one whole reason for it since asking, and the access was recorded first *)
(* (canReadStoredRecord, GET files/[fileId], RecordPage).                  *)
THEOREM ReadersHadGrounds == Spec => []AccessHasGrounds
<1>1. OperationsInv => AccessHasGrounds
  BY DEF OperationsInv, AccessInv
<1> QED  BY <1>1, OperationsHold, PTL

(* Where no record is a company's own (nothing in the code makes one), the *)
(* three lists show every reader exactly what canReadStoredRecord opens,   *)
(* and offer only downloads that the route serves, whatever the tables say *)
(* (personRecords, relationshipRecords, LegalAccessPage).                  *)
THEOREM ListsAlwaysMatch ==
  ASSUME \A d \in Record : Version[d].context # "COMPANY"
  PROVE  Spec => []ListsMatchAccess
<1>1. OperationsInv => ListsMatchAccess
  BY ListsShowWhatOpens DEF OperationsInv, AccessInv
<1> QED  BY <1>1, OperationsHold, PTL

(* For every date of every year and any number of months: dates derived    *)
(* for a record are the same day of the month that many months later, or   *)
(* the month's last, by the calendar people know (addUtcMonths,            *)
(* deriveRecordDates).                                                     *)
THEOREM DatesAlwaysRight == Spec => []DatesRight
<1>1. OperationsInv => DatesRight
  BY DatesAreTheCalendars DEF OperationsInv, DatesRight
<1> QED  BY <1>1, OperationsHold, PTL

=============================================================================
