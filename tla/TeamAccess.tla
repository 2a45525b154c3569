----------------------------- MODULE TeamAccess -----------------------------
(***************************************************************************)
(* Who may act for one company, and how that changes:                      *)
(*                                                                         *)
(*   apps/web/lib/company-team.ts        a manager saves a member's roles  *)
(*   apps/web/lib/team-invitations.ts    invitations into the team         *)
(*   apps/web/lib/employment-service.ts  invitationManager                 *)
(*                                                                         *)
(* Every request is one serializable transaction, repeated when the        *)
(* database refuses it.  An address belongs to one account.  A request is  *)
(* also the id of the invitation it creates (a fresh cuid in the code).    *)
(*                                                                         *)
(* The advisory and row locks are left out: the statement that takes one   *)
(* takes the snapshot before it waits, so a lock only delays what follows. *)
(***************************************************************************)
EXTENDS Naturals, Sequences, FiniteSets, Serializable

CONSTANTS
  Account,
  Role,       \* functional roles
  Owner,      \* the role with code OWNER
  Managing,   \* the roles with the capability company.members.manage
  Request,    \* requests to the two services, each made once
  Existing,   \* invitations that are already there
  Asks,       \* what is asked of the services
  Teams,      \* what the tables hold at first
  Attempts,   \* the literal 5 of the retry loops
  None,       \* no transaction, nothing asked
  Outside     \* what operators and the clock may change

Invitation == Request \cup Existing

(* `who` is the member whose roles are saved, or the invited address; `on` *)
(* the invitation that is answered.                                        *)
Input ==
  [kind : {"save", "send", "accept", "decline", "revoke"}, by : Account,
   who : Account, roles : SUBSET Role, on : Invitation]

Membership == {"NONE", "ACTIVE", "REMOVED"}

InviteStatus == {"NONE", "OPEN", "ACCEPTED", "DECLINED", "REVOKED"}

Invite == [status : InviteStatus, to : Account, roles : SUBSET Role,
           by : Account]

(* grants counts a member's unrevoked rows: no index keeps them single.    *)
Team == [member : [Account -> Membership], grants : [Account -> [Role -> Nat]],
         invite : [Invitation -> Invite]]

Snapshot == [team : Team, active : SUBSET Account, roles : SUBSET Role,
             company : BOOLEAN, expired : SUBSET Invitation]

ASSUME KnownRoles == Owner \in Role /\ Managing \subseteq Role

ASSUME KnownAsks == Asks \subseteq Input

ASSUME DistinctInvitations == Request \cap Existing = {}

ASSUME SomeAttempt == Attempts \in Nat \ {0}

(* A company has an owner from its first row on (completeCompanyOnboarding), *)
(* no role twice, and no two open invitations of an address.               *)
ASSUME SoundTeams ==
  /\ Teams \subseteq Team
  /\ \A team \in Teams :
       /\ \A a \in Account, r \in Role : team.grants[a][r] \in 0 .. 1
       /\ \E a \in Account :
            team.member[a] = "ACTIVE" /\ team.grants[a][Owner] = 1
       /\ \A i \in Invitation :
            team.invite[i].status = IF i \in Existing THEN "OPEN" ELSE "NONE"
       /\ \A i, j \in Existing : team.invite[i].to = team.invite[j].to => i = j

VARIABLES
  pc, input, attempt, view, since, reply, \* each request's own state
  log,                                    \* see Serializable
  team,                                   \* the tables the services write
  active, roles, company, expired,        \* what they only read
  mails                                   \* invitations handed to the mailer

outside == <<active, roles, company, expired>>
local == <<input, attempt, view, since>>
vars == <<pc, local, reply, log, team, outside, mails>>

Now ==
  [team |-> team, active |-> active, roles |-> roles, company |-> company,
   expired |-> expired]

Error == {"denied", "invalid_roles", "last_owner", "unavailable"}

Success == {"saved", "created", "existing", "accepted", "attributed",
            "declined", "revoked"}

Reply == {"none", "conflict", "failed"} \cup Error \cup Success

Item == [row : {"member"}, of : Account]
        \cup [row : {"grant"}, of : Account, role : Role]
        \cup [row : {"invitation"}, of : Invitation]
        \cup [row : {"inbox"}, of : Account]

Entry == [since : Nat, reads : SUBSET Item, writes : SUBSET Item,
          rows : SUBSET Item]

TypeOK ==
  /\ pc \in [Request -> {"idle", "begin", "run", "mail", "done"}]
  /\ input \in [Request -> Asks \cup {None}]
  /\ attempt \in [Request -> 0 .. Attempts]
  /\ view \in [Request -> Snapshot \cup {None}]
  /\ since \in [Request -> Nat]
  /\ reply \in [Request -> Reply]
  /\ log \in Seq(Entry)
  /\ Now \in Snapshot
  /\ mails \in [Request -> Nat]

Init ==
  /\ pc = [c \in Request |-> "idle"]
  /\ input = [c \in Request |-> None]
  /\ attempt = [c \in Request |-> 0]
  /\ team \in Teams
  /\ active = Account
  /\ roles = Role
  /\ company = TRUE
  /\ expired = {}
  /\ view = [c \in Request |-> None]
  /\ since = [c \in Request |-> 0]
  /\ reply = [c \in Request |-> "none"]
  /\ log = <<>>
  /\ mails = [c \in Request |-> 0]

----------------------------------------------------------------------------
(* What a transaction finds in its snapshot v.                             *)

(* currentRoles: unrevoked grants of active roles.                         *)
Held(v, a) == {r \in v.roles : v.team.grants[a][r] > 0}

(* Defect: a suspended account keeps managing.                             *)
ManagesSuspended(v, a) ==
  /\ v.team.member[a] = "ACTIVE" /\ v.company
  /\ Held(v, a) \cap Managing # {}

(* invitationManager.                                                      *)
Manages(v, a) ==
  /\ v.team.member[a] = "ACTIVE" /\ a \in v.active /\ v.company
  /\ Held(v, a) \cap Managing # {}

(* ownerSelection: only an owner gives ownership away.                     *)
MayGive(v, a, chosen) == Owner \in chosen => Owner \in Held(v, a)

OtherOwner(v, a) ==
  \E b \in Account \ {a} :
    v.team.member[b] = "ACTIVE" /\ b \in v.active /\ Owner \in Held(v, b)

IsOpen(v, i, late) == v.team.invite[i].status = "OPEN" /\ i \notin late

(* What a transaction looked at, and what it changes.                      *)
MemberOf(S) == [row : {"member"}, of : S]
GrantOf(S, R) == [row : {"grant"}, of : S, role : R]
InvitationOf(S) == [row : {"invitation"}, of : S]
InboxOf(S) == [row : {"inbox"}, of : S]

Manager(a) == MemberOf({a}) \cup GrantOf({a}, Role)

(* Grants of the account: an insert adds a row to what is there at COMMIT, *)
(* a revocation reaches only the rows of the snapshot v.                   *)
Regrant(v, a, added, dropped) ==
  [r \in Role |->
     (IF r \in dropped THEN team.grants[a][r] - v.team.grants[a][r]
                       ELSE team.grants[a][r])
     + (IF r \in added THEN 1 ELSE 0)]

----------------------------------------------------------------------------
Running(c) == pc[c] = "run"

(* The log is needed as long as a transaction is open.                     *)
Kept(c, entries) ==
  IF \E d \in Request \ {c} : Running(d) THEN entries ELSE <<>>

Leave(c, step, result) ==
  /\ pc' = [pc EXCEPT ![c] = step]
  /\ reply' = [reply EXCEPT ![c] = result]
  /\ view' = [view EXCEPT ![c] = None]
  /\ UNCHANGED <<input, attempt, since, outside, mails>>

(* COMMIT succeeds.  When its acknowledgement is lost, the error has none  *)
(* of the codes that are retried, and the caller sees it.                  *)
Commit(c, result, reads, writes, rows) ==
  LET entry == [since |-> since[c], reads |-> reads, writes |-> writes,
                rows |-> rows]
  IN  /\ MayCommit(log, entry)
      /\ log' = Kept(c, Append(log, entry))
      /\ \/ Leave(c, IF result = "created" THEN "mail" ELSE "done", result)
         \/ Leave(c, "done", "failed")

(* The callback throws; the transaction is rolled back.                    *)
Throw(c, result) ==
  /\ Leave(c, "done", result)
  /\ log' = Kept(c, log)
  /\ UNCHANGED team

----------------------------------------------------------------------------
Ask(c) ==
  /\ pc[c] = "idle"
  /\ \E ask \in Asks : input' = [input EXCEPT ![c] = ask]
  /\ pc' = [pc EXCEPT ![c] = "begin"]
  /\ UNCHANGED <<attempt, view, since, reply, log, team, outside, mails>>

(* Defect: attempts are not counted.                                       *)
BeginUncounted(c) ==
  /\ pc[c] = "begin"
  /\ pc' = [pc EXCEPT ![c] = "run"]
  /\ view' = [view EXCEPT ![c] = Now]
  /\ since' = [since EXCEPT ![c] = Len(log)]
  /\ UNCHANGED <<input, attempt, reply, log, team, outside, mails>>

(* The first statement takes the snapshot.                                 *)
Begin(c) ==
  /\ pc[c] = "begin"
  /\ pc' = [pc EXCEPT ![c] = "run"]
  /\ attempt' = [attempt EXCEPT ![c] = @ + 1]
  /\ view' = [view EXCEPT ![c] = Now]
  /\ since' = [since EXCEPT ![c] = Len(log)]
  /\ UNCHANGED <<input, reply, log, team, outside, mails>>

(* Any other error, and the transaction's timeout.                         *)
Fail(c) == Running(c) /\ Throw(c, "failed")

----------------------------------------------------------------------------
(* saveCompanyMemberRoles                                                  *)

DropsOwner(v, q) == Owner \in Held(v, q.who) \ q.roles /\ Owner \in v.roles

SaveError(v, q) ==
  IF ~Manages(v, q.by) \/ v.team.member[q.who] # "ACTIVE" THEN "denied"
  ELSE IF ~(q.roles \subseteq v.roles) THEN "invalid_roles"
  ELSE IF DropsOwner(v, q) /\ ~OtherOwner(v, q.who) THEN "last_owner"
  ELSE "none"

(* Defect: the roles the member holds are the page's, not read again.      *)
SaveReadsOwners(v, q) ==
  Manager(q.by)
  \cup (IF DropsOwner(v, q)
        THEN MemberOf(Account) \cup GrantOf(Account, {Owner}) ELSE {})

SaveReads(v, q) ==
  Manager(q.by) \cup Manager(q.who)
  \cup (IF DropsOwner(v, q)
        THEN MemberOf(Account) \cup GrantOf(Account, {Owner}) ELSE {})

Save(c) ==
  LET q == input[c]
      v == view[c]
      added == q.roles \ Held(v, q.who)
      dropped == Held(v, q.who) \ q.roles
  IN  /\ Running(c) /\ q.kind = "save"
      /\ \/ SaveError(v, q) # "none" /\ Throw(c, SaveError(v, q))
         \/ /\ SaveError(v, q) = "none"
            /\ Commit(c, "saved", SaveReads(v, q),
                      GrantOf({q.who}, added \cup dropped),
                      GrantOf({q.who}, dropped))
            /\ team' = [team EXCEPT
                 !.grants[q.who] = Regrant(v, q.who, added, dropped)]

----------------------------------------------------------------------------
(* sendTeamInvitation                                                      *)

SendError(v, q) ==
  IF ~Manages(v, q.by) THEN "denied"
  ELSE IF ~(q.roles \subseteq v.roles) THEN "invalid_roles"
  ELSE IF ~MayGive(v, q.by, q.roles) THEN "denied"
  ELSE "none"

(* The clock is read after the snapshot: by then more may have expired.    *)
Clock(c) == {view[c].expired, expired}

Send(c) ==
  LET q == input[c]
      v == view[c]
      reads == Manager(q.by) \cup InboxOf({q.who})
  IN  /\ Running(c) /\ q.kind = "send"
      /\ \/ SendError(v, q) # "none" /\ Throw(c, SendError(v, q))
         \/ /\ SendError(v, q) = "none"
            /\ \E late \in Clock(c) :
                 LET waiting == {i \in Invitation :
                       v.team.invite[i].to = q.who /\ IsOpen(v, i, late)}
                 IN  \/ /\ waiting # {}
                        /\ Commit(c, "existing", reads, {}, {})
                        /\ UNCHANGED team
                     \/ /\ waiting = {}
                        /\ Commit(c, "created", reads,
                             InvitationOf({c}) \cup InboxOf({q.who}), {})
                        /\ team' = [team EXCEPT !.invite[c] =
                             [status |-> "OPEN", to |-> q.who,
                              roles |-> q.roles, by |-> q.by]]

(* After COMMIT, and never again.                                          *)
Mail(c) ==
  /\ pc[c] = "mail"
  /\ pc' = [pc EXCEPT ![c] = "done"]
  /\ \/ mails' = [mails EXCEPT ![c] = @ + 1]
     \/ UNCHANGED mails
  /\ UNCHANGED <<local, reply, log, team, outside>>

(* Defect: the invitation is mailed inside the callback: an attempt that   *)
(* is refused, and repeated, has sent it.                                  *)
RefusedAfterMail(c) ==
  LET sent == input[c].kind = "send" /\ SendError(view[c], input[c]) = "none"
      again == attempt[c] < Attempts
  IN  /\ Running(c)
      /\ pc' = [pc EXCEPT ![c] = IF again THEN "begin" ELSE "done"]
      /\ reply' = [reply EXCEPT ![c] = IF again THEN "none" ELSE "conflict"]
      /\ view' = [view EXCEPT ![c] = None]
      /\ mails' = [mails EXCEPT ![c] = IF sent /\ again THEN @ + 1 ELSE @]
      /\ log' = Kept(c, log)
      /\ UNCHANGED <<input, attempt, since, outside, team>>

(* P2034, 40001 or 40P01 from any statement or from COMMIT.                *)
Refused(c) ==
  /\ Running(c)
  /\ IF attempt[c] < Attempts THEN Leave(c, "begin", "none")
                              ELSE Leave(c, "done", "conflict")
  /\ log' = Kept(c, log)
  /\ UNCHANGED team

----------------------------------------------------------------------------
(* resolveTeamInvitation                                                   *)

MayResolve(v, q) ==
  /\ v.team.invite[q.on].status # "NONE"
  /\ q.by \in v.active
  /\ IF q.kind = "revoke" THEN Manages(v, q.by)
                          ELSE v.team.invite[q.on].to = q.by

Attributed(v, q) ==
  q.kind = "accept" /\ v.team.invite[q.on].status = "ACCEPTED"

(* Defect: an answered invitation can be answered again.                   *)
ResolveErrorLax(v, q, late) ==
  IF ~MayResolve(v, q) THEN "denied"
  ELSE IF ~v.company \/ q.on \in late THEN "unavailable"
  ELSE "none"

ResolveError(v, q, late) ==
  IF ~MayResolve(v, q) THEN "denied"
  ELSE IF ~v.company THEN "unavailable"
  ELSE IF ~Attributed(v, q) /\ ~IsOpen(v, q.on, late) THEN "unavailable"
  ELSE "none"

(* The inviter must still be able to invite.                               *)
AcceptError(v, inv) ==
  IF ~Manages(v, inv.by) THEN "denied"
  ELSE IF ~(inv.roles \subseteq v.roles) THEN "unavailable"
  ELSE IF ~MayGive(v, inv.by, inv.roles) THEN "denied"
  ELSE "none"

Invited(q) == InvitationOf({q.on})

ResolveReads(q) ==
  Invited(q) \cup (IF q.kind = "revoke" THEN Manager(q.by) ELSE {})

(* Decline and revoke, and an accept repeated after it succeeded.          *)
Close(c, q, v) ==
  \/ /\ Attributed(v, q)
     /\ Commit(c, "attributed", ResolveReads(q), {}, {})
     /\ UNCHANGED team
  \/ /\ q.kind \in {"decline", "revoke"}
     /\ LET status == IF q.kind = "revoke" THEN "REVOKED" ELSE "DECLINED"
            result == IF q.kind = "revoke" THEN "revoked" ELSE "declined"
        IN  /\ Commit(c, result, ResolveReads(q),
                      Invited(q) \cup InboxOf({v.team.invite[q.on].to}),
                      Invited(q))
            /\ team' = [team EXCEPT !.invite[q.on].status = status]

(* Every unrevoked row, of retired roles too.                              *)
Granted(v, a) == {r \in Role : v.team.grants[a][r] > 0}

Revives(v, a) == v.team.member[a] # "ACTIVE"

(* Defect: what a removed member held comes back.                          *)
StaleKept(v, a) == {}

(* A membership that was not active loses what it held before.             *)
Stale(v, a) == IF Revives(v, a) THEN Granted(v, a) ELSE {}

Accept(c, q, v) ==
  LET inv == v.team.invite[q.on]
      a == q.by
      stale == Stale(v, a)
      added == inv.roles \ (Granted(v, a) \ stale)
      looked == IF Revives(v, a) THEN Role ELSE inv.roles
      joined == IF Revives(v, a) THEN MemberOf({a}) ELSE {}
  IN  /\ q.kind = "accept" /\ ~Attributed(v, q)
      /\ AcceptError(v, inv) = "none"
      /\ Commit(c, "accepted",
           Invited(q) \cup Manager(inv.by) \cup MemberOf({a})
             \cup GrantOf({a}, looked),
           Invited(q) \cup InboxOf({a}) \cup joined
             \cup GrantOf({a}, added \cup stale),
           Invited(q) \cup joined \cup GrantOf({a}, stale))
      /\ team' = [team EXCEPT
           !.invite[q.on].status = "ACCEPTED",
           !.member[a] = IF Revives(v, a) THEN "ACTIVE" ELSE @,
           !.grants[a] = Regrant(v, a, added, stale)]

Resolve(c) ==
  LET q == input[c]
      v == view[c]
  IN  /\ Running(c) /\ q.kind \in {"accept", "decline", "revoke"}
      /\ \E late \in Clock(c) :
           \/ /\ ResolveError(v, q, late) # "none"
              /\ Throw(c, ResolveError(v, q, late))
           \/ /\ ResolveError(v, q, late) = "none"
              /\ \/ Close(c, q, v)
                 \/ Accept(c, q, v)
                 \/ /\ q.kind = "accept" /\ ~Attributed(v, q)
                    /\ AcceptError(v, v.team.invite[q.on]) # "none"
                    /\ Throw(c, AcceptError(v, v.team.invite[q.on]))

----------------------------------------------------------------------------
(* Operators and the clock, outside of these services.                     *)

(* The row is changed by a transaction that is not serializable: all the   *)
(* database holds against it is that an update of the same row is refused. *)
Remove(a) ==
  /\ team.member[a] = "ACTIVE"
  /\ team' = [team EXCEPT !.member[a] = "REMOVED"]
  /\ log' = IF \E c \in Request : Running(c)
            THEN Append(log, [since |-> Len(log), reads |-> {}, writes |-> {},
                              rows |-> MemberOf({a})])
            ELSE log
  /\ UNCHANGED outside

Expire(i) ==
  /\ i \notin expired /\ team.invite[i].status = "OPEN"
  /\ expired' = expired \cup {i}
  /\ UNCHANGED <<active, roles, company, team, log>>

(* What comes back only lets through what was refused meanwhile.           *)
Suspend(a) ==
  /\ a \in active
  /\ active' = active \ {a}
  /\ UNCHANGED <<roles, company, expired, team, log>>

Retire(r) ==
  /\ r \in roles
  /\ roles' = roles \ {r}
  /\ UNCHANGED <<active, company, expired, team, log>>

SuspendCompany ==
  /\ company
  /\ company' = FALSE
  /\ UNCHANGED <<active, roles, expired, team, log>>

Operate ==
  /\ \/ "member" \in Outside /\ \E a \in Account : Remove(a)
     \/ "clock" \in Outside /\ \E i \in Invitation : Expire(i)
     \/ "account" \in Outside /\ \E a \in Account : Suspend(a)
     \/ "role" \in Outside /\ \E r \in Role : Retire(r)
     \/ "company" \in Outside /\ SuspendCompany
  /\ UNCHANGED <<pc, local, reply, mails>>

----------------------------------------------------------------------------
Serve(c) ==
  \/ Begin(c) \/ Refused(c) \/ Fail(c)
  \/ Save(c) \/ Send(c) \/ Resolve(c) \/ Mail(c)

Stop == (\A c \in Request : pc[c] = "done") /\ UNCHANGED vars

Next ==
  \/ \E c \in Request : Ask(c) \/ Serve(c)
  \/ Operate
  \/ Stop

Spec == Init /\ [][Next]_vars

FairSpec == Spec /\ \A c \in Request : WF_vars(Serve(c))

----------------------------------------------------------------------------
(* Properties.                                                             *)

IsOwner(a) == team.member[a] = "ACTIVE" /\ team.grants[a][Owner] > 0

(* Nobody has been taken away by an operator.  A removed member returns    *)
(* only by accepting, so before the first acceptance the tables tell.      *)
NobodyTaken ==
  \/ Outside \cap {"member", "account"} = {}
  \/ /\ active = Account
     /\ \A a \in Account : team.member[a] # "REMOVED"
     /\ \A i \in Invitation : team.invite[i].status # "ACCEPTED"

(* saveCompanyMemberRoles counts the other owners and then revokes, each   *)
(* request on its own snapshot: two owners that remove each other, or      *)
(* themselves, must not both succeed.                                      *)
CompanyHasOwner == NobodyTaken => \E a \in Account : a \in active /\ IsOwner(a)

(* Saving and accepting insert a grant row after finding none, and no      *)
(* unique index backs them: no member holds two unrevoked rows of a role.  *)
SingleGrant == \A a \in Account, r \in Role : team.grants[a][r] <= 1

(* Invitations of an address are sent once, refused, repeated and answered *)
(* concurrently: never two that the recipient could still accept, and none *)
(* changes its answer.                                                     *)
Life == INSTANCE InvitationLife WITH
  Address <- Account,
  status <- [i \in Invitation |-> team.invite[i].status],
  address <- [i \in Invitation |-> team.invite[i].to]

ImplementsInvitationLife == Life!Spec

Accepted(i) ==
  team.invite[i].status = "OPEN" /\ team.invite[i].status' = "ACCEPTED"

(* "Retry returns attribution only: it never restores removed membership   *)
(* or revoked roles" (resolveTeamInvitation).  A member gains a role or    *)
(* becomes active only in the step in which an invitation is accepted for  *)
(* the first time, or a manager saves that member's roles; and who joins   *)
(* or returns by an invitation holds exactly its roles.                    *)
AccessHasACause ==
  [][\A a \in Account :
       LET gained == {r \in Role : team.grants[a][r] = 0 /\ team'.grants[a][r] > 0}
           returns == team.member[a] # "ACTIVE" /\ team'.member[a] = "ACTIVE"
       IN  /\ returns => \E i \in Invitation :
                /\ Accepted(i) /\ team.invite[i].to = a
                /\ \A r \in Role :
                     team'.grants[a][r] > 0 <=> r \in team.invite[i].roles
           /\ gained # {} =>
                \/ \E i \in Invitation : Accepted(i) /\ team.invite[i].to = a
                \/ \E c \in Request :
                     /\ Running(c) /\ ~Running(c)'
                     /\ input[c].kind = "save" /\ input[c].who = a]_vars

(* The role form saves a whole set, and the service writes how it differs  *)
(* from its snapshot (saveCompanyMemberRoles): a save that changes         *)
(* anything leaves the member with just the set it names, of the roles in  *)
(* use, and with what an invitation accepted meanwhile gave.  Two saves    *)
(* never mix, and none restores what the other took.                       *)
SavesAreWhole ==
  [][\A c \in Request :
       LET q == input[c]
           givenSince(r) == \E i \in Invitation :
             /\ team.invite[i].status = "ACCEPTED" /\ team.invite[i].to = q.who
             /\ view[c].team.invite[i].status # "ACCEPTED"
             /\ r \in team.invite[i].roles
       IN  Running(c) /\ ~Running(c)' /\ q.kind = "save"
             /\ team'.grants # team.grants =>
           \A r \in view[c].roles :
             /\ r \in q.roles => team'.grants[q.who][r] > 0
             /\ team'.grants[q.who][r] > 0 => r \in q.roles \/ givenSince(r)]_vars

(* "Send only after commit; SMTP must not be repeated by transaction       *)
(* retries": a mail announces an invitation that exists, and only once.    *)
MailsAnnounceInvitations ==
  \A c \in Request :
    mails[c] <= IF team.invite[c].status = "NONE" THEN 0 ELSE 1

(* Every attempt authorises anew, on its own snapshot: whoever has lost    *)
(* what the request rests on before an attempt begins gets nothing by it.  *)
(* Of runs in which nobody regains it.                                     *)
Authorised(c) ==
  LET q == input[c]
      inv == team.invite[q.on]
  IN  /\ q.by \in active /\ company
      /\ q.kind \in {"save", "send", "revoke"} => Manages(Now, q.by)
      /\ q.kind = "accept" /\ inv.status = "OPEN" => Manages(Now, inv.by)

AuthorityIsCurrent ==
  \A c \in Request :
    [](pc[c] = "begin" /\ ~Authorised(c) => []~(reply[c] \in Success))

(* Retries are bounded: every request is answered.                         *)
RequestsSettle ==
  \A c \in Request : pc[c] = "begin" ~> pc[c] = "done"

=============================================================================
