-------------------------- MODULE CompanyServices --------------------------
(***************************************************************************)
(* The pages, routes and services of one company that share a database     *)
(* beside the team's (TeamAccess): employment invitations and document     *)
(* definitions, with the operators, browsers and the clock around them.    *)
(***************************************************************************)
EXTENDS EmploymentInvitations, RecordDefinitions

CONSTANTS
  Kinds,      \* what each request may be
  Databases   \* what the tables hold at first

Database ==
  [invite : [Invitation -> Invite], relation : [Relation -> Employment],
   persons : SUBSET Account, active : SUBSET Account,
   managers : SUBSET Account, settings : SUBSET Account,
   governs : SUBSET Account, company : BOOLEAN, expired : SUBSET Invitation,
   definition : [Definition -> Row], roles : SUBSET Role]

Error == {"denied", "unavailable", "conflict", "invalid_policy", "invalid_roles"}

Success == {"created", "undelivered", "existing", "accepted", "decline",
            "revoke", "saved", "activate", "deactivate", "installed"}

ServiceItem == EmploymentItem \cup DefinitionItem

Entry == [since : Nat, reads : SUBSET ServiceItem, writes : SUBSET ServiceItem,
          rows : SUBSET ServiceItem]

ASSUME KnownStart ==
  /\ Attempts \in Nat \ {0}
  /\ Databases \subseteq Database
  /\ \A start \in Databases :
       /\ start.expired = {}
       /\ \A i \in Invitation :
            /\ start.invite[i].rel = None
            /\ start.invite[i].status = IF i \in Existing THEN "OPEN" ELSE "NONE"
       /\ \A i, j \in Existing : start.invite[i].to = start.invite[j].to => i = j
       /\ \A r \in Request : start.relation[r].status = "NONE"
       /\ \A r, s \in Former :
            start.relation[r].of = start.relation[s].of => r = s

TypeOK ==
  /\ pc \in [Request -> {"idle", "form", "begin", "run", "mail", "done"}]
  /\ actor \in [Request -> Account \cup {None}]
  /\ attempt \in [Request -> 0 .. Attempts]
  /\ view \in [Request -> Database \cup {None}]
  /\ since \in [Request -> Nat]
  /\ reply \in [Request -> {"none", "failed", "forbidden"} \cup Error \cup Success]
  /\ log \in Seq(Entry)
  /\ db \in Database

Init ==
  /\ pc = [c \in Request |-> "idle"]
  /\ input = [c \in Request |-> None]
  /\ actor = [c \in Request |-> None]
  /\ attempt = [c \in Request |-> 0]
  /\ view = [c \in Request |-> None]
  /\ since = [c \in Request |-> 0]
  /\ reply = [c \in Request |-> "none"]
  /\ log = <<>>
  /\ db \in Databases

Ask(c) ==
  \/ \E choice \in AddPerson \cup InvitationActions \cup DefinitionForms :
       choice.kind \in Kinds[c] /\ Load(c, "form", choice)
  \/ "install" \in Kinds[c] /\ Load(c, "begin", [kind |-> "install"])

(* definitions report a conflict when they give up, invitations an error,  *)
(* and the installer does not try again.                                   *)
Retry(c) ==
  /\ Running(c) /\ input[c].kind # "install"
  /\ Refused(c, IF input[c].kind \in Changes THEN "conflict" ELSE "failed")

Serve(c) ==
  \/ Submit(c) \/ Begin(c)
  \/ SendInvitation(c) \/ MailInvitation(c) \/ AnswerInvitation(c)
  \/ Define(c) \/ Duplicate(c) \/ InstallPack(c)
  \/ Retry(c) \/ Fail(c)

(* Authority that is lost; what comes back only lets through what was      *)
(* refused meanwhile.                                                      *)
LoseAuthority ==
  /\ \/ \E a \in Account : db' = [db EXCEPT !.active = @ \ {a}]
     \/ \E a \in Account : db' = [db EXCEPT !.managers = @ \ {a}]
     \/ \E a \in Account : db' = [db EXCEPT !.settings = @ \ {a},
                                            !.governs = @ \ {a}]
  /\ db' # db
  /\ UNCHANGED <<own, log>>

SuspendCompany ==
  /\ db.company
  /\ db' = [db EXCEPT !.company = FALSE]
  /\ UNCHANGED <<own, log>>

RetireRole ==
  \E r \in db.roles :
    db' = [db EXCEPT !.roles = @ \ {r}] /\ UNCHANGED <<own, log>>

Operate ==
  \/ "clock" \in Outside /\ \E i \in Invitation : ExpireInvitation(i)
  \/ "employment" \in Outside /\ \E r \in Relation : EndEmployment(r)
  \/ "authority" \in Outside /\ LoseAuthority
  \/ "company" \in Outside /\ SuspendCompany
  \/ "role" \in Outside /\ RetireRole

Stop == (\A c \in Request : pc[c] \in {"idle", "done"}) /\ UNCHANGED vars

Next ==
  \/ \E c \in Request : Ask(c) \/ Serve(c)
  \/ Operate
  \/ Stop

Spec == Init /\ [][Next]_vars

----------------------------------------------------------------------------
(* Whoever loaded the page may, as the tables are.                         *)
Authorised(c) ==
  LET q == input[c]
      a == q.by
  IN  IF q.kind \in Changes THEN MayDefine(db, a, q.on)
      ELSE IF q.kind \in {"send", "revoke"} THEN ManagesPeople(db, a)
      ELSE a \in db.active /\ db.company

(* Whoever loaded the page, and rests on something that is gone before an  *)
(* attempt begins, gets nothing by it: not through a page that still shows *)
(* the button, nor through the session of somebody else who signed in.     *)
AuthorityIsCurrent ==
  \A c \in Request :
    [](pc[c] = "begin" /\ input[c].kind # "install" /\ ~Authorised(c) =>
         []~(reply[c] \in Success))

=============================================================================
