---------------------------- MODULE CompanySetup ----------------------------
(***************************************************************************)
(* The pages and the request that make a company (onboarding-service.ts,   *)
(* the route and the page in front of it), and what operators and the      *)
(* clock do to accounts, sessions and companies meanwhile.                 *)
(*                                                                         *)
(*   session  the request is in; its session is looked up                  *)
(*   row      the account's row is to be locked                            *)
(*   choose   locked: is there a company already?                          *)
(*   write    the company is created and committed                         *)
(***************************************************************************)
EXTENDS AccountState

CompanySetupCode ==
  {"invalid_name", "setup_expired", "session_required", "identity_mismatch",
   "workspace_unavailable", "owner_unavailable", "unexpected"}

(* The page that shows the form.                                           *)
SetupPage(cookies) ==
  LET a == session[cookies.session].account
      s == session[cookies.session].subject
  IN  IF ~Usable(cookies.session) THEN "/sign-in"
      ELSE IF Member(a) THEN "/company"
      ELSE IF SetupMatches(ReadSetup(cookies.setup), a, s) THEN "form"
      ELSE "restart"

PendingCompanySetup(cookies) ==
  LET held == session[cookies.session]
  IN  /\ SetupMatches(ReadSetup(cookies.setup), held.account, held.subject)
      /\ ~Member(held.account)

(* The person's page, where a sign-in lands, leads back to the setup.      *)
PersonPage(cookies) ==
  IF ~Usable(cookies.session) THEN "/sign-in"
  ELSE IF PendingCompanySetup(cookies) THEN "/onboarding/company" ELSE "signedin"

Visit(t) ==
  LET cookies == jar[plan[t].browser]
  IN  /\ Ready(t, {"page", "setup page"})
      /\ Done(t, IF plan[t].kind = "page" THEN PersonPage(cookies) ELSE SetupPage(cookies))
      /\ UNCHANGED <<plan, seen, jar, rows, clock>>

(* POST onboarding/company                                                 *)
AskForCompany(t) ==
  LET cookies == jar[plan[t].browser]
      error == IF cookies.session = None THEN "session_required"
               ELSE IF plan[t].choice = "blank" THEN "invalid_name" ELSE "none"
  IN  /\ Ready(t, {"company"})
      /\ IF error # "none" THEN Done(t, error) /\ UNCHANGED seen
         ELSE /\ Go(t, "session")
              /\ seen' = [seen EXCEPT ![t].session = cookies.session,
                   ![t].setup = IF plan[t].choice = "forgotten" THEN None
                                ELSE ReadSetup(cookies.setup)]
      /\ UNCHANGED <<plan, jar, rows, clock>>

Refuse(t, code) == Done(t, code) /\ UNCHANGED <<plan, seen, jar, rows, clock>>

(* A success clears the setup cookie, unless it does not arrive.           *)
Succeed(t) ==
  /\ Done(t, "/company")
  /\ SetCookies(t, [jar[plan[t].browser] EXCEPT !.setup = None])

FindSession(t) ==
  LET token == seen[t].session
  IN  /\ pc[t] = "session"
      /\ IF session[token] = None THEN Refuse(t, "session_required")
         ELSE /\ Go(t, "row")
              /\ seen' = [seen EXCEPT ![t].account = session[token].account]
              /\ UNCHANGED <<plan, jar, rows, clock>>

(* Defect: whoever is signed in may use the setup.                         *)
AnyIdentity(setup, a, s) == TRUE

SameIdentity(setup, a, s) == setup = None \/ SetupMatches(setup, a, s)

(* SELECT FOR UPDATE; everything is read again under the lock.             *)
LockAccount(t) ==
  LET token == seen[t].session
  IN  /\ pc[t] = "row" /\ ~RowLocked(seen[t].account)
      /\ IF ~Usable(token) THEN Refuse(t, "session_required")
         ELSE IF ~SameIdentity(seen[t].setup, session[token].account,
                               session[token].subject)
         THEN Refuse(t, "identity_mismatch")
         ELSE Go(t, "choose") /\ UNCHANGED <<plan, seen, jar, rows, clock>>

(* The nonce of the flow is the company's id.                              *)
CompanyId(t) == seen[t].setup.nonce

(* Defect: what the setup has made before is not looked up.                *)
NoPrevious(t) == [status |-> "NONE"]

Previous(t) == company[CompanyId(t)]

ChooseWorkspace(t) ==
  LET a == seen[t].account
      setup == ReadSetup(seen[t].setup)
      before == Previous(t)
      answer ==
        IF setup = None
        THEN IF Member(a) THEN "/company" ELSE "setup_expired"
        ELSE IF before.status # "NONE"
        THEN IF before.status = "ACTIVE" /\ before.founder = a /\ before.member
             THEN "/company" ELSE "workspace_unavailable"
        ELSE IF Member(a) THEN "/company"
        ELSE IF ~owner THEN "owner_unavailable" ELSE "none"
  IN  /\ pc[t] = "choose"
      /\ IF answer = "none" THEN Go(t, "write") /\ UNCHANGED <<plan, seen, jar, rows, clock>>
         ELSE IF answer # "/company" THEN Refuse(t, answer)
         ELSE Succeed(t) /\ UNCHANGED <<plan, seen, rows, clock>>

(* Company, member, grant and events are committed together or not at all; *)
(* an id that is taken fails the insert.                                   *)
WriteWorkspace(t) ==
  /\ pc[t] = "write"
  /\ IF plan[t].fault = "database" \/ company[CompanyId(t)].status # "NONE"
     THEN Refuse(t, "unexpected")
     ELSE /\ company' = [company EXCEPT ![CompanyId(t)] =
               [status |-> "ACTIVE", founder |-> seen[t].account, member |-> TRUE,
                flow |-> CompanyId(t)]]
          /\ Succeed(t)
          /\ UNCHANGED <<plan, seen, account, identity, session, works, owner, clock>>

----------------------------------------------------------------------------
(* bootstrap-accounts.ts; a subject or an address that is taken is left.   *)
Provision(t) ==
  LET s == plan[t].who
      free == identity[s] = None /\ ~Registered(Email[s])
  IN  /\ Ready(t, {"provision"})
      /\ Done(t, IF free THEN "created" ELSE "kept")
      /\ IF free THEN Create(t, s) ELSE UNCHANGED <<account, identity>>
      /\ UNCHANGED <<plan, seen, jar, session, company, works, owner, clock>>

RevokeAccountSessions(a) ==
  session' = [u \in Task |->
    IF session[u] # None /\ session[u].account = a THEN None ELSE session[u]]

(* revoke-sessions.ts, by an operator who may.                             *)
RevokeSessions(t) ==
  /\ Ready(t, {"revoke"})
  /\ Done(t, "revoked")
  /\ RevokeAccountSessions(AccountOf(plan[t].who))
  /\ UNCHANGED <<plan, seen, jar, account, identity, company, works, owner, clock>>

(* An update of a row waits for its lock.                                  *)
SetStatus(t) ==
  LET a == AccountOf(plan[t].who)
  IN  /\ Ready(t, {"suspend", "restore"})
      /\ a # None => ~RowLocked(a)
      /\ Done(t, plan[t].kind)
      /\ account' = [b \in Task |->
           IF b # a THEN account[b]
           ELSE [account[b] EXCEPT !.status =
                   IF plan[t].kind = "suspend" THEN "SUSPENDED" ELSE "ACTIVE"]]
      /\ UNCHANGED <<plan, seen, jar, identity, session, company, works, owner, clock>>

(* The founder loses the membership, joins others, or the company closes;  *)
(* the OWNER role is changed and changed back.                             *)
ChangeCompanies(t) ==
  LET a == AccountOf(plan[t].who)
      founded(c) == a # None /\ company[c].founder = a
  IN  /\ Ready(t, {"leave", "close", "hire", "retire", "approve"})
      /\ Done(t, plan[t].kind)
      /\ company' = [c \in Task |->
           IF founded(c) /\ plan[t].kind = "leave"
           THEN [company[c] EXCEPT !.member = FALSE]
           ELSE IF founded(c) /\ plan[t].kind = "close"
           THEN [company[c] EXCEPT !.status = "CLOSED"] ELSE company[c]]
      /\ works' = IF plan[t].kind = "hire" THEN works \cup ({a} \ {None}) ELSE works
      /\ owner' = CASE plan[t].kind = "retire" -> FALSE
                    [] plan[t].kind = "approve" -> TRUE
                    [] OTHER -> owner
      /\ UNCHANGED <<plan, seen, jar, account, identity, session, clock>>

(* Deadlines pass; cookies expire, are lost, or are spoiled.               *)
PassTime(t) ==
  LET b == plan[t].browser
      flow == IF b = None THEN None ELSE jar[b].flow
  IN  /\ Ready(t, {"session ends", "setup ends", "flow ends", "flow spoils", "flow swaps",
                   "minute passes", "crowd"})
      /\ Done(t, plan[t].kind)
      /\ over' = IF plan[t].kind = "session ends"
                 THEN over \cup {u \in Task : session[u] # None} ELSE over
      /\ late' = IF plan[t].kind = "setup ends" /\ jar[b].setup # None
                 THEN late \cup {jar[b].setup.nonce} ELSE late
      /\ jar' = IF flow = None THEN jar
                ELSE CASE plan[t].kind = "flow ends" -> [jar EXCEPT ![b].flow = None]
                       [] plan[t].kind = "flow spoils" -> [jar EXCEPT ![b].flow.sound = FALSE]
                       [] plan[t].kind = "flow swaps" -> [jar EXCEPT ![b].flow.of = t]
                       [] OTHER -> jar
      /\ starts' = CASE plan[t].kind = "minute passes" -> 0
                     [] plan[t].kind = "crowd" -> RateLimit
                     [] OTHER -> starts
      /\ UNCHANGED <<plan, seen, rows>>

SetupStep(t) ==
  \/ Visit(t) \/ AskForCompany(t)
  \/ FindSession(t) \/ LockAccount(t) \/ ChooseWorkspace(t) \/ WriteWorkspace(t)

Operate(t) ==
  \/ Provision(t) \/ RevokeSessions(t) \/ SetStatus(t)
  \/ ChangeCompanies(t) \/ PassTime(t)

=============================================================================
