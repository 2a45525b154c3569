------------------------------ MODULE Accounts ------------------------------
(***************************************************************************)
(* Signing in, company setup, operators and the clock over one database,   *)
(* with what must hold of accounts, sessions and the companies they make.  *)
(***************************************************************************)
EXTENDS SignIn, CompanySetup

Kind ==
  {"signin", "signout", "refresh", "page", "setup page", "company", "provision",
   "suspend", "restore", "revoke", "leave", "close", "hire", "retire", "approve",
   "session ends", "setup ends", "flow ends", "flow spoils", "flow swaps",
   "minute passes", "crowd"}

StepOfPlan ==
  [kind : Kind, browser : Browser \cup {None}, who : Subjects,
   choice : Choice \cup {"blank", "forgotten"},
   verified : BOOLEAN, fault : {"none", "lost", "database"},
   after : SUBSET Nat, amid : SUBSET Nat, expect : STRING]

(* What a browser asks for, or what happens to its cookies.                *)
OfBrowser ==
  {"signin", "signout", "refresh", "page", "setup page", "company", "setup ends",
   "flow ends", "flow spoils", "flow swaps"}

ASSUME PlansTyped ==
  \A p \in Plans :
    /\ p \in Seq(StepOfPlan)
    /\ \A t \in DOMAIN p :
         /\ p[t].after \cup p[t].amid \subseteq 1 .. (t - 1)
         /\ p[t].kind \in OfBrowser => p[t].browser \in Browser
         /\ p[t].kind \in {"signin", "provision"} => p[t].who \in Subject
         /\ p[t].kind = "signin" => p[t].choice \in Choice

ASSUME EmailsTyped ==
  /\ Subject # {} /\ None \notin Nat /\ RateLimit \in Nat
  /\ Email \in [Subject -> [address : Addresses, upper : BOOLEAN]]

Destination == {"/person", "/company", "/onboarding/company", "/sign-in"}

Reply ==
  AuthFailure \cup CompanySetupCode \cup Destination \cup Kind
  \cup {"none", "429", "form", "restart", "signin", "signedin", "signedout",
        "unavailable", "created", "kept", "revoked"}

TypeOK ==
  /\ plan \in Plans
  /\ pc \in [Task -> {"wait", "idp", "subject", "address", "enrol", "user", "check",
                      "insert", "land", "answer", "update", "session", "row",
                      "choose", "write", "done"}]
  /\ seen \in [Task -> [flow : Flow \cup {None}, setup : CompanySetupState \cup {None},
                        session : Task \cup {None}, account : Task \cup {None}]]
  /\ jar \in [Browser -> Jar]
  /\ account \in [Task -> [status : {"NONE", "ACTIVE", "SUSPENDED"},
                           email : [address : Addresses, upper : BOOLEAN]]]
  /\ identity \in [Subject -> Task \cup {None}]
  /\ session \in [Task -> [account : Task, subject : Subject] \cup {None}]
  /\ company \in [Task -> [status : {"NONE", "ACTIVE", "CLOSED"}, member : BOOLEAN,
                           founder : Task \cup {None}, flow : Task \cup {None}]]
  /\ works \subseteq Task /\ owner \in BOOLEAN
  /\ reply \in [Task -> Reply]
  /\ over \subseteq Task /\ late \subseteq Task /\ starts \in Nat

Init ==
  /\ plan \in Plans
  /\ pc = [t \in Task |-> "wait"]
  /\ seen = [t \in Task |-> Nothing]
  /\ reply = [t \in Task |-> "none"]
  /\ jar = [b \in Browser |->
       [state |-> None, session |-> None, flow |-> None, setup |-> None]]
  /\ account = [t \in Task |->
       [status |-> "NONE", email |-> [address |-> CHOOSE a \in Addresses : TRUE,
                                      upper |-> FALSE]]]
  /\ identity = [s \in Subject |-> None]
  /\ session = [t \in Task |-> None]
  /\ company = [t \in Task |-> [status |-> "NONE", founder |-> None,
                                member |-> FALSE, flow |-> None]]
  /\ works = {} /\ owner = TRUE
  /\ over = {} /\ late = {} /\ starts = 0

Step(t) == SignInStep(t) \/ SetupStep(t) \/ Operate(t)

(* The plan is carried out.                                                *)
Stop == (\A t \in Task : pc[t] = "done") /\ UNCHANGED vars

Next == (\E t \in Task : Step(t)) \/ Stop

Spec == Init /\ [][Next]_vars

AnyTask == UNION {DOMAIN p : p \in Plans}

(* Browsers send their requests, the provider and the server answer.       *)
FairSpec ==
  Spec /\ \A t \in AnyTask : WF_vars(t \in Task /\ Step(t))

----------------------------------------------------------------------------
(* resolveOnboardingIdentity: however many callbacks of subjects with one  *)
(* address, in whatever case, arrive together and beside an operator's     *)
(* provisioning, there is one account for it, and it belongs to one subject. *)
OneAccountPerAddress ==
  /\ \A a, b \in Task :
       account[a].status # "NONE" /\ account[b].status # "NONE"
         /\ account[a].email.address = account[b].email.address => a = b
  /\ \A a \in Task : account[a].status # "NONE" =>
       Cardinality({s \in Subject : identity[s] = a}) = 1

(* The companies that a setup has made.                                    *)
MadeBy(setup) ==
  {c \in Task : setup # None /\ company[c].status # "NONE"
                /\ company[c].flow = setup.nonce}

(* "even a replay after membership removal cannot recreate it"             *)
(* (completeCompanyOnboarding): a request whose setup has made a company   *)
(* makes none and changes none, whoever left, closed or joined what        *)
(* meanwhile.  While the setup is valid it leads into that company or      *)
(* fails; membership elsewhere does not stand in for the one that is gone. *)
SpentSetupsMakeNothing ==
  [][\A t \in Task :
       LET made == MadeBy(seen[t].setup)
       IN  pc[t] \in {"choose", "write"} /\ pc'[t] # pc[t] /\ made # {} =>
             /\ company' = company
             /\ reply'[t] = "/company" /\ ReadSetup(seen[t].setup) # None =>
                  made \subseteq Founded(seen[t].account)]_vars

(* "another login/tab never creates another initial company": setups that  *)
(* are completed at the same time leave an account with one company.       *)
OneInitialCompany == \A a \in Task : Cardinality(Founded(a)) <= 1

(* The company goes to the subject whose sign-in began the setup, whoever  *)
(* is signed in at that browser when the form is sent.                     *)
CompanyBelongsToWhoAsked ==
  \A c \in Task : company[c].status # "NONE" =>
    company[c].founder = identity[plan[company[c].flow].who]

(* "do not report success if revocation failed" (handleAuthentication): a  *)
(* browser that was sent to the provider's logout left no session behind,  *)
(* whatever other tabs did.                                                *)
SignedOutMeansGone ==
  \A t \in Task :
    plan[t].kind = "signout" /\ reply[t] = "signedout" /\ seen[t].session # None =>
      session[seen[t].session] = None

Alive(t) == session[t] # None /\ t \notin over

(* "a refreshed cookie must never extend the database deadline"            *)
(* (updateSession): a session that was signed out, revoked or is past its  *)
(* deadline never works again, though requests that had resolved it go on. *)
EndedSessionsStayEnded ==
  [][\A t \in Task :
       pc[t] \in {"land", "done"} /\ ~Alive(t) => ~Alive(t)']_vars

(* The account is suspended, createSession is not past its check, and      *)
(* nobody restores the account.                                            *)
ShutOut(t) ==
  /\ pc[t] \in {"idp", "subject", "address", "enrol", "user", "check"}
  /\ AccountOf(plan[t].who) # None /\ ~Active(AccountOf(plan[t].who))
  /\ \A u \in Task : plan[u].kind # "restore"

(* createSession asks once more: an account that is suspended by then gets *)
(* no session out of a sign-in that was let in before.                     *)
SuspensionShutsOut ==
  \A t \in AnyTask : [](t \in Task /\ ShutOut(t) => [](t \in Task => session[t] = None))

(* "Choose Person or Company to finish setting up your account"            *)
(* (auth-errors.ts): signing in without a choice makes no account.         *)
AccountsNeedAChoice ==
  \A a \in Task : account[a].status # "NONE" /\ plan[a].kind = "signin" =>
    plan[a].choice # "NONE"

(* What the repository's own tests expect of each request.                 *)
AnswersAsTested ==
  \A t \in Task : pc[t] = "done" /\ plan[t].expect # "any" =>
    reply[t] = plan[t].expect

(* Advisory locks, row locks and lost responses: every request ends.       *)
RequestsEnd ==
  \A t \in AnyTask :
    (t \in Task /\ pc[t] # "wait") ~> (t \in Task => pc[t] = "done")

=============================================================================
