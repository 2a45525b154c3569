---------------------------- MODULE AccountsProofs ----------------------------
(***************************************************************************)
(* An address has one account, a setup makes one company and it belongs to *)
(* whoever asked, a session that ended never works again and a suspended   *)
(* account gets none, for every plan of requests, operators and deadlines. *)
(*                                                                         *)
(* The argument goes in layers, each resting on those before: the types    *)
(* and what each request knows at each step; the accounts; the sessions;   *)
(* the setups; and the companies.                                          *)
(***************************************************************************)
EXTENDS Accounts, FiniteSetTheorems, TLAPS

----------------------------------------------------------------------------
(* Types.                                                                  *)

Steps == {"wait", "idp", "subject", "address", "enrol", "user", "check", "insert",
          "land", "answer", "update", "session", "row", "choose", "write", "done"}

SignInSteps == {"idp", "subject", "address", "enrol", "user", "check", "insert", "land"}

SetupSteps == {"session", "row", "choose", "write"}

Known == [flow : Flow \cup {None}, setup : CompanySetupState \cup {None},
          session : Task \cup {None}, account : Task \cup {None}]

AccountRow == [status : {"NONE", "ACTIVE", "SUSPENDED"},
               email : [address : Addresses, upper : BOOLEAN]]

SessionRow == [account : Task, subject : Subject]

CompanyRow == [status : {"NONE", "ACTIVE", "CLOSED"}, member : BOOLEAN,
               founder : Task \cup {None}, flow : Task \cup {None}]

(* Which requests are at which steps, and what they have found by then.    *)
StepsKnow ==
  \A t \in Task :
    /\ pc[t] \in SignInSteps => plan[t].kind = "signin"
    /\ pc[t] = "answer" => plan[t].kind = "signout"
    /\ pc[t] = "update" => plan[t].kind = "refresh"
    /\ pc[t] \in SetupSteps => plan[t].kind = "company"
    /\ pc[t] \in {"enrol", "user", "check", "insert", "land"} => seen[t].account # None
    /\ pc[t] \in {"session", "row", "choose", "write", "update"} => seen[t].session # None
    /\ pc[t] = "write" => seen[t].setup # None

Typed == TypeOK /\ StepsKnow

LEMMA TypesAre ==
  TypeOK <=>
    /\ plan \in Plans /\ pc \in [Task -> Steps] /\ seen \in [Task -> Known]
    /\ jar \in [Browser -> Jar] /\ account \in [Task -> AccountRow]
    /\ identity \in [Subject -> Task \cup {None}]
    /\ session \in [Task -> SessionRow \cup {None}]
    /\ company \in [Task -> CompanyRow]
    /\ works \subseteq Task /\ owner \in BOOLEAN /\ reply \in [Task -> Reply]
    /\ over \subseteq Task /\ late \subseteq Task /\ starts \in Nat
BY DEF TypeOK, Steps, Known, AccountRow, SessionRow, CompanyRow

(* What a plan says of each of its steps.                                  *)
LEMMA PlanFacts ==
  ASSUME TypeOK, NEW t \in Task
  PROVE  /\ plan[t].kind \in Kind /\ t \in Nat /\ t # None
         /\ plan[t].kind \in OfBrowser => plan[t].browser \in Browser
         /\ plan[t].kind \in {"signin", "provision"} => plan[t].who \in Subject
         /\ plan[t].who \in Subjects
         /\ plan[t].kind = "signin" => plan[t].choice \in Choice
<1>1. plan \in Plans /\ plan \in Seq(StepOfPlan) /\ t \in DOMAIN plan
  BY PlansTyped DEF TypeOK, Task
<1>2. plan[t] \in StepOfPlan /\ t \in Nat
  BY <1>1
<1> QED
  BY <1>1, <1>2, PlansTyped, EmailsTyped DEF StepOfPlan

(* The tasks stay those of the plan.                                       *)
LEMMA PlanStays ==
  ASSUME TypeOK, NEW t \in Task, Step(t)
  PROVE  plan' = plan
BY DEF Step, SignInStep, SetupStep, Operate, BeginSignIn, Callback, LookUpSubject,
       LookUpAddress, Enrol, FindUser, CheckAccount, InsertSession, Land, SignOut,
       AnswerSignOut, GetSession, UpdateSession, Visit, AskForCompany, FindSession,
       LockAccount, ChooseWorkspace, WriteWorkspace, Provision, RevokeSessions,
       SetStatus, ChangeCompanies, PassTime, Deny, Refuse

(* A request goes on to a step, or ends with an answer.                    *)
Moves(t, step, know, answer) ==
  /\ pc' = [pc EXCEPT ![t] = step]
  /\ seen' = [seen EXCEPT ![t] = know]
  /\ reply' = [reply EXCEPT ![t] = answer]

(* What a request may know when it is at a step.                           *)
Fits(t, step, know) ==
  /\ step \in Steps /\ know \in Known
  /\ step \in SignInSteps => plan[t].kind = "signin"
  /\ step = "answer" => plan[t].kind = "signout"
  /\ step = "update" => plan[t].kind = "refresh"
  /\ step \in SetupSteps => plan[t].kind = "company"
  /\ step \in {"enrol", "user", "check", "insert", "land"} => know.account # None
  /\ step \in {"session", "row", "choose", "write", "update"} => know.session # None
  /\ step = "write" => know.setup # None

LEMMA MoveTyped ==
  ASSUME Typed, NEW t \in Task, NEW step, NEW know, NEW answer \in Reply,
         Fits(t, step, know), Moves(t, step, know, answer), UNCHANGED plan
  PROVE  /\ pc' \in [Task -> Steps] /\ seen' \in [Task -> Known]
         /\ reply' \in [Task -> Reply] /\ StepsKnow'
<1>1. pc' \in [Task -> Steps] /\ seen' \in [Task -> Known] /\ reply' \in [Task -> Reply]
  BY TypesAre DEF Typed, Fits, Moves
<1>2. pc'[t] = step /\ seen'[t] = know
      /\ \A u \in Task \ {t} : pc'[u] = pc[u] /\ seen'[u] = seen[u]
  BY TypesAre DEF Typed, Moves
<1>3. Task' = Task
  BY DEF Task
<1>4. StepsKnow'
  BY <1>2, <1>3 DEF Typed, StepsKnow, Fits
<1> QED  BY <1>1, <1>4

(* The types of the tables and cookies.                                    *)
LEMMA TablesTyped ==
  ASSUME Typed, UNCHANGED plan, NEW t \in Task, NEW step, NEW know, NEW answer \in Reply,
         Fits(t, step, know), Moves(t, step, know, answer),
         jar' \in [Browser -> Jar], account' \in [Task -> AccountRow],
         identity' \in [Subject -> Task \cup {None}],
         session' \in [Task -> SessionRow \cup {None}], company' \in [Task -> CompanyRow],
         works' \subseteq Task, owner' \in BOOLEAN,
         over' \subseteq Task, late' \subseteq Task, starts' \in Nat
  PROVE  Typed'
<1>1. /\ pc' \in [Task -> Steps] /\ seen' \in [Task -> Known]
      /\ reply' \in [Task -> Reply] /\ StepsKnow'
  BY MoveTyped
<1>2. Task' = Task /\ plan' \in Plans
  BY DEF Task, Typed, TypeOK
<1>3. /\ Known' = Known /\ Jar' = Jar /\ SessionRow' = SessionRow
      /\ CompanyRow' = CompanyRow
  BY <1>2 DEF Known, Jar, SessionRow, CompanyRow, Flow, CompanySetupState
<1>4. TypeOK'
  BY <1>1, <1>2, <1>3 DEF TypeOK, Steps, Known, AccountRow, SessionRow, CompanyRow
<1> QED  BY <1>1, <1>4 DEF Typed

(* A step that leaves the tables alone.                                    *)
LEMMA QuietTyped ==
  ASSUME Typed, NEW t \in Task, NEW step, NEW know, NEW answer \in Reply,
         Fits(t, step, know), Moves(t, step, know, answer),
         jar' \in [Browser -> Jar], UNCHANGED <<plan, rows, over, late>>, starts' \in Nat
  PROVE  Typed'
<1>1. /\ account \in [Task -> AccountRow] /\ identity \in [Subject -> Task \cup {None}]
      /\ session \in [Task -> SessionRow \cup {None}] /\ company \in [Task -> CompanyRow]
      /\ works \subseteq Task /\ owner \in BOOLEAN
      /\ over \subseteq Task /\ late \subseteq Task
  BY TypesAre DEF Typed
<1>2. UNCHANGED <<plan, account, identity, session, company, works, owner, over, late>>
  BY DEF rows
<1> QED  BY <1>1, <1>2, TablesTyped

(* Where a request is and what it knows.                                   *)
LEMMA Now ==
  ASSUME Typed, NEW t \in Task
  PROVE  /\ pc[t] \in Steps /\ seen[t] \in Known /\ reply[t] \in Reply
         /\ \A b \in Browser : jar[b] \in Jar
         /\ starts \in Nat
BY TypesAre DEF Typed

LEMMA GoMoves ==
  ASSUME Typed, NEW t \in Task, NEW step, NEW know, Go(t, step),
         seen' = [seen EXCEPT ![t] = know]
  PROVE  Moves(t, step, know, reply[t])
<1>1. [reply EXCEPT ![t] = reply[t]] = reply
  BY TypesAre DEF Typed
<1> QED  BY <1>1 DEF Go, Moves

LEMMA DoneMoves ==
  ASSUME Typed, NEW t \in Task, NEW answer, Done(t, answer), UNCHANGED seen
  PROVE  Moves(t, "done", seen[t], answer) /\ Fits(t, "done", seen[t])
<1>1. [seen EXCEPT ![t] = seen[t]] = seen
  BY TypesAre DEF Typed
<1>2. Moves(t, "done", seen[t], answer)
  BY <1>1 DEF Done, Moves
<1>3. Fits(t, "done", seen[t])
  BY Now DEF Fits, Steps, SignInSteps, SetupSteps
<1> QED  BY <1>2, <1>3

LEMMA CookiesTyped ==
  ASSUME Typed, NEW t \in Task, NEW cookies \in Jar, plan[t].browser \in Browser,
         SetCookies(t, cookies)
  PROVE  jar' \in [Browser -> Jar]
BY TypesAre DEF Typed, SetCookies

LEMMA DenyTyped ==
  ASSUME Typed, NEW t \in Task, plan[t].kind = "signin", NEW code \in AuthFailure,
         Deny(t, code)
  PROVE  Typed' /\ Moves(t, "done", seen[t], code)
<1>1. Moves(t, "done", seen[t], code) /\ Fits(t, "done", seen[t]) /\ code \in Reply
  BY DoneMoves DEF Deny, Reply
<1>2. plan[t].browser \in Browser
  BY PlanFacts DEF Typed, OfBrowser
<1>3. [jar[plan[t].browser] EXCEPT !.flow = None] \in Jar
  BY <1>2, Now DEF Jar
<1>4. jar' \in [Browser -> Jar]
  BY <1>2, <1>3, CookiesTyped DEF Deny
<1>5. UNCHANGED <<plan, rows, over, late>> /\ starts' \in Nat
  BY Now DEF Deny, clock
<1> QED  BY <1>1, <1>4, <1>5, QuietTyped

(* Steps that leave tables and cookies alone.                              *)
LEMMA StillTyped ==
  ASSUME Typed, NEW t \in Task, NEW step, NEW know, Go(t, step),
         seen' = [seen EXCEPT ![t] = know] \/ (UNCHANGED seen /\ know = seen[t]),
         Fits(t, step, know), UNCHANGED <<plan, jar, rows, clock>>
  PROVE  Typed' /\ Moves(t, step, know, reply[t])
<1>1. [seen EXCEPT ![t] = seen[t]] = seen
  BY TypesAre DEF Typed
<1>2. Moves(t, step, know, reply[t])
  BY <1>1, GoMoves
<1>3. jar' \in [Browser -> Jar] /\ UNCHANGED <<over, late>> /\ starts' \in Nat
  BY TypesAre DEF Typed, clock
<1> QED  BY <1>2, <1>3, Now, QuietTyped

LEMMA BeginTyped ==
  ASSUME Typed, NEW t \in Task, BeginSignIn(t)
  PROVE  Typed'
<1> DEFINE b == plan[t].browser
           flow == [of |-> t, choice |-> plan[t].choice, sound |-> TRUE]
<1>1. plan[t].kind = "signin"
  BY DEF BeginSignIn, Ready
<1>2. b \in Browser /\ flow \in Flow
  BY <1>1, PlanFacts DEF Typed, OfBrowser, Flow
<1>3. starts' \in Nat /\ UNCHANGED <<plan, rows, over, late>> /\ UNCHANGED seen
  BY Now DEF BeginSignIn
<1>4. CASE Done(t, "429") /\ UNCHANGED jar
  BY <1>3, <1>4, DoneMoves, QuietTyped, TypesAre DEF Reply, Typed
<1>5. CASE /\ Go(t, "idp")
           /\ jar' = [jar EXCEPT ![b].state = t, ![b].flow = flow]
  <2>1. [jar[b] EXCEPT !.state = t, !.flow = flow] \in Jar
    <3>1. jar[b] \in Jar
      BY <1>2, Now
    <3> HIDE DEF flow, b
    <3> QED  BY <1>2, <3>1 DEF Jar
  <2>2. jar' \in [Browser -> Jar]
    <3>1. jar' = [jar EXCEPT ![b] = [jar[b] EXCEPT !.state = t, !.flow = flow]]
      BY <1>2, <1>5, TypesAre DEF Typed
    <3> QED  BY <2>1, <3>1, TypesAre DEF Typed
  <2>3. [seen EXCEPT ![t] = seen[t]] = seen
    BY TypesAre DEF Typed
  <2>4. Moves(t, "idp", seen[t], reply[t])
    BY <1>3, <1>5, <2>3, GoMoves
  <2>5. Fits(t, "idp", seen[t])
    BY <1>1, Now DEF Fits, Steps, SignInSteps, SetupSteps
  <2> QED  BY <1>3, <2>2, <2>4, <2>5, Now, QuietTyped
<1> QED  BY <1>4, <1>5 DEF BeginSignIn

LEMMA CallbackTyped ==
  ASSUME Typed, NEW t \in Task, Callback(t)
  PROVE  Typed'
<1> DEFINE cookies == jar[plan[t].browser]
           know == [flow |-> cookies.flow, setup |-> cookies.setup,
                    session |-> cookies.session, account |-> None]
<1>1. plan[t].kind = "signin"
  BY DEF Callback, Typed, StepsKnow, SignInSteps
<1>2. cookies \in Jar
  BY <1>1, PlanFacts, Now DEF Typed, OfBrowser
<1>3. CASE Deny(t, CallbackError(t)) /\ CallbackError(t) # "none"
  BY <1>1, <1>3, DenyTyped DEF CallbackError, AuthFailure
<1>4. CASE /\ Go(t, "subject") /\ seen' = [seen EXCEPT ![t] = know]
           /\ UNCHANGED <<plan, jar, rows, clock>>
  <2>1. know \in Known
    BY <1>2 DEF Jar, Known
  <2>2. Fits(t, "subject", know)
    BY <1>1, <2>1 DEF Fits, Steps, SignInSteps, SetupSteps
  <2> QED  BY <1>4, <2>2, StillTyped
<1> QED  BY <1>3, <1>4 DEF Callback

LEMMA LookUpSubjectTyped ==
  ASSUME Typed, NEW t \in Task, LookUpSubject(t)
  PROVE  Typed'
<1> DEFINE a == identity[plan[t].who]
           know == [seen[t] EXCEPT !.account = a]
           step == IF a = None THEN "address" ELSE "enrol"
<1>1. plan[t].kind = "signin"
  BY DEF LookUpSubject, Typed, StepsKnow, SignInSteps
<1>2. a \in Task \cup {None}
  BY <1>1, PlanFacts, TypesAre DEF Typed
<1>3. CASE Deny(t, "OnboardingRequired")
  BY <1>1, <1>3, DenyTyped DEF AuthFailure
<1>4. CASE /\ Go(t, step) /\ seen' = [seen EXCEPT ![t].account = a]
           /\ UNCHANGED <<plan, jar, rows, clock>>
  <2>1. know \in Known /\ know.account = a
    BY <1>2, Now DEF Known
  <2>2. Fits(t, step, know)
    BY <1>1, <2>1 DEF Fits, Steps, SignInSteps, SetupSteps
  <2>3. seen' = [seen EXCEPT ![t] = know]
    BY <1>4, TypesAre DEF Typed
  <2> HIDE DEF step, know
  <2> QED  BY <1>4, <2>2, <2>3, StillTyped
<1> QED  BY <1>3, <1>4 DEF LookUpSubject

LEMMA LookUpAddressTyped ==
  ASSUME Typed, NEW t \in Task, LookUpAddress(t)
  PROVE  Typed'
<1> DEFINE know == [seen[t] EXCEPT !.account = t]
<1>1. plan[t].kind = "signin"
  BY DEF LookUpAddress, Typed, StepsKnow, SignInSteps
<1>2. CASE Deny(t, "EmailCollision")
  BY <1>1, <1>2, DenyTyped DEF AuthFailure
<1>3. CASE /\ Go(t, "enrol") /\ seen' = [seen EXCEPT ![t].account = t]
           /\ UNCHANGED <<plan, jar, rows, clock>>
  <2>1. know \in Known /\ know.account = t /\ t # None
    BY Now, PlanFacts DEF Known, Typed
  <2>2. Fits(t, "enrol", know)
    BY <1>1, <2>1 DEF Fits, Steps, SignInSteps, SetupSteps
  <2>3. seen' = [seen EXCEPT ![t] = know]
    BY <1>3, TypesAre DEF Typed
  <2> HIDE DEF know
  <2> QED  BY <1>3, <2>2, <2>3, StillTyped
<1> QED  BY <1>2, <1>3 DEF LookUpAddress

LEMMA CreateTyped ==
  ASSUME Typed, NEW t \in Task, NEW s \in Subject, Create(t, s)
  PROVE  account' \in [Task -> AccountRow] /\ identity' \in [Subject -> Task \cup {None}]
<1>1. Email[s] \in [address : Addresses, upper : BOOLEAN]
  BY EmailsTyped
<1>2. Lower(Email[s]) \in [address : Addresses, upper : BOOLEAN]
  BY <1>1 DEF Lower
<1> HIDE DEF Lower
<1>3. [status |-> "ACTIVE", email |-> Lower(Email[s])] \in AccountRow
  BY <1>2 DEF AccountRow
<1> QED  BY <1>3, TypesAre DEF Create, Typed

LEMMA EnrolTyped ==
  ASSUME Typed, NEW t \in Task, Enrol(t)
  PROVE  Typed'
<1> DEFINE s == plan[t].who
<1>1. plan[t].kind = "signin" /\ seen[t].account # None
  BY DEF Enrol, Typed, StepsKnow, SignInSteps
<1>2. s \in Subject /\ Fits(t, "user", seen[t])
  BY <1>1, PlanFacts, Now DEF Typed, Fits, Steps, SignInSteps, SetupSteps
<1>3. ASSUME NEW code \in {"failed", "AccountUnavailable"}, Deny(t, code) PROVE Typed'
  BY <1>1, <1>3, DenyTyped DEF AuthFailure
<1>4. CASE Go(t, "user") /\ UNCHANGED <<plan, seen, jar, rows, clock>>
  BY <1>2, <1>4, StillTyped
<1>5. CASE /\ Create(t, s) /\ Go(t, "user")
           /\ UNCHANGED <<plan, seen, jar, session, company, works, owner, clock>>
  <2>1. [seen EXCEPT ![t] = seen[t]] = seen
    BY TypesAre DEF Typed
  <2>2. Moves(t, "user", seen[t], reply[t])
    BY <1>5, <2>1, GoMoves
  <2>3. /\ account' \in [Task -> AccountRow]
        /\ identity' \in [Subject -> Task \cup {None}]
    BY <1>2, <1>5, CreateTyped
  <2>4. /\ jar' \in [Browser -> Jar] /\ session' \in [Task -> SessionRow \cup {None}]
        /\ company' \in [Task -> CompanyRow] /\ works' \subseteq Task /\ owner' \in BOOLEAN
        /\ over' \subseteq Task /\ late' \subseteq Task /\ starts' \in Nat
    BY <1>5, TypesAre DEF Typed, clock
  <2> QED  BY <1>2, <1>5, <2>2, <2>3, <2>4, Now, TablesTyped
<1> QED  BY <1>3, <1>4, <1>5 DEF Enrol

LEMMA FindUserTyped ==
  ASSUME Typed, NEW t \in Task, FindUser(t)
  PROVE  Typed'
<1> DEFINE step == IF Usable(seen[t].session) THEN "land" ELSE "check"
<1>1. plan[t].kind = "signin" /\ seen[t].account # None
  BY DEF FindUser, Typed, StepsKnow, SignInSteps
<1>2. CASE Deny(t, "failed")
  BY <1>1, <1>2, DenyTyped DEF AuthFailure
<1>3. CASE Go(t, step) /\ UNCHANGED <<plan, seen, jar, rows, clock>>
  <2>1. Fits(t, step, seen[t])
    BY <1>1, Now DEF Fits, Steps, SignInSteps, SetupSteps
  <2> HIDE DEF step
  <2> QED  BY <1>3, <2>1, StillTyped
<1> QED  BY <1>2, <1>3 DEF FindUser

LEMMA CheckTyped ==
  ASSUME Typed, NEW t \in Task, CheckAccount(t)
  PROVE  Typed'
<1>1. plan[t].kind = "signin" /\ seen[t].account # None
  BY DEF CheckAccount, Typed, StepsKnow, SignInSteps
<1>2. CASE Deny(t, "failed")
  BY <1>1, <1>2, DenyTyped DEF AuthFailure
<1>3. CASE Go(t, "insert") /\ UNCHANGED <<plan, seen, jar, rows, clock>>
  <2>1. Fits(t, "insert", seen[t])
    BY <1>1, Now DEF Fits, Steps, SignInSteps, SetupSteps
  <2> QED  BY <1>3, <2>1, StillTyped
<1> QED  BY <1>2, <1>3 DEF CheckAccount

LEMMA InsertTyped ==
  ASSUME Typed, NEW t \in Task, InsertSession(t)
  PROVE  Typed'
<1> DEFINE know == [seen[t] EXCEPT !.session = t]
           new == [account |-> seen[t].account, subject |-> plan[t].who]
<1>1. plan[t].kind = "signin" /\ seen[t].account # None
  BY DEF InsertSession, Typed, StepsKnow, SignInSteps
<1>2. know \in Known /\ know.account = seen[t].account
  BY Now DEF Known
<1>3. Fits(t, "land", know)
  BY <1>1, <1>2 DEF Fits, Steps, SignInSteps, SetupSteps
<1>4. Moves(t, "land", know, reply[t])
  BY GoMoves, TypesAre DEF InsertSession, Typed
<1>5. new \in SessionRow
  BY <1>1, Now, PlanFacts DEF Typed, Known, SessionRow
<1> HIDE DEF know, new
<1>6. session' \in [Task -> SessionRow \cup {None}]
  <2>1. session' = [u \in Task |-> IF u = t THEN new ELSE IF u \in over THEN None ELSE session[u]]
    BY DEF InsertSession, new
  <2> QED  BY <1>5, <2>1, TypesAre DEF Typed
<1>7. /\ jar' \in [Browser -> Jar] /\ account' \in [Task -> AccountRow]
      /\ identity' \in [Subject -> Task \cup {None}]
      /\ company' \in [Task -> CompanyRow] /\ works' \subseteq Task /\ owner' \in BOOLEAN
      /\ over' \subseteq Task /\ late' \subseteq Task /\ starts' \in Nat /\ plan' = plan
  BY TypesAre DEF InsertSession, Typed, clock
<1> QED  BY <1>3, <1>4, <1>6, <1>7, Now, TablesTyped

(* What a sign-in leaves in the browser.                                   *)
Landed(t) ==
  LET a == seen[t].account
      s == plan[t].who
      setup == ReadSetup(seen[t].setup)
      resume == SetupMatches(setup, a, s)
      fresh == VerifiedFlow(seen[t].flow, t)
      asks == resume \/ ~fresh \/ seen[t].flow.choice = "COMPANY"
      mine == jar[plan[t].browser]
  IN  [state |-> None, session |-> seen[t].session, flow |-> None,
       setup |-> IF asks /\ ~Member(a) /\ ~resume /\ fresh
                 THEN NewCompanySetup(a, s, seen[t].flow)
                 ELSE IF resume /\ ~Member(a) THEN mine.setup ELSE None]

(* The setup cookie that a sign-in leaves is new, kept or none.            *)
LEMMA LandedSetup ==
  ASSUME Typed, NEW t \in Task, pc[t] = "land"
  PROVE  /\ Landed(t).session = seen[t].session
         /\ \/ Landed(t).setup \in {None, jar[plan[t].browser].setup}
            \/ /\ seen[t].flow # None /\ seen[t].flow.of = t
               /\ Landed(t).setup =
                    [account |-> seen[t].account, subject |-> plan[t].who, nonce |-> t]
         /\ Landed(t) \in Jar
<1>1. plan[t].kind = "signin" /\ seen[t].account # None
  BY DEF Typed, StepsKnow, SignInSteps
<1>2. /\ plan[t].who \in Subject /\ jar[plan[t].browser] \in Jar /\ seen[t] \in Known
  BY <1>1, PlanFacts, Now DEF Typed, OfBrowser
<1>3. \/ Landed(t).setup \in {None, jar[plan[t].browser].setup}
      \/ /\ seen[t].flow # None /\ seen[t].flow.of = t
         /\ Landed(t).setup =
              [account |-> seen[t].account, subject |-> plan[t].who, nonce |-> t]
  BY DEF Landed, NewCompanySetup, VerifiedFlow
<1>4. Landed(t).setup \in CompanySetupState \cup {None}
  BY <1>1, <1>2, <1>3 DEF CompanySetupState, Jar, Known
<1>5. Landed(t) \in Jar
  <2> DEFINE left == Landed(t).setup
  <2>1. Landed(t) = [state |-> None, session |-> seen[t].session, flow |-> None,
                     setup |-> left]
    BY DEF Landed
  <2> HIDE DEF left
  <2>2. seen[t].session \in Task \cup {None} /\ left \in CompanySetupState \cup {None}
    BY <1>2, <1>4 DEF Known, left
  <2> QED  BY <2>1, <2>2 DEF Jar
<1>6. Landed(t).session = seen[t].session
  BY DEF Landed
<1> QED  BY <1>3, <1>5, <1>6

LEMMA LandMoves ==
  ASSUME NEW t \in Task, Land(t)
  PROVE  /\ pc[t] = "land" /\ SetCookies(t, Landed(t))
         /\ \E answer \in Destination : Done(t, answer)
         /\ UNCHANGED <<plan, seen, rows, clock>>
BY DEF Land, Landed, Destination

LEMMA LandTyped ==
  ASSUME Typed, NEW t \in Task, Land(t)
  PROVE  Typed'
<1>1. plan[t].browser \in Browser
  BY PlanFacts DEF Land, Typed, StepsKnow, SignInSteps, OfBrowser
<1>2. jar' \in [Browser -> Jar]
  BY <1>1, LandMoves, LandedSetup, CookiesTyped
<1>3. PICK answer \in Reply :
        Moves(t, "done", seen[t], answer) /\ Fits(t, "done", seen[t])
  BY LandMoves, DoneMoves DEF Reply
<1>4. UNCHANGED <<plan, rows, over, late>> /\ starts' \in Nat
  BY LandMoves, Now DEF clock
<1> QED  BY <1>2, <1>3, <1>4, QuietTyped

LEMMA SignOutTyped ==
  ASSUME Typed, NEW t \in Task, SignOut(t)
  PROVE  Typed'
<1> DEFINE token == jar[plan[t].browser].session
           know == [seen[t] EXCEPT !.session = token]
<1>1. plan[t].kind = "signout"
  BY DEF SignOut, Ready
<1>2. token \in Task \cup {None}
  BY <1>1, PlanFacts, Now DEF Typed, OfBrowser, Jar
<1>3. know \in Known
  BY <1>2, Now DEF Known
<1>4. Fits(t, "answer", know)
  BY <1>1, <1>3 DEF Fits, Steps, SignInSteps, SetupSteps
<1>5. Moves(t, "answer", know, reply[t])
  BY GoMoves, TypesAre DEF SignOut, Typed
<1> HIDE DEF know
<1>6. session' \in [Task -> SessionRow \cup {None}]
  BY TypesAre DEF SignOut, Typed
<1>7. /\ jar' \in [Browser -> Jar] /\ account' \in [Task -> AccountRow]
      /\ identity' \in [Subject -> Task \cup {None}]
      /\ company' \in [Task -> CompanyRow] /\ works' \subseteq Task /\ owner' \in BOOLEAN
      /\ over' \subseteq Task /\ late' \subseteq Task /\ starts' \in Nat /\ plan' = plan
  BY TypesAre DEF SignOut, Typed, clock
<1> QED  BY <1>4, <1>5, <1>6, <1>7, Now, TablesTyped

LEMMA AnswerTyped ==
  ASSUME Typed, NEW t \in Task, AnswerSignOut(t)
  PROVE  Typed'
<1>1. plan[t].kind = "signout"
  BY DEF AnswerSignOut, Typed, StepsKnow
<1>2. plan[t].browser \in Browser
  BY <1>1, PlanFacts DEF Typed, OfBrowser
<1>3. [jar[plan[t].browser] EXCEPT !.session = None, !.setup = None, !.flow = None] \in Jar
  BY <1>2, Now DEF Jar
<1>4. jar' \in [Browser -> Jar]
  BY <1>2, <1>3, CookiesTyped, TypesAre DEF AnswerSignOut, Typed
<1>5. PICK answer \in Reply :
        Moves(t, "done", seen[t], answer) /\ Fits(t, "done", seen[t])
  BY DoneMoves DEF AnswerSignOut, Reply
<1>6. UNCHANGED <<plan, rows, over, late>> /\ starts' \in Nat
  BY Now DEF AnswerSignOut, clock
<1> QED  BY <1>4, <1>5, <1>6, QuietTyped

LEMMA GetSessionTyped ==
  ASSUME Typed, NEW t \in Task, GetSession(t)
  PROVE  Typed'
<1> DEFINE token == jar[plan[t].browser].session
           know == [seen[t] EXCEPT !.session = token, !.account = session[token].account]
<1>1. plan[t].kind = "refresh"
  BY DEF GetSession, Ready
<1>2. plan[t].browser \in Browser /\ token \in Task \cup {None}
  BY <1>1, PlanFacts, Now DEF Typed, OfBrowser, Jar
<1>3. UNCHANGED <<plan, rows, clock>> /\ UNCHANGED <<plan, rows, over, late>> /\ starts' \in Nat
  BY Now DEF GetSession, clock
<1>4. CASE /\ Usable(token) /\ Go(t, "update")
           /\ seen' = [seen EXCEPT ![t].session = token,
                                   ![t].account = session[token].account]
           /\ UNCHANGED jar
  <2>1. token # None /\ session[token] \in SessionRow
    BY <1>2, <1>4, TypesAre DEF Usable, Typed
  <2>2. know \in Known /\ know.session = token
    BY <1>2, <2>1, Now DEF Known, SessionRow
  <2>3. Fits(t, "update", know)
    BY <1>1, <2>1, <2>2 DEF Fits, Steps, SignInSteps, SetupSteps
  <2>4. seen' = [seen EXCEPT ![t] = know]
    BY <1>4, TypesAre DEF Typed
  <2> HIDE DEF know
  <2> QED  BY <1>3, <1>4, <2>3, <2>4, StillTyped
<1>5. CASE /\ Done(t, "signin") /\ UNCHANGED seen
           /\ SetCookies(t, [jar[plan[t].browser] EXCEPT !.session = None])
  <2>1. [jar[plan[t].browser] EXCEPT !.session = None] \in Jar
    BY <1>2, Now DEF Jar
  <2>2. jar' \in [Browser -> Jar]
    BY <1>2, <1>5, <2>1, CookiesTyped
  <2>3. Moves(t, "done", seen[t], "signin") /\ Fits(t, "done", seen[t]) /\ "signin" \in Reply
    BY <1>5, DoneMoves DEF Reply
  <2> QED  BY <1>3, <2>2, <2>3, QuietTyped
<1> QED  BY <1>4, <1>5 DEF GetSession

LEMMA UpdateTyped ==
  ASSUME Typed, NEW t \in Task, UpdateSession(t)
  PROVE  Typed'
<1>1. plan[t].kind = "refresh"
  BY DEF UpdateSession, Typed, StepsKnow
<1>2. plan[t].browser \in Browser
  BY <1>1, PlanFacts DEF Typed, OfBrowser
<1>3. [jar[plan[t].browser] EXCEPT !.session = seen[t].session] \in Jar
  BY <1>2, Now DEF Jar, Known
<1>4. jar' \in [Browser -> Jar]
  BY <1>2, <1>3, CookiesTyped DEF UpdateSession
<1>5. Moves(t, "done", seen[t], "signedin") /\ Fits(t, "done", seen[t]) /\ "signedin" \in Reply
  BY DoneMoves DEF UpdateSession, Reply
<1>6. UNCHANGED <<plan, rows, over, late>> /\ starts' \in Nat
  BY Now DEF UpdateSession, Extended, clock, rows
<1> QED  BY <1>4, <1>5, <1>6, QuietTyped

LEMMA RefuseTyped ==
  ASSUME Typed, NEW t \in Task, NEW code \in Reply, Refuse(t, code)
  PROVE  Typed' /\ Moves(t, "done", seen[t], code)
<1>1. Moves(t, "done", seen[t], code) /\ Fits(t, "done", seen[t])
  BY DoneMoves DEF Refuse
<1>2. /\ jar' \in [Browser -> Jar] /\ UNCHANGED <<plan, rows, over, late>>
      /\ starts' \in Nat
  BY TypesAre DEF Refuse, clock, Typed
<1> QED  BY <1>1, <1>2, QuietTyped

LEMMA VisitTyped ==
  ASSUME Typed, NEW t \in Task, Visit(t)
  PROVE  Typed'
<1>1. PICK answer \in Reply : Refuse(t, answer)
  BY DEF Visit, Refuse, PersonPage, SetupPage, Reply, Destination
<1> QED  BY <1>1, RefuseTyped

LEMMA AskTyped ==
  ASSUME Typed, NEW t \in Task, AskForCompany(t)
  PROVE  Typed'
<1> DEFINE cookies == jar[plan[t].browser]
           setup == IF plan[t].choice = "forgotten" THEN None ELSE ReadSetup(cookies.setup)
           know == [seen[t] EXCEPT !.session = cookies.session, !.setup = setup]
<1>1. plan[t].kind = "company"
  BY DEF AskForCompany, Ready
<1>2. cookies \in Jar
  BY <1>1, PlanFacts, Now DEF Typed, OfBrowser
<1>3. UNCHANGED <<plan, jar, rows, clock>>
  BY DEF AskForCompany
<1>4. ASSUME NEW code \in {"session_required", "invalid_name"}, Done(t, code), UNCHANGED seen
      PROVE  Typed'
  BY <1>3, <1>4, RefuseTyped DEF Refuse, Reply, CompanySetupCode
<1>5. CASE /\ cookies.session # None /\ Go(t, "session")
           /\ seen' = [seen EXCEPT ![t].session = cookies.session, ![t].setup = setup]
  <2>1. setup \in CompanySetupState \cup {None}
    BY <1>2 DEF ReadSetup, Jar
  <2> HIDE DEF setup
  <2>2. know \in Known /\ know.session = cookies.session
    BY <1>2, <2>1, Now DEF Known, Jar
  <2>3. Fits(t, "session", know)
    BY <1>1, <1>5, <2>2 DEF Fits, Steps, SignInSteps, SetupSteps
  <2>4. seen' = [seen EXCEPT ![t] = know]
    BY <1>5, TypesAre DEF Typed
  <2> HIDE DEF know
  <2> QED  BY <1>3, <1>5, <2>3, <2>4, StillTyped
<1> QED  BY <1>4, <1>5 DEF AskForCompany

LEMMA FindSessionTyped ==
  ASSUME Typed, NEW t \in Task, FindSession(t)
  PROVE  Typed'
<1> DEFINE token == seen[t].session
           know == [seen[t] EXCEPT !.account = session[token].account]
<1>1. plan[t].kind = "company" /\ token # None
  BY DEF FindSession, Typed, StepsKnow, SetupSteps
<1>2. CASE Refuse(t, "session_required")
  BY <1>2, RefuseTyped DEF Reply, CompanySetupCode
<1>3. CASE /\ session[token] # None /\ Go(t, "row")
           /\ seen' = [seen EXCEPT ![t].account = session[token].account]
           /\ UNCHANGED <<plan, jar, rows, clock>>
  <2>1. session[token] \in SessionRow
    BY <1>1, <1>3, Now, TypesAre DEF Typed, Known
  <2>2. know \in Known /\ know.session = token
    BY <2>1, Now DEF Known, SessionRow
  <2>3. Fits(t, "row", know)
    BY <1>1, <2>2 DEF Fits, Steps, SignInSteps, SetupSteps
  <2>4. seen' = [seen EXCEPT ![t] = know]
    BY <1>3, TypesAre DEF Typed
  <2> HIDE DEF know
  <2> QED  BY <1>3, <2>3, <2>4, StillTyped
<1> QED  BY <1>2, <1>3 DEF FindSession

LEMMA LockTyped ==
  ASSUME Typed, NEW t \in Task, LockAccount(t)
  PROVE  Typed'
<1>1. plan[t].kind = "company" /\ seen[t].session # None
  BY DEF LockAccount, Typed, StepsKnow, SetupSteps
<1>2. ASSUME NEW code \in {"session_required", "identity_mismatch"}, Refuse(t, code)
      PROVE  Typed'
  BY <1>2, RefuseTyped DEF Reply, CompanySetupCode
<1>3. CASE Go(t, "choose") /\ UNCHANGED <<plan, seen, jar, rows, clock>>
  <2>1. Fits(t, "choose", seen[t])
    BY <1>1, Now DEF Fits, Steps, SignInSteps, SetupSteps
  <2> QED  BY <1>3, <2>1, StillTyped
<1> QED  BY <1>2, <1>3 DEF LockAccount

LEMMA SucceedTyped ==
  ASSUME Typed, NEW t \in Task, plan[t].kind = "company", UNCHANGED seen, Succeed(t)
  PROVE  /\ Moves(t, "done", seen[t], "/company") /\ Fits(t, "done", seen[t])
         /\ "/company" \in Reply /\ jar' \in [Browser -> Jar]
<1>1. plan[t].browser \in Browser
  BY PlanFacts DEF Typed, OfBrowser
<1>2. [jar[plan[t].browser] EXCEPT !.setup = None] \in Jar
  BY <1>1, Now DEF Jar
<1> QED  BY <1>1, <1>2, CookiesTyped, DoneMoves DEF Succeed, Reply, Destination

(* What choosing a workspace comes to.                                     *)
LEMMA ChooseMoves ==
  ASSUME NEW t \in Task, ChooseWorkspace(t)
  PROVE  /\ pc[t] = "choose"
         /\ \/ /\ Go(t, "write") /\ UNCHANGED <<plan, seen, jar, rows, clock>>
               /\ seen[t].setup # None
               /\ company[CompanyId(t)].status = "NONE"
               /\ ~Member(seen[t].account)
            \/ \E code \in CompanySetupCode : Refuse(t, code)
            \/ Succeed(t) /\ UNCHANGED <<plan, seen, rows, clock>>
BY DEF ChooseWorkspace, Previous, ReadSetup, CompanySetupCode

LEMMA ChooseTyped ==
  ASSUME Typed, NEW t \in Task, ChooseWorkspace(t)
  PROVE  Typed'
<1>1. plan[t].kind = "company" /\ seen[t].session # None
  BY DEF ChooseWorkspace, Typed, StepsKnow, SetupSteps
<1>2. ASSUME NEW code \in CompanySetupCode, Refuse(t, code) PROVE Typed'
  BY <1>2, RefuseTyped DEF Reply
<1>3. CASE /\ Go(t, "write") /\ UNCHANGED <<plan, seen, jar, rows, clock>>
           /\ seen[t].setup # None
  <2>1. Fits(t, "write", seen[t])
    BY <1>1, <1>3, Now DEF Fits, Steps, SignInSteps, SetupSteps
  <2> QED  BY <1>3, <2>1, StillTyped
<1>4. CASE Succeed(t) /\ UNCHANGED <<plan, seen, rows, clock>>
  BY <1>1, <1>4, SucceedTyped, QuietTyped, Now DEF clock
<1> QED  BY <1>2, <1>3, <1>4, ChooseMoves

LEMMA WriteTyped ==
  ASSUME Typed, NEW t \in Task, WriteWorkspace(t)
  PROVE  Typed'
<1> DEFINE new == [status |-> "ACTIVE", founder |-> seen[t].account, member |-> TRUE,
                   flow |-> CompanyId(t)]
<1>1. plan[t].kind = "company" /\ seen[t].setup # None
  BY DEF WriteWorkspace, Typed, StepsKnow, SetupSteps
<1>2. seen[t].setup \in CompanySetupState /\ seen[t].account \in Task \cup {None}
  BY <1>1, Now DEF Known
<1>3. CASE Refuse(t, "unexpected")
  BY <1>3, RefuseTyped DEF Reply, CompanySetupCode
<1>4. CASE /\ company' = [company EXCEPT ![CompanyId(t)] = new] /\ Succeed(t)
           /\ UNCHANGED <<plan, seen, account, identity, session, works, owner, clock>>
  <2>1. new \in CompanyRow
    BY <1>2 DEF CompanySetupState, CompanyRow, CompanyId
  <2> HIDE DEF new
  <2>2. company' \in [Task -> CompanyRow]
    BY <1>4, <2>1, TypesAre DEF Typed
  <2>3. /\ account' \in [Task -> AccountRow]
        /\ identity' \in [Subject -> Task \cup {None}]
        /\ session' \in [Task -> SessionRow \cup {None}]
        /\ works' \subseteq Task /\ owner' \in BOOLEAN
        /\ over' \subseteq Task /\ late' \subseteq Task /\ starts' \in Nat
    BY <1>4, TypesAre DEF Typed, clock
  <2> QED  BY <1>1, <1>4, <2>2, <2>3, SucceedTyped, TablesTyped
<1> QED  BY <1>3, <1>4 DEF WriteWorkspace

----------------------------------------------------------------------------
(* Operators and the clock.                                                *)

LEMMA ProvisionTyped ==
  ASSUME Typed, NEW t \in Task, Provision(t)
  PROVE  Typed'
<1>1. plan[t].who \in Subject
  BY PlanFacts DEF Provision, Ready, Typed
<1>2. PICK answer \in Reply :
        Moves(t, "done", seen[t], answer) /\ Fits(t, "done", seen[t])
  BY DoneMoves DEF Provision, Reply
<1>3. account' \in [Task -> AccountRow] /\ identity' \in [Subject -> Task \cup {None}]
  BY <1>1, CreateTyped, TypesAre DEF Provision, Typed
<1>4. /\ jar' \in [Browser -> Jar] /\ session' \in [Task -> SessionRow \cup {None}]
      /\ company' \in [Task -> CompanyRow] /\ works' \subseteq Task /\ owner' \in BOOLEAN
      /\ over' \subseteq Task /\ late' \subseteq Task /\ starts' \in Nat /\ plan' = plan
  BY TypesAre DEF Provision, Typed, clock
<1> QED  BY <1>2, <1>3, <1>4, TablesTyped

LEMMA RevokeTyped ==
  ASSUME Typed, NEW t \in Task, RevokeSessions(t)
  PROVE  Typed'
<1>1. /\ Moves(t, "done", seen[t], "revoked") /\ Fits(t, "done", seen[t])
      /\ "revoked" \in Reply
  BY DoneMoves DEF RevokeSessions, Reply
<1>2. session' \in [Task -> SessionRow \cup {None}]
  BY TypesAre DEF RevokeSessions, RevokeAccountSessions, Typed
<1>3. /\ jar' \in [Browser -> Jar] /\ account' \in [Task -> AccountRow]
      /\ identity' \in [Subject -> Task \cup {None}]
      /\ company' \in [Task -> CompanyRow] /\ works' \subseteq Task /\ owner' \in BOOLEAN
      /\ over' \subseteq Task /\ late' \subseteq Task /\ starts' \in Nat /\ plan' = plan
  BY TypesAre DEF RevokeSessions, Typed, clock
<1> QED  BY <1>1, <1>2, <1>3, TablesTyped

LEMMA StatusTyped ==
  ASSUME Typed, NEW t \in Task, SetStatus(t)
  PROVE  Typed'
<1>1. PICK answer \in Reply :
        Moves(t, "done", seen[t], answer) /\ Fits(t, "done", seen[t])
  BY DoneMoves DEF SetStatus, Ready, Reply, Kind
<1> DEFINE to == IF plan[t].kind = "suspend" THEN "SUSPENDED" ELSE "ACTIVE"
<1>2. \A b \in Task : [account[b] EXCEPT !.status = to] \in AccountRow /\ account[b] \in AccountRow
  BY TypesAre DEF Typed, AccountRow
<1>3. account' \in [Task -> AccountRow]
  BY <1>2 DEF SetStatus
<1>4. /\ jar' \in [Browser -> Jar] /\ session' \in [Task -> SessionRow \cup {None}]
      /\ identity' \in [Subject -> Task \cup {None}]
      /\ company' \in [Task -> CompanyRow] /\ works' \subseteq Task /\ owner' \in BOOLEAN
      /\ over' \subseteq Task /\ late' \subseteq Task /\ starts' \in Nat /\ plan' = plan
  BY TypesAre DEF SetStatus, Typed, clock
<1> QED  BY <1>1, <1>3, <1>4, TablesTyped

LEMMA ChangeTyped ==
  ASSUME Typed, NEW t \in Task, ChangeCompanies(t)
  PROVE  Typed'
<1>1. PICK answer \in Reply :
        Moves(t, "done", seen[t], answer) /\ Fits(t, "done", seen[t])
  BY DoneMoves DEF ChangeCompanies, Ready, Reply, Kind
<1>2. \A c \in Task : /\ [company[c] EXCEPT !.member = FALSE] \in CompanyRow
                      /\ [company[c] EXCEPT !.status = "CLOSED"] \in CompanyRow
                      /\ company[c] \in CompanyRow
  BY TypesAre DEF Typed, CompanyRow
<1>3. company' \in [Task -> CompanyRow]
  BY <1>2 DEF ChangeCompanies
<1>4. AccountOf(plan[t].who) \in Task \cup {None}
  BY PlanFacts, TypesAre DEF AccountOf, Subjects, Typed
<1>5. works' \subseteq Task /\ owner' \in BOOLEAN
  BY <1>4, TypesAre DEF ChangeCompanies, Typed
<1>6. /\ jar' \in [Browser -> Jar] /\ account' \in [Task -> AccountRow]
      /\ identity' \in [Subject -> Task \cup {None}]
      /\ session' \in [Task -> SessionRow \cup {None}]
      /\ over' \subseteq Task /\ late' \subseteq Task /\ starts' \in Nat /\ plan' = plan
  BY TypesAre DEF ChangeCompanies, Typed, clock
<1> QED  BY <1>1, <1>3, <1>5, <1>6, TablesTyped

LEMMA TimeTyped ==
  ASSUME Typed, NEW t \in Task, PassTime(t)
  PROVE  Typed'
<1> DEFINE b == plan[t].browser
           flow == IF b = None THEN None ELSE jar[b].flow
<1>1. PICK answer \in Reply :
        Moves(t, "done", seen[t], answer) /\ Fits(t, "done", seen[t])
  BY DoneMoves DEF PassTime, Ready, Reply, Kind
<1>2. plan[t].kind \in {"setup ends", "flow ends", "flow spoils", "flow swaps"} => b \in Browser
  BY PlanFacts DEF Typed, OfBrowser
<1>3. late' \subseteq Task
  BY ZenonT(60), <1>2, TypesAre, Now DEF PassTime, Typed, Jar, CompanySetupState
<1>4. jar' \in [Browser -> Jar]
  <2>1. CASE jar' = jar
    BY <2>1, TypesAre DEF Typed
  <2>2. CASE b \in Browser /\ jar[b].flow # None
    <3>1. jar[b] \in Jar /\ jar[b].flow \in Flow
      BY <2>2, Now DEF Jar
    <3>2. /\ [jar[b].flow EXCEPT !.sound = FALSE] \in Flow
          /\ [jar[b].flow EXCEPT !.of = t] \in Flow
      BY <3>1 DEF Flow
    <3>3. /\ [jar[b] EXCEPT !.flow = None] \in Jar
          /\ [jar[b] EXCEPT !.flow = [jar[b].flow EXCEPT !.sound = FALSE]] \in Jar
          /\ [jar[b] EXCEPT !.flow = [jar[b].flow EXCEPT !.of = t]] \in Jar
      BY <3>1, <3>2 DEF Jar
    <3>4. \/ jar' = jar
          \/ jar' = [jar EXCEPT ![b] = [jar[b] EXCEPT !.flow = None]]
          \/ jar' = [jar EXCEPT ![b] = [jar[b] EXCEPT !.flow =
                                          [jar[b].flow EXCEPT !.sound = FALSE]]]
          \/ jar' = [jar EXCEPT ![b] = [jar[b] EXCEPT !.flow =
                                          [jar[b].flow EXCEPT !.of = t]]]
      BY <2>2, <3>1, TypesAre DEF PassTime, Typed, Jar, Flow
    <3> QED  BY <3>3, <3>4, TypesAre DEF Typed
  <2> QED  BY <1>2, <2>1, <2>2 DEF PassTime, Ready
<1>5. over' \subseteq Task /\ starts' \in Nat
  <2>1. RateLimit \in Nat
    BY EmailsTyped
  <2> QED  BY <2>1, TypesAre DEF PassTime, Typed
<1>6. /\ account' \in [Task -> AccountRow]
      /\ identity' \in [Subject -> Task \cup {None}]
      /\ session' \in [Task -> SessionRow \cup {None}]
      /\ company' \in [Task -> CompanyRow] /\ works' \subseteq Task /\ owner' \in BOOLEAN
      /\ plan' = plan
  BY TypesAre DEF PassTime, Typed, rows
<1> QED  BY <1>1, <1>3, <1>4, <1>5, <1>6, TablesTyped

LEMMA TypedStep ==
  ASSUME Typed, [Next]_vars
  PROVE  Typed'
<1>1. ASSUME NEW t \in Task, SignInStep(t) PROVE Typed'
  BY <1>1, BeginTyped, CallbackTyped, LookUpSubjectTyped, LookUpAddressTyped, EnrolTyped,
     FindUserTyped, CheckTyped, InsertTyped, LandTyped, SignOutTyped, AnswerTyped,
     GetSessionTyped, UpdateTyped
     DEF SignInStep
<1>2. ASSUME NEW t \in Task, SetupStep(t) PROVE Typed'
  BY <1>2, VisitTyped, AskTyped, FindSessionTyped, LockTyped, ChooseTyped, WriteTyped
     DEF SetupStep
<1>3. ASSUME NEW t \in Task, Operate(t) PROVE Typed'
  BY <1>3, ProvisionTyped, RevokeTyped, StatusTyped, ChangeTyped, TimeTyped DEF Operate
<1>4. ASSUME UNCHANGED vars PROVE Typed'
  <2>1. UNCHANGED <<plan, pc, seen, reply, jar, account, identity, session, company,
                    works, owner, over, late, starts>>
    BY <1>4 DEF vars, steps, rows, clock
  <2> QED
    BY <2>1 DEF Typed, TypeOK, StepsKnow, Task, Jar, Flow, CompanySetupState
<1> QED  BY <1>1, <1>2, <1>3, <1>4 DEF Next, Step, Stop

LEMMA TypedInit ==
  ASSUME Init
  PROVE  Typed
<1>1. \E a : a \in Addresses
  BY EmailsTyped DEF Addresses
<1>2. (CHOOSE a \in Addresses : TRUE) \in Addresses
  BY <1>1
<1>3. TypeOK
  BY <1>2, TypesAre
     DEF Init, Steps, Known, Jar, AccountRow, CompanyRow, Nothing, Reply
<1>4. StepsKnow
  BY DEF Init, StepsKnow, SignInSteps, SetupSteps
<1> QED  BY <1>3, <1>4 DEF Typed

(* Type correctness of signing in and company setup.                       *)
THEOREM TypesHold ==
  Spec => []TypeOK
<1>1. Spec => []Typed
  BY TypedInit, TypedStep, PTL DEF Spec
<1>2. Typed => TypeOK
  BY DEF Typed
<1> QED  BY <1>1, <1>2, PTL

----------------------------------------------------------------------------
(* The steps of a request come in one order.                               *)

Follows(from, to) ==
  \/ from = "wait" /\ to \in {"idp", "answer", "update", "session", "done"}
  \/ from = "idp" /\ to \in {"subject", "done"}
  \/ from = "subject" /\ to \in {"address", "enrol", "done"}
  \/ from = "address" /\ to \in {"enrol", "done"}
  \/ from = "enrol" /\ to \in {"user", "done"}
  \/ from = "user" /\ to \in {"check", "land", "done"}
  \/ from = "check" /\ to \in {"insert", "done"}
  \/ from = "insert" /\ to = "land"
  \/ from \in {"land", "answer", "update", "write"} /\ to = "done"
  \/ from = "session" /\ to \in {"row", "done"}
  \/ from = "row" /\ to \in {"choose", "done"}
  \/ from = "choose" /\ to \in {"write", "done"}

(* A step of one request leaves where the others are and what they know.   *)
Others(t) ==
  \A u \in Task \ {t} : pc'[u] = pc[u] /\ seen'[u] = seen[u] /\ reply'[u] = reply[u]

Advances(t) == plan' = plan /\ Follows(pc[t], pc'[t]) /\ Others(t)

LEMMA SignInAdvances ==
  ASSUME Typed, NEW t \in Task, SignInStep(t)
  PROVE  Advances(t)
<1> USE TypesAre DEF Typed, Advances, Others, Go, Done
<1>1. CASE BeginSignIn(t)
  BY <1>1 DEF BeginSignIn, Ready, Follows
<1>2. ASSUME NEW code, Deny(t, code), pc[t] \in SignInSteps \ {"insert"} PROVE Advances(t)
  BY <1>2 DEF Deny, Follows, SignInSteps
<1>3. CASE Callback(t)
  BY <1>2, <1>3 DEF Callback, Follows, SignInSteps
<1>4. CASE LookUpSubject(t)
  BY <1>2, <1>4 DEF LookUpSubject, Follows, SignInSteps
<1>5. CASE LookUpAddress(t)
  BY <1>2, <1>5 DEF LookUpAddress, Follows, SignInSteps
<1>6. CASE Enrol(t)
  BY <1>2, <1>6 DEF Enrol, Follows, SignInSteps
<1>7. CASE FindUser(t)
  BY <1>2, <1>7 DEF FindUser, Follows, SignInSteps
<1>8. CASE CheckAccount(t)
  BY <1>2, <1>8 DEF CheckAccount, Follows, SignInSteps
<1>9. CASE InsertSession(t)
  BY <1>9 DEF InsertSession, Follows
<1>10. CASE Land(t)
  BY <1>10, LandMoves DEF Follows
<1>11. CASE SignOut(t)
  BY <1>11 DEF SignOut, Ready, Follows
<1>12. CASE AnswerSignOut(t)
  BY <1>12 DEF AnswerSignOut, Follows
<1>13. CASE GetSession(t)
  BY <1>13 DEF GetSession, Ready, Follows
<1>14. CASE UpdateSession(t)
  BY <1>14 DEF UpdateSession, Follows
<1> QED  BY <1>1, <1>3, <1>4, <1>5, <1>6, <1>7, <1>8, <1>9, <1>10, <1>11, <1>12, <1>13,
            <1>14 DEF SignInStep

LEMMA SetupAdvances ==
  ASSUME Typed, NEW t \in Task, SetupStep(t)
  PROVE  Advances(t)
<1> USE TypesAre DEF Typed, Advances, Others, Go, Done
<1>1. CASE Visit(t)
  BY <1>1 DEF Visit, Ready, Follows
<1>2. ASSUME NEW code, Refuse(t, code), pc[t] \in SetupSteps PROVE Advances(t)
  BY <1>2 DEF Refuse, Follows, SetupSteps
<1>3. CASE AskForCompany(t)
  BY <1>3 DEF AskForCompany, Ready, Follows
<1>4. CASE FindSession(t)
  BY <1>2, <1>4 DEF FindSession, Follows, SetupSteps
<1>5. CASE LockAccount(t)
  BY <1>2, <1>5 DEF LockAccount, Follows, SetupSteps
<1>6. CASE ChooseWorkspace(t)
  BY <1>2, <1>6, ChooseMoves DEF Succeed, Follows, SetupSteps
<1>7. CASE WriteWorkspace(t)
  BY <1>2, <1>7 DEF WriteWorkspace, Succeed, Follows, SetupSteps
<1> QED  BY <1>1, <1>3, <1>4, <1>5, <1>6, <1>7 DEF SetupStep

LEMMA StepAdvances ==
  ASSUME Typed, NEW t \in Task, Step(t)
  PROVE  Advances(t)
<1>1. CASE Operate(t)
  BY <1>1, TypesAre
     DEF Operate, Provision, RevokeSessions, SetStatus, ChangeCompanies, PassTime,
         Ready, Done, Follows, Typed, Advances, Others
<1> QED  BY <1>1, SignInAdvances, SetupAdvances DEF Step

----------------------------------------------------------------------------
(* The accounts.                                                           *)

Existing(a) == account[a].status # "NONE"

(* Steps of a sign-in, or of anything else, that has made no account yet.  *)
Unenrolled == {"wait", "idp", "subject", "address", "enrol"}

NewAccounts == \A a \in Task : Existing(a) => pc[a] \notin Unenrolled

LowerCase == \A a \in Task : ~account[a].email.upper

SubjectsHaveAccounts ==
  /\ \A s \in Subject : identity[s] # None => Existing(identity[s])
  /\ \A a \in Task : Existing(a) => \E s \in Subject : identity[s] = a

OneSubject == \A s, r \in Subject : identity[s] # None /\ identity[s] = identity[r] => s = r

OneAddress ==
  \A a, b \in Task :
    Existing(a) /\ Existing(b) /\ account[a].email.address = account[b].email.address => a = b

(* A sign-in goes on with the account of its subject.                      *)
KnowsAccount ==
  \A t \in Task :
    /\ pc[t] \in {"user", "check", "insert", "land"} => seen[t].account = identity[plan[t].who]
    /\ pc[t] = "enrol" => seen[t].account \in {t, identity[plan[t].who]}

AccountsInv ==
  Typed /\ NewAccounts /\ LowerCase /\ SubjectsHaveAccounts /\ OneSubject /\ OneAddress
  /\ KnowsAccount

(* An account comes into being for a subject without one, at an address    *)
(* that nobody has.                                                        *)
Enrols(t, s) ==
  /\ s = plan[t].who /\ s \in Subject /\ Create(t, s)
  /\ identity[s] = None /\ ~Registered(Email[s])
  /\ pc[t] \in {"wait", "enrol"} /\ pc'[t] \in {"user", "done"}
  /\ seen'[t] = seen[t] /\ (pc[t] = "enrol" => seen[t].account = t)

LEMMA AccountChanges ==
  ASSUME Typed, NEW t \in Task, Step(t)
  PROVE  \/ UNCHANGED <<account, identity>>
         \/ Enrols(t, plan[t].who)
         \/ SetStatus(t)
<1> DEFINE Goal == \/ UNCHANGED <<account, identity>>
                   \/ Enrols(t, plan[t].who)
                   \/ SetStatus(t)
<1>1. ASSUME SignInStep(t), ~Enrol(t) PROVE UNCHANGED <<account, identity>>
  BY <1>1 DEF SignInStep, BeginSignIn, Callback, LookUpSubject, LookUpAddress,
     FindUser, CheckAccount, InsertSession, Land, SignOut, AnswerSignOut, GetSession,
     UpdateSession, Deny, rows
<1>2. CASE Enrol(t)
  <2>1. plan[t].kind = "signin" /\ plan[t].who \in Subject
    BY <1>2, PlanFacts DEF Enrol, Typed, StepsKnow, SignInSteps
  <2>2. CASE UNCHANGED <<account, identity>>
    BY <2>2
  <2>3. CASE /\ seen[t].account = t
             /\ identity[plan[t].who] = None /\ ~Registered(Email[plan[t].who])
             /\ Create(t, plan[t].who) /\ Go(t, "user") /\ UNCHANGED seen
    <3>1. pc'[t] = "user"
      BY <2>3, TypesAre DEF Typed, Go
    <3> QED  BY <1>2, <2>1, <2>3, <3>1 DEF Enrol, Enrols
  <2> QED  BY <1>2, <2>2, <2>3 DEF Enrol, Deny, rows
<1>3. ASSUME SetupStep(t) PROVE UNCHANGED <<account, identity>>
  BY <1>3, ChooseMoves DEF SetupStep, Visit, AskForCompany, FindSession, LockAccount, WriteWorkspace,
     Refuse, rows
<1>4. CASE Operate(t)
  <2>1. CASE Provision(t)
    <3>1. plan[t].who \in Subject /\ pc[t] = "wait" /\ seen' = seen
      BY <2>1, PlanFacts DEF Provision, Ready, Typed
    <3>2. pc'[t] = "done"
      BY <2>1, TypesAre DEF Provision, Done, Typed
    <3>3. CASE UNCHANGED <<account, identity>>
      BY <3>3
    <3>4. CASE /\ identity[plan[t].who] = None /\ ~Registered(Email[plan[t].who])
               /\ Create(t, plan[t].who)
      BY <3>1, <3>2, <3>4 DEF Enrols
    <3> QED  BY <2>1, <3>3, <3>4 DEF Provision
  <2> QED  BY <1>4, <2>1 DEF Operate, RevokeSessions, ChangeCompanies, PassTime, rows
<1> QED  BY <1>1, <1>2, <1>3, <1>4 DEF Step

(* What an enrolment comes to in the two tables.                           *)
LEMMA EnrolsRows ==
  ASSUME AccountsInv, NEW t \in Task, NEW s \in Subject, Enrols(t, s)
  PROVE  /\ ~Existing(t) /\ account'[t].status = "ACTIVE" /\ ~account'[t].email.upper
         /\ \A a \in Task \ {t} : account'[a] = account[a]
         /\ \A a \in Task : Existing(a) => account[a].email.address # account'[t].email.address
         /\ identity'[s] = t /\ \A r \in Subject \ {s} : identity'[r] = identity[r]
         /\ \A r \in Subject : identity[r] # t
         /\ t # None
<1>1. ~Existing(t)
  BY DEF AccountsInv, NewAccounts, Unenrolled, Enrols
<1>2. /\ account \in [Task -> AccountRow] /\ identity \in [Subject -> Task \cup {None}]
      /\ Email[s] \in [address : Addresses, upper : BOOLEAN] /\ t # None
  BY TypesAre, EmailsTyped, PlanFacts DEF AccountsInv, Typed
<1>3. /\ account'[t] = [status |-> "ACTIVE", email |-> Lower(Email[s])]
      /\ \A a \in Task \ {t} : account'[a] = account[a]
      /\ identity'[s] = t /\ \A r \in Subject \ {s} : identity'[r] = identity[r]
  BY <1>2 DEF Enrols, Create
<1>4. ~Lower(Email[s]).upper /\ Lower(Email[s]).address = Email[s].address
  BY <1>2 DEF Lower
<1>5. ASSUME NEW a \in Task, Existing(a), account[a].email.address = Email[s].address
      PROVE  FALSE
  <2>1. Lower(account[a].email) = Lower(Email[s])
    BY <1>2, <1>5 DEF Lower, AccountRow
  <2> QED  BY <1>5, <2>1 DEF Enrols, Registered, Existing
<1>6. \A r \in Subject : identity[r] # t
  BY <1>1, <1>2 DEF AccountsInv, SubjectsHaveAccounts
<1> QED  BY <1>1, <1>2, <1>3, <1>4, <1>5, <1>6

(* What a change of status comes to.                                       *)
LEMMA StatusRows ==
  ASSUME AccountsInv, NEW t \in Task, SetStatus(t)
  PROVE  /\ UNCHANGED identity
         /\ \A a \in Task : /\ account'[a].email = account[a].email
                            /\ Existing(a)' <=> Existing(a)
         /\ pc[t] = "wait" /\ pc'[t] = "done"
<1>1. account \in [Task -> AccountRow] /\ AccountOf(plan[t].who) \in Task \cup {None}
  BY TypesAre, PlanFacts DEF AccountsInv, Typed, AccountOf, Subjects
<1>2. \A a \in Task : a = AccountOf(plan[t].who) => Existing(a)
  BY PlanFacts DEF AccountsInv, Typed, SubjectsHaveAccounts, AccountOf, Subjects
<1>3. ASSUME NEW a \in Task
      PROVE  account'[a].email = account[a].email /\ (Existing(a)' <=> Existing(a))
  <2>1. account'[a] \in
          {account[a], [account[a] EXCEPT !.status = "SUSPENDED"],
           [account[a] EXCEPT !.status = "ACTIVE"]}
        /\ (a # AccountOf(plan[t].who) => account'[a] = account[a])
    BY DEF SetStatus
  <2> QED  BY <1>1, <1>2, <2>1 DEF AccountRow, Existing
<1>4. UNCHANGED identity /\ pc[t] = "wait" /\ pc'[t] = "done"
  BY TypesAre DEF SetStatus, Ready, Done, AccountsInv, Typed
<1> QED  BY <1>3, <1>4

(* A subject keeps its account, and an account its address.                *)
LEMMA IdentitiesStay ==
  ASSUME AccountsInv, NEW t \in Task, Step(t)
  PROVE  /\ \A s \in Subject : identity[s] # None => identity'[s] = identity[s]
         /\ \A a \in Task : Existing(a) => Existing(a)'
<1>1. CASE UNCHANGED <<account, identity>>
  BY <1>1 DEF Existing
<1>2. CASE Enrols(t, plan[t].who)
  BY <1>2, EnrolsRows DEF Enrols, Existing
<1>3. CASE SetStatus(t)
  BY <1>3, StatusRows
<1> QED  BY <1>1, <1>2, <1>3, AccountChanges DEF AccountsInv

(* What a sign-in knows of its account when it gets to a step.             *)
LEMMA KnowsChanges ==
  ASSUME Typed, NEW t \in Task, Step(t), pc'[t] \in {"enrol", "user", "check", "insert", "land"}
  PROVE  /\ pc[t] = "subject" => seen'[t].account = identity[plan[t].who] /\ pc'[t] = "enrol"
         /\ pc[t] = "address" => seen'[t].account = t /\ pc'[t] = "enrol"
         /\ pc[t] \notin {"subject", "address"} => seen'[t].account = seen[t].account
         /\ pc[t] \in {"subject", "address", "enrol", "user", "check", "insert"}
<1>1. Follows(pc[t], pc'[t])
  BY StepAdvances DEF Advances
<1>2. pc[t] \in {"subject", "address", "enrol", "user", "check", "insert"}
  BY <1>1 DEF Follows
<1>3. SignInStep(t)
  BY <1>2 DEF Step, SetupStep, Operate, Visit, AskForCompany, FindSession, LockAccount,
     ChooseWorkspace, WriteWorkspace, Provision, RevokeSessions, SetStatus, ChangeCompanies,
     PassTime, Ready
<1>4. \/ LookUpSubject(t) \/ LookUpAddress(t) \/ Enrol(t) \/ FindUser(t)
      \/ CheckAccount(t) \/ InsertSession(t)
  BY <1>2, <1>3 DEF SignInStep, BeginSignIn, Callback, Land, SignOut, AnswerSignOut,
     GetSession, UpdateSession, Ready
<1>5. \A code : ~Deny(t, code)
  BY TypesAre DEF Deny, Done, Typed
<1>6. /\ seen \in [Task -> Known] /\ pc \in [Task -> Steps]
  BY TypesAre DEF Typed
<1>7. CASE LookUpSubject(t)
  <2>1. pc[t] = "subject" /\ seen' = [seen EXCEPT ![t].account = identity[plan[t].who]]
        /\ Go(t, IF identity[plan[t].who] = None THEN "address" ELSE "enrol")
    BY <1>5, <1>7 DEF LookUpSubject
  <2>2. seen'[t].account = identity[plan[t].who]
    BY <1>6, <2>1 DEF Known
  <2>3. pc'[t] = "enrol"
    BY <1>6, <2>1 DEF Go
  <2> QED  BY <2>1, <2>2, <2>3
<1>8. CASE LookUpAddress(t)
  BY <1>5, <1>6, <1>8 DEF LookUpAddress, Go, Known
<1>9. CASE InsertSession(t)
  BY <1>6, <1>9 DEF InsertSession, Known
<1>10. CASE Enrol(t) \/ FindUser(t) \/ CheckAccount(t)
  BY <1>5, <1>10 DEF Enrol, FindUser, CheckAccount
<1> QED  BY <1>2, <1>4, <1>7, <1>8, <1>9, <1>10

LEMMA KnowsStep ==
  ASSUME AccountsInv, NEW t \in Task, Step(t)
  PROVE  KnowsAccount'
<1>1. Typed /\ Typed' /\ Advances(t)
  BY TypedStep, StepAdvances DEF AccountsInv, Next
<1>2. Task' = Task /\ plan' = plan
  BY <1>1 DEF Advances, Task
<1> SUFFICES ASSUME NEW u \in Task
             PROVE  /\ pc'[u] \in {"user", "check", "insert", "land"} =>
                         seen'[u].account = identity'[plan[u].who]
                    /\ pc'[u] = "enrol" => seen'[u].account \in {u, identity'[plan[u].who]}
  BY <1>2 DEF KnowsAccount
<1>3. pc'[u] \in {"enrol", "user", "check", "insert", "land"} =>
        plan[u].who \in Subject /\ seen'[u].account # None
  BY <1>1, <1>2, PlanFacts DEF Typed, StepsKnow, SignInSteps
<1>4. CASE u # t
  <2>1. pc'[u] = pc[u] /\ seen'[u] = seen[u]
    BY <1>1, <1>4 DEF Advances, Others
  <2> QED  BY <1>3, <2>1, IdentitiesStay DEF AccountsInv, KnowsAccount
<1>5. CASE u = t /\ pc'[t] \in {"enrol", "user", "check", "insert", "land"}
  <2>1. CASE pc[t] = "subject"
    BY <1>1, <1>3, <1>5, <2>1, KnowsChanges, IdentitiesStay
  <2>2. CASE pc[t] = "address"
    BY <1>1, <1>5, <2>2, KnowsChanges
  <2>3. CASE pc[t] = "enrol"
    <3>1. pc'[t] = "user" /\ seen'[t].account = seen[t].account
      BY <1>1, <1>5, <2>3, KnowsChanges DEF Advances, Follows
    <3>2. CASE seen[t].account = t
      <4>1. Enrol(t)
        BY <2>3 DEF Step, SignInStep, SetupStep, Operate, BeginSignIn, Callback, LookUpSubject,
           LookUpAddress, FindUser, CheckAccount, InsertSession, Land, SignOut, AnswerSignOut,
           GetSession, UpdateSession, Visit, AskForCompany, FindSession, LockAccount,
           ChooseWorkspace, WriteWorkspace, Provision, RevokeSessions, SetStatus,
           ChangeCompanies, PassTime, Ready
      <4>2. Create(t, plan[t].who)
        BY <1>1, <3>1, <3>2, <4>1, TypesAre DEF Enrol, Deny, Done, Typed
      <4> QED  BY <1>1, <1>3, <1>5, <3>1, <3>2, <4>2, TypesAre DEF Create, Typed
    <3>3. CASE seen[t].account # t
      BY <1>3, <1>5, <2>3, <3>1, <3>3, IdentitiesStay DEF AccountsInv, KnowsAccount
    <3> QED  BY <1>5, <3>1, <3>2, <3>3
  <2>4. CASE pc[t] \in {"user", "check", "insert"}
    <3>1. seen'[t].account = seen[t].account /\ pc'[t] # "enrol"
      BY <1>1, <1>5, <2>4, KnowsChanges DEF Advances, Follows
    <3> QED  BY <1>3, <1>5, <2>4, <3>1, IdentitiesStay DEF AccountsInv, KnowsAccount
  <2> QED  BY <1>1, <1>5, <2>1, <2>2, <2>3, <2>4, KnowsChanges
<1> QED  BY <1>4, <1>5

LEMMA AccountsStep ==
  ASSUME AccountsInv, [Next]_vars
  PROVE  AccountsInv'
<1>1. Typed'
  BY TypedStep DEF AccountsInv
<1>2. CASE UNCHANGED vars
  <2>1. UNCHANGED <<plan, pc, seen, account, identity>>
    BY <1>2 DEF vars, steps, rows
  <2> QED
    BY <1>1, <2>1 DEF AccountsInv, NewAccounts, LowerCase, SubjectsHaveAccounts, OneSubject,
       OneAddress, KnowsAccount, Existing, Task
<1>3. ASSUME NEW t \in Task, Step(t) PROVE AccountsInv'
  <2>1. Advances(t) /\ Task' = Task
    BY <1>3, StepAdvances DEF AccountsInv, Advances, Task
  <2>2. KnowsAccount'
    BY <1>3, KnowsStep
  <2>3. \A a \in Task : pc[a] \notin Unenrolled => pc'[a] \notin Unenrolled
    BY <2>1 DEF Advances, Others, Follows, Unenrolled
  <2>4. CASE UNCHANGED <<account, identity>>
    BY <1>1, <2>1, <2>2, <2>3, <2>4
       DEF AccountsInv, NewAccounts, LowerCase, SubjectsHaveAccounts, OneSubject,
           OneAddress, Existing
  <2>5. CASE SetStatus(t)
    <3>1. /\ identity' = identity
          /\ \A a \in Task : /\ account'[a].email = account[a].email
                             /\ account'[a].status # "NONE" <=> account[a].status # "NONE"
      BY <2>5, StatusRows DEF Existing
    <3>2. NewAccounts' /\ LowerCase' /\ OneAddress'
      BY <2>1, <2>3, <3>1 DEF AccountsInv, NewAccounts, LowerCase, OneAddress, Existing
    <3>3. SubjectsHaveAccounts' /\ OneSubject'
      BY <2>1, <3>1, TypesAre
         DEF AccountsInv, Typed, SubjectsHaveAccounts, OneSubject, Existing
    <3> QED  BY <1>1, <2>2, <3>2, <3>3 DEF AccountsInv
  <2>6. CASE Enrols(t, plan[t].who)
    <3> DEFINE s == plan[t].who
    <3>1. /\ s \in Subject /\ pc'[t] \notin Unenrolled
          /\ ~Existing(t) /\ account'[t].status = "ACTIVE" /\ ~account'[t].email.upper
          /\ \A a \in Task \ {t} : account'[a] = account[a]
          /\ \A a \in Task : Existing(a) => account[a].email.address # account'[t].email.address
          /\ identity'[s] = t /\ \A r \in Subject \ {s} : identity'[r] = identity[r]
          /\ \A r \in Subject : identity[r] # t
          /\ t # None
      BY <2>6, EnrolsRows DEF Enrols, Unenrolled
    <3>2. Existing(t)' /\ \A a \in Task \ {t} : Existing(a)' <=> Existing(a)
      BY <3>1 DEF Existing
    <3> HIDE DEF s
    <3>3. NewAccounts' /\ LowerCase' /\ OneAddress'
      BY <2>1, <2>3, <3>1, <3>2 DEF AccountsInv, NewAccounts, LowerCase, OneAddress
    <3>4. SubjectsHaveAccounts'
      <4>1. identity \in [Subject -> Task \cup {None}]
        BY TypesAre DEF AccountsInv, Typed
      <4>2. identity[s] = None
        BY <2>6 DEF Enrols, s
      <4>3. ASSUME NEW r \in Subject, identity'[r] # None PROVE account'[identity'[r]].status # "NONE"
        BY <3>1, <4>1, <4>3 DEF AccountsInv, SubjectsHaveAccounts, Existing
      <4>4. ASSUME NEW a \in Task, account'[a].status # "NONE"
            PROVE  \E r \in Subject : identity'[r] = a
        <5>1. CASE a = t
          BY <3>1, <5>1
        <5>2. CASE a # t
          <6>1. PICK r \in Subject : identity[r] = a
            BY <3>1, <4>4, <5>2 DEF AccountsInv, SubjectsHaveAccounts, Existing
          <6>2. a # None
            BY PlanFacts DEF AccountsInv, Typed
          <6>3. r # s
            BY <4>2, <6>1, <6>2
          <6> QED  BY <3>1, <6>1, <6>3
        <5> QED  BY <5>1, <5>2
      <4> QED  BY <2>1, <4>3, <4>4 DEF SubjectsHaveAccounts, Existing
    <3>5. OneSubject'
      BY <3>1 DEF AccountsInv, OneSubject
    <3> QED  BY <1>1, <2>2, <3>3, <3>4, <3>5 DEF AccountsInv
  <2> QED  BY <1>3, <2>4, <2>5, <2>6, AccountChanges DEF AccountsInv
<1> QED  BY <1>2, <1>3 DEF Next, Stop

LEMMA AccountsInit ==
  ASSUME Init
  PROVE  AccountsInv
BY TypedInit DEF Init, AccountsInv, NewAccounts, LowerCase, SubjectsHaveAccounts, OneSubject,
   OneAddress, KnowsAccount, Existing

(* Callbacks of subjects with one address, in whatever case, that arrive   *)
(* together and beside an operator's provisioning leave one account for    *)
(* it, and it belongs to one subject (resolveOnboardingIdentity).          *)
THEOREM AddressesHaveOneAccount ==
  Spec => []OneAccountPerAddress
<1>1. Spec => []AccountsInv
  BY AccountsInit, AccountsStep, PTL DEF Spec
<1>2. ASSUME AccountsInv PROVE OneAccountPerAddress
  <2>1. ASSUME NEW a \in Task, Existing(a)
        PROVE  Cardinality({s \in Subject : identity[s] = a}) = 1
    <3>1. PICK s \in Subject : identity[s] = a
      BY <1>2, <2>1 DEF AccountsInv, SubjectsHaveAccounts
    <3>2. a # None
      BY <1>2, PlanFacts DEF AccountsInv, Typed
    <3>3. {r \in Subject : identity[r] = a} = {s}
      BY <1>2, <3>1, <3>2 DEF AccountsInv, OneSubject
    <3> QED  BY <3>3, FS_Singleton
  <2> QED  BY <1>2, <2>1 DEF AccountsInv, OneAddress, OneAccountPerAddress, Existing
<1> QED  BY <1>1, <1>2, PTL

----------------------------------------------------------------------------
(* The sessions.                                                           *)

(* A session that is inserted is new; others stay or go.                   *)
LEMMA SessionChanges ==
  ASSUME Typed, NEW t \in Task, Step(t)
  PROVE  /\ over \subseteq over'
         /\ \A u \in Task : session'[u] \in {session[u], None} \/ (u = t /\ pc[t] = "insert")
<1>1. session \in [Task -> SessionRow \cup {None}]
  BY TypesAre DEF Typed
<1>2. over \subseteq over'
  BY ChooseMoves, LandMoves
     DEF Step, SignInStep, SetupStep, Operate, BeginSignIn, Callback, LookUpSubject,
         LookUpAddress, Enrol, FindUser, CheckAccount, InsertSession, SignOut,
         AnswerSignOut, GetSession, UpdateSession, Visit, AskForCompany, FindSession,
         LockAccount, WriteWorkspace, Provision, RevokeSessions,
         SetStatus, ChangeCompanies, PassTime, Deny, Refuse, clock
<1> SUFFICES \A u \in Task : session'[u] \in {session[u], None} \/ (u = t /\ pc[t] = "insert")
  BY <1>2
<1>3. CASE SignInStep(t)
  <2>1. CASE InsertSession(t) \/ SignOut(t)
    BY <1>1, <2>1 DEF InsertSession, SignOut
  <2>2. CASE ~(InsertSession(t) \/ SignOut(t))
    <3>1. session' = session
      BY <1>3, <2>2, LandMoves
         DEF SignInStep, BeginSignIn, Callback, LookUpSubject, LookUpAddress, Enrol,
             FindUser, CheckAccount, AnswerSignOut, GetSession, UpdateSession, Extended,
             Deny, rows
    <3> QED  BY <3>1
  <2> QED  BY <2>1, <2>2
<1>4. CASE SetupStep(t)
  <2>1. session' = session
    BY <1>4, ChooseMoves
       DEF SetupStep, Visit, AskForCompany, FindSession, LockAccount, WriteWorkspace,
           Refuse, rows
  <2> QED  BY <2>1
<1>5. CASE Operate(t)
  BY <1>1, <1>5
     DEF Operate, Provision, RevokeSessions, RevokeAccountSessions, SetStatus,
         ChangeCompanies, PassTime, rows
<1> QED  BY <1>3, <1>4, <1>5 DEF Step

(* A session in a cookie was there, or is that of the request.  A setup    *)
(* was there, or is made by a sign-in that lands.                          *)
NewSetup(t) == [account |-> seen[t].account, subject |-> plan[t].who, nonce |-> t]

CookiesFrom(t) ==
  \A b \in Browser :
    /\ jar'[b].session \in {None, jar[b].session, seen[t].session}
    /\ \/ jar'[b].setup \in {None, jar[b].setup}
       \/ pc[t] = "land" /\ jar'[b].setup = NewSetup(t)

LEMMA SetCookiesFrom ==
  ASSUME Typed, NEW t \in Task, NEW cookies, SetCookies(t, cookies), plan[t].browser \in Browser,
         cookies.session \in {None, jar[plan[t].browser].session, seen[t].session},
         \/ cookies.setup \in {None, jar[plan[t].browser].setup}
         \/ pc[t] = "land" /\ cookies.setup = NewSetup(t)
  PROVE  CookiesFrom(t)
BY TypesAre DEF Typed, SetCookies, CookiesFrom

LEMMA DenyCookies ==
  ASSUME Typed, NEW t \in Task, plan[t].kind = "signin", NEW code, Deny(t, code)
  PROVE  CookiesFrom(t)
<1>1. plan[t].browser \in Browser /\ jar[plan[t].browser] \in Jar
  BY PlanFacts, Now DEF Typed, OfBrowser
<1> QED  BY <1>1, SetCookiesFrom DEF Deny, Jar

LEMMA CookiesPass ==
  ASSUME Typed, NEW t \in Task, Step(t)
  PROVE  CookiesFrom(t)
<1> DEFINE b == plan[t].browser
<1>1. plan[t].kind \in OfBrowser => b \in Browser /\ jar[b] \in Jar
  BY PlanFacts, Now DEF Typed
<1>2. CASE UNCHANGED jar
  BY <1>2 DEF CookiesFrom
<1>3. CASE SignInStep(t)
  <2>1. CASE BeginSignIn(t)
    <3>1. b \in Browser
      BY <1>1, <2>1 DEF BeginSignIn, Ready, OfBrowser
    <3>2. jar \in [Browser -> Jar]
      BY TypesAre DEF Typed
    <3>3. \A c \in Browser : jar'[c].session = jar[c].session /\ jar'[c].setup = jar[c].setup
      BY <2>1, <3>1, <3>2 DEF BeginSignIn, Jar
    <3> QED  BY <3>3 DEF CookiesFrom
  <2>2. ASSUME NEW code, Deny(t, code), pc[t] \in SignInSteps PROVE CookiesFrom(t)
    BY <2>2, DenyCookies DEF Typed, StepsKnow
  <2>3. CASE Callback(t) \/ LookUpSubject(t) \/ LookUpAddress(t) \/ Enrol(t)
             \/ FindUser(t) \/ CheckAccount(t) \/ InsertSession(t)
    <3>1. (\E code : Deny(t, code)) \/ UNCHANGED jar
      BY <2>3 DEF Callback, LookUpSubject, LookUpAddress, Enrol, FindUser, CheckAccount,
         InsertSession
    <3>2. pc[t] \in SignInSteps
      BY <2>3 DEF Callback, LookUpSubject, LookUpAddress, Enrol, FindUser, CheckAccount,
         InsertSession, SignInSteps
    <3> QED  BY <1>2, <2>2, <3>1, <3>2
  <2>4. CASE Land(t)
    <3>1. b \in Browser
      BY <1>1, <2>4 DEF Land, Typed, StepsKnow, SignInSteps, OfBrowser
    <3>2. pc[t] = "land" /\ SetCookies(t, Landed(t))
      BY <2>4, LandMoves
    <3> QED  BY <3>1, <3>2, LandedSetup, SetCookiesFrom DEF NewSetup
  <2>5. CASE SignOut(t)
    BY <1>2, <2>5 DEF SignOut
  <2>6. CASE AnswerSignOut(t)
    <3>1. plan[t].kind \in OfBrowser
      BY <2>6 DEF AnswerSignOut, Typed, StepsKnow, OfBrowser
    <3>2. CASE SetCookies(t, [jar[b] EXCEPT !.session = None, !.setup = None, !.flow = None])
      BY <1>1, <3>1, <3>2, SetCookiesFrom DEF Jar
    <3> QED  BY <1>2, <2>6, <3>2 DEF AnswerSignOut
  <2>7. CASE GetSession(t)
    <3>1. plan[t].kind \in OfBrowser
      BY <2>7 DEF GetSession, Ready, OfBrowser
    <3>2. CASE SetCookies(t, [jar[b] EXCEPT !.session = None])
      BY <1>1, <3>1, <3>2, SetCookiesFrom DEF Jar
    <3> QED  BY <1>2, <2>7, <3>2 DEF GetSession
  <2>8. CASE UpdateSession(t)
    <3>1. plan[t].kind \in OfBrowser
      BY <2>8 DEF UpdateSession, Typed, StepsKnow, OfBrowser
    <3>2. SetCookies(t, [jar[b] EXCEPT !.session = seen[t].session])
      BY <2>8 DEF UpdateSession
    <3> QED  BY <1>1, <3>1, <3>2, SetCookiesFrom DEF Jar
  <2> QED  BY <1>3, <2>1, <2>3, <2>4, <2>5, <2>6, <2>7, <2>8 DEF SignInStep
<1>4. CASE SetupStep(t)
  <2>1. ASSUME Succeed(t), pc[t] \in SetupSteps PROVE CookiesFrom(t)
    <3>1. plan[t].kind \in OfBrowser
      BY <2>1 DEF Typed, StepsKnow, OfBrowser
    <3>2. SetCookies(t, [jar[b] EXCEPT !.setup = None])
      BY <2>1 DEF Succeed
    <3> QED  BY <1>1, <3>1, <3>2, SetCookiesFrom DEF Jar
  <2>2. UNCHANGED jar \/ (Succeed(t) /\ pc[t] \in SetupSteps)
    BY <1>4, ChooseMoves
       DEF SetupStep, Visit, AskForCompany, FindSession, LockAccount, WriteWorkspace, Refuse,
           SetupSteps
  <2> QED  BY <1>2, <2>1, <2>2
<1>5. CASE Operate(t)
  <2>1. CASE PassTime(t)
    <3>1. jar \in [Browser -> Jar]
      BY TypesAre DEF Typed
    <3>2. plan[t].kind \in OfBrowser \/ UNCHANGED jar
      BY <2>1 DEF PassTime, OfBrowser
    <3>3. CASE plan[t].kind \in OfBrowser
      <4>1. \/ jar' = jar \/ jar' = [jar EXCEPT ![b].flow = None]
            \/ jar' = [jar EXCEPT ![b].flow.sound = FALSE]
            \/ jar' = [jar EXCEPT ![b].flow.of = t]
        BY <2>1 DEF PassTime, Ready
      <4>2. \A c \in Browser : jar'[c].session = jar[c].session /\ jar'[c].setup = jar[c].setup
        BY <1>1, <3>1, <3>3, <4>1 DEF Jar
      <4> QED  BY <4>2 DEF CookiesFrom
    <3> QED  BY <1>2, <3>2, <3>3
  <2>2. PassTime(t) \/ UNCHANGED jar
    BY <1>5 DEF Operate, Provision, RevokeSessions, SetStatus, ChangeCompanies
  <2> QED  BY <1>2, <2>1, <2>2
<1> QED  BY <1>3, <1>4, <1>5 DEF Step

(* What a request knows of sessions and setups is from its browser.        *)
KnowsFrom(t) ==
  LET b == plan[t].browser
  IN  /\ \/ seen'[t].session = seen[t].session
         \/ b \in Browser /\ seen'[t].session = jar[b].session
         \/ pc[t] = "insert" /\ seen'[t].session = t
      /\ \/ seen'[t].setup \in {None, seen[t].setup}
         \/ b \in Browser /\ seen'[t].setup = jar[b].setup

LEMMA KnowledgePasses ==
  ASSUME Typed, NEW t \in Task, Step(t)
  PROVE  KnowsFrom(t)
<1> DEFINE b == plan[t].browser
<1>1. seen \in [Task -> Known]
  BY TypesAre DEF Typed
<1>2. plan[t].kind \in OfBrowser => b \in Browser
  BY PlanFacts DEF Typed
<1>3. CASE UNCHANGED seen
  BY <1>3 DEF KnowsFrom
<1>4. CASE Callback(t) \/ SignOut(t) \/ GetSession(t) \/ AskForCompany(t)
  <2>1. b \in Browser
    BY <1>2, <1>4
       DEF Callback, SignOut, GetSession, AskForCompany, Ready, OfBrowser, Typed, StepsKnow,
           SignInSteps
  <2>2. CASE Callback(t)
    BY <1>1, <1>3, <2>1, <2>2 DEF Callback, Deny, KnowsFrom
  <2>3. CASE SignOut(t) \/ GetSession(t)
    BY <1>1, <1>3, <2>1, <2>3 DEF SignOut, GetSession, Known, KnowsFrom
  <2>4. CASE AskForCompany(t)
    <3>1. CASE seen' = [seen EXCEPT ![t].session = jar[b].session,
                 ![t].setup = IF plan[t].choice = "forgotten" THEN None
                              ELSE ReadSetup(jar[b].setup)]
      BY <1>1, <2>1, <3>1 DEF Known, KnowsFrom, ReadSetup
    <3> QED  BY <1>3, <2>4, <3>1 DEF AskForCompany
  <2> QED  BY <1>4, <2>2, <2>3, <2>4
<1>5. CASE LookUpSubject(t) \/ LookUpAddress(t) \/ InsertSession(t) \/ FindSession(t)
  BY <1>1, <1>3, <1>5
     DEF LookUpSubject, LookUpAddress, InsertSession, FindSession, Deny, Refuse, Known, KnowsFrom
<1>6. \/ UNCHANGED seen
      \/ Callback(t) \/ SignOut(t) \/ GetSession(t) \/ AskForCompany(t)
      \/ LookUpSubject(t) \/ LookUpAddress(t) \/ InsertSession(t) \/ FindSession(t)
  BY ChooseMoves, LandMoves
     DEF Step, SignInStep, SetupStep, Operate, BeginSignIn, Enrol, FindUser, CheckAccount,
         AnswerSignOut, UpdateSession, Visit, LockAccount, WriteWorkspace, Provision,
         RevokeSessions, SetStatus, ChangeCompanies, PassTime, Deny, Refuse
<1> QED  BY <1>3, <1>4, <1>5, <1>6

(* A session that is inserted has a place in the order of things: after    *)
(* the step that makes it, whoever knows of it.                            *)
Made(x) == x # None => pc[x] \in {"land", "done"}

(* A row, a cookie and a request never name a session before it is made.   *)
SessionsAreMade ==
  /\ \A t \in Task : session[t] # None => pc[t] \in {"land", "done"}
  /\ \A b \in Browser : Made(jar[b].session)
  /\ \A t \in Task : Made(seen[t].session)

(* What a sign-out was asked to delete is gone, unless the deletion failed. *)
SignOutsDelete ==
  \A t \in Task :
    plan[t].kind = "signout" /\ pc[t] \in {"answer", "done"} /\ plan[t].fault # "database"
      /\ seen[t].session # None => session[seen[t].session] = None

AnswersAreTrue ==
  \A t \in Task : reply[t] = "signedout" => pc[t] = "done" /\ ~DeletionFailed(t)

SessionsInv == Typed /\ SessionsAreMade /\ SignOutsDelete /\ AnswersAreTrue

LEMMA MadeStays ==
  ASSUME SessionsInv, NEW t \in Task, Step(t)
  PROVE  SessionsAreMade'
<1>1. Typed /\ Typed' /\ Advances(t) /\ Task' = Task
  BY TypedStep, StepAdvances DEF SessionsInv, Next, Advances, Task
<1>2. \A u \in Task : pc[u] \in {"land", "done"} => pc'[u] \in {"land", "done"}
  BY <1>1 DEF Advances, Others, Follows
<1>3. pc[t] = "insert" => pc'[t] = "land"
  BY <1>1 DEF Advances, Follows
<1>4. \A u \in Task : session'[u] # None => pc'[u] \in {"land", "done"}
  BY <1>1, <1>2, <1>3, SessionChanges DEF SessionsInv, SessionsAreMade
<1>5. /\ \A u \in Task : seen[u].session \in Task \cup {None}
      /\ \A b \in Browser : jar[b].session \in Task \cup {None}
  BY <1>1, Now DEF Known, Jar
<1>6. ASSUME NEW x \in Task \cup {None}, Made(x) PROVE Made(x)'
  BY <1>2, <1>6 DEF Made
<1>7. \A b \in Browser : Made(jar[b].session)'
  <2> SUFFICES ASSUME NEW b \in Browser, jar'[b].session # None
               PROVE  pc'[jar'[b].session] \in {"land", "done"}
    BY DEF Made
  <2>1. jar'[b].session \in {jar[b].session, seen[t].session}
    BY <1>1, CookiesPass DEF CookiesFrom
  <2> QED  BY <1>2, <1>5, <2>1 DEF SessionsInv, SessionsAreMade, Made
<1>8. \A u \in Task : Made(seen[u].session)'
  <2> SUFFICES ASSUME NEW u \in Task, seen'[u].session # None
               PROVE  pc'[seen'[u].session] \in {"land", "done"}
    BY DEF Made
  <2>1. CASE u # t
    BY <1>1, <1>2, <1>5, <2>1 DEF SessionsInv, SessionsAreMade, Made, Advances, Others
  <2>2. CASE u = t
    <3>1. \/ seen'[t].session = seen[t].session
          \/ \E b \in Browser : seen'[t].session = jar[b].session
          \/ pc[t] = "insert" /\ seen'[t].session = t
      BY <1>1, KnowledgePasses DEF KnowsFrom
    <3> QED  BY <1>2, <1>3, <1>5, <2>2, <3>1 DEF SessionsInv, SessionsAreMade, Made
  <2> QED  BY <2>1, <2>2
<1> QED  BY <1>1, <1>4, <1>7, <1>8 DEF SessionsAreMade

(* A request that signs out deletes first and answers then.                *)
LEMMA SignOutSteps ==
  ASSUME Typed, NEW t \in Task, Step(t)
  PROVE  /\ plan[t].kind = "signout" /\ pc[t] = "wait" => SignOut(t)
         /\ pc[t] = "answer" => AnswerSignOut(t)
         /\ pc[t] = "wait" /\ pc'[t] = "answer" => SignOut(t)
<1>1. pc[t] = "answer" => AnswerSignOut(t)
  BY DEF Step, SignInStep, SetupStep, Operate, BeginSignIn, Callback, LookUpSubject,
     LookUpAddress, Enrol, FindUser, CheckAccount, InsertSession, Land, SignOut,
     GetSession, UpdateSession, Visit, AskForCompany, FindSession, LockAccount,
     ChooseWorkspace, WriteWorkspace, Provision, RevokeSessions, SetStatus,
     ChangeCompanies, PassTime, Ready
<1>2. plan[t].kind = "signout" /\ pc[t] = "wait" => SignOut(t)
  BY DEF Step, SignInStep, SetupStep, Operate, BeginSignIn, Callback, LookUpSubject,
     LookUpAddress, Enrol, FindUser, CheckAccount, InsertSession, Land, AnswerSignOut,
     GetSession, UpdateSession, Visit, AskForCompany, FindSession, LockAccount,
     ChooseWorkspace, WriteWorkspace, Provision, RevokeSessions, SetStatus,
     ChangeCompanies, PassTime, Ready
<1>3. pc[t] = "wait" /\ pc'[t] = "answer" => plan[t].kind = "signout"
  <2>1. Typed' /\ plan' = plan /\ Task' = Task
    BY TypedStep, StepAdvances DEF Next, Advances, Task
  <2> QED  BY <2>1 DEF Typed, StepsKnow
<1> QED  BY <1>1, <1>2, <1>3

(* "signedout" is what a sign-out whose deletion went well is told.        *)
LEMMA SignedOutAnswer ==
  ASSUME Typed, NEW t \in Task, Step(t), reply'[t] = "signedout"
  PROVE  reply[t] = "signedout" \/ (AnswerSignOut(t) /\ ~DeletionFailed(t))
<1> USE TypesAre DEF Typed, Go, Done
<1>1. CASE SignInStep(t)
  <2>1. ASSUME NEW code \in AuthFailure, Deny(t, code) PROVE FALSE
    BY <2>1 DEF Deny, AuthFailure
  <2>2. CASE Callback(t)
    BY <2>1, <2>2 DEF Callback, CallbackError, AuthFailure
  <2>3. CASE LookUpSubject(t) \/ LookUpAddress(t) \/ Enrol(t) \/ FindUser(t) \/ CheckAccount(t)
             \/ InsertSession(t)
    BY <2>1, <2>3 DEF LookUpSubject, LookUpAddress, Enrol, FindUser, CheckAccount, InsertSession,
       AuthFailure
  <2>4. CASE Land(t)
    BY <2>4, LandMoves DEF Destination
  <2>5. CASE BeginSignIn(t) \/ SignOut(t) \/ GetSession(t) \/ UpdateSession(t)
    BY <2>5 DEF BeginSignIn, SignOut, GetSession, UpdateSession
  <2>6. CASE AnswerSignOut(t)
    BY <2>6 DEF AnswerSignOut
  <2> QED  BY <1>1, <2>2, <2>3, <2>4, <2>5, <2>6 DEF SignInStep
<1>2. CASE SetupStep(t)
  <2>1. ASSUME NEW code \in CompanySetupCode, Refuse(t, code) PROVE FALSE
    BY <2>1 DEF Refuse, CompanySetupCode
  <2>2. CASE Visit(t)
    BY <2>2 DEF Visit, PersonPage, SetupPage
  <2>3. CASE AskForCompany(t)
    BY <2>3 DEF AskForCompany
  <2>4. CASE FindSession(t) \/ LockAccount(t) \/ WriteWorkspace(t)
    BY <2>1, <2>4 DEF FindSession, LockAccount, WriteWorkspace, Succeed, CompanySetupCode
  <2>5. CASE ChooseWorkspace(t)
    BY <2>1, <2>5, ChooseMoves DEF Succeed
  <2> QED  BY <1>2, <2>2, <2>3, <2>4, <2>5 DEF SetupStep
<1>3. CASE Operate(t)
  BY <1>3 DEF Operate, Provision, RevokeSessions, SetStatus, ChangeCompanies, PassTime, Ready
<1> QED  BY <1>1, <1>2, <1>3 DEF Step

LEMMA SessionsStep ==
  ASSUME SessionsInv, [Next]_vars
  PROVE  SessionsInv'
<1>1. Typed'
  BY TypedStep DEF SessionsInv
<1>2. CASE UNCHANGED vars
  <2>1. UNCHANGED <<plan, pc, seen, reply, jar, session>>
    BY <1>2 DEF vars, steps, rows
  <2> QED
    BY <1>1, <2>1 DEF SessionsInv, SessionsAreMade, Made, SignOutsDelete, AnswersAreTrue,
       DeletionFailed, Task
<1>3. ASSUME NEW t \in Task, Step(t) PROVE SessionsInv'
  <2>1. Typed /\ Advances(t) /\ plan' = plan /\ Task' = Task
    BY <1>3, StepAdvances DEF SessionsInv, Advances, Task
  <2>2. SessionsAreMade'
    BY <1>3, MadeStays
  <2>3. ASSUME NEW u \in Task, plan[u].kind = "signout", pc'[u] \in {"answer", "done"},
               plan[u].fault # "database", seen'[u].session # None
        PROVE  session'[seen'[u].session] = None
    <3>1. CASE pc[u] \in {"answer", "done"} /\ seen'[u] = seen[u]
      <4>1. /\ session[seen[u].session] = None /\ pc[seen[u].session] \in {"land", "done"}
            /\ seen[u].session \in Task
        BY <2>1, <2>3, <3>1, Now
           DEF SessionsInv, SignOutsDelete, SessionsAreMade, Made, Known
      <4> QED  BY <1>3, <2>1, <3>1, <4>1, SessionChanges
    <3>2. CASE u = t /\ pc[u] = "wait"
      <4>1. SignOut(t)
        BY <1>3, <2>1, <2>3, <3>2, SignOutSteps
      <4>2. seen'[t].session = jar[plan[t].browser].session
        BY <2>1, <4>1, TypesAre DEF SignOut, Typed, Known
      <4>3. seen'[t].session \in Task
        <5>1. plan[t].browser \in Browser
          BY <2>1, <2>3, <3>2, PlanFacts DEF Typed, OfBrowser
        <5>2. jar[plan[t].browser].session \in Task \cup {None}
          BY <2>1, <5>1, Now DEF Jar
        <5> QED  BY <2>3, <3>2, <4>2, <5>2
      <4>4. session'[seen'[t].session] = None
        <5>1. plan[t].fault # "database"
          BY <2>3, <3>2
        <5> QED  BY <4>1, <4>2, <4>3, <5>1 DEF SignOut
      <4> QED  BY <3>2, <4>4
    <3>3. \/ pc[u] \in {"answer", "done"} /\ seen'[u] = seen[u]
          \/ u = t /\ pc[u] = "wait"
      <4>1. CASE u # t
        BY <2>1, <2>3, <4>1 DEF Advances, Others
      <4>2. CASE u = t
        <5>1. pc[t] \in {"wait", "answer"}
          BY <2>1, <2>3, <4>2 DEF Advances, Follows, Typed, StepsKnow, SignInSteps, SetupSteps
        <5>2. pc[t] = "answer" => seen'[t] = seen[t]
          BY <1>3, <2>1, SignOutSteps DEF AnswerSignOut
        <5> QED  BY <4>2, <5>1, <5>2
      <4> QED  BY <4>1, <4>2
    <3> QED  BY <3>1, <3>2, <3>3
  <2>4. ASSUME NEW u \in Task, reply'[u] = "signedout"
        PROVE  pc'[u] = "done" /\ ~DeletionFailed(u)'
    <3>1. CASE reply[u] = "signedout"
      <4>1. pc[u] = "done" /\ ~DeletionFailed(u) /\ u # t
        BY <2>1, <3>1 DEF SessionsInv, AnswersAreTrue, Advances, Follows
      <4> QED  BY <2>1, <4>1 DEF Advances, Others, DeletionFailed
    <3>2. CASE reply[u] # "signedout"
      <4>1. u = t
        BY <2>1, <2>4, <3>2 DEF Advances, Others
      <4>2. AnswerSignOut(t) /\ ~DeletionFailed(t)
        BY <1>3, <2>1, <2>4, <3>2, <4>1, SignedOutAnswer
      <4>3. pc'[t] = "done" /\ seen' = seen
        BY <4>2, <2>1, TypesAre DEF AnswerSignOut, Done, Typed
      <4> QED  BY <2>1, <4>1, <4>2, <4>3 DEF DeletionFailed
    <3> QED  BY <3>1, <3>2
  <2> QED  BY <1>1, <2>1, <2>2, <2>3, <2>4 DEF SessionsInv, SignOutsDelete, AnswersAreTrue
<1> QED  BY <1>2, <1>3 DEF Next, Stop

LEMMA SessionsInit ==
  ASSUME Init
  PROVE  SessionsInv
BY TypedInit DEF Init, SessionsInv, SessionsAreMade, Made, SignOutsDelete, AnswersAreTrue, Nothing

LEMMA SessionsInvariant ==
  Spec => []SessionsInv
BY SessionsInit, SessionsStep, PTL DEF Spec

(* A browser that was sent to the provider's logout left no session        *)
(* behind, whatever other tabs did (handleAuthentication).                 *)
THEOREM SignedOutStaysGone ==
  Spec => []SignedOutMeansGone
<1>1. ASSUME SessionsInv PROVE SignedOutMeansGone
  BY <1>1 DEF SessionsInv, SignOutsDelete, AnswersAreTrue, DeletionFailed, SignedOutMeansGone
<1> QED  BY <1>1, SessionsInvariant, PTL

(* A session that was signed out, revoked or is past its deadline never    *)
(* works again, though requests that had resolved it go on (updateSession). *)
THEOREM SessionsEndForGood ==
  Spec => EndedSessionsStayEnded
<1>1. ASSUME SessionsInv, [Next]_vars
      PROVE  [\A t \in Task :
                pc[t] \in {"land", "done"} /\ ~Alive(t) => ~Alive(t)']_vars
  <2>1. ASSUME NEW t \in Task, Step(t), NEW u \in Task, pc[u] \in {"land", "done"}, ~Alive(u)
        PROVE  ~Alive(u)'
    BY <1>1, <2>1, SessionChanges DEF SessionsInv, Alive
  <2> QED  BY <1>1, <2>1 DEF Next, Stop
<1> QED  BY <1>1, SessionsInvariant, PTL DEF Spec, EndedSessionsStayEnded

(* A session is of the subject that signed in and of the account this      *)
(* subject's identity names.                                               *)
SessionsOwned ==
  \A t \in Task : session[t] # None =>
    /\ plan[t].who \in Subject /\ session[t].account # None
    /\ session[t] = [account |-> identity[plan[t].who], subject |-> plan[t].who]

OwnersInv == AccountsInv /\ SessionsOwned

LEMMA OwnersStep ==
  ASSUME OwnersInv, [Next]_vars
  PROVE  OwnersInv'
<1>1. AccountsInv'
  BY AccountsStep DEF OwnersInv
<1>2. CASE UNCHANGED vars
  BY <1>1, <1>2 DEF OwnersInv, SessionsOwned, vars, steps, rows, Task
<1>3. ASSUME NEW t \in Task, Step(t) PROVE OwnersInv'
  <2>1. Typed /\ plan' = plan /\ Task' = Task
    BY <1>3, StepAdvances DEF OwnersInv, AccountsInv, Advances, Task
  <2>2. ASSUME NEW u \in Task, session'[u] # None, session'[u] = session[u]
        PROVE  /\ plan[u].who \in Subject /\ session'[u].account # None
               /\ session'[u] = [account |-> identity'[plan[u].who], subject |-> plan[u].who]
    <3>1. /\ plan[u].who \in Subject /\ session[u].account # None
          /\ session[u] = [account |-> identity[plan[u].who], subject |-> plan[u].who]
      BY <2>2 DEF OwnersInv, SessionsOwned
    <3>2. identity[plan[u].who] # None
      BY <3>1
    <3>3. identity'[plan[u].who] = identity[plan[u].who]
      BY <1>3, <3>1, <3>2, IdentitiesStay DEF OwnersInv
    <3> QED  BY <2>2, <3>1, <3>3
  <2>3. ASSUME pc[t] = "insert"
        PROVE  /\ plan[t].who \in Subject /\ session'[t].account # None
               /\ session'[t] = [account |-> identity'[plan[t].who], subject |-> plan[t].who]
    <3>1. InsertSession(t)
      BY <1>3, <2>3 DEF Step, SignInStep, SetupStep, Operate, BeginSignIn, Callback,
         LookUpSubject, LookUpAddress, Enrol, FindUser, CheckAccount, Land, SignOut,
         AnswerSignOut, GetSession, UpdateSession, Visit, AskForCompany, FindSession,
         LockAccount, ChooseWorkspace, WriteWorkspace, Provision, RevokeSessions,
         SetStatus, ChangeCompanies, PassTime, Ready
    <3>2. session'[t] = [account |-> seen[t].account, subject |-> plan[t].who]
          /\ identity' = identity
      BY <3>1 DEF InsertSession
    <3>3. /\ plan[t].who \in Subject /\ seen[t].account # None
          /\ seen[t].account = identity[plan[t].who]
      BY <2>1, <2>3, PlanFacts
         DEF OwnersInv, AccountsInv, KnowsAccount, Typed, StepsKnow, SignInSteps
    <3> QED  BY <3>2, <3>3
  <2>4. SessionsOwned'
    <3> SUFFICES ASSUME NEW u \in Task, session'[u] # None
                 PROVE  /\ plan[u].who \in Subject /\ session'[u].account # None
                        /\ session'[u] = [account |-> identity'[plan[u].who],
                                         subject |-> plan[u].who]
      BY <2>1 DEF SessionsOwned
    <3>1. session'[u] = session[u] \/ (u = t /\ pc[t] = "insert")
      BY <1>3, <2>1, SessionChanges
    <3> QED  BY <2>2, <2>3, <3>1
  <2> QED  BY <1>1, <2>4 DEF OwnersInv
<1> QED  BY <1>2, <1>3 DEF Next, Stop

(* A sign-in that raced others and operators gives its browser a session   *)
(* of the account of the subject the provider vouched for, for as long as  *)
(* the session lasts (createSession after resolveOnboardingIdentity).      *)
THEOREM SessionsAreTheirOwners ==
  Spec => []SessionsOwned
<1>1. Init => OwnersInv
  BY AccountsInit DEF Init, OwnersInv, SessionsOwned
<1>2. OwnersInv /\ [Next]_vars => OwnersInv'
  BY OwnersStep
<1> QED  BY <1>1, <1>2, PTL DEF Spec, OwnersInv

----------------------------------------------------------------------------
(* The setups in cookies and requests.                                     *)

(* A setup is for the subject of the sign-in that began it, and its account. *)
SetupTrue(x) ==
  x # None => x.subject = plan[x.nonce].who /\ x.account = identity[x.subject]

SetupsTrue ==
  /\ \A b \in Browser : SetupTrue(jar[b].setup)
  /\ \A t \in Task : SetupTrue(seen[t].setup)

SetupsInv == AccountsInv /\ SetupsTrue

LEMMA SetupsStep ==
  ASSUME SetupsInv, [Next]_vars
  PROVE  SetupsInv'
<1>1. AccountsInv'
  BY AccountsStep DEF SetupsInv
<1>2. CASE UNCHANGED vars
  <2>1. UNCHANGED <<plan, seen, jar, identity>>
    BY <1>2 DEF vars, steps, rows
  <2> QED  BY <1>1, <2>1 DEF SetupsInv, SetupsTrue, SetupTrue, Task
<1>3. ASSUME NEW t \in Task, Step(t) PROVE SetupsInv'
  <2>1. Typed /\ AccountsInv /\ Advances(t) /\ plan' = plan /\ Task' = Task
    BY <1>3, StepAdvances DEF SetupsInv, AccountsInv, Advances, Task
  <2>2. ASSUME NEW x \in CompanySetupState \cup {None}, SetupTrue(x)
        PROVE  x # None => x.subject = plan'[x.nonce].who /\ x.account = identity'[x.subject]
    <3>1. CASE x # None
      <4>1. x.subject \in Subject /\ x.account \in Task /\ x.account # None
        BY <2>1, <3>1, PlanFacts DEF CompanySetupState, Typed
      <4> QED  BY <1>3, <2>1, <2>2, <3>1, <4>1, IdentitiesStay DEF SetupTrue
    <3> QED  BY <3>1
  <2>3. /\ \A b \in Browser : jar[b].setup \in CompanySetupState \cup {None}
        /\ \A u \in Task : seen[u].setup \in CompanySetupState \cup {None}
    BY <2>1, Now DEF Jar, Known
  <2>4. /\ \A b \in Browser : SetupTrue(jar[b].setup)
        /\ \A u \in Task : SetupTrue(seen[u].setup)
    BY DEF SetupsInv, SetupsTrue
  <2>5. ASSUME NEW b \in Browser PROVE SetupTrue(jar[b].setup)'
    <3>1. CASE jar'[b].setup \in {None, jar[b].setup}
      BY <2>2, <2>3, <2>4, <3>1 DEF SetupTrue
    <3>2. CASE pc[t] = "land" /\ jar'[b].setup = NewSetup(t)
      <4>1. plan[t].who \in Subject /\ seen[t].account = identity[plan[t].who]
            /\ seen[t].account # None
        BY <2>1, <3>2, PlanFacts
           DEF AccountsInv, KnowsAccount, Typed, StepsKnow, SignInSteps
      <4>2. identity'[plan[t].who] = seen[t].account
        BY <1>3, <2>1, <4>1, IdentitiesStay
      <4> QED  BY <2>1, <3>2, <4>2 DEF NewSetup, SetupTrue
    <3> QED  BY <1>3, <2>1, <3>1, <3>2, CookiesPass DEF CookiesFrom
  <2>6. ASSUME NEW u \in Task PROVE SetupTrue(seen[u].setup)'
    <3>1. \/ seen'[u].setup \in {None, seen[u].setup}
          \/ \E b \in Browser : seen'[u].setup = jar[b].setup
      BY <1>3, <2>1, KnowledgePasses DEF Advances, Others, KnowsFrom
    <3> QED  BY <2>2, <2>3, <2>4, <3>1 DEF SetupTrue
  <2> QED  BY <1>1, <2>1, <2>5, <2>6 DEF SetupsInv, SetupsTrue
<1> QED  BY <1>2, <1>3 DEF Next, Stop

----------------------------------------------------------------------------
(* The requests for a company.                                             *)

InSetup == {"choose", "write"}

(* The session that a request has resolved is of its account while it lives. *)
ResolvedAccount ==
  \A t \in Task : pc[t] \in {"row", "choose", "write"} /\ session[seen[t].session] # None =>
    session[seen[t].session].account = seen[t].account

(* Under the lock, the setup is for the account that asks.                 *)
AskedBySelf ==
  \A t \in Task : pc[t] \in InSetup /\ seen[t].setup # None =>
    seen[t].setup.account = seen[t].account

(* One request of an account is under the lock of its row.                 *)
OneInSetup ==
  \A t, u \in Task :
    pc[t] \in InSetup /\ pc[u] \in InSetup /\ seen[t].account = seen[u].account => t = u

RequestsInv == SetupsInv /\ SessionsInv /\ ResolvedAccount /\ AskedBySelf /\ OneInSetup

(* How a request for a company goes on.                                    *)
LEMMA SetupMoves ==
  ASSUME Typed, NEW t \in Task, Step(t), pc'[t] \in {"row", "choose", "write"}
  PROVE  \/ /\ FindSession(t) /\ pc[t] = "session" /\ pc'[t] = "row"
            /\ session[seen[t].session] # None
            /\ seen'[t].session = seen[t].session
            /\ seen'[t].account = session[seen[t].session].account
         \/ /\ LockAccount(t) /\ pc[t] = "row" /\ pc'[t] = "choose" /\ seen' = seen
            /\ ~RowLocked(seen[t].account) /\ Usable(seen[t].session)
            /\ SameIdentity(seen[t].setup, session[seen[t].session].account,
                            session[seen[t].session].subject)
         \/ /\ ChooseWorkspace(t) /\ pc[t] = "choose" /\ pc'[t] = "write" /\ seen' = seen
            /\ ~Member(seen[t].account)
<1>1. Follows(pc[t], pc'[t])
  BY StepAdvances DEF Advances
<1>2. pc[t] \in {"session", "row", "choose"}
  BY <1>1 DEF Follows
<1>3. FindSession(t) \/ LockAccount(t) \/ ChooseWorkspace(t)
  BY <1>2 DEF Step, SignInStep, SetupStep, Operate, BeginSignIn, Callback, LookUpSubject,
     LookUpAddress, Enrol, FindUser, CheckAccount, InsertSession, Land, SignOut,
     AnswerSignOut, GetSession, UpdateSession, Visit, AskForCompany, WriteWorkspace, Provision,
     RevokeSessions, SetStatus, ChangeCompanies, PassTime, Ready
<1>4. pc \in [Task -> Steps] /\ seen \in [Task -> Known]
  BY TypesAre DEF Typed
<1>5. \A code : ~Refuse(t, code) /\ ~Succeed(t)
  BY <1>4 DEF Refuse, Succeed, Done
<1>6. CASE FindSession(t)
  <2>1. /\ session[seen[t].session] # None /\ Go(t, "row") /\ pc[t] = "session"
        /\ seen' = [seen EXCEPT ![t].account = session[seen[t].session].account]
    BY <1>5, <1>6 DEF FindSession
  <2>2. pc'[t] = "row"
    BY <1>4, <2>1 DEF Go
  <2>3. seen'[t].account = session[seen[t].session].account /\ seen'[t].session = seen[t].session
    BY <1>4, <2>1 DEF Known
  <2> QED  BY <1>6, <2>1, <2>2, <2>3
<1>7. CASE LockAccount(t)
  <2>1. /\ Go(t, "choose") /\ pc[t] = "row" /\ seen' = seen
        /\ ~RowLocked(seen[t].account) /\ Usable(seen[t].session)
        /\ SameIdentity(seen[t].setup, session[seen[t].session].account,
                        session[seen[t].session].subject)
    BY <1>5, <1>7 DEF LockAccount
  <2>2. pc'[t] = "choose"
    BY <1>4, <2>1 DEF Go
  <2> QED  BY <1>7, <2>1, <2>2
<1>8. CASE ChooseWorkspace(t)
  <2>1. /\ Go(t, "write") /\ pc[t] = "choose" /\ seen' = seen /\ ~Member(seen[t].account)
    BY <1>5, <1>8, ChooseMoves
  <2>2. pc'[t] = "write"
    BY <1>4, <2>1 DEF Go
  <2> QED  BY <1>8, <2>1, <2>2
<1> QED  BY <1>3, <1>6, <1>7, <1>8

LEMMA RequestsStep ==
  ASSUME RequestsInv, [Next]_vars
  PROVE  RequestsInv'
<1>1. SetupsInv' /\ SessionsInv'
  BY SetupsStep, SessionsStep DEF RequestsInv
<1>2. CASE UNCHANGED vars
  <2>1. UNCHANGED <<plan, pc, seen, session>>
    BY <1>2 DEF vars, steps, rows
  <2> QED
    BY <1>1, <2>1 DEF RequestsInv, ResolvedAccount, AskedBySelf, OneInSetup, Task
<1>3. ASSUME NEW t \in Task, Step(t) PROVE RequestsInv'
  <2>1. Typed /\ Advances(t) /\ Task' = Task
    BY <1>3, StepAdvances DEF RequestsInv, SessionsInv, Advances, Task
  <2>2. ASSUME NEW u \in Task, pc'[u] \in {"row", "choose", "write"},
               session'[seen'[u].session] # None
        PROVE  session'[seen'[u].session].account = seen'[u].account
    <3> DEFINE token == seen[u].session
    <3>1. /\ seen'[u].session = token
          /\ session[token] # None => session[token].account = seen'[u].account
          /\ pc[u] \in {"session", "row", "choose", "write"}
      <4>1. CASE u = t
        BY <1>3, <2>1, <2>2, <4>1, SetupMoves DEF RequestsInv, ResolvedAccount
      <4>2. CASE u # t
        BY <2>1, <2>2, <4>2 DEF RequestsInv, ResolvedAccount, Advances, Others
      <4> QED  BY <4>1, <4>2
    <3>2. token \in Task /\ pc[token] \in {"land", "done"}
      BY <2>1, <3>1, Now
         DEF RequestsInv, SessionsInv, SessionsAreMade, Made, Typed, StepsKnow, Known
    <3>3. session'[token] \in {session[token], None}
      BY <1>3, <2>1, <3>2, SessionChanges
    <3> QED  BY <2>2, <3>1, <3>3
  <2>3. ASSUME NEW u \in Task, pc'[u] \in InSetup
        PROVE  /\ seen'[u].setup # None => seen'[u].setup.account = seen'[u].account
               /\ \A w \in Task : pc'[w] \in InSetup /\ seen'[u].account = seen'[w].account
                                  /\ w # t => u = w
    <3>1. CASE u # t
      BY <2>1, <2>3, <3>1 DEF RequestsInv, AskedBySelf, OneInSetup, Advances, Others
    <3>2. CASE u = t /\ LockAccount(t)
      <4>1. /\ pc[t] = "row" /\ seen' = seen /\ ~RowLocked(seen[t].account)
            /\ Usable(seen[t].session)
            /\ SameIdentity(seen[t].setup, session[seen[t].session].account,
                            session[seen[t].session].subject)
        BY <1>3, <2>1, <2>3, <3>2, SetupMoves DEF InSetup, FindSession, LockAccount, ChooseWorkspace
      <4>2. session[seen[t].session].account = seen[t].account
        BY <4>1 DEF Usable, RequestsInv, ResolvedAccount
      <4>3. seen[t].setup # None => seen[t].setup.account = seen[t].account
        BY <4>1, <4>2 DEF SameIdentity, SetupMatches
      <4>4. \A w \in Task \ {t} : pc'[w] \in InSetup => seen[w].account # seen[t].account
        BY <2>1, <4>1 DEF RowLocked, InSetup, Advances, Others
      <4> QED  BY <3>2, <4>1, <4>3, <4>4
    <3>3. CASE u = t /\ ~LockAccount(t)
      <4>1. pc[t] = "choose" /\ seen' = seen
        BY <1>3, <2>1, <2>3, <3>3, SetupMoves DEF InSetup
      <4> QED  BY <2>1, <3>3, <4>1 DEF RequestsInv, AskedBySelf, OneInSetup, Advances, Others, InSetup
    <3> QED  BY <3>1, <3>2, <3>3
  <2>4. ResolvedAccount' /\ AskedBySelf' /\ OneInSetup'
    BY <2>1, <2>2, <2>3 DEF ResolvedAccount, AskedBySelf, OneInSetup
  <2> QED  BY <1>1, <2>4 DEF RequestsInv
<1> QED  BY <1>2, <1>3 DEF Next, Stop

----------------------------------------------------------------------------
(* The companies.                                                          *)

Begun(c) == company[c].status # "NONE"

(* A company is its setup's, and its setup is of the subject who began it. *)
CompaniesAreOfSetups ==
  \A c \in Task :
    /\ ~Begun(c) => company[c].founder = None
    /\ Begun(c) => /\ company[c].flow = c /\ company[c].founder # None
                   /\ plan[c].who \in Subject /\ company[c].founder = identity[plan[c].who]

AtMostOneFounded == \A a \in Task : \A c, d \in Founded(a) : c = d

NoneWhileWriting == \A t \in Task : pc[t] = "write" => Founded(seen[t].account) = {}

CompaniesInv == RequestsInv /\ CompaniesAreOfSetups /\ AtMostOneFounded /\ NoneWhileWriting

(* A company is made by the request that writes it, or ends.               *)
Makes(t, c) ==
  /\ pc[t] = "write" /\ c = CompanyId(t)
  /\ company' = [company EXCEPT ![c] =
       [status |-> "ACTIVE", founder |-> seen[t].account, member |-> TRUE, flow |-> c]]

LEMMA CompanyChanges ==
  ASSUME Typed, NEW t \in Task, Step(t)
  PROVE  company' = company \/ Makes(t, CompanyId(t)) \/ ChangeCompanies(t)
BY ChooseMoves, LandMoves
   DEF Step, SignInStep, SetupStep, Operate, BeginSignIn, Callback, LookUpSubject,
       LookUpAddress, Enrol, FindUser, CheckAccount, InsertSession, SignOut,
       AnswerSignOut, GetSession, UpdateSession, Visit, AskForCompany, FindSession,
       LockAccount, WriteWorkspace, Provision, RevokeSessions,
       SetStatus, PassTime, Deny, Refuse, rows, Makes, CompanyId

LEMMA ChangesEnd ==
  ASSUME CompaniesInv, NEW t \in Task, ChangeCompanies(t)
  PROVE  \A c \in Task :
           /\ company'[c].founder = company[c].founder /\ company'[c].flow = company[c].flow
           /\ Begun(c)' <=> Begun(c)
           /\ company'[c].status = "ACTIVE" => company[c].status = "ACTIVE"
           /\ company'[c].member => company[c].member
<1> TAKE c \in Task
<1> DEFINE a == AccountOf(plan[t].who)
<1>1. company \in [Task -> CompanyRow] /\ company[c] \in CompanyRow
  BY TypesAre DEF CompaniesInv, RequestsInv, SetupsInv, AccountsInv, Typed
<1>2. \/ company'[c] = company[c]
      \/ /\ a # None /\ company[c].founder = a
         /\ company'[c] \in {[company[c] EXCEPT !.member = FALSE],
                             [company[c] EXCEPT !.status = "CLOSED"]}
  BY DEF ChangeCompanies
<1>3. a # None /\ company[c].founder = a => Begun(c)
  BY DEF CompaniesInv, CompaniesAreOfSetups
<1> HIDE DEF a
<1> QED  BY <1>1, <1>2, <1>3 DEF CompanyRow, Begun

LEMMA FoundedShrinks ==
  ASSUME CompaniesInv, NEW t \in Task, Task' = Task, company' = company \/ ChangeCompanies(t),
         NEW a
  PROVE  Founded(a)' \subseteq Founded(a)
BY ChangesEnd DEF Founded

LEMMA CompaniesStep ==
  ASSUME CompaniesInv, [Next]_vars
  PROVE  CompaniesInv'
<1>1. RequestsInv'
  BY RequestsStep DEF CompaniesInv
<1>2. CASE UNCHANGED vars
  <2>1. UNCHANGED <<plan, pc, seen, identity, company>>
    BY <1>2 DEF vars, steps, rows
  <2> QED
    BY <1>1, <2>1 DEF CompaniesInv, CompaniesAreOfSetups, AtMostOneFounded, NoneWhileWriting,
       Begun, Founded, Task
<1>3. ASSUME NEW t \in Task, Step(t) PROVE CompaniesInv'
  <2>1. /\ Typed /\ AccountsInv /\ Advances(t) /\ plan' = plan /\ Task' = Task
        /\ \A s \in Subject : identity[s] # None => identity'[s] = identity[s]
    BY <1>3, StepAdvances, IdentitiesStay
       DEF CompaniesInv, RequestsInv, SetupsInv, AccountsInv, Advances, Task
  <2>2. ASSUME NEW u \in Task, pc'[u] = "write"
        PROVE  /\ seen'[u].account = seen[u].account
               /\ Founded(seen[u].account) = {}
               /\ u # t => pc[u] = "write"
               /\ pc[t] = "write" => u # t
    <3>1. CASE u # t
      BY <2>1, <2>2, <3>1 DEF CompaniesInv, NoneWhileWriting, Advances, Others
    <3>2. CASE u = t
      <4>1. pc[t] = "choose" /\ seen' = seen /\ ~Member(seen[t].account)
        BY <1>3, <2>1, <2>2, <3>2, SetupMoves
      <4> QED  BY <3>2, <4>1 DEF Member
    <3> QED  BY <3>1, <3>2
  <2>3. CASE company' = company \/ ChangeCompanies(t)
    <3>1. \A c \in Task : /\ company'[c].founder = company[c].founder
                          /\ company'[c].flow = company[c].flow
                          /\ Begun(c)' <=> Begun(c)
      BY <2>3, ChangesEnd DEF Begun
    <3>2. CompaniesAreOfSetups'
      BY <2>1, <3>1 DEF CompaniesInv, CompaniesAreOfSetups
    <3>3. AtMostOneFounded' /\ NoneWhileWriting'
      <4>1. \A a \in Task : Founded(a)' \subseteq Founded(a)
        BY <2>1, <2>3, FoundedShrinks
      <4>2. ASSUME NEW u \in Task, pc'[u] = "write" PROVE Founded(seen[u].account)' = {}
        <5>1. ASSUME NEW a, Founded(a) = {} PROVE {c \in Task : company'[c].status = "ACTIVE"
                 /\ company'[c].founder = a /\ company'[c].member} = {}
          BY <2>3, <5>1, ChangesEnd DEF Founded
        <5> QED  BY <2>1, <2>2, <4>2, <5>1 DEF Founded
      <4> QED  BY <2>1, <4>1, <4>2 DEF CompaniesInv, AtMostOneFounded, NoneWhileWriting
    <3> QED  BY <1>1, <3>2, <3>3 DEF CompaniesInv
  <2>4. CASE Makes(t, CompanyId(t))
    <3> DEFINE a == seen[t].account
               setup == seen[t].setup
               c == CompanyId(t)
    <3>1. /\ setup \in CompanySetupState /\ setup # None /\ c = setup.nonce /\ c \in Task
          /\ setup.account = a /\ a \in Task /\ a # None
          /\ plan[c].who \in Subject /\ a = identity[plan[c].who]
      <4>1. pc[t] = "write" /\ setup # None /\ seen[t] \in Known
        BY <2>1, <2>4, Now DEF Makes, Typed, StepsKnow
      <4>2. setup \in CompanySetupState /\ setup.account = a
        BY <4>1 DEF Known, CompaniesInv, RequestsInv, AskedBySelf, InSetup
      <4>3. setup.subject = plan[setup.nonce].who /\ setup.account = identity[setup.subject]
        BY <4>1 DEF CompaniesInv, RequestsInv, SetupsInv, SetupsTrue, SetupTrue
      <4>4. setup.nonce \in Task /\ setup.subject \in Subject /\ setup.account \in Task
        BY <4>2 DEF CompanySetupState
      <4>5. a # None
        BY <2>1, <4>2, <4>4, PlanFacts DEF Typed
      <4> QED  BY <4>1, <4>2, <4>3, <4>4, <4>5 DEF CompanyId
    <3>2. company \in [Task -> CompanyRow] /\ pc[t] = "write"
      BY <2>1, <2>4, TypesAre DEF Typed, Makes
    <3>3. /\ company'[c] = [status |-> "ACTIVE", founder |-> a, member |-> TRUE, flow |-> c]
          /\ \A d \in Task \ {c} : company'[d] = company[d]
      BY <2>4, <3>1, <3>2 DEF Makes
    <3> HIDE DEF c, a, setup
    <3>4. CompaniesAreOfSetups'
      <4> SUFFICES ASSUME NEW d \in Task
                   PROVE  /\ company'[d].status = "NONE" => company'[d].founder = None
                          /\ company'[d].status # "NONE" =>
                               /\ company'[d].flow = d /\ company'[d].founder # None
                               /\ plan[d].who \in Subject
                               /\ company'[d].founder = identity'[plan[d].who]
        BY <2>1 DEF CompaniesAreOfSetups, Begun
      <4>1. CASE d = c
        BY <2>1, <3>1, <3>3, <4>1
      <4>2. CASE d # c
        BY <2>1, <3>3, <4>2 DEF CompaniesInv, CompaniesAreOfSetups, Begun
      <4> QED  BY <4>1, <4>2
    <3>5. Founded(a) = {}
      BY <3>2 DEF CompaniesInv, NoneWhileWriting, a
    <3>6. {d \in Task : company'[d].status = "ACTIVE" /\ company'[d].founder = a
                        /\ company'[d].member} \subseteq {c}
      BY <3>3, <3>5 DEF Founded
    <3>7. ASSUME NEW b, b # a
          PROVE  {d \in Task : company'[d].status = "ACTIVE" /\ company'[d].founder = b
                               /\ company'[d].member} \subseteq Founded(b)
      BY <3>3, <3>7 DEF Founded
    <3>8. AtMostOneFounded'
      <4> SUFFICES ASSUME NEW b \in Task, NEW d \in Founded(b)', NEW e \in Founded(b)'
                   PROVE  d = e
        BY <2>1 DEF AtMostOneFounded
      <4>1. CASE b = a
        BY <2>1, <3>6, <4>1 DEF Founded
      <4>2. CASE b # a
        BY <2>1, <3>7, <4>2 DEF Founded, CompaniesInv, AtMostOneFounded
      <4> QED  BY <4>1, <4>2
    <3>9. NoneWhileWriting'
      <4> SUFFICES ASSUME NEW u \in Task, pc'[u] = "write" PROVE Founded(seen[u].account)' = {}
        BY <2>1 DEF NoneWhileWriting
      <4>1. u # t /\ pc[u] = "write" /\ seen'[u].account = seen[u].account
            /\ Founded(seen[u].account) = {}
        BY <2>2, <3>2
      <4>2. seen[u].account # a
        BY <3>2, <4>1 DEF CompaniesInv, RequestsInv, OneInSetup, InSetup, a
      <4>3. {d \in Task : company'[d].status = "ACTIVE" /\ company'[d].founder = seen[u].account
                          /\ company'[d].member} = {}
        BY <3>7, <4>1, <4>2
      <4> QED  BY <2>1, <4>1, <4>3 DEF Founded
    <3> QED  BY <1>1, <3>4, <3>8, <3>9 DEF CompaniesInv
  <2> QED  BY <1>3, <2>1, <2>3, <2>4, CompanyChanges
<1> QED  BY <1>2, <1>3 DEF Next, Stop

LEMMA CompaniesInit ==
  ASSUME Init
  PROVE  CompaniesInv
<1>1. SetupsInv
  BY AccountsInit DEF Init, SetupsInv, SetupsTrue, SetupTrue, Nothing
<1>2. RequestsInv
  BY <1>1, SessionsInit DEF Init, RequestsInv, ResolvedAccount, AskedBySelf, OneInSetup, InSetup
<1> QED
  BY <1>2 DEF Init, CompaniesInv, CompaniesAreOfSetups, Begun, AtMostOneFounded, Founded,
     NoneWhileWriting

LEMMA CompaniesInvariant ==
  Spec => []CompaniesInv
BY CompaniesInit, CompaniesStep, PTL DEF Spec

(* A request whose setup has made a company finds that company under the   *)
(* setup's nonce before it writes (completeCompanyOnboarding), or its      *)
(* insert fails.                                                           *)
LEMMA SpentSetupStep ==
  ASSUME CompaniesInv, NEW t \in Task, pc[t] \in {"choose", "write"}, pc'[t] # pc[t],
         MadeBy(seen[t].setup) # {}, Next
  PROVE  /\ company' = company
         /\ reply'[t] = "/company" /\ ReadSetup(seen[t].setup) # None =>
              MadeBy(seen[t].setup) \subseteq Founded(seen[t].account)
<1> DEFINE made == MadeBy(seen[t].setup)
<1>1. /\ made = {CompanyId(t)} /\ CompanyId(t) \in Task
      /\ company[CompanyId(t)].status # "NONE" /\ seen[t].setup # None
  BY DEF MadeBy, CompanyId, CompaniesInv, CompaniesAreOfSetups, Begun
<1>2. Typed /\ reply \in [Task -> Reply]
  BY TypesAre DEF CompaniesInv, RequestsInv, SetupsInv, AccountsInv, Typed
<1>3. ChooseWorkspace(t) \/ WriteWorkspace(t)
  <2>1. PICK u \in Task : Step(u)
    BY DEF Next, Stop
  <2>2. u = t
    BY <2>1, StepAdvances DEF CompaniesInv, RequestsInv, SetupsInv, AccountsInv, Advances, Others
  <2> QED
    BY <2>1, <2>2
       DEF Step, SignInStep, SetupStep, Operate, BeginSignIn, Callback, LookUpSubject,
           LookUpAddress, Enrol, FindUser, CheckAccount, InsertSession, Land, SignOut,
           AnswerSignOut, GetSession, UpdateSession, Visit, AskForCompany, FindSession,
           LockAccount, Provision, RevokeSessions, SetStatus, ChangeCompanies, PassTime, Ready
<1>4. CASE ChooseWorkspace(t)
  <2>1. company' = company
    BY <1>4, ChooseMoves DEF Refuse, rows
  <2>2. ASSUME reply'[t] = "/company", ReadSetup(seen[t].setup) # None
        PROVE  CompanyId(t) \in Founded(seen[t].account)
    BY <1>1, <1>2, <1>4, <2>2
       DEF ChooseWorkspace, Previous, Refuse, Done, Founded
  <2> QED  BY <1>1, <2>1, <2>2
<1>5. CASE WriteWorkspace(t)
  <2>1. Refuse(t, "unexpected")
    BY <1>1, <1>5 DEF WriteWorkspace
  <2> QED  BY <1>2, <2>1 DEF Refuse, rows, Done
<1> QED  BY <1>3, <1>4, <1>5

(* A setup that has made a company makes no other, whatever became of that *)
(* company and of its member: a replay of its request leads into that same *)
(* company while the founder is in it, and is refused otherwise.           *)
THEOREM SpentSetupsStaySpent ==
  Spec => SpentSetupsMakeNothing
<1>1. ASSUME CompaniesInv, [Next]_vars
      PROVE  [\A t \in Task :
                LET made == MadeBy(seen[t].setup)
                IN  pc[t] \in {"choose", "write"} /\ pc'[t] # pc[t] /\ made # {} =>
                      /\ company' = company
                      /\ reply'[t] = "/company" /\ ReadSetup(seen[t].setup) # None =>
                           made \subseteq Founded(seen[t].account)]_vars
  <2>1. CASE UNCHANGED vars
    BY <2>1
  <2>2. CASE Next
    BY <1>1, <2>2, SpentSetupStep
  <2> QED  BY <1>1, <2>1, <2>2
<1> QED  BY <1>1, CompaniesInvariant, PTL DEF Spec, SpentSetupsMakeNothing

(* Setups that are completed at the same time, in other tabs or after      *)
(* other sign-ins, leave an account with one company.                      *)
THEOREM InitialCompaniesAreSingle ==
  Spec => []OneInitialCompany
<1>1. ASSUME CompaniesInv PROVE OneInitialCompany
  <2> SUFFICES ASSUME NEW a \in Task PROVE Cardinality(Founded(a)) <= 1
    BY DEF OneInitialCompany
  <2>1. CASE Founded(a) = {}
    BY <2>1, FS_EmptySet
  <2>2. CASE Founded(a) # {}
    <3>1. PICK c : c \in Founded(a)
      BY <2>2
    <3>2. Founded(a) = {c}
      BY <1>1, <3>1 DEF CompaniesInv, AtMostOneFounded
    <3>3. Cardinality(Founded(a)) = 1
      BY <3>2, FS_Singleton
    <3> QED  BY <3>3
  <2> QED  BY <2>1, <2>2
<1> QED  BY <1>1, CompaniesInvariant, PTL

(* A company belongs to the subject whose sign-in began its setup, whoever *)
(* is signed in at that browser when the form is sent.                     *)
THEOREM CompaniesAreTheAskers ==
  Spec => []CompanyBelongsToWhoAsked
<1>1. ASSUME CompaniesInv PROVE CompanyBelongsToWhoAsked
  BY <1>1 DEF CompaniesInv, CompaniesAreOfSetups, Begun, CompanyBelongsToWhoAsked
<1> QED  BY <1>1, CompaniesInvariant, PTL

----------------------------------------------------------------------------
(* A suspended account gets no session out of a sign-in that is under way. *)

Suspended(t) ==
  /\ t \in Task /\ plan[t].who \in Subject
  /\ AccountOf(plan[t].who) # None /\ ~Active(AccountOf(plan[t].who))
  /\ \A u \in Task : plan[u].kind # "restore"

(* Its sign-in stands before the second look at the account, or has ended. *)
Excluded(t) ==
  /\ Suspended(t) /\ session[t] = None
  /\ pc[t] \in {"idp", "subject", "address", "enrol", "user", "check", "done"}

LEMMA SuspendedStays ==
  ASSUME CompaniesInv, NEW t \in Task, Step(t), NEW u, Suspended(u)
  PROVE  Suspended(u)'
<1> DEFINE a == identity[plan[u].who]
<1>1. AccountsInv /\ Typed /\ plan' = plan /\ Task' = Task
  BY StepAdvances DEF CompaniesInv, RequestsInv, SetupsInv, AccountsInv, Advances, Task
<1>2. AccountOf(plan[u].who) = a /\ a # None /\ a \in Task /\ Existing(a)
      /\ account[a].status # "ACTIVE"
  <2>1. plan[u].who # None /\ AccountOf(plan[u].who) = a /\ a # None
    BY DEF Suspended, AccountOf
  <2>2. a \in Task
    BY <1>1, <2>1, TypesAre DEF Typed, Suspended
  <2> QED  BY <1>1, <2>1, <2>2 DEF Suspended, Active, AccountsInv, SubjectsHaveAccounts
<1>3. identity'[plan[u].who] = a
  BY <1>1, <1>2, IdentitiesStay DEF Suspended
<1> HIDE DEF a
<1>4. account'[a].status # "ACTIVE"
  <2>1. CASE UNCHANGED <<account, identity>>
    BY <1>2, <2>1
  <2>2. CASE Enrols(t, plan[t].who)
    BY <1>1, <1>2, <2>2, EnrolsRows DEF Enrols
  <2>3. CASE SetStatus(t)
    <3>1. plan[t].kind = "suspend"
      BY <2>3 DEF SetStatus, Ready, Suspended
    <3>2. account'[a] \in {account[a], [account[a] EXCEPT !.status = "SUSPENDED"]}
      BY <1>2, <2>3, <3>1 DEF SetStatus
    <3>3. account[a] \in AccountRow
      BY <1>1, <1>2, TypesAre DEF Typed
    <3> QED  BY <1>2, <3>2, <3>3 DEF AccountRow
  <2> QED  BY <1>1, <2>1, <2>2, <2>3, AccountChanges
<1>5. plan[u].who # None
  BY DEF Suspended, AccountOf
<1> QED  BY <1>1, <1>2, <1>3, <1>4, <1>5 DEF Suspended, AccountOf, Active

LEMMA ExcludedStep ==
  ASSUME CompaniesInv, [Next]_vars, NEW u, Excluded(u)
  PROVE  Excluded(u)'
<1>1. CASE UNCHANGED vars
  <2>1. UNCHANGED <<plan, pc, session, account, identity>>
    BY <1>1 DEF vars, steps, rows
  <2> QED  BY <2>1 DEF Excluded, Suspended, AccountOf, Active, Task
<1>2. ASSUME NEW t \in Task, Step(t) PROVE Excluded(u)'
  <2>1. AccountsInv /\ Typed /\ Advances(t) /\ plan' = plan /\ u \in Task
    BY <1>2, StepAdvances
       DEF CompaniesInv, RequestsInv, SetupsInv, AccountsInv, Excluded, Suspended, Advances
  <2>2. Suspended(u)'
    BY <1>2, SuspendedStays DEF Excluded
  <2>3. session'[u] = None
    BY <1>2, <2>1, SessionChanges DEF Excluded
  <2>4. pc'[u] \in {"idp", "subject", "address", "enrol", "user", "check", "done"}
    <3>1. CASE u # t
      BY <2>1, <3>1 DEF Excluded, Advances, Others
    <3>2. CASE u = t /\ pc[t] \in {"idp", "subject", "address", "enrol"}
      BY <2>1, <3>2 DEF Advances, Follows
    <3>3. CASE u = t /\ pc[t] \in {"user", "check"}
      <4>1. ~Active(seen[t].account)
        <5>1. seen[t].account = identity[plan[t].who]
          BY <2>1, <3>3 DEF AccountsInv, KnowsAccount
        <5> QED  BY <3>3, <5>1 DEF Excluded, Suspended, AccountOf
      <4>2. FindUser(t) \/ CheckAccount(t)
        BY <1>2, <3>3 DEF Step, SignInStep, SetupStep, Operate, BeginSignIn, Callback,
           LookUpSubject, LookUpAddress, Enrol, InsertSession, Land, SignOut,
           AnswerSignOut, GetSession, UpdateSession, Visit, AskForCompany, FindSession,
           LockAccount, ChooseWorkspace, WriteWorkspace, Provision, RevokeSessions, SetStatus,
           ChangeCompanies, PassTime, Ready
      <4>3. Deny(t, "failed")
        BY <4>1, <4>2 DEF FindUser, CheckAccount, SessionAllowed
      <4> QED  BY <2>1, <3>3, <4>3, TypesAre DEF Deny, Done, Typed
    <3> QED  BY <2>1, <3>1, <3>2, <3>3 DEF Excluded, Advances, Follows
  <2> QED  BY <2>2, <2>3, <2>4 DEF Excluded
<1> QED  BY <1>1, <1>2 DEF Next, Stop

(* An account that is suspended while a sign-in is under way, before       *)
(* createSession has asked, gets no session out of it.                     *)
THEOREM SuspendedGetNoSession ==
  Spec => SuspensionShutsOut
<1>1. ASSUME NEW t \in AnyTask
      PROVE  Spec => [](t \in Task /\ ShutOut(t) => [](t \in Task => session[t] = None))
  <2>1. CompaniesInv /\ t \in Task /\ ShutOut(t) => Excluded(t)
    <3> SUFFICES ASSUME CompaniesInv, t \in Task, ShutOut(t) PROVE Excluded(t)
      OBVIOUS
    <3>1. Typed /\ SessionsAreMade
      BY DEF CompaniesInv, RequestsInv, SessionsInv
    <3>2. plan[t].who \in Subject
      BY <3>1, PlanFacts DEF ShutOut, Typed, StepsKnow, SignInSteps
    <3> QED  BY <3>1, <3>2 DEF ShutOut, Excluded, Suspended, SessionsAreMade
  <2>2. CompaniesInv /\ [Next]_vars /\ Excluded(t) => Excluded(t)'
    BY ExcludedStep
  <2>3. Excluded(t) => (t \in Task => session[t] = None)
    BY DEF Excluded
  <2> QED  BY <2>1, <2>2, <2>3, CompaniesInvariant, PTL DEF Spec
<1> QED  BY <1>1 DEF SuspensionShutsOut

=============================================================================
