---------------------------- MODULE AccountState ----------------------------
(***************************************************************************)
(* Accounts, sessions, setup companies and the cookies of browsers: what   *)
(* signing in (SignIn) and company setup (CompanySetup) read and write.    *)
(*                                                                         *)
(* A plan says which requests browsers make and what else happens: a step  *)
(* waits for the steps in `after`; a step in the midst of a sign-in is     *)
(* taken while the browser is with the provider; all others interleave.  A *)
(* step's number names what it creates: the OAuth state and nonce of a     *)
(* sign-in, the account, the session, the setup flow, the company's id.    *)
(***************************************************************************)
EXTENDS Naturals, Sequences, FiniteSets

CONSTANTS
  Browser,
  Subject,    \* the provider's users
  Email,      \* subject -> what the provider says its address is
  None,
  RateLimit,  \* sign-ins begun per minute
  Plans

VARIABLES
  plan, pc, seen, reply,               \* the steps
  jar,                                 \* the cookies of each browser
  account, identity, session, company, \* the tables
  works,   \* accounts that are active members of companies of others
  owner,   \* the OWNER role is as approved
  over,    \* sessions past their deadline
  late,    \* company setups past their deadline
  starts   \* sign-ins begun in this minute

steps == <<pc, seen, reply>>
rows == <<account, identity, session, company, works, owner>>
clock == <<over, late, starts>>
vars == <<plan, steps, jar, rows, clock>>

Task == DOMAIN plan

Subjects == Subject \cup {None}

Addresses == {Email[s].address : s \in Subject}

(* What the forms of the pages send with a sign-in.                        *)
LandingSignInForm == {"NONE"}

OnboardingChoices == {"PERSON", "COMPANY"}

CompanyRegistrationResume == {"COMPANY"}

Choice == LandingSignInForm \cup OnboardingChoices \cup CompanyRegistrationResume

Flow == [of : Task, choice : Choice, sound : BOOLEAN]

CompanySetupState == [account : Task, subject : Subject, nonce : Task]

Jar == [state : Task \cup {None}, session : Task \cup {None},
        flow : Flow \cup {None}, setup : CompanySetupState \cup {None}]

(* What a request in flight knows.                                         *)
Nothing == [flow |-> None, setup |-> None, session |-> None, account |-> None]

Ready(t, kinds) ==
  /\ pc[t] = "wait" /\ plan[t].kind \in kinds
  /\ \A u \in plan[t].after : pc[u] = "done"
  /\ \A u \in plan[t].amid : pc[u] = "idp"

Go(t, step) ==
  /\ pc' = [pc EXCEPT ![t] = step]
  /\ UNCHANGED reply

Done(t, answer) ==
  /\ pc' = [pc EXCEPT ![t] = "done"]
  /\ reply' = [reply EXCEPT ![t] = answer]

(* A response reaches the browser with its Set-Cookie headers, or is lost. *)
SetCookies(t, cookies) ==
  jar' = IF plan[t].fault = "lost" THEN jar
         ELSE [jar EXCEPT ![plan[t].browser] = cookies]

----------------------------------------------------------------------------
(* What queries find.                                                      *)

AccountOf(s) == IF s = None THEN None ELSE identity[s]

Active(a) == a # None /\ account[a].status = "ACTIVE"

(* resolveDatabaseSession                                                  *)
Usable(token) ==
  /\ token # None /\ session[token] # None
  /\ token \notin over
  /\ Active(session[token].account)
  /\ identity[session[token].subject] = session[token].account

(* An active member of an active company.                                  *)
Founded(a) ==
  {c \in Task : company[c].status = "ACTIVE" /\ company[c].founder = a
                /\ company[c].member}

Member(a) == a \in works \/ Founded(a) # {}

(* readOnboarding and companySetupMatches                                  *)
ReadSetup(cookie) ==
  IF cookie # None /\ cookie.nonce \in late THEN None ELSE cookie

SetupMatches(setup, a, s) == setup # None /\ setup.account = a /\ setup.subject = s

(* Defect: FOR UPDATE is left out.                                         *)
NotLocked(a) == FALSE

(* Company setup holds the lock of an account's row until it commits.      *)
RowLocked(a) ==
  \E t \in Task : pc[t] \in {"choose", "write"} /\ seen[t].account = a

(* Defect: as it was typed.                                                *)
AsTyped(email) == email

(* Account.primaryEmail                                                    *)
Lower(email) == [email EXCEPT !.upper = FALSE]

Registered(email) ==
  \E a \in Task : account[a].status # "NONE" /\ Lower(account[a].email) = Lower(email)

Create(a, s) ==
  /\ account' = [account EXCEPT ![a] =
       [status |-> "ACTIVE", email |-> Lower(Email[s])]]
  /\ identity' = [identity EXCEPT ![s] = a]

=============================================================================
