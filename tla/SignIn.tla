------------------------------- MODULE SignIn -------------------------------
(***************************************************************************)
(* Signing in and out (auth.ts, auth-adapter.ts): Auth.js and the identity *)
(* provider are external; the callbacks and the adapter are this code's.   *)
(*                                                                         *)
(*   idp      the browser is with the provider                             *)
(*   subject  the callback of a verified user is let in                    *)
(*   address  the subject is new: its lock is held, nothing is created     *)
(*   enrol    the account is known, or to be created under both locks      *)
(*   user     the transaction committed; Auth.js looks for the user        *)
(*   check    createSession; insert: its row is next                       *)
(*   land     the session is there; the response is not sent               *)
(***************************************************************************)
EXTENDS AccountState

(* What the sign-in page is told about a sign-in that failed.              *)
AuthFailure ==
  {"EmailCollision", "OnboardingRequired", "OnboardingExpired", "EmailUnverified",
   "AccountUnavailable", "failed"}

(* POST signin/keycloak: Auth.js makes state and nonce, the wrapper seals  *)
(* the choice, if any, with them.  A pending company setup is kept.        *)
BeginSignIn(t) ==
  /\ Ready(t, {"signin"})
  /\ starts' = starts + 1
  /\ IF starts' > RateLimit
     THEN Done(t, "429") /\ UNCHANGED jar
     ELSE /\ Go(t, "idp")
          /\ jar' = [jar EXCEPT ![plan[t].browser].state = t,
               ![plan[t].browser].flow =
                 [of |-> t, choice |-> plan[t].choice, sound |-> TRUE]]
  /\ UNCHANGED <<plan, seen, rows, over, late>>

(* Defect: any flow of the browser counts.                                 *)
AnyFlow(flow, t) == flow # None

(* Only the flow that this authorization began counts.                     *)
VerifiedFlow(flow, t) == flow # None /\ flow.sound /\ flow.of = t

(* A callback that fails clears the flow cookie.                           *)
Deny(t, code) ==
  /\ Done(t, code)
  /\ SetCookies(t, [jar[plan[t].browser] EXCEPT !.flow = None])
  /\ UNCHANGED <<plan, seen, rows, clock>>

(* GET callback/keycloak up to the signIn callback: Auth.js compares the   *)
(* state, the provider vouches for the subject and the address.            *)
CallbackError(t) ==
  LET cookies == jar[plan[t].browser]
  IN  IF cookies.state # t THEN "failed"
      ELSE IF ~plan[t].verified THEN "EmailUnverified"
      ELSE IF cookies.flow # None /\ ~VerifiedFlow(cookies.flow, t)
           THEN "OnboardingExpired"
      ELSE "none"

Callback(t) ==
  LET cookies == jar[plan[t].browser]
  IN  /\ pc[t] = "idp"
      /\ \A u \in Task : t \in plan[u].amid => pc[u] = "done"
      /\ IF CallbackError(t) # "none" THEN Deny(t, CallbackError(t))
         ELSE /\ Go(t, "subject")
              /\ seen' = [seen EXCEPT ![t] =
                   [flow |-> cookies.flow, setup |-> cookies.setup,
                    session |-> cookies.session, account |-> None]]
              /\ UNCHANGED <<plan, jar, rows, clock>>

----------------------------------------------------------------------------
(* resolveOnboardingIdentity, at READ COMMITTED.                           *)

(* Defect: the lock is the session's, and nobody gives it back.            *)
SubjectTaken(s) ==
  \E u \in Task : plan[u].kind = "signin" /\ plan[u].who = s
                  /\ pc[u] \notin {"wait", "idp", "subject"}

(* The advisory lock of a subject is held until the end of the transaction. *)
SubjectLocked(s) ==
  \E u \in Task : pc[u] \in {"address", "enrol"} /\ plan[u].who = s

LookUpSubject(t) ==
  LET s == plan[t].who
  IN  /\ pc[t] = "subject" /\ ~SubjectLocked(s)
      /\ IF identity[s] = None /\ ~VerifiedFlow(seen[t].flow, t)
         THEN Deny(t, "OnboardingRequired")
         ELSE /\ Go(t, IF identity[s] = None THEN "address" ELSE "enrol")
              /\ seen' = [seen EXCEPT ![t].account = identity[s]]
              /\ UNCHANGED <<plan, jar, rows, clock>>

AddressLocked(email) ==
  \E u \in Task : pc[u] = "enrol" /\ seen[u].account = u
                  /\ Lower(Email[plan[u].who]) = Lower(email)

LookUpAddress(t) ==
  LET email == Email[plan[t].who]
  IN  /\ pc[t] = "address" /\ ~AddressLocked(email)
      /\ IF Registered(email) THEN Deny(t, "EmailCollision")
         ELSE /\ Go(t, "enrol")
              /\ seen' = [seen EXCEPT ![t].account = t]
              /\ UNCHANGED <<plan, jar, rows, clock>>

(* The account and its identity are created, or its row locked and found   *)
(* active; an operator who took the subject or the address meanwhile makes *)
(* a unique index refuse.                                                  *)
Enrol(t) ==
  LET s == plan[t].who
      a == seen[t].account
  IN  /\ pc[t] = "enrol"
      /\ \/ /\ a = t /\ (identity[s] # None \/ Registered(Email[s]))
            /\ Deny(t, "failed")
         \/ /\ a = t /\ identity[s] = None /\ ~Registered(Email[s])
            /\ Create(t, s)
            /\ Go(t, "user")
            /\ UNCHANGED <<plan, seen, jar, session, company, works, owner, clock>>
         \/ /\ a # t /\ ~RowLocked(a)
            /\ IF ~Active(a) THEN Deny(t, "AccountUnavailable")
               ELSE Go(t, "user") /\ UNCHANGED <<plan, seen, jar, rows, clock>>

----------------------------------------------------------------------------
(* Auth.js and the adapter, one query at a time.                           *)

(* getUserByAccount; a browser that is signed in keeps its session, unless *)
(* it is somebody else's.                                                  *)
FindUser(t) ==
  LET a == seen[t].account
      held == seen[t].session
  IN  /\ pc[t] = "user"
      /\ IF ~Active(a) \/ (Usable(held) /\ session[held].account # a)
         THEN Deny(t, "failed")
         ELSE /\ Go(t, IF Usable(held) THEN "land" ELSE "check")
              /\ UNCHANGED <<plan, seen, jar, rows, clock>>

(* Defect: the check in the callback was enough.                           *)
SessionUnchecked(a) == a # None

(* createSession reads the account and inserts without a transaction.      *)
SessionAllowed(a) == Active(a)

CheckAccount(t) ==
  /\ pc[t] = "check"
  /\ IF ~SessionAllowed(seen[t].account) THEN Deny(t, "failed")
     ELSE Go(t, "insert") /\ UNCHANGED <<plan, seen, jar, rows, clock>>

InsertSession(t) ==
  /\ pc[t] = "insert"
  /\ session' = [u \in Task |->
       IF u = t THEN [account |-> seen[t].account, subject |-> plan[t].who]
       ELSE IF u \in over THEN None ELSE session[u]]
  /\ seen' = [seen EXCEPT ![t].session = t]
  /\ Go(t, "land")
  /\ UNCHANGED <<plan, jar, account, identity, company, works, owner, clock>>

NewCompanySetup(a, s, flow) == [account |-> a, subject |-> s, nonce |-> flow.of]

(* Where a sign-in lands, and what becomes of a company setup.             *)
Land(t) ==
  LET a == seen[t].account
      s == plan[t].who
      setup == ReadSetup(seen[t].setup)
      resume == SetupMatches(setup, a, s)
      fresh == VerifiedFlow(seen[t].flow, t)
      asks == resume \/ ~fresh \/ seen[t].flow.choice = "COMPANY"
      mine == jar[plan[t].browser]
  IN  /\ pc[t] = "land"
      /\ Done(t, IF ~asks THEN "/person"
                 ELSE IF Member(a) THEN "/company"
                 ELSE IF resume \/ fresh THEN "/onboarding/company"
                 ELSE "/person")
      /\ SetCookies(t, [state |-> None, session |-> seen[t].session, flow |-> None,
           setup |-> IF asks /\ ~Member(a) /\ ~resume /\ fresh
                     THEN NewCompanySetup(a, s, seen[t].flow)
                     ELSE IF resume /\ ~Member(a) THEN mine.setup ELSE None])
      /\ UNCHANGED <<plan, seen, rows, clock>>

----------------------------------------------------------------------------
(* POST signout, the button of every page: the row is deleted, *)
(* then the browser is told.                                               *)
SignOut(t) ==
  LET token == jar[plan[t].browser].session
  IN  /\ Ready(t, {"signout"})
      /\ Go(t, "answer")
      /\ seen' = [seen EXCEPT ![t].session = token]
      /\ session' = [u \in Task |-> IF u = token /\ plan[t].fault # "database"
                                    THEN None ELSE session[u]]
      /\ UNCHANGED <<plan, jar, account, identity, company, works, owner, clock>>

(* Defect: Auth.js said it went well.                                      *)
Swallowed(t) == FALSE

(* Auth.js swallows what the adapter throws; logout.completed tells.       *)
DeletionFailed(t) == seen[t].session # None /\ plan[t].fault = "database"

AnswerSignOut(t) ==
  /\ pc[t] = "answer"
  /\ IF DeletionFailed(t)
     THEN Done(t, "unavailable") /\ UNCHANGED jar
     ELSE /\ Done(t, "signedout")
          /\ SetCookies(t, [jar[plan[t].browser] EXCEPT
               !.session = None, !.setup = None, !.flow = None])
  /\ UNCHANGED <<plan, seen, rows, clock>>

----------------------------------------------------------------------------
(* GET session: Auth.js resolves the session and may ask the adapter to    *)
(* extend it; a cookie without a session is cleared.                       *)
GetSession(t) ==
  LET token == jar[plan[t].browser].session
  IN  /\ Ready(t, {"refresh"})
      /\ IF Usable(token)
         THEN /\ Go(t, "update")
              /\ seen' = [seen EXCEPT ![t].session = token,
                                      ![t].account = session[token].account]
              /\ UNCHANGED jar
         ELSE /\ Done(t, "signin")
              /\ SetCookies(t, [jar[plan[t].browser] EXCEPT !.session = None])
              /\ UNCHANGED seen
      /\ UNCHANGED <<plan, rows, clock>>

(* Defect: the session is written back with a new deadline.                *)
WrittenBack(token, a) ==
  [session EXCEPT ![token] =
     [account |-> a, subject |-> CHOOSE s \in Subject : identity[s] = a]]

(* updateSession: the deadline is absolute, nothing is written.            *)
Extended(token, a) == session

UpdateSession(t) ==
  /\ pc[t] = "update"
  /\ Done(t, "signedin")
  /\ session' = Extended(seen[t].session, seen[t].account)
  /\ SetCookies(t, [jar[plan[t].browser] EXCEPT !.session = seen[t].session])
  /\ UNCHANGED <<plan, seen, account, identity, company, works, owner, clock>>

SignInStep(t) ==
  \/ BeginSignIn(t) \/ Callback(t)
  \/ LookUpSubject(t) \/ LookUpAddress(t) \/ Enrol(t)
  \/ FindUser(t) \/ CheckAccount(t) \/ InsertSession(t) \/ Land(t)
  \/ SignOut(t) \/ AnswerSignOut(t)
  \/ GetSession(t) \/ UpdateSession(t)

=============================================================================
