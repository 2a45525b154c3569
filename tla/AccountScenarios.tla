-------------------------- MODULE AccountScenarios --------------------------
(***************************************************************************)
(* What the repository's own integration tests do to accounts, one request *)
(* after another, with the answers they assert; and the races they leave   *)
(* out.  Requests that are refused before they reach a handler (origin,    *)
(* CSRF, malformed forms) are not repeated here.  A test that calls        *)
(* completeCompanyOnboarding itself gets no cookie back: "lost".           *)
(***************************************************************************)
EXTENDS Accounts, TLC

(* One step, and what is different about it.                               *)
Do(kind, browser, who, expect) ==
  [kind |-> kind, browser |-> browser, who |-> who, choice |-> "NONE",
   verified |-> TRUE, fault |-> "none", after |-> {}, amid |-> {},
   expect |-> expect]

SignsIn(browser, who, choice, expect) ==
  [Do("signin", browser, who, expect) EXCEPT !.choice = choice]

(* What befalls the cookies of the sign-in that is step t.                 *)
Amid(t, kind, browser) == [Do(kind, browser, None, "any") EXCEPT !.amid = {t}]

Failing(step, fault) == [step EXCEPT !.fault = fault]

Choosing(step, choice) == [step EXCEPT !.choice = choice]

(* In order; step n runs beside[n] of the steps before it.                 *)
Ordered(s, beside) ==
  [n \in DOMAIN s |-> [s[n] EXCEPT !.after =
     (1 .. (n - 1 - IF n \in DOMAIN beside THEN beside[n] ELSE 0)) \ s[n].amid]]

InOrder(s) == Ordered(s, <<>>)

CONSTANTS b1, b2, b3

(* infrastructure/auth/verify-registration.ts                              *)
RegistrationTest == InOrder(<<
  SignsIn(b1, "ann", "PERSON", "/person"),
  SignsIn(b1, "ann", "COMPANY", "/onboarding/company"),
  SignsIn(b1, "ann", "NONE", "/onboarding/company"),
  SignsIn(b2, "bob", "COMPANY", "/onboarding/company"),
  Failing(Do("company", b2, None, "/company"), "lost"),
  SignsIn(b2, "bob", "NONE", "/company"),
  SignsIn(b3, "ANN", "PERSON", "EmailCollision"),
  [SignsIn(b3, "eve", "PERSON", "EmailUnverified") EXCEPT !.verified = FALSE],
  SignsIn(b3, "eve", "COMPANY", "OnboardingRequired"), Amid(9, "flow ends", b3),
  SignsIn(b3, "ann", "COMPANY", "OnboardingExpired"), Amid(11, "flow spoils", b3),
  SignsIn(b3, "ann", "COMPANY", "OnboardingExpired"), Amid(13, "flow swaps", b3),
  Do("suspend", None, "ann", "any"),
  SignsIn(b3, "ann", "NONE", "AccountUnavailable"),
  Do("restore", None, "ann", "any"),
  Do("signout", b2, None, "signedout"),
  Do("page", b2, None, "/sign-in"),
  Do("crowd", None, None, "any"),
  SignsIn(b3, "ann", "PERSON", "429")>>)

(* infrastructure/auth/verify-logout.ts                                    *)
Round(who) == <<
  SignsIn(b1, who, "NONE", "any"), Do("refresh", b1, None, "signedin"),
  Failing(Do("signout", b1, None, "unavailable"), "database"),
  Do("page", b1, None, "signedin"),
  Do("signout", b1, None, "signedout"), Do("page", b1, None, "/sign-in")>>

LogoutTest == InOrder(
  <<Do("provision", None, "ann", "created"), Do("provision", None, "bob", "created")>>
  \o Round("ann") \o Round("bob") \o Round("ann")
  \o <<SignsIn(b1, "ann", "NONE", "any"), SignsIn(b2, "ann", "NONE", "any"),
       Do("signout", b1, None, "signedout"), Do("page", b2, None, "signedin"),
       Do("signout", b2, None, "signedout")>>)

(* infrastructure/auth/verify-company-resume.ts, but for its first request *)
(* (see AccountsNeedAChoice).                                              *)
ResumeTest == InOrder(<<
  SignsIn(b1, "bob", "COMPANY", "any"),
  [SignsIn(b1, "bob", "COMPANY", "/onboarding/company") EXCEPT !.amid = {1}],
  Failing(Do("company", b1, None, "/company"), "lost"),
  SignsIn(b1, "bob", "NONE", "/company"),
  SignsIn(b2, "eve", "COMPANY", "/onboarding/company"),
  SignsIn(b3, "ann", "PERSON", "/person"),
  Do("signout", b3, None, "any"),
  SignsIn(b3, "ANN", "COMPANY", "EmailCollision"),
  [SignsIn(b3, "zoe", "COMPANY", "EmailUnverified") EXCEPT !.verified = FALSE],
  SignsIn(b3, "zoe", "COMPANY", "OnboardingRequired"), Amid(10, "flow ends", b3),
  SignsIn(b3, "zoe", "COMPANY", "OnboardingExpired"), Amid(12, "flow spoils", b3),
  SignsIn(b3, "zoe", "COMPANY", "OnboardingExpired"), Amid(14, "flow swaps", b3)>>)

(* infrastructure/auth/browser-logout.cjs: one browser, two people.        *)
RoundInBrowser(who) == <<
  SignsIn(b1, who, "NONE", "any"),
  Do("page", b1, None, "signedin"), Do("refresh", b1, None, "signedin"),
  Do("signout", b1, None, "signedout"),
  Do("refresh", b1, None, "signin"), Do("page", b1, None, "/sign-in")>>

LogoutBrowserTest == InOrder(
  <<Do("provision", None, "ann", "created"), Do("provision", None, "bob", "created")>>
  \o RoundInBrowser("ann") \o RoundInBrowser("bob") \o RoundInBrowser("ann"))

(* infrastructure/auth/browser-company-resume.cjs, in its second browser   *)
(* (see AccountsNeedAChoice for the first).  Where the owner lands at last *)
(* depends on the choice that was not made.                                *)
ResumeBrowserTest == InOrder(<<
  SignsIn(b2, "bob", "COMPANY", "/onboarding/company"),
  Do("setup page", b2, None, "form"), Do("refresh", b2, None, "signedin"),
  Do("company", b2, None, "/company"),
  Do("signout", b2, None, "signedout"),
  SignsIn(b2, "bob", "NONE", "any"), Do("refresh", b2, None, "signedin"),
  Do("signout", b2, None, "signedout")>>)

(* infrastructure/onboarding/verify-company-completion.ts                  *)
CompletionTest == Ordered(<<
  SignsIn(b1, "ann", "COMPANY", "any"),
  Choosing(Do("company", b1, None, "setup_expired"), "forgotten"),
  Choosing(Do("company", b1, None, "invalid_name"), "blank"),
  Do("retire", None, "ann", "any"),
  Do("company", b1, None, "owner_unavailable"),
  Do("approve", None, "ann", "any"),
  Failing(Do("company", b1, None, "unexpected"), "database"),
  Failing(Do("company", b1, None, "/company"), "lost"),
  Failing(Do("company", b1, None, "/company"), "lost"),
  Failing(Do("company", b1, None, "/company"), "lost"),
  Choosing(Failing(Do("company", b1, None, "/company"), "lost"), "forgotten"),
  Do("leave", None, "ann", "any"),
  Failing(Do("company", b1, None, "workspace_unavailable"), "lost"),
  Choosing(Do("company", b1, None, "setup_expired"), "forgotten")>>,
  9 :> 1 @@ 10 :> 2)

(* infrastructure/onboarding/verify-company-intent.ts                      *)
IntentTest == Ordered(<<
  SignsIn(b1, "ann", "PERSON", "/person"),
  SignsIn(b1, "ann", "COMPANY", "/onboarding/company"),
  SignsIn(b1, "ann", "NONE", "/onboarding/company"),
  SignsIn(b1, "ann", "PERSON", "/onboarding/company"),
  Do("setup page", b1, None, "form"),
  Choosing(Do("company", b1, None, "setup_expired"), "forgotten"),
  Choosing(Do("company", b1, None, "invalid_name"), "blank"),
  Do("retire", None, "ann", "any"),
  Do("company", b1, None, "owner_unavailable"),
  Do("approve", None, "ann", "any"),
  Failing(Do("company", b1, None, "/company"), "lost"),
  Failing(Do("company", b1, None, "/company"), "lost"),
  Failing(Do("company", b1, None, "/company"), "lost"),
  Choosing(Do("company", b1, None, "/company"), "forgotten"),
  Do("setup page", b1, None, "/company"),
  Do("signout", b1, None, "signedout"),
  Do("setup page", b1, None, "/sign-in")>>,
  12 :> 1 @@ 13 :> 2)

(* infrastructure/onboarding/verify.ts                                     *)
OnboardingTest == Ordered(<<
  SignsIn(b1, "ann", "PERSON", "any"), SignsIn(b2, "ann", "PERSON", "any"),
  SignsIn(b3, "ANN", "PERSON", "EmailCollision"),
  Do("signout", b1, None, "any"),
  SignsIn(b1, "bob", "COMPANY", "/onboarding/company"),
  Do("suspend", None, "bob", "any"),
  Do("company", b1, None, "session_required"),
  SignsIn(b3, "bob", "COMPANY", "AccountUnavailable"),
  Do("restore", None, "bob", "any"),
  Failing(Do("company", b1, None, "unexpected"), "database"),
  Failing(Do("company", b1, None, "/company"), "lost"),
  Failing(Do("company", b1, None, "/company"), "lost"),
  Do("leave", None, "bob", "any"),
  Do("company", b1, None, "workspace_unavailable")>>,
  2 :> 1 @@ 12 :> 1)

Tests == {RegistrationTest, LogoutTest, ResumeTest, LogoutBrowserTest,
          ResumeBrowserTest, CompletionTest, IntentTest, OnboardingTest}

----------------------------------------------------------------------------
(* Races the tests leave out.                                              *)

(* One address, three ways in.                                             *)
AddressRace == Ordered(<<
  SignsIn(b1, "ann", "COMPANY", "any"), SignsIn(b2, "ANN", "PERSON", "any"),
  Do("provision", None, "ann", "any")>>,
  2 :> 1 @@ 3 :> 2)

(* A suspension and a revocation while a person signs in and is about.     *)
SuspensionRace == Ordered(<<
  Do("provision", None, "ann", "any"),
  SignsIn(b1, "ann", "NONE", "any"), Do("suspend", None, "ann", "any"),
  Do("revoke", None, "ann", "any"), Do("refresh", b1, None, "any"),
  Do("session ends", None, None, "any")>>,
  3 :> 1 @@ 4 :> 2 @@ 5 :> 3 @@ 6 :> 4)

(* Two tabs or browsers set up a company each; one is lost again.          *)
SetupRace == Ordered(<<
  SignsIn(b1, "ann", "COMPANY", "any"), SignsIn(b2, "ann", "COMPANY", "any"),
  Do("company", b1, None, "any"), Do("company", b2, None, "any"),
  Do("leave", None, "ann", "any")>>,
  2 :> 1 @@ 4 :> 1 @@ 5 :> 2)

(* The form is sent again while the company is left or closed, the role    *)
(* changes, the account is suspended, or the time is up.                   *)
Replay(event) == Ordered(<<
  SignsIn(b1, "ann", "COMPANY", "any"),
  Failing(Do("company", b1, None, "any"), "lost"), Do("company", b1, None, "any"),
  event, Do("company", b1, None, "any")>>,
  3 :> 1 @@ 4 :> 2 @@ 5 :> 2)

Replays ==
  {Replay(Do(kind, b1, "ann", "any")) :
     kind \in {"leave", "close", "hire", "retire", "suspend", "setup ends", "signout"}}

(* The company is left, and another takes its founder in, while the form   *)
(* is sent again.                                                          *)
LeftAndHired == Ordered(<<
  SignsIn(b1, "ann", "COMPANY", "any"),
  Failing(Do("company", b1, None, "any"), "lost"),
  Do("leave", None, "ann", "any"), Do("hire", None, "ann", "any"),
  Do("company", b1, None, "any")>>,
  4 :> 1 @@ 5 :> 2)

(* A browser two people use: the answer to a request of the first arrives  *)
(* after the second has begun a setup.                                     *)
SharedBrowser == Ordered(<<
  Do("provision", None, "bob", "any"), SignsIn(b1, "bob", "NONE", "any"),
  Do("refresh", b1, None, "any"), Do("suspend", None, "bob", "any"),
  SignsIn(b1, "ann", "COMPANY", "any"), Do("restore", None, "bob", "any"),
  Do("company", b1, None, "any")>>,
  4 :> 1 @@ 5 :> 2 @@ 6 :> 3 @@ 7 :> 4)

(* The pages while a setup waits, the company is made, and closes.         *)
Pages == Ordered(<<
  SignsIn(b1, "ann", "COMPANY", "any"), Do("page", b1, None, "any"),
  Do("setup page", b1, None, "any"), Do("company", b1, None, "any"),
  Do("close", None, "ann", "any")>>,
  3 :> 1 @@ 4 :> 2 @@ 5 :> 3)

(* Tabs that sign out, refresh and sign in again at the same time.         *)
SignOutRace == Ordered(<<
  SignsIn(b1, "ann", "PERSON", "any"),
  Failing(Do("signout", b1, None, "any"), "database"),
  Do("signout", b1, None, "any"), Do("refresh", b1, None, "any"),
  SignsIn(b1, "ann", "COMPANY", "any")>>,
  3 :> 1 @@ 4 :> 2 @@ 5 :> 3)

Races == {AddressRace, SuspensionRace, SetupRace, SharedBrowser, Pages, SignOutRace}
           \cup {LeftAndHired} \cup Replays

=============================================================================
