# TLA+ development for SAMMA

SAMMA keeps employment documents that persons and companies share. A Next.js
web process talks to PostgreSQL (Prisma), to a private S3 bucket and to a
Keycloak identity provider. This directory holds specifications of its core
behaviour, the TLC configurations that check them on small instances, and TLAPS
proofs of what they promise for every instance.

Paths below are relative to `src/`.

## 1. Inventory

### Components, their state and operations

| Component | Code | State | Operations | What makes it correct |
|---|---|---|---|---|
| Record upload and intake | `apps/web/app/api/records/upload/route.ts`, `apps/web/lib/record-service.ts`, `record-upload-request.ts`, `upload-staging.ts`, `packages/application/src/index.ts` | slot counter of the process; record, file and activity rows; the object | upload a new record, replace the file of a record | a row's object exists and is accepted; one current file per record; only scanned content is readable; answers are true; no silent orphan; slots are neither leaked nor returned twice; lost authority never commits |
| Object storage | `packages/storage/src/s3.ts`, `index.ts` | objects with a state in their metadata | put to quarantine, accept, reject, delete, read accepted | transitions only from quarantine; nothing unaccepted is read |
| Company team | `apps/web/lib/company-team.ts` | members, role grants | list, save the roles of a member | a company keeps an owner; at most one unrevoked grant per member and role |
| Team invitations | `apps/web/lib/team-invitations.ts` | invitations, members, grants | send, accept, decline, revoke | one open invitation per company and address; terminal states exclude each other; a retried accept restores nothing |
| Employment invitations | `apps/web/lib/employment-service.ts` | invitations, relationships | send, accept, decline, revoke | one active employment per person and company; a retried accept never restarts an ended one |
| Onboarding and identity | `apps/web/lib/onboarding-service.ts`, `onboarding-state.ts`, `packages/identity/src/index.ts` | accounts, identities, persons, companies | first sign-in, company setup | one account per subject and per address; a setup flow creates one company, once, for the subject who began it; a replay makes nothing |
| Sessions | `apps/web/lib/auth.ts`, `auth-adapter.ts`, `auth-logout.ts` | sessions, rate-limit windows, four cookies | sign in, resolve, refresh, sign out, revoke all | ended means ended; a suspended account gets no session; a sign-out that failed is not called one |
| Governance | `apps/web/lib/governance-users.ts`, `governance-authorisation.ts`, `access.ts` | none of its own | read projections, guards | separated from company access |
| Record definitions | `apps/web/lib/record-definitions.ts`, `definition-policy.ts` | definitions and versions | save, activate, deactivate, install the starter pack | no lost update; version numbers without gaps; old versions are immutable |
| Record access and download | `apps/web/lib/record-access.ts`, `record-queries.ts`, `packages/domain/src/policy.ts`, `projections.ts`, `apps/web/app/api/files/[fileId]/route.ts`, `records/[recordId]/page.tsx` | none of its own | decide, list, show, stream; derive dates | viewing is not downloading; a reader has one whole reason; lists show what opening allows; dates are the calendar's |
| Readiness | `apps/web/app/api/ready/route.ts` | a five-second cache, one shared refresh | probe | an answer is at most as old as the cache allows |
| Mail | `packages/integrations/src/mail.ts` | none | send | never repeated by a transaction retry |
| Operator scripts | `infrastructure/auth/keycloak-dev-client.py`, `bootstrap-accounts.ts`, `revoke-sessions.ts`, `infrastructure/definitions/*.ts` | a runtime file, a client at the provider | make the DEV client, provision, revoke, install | can be stopped and run again; DEV and production never share a secret |

Other pages, Keycloak theming and realm bootstrap, deployment, audits and
generated code keep no state the components above depend on.

### How they interact

* The upload route resolves the session (sessions), reads its authority
  (definitions, team roles, relationships), stages the body to a local disk,
  calls the object store several times and ends in one serializable PostgreSQL
  transaction that reads the same authority again. Nothing joins the bucket and
  the database in one transaction: compensation does.
* Invitations write the members, roles and relationships an upload's authority
  is made of. Company setup writes the first member.
* Download reads the rows an upload commits and the object it accepted, under the
  definition version the record was made with; edits of definitions add versions.
* Every page and route resolves the session that signing in wrote. A setup cookie
  made at sign-in is what a company is later created from.
* All writers share PostgreSQL: serializable transactions retried on a conflict
  (team, invitations, definitions) or not retried (upload), advisory locks under
  the default isolation (onboarding).

### Hard behaviours

1. **Many requests in one event loop.** State read before an `await` is used
   after it: the slot counter, the session, the authority.
2. **Two stores without a common transaction.** Between accepting an object and
   committing its row the process can fail, or be told of a failure that did
   not happen.
3. **Answers that are lost.** A PUT that timed out is served after the delete
   that compensates for it. A COMMIT whose acknowledgement was lost takes effect
   after a read has found no row.
4. **Concurrent transactions**: replacements of one record, owners demoting each
   other, two acceptances.
5. **Retries** of accepts, setups and sign-ins, and pages submitted long after
   they were loaded.
6. **Time**: absolute session deadlines, invitations that expire, caches.

`PROJECT.json` lists the hazards line by line, with the properties that cover
them.

## 2. Modules

| Module | Kind | What it is |
|---|---|---|
| `ObjectStore` | component | the bucket as `s3.ts` drives it; operators that a caller conjoins |
| `RecordUpload` | component, composes `ObjectStore` | the whole upload, request by request, with PostgreSQL and the environment; its properties |
| `RecordStore` | abstract specification | what intake promises to everything that reads records |
| `MCRecordUpload` | model checking | symmetry of the requests |
| `RecordUploadProofs` | proofs | types, slots, the invariants that are a predicate of one request, and lost authority |
| `ReplacementProofs` | proofs | the current file of a record, and the refinement of `RecordStore` |
| `Serializable` | component | what PostgreSQL's SERIALIZABLE guarantees of overlapping transactions; operators on a log of commits |
| `TeamAccess` | component, uses `Serializable` | saving roles and the team invitations, request by request, with retries, operators and the clock; its properties |
| `InvitationLife` | abstract specification | what the invitation services promise of a company's invitations |
| `MCTeamAccess` | model checking | initial companies and the requests put to them |
| `ServiceTransaction` | component, uses `Serializable` | from a page through the route's session check to a serializable transaction and its retries; what the services of a company share |
| `EmploymentInvitations` | component on `ServiceTransaction` | the employment invitations and relationships; its properties, and the mapping to `InvitationLife` |
| `RecordDefinitions` | component on `ServiceTransaction` | document definitions, their versions and forms, the starter pack; its properties |
| `CompanyServices` | composition | both over one database, with operators, browsers and the clock |
| `MCCompanyServices` | model checking | the company at first, drafts, the pack, what each request may be |
| `AccountState` | component | accounts, identities, sessions, companies, cookies; plans of steps |
| `SignIn` | component on `AccountState` | sign-in, sign-out and refresh |
| `CompanySetup` | component on `AccountState` | setup pages and request, operators and the clock |
| `Accounts` | composition | both, with the properties of accounts, sessions and companies |
| `AccountScenarios` | model checking | the integration tests as plans, and races |
| `MCAccounts` | model checking | addresses, and the plans of each run |
| `RecordAccess` | component | reading a record query by query, the lists; its properties |
| `RetentionDates` | algorithm | retention and review dates on JavaScript's calendar, against the calendar people know |
| `Readiness` | component | the readiness route |
| `DevClient` | component | the script that makes the DEV client |
| `Operations` | composition | these four side by side |
| `SyntheticDemo`, `MCOperations` | model checking | the demo's company, person and records as tables to start from |
| `SerializableProofs` | proofs | what a serial order excludes, for both proofs about snapshots |
| `TeamAccessProofs` | proofs | the inductive invariant of `TeamAccess`, the refinement of `InvitationLife`, the last owner, the causes of access, whole saves, mails, authority |
| `CompanyServicesProofs` | proofs | the inductive invariant of the company's services, and everything their runs check |
| `AccountsProofs` | proofs | accounts, sessions and companies, in layers |
| `OperationsProofs` | proofs | the inductive invariants of the four parts of `Operations` |

### Correspondence with the code

`pc[r]` names the `await` request `r` has reached. An action is everything the
request does from there to its next `await`, with the synchronous code around it.

| Code | Actions |
|---|---|
| `route.ts` 11-15 | `Arrive`: session, then the comparison of `inFlight` with the cap |
| `route.ts` 16-20, `authoriseUploadRequest` | `Authorise`: authority, then `inFlight++` |
| `route.ts` 21-28, `stageUpload` | `Stage`, `Resession` |
| `persistRelationshipUpload` 52, `createRelationshipRecord` 32-52 | `Prepare` |
| `putQuarantined` | `Put` (HEAD and PUT), `Readback`, `UndoPut`; `WriteFailed` is the caller's catch |
| `index.ts` 61-67 | `Scan`, `Accept`, `Reject`, `Rejected` |
| `record-service.ts` 59-81 | `Begin` (snapshot), `Lock` (`FOR UPDATE`), `Callback`, `Commit` |
| `record-service.ts` 82-88 | `Abort` (rolled back) or `uncertain'` (outcome unknown) |
| `index.ts` 74-80 | `Confirm` |
| `index.ts` 82-95 | `Compensate`, `Delete`, `CleanupRequired` |
| `route.ts` 31-35 | `Release`, with `Status` for the response of the catch |
| PostgreSQL finishing a COMMIT nobody waits for | `Resolve` |
| S3 serving a request nobody waits for | `BucketCatchesUp` |
| restart of the process; logout, suspension, revoked roles, new definition versions; reassigned relationships | `Crash`; `Revoke`, `Restore`; `Reassign` |

State: `input`, `scan`, `uncertain`, `snapshot` are a request's local variables.
`outcome` is how intake ended, with the errors apart by what they leave for the
operator; `answer` is the status the client gets, which the route makes of it:
one 503 for all those errors (`Status`), and the framework's 500 for what it does
not catch (`Throw`). `inFlight` is the route's module variable; `linked`,
`current` and `lock` are the file rows, their `isCurrent` and the row locks;
`pending` are transactions in doubt; `audit` the activity events; `object` and
`late` the bucket; `holds` and `reassigned` what an upload's authority depends on.

Team access: a request is one call of a service, and `Serve(c)` one of its steps.

| Code | Actions |
|---|---|
| `transaction` (both services) | `Begin` (snapshot), `Commit` and `Throw` inside the operations, `Refused` (a serialization failure, retried while attempts remain), `Fail` (any other error, or the 10 s timeout) |
| `saveCompanyMemberRoles` | `Save` |
| `sendTeamInvitation` | `Send`, and `Mail` after COMMIT |
| `resolveTeamInvitation` | `Resolve`, with `Close` (decline, revoke, repeated accept) and `Accept` |
| changes of a membership, an account, a role, the company; expiry | `Operate` |

The whole callback is one action, at COMMIT: in a serializable transaction every
query answers from the snapshot `view[c]`, so only the snapshot and the commit
are moments others can tell apart. `team` holds the members, the number of
unrevoked grants of each member and role, and the invitations; `log` what the
transactions that overlap an open one have read and written.

The services of a company (`CompanyServices`): a request is a page, submitted once.

| Code | Actions |
|---|---|
| the forms and lists (`employment-invitations.tsx`, `definition-form.tsx`, `record-definitions.tsx`) | `Ask` with `AddPerson`, `InvitationActions`, `DefinitionForms`: the page keeps what the tables said |
| the routes: session cookie and token of the page | `Submit`, by whoever is signed in by then |
| `transaction` (both services) | `Begin`, `Commit` and `Throw` inside the operations, `Retry`, `Fail`; `Duplicate` (P2002, definitions only) |
| `sendEmploymentInvitation`, its mail | `SendInvitation`, `MailInvitation` |
| `resolveEmploymentInvitation` | `AnswerInvitation`, with `AcceptEmployment` |
| `mutateDefinition`, `writeDefinitionPolicy` | `Define`, with `Write` |
| `installStarterPack` | `InstallPack` |
| operators, the clock | `Operate` |

Accounts: a step `t` of the plan is one request of one browser, or one act of an
operator. `jar` holds the cookies, `seen[t]` what the request knows.

| Code | Actions |
|---|---|
| `handleAuthentication`, POST signin | `BeginSignIn` (rate limit, flow cookie) |
| callback: state, claims, flow | `Callback`; `Deny` is every failure |
| `resolveOnboardingIdentity` | `LookUpSubject` (lock of the subject), `LookUpAddress` (lock of the address), `Enrol` |
| the adapter, in Auth.js's order | `FindUser`, `CheckAccount` and `InsertSession` (`createSession`), `Land` (destination, setup cookie) |
| POST signout | `SignOut` (`deleteSession`), `AnswerSignOut` |
| GET session | `GetSession`, `UpdateSession` |
| pages | `Visit` |
| POST onboarding/company, `completeCompanyOnboarding` | `AskForCompany`, `FindSession`, `LockAccount` (FOR UPDATE), `ChooseWorkspace`, `WriteWorkspace` |
| `bootstrap-accounts.ts`, `revoke-sessions.ts`, rows changed by operators, deadlines | `Provision`, `RevokeSessions`, `SetStatus`, `ChangeCompanies`, `PassTime` |

Operations:

| Code | Actions |
|---|---|
| `GET files/[fileId]`, `RecordPage` | `Arrive`, `LookUp`, then `canReadStoredRecord` as `AsPerson`, `AsMember`, `AsLawyer`; `CompareObject`, `RecordAccessEvent`, `Stream` |
| `personRecords`, `relationshipRecords`, `LegalAccessPage` | the operators `PersonRecords`, `RelationshipRecords`, `LegalRecords` |
| `addUtcMonths`, `deriveRecordDates` | `AddUtcMonths`, `DeriveRecordDates` |
| `GET ready` | `Get`, `Probe`, `Settle` |
| `keycloak-dev-client.py` `main` | `Start`, `GetClient`, `ChooseSecret`, `Send`, `ReadBack`, `WriteEnv`; `Crash` |

### Abstractions of the upload

* A request stands for the file id it generates and for the record it creates
  when it replaces nothing; ids are fresh UUIDs, so they never collide.
* `Existing` are records that have one current, accepted file when the model
  starts. A request that replaces names one of them. Replacing a record that was
  created by another request of the same model is the same case after its
  upload has settled, and is left out.
* Authority is four grounds: `session`, `account`, `context` (relationship,
  company, membership, role, active definition, existing record) and `latest`
  (the definition version is the newest). `Revoke` takes one away at any
  moment; only an account or a context can come back, a deleted session or a
  superseded version cannot.
* A serializable transaction reads the snapshot of its first statement
  (`Begin`). A replacement's first statement is the one that may block, so its
  snapshot can be old when it goes on. PostgreSQL may refuse the callback or the
  COMMIT at any time (`Fault("database")`), and must refuse the update of a row
  changed since the snapshot (`WriteConflict`).
* The bucket serves each request atomically at one moment, is strongly
  consistent and keeps what it has. An abandoned request may be served at any
  later time or never, once. The code does not resend (`maxAttempts: 1`).
* HEAD and PUT are one action: the key is fresh, so nobody else writes it.
  HEAD, copy and the verifying HEAD of a transition are one action with the
  failures of each: nothing written, copy abandoned, copy served but not
  verified. No other request of the program works on the key in between, and
  nothing is late for it while it is quarantined (`ObjectInv` proves both).
* Staging either succeeds or fails with nothing left; bytes, sizes, content
  types and checksums are not represented. A failing cleanup in `finally`
  replaces the response, whatever it was, by a 500 (`Throw`).

### Abstractions of the team

* One company. An address belongs to one account, so the refusal of an address
  that is registered twice in different case is left out, and `invitedAccountId`
  adds nothing to the address.
* A request creates at most one invitation and is its id, as an id is fresh.
* `Serializable` lets a set of transactions commit when one serial order explains
  what each read, and when no row was updated behind its back. PostgreSQL is
  allowed to refuse more (`Refused` is always possible) but never fewer. Reads
  and writes are items: a membership row, a grant of a member and role, an
  invitation, and the inbox of an address for the query that looks for its
  pending invitations.
* The advisory locks and `FOR UPDATE` are left out. The statement that waits for
  one has taken the snapshot first, so the lock serializes nothing that
  SERIALIZABLE does not already; it makes the transaction later, or refused.
* What operators change is one-way (`Suspend`, `Retire`, `SuspendCompany`,
  `Remove`, `Expire`): a return only lets through what was refused meanwhile.
  It is written by no service of this repository, so it is not assumed to be
  serializable; a removal still collides with an update of the same row.
* The clock is read when the code calls it, after the snapshot (`Clock`).
* Sessions are the account's (`active`); their own life is that of `Accounts`.

### Abstractions of the company's services

* As in the team: one company, an address belongs to one account, an id is
  fresh, a callback is one action at COMMIT, locks add nothing to SERIALIZABLE.
* `ENDED` and `FORMER` relationships are one status to this code.
* A draft of a definition is its policy as far as `parseDefinitionPolicy` and
  access depend on it; names, codes and classification are left out, and with
  them the refusals of a changed or duplicate code.
* The token on a page is valid for the session it was made in and no other
  (`ValidCsrf`): it is an HMAC of that session.

### Abstractions of the accounts

* Auth.js and the provider are external, used as `auth.ts` configures them: the
  state is compared, a session is looked up with the cookie that came with the
  callback, adapter calls come in one order, and errors of `deleteSession` are
  swallowed.
* Everything runs at READ COMMITTED, so a query is an action. A lookup with what
  it includes (a session with its account and identity) is one.
* An advisory lock is held between the action that takes it and the end of the
  transaction; it is a predicate of the steps that hold it (`SubjectLocked`,
  `AddressLocked`, `RowLocked`), not a variable.
* What requests are made is a plan: `after` and `amid` say what a step waits for,
  and the rest interleaves. The tests are such plans, in the order and with
  the concurrency of the test, and `expect` is the answer the test asserts.
* Subjects are the provider's users. `Email` gives each an address and whether it
  is written with capitals. Names, hints, MFA and tokens are left out.

### Abstractions of the operations

* The four parts share no state. `part` picks the one that runs, so their states
  add up instead of multiplying.
* A query with what it includes is one action; `Grounds` is the reference
  definition of a reason to read, written apart from the code's operators.
* Time is a counter in `Readiness`; a probe ends within `ProbeLimit`.
  Dates are year, month, day; hours are kept by the code and are left out.
* In `DevClient` a response that is lost ends the script, as an exception does.

## 3. Runs

| Run | Instance | Shows | Size |
|---|---|---|---|
| `upload_faults` | 2 uploads by company members, one existing record, cap 2, unscanned files refused, all faults but lost authority, fairness | `TypeOK`, the six safety invariants, `ImplementsRecordStore`, `UploadsSettle` | 0.6 million states |
| `upload_authority` | 1 upload by a member or a person, cap 1, unscanned files allowed, all faults, authority changing at any moment | `LostAuthorityNeverCommits` | 34 thousand states |
| `upload_slots` | 3 uploads, cap 2, no faults | violates `ConcurrentUploadsCapped` | stops at depth 7 |
| `team_invitations` | 2 requests, 2 attempts, on one address's invitations and roles and on two owners', expiry, removed members | `CompanyHasOwner`, `SingleGrant`, `ImplementsInvitationLife`, `AccessHasACause`, `SavesAreWhole`, `MailsAnnounceInvitations` | 0.4 million states |
| `team_authority` | 1 request, 2 attempts, everything operators change, fairness | `AuthorityIsCurrent`, `RequestsSettle` | 0.2 million states |
| `services_company` | 3 requests, 1 attempt: accepts, an invitation, a revocation, where an employment waits or has ended, expiry, employments that end; or edits and two installations of the pack over a definition of its own and a synthetic one, installed before or not | `TypeOK`, `OneActiveEmployment`, `AcceptedMeansEmployed`, `EmploymentHasACause`, `ImplementsInvitationLife`, `EditsBuildOnLatest`, `PackOnlyRetires` | 0.4 million states |
| `definitions_pack` | an activation and an installation | violates `PackKeepsDecisions` | stops at once |
| `services_authority` | 1 request of any kind, 2 attempts, everything outside | `AuthorityIsCurrent` | 0.4 million states |
| `definitions_stale` | 2 edits | violates `StaleFormsRejected` | stops at once |
| `accounts` | 8 tests and 14 races of 3 browsers and 5 subjects, fairness | all properties of `Accounts` but one | 6 thousand states |
| `accounts_choice` | the first request of a test | violates `AccountsNeedAChoice` | stops at once |
| `operations` | one reader and two changes; every month end of five years; two dependencies; two operators | the five properties of the parts | 0.3 million states |

The properties:

* `LinkedObjectsAccepted`: the object of every file row is there and accepted.
  This is ADR-036: compensation must not delete what a COMMIT in doubt makes
  visible, and a late PUT or copy must not overwrite it.
* `OneCurrentFile`: exactly one current file per record with files.
* `OnlyScannedFiles`: nothing becomes readable or linked without an accepted
  scan, including by a copy served late.
* `AnswerIsTrue`: what the client may conclude from the status. 201: the row is
  there. 401, 403 and 429: no row, no object, and neither a COMMIT nor a storage
  request on its way. 503 asks to check the record before retrying, and that
  check finds something only where the answer to the COMMIT was lost. 500
  promises nothing.
* `NoSilentOrphan`: an upload that ended with a definite outcome leaves an unlinked
  object only together with an activity event. Exceptions are exactly the outcomes
  that say so (`unknown`, `auditFailed`) and a crash.
* `SlotsMatchRequests`: the slot counter equals the requests that hold a slot.
* `LostAuthorityNeverCommits`: an upload that lost a ground which cannot come
  back, before its transaction began, never commits. A ground lost after the
  snapshot may still commit: the code promises no more.
* `UploadsSettle`: every started upload is answered.
* `ImplementsRecordStore`: with the rows, the current files and the readable
  objects as its state, intake implements `RecordStore`: files are published
  atomically, permanently and only when readable.

Of the team:

* `CompanyHasOwner`: saves that take ownership away count the other owners first,
  each in its own snapshot, yet an active owner remains. With first-updater-wins
  alone two owners demote each other. It is said of states in which no operator has
  taken anybody away (`NobodyTaken`): no one counts owners for an operator.
* `SingleGrant`: nobody holds two unrevoked rows of a role. The schema has no
  index for it; the code inserts after finding none.
* `ImplementsInvitationLife`: an address never has two invitations it could
  accept, and no invitation changes its answer.
* `AccessHasACause`: a member gains a role only in the step that accepts an
  invitation for the first time or that saves this member's roles. One who joins
  or returns holds exactly the roles of the invitation.
* `SavesAreWhole`: the form sends the whole set of a member's roles, without a
  version. A save that changes anything leaves that set, and with it only what an
  invitation gave that was accepted since the save's snapshot: two saves never mix,
  and a save never keeps or loses a role that another save changed unseen. (A
  form loaded long ago still wins over what was saved since, as the code intends.)
* `MailsAnnounceInvitations`: a mail goes out once, of an invitation that exists,
  also when the transaction was refused and repeated.
* `AuthorityIsCurrent`: a request whose ground is gone when an attempt begins is
  never answered with success. An accept rests on the inviter's ground too.
* `RequestsSettle`: retries end, and every request is answered.

Of the company's services:

* `OneActiveEmployment`, `AcceptedMeansEmployed`: accepting finds no active
  relationship and activates the pending one or creates one, with no index behind
  it; a person never has two, though two accepts each find nothing. (They
  overlap when the first invitation expires meanwhile.) An accepted invitation points to one that was active.
* `EmploymentHasACause`: a relationship becomes active only in the step that
  accepts an open invitation of its person, and never once it has ended.
* `ImplementsInvitationLife`: the abstract life cycle of the team's invitations
  is that of these too.
* `EditsBuildOnLatest`: versions are only added, with the next number, by whoever
  had loaded the latest. Records are pinned to versions.
* `PackOnlyRetires`: of a definition that is there, even one that was made while
  it was installing, an installation of the pack changes nothing but the
  activation of synthetic ones. That the comment and the decision log promise
  more is `PackKeepsDecisions`, which is violated, see below.
* `AuthorityIsCurrent`: whoever loaded the page gets nothing by it when what the
  page rests on is gone before an attempt begins, nor through another's session.
* `StaleFormsRejected` is violated, see below.

Of the accounts:

* `OneAccountPerAddress`: callbacks of two subjects with one address, in whatever
  case, and an operator's provisioning leave one account, of one subject.
* `SpentSetupsMakeNothing`: a request whose setup has made a company makes and
  changes none, whether that company was left, closed, or left for another's; while
  the setup is valid it leads into that company or is refused. It is the lookup of
  `Previous` that decides; without it, the insert of a taken id would fail, and a
  founder who works elsewhere would be led there.
* `OneInitialCompany`, `CompanyBelongsToWhoAsked`: concurrent setups leave an
  account with one company; it belongs to the subject whose sign-in began the setup.
* `SignedOutMeansGone`: a browser sent on to the provider's logout left no session.
* `EndedSessionsStayEnded`: no request that had resolved a session revives it.
* `SuspensionShutsOut`: a sign-in that has not passed `createSession`'s check when
  the account is suspended ends without a session. One that has passed it inserts
  its row, which then resolves to nothing as long as the account is suspended.
* `AnswersAsTested`: the model answers as the repository's tests assert, which
  ties it to the code they run. Where test and code disagree, about a sign-in
  without a flow cookie, the step is left out or answered "any"; see the findings.
* `RequestsEnd`: no lock or lost response leaves a request hanging.
* `AccountsNeedAChoice` is violated, see below.

Of the operations:

* `AccessHasGrounds`: whoever gets a record, a link or a file had one whole
  reason for it at some moment since asking, and the access is recorded first.
* `ListsMatchAccess`: the three lists, which filter on their own, show what
  `canReadStoredRecord` opens, and offer only downloads the route serves.
* `DatesRight`: derived dates are the same day of the month, or its last.
* `ReadyIsRecent`: "ready" is never older than the cache's life and one probe.
* `SecretsMatch`: the DEV client never has production's secret, and a runtime file
  that names it has its secret, through crashes, repeats and two operators.

**Bounds.** Every interaction in upload is between an upload and the stores,
between two uploads of one record, or between uploads and the slot counter. Two
uploads and one existing record contain the first two. An authority change
affects each upload alone, hence one upload there. `MaxInFlight` is the literal 2
of the route, and 1 where there is one upload. `upload_faults` has company
members only: what waits for a row lock is a replacement, which a person cannot ask
for, and a person's upload takes no step a company's does not. Persons are in
`upload_authority`.

In the team and the company's services an anomaly of snapshots takes two writers
that miss each other; the third request of `services_company` lets a cycle pass
through a transaction that had already committed. Two accounts are an inviter and a
recipient, or two owners; the theorem has any number. `Attempts` stands for the
literals 5 and 4 of the retry loops: 2 is a first attempt, a last one, and the
refusal after it. `services_company` and the violation runs have 1: a retry keeps
what the page said and takes a new snapshot, as a request does that begins later,
and no property of that run looks at what is kept between the attempts. The
retries of these requests are in `services_authority`.

`Mixed` gives each request of `services_company` the kinds that interact: an accept
or edit that is slow, what overtakes it, and what follows. `EitherTask` has one half
of the instance answer invitations, where an accept finds an employment that waits
or must begin its own, and the other edit definitions; neither writes what the other
reads, so their product would say no more. Declines are in `services_authority`.

In the accounts every race is between requests of one subject, of one address, of
one account's row or of one browser; each plan has those that can meet in one
of these. The plans run one at a time, their steps interleave completely where
`after` leaves them free. `RateLimit` is the code's 30; `crowd` is thirty others.

`Changes = 2` lets the tables turn against a reader and back, or one ground end
as another begins. The dates are the ends and beginnings of all months of common,
leap, century and 400-year years, and the demo's. Cache, probe and horizon are
1, 2 and 7 ticks: two probes with their caches, one after the other. Three
secrets let two operators each begin a client, and one begin again.

The sets are small, not the behaviours: each run explores its instance completely.
The proofs below remove the bounds from what they cover.

**Symmetry** permutes the requests of `upload_slots` and `team_invitations`, which
check no liveness property.

**Fairness.** `FairSpec` assumes weak fairness of each request's steps and of
`Resolve`. The event loop runs what is ready, and every `await` ends: S3 calls
after `timeoutMs`, the transaction after 10 s, staging after 120 s. PostgreSQL
finishes a COMMIT it has received. Weak fairness is enough for the row lock: an
upload that waits for it forever would be one that can take it, or time out,
forever. Nothing is assumed of arrivals, of late storage requests, of crashes
or of changes of authority. In `TeamAccess` weak fairness of each request's
`Serve` says that a transaction ends: it commits, throws, is refused or reaches its
timeout. PostgreSQL may refuse every attempt; the bound ends the retries. In
`Accounts` weak fairness of each step says that browsers send what the plan says,
the provider answers and queries return; a lock that somebody holds for good
would still block, and `RequestsEnd` shows that nobody does.

**Deadlock** is checked: the only way to stop is `Stop`, when all requests have
been answered and no COMMIT is in doubt (in `TeamAccess` and `CompanyServices`:
all answered; in `Accounts`: the plan carried out). `operations` does not check
it: a reader who was answered and dates that were computed have nothing left to do.

### The findings

* The deployment document promises two concurrent uploads per process
  (`docs/PERSISTENT-STORAGE-V1-DEPLOYMENT.md` 64-65). The route compares the
  counter before it awaits the authorisation and increments it afterwards, so
  requests that arrive in between all pass. `upload_slots` shows three slots
  taken under a cap of two. No other property depends on the cap.
* "Version conflicts reject instead of overwriting changes"
  (`docs/DECISION-LOG.md` 1004). Saving a form also writes its `active`
  (`record-definitions.ts` 73), but activating and deactivating make no version.
  `definitions_stale`: two users load a definition; one deactivates it; the other's
  form, its switch untouched, is saved without a conflict and activates it again.
* "Idempotent installer never overwrites later Governance decisions"
  (`starter-pack.ts` 21), "Later runs preserve Governance edits"
  (`docs/DECISION-LOG.md` 1012). After adding what is missing, the installer
  deactivates every active synthetic definition (28-29). `definitions_pack`:
  Governance activates one, the pack is installed again, and it is inactive.
* An ordinary sign-in of an unknown subject should be sent back with
  `OnboardingRequired` (`apps/web/lib/auth-errors.ts` 4,
  `docs/COMPANY-REGISTRATION-RESUME-REPORT.md` 51, and the first request of
  `infrastructure/auth/verify-company-resume.ts`, 86-89). The code seals a flow
  without a choice as well (`auth.ts` 125) and creates accounts for every verified
  flow (96): `accounts_choice` shows the account. For the same reason an owner who
  signs in ordinarily, without a pending setup, lands on `/person`, where the
  report (62-63) and `browser-company-resume.cjs` 88 expect `/company`.

## 4. Proofs

### Record upload

These theorems hold for every set of requests and existing records, every cap,
every scan policy and every set of faults. The assumptions on the constants are
`DistinctIds` (ids of uploads and existing records differ), `FiniteRequests`
and `KnownActors`.

* `TypesAndSlots` (`TypeOK` and `SlotsMatchRequests`, together because the
  counter is a natural number only as long as it is right). Three lemmas say
  what taking, returning and keeping a slot do to the cardinality.
* `LinkedObjectsStay`, `ScanGateHolds`, `AnswersAreTrue`, `OrphansAreAnnounced`
  rest on `RequestInv`, a predicate of each request. None of the four properties
  is inductive: a linked file is safe because no request that may delete it can
  still be on the way, which takes three facts together.
  `ObjectInv`: up to COMMIT nothing is late for the key, so its object is what
  the last served request made of it. `CommitInv`: a file is linked or in doubt
  only while its request has settled or knows that it is uncertain, so whoever
  deletes is neither. `OutcomeInv`, `AnswerInv` and `OrphanInv` tie the
  outcomes, the answers and the events to both.
  A step of one request preserves its own predicate (`OwnStep`) and leaves
  everything another request's predicate mentions alone (`OthersUntouched`).
* `OneCurrentFileAlways` rests on `SharedInv`: a replacement that may still
  apply holds the row lock of its record, its snapshot saw exactly one file, and
  that file is still current. Two replacements of a record cannot both be in
  that position, since the lock has one holder; a crash keeps the locks of
  transactions in doubt.
* `IntakeImplementsRecordStore`: initial states map to initial states; the steps
  that apply a transaction map to `Publish`, because what they retire is the
  record's current file (`RetiresTheCurrentFile`); every other step maps to
  `Restock` or a stutter, because it keeps linked objects readable.
* `LostAuthorityIsFinal` (`LostAuthorityNeverCommits`): the uploads that can no
  longer commit are closed under every step. `Barred(r)` describes them: not
  linked, in doubt or at COMMIT, with a snapshot that refuses or, before the
  snapshot, without a ground that cannot return. That an upload which loses such
  a ground is `Barred` takes `RequestInv` (nothing before the transaction is in
  doubt) and `ReassignedInv` (metadata is only reassigned after it was read).

### Team access

For every set of accounts, roles, requests and open invitations, every bound of
the retry loops and everything operators may do, from `KnownRoles`, `KnownAsks`,
`DistinctInvitations`, `SomeAttempt` and `SoundTeams` (the tables at first have
an owner, no role twice, and one open invitation of an address).

None of the properties is inductive: what a transaction writes depends on a
snapshot that may be old. The invariant `TeamInv` therefore says, of every open
transaction (`InFlight`), how old: where its snapshot differs from the tables, a
transaction in the log that it did not see changed the row (`Changed`), or had
read and changed the very item (`Raced`). The argument is then the same for every
property. A commit that writes an item it has read finds it not raced, or each of
the two transactions would precede the other (`NoCycle`, `NotRaced`); a commit
that updates a row finds it unchanged (`NotChanged`). So what the snapshot showed
still holds of everything the commit touches.

`SaveEffect`, `SendEffect`, `CloseEffect` and `AcceptEffect` show that every
operation has an effect its declared reads, writes and rows account for
(`Tracked`); `OthersStand` that such a commit keeps what the invariant says of
the transactions still open. From these:

* `TypesHold` (`TypeOK`), `GrantsAreSingle` (`SingleGrant`);
* `TeamImplementsInvitationLife` (`ImplementsInvitationLife`): each commit sends
  or answers at most one invitation; what it finds open is open, and where it
  finds none waiting there is none;
* `OwnerRemains` (`CompanyHasOwner`). Where nobody has been taken away nobody had
  been before (`NobodyWasTaken`), so the invariant needs no history. A commit that takes away the ownership of the
  last owner had seen another; whoever demoted that one unseen had counted all
  owners, and would both precede and follow it (`OwnerInv`).
* `AccessHasCauses` (`AccessHasACause`) needs one fact more: whoever changes a
  grant has read the membership it belongs to (`LogReads`). A returning member
  reads all grants and writes the membership; a save that added a role unseen
  would have read that membership, and precede and follow the return
  (`NotOvertaken`). So the member holds what the invitation says and no more.
* `SavesStayWhole` (`SavesAreWhole`) needs to know why others wrote a grant. Every
  commit is `Explained`: it writes a grant after looking at all of that member's
  grants (a save, a return), or together with the row of an invitation that gives
  the role (an acceptance). `GrantInv` keeps this of the log (`LogExplained`), with
  what an open snapshot says of such an invitation: not accepted yet
  (`AnsweredSince`). A save that writes anything has read all grants of its member.
  One that another had changed unseen, after looking at all of them too, puts each
  before the other (`NotOvertaken`). What is left is what acceptances gave.
* `MailsAreAnnouncements` (`MailsAnnounceInvitations`) from `MailInv`: only a
  commit that created an invitation goes on to the mailer, and no status
  returns to "none", which is the refinement of `InvitationLife` again.
* `AuthorityStaysCurrent` (`AuthorityIsCurrent`): the property is about behaviours
  in which nobody regains what a request rests on, and the theorem says so with
  `NobodyRegains`, an action formula about open requests. A request without its
  ground is `Doomed`: its snapshot refuses it, its callback can only throw, and the
  next attempt begins as poor as the last. `AuthorityStaysCurrentAlone` discharges
  the hypothesis for a request that meets only operators and the clock, the
  instance of `team_authority`.

### The company's services

For every set of accounts, requests, relationships and definitions, every pack and
every draft, from `KnownStart` (the tables at first are sound), `NewInvitations`
(an id is fresh) and `PoliciesTyped`. `ServicesInv` has the shape of `TeamInv`: an
invitation, a relationship or a definition that differs from an open snapshot
was changed or raced by a commit in the log. A relationship only moves forward
(`RelationStands`).

* `EmploymentsAreSingle` (`OneActiveEmployment`): accepting reads the person's
  active employment, finds none, and writes it; two that overlap would each
  precede the other.
* `AcceptedAreEmployed` (`AcceptedMeansEmployed`), `EmploymentsHaveCauses`
  (`EmploymentHasACause`) and `ServicesImplementInvitationLife` follow from what
  each kind of commit does (`StepKinds`).
* `EditsBuild` (`EditsBuildOnLatest`): a version is a unique key, hence a row that
  a concurrent edit would have changed; the edit's snapshot is the table's
  definition, and the version its form came from is the latest there.
* `PackSpares` (`PackOnlyRetires`): what the pack writes are keys it saw
  missing and synthetic definitions it saw active. Its commit updates those rows,
  so none has changed since, and a definition made meanwhile is not among the
  missing or refuses it (`InstallEffect`, `Spared`).
* `AuthorityStaysCurrent` (`AuthorityIsCurrent`) needs no hypothesis: no
  service of the module grants what the requests rest on, and what operators
  change only shrinks it (`AuthorityShrinks`).

### Accounts

For every plan, subject, address and rate limit, from `PlansTyped` (a step waits
for earlier steps and names what it uses) and `EmailsTyped`. Everything runs at READ
COMMITTED, so no commit is refused for what it read. The argument goes in layers,
each inductive given those before:

* `Typed`: the types, and what a request has found by each of its steps.
* `AccountsInv`: an account is made only for a subject without one, at an address
  nobody has at that very step (`Enrols`): the last look, or the unique index,
  decides, whatever an earlier lookup said. Addresses are stored in lower case
  (`LowerCase`), so this covers every spelling: `AddressesHaveOneAccount`. A sign-in
  past enrolment goes on with its subject's account (`KnowsAccount`).
* `SessionsInv`: a sign-out that was answered with the provider's logout has deleted
  the row (`SignedOutStaysGone`), and an update finds its row or nothing
  (`SessionsEndForGood`).
* `SessionsAreTheirOwners`: every session is of the subject the provider vouched
  for and of the account this subject's identity names, whatever raced between the
  lookups of the callback and the insert, and for as long as it lasts. It takes
  `KnowsAccount`, and that identities are never moved (`IdentitiesStay`).
* `SetupsInv`: a setup cookie names the subject whose sign-in made it, and that
  subject's account (`SetupTrue`).
* `RequestsInv`: here a lock carries the argument. Of the requests of one account,
  one at a time is past the lock of its row (`OneInSetup`), and its setup is for
  the account that asks (`AskedBySelf`).
* `CompaniesInv`: the company's id is its setup's, and while a request that holds the
  account's row is about to write one, there is none (`NoneWhileWriting`). Hence
  `InitialCompaniesAreSingle` and `CompaniesAreTheAskers`. What a setup has made is
  therefore the company under its nonce, which is what `ChooseWorkspace` looks up
  and `WriteWorkspace` collides with (`SpentSetupStep`): `SpentSetupsStaySpent`.
* `SuspendedGetNoSession` (`SuspensionShutsOut`): the sign-ins that are shut out
  (`Excluded`) stay so, since a plan without a restoring operator never activates
  an account again.

### Operations

The four parts share no state; `OperationsInv` is the conjunction of theirs.

* `ReadersHadGrounds` (`AccessHasGrounds`) for all tables and any number of changes:
  a reader's answers so far each had a ground since asking. From `AccessTyped`
  and `NoAskIsNoAsk`.
* `ListsAlwaysMatch` (`ListsMatchAccess`) where no record's version has the context
  `COMPANY`. The schema has it, the code makes none, and the run has none. A
  company's own record would open for its members and be on no company's list.
* `DatesAlwaysRight` (`DatesRight`) for every date and number of months, from
  `KnownDates`: the arithmetic of `addUtcMonths` is that of the calendar.
* `ReadyStaysRecent` (`ReadyIsRecent`), from `ReadyAssumptions`: a probe's findings
  are no older than the probe, and the cache's no older than the probe before it.
* `DevSecretsMatch` (`SecretsMatch`), from `SecretsDiffer`: a script that has changed
  the client knows its secret until it ends, since only the runtime file's own
  secret replaces one that is there.

### What is only model-checked

* `UploadsSettle`, `RequestsSettle` and `RequestsEnd`: liveness under fairness is
  out of the prover's reach. Each `FairSpec` has `Spec` as its first conjunct, so
  every safety theorem holds of it too.
* `AnswersAsTested` is about the particular plans of the repository's tests.
* The four properties that runs show violated.

Every other invariant and action property of the runs, and each refinement, is
stated by a theorem. The types of `TeamAccess` and `Accounts` (`TypesHold`) are
proved and in no run's list. TLC evaluates the assumptions on every run, and has checked
the inductive invariants on the instances of the runs as well.

### Not modelled

* Storage configuration and scanner selection: environment variables read once;
  their result is the constant `AllowUnscannedDev`.
* Checksums, streaming and content sniffing: the bucket returns the bytes it was
  given, and staging fails or succeeds.
* The schema and the generated client: the tables' uniqueness rules are in the
  modules that depend on them.
* Rendering, mail texts, Keycloak theming and realm bootstrap, deployment, build
  and audit scripts: nothing of the application's state depends on them.
* The governance users page, `companyTeam` and the team's two listings, which
  only read.

## 5. Plan

Every safety property is proved, so what is left is to say more:

1. The converse of `AccessHasACause` for an acceptance by a member who was there
   already: the roles are added, unless another commit takes one away. For saves,
   and for members who join or return, it is proved.
2. A record's definition version is one that was the latest when its upload read
   it. This needs record upload composed with `RecordDefinitions` instead of
   `Revoke` and `Restore`.
3. `ObjectStore` as an implementation of an abstract bucket in which an
   acceptance is atomic.
