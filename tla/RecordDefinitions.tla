------------------------- MODULE RecordDefinitions -------------------------
(***************************************************************************)
(* Document definitions: who may keep a kind of record.  Administrators    *)
(* edit them on pages that go stale (record-definitions.ts, the form and   *)
(* the route in front of it); an operator installs a starter pack.         *)
(*                                                                         *)
(* A definition is named by its scope and code, which is unique.           *)
(***************************************************************************)
EXTENDS ServiceTransaction

CONSTANTS
  Definition,
  System,     \* the definitions that belong to the platform
  Role,
  Drafts,     \* what users send as a policy
  Pack,       \* what the starter pack contains, as definition -> policy
  Synthetic   \* what the starter pack retires

Months == Nat \cup {None}

(* Names, category, classification and notifications decide nothing here.  *)
Policy ==
  [direction : {"COMPANY_TO_PERSON", "PERSON_TO_COMPANY", "INTERNAL_COMPANY"},
   personVisible : BOOLEAN, roles : SUBSET Role, reviewMonths : Months,
   retentionMode : {"NONE", "FIXED_FROM_CREATED", "FIXED_FROM_RELATIONSHIP_END"},
   retentionMonths : Months]

ASSUME PoliciesTyped ==
  /\ Drafts \subseteq Policy /\ Pack \in [DOMAIN Pack -> Policy]
  /\ DOMAIN Pack \subseteq System /\ System \subseteq Definition
  /\ Synthetic \subseteq Definition

Row == [versions : Seq(Policy), active : BOOLEAN]

DefinitionItem ==
  [row : {"settings"}, of : Account]
  \cup [row : {"definition", "policy", "catalogue"}, of : Definition]
  \cup [row : {"version"}, of : Definition \X Nat]
  \cup [row : {"role"}, of : Role]

Item(kind, S) == [row : {kind}, of : S]

(* parseDefinitionPolicy: a period is given exactly when a mode needs one. *)
Period(m) == m # None => m \in 1 .. 12000

Parses(p) ==
  /\ Period(p.reviewMonths) /\ Period(p.retentionMonths)
  /\ p.retentionMode = "NONE" <=> p.retentionMonths = None

----------------------------------------------------------------------------
(* What a transaction finds in its snapshot v.                             *)

(* platform.definitions.manage is granted, and MFA done where required.    *)
GovernanceAccess(v, a) == a \in v.active /\ a \in v.governs

(* A role of a current member has company.settings.manage.                 *)
DocumentSettings(v, a) == a \in v.active /\ a \in v.settings /\ v.company

(* authorise: the platform's definitions are governed, a company's are its *)
(* own.                                                                    *)
MayDefine(v, a, d) ==
  IF d \in System THEN GovernanceAccess(v, a) ELSE DocumentSettings(v, a)

Exists(v, d) == v.definition[d].versions # <<>>

Latest(v, d) == Len(v.definition[d].versions)

Changes == {"save", "activate", "deactivate"}

----------------------------------------------------------------------------
(* The page of a definition, with the version and the status it was loaded *)
(* with.                                                                   *)
DefinitionDetail(d) ==
  [expected |-> Latest(db, d), shown |-> db.definition[d].active]

(* What its user makes of the form, or the button below it.                *)
Form(a, d) ==
  LET page == DefinitionDetail(d)
  IN  IF ~MayDefine(db, a, d) THEN {}
      ELSE [kind : {"save"}, by : {a}, on : {d}, expected : {page.expected},
            policy : Drafts, active : BOOLEAN, shown : {page.shown}]
           \cup [kind : IF ~Exists(db, d) THEN {}
                        ELSE {IF page.shown THEN "deactivate" ELSE "activate"},
                 by : {a}, on : {d}, expected : {page.expected}, shown : {page.shown}]

DefinitionForms == UNION {Form(a, d) : a \in Account, d \in Definition}

----------------------------------------------------------------------------
(* writeDefinitionPolicy                                                   *)

(* Defect: the version the form was loaded with is not compared.           *)
WriteErrorBlind(v, q) ==
  IF q.kind # "save" THEN "none"
  ELSE IF ~Parses(q.policy) THEN "invalid_policy"
  ELSE IF ~(q.policy.roles \subseteq v.roles) THEN "invalid_roles"
  ELSE "none"

WriteError(v, q) ==
  IF q.expected > 0 /\ q.expected # Latest(v, q.on) THEN "conflict"
  ELSE IF q.kind # "save" THEN "none"
  ELSE IF ~Parses(q.policy) THEN "invalid_policy"
  ELSE IF ~(q.policy.roles \subseteq v.roles) THEN "invalid_roles"
  ELSE IF q.expected = 0 /\ Exists(v, q.on) THEN "conflict"
  ELSE "none"

(* Versions are rows with a unique number: inserting one replaces nothing  *)
(* unless the database lets two in.                                        *)
WithVersion(versions, n, policy) ==
  [i \in DOMAIN versions \cup {n} |-> IF i = n THEN policy ELSE versions[i]]

(* A new definition takes `active` from the form; an old one is updated to *)
(* it, whether it differs or not.                                          *)
Saved(row, n, q) ==
  [versions |-> WithVersion(row.versions, n, q.policy), active |-> q.active]

Toggled(row, q) == [row EXCEPT !.active = q.kind = "activate"]

WriteReads(q) ==
  Item("definition", {q.on}) \cup Item("policy", {q.on})
  \cup (IF q.kind = "save" THEN Item("role", q.policy.roles) ELSE {})

Write(c, q, v, reads) ==
  \/ /\ WriteError(v, q) # "none"
     /\ Throw(c, WriteError(v, q))
  \/ /\ WriteError(v, q) = "none" /\ q.kind = "save"
     /\ LET n == Latest(v, q.on) + 1
        IN  /\ Commit(c, "done", "saved", reads \cup WriteReads(q),
                 Item("definition", {q.on}) \cup Item("policy", {q.on}),
                 Item("definition", {q.on}) \cup Item("version", {<<q.on, n>>}))
            /\ db' = [db EXCEPT !.definition[q.on] = Saved(@, n, q)]
  \/ /\ WriteError(v, q) = "none" /\ q.kind # "save"
     /\ Commit(c, "done", q.kind, reads \cup WriteReads(q),
          Item("definition", {q.on}), Item("definition", {q.on}))
     /\ db' = [db EXCEPT !.definition[q.on] = Toggled(@, q)]

(* mutateDefinition                                                        *)
Define(c) ==
  LET q == input[c]
      a == actor[c]
      v == view[c]
  IN  /\ Running(c) /\ q.kind \in Changes
      /\ \/ ~MayDefine(v, a, q.on) /\ Throw(c, "denied")
         \/ MayDefine(v, a, q.on) /\ Write(c, q, v, Item("settings", {a}))

(* An insert met a key somebody committed meanwhile: P2002 is not retried. *)
Duplicate(c) ==
  /\ Running(c) /\ input[c].kind = "save"
  /\ Latest(db, input[c].on) > Latest(view[c], input[c].on)
  /\ Throw(c, "conflict")

----------------------------------------------------------------------------
(* installStarterPack                                                      *)

(* Defect: what is there already is not skipped.                           *)
WholePack(v) == DOMAIN Pack

(* What is there is somebody's decision by now.                            *)
Missing(v) == {d \in DOMAIN Pack : ~Exists(v, d)}

(* One serializable transaction of an operator's script, not repeated.     *)
InstallPack(c) ==
  LET v == view[c]
      missing == Missing(v)
      retired == {d \in Synthetic : Exists(v, d) /\ v.definition[d].active}
      touched == missing \cup retired
  IN  /\ Running(c) /\ input[c].kind = "install"
      /\ \/ ~(UNION {Pack[d].roles : d \in missing} \subseteq v.roles) /\ Throw(c, "failed")
         \/ /\ UNION {Pack[d].roles : d \in missing} \subseteq v.roles
            /\ Commit(c, "done", "installed",
                 Item("definition", DOMAIN Pack \cup Synthetic)
                   \cup Item("policy", retired) \cup Item("role", Role),
                 Item("definition", touched) \cup Item("policy", missing),
                 Item("definition", touched)
                   \cup Item("version", missing \X {1}))
            /\ db' = [db EXCEPT !.definition = [d \in Definition |->
                 IF d \in missing
                 THEN [versions |-> WithVersion(@[d].versions, 1, Pack[d]),
                       active |-> TRUE]
                 ELSE IF d \in retired THEN [@[d] EXCEPT !.active = FALSE]
                 ELSE @[d]]]

----------------------------------------------------------------------------
(* Properties.                                                             *)

Applies(c) == Running(c) /\ ~Running(c)'

(* "Always append policy versions; never edit historic policy"             *)
(* (docs/DECISION-LOG.md:1002): records are pinned to a version.  Whoever  *)
(* adds one to what has versions had loaded the latest, and it gets the    *)
(* next number; the starter pack adds none.                                *)
EditsBuildOnLatest ==
  [][\A d \in Definition :
       LET before == db.definition[d].versions
           after == db'.definition[d].versions
       IN  before # after =>
             /\ Len(after) = Len(before) + 1
             /\ SubSeq(after, 1, Len(before)) = before
             /\ before # <<>> => \E c \in Request :
                  /\ Applies(c) /\ input[c].kind = "save"
                  /\ input[c].on = d /\ input[c].expected = Len(before)]_vars

(* What the pack does to a definition that is there, one made or edited    *)
(* while it was being installed included: at most it takes a synthetic one *)
(* out of use (starter-pack.ts:22, 28-29).  It never gives a definition a  *)
(* version, changes one or puts one back into use.                         *)
PackOnlyRetires ==
  [][\A c \in Request, d \in Definition :
       LET before == db.definition[d]
       IN  Applies(c) /\ input[c].kind = "install" /\ before.versions # <<>> =>
             \/ db'.definition[d] = before
             \/ d \in Synthetic /\ db'.definition[d] = [before EXCEPT !.active = FALSE]]_vars

(* "Idempotent installer never overwrites later Governance decisions"      *)
(* (starter-pack.ts:21), "Later runs preserve Governance edits"            *)
(* (docs/DECISION-LOG.md:1012): a run of the installer leaves every        *)
(* definition that is there as it is.                                      *)
PackKeepsDecisions ==
  [][\A c \in Request, d \in Definition :
       Applies(c) /\ input[c].kind = "install" /\ Exists(db, d) =>
         db'.definition[d] = db.definition[d]]_vars

(* "Version conflicts reject instead of overwriting changes"               *)
(* (docs/DECISION-LOG.md:1004): whoever saves a form and leaves `active`   *)
(* as the form showed it does not change it.                               *)
StaleFormsRejected ==
  [][\A c \in Request :
       LET q == input[c]
       IN  Applies(c) /\ reply'[c] = "saved" /\ q.expected > 0
             /\ q.active = q.shown =>
           db'.definition[q.on].active = db.definition[q.on].active]_vars

=============================================================================
