------------------------- MODULE MCCompanyServices -------------------------
EXTENDS CompanyServices, TLC

CONSTANTS boss, emp, old, past, r1, r2, r3, hr, doc, std, demo

Draft(roles, mode, months) ==
  [direction |-> "COMPANY_TO_PERSON", personVisible |-> TRUE, roles |-> roles,
   reviewMonths |-> None, retentionMode |-> mode, retentionMonths |-> months]

Plain == Draft({}, "NONE", None)

(* One that parses, one whose months say nothing.                          *)
TwoDrafts == {Draft({hr}, "NONE", None), Draft({}, "NONE", 12)}

StandardPack == std :> Draft({hr}, "NONE", None)

(* What the recipient was to the company before, and the pages' authority. *)
Start(was) ==
  [invite |-> [i \in Invitation |->
     [status |-> IF i \in Existing THEN "OPEN" ELSE "NONE", to |-> emp,
      by |-> boss, rel |-> None]],
   relation |-> [r \in Relation |->
     [status |-> IF r \in Former THEN was ELSE "NONE", of |-> emp]],
   persons |-> {boss, emp}, active |-> {boss, emp}, managers |-> {boss},
   settings |-> {boss}, governs |-> {boss}, company |-> TRUE, expired |-> {},
   definition |-> [d \in Definition |->
     [versions |-> IF d = std THEN <<>> ELSE <<Plain>>, active |-> d # std]],
   roles |-> {hr}]

EndedStart == {Start("ENDED")}

(* The pack was installed before: its definition is there, and the         *)
(* synthetic one retired.                                                  *)
Installed(start) ==
  [start EXCEPT !.definition[std] = [versions |-> <<Plain>>, active |-> TRUE],
                !.definition[demo].active = FALSE]

InstalledStart == {Installed(Start("ENDED"))}

(* Invitations are answered: an accept finds a pending employment, or has  *)
(* to begin one.                                                           *)
Staffing ==
  {[Installed(Start(was)) EXCEPT !.settings = {}, !.governs = {}] :
     was \in {"PENDING", "ENDED"}}

(* Definitions are edited, beside installations of the pack, the first or  *)
(* a later one.                                                            *)
Governing ==
  {[start EXCEPT !.managers = {}, !.persons = {boss}] :
     start \in EndedStart \cup InstalledStart}

EitherTask == Staffing \cup Governing

(* Two who may edit the company's definitions.                             *)
TwoEditors == {[Start("ENDED") EXCEPT !.settings = {boss, emp}]}

Edits == {"save", "activate", "deactivate"}

(* An accept that is slow, what overtakes it, and what follows; two edits, *)
(* with an installation of the pack beside them and another later.         *)
Mixed ==
  r1 :> {"accept"} \cup Edits
  @@ r2 :> {"send", "accept", "save", "install"}
  @@ r3 :> {"accept", "revoke", "install"}

AllKinds == [c \in Request |->
  Edits \cup {"install", "send", "accept", "decline", "revoke"}]

(* Governance takes a definition back into use; the pack is installed once *)
(* more.                                                                   *)
DecisionAndPack == r1 :> {"activate"} @@ r2 :> {"install"}

EditKinds == [c \in Request |-> Edits]

=============================================================================
