---------------------------- MODULE MCOperations ----------------------------
EXTENDS SyntheticDemo

(* The demo's records, one that is the person's alone, and one that the    *)
(* person may not see; nothing in the code makes a company's own record.   *)
Versions ==
  [d \in Record |->
     CASE d = "private" -> [SyntheticDefinitions.proof EXCEPT
                              !.context = "PERSON", !.roles = {"HR"}]
       [] d = "internal" -> [SyntheticDefinitions.payslip EXCEPT
                               !.definition = "def-internal", !.visible = FALSE,
                               !.roles = {"OWNER"}]
       [] OTHER -> SyntheticDefinitions[SyntheticRecords[d].definition]]

(* Editing shows a definition's later records to everyone.                 *)
Widened == [d \in Record |-> [Versions[d] EXCEPT !.visible = TRUE, !.roles = Role]]

Accepted ==
  {"internal"} \cup {d \in DOMAIN SyntheticRecords : SyntheticRecords[d].file = "ACCEPTED"}

(* The demo's grant, and one to download verification records.             *)
Grants ==
  [demo |-> SyntheticLegalGrant,
   verify |-> [to |-> "lawyer", definitions |-> {}, categories |-> {"Verification"},
               view |-> TRUE, download |-> TRUE]]

(* Ends and beginnings of all months of common, leap and century years.    *)
Dates ==
  {SyntheticRecords[d].created : d \in DOMAIN SyntheticRecords}
  \cup {d \in [year : {1999, 2000, 2023, 2024, 2099}, month : 0 .. 11,
               day : {1, 28, 29, 30, 31}] :
          d.day <= DaysIn(d.year, d.month)}

Ends == {[year |-> 2023, month |-> 7, day |-> 31], [year |-> 2024, month |-> 1, day |-> 29]}

=============================================================================
