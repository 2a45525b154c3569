---------------------------- MODULE SyntheticDemo ----------------------------
(***************************************************************************)
(* The company, the person and the records of synthetic-demo.ts, as the    *)
(* tables Operations starts from.                                          *)
(***************************************************************************)
EXTENDS Operations

SyntheticAccounts == {"owner", "payroll", "employee", "lawyer"}

SyntheticPerson == "employee"

SyntheticMembers == {"owner", "payroll"}

SyntheticRoleGrants ==
  {<<"owner", "OWNER">>, <<"owner", "HR">>, <<"payroll", "PAYROLL">>}

(* syntheticOwnerActor, syntheticPayrollActor                              *)
SyntheticActors ==
  [a \in SyntheticAccounts |-> {r \in Role : <<a, r>> \in SyntheticRoleGrants}]

SyntheticDefinitions ==
  [payslip |-> [context |-> "RELATIONSHIP", definition |-> "def-payslip",
                category |-> "Payroll", visible |-> TRUE, roles |-> {"PAYROLL", "HR"}],
   proof |-> [context |-> "RELATIONSHIP", definition |-> "def-proof-address",
              category |-> "Verification", visible |-> TRUE, roles |-> {"HR", "CLERK"}]]

(* When the records were made, and what became of their files.             *)
SyntheticRecords ==
  [payslip |-> [definition |-> "payslip", file |-> "ACCEPTED",
                created |-> [year |-> 2026, month |-> 8, day |-> 1]],
   proof |-> [definition |-> "proof", file |-> "ACCEPTED",
              created |-> [year |-> 2025, month |-> 7, day |-> 15]]]

SyntheticLegalGrant ==
  [to |-> "lawyer", definitions |-> {"def-payslip"}, categories |-> {},
   view |-> TRUE, download |-> FALSE]

=============================================================================
