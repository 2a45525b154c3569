----------------------------- MODULE MCAccounts -----------------------------
EXTENDS AccountScenarios

(* ANN is another subject with ann's address in capitals.                  *)
Emails ==
  [s \in Subject |-> [address |-> IF s = "ANN" THEN "ann" ELSE s,
                      upper |-> s = "ANN"]]

AllPlans == Tests \cup Races

(* The first request of verify-company-resume.ts.                          *)
Unchosen == {InOrder(<<SignsIn(b1, "ann", "NONE", "any")>>)}

=============================================================================
