SPECIFICATION Spec
CONSTANTS
  NoAsk = NoAsk  NoDate = NoDate  Nothing = Nothing  NoSecret = NoSecret
  Account <- SyntheticAccounts
  Worker <- SyntheticPerson
  Role = {"OWNER", "HR", "PAYROLL", "CLERK"}
  Record = {"payslip", "proof", "private", "internal"}
  Version <- Versions
  Edited <- Widened
  Downloadable <- Accepted
  Grant = {"demo", "verify"}
  Legal <- Grants
  Staff <- SyntheticMembers
  Roles <- SyntheticActors
  Changes = 2
  Created <- Dates
  Ended <- Ends
  Months = {1, 12, 36, 84}
  Dependency = {"database", "storage"}
  Ttl = 1
  ProbeLimit = 2
  Horizon = 7
  Operator = {o1, o2}
  Secret = {s1, s2, s3}
  Shared = Shared
INVARIANTS AccessHasGrounds ListsMatchAccess DatesRight ReadyIsRecent SecretsMatch
CHECK_DEADLOCK FALSE
