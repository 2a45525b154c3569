SPECIFICATION FairSpec
CONSTANTS
  a1 = a1  a2 = a2
  owner = owner  staff = staff  old = old
  None = None
  Account = {a1, a2}
  Role = {owner, staff}
  Owner = owner
  Managing = {owner, staff}
  Request = {r1}
  Existing = {old}
  Asks <- EveryAsk
  Teams <- InviteTeams
  Attempts = 2
  Outside = {"member", "clock", "account", "role", "company"}
PROPERTIES AuthorityIsCurrent RequestsSettle
