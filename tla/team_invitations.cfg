SPECIFICATION Spec
CONSTANTS
  a1 = a1  a2 = a2
  owner = owner  staff = staff  old = old
  None = None
  Account = {a1, a2}
  Role = {owner, staff}
  Owner = owner
  Managing = {owner, staff}
  Request = {r1, r2}
  Existing = {old}
  Asks <- InviteAsks
  Teams <- InviteTeams
  Attempts = 2
  Outside = {"member", "clock"}
SYMMETRY Permuted
INVARIANTS CompanyHasOwner SingleGrant MailsAnnounceInvitations
PROPERTIES ImplementsInvitationLife AccessHasACause SavesAreWhole
