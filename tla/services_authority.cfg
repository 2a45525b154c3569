SPECIFICATION Spec
CONSTANTS
  boss = boss  emp = emp  old = old  past = past
  r1 = r1  r2 = r2  r3 = r3  hr = hr  doc = doc  std = std  demo = demo
  None = None
  Account = {boss, emp}
  Request = {r1}
  Existing = {old}
  Former = {past}
  Attempts = 2
  Definition = {doc, std, demo}
  System = {std, demo}
  Role = {hr}
  Drafts <- TwoDrafts
  Pack <- StandardPack
  Synthetic = {demo}
  Kinds <- AllKinds
  Databases <- TwoEditors
  Outside = {"clock", "employment", "authority", "company", "role", "browser"}
PROPERTIES AuthorityIsCurrent
