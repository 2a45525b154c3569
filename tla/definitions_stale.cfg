SPECIFICATION Spec
CONSTANTS
  boss = boss  emp = emp  old = old  past = past
  r1 = r1  r2 = r2  r3 = r3  hr = hr  doc = doc  std = std  demo = demo
  None = None
  Account = {boss, emp}
  Request = {r1, r2}
  Existing = {old}
  Former = {past}
  Attempts = 1
  Definition = {doc, std, demo}
  System = {std, demo}
  Role = {hr}
  Drafts <- TwoDrafts
  Pack <- StandardPack
  Synthetic = {demo}
  Kinds <- EditKinds
  Databases <- EndedStart
  Outside = {"clock", "employment"}
PROPERTY StaleFormsRejected
