SPECIFICATION Spec
CONSTANTS
  Request = {r1, r2, r3}
  Existing = {e1}
  Actors = {"PERSON", "COMPANY"}
  MaxInFlight = 2
  AllowUnscannedDev = TRUE
  Faults = {}
  None = None
SYMMETRY Uploads
INVARIANTS
  ConcurrentUploadsCapped
