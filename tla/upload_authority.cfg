SPECIFICATION Spec
CONSTANTS
  Request = {r1}
  Existing = {e1}
  Actors = {"PERSON", "COMPANY"}
  MaxInFlight = 1
  AllowUnscannedDev = TRUE
  Faults = {"storage", "database", "scanner", "cleanup", "crash", "revocation", "reassignment"}
  None = None
PROPERTIES
  LostAuthorityNeverCommits
