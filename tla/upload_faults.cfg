SPECIFICATION FairSpec
CONSTANTS
  Request = {r1, r2}
  Existing = {e1}
  Actors = {"COMPANY"}
  MaxInFlight = 2
  AllowUnscannedDev = FALSE
  Faults = {"storage", "database", "scanner", "cleanup", "crash"}
  None = None
INVARIANTS
  TypeOK
  LinkedObjectsAccepted
  OneCurrentFile
  OnlyScannedFiles
  AnswerIsTrue
  NoSilentOrphan
  SlotsMatchRequests
PROPERTIES
  ImplementsRecordStore
  UploadsSettle
