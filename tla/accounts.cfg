SPECIFICATION FairSpec
CONSTANTS
  b1 = b1  b2 = b2  b3 = b3
  None = None
  Browser = {b1, b2, b3}
  Subject = {"ann", "ANN", "bob", "eve", "zoe"}
  Email <- Emails
  RateLimit = 30
  Plans <- AllPlans
INVARIANTS OneAccountPerAddress OneInitialCompany
  CompanyBelongsToWhoAsked SignedOutMeansGone AnswersAsTested
PROPERTIES SpentSetupsMakeNothing EndedSessionsStayEnded SuspensionShutsOut RequestsEnd
