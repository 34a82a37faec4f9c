SPECIFICATION IntakeSpec
CONSTANTS
  NoLine = NoLine
  NoAmount = NoAmount
  None = None
  Blank = Blank
  Unreadable = Unreadable
  Orders = {"a", "b"}
  Uploads = {u1, u2}
  MaxProposed = 2
  PoLines <- MCPO
  Seen <- MCSeen
  Answers <- MCAnswers
  Edits <- MCEdits
  Posted <- MCPosted
  MaxLines = 2
  Ordered = 2
  UnitPrices = {50, 51, 52}
  ServicePrice = 50
INVARIANT MatchedIffTotalsFit DraftBillsExtraction PrefilledDraftMatches
CHECK_DEADLOCK FALSE
