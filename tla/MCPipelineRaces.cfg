CONSTANTS
  s1 = s1
  s2 = s2
  i1 = i1
  Sessions = {s1, s2}
  Ids = {i1}
  MaxReviews = 2
  MaxBump = 1
  MaxRetries = 2
  Value <- MCValue
  Funds = 5
  AnchorLag = 1
  IncludedAs = {"confirmed", "failed", "settling"}
  SignBindsReview = FALSE
SYMMETRY Symmetric
SPECIFICATION Spec
INVARIANT SentIsJournalled
PROPERTY TerminalIsFinal
CHECK_DEADLOCK FALSE
