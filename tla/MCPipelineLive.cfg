CONSTANTS
  s1 = s1
  s2 = s2
  i1 = i1
  Sessions = {s1, s2}
  Ids = {i1}
  MaxReviews = 2
  MaxBump = 0
  MaxRetries = 1
  Value <- MCValue
  Funds = 5
  AnchorLag = 1
  IncludedAs = {"confirmed", "settling"}
  SignBindsReview = TRUE
SPECIFICATION FairSpec
PROPERTIES SignedIsNoticed IncludedIsConcluded KeepsThePromise
CHECK_DEADLOCK FALSE
