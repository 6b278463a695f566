CONSTANTS
  s1 = s1
  s2 = s2
  i1 = i1
  i2 = i2
  Sessions = {s1, s2}
  Ids = {i1, i2}
  MaxReviews = 2
  MaxBump = 1
  MaxRetries = 0
  Value <- MCValue
  Funds = 7
  AnchorLag = 1
  IncludedAs = {"confirmed"}
  SignBindsReview = TRUE
SYMMETRY Symmetric
SPECIFICATION Spec
INVARIANTS SignedNeverCancelled JournalNamesItsSignature NeverOvercommitted IInv
CHECK_DEADLOCK FALSE
