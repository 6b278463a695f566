CONSTANTS
  Lanes = {lane}
  Clis = {cli}
  MaxReviews = 3
  LastStage = 1
  StepBudget = 2
  MaxFaults = 1
SPECIFICATION FairSpec
INVARIANTS OneWalker SignedIsListed OneStepAtATime NoStageTwice
PROPERTIES CancelledStops LastStepCompletes
CHECK_DEADLOCK FALSE
