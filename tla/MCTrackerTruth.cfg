CONSTANTS
  t1 = t1
  t2 = t2
  Trackers = {t1, t2}
  Ops = {1}
  Conversions = {1}
  MaxBlocks = 3
  MaxReorgs = 1
  MaxRetries = 1
  MaxFailures = 1
SPECIFICATION FairSpec
INVARIANTS ConcludedIsAuditable IInv
PROPERTY OnlyReorgsTakeBack TruthPrevails
CHECK_DEADLOCK FALSE
