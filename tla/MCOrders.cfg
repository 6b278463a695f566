CONSTANTS
  Signers = {lane, cli}
  Watchers = {daemon}
  MaxOps = 3
  MaxAttempts = 3
  FeeBudget = 3
  MaxUndone = 1
  MaxReuse = 1
SPECIFICATION Spec
INVARIANTS SignedIsBudgeted OneSwap AnnouncedOnce
PROPERTIES CancelIsFinal
CHECK_DEADLOCK FALSE
