CONSTANTS
  a = a
  b = b
  Wallets = {a, b}
  Home = a
  Budget <- MCBudget
SPECIFICATION CustodySpec
INVARIANTS LockTakesKeys NothingSignedLate
CONSTRAINTS LeavesSoon ThreadsInOrder
CHECK_DEADLOCK FALSE
