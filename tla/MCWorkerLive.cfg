CONSTANTS
  w1 = w1
  w2 = w2
  main = main
  test = test
  Places <- MCPlaces
  FirstPlace <- MCFirst
  FirstHeight <- MCHeights
  MaxJournal = 2
  MaxEvents = 2
  MaxQi = 2
  WorkBudgets <- MCPolled
SPECIFICATION WorkerFairSpec
PROPERTY BalancesCatchUp
CHECK_DEADLOCK FALSE
