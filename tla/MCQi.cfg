CONSTANTS
  s1 = s1
  s2 = s2
  o1 = o1
  o2 = o2
  Sessions = {s1, s2}
  Ops = {o1, o2}
  MaxAddress = 5
  WideGaps = {2}
  FirstPool = 1
  MaxPool = 2
  Quotes <- MCQuotes
  QuotedFee = 10
  Percents = {5}
  MaxEffort = 4
  IncludedAs = {"confirmed", "settling"}
SYMMETRY Symmetric
SPECIFICATION Spec
INVARIANTS NoAddressTwice BumpPaysWhatItSays
PROPERTIES QiKeepsThePromise
CHECK_DEADLOCK FALSE
