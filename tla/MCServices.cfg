CONSTANTS
  p1 = p1
  p2 = p2
  x = x
  y = y
  z = z
  l1 = l1
  l2 = l2
  l3 = l3
  l4 = l4
  Procs = {p1, p2}
  Views = {x, y, z}
  Lookups = {l1, l2, l3, l4}
  ViewOf <- MCViewOf
  ProcOf <- MCProcOf
  FeedBudget <- MCFeedBudget
  daemon = daemon
  terminal = terminal
  cli = cli
  Checkers = {daemon, terminal}
  Daemon = daemon
  Editors = {cli}
  MaxAlerts = 2
  AlertBudget <- MCAlertBudget
  a = a
  b = b
  Wallets = {a, b}
  FirstWallet = a
  DataHeld = 1
  MaxAsked = 3
  MaxEngines = 3
  r = r
  Readers = {r}
  Mails = {1}
  MaxKey = 2
  MaxBlock = 3
  Page = 1
  Rewind = 1
  Settled = TRUE
  InboxBudget <- MCInboxBudget
SPECIFICATION ServicesSpec
INVARIANTS OneFetcher FiresOncePerCrossing EditsSurviveChecks EngineFollowsScreen ReadsAreConfigured NothingOutlivesItsEngine InboxInStep
PROPERTIES CacheMovesForward ScreenMovesForward
CONSTRAINT StillAsked
CHECK_DEADLOCK FALSE
