CONSTANTS
  r = r
  Readers = {r}
  Mails = {1}
  MaxKey = 1
  MaxBlock = 2
  Page = 1
  Rewind = 1
  Settled = TRUE
  InboxBudget <- MCInboxBudget
SPECIFICATION InboxSpec
INVARIANT AnswerIsKept
CHECK_DEADLOCK FALSE
