\* One command, failing requests and a crash.
CONSTANTS
  s1 = s1
  Senders = {s1}
  CaseLimit = 2
  Ttl = 2
  BatchLimit = 2
  RetryBase = 1
  RetryMax = 2
  Overdue = 1
  MaxRetries = 2
  MaxMessages = 3
  MaxCommands = 1
  Kinds = {"cases", "other"}
  Unreliable = TRUE
  CasesChange = TRUE
  MaxRedelivered = 0
  MaxForgotten = 0
  MaxCrashes = 1
SPECIFICATION FairSpec
CHECK_DEADLOCK FALSE
INVARIANTS
  TypeOK
  NothingUntracked
PROPERTIES
  CleanupIsNotEarly
  QueuedIsDeleted
