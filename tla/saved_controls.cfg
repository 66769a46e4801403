\* Listings and replies beside forgotten senders and the cleanup; updates come twice.
CONSTANTS
  s1 = s1
  s2 = s2
  Senders = {s1, s2}
  CaseLimit = 2
  Ttl = 1
  BatchLimit = 2
  RetryBase = 1
  RetryMax = 2
  Overdue = 1
  MaxRetries = 0
  MaxMessages = 6
  MaxCommands = 2
  Kinds = {"cases", "allow"}
  Unreliable = FALSE
  CasesChange = FALSE
  MaxRedelivered = 1
  MaxForgotten = 1
  MaxCrashes = 0
SPECIFICATION Spec
CHECK_DEADLOCK FALSE
SYMMETRY SenderSymmetry
INVARIANTS
  CardOutlivesControl
  ControlsAreOfLastListing
