\* Every order of claims over two hours, with slow restores and forgotten senders.
CONSTANTS
  s1 = s1
  s2 = s2
  Senders = {s1, s2}
  Limit = 2
  Reserve = 1
  SenderLimit = 1
  Hour = 2
  MaxTime = 4
  MaxClaims = 5
SPECIFICATION Spec
CHECK_DEADLOCK FALSE
SYMMETRY SenderSymmetry
INVARIANT CapsHold
PROPERTY RefusalIsJustified
