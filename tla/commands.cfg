\* The CLI process and trusted senders beside the service; one crash.
CONSTANTS
  s1 = s1
  m1 = m1
  m2 = m2
  Senders = {s1}
  Messages = {m1, m2}
  NoChallenge = NoChallenge
  NoSnapshot = NoSnapshot
  MaxJobs = 2
  MaxAttempts = 2
  CliBudget = 2
  MaxCrashes = 1
  Environment = {"evidence", "mode", "quota", "no_reference", "contact", "owner"}
SPECIFICATION Spec
CHECK_DEADLOCK FALSE
SYMMETRY MessageSymmetry

PROPERTIES
  PermanentUntilDecided
  DeletionIsAuthorised
  AllowedIsLeftAlone
