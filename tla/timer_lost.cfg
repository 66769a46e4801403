\* Maintenance beside a new challenge.
CONSTANTS
  s1 = s1
  m1 = m1
  m2 = m2
  Senders = {s1}
  Messages = {m1, m2}
  NoChallenge = NoChallenge
  NoSnapshot = NoSnapshot
  MaxJobs = 2
  MaxAttempts = 2
  CliBudget = 0
  MaxCrashes = 0
  Environment = {"maintenance"}
SPECIFICATION Spec
CHECK_DEADLOCK FALSE
INVARIANT ChallengeHasTimer
