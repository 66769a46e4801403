\* What must eventually happen, with failing requests and one crash.
CONSTANTS
  s1 = s1
  m1 = m1
  m2 = m2
  Senders = {s1}
  Messages = {m1, m2}
  NoChallenge = NoChallenge
  NoSnapshot = NoSnapshot
  MaxJobs = 3
  MaxAttempts = 2
  CliBudget = 0
  MaxCrashes = 1
  Environment = {"telegram_fails", "evidence", "owner", "store_fails", "maintenance"}
SPECIFICATION FairSpec
CHECK_DEADLOCK FALSE
PROPERTIES
  ChallengeEnds
  ClaimableJobRuns
