\* Two senders share the job table and the maintenance pass.
CONSTANTS
  s1 = s1
  m1 = m1
  m2 = m2
  m3 = m3
  s2 = s2
  Senders = {s1, s2}
  Messages = {m1, m2, m3}
  NoChallenge = NoChallenge
  NoSnapshot = NoSnapshot
  MaxJobs = 2
  MaxAttempts = 1
  CliBudget = 0
  MaxCrashes = 0
  Environment = {"evidence", "maintenance", "dashboard"}
SPECIFICATION Spec
CHECK_DEADLOCK FALSE
SYMMETRY MessageSymmetry
INVARIANTS
  OneJobPerSender
  DeletionIsIsolated
PROPERTIES
  ImplementsLifecycle
