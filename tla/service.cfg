\* Challenges, answers, timers, deletions, dashboard and maintenance; failures and two crashes.
CONSTANTS
  s1 = s1
  m1 = m1
  m2 = m2
  Senders = {s1}
  Messages = {m1, m2}
  NoChallenge = NoChallenge
  NoSnapshot = NoSnapshot
  MaxJobs = 2
  MaxAttempts = 2
  CliBudget = 0
  MaxCrashes = 2
  Environment = {"telegram_fails", "evidence", "dashboard", "maintenance", "retention", "no_reference", "store_fails"}
SPECIFICATION Spec
CHECK_DEADLOCK FALSE
SYMMETRY MessageSymmetry
INVARIANTS
  TypeOK
  PendingJobIsCurrent
  ConfinementIsReversible
  StartingIsAttended
  FailedJobIsVisible
  DeletionIsIsolated
PROPERTIES
  PermanentUntilDecided
  DeletionIsWarned
  AcceptedAnswerStands
  ImplementsLifecycle
