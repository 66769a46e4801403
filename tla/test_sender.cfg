\* Several rounds, slow requests, an operator's command and a restart.
CONSTANTS
  Ttl = 2
  Grace = 1
  DeleteDelay = 1
  ResetDelay = 3
  Suppression = 5
  MaxTime = 8
  MaxRevision = 4
  MaxCrashes = 1
SPECIFICATION Spec
CHECK_DEADLOCK FALSE
INVARIANTS
  ResultHasTimer
  NoStaleJob
PROPERTIES
  NewerResultStands
