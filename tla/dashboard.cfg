\* Two browsers, two requests at a time, a core that dies, a disk that fails.
CONSTANTS
  b1 = b1
  b2 = b2
  r1 = r1
  r2 = r2
  Browsers = {b1, b2}
  NoBrowser = NoBrowser
  Requests = {r1, r2}
  SidecarIdle = 1
  SessionIdle = 2
  SessionLife = 2
  MaxTokens = 3
  MaxDecisions = 1
  MaxCoreCrashes = 1
SPECIFICATION FairSpec
CHECK_DEADLOCK FALSE
INVARIANTS
  LoginWorksOnce
  DecisionIsNotRepeated
  AnswerIsTrue
PROPERTIES
  OnlyHolderEnters
  StrandedSidecarEnds
  RequestIsAnswered
