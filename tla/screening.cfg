\* Combinations of features from one sender or two, over and across the window.
CONSTANTS
  s1 = s1
  s2 = s2
  i1 = i1
  w1 = w1
  w2 = w2
  d1 = d1
  t1 = t1
  t2 = t2
  Senders = {s1, s2}
  Invites = {i1}
  Webs = {w1, w2, d1}
  Denied = {d1}
  Templates = {t1, t2}
  Sample <- MCSample
  CampaignWindow = 2
  LinkWindow = 1
  MaxTime = 3
  MaxMessages = 3
  Forgetting = TRUE
SPECIFICATION Spec
CHECK_DEADLOCK FALSE
SYMMETRY SenderSymmetry
INVARIANTS
  SuppressionIsCorroborated
  RepeatIsSuppressed
