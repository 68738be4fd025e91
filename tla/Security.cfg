SPECIFICATION Spec
CONSTANTS
  Reviewers = {1, 2, 3}
  Seniors = {2, 3}
  Names = {1, 2, 3, 9}
  Sources = {51, 52}
  Tokens = {1, 2, 3, 4}
  r1 = r1
  r2 = r2
  r3 = r3
  Requests = {r1, r2, r3}
  Openings <- AllOpenings
  MaxFailedLogins = 2
  MfaMaxFailures = 2
  SourceMaxAttempts = 1
  HashSlots = 1
  Lockout = 1
  SourceWindow = 1
  StaleWindow = 2
  SessionTTL = 2
  MfaWindow = 1
  MaxTime = 3
INVARIANTS
  VerifiedByCurrentFactor
  CyclesNeedASignInOrAnActor
  NoGuessWhileLocked
PROPERTIES
  ImplementsReviewerSessions
SYMMETRY Symmetric
CHECK_DEADLOCK FALSE
