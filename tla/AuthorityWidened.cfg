SPECIFICATION FairSpec
CONSTANTS
  Reviewers = {0, 1, 2, 3}
  Matters = {1, 2, 3, 4}
  Deployments = {TRUE}
  Opening <- Healthy
  NoRole = NoRole
  r1 = r1
  r2 = r2
  r3 = r3
  Requests = {r1, r2}
  Calls <- Narrowing
PROPERTIES
  NarrowedStaysNarrowed
CHECK_DEADLOCK FALSE
