SPECIFICATION Spec
CONSTANTS
  Reviewers = {0, 1, 2, 3}
  Matters = {1, 2, 3, 4}
  Deployments = {TRUE, FALSE}
  Opening <- Damaged
  NoRole = NoRole
  r1 = r1
  r2 = r2
  r3 = r3
  Requests = {r1, r2, r3}
  Calls <- AllCalls
INVARIANTS
  AnAccountRemains
  AccountChainNeverForks
  CyclesNeedAnAccount
PROPERTIES
  MattersKeepASenior
  AccountsAreRuledByTheActive
SYMMETRY Symmetric
CHECK_DEADLOCK FALSE
