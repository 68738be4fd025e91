SPECIFICATION Spec
CONSTANTS
  v1 = v1
  j1 = j1
  Verifiers = {v1}
  Jobs = {j1}
  Sections = {1}
  Opening <- MCOpening
  Operations = 1
  HistoryLimit = 2
  MaxAppends = 2
  MaxDamage = 1
INVARIANTS
  UntouchedHistoriesVerify
  AlterationsAreFound
  SignedHistoryIsRetained
  NoFalseAlarm
CHECK_DEADLOCK FALSE
