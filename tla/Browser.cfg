SPECIFICATION Spec
CONSTANTS
  Reviewers = {"counsel", "analyst"}
  Temporary = {"analyst"}
  Cases = {A, B}
  Nobody = "nobody"
  NoCase = NoCase
  MaxOps = 4
  MaxSessions = 2
SYMMETRY MatterSymmetry
INVARIANTS
  ShownBelongsHere
  CookieIsOfThePage
  LoadingIsAwaited
CHECK_DEADLOCK FALSE
