SPECIFICATION Spec
CONSTANTS
  counsel = counsel
  analyst = analyst
  Reviewers = {counsel, analyst}
  Role <- MCRole
  NoReviewer = NoReviewer
  Claims = {1, 2, 3, 4, 5}
  Conflicts = {1, 2, 3, 4, 5}
  Sections = {1, 2, 3, 4, 5}
  ParagraphRefs = {"PC-1", "PC-2", "PC-3"}
  Sources = {1, 2}
  Privilege <- MCPrivilege
  PacketKeys = {"key"}
  NoKey = NoKey
  Opening <- MCOpening
  SeverityChoices = {"low"}
  QuoteChoices = {"verified_exact"}
  MaxPackets = 3
  MaxEvents = 9
  r1 = r1
  r2 = r2
  r3 = r3
  Requests = {r1, r2, r3}
  Calls <- AllCalls
  Faults = TRUE
INVARIANTS
  ChainsNeverFork
  NothingOverwrittenUnseen
  CyclesNeedASection
SYMMETRY Symmetric
CHECK_DEADLOCK FALSE
