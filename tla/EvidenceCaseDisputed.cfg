SPECIFICATION Spec
CONSTANTS
  counsel = counsel
  analyst = analyst
  Reviewers = {counsel, analyst}
  Role <- MCRole
  NoReviewer = NoReviewer
  Claims = {1, 2, 3}
  Conflicts = {1, 2, 3}
  Sections = {1}
  ParagraphRefs = {"PC-1"}
  Sources = {1, 2}
  Privilege <- MCPrivilege
  PacketKeys = {"key"}
  NoKey = NoKey
  Opening <- DisputedMatter
  SeverityChoices = {"low"}
  QuoteChoices = {"verified_exact", "manual_verification_required"}
  MaxPackets = 0
  MaxEvents = 7
INVARIANTS
  StandingFollowsConflicts
  OneOpenConflictPerPair
  ApprovalStandsOnCurrentEvidence
  ProductionIsCandid
PROPERTIES
  LosersStayOut
CHECK_DEADLOCK FALSE
