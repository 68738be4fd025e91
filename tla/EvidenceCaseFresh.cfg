SPECIFICATION Spec
CONSTANTS
  counsel = counsel
  analyst = analyst
  Reviewers = {counsel, analyst}
  Role <- MCRole
  NoReviewer = NoReviewer
  Claims = {1, 2}
  Conflicts = {1}
  Sections = {1, 2}
  ParagraphRefs = {"PC-1", "PC-2"}
  Sources = {1, 2}
  Privilege <- MCPrivilege
  PacketKeys = {"key"}
  NoKey = NoKey
  Opening <- FreshMatter
  SeverityChoices = {"critical"}
  QuoteChoices = {"verified_exact", "manual_verification_required"}
  MaxPackets = 2
  MaxEvents = 5
INVARIANTS
  TypeOK
  ParagraphsAreDistinct
  AttestedBySecondReviewer
  OnePacketPerKey
CHECK_DEADLOCK FALSE
