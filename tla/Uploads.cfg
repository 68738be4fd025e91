SPECIFICATION FairSpec
CONSTANTS
  Uploads = {1, 2, 3}
  Calls <- UploadCalls
  Reviewers = {1, 2}
  Keys = {"k"}
  NoKey = "none"
  Prints = {1, 2, 3}
  Ids = {1, 2, 3}
  Withheld = {3}
  Slots = 2
  FirstAccess <- AccessThere
  AccessChanges <- SomeChanges
  MaxChanges = 1
  MaxStops = 1
INVARIANTS
  PlacesAreHeld
  NothingStoredOnAStaleDecision
PROPERTIES
  LoserIsReconciled
  ImplementsKeyedUploads
  EveryUploadEnds
CHECK_DEADLOCK FALSE
