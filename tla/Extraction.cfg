SPECIFICATION FairSpec
CONSTANTS
  Documents <- AllDocuments
  OcrChoices = {TRUE, FALSE}
  MaxPages = 3
  MaxPageText = 3
  MaxTotalText = 5
  MaxRenderPixels = 1
  MinNativeChars = 2
  ResultAllowance = 4
INVARIANTS
  NothingLostUnsaid
  HonestResultsPass
  NothingLeftBehind
PROPERTIES
  EveryExtractionEnds
CHECK_DEADLOCK FALSE
