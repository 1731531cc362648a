SPECIFICATION MaskSpec
CONSTANTS
  MinInt <- MCMinInt
  MaxInt = 7
  ExactInts = 4
  DateText <- MCDateText
  IntText <- MCIntText
  IdText <- MCIdText
  Digest <- MCDigest
  DayMillis = 3
  BadPatterns = {3}
  Scenarios <- MCScenarios
INVARIANTS
  
  NothingLeaks
  UngovernedIsUntouched
  ReferencesFollow
  NumbersInRange
