SPECIFICATION ScanSpec
CONSTANTS
  Hex = {"10", "12", "e1"}
  Word = {"model"}
  Junk = {"?"}
  Address = {"10", "12", "e1"}
  NoAddress = NoAddress
  Beginnings <- MCBeginnings
  Ascending <- MCAscending
  Vendor = {"e1"}
  Vocabularies <- MCVocabularies
  Monitors <- MCMonitors
  NoNumber = NoNumber
  MaxTokens = 7
  Tries = 3
INVARIANTS ParsedAsNested ReadingsBelong ProfileLoads
PROPERTIES OutputSafe ScanEnds
CHECK_DEADLOCK FALSE
