SPECIFICATION Spec
CONSTANTS
  Hex = {"10", "12"}
  Word = {"word"}
  Junk = {"-"}
  Address = {"10", "12"}
  NoAddress = NoAddress
  Ids = {"A", "B"}
  NoId = NoId
  Missing = Missing
  Broken = Broken
  Databases <- MCDatabases
  Files <- MCFiles
  Held <- MCHeld
  NoEdit = NoEdit
  NoFile = NoFile
  None = None
  MaxLevel = 2
  MaxVisits = 5
INVARIANTS
  ControlsSound
  CapsOnlyWithTree
  AcceptedFileLoads
PROPERTIES
  RequirementForeseen
  WalkEnds
CHECK_DEADLOCK FALSE
