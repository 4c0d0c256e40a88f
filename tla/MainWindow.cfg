CONSTANTS
  Devices = {d1, d2}
  MaxEvents = 3
  NULL = NULL
SPECIFICATION Spec
SYMMETRY Symmetry
CHECK_DEADLOCK FALSE
INVARIANTS ChosenIsShown OpenOwned EntriesLive NeverStuck
