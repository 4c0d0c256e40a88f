SPECIFICATION ListSpec
CONSTANTS
  Profiles = {p1, p2, p3}
  NULL = NULL
INVARIANTS
  OthersSurvive
CHECK_DEADLOCK FALSE
