SPECIFICATION ListSpec
CONSTANTS
  Profiles = {p1, p2, p3}
  NULL = NULL
INVARIANTS
  ListConsistent
  StoredIsListed
CHECK_DEADLOCK FALSE
