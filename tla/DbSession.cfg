SPECIFICATION Spec
CONSTANTS
  options = options
  a = a
  b = b
  Options = options
  Order <- MCOrder
  CborPath = CborPath
  ManifestPath = ManifestPath
  Revisions <- MCRevisions
  Xml <- MCXml
  Manifested = {2, 3}
  CborIn = {2}
  CborOnly = {2}
  MaxLoads = 2
  Absent = Absent
  None = None
INVARIANTS
  PinnedAtOnce
  VerifiedRevision
CHECK_DEADLOCK FALSE
