SPECIFICATION Spec
CONSTANTS
  dell = dell
  sam = sam
  Nodes = {n1, n2}
  Aliases = {a1}
  Monitors = {sam, dell}
  NoMonitor = NoMonitor
  Samsung = {sam}
  Typed = {sam, dell}
  DaemonDb <- Installed
  ClientDb <- Installed
  Clients = {c1}
  MaxPlugs = 1
  MaxFailed = 1
SYMMETRY Symmetry
INVARIANTS
  TypeOK
  DescriptorsOwned
  OpenOnlyDetected
  IdentityConsistent
  RequirementRespected
