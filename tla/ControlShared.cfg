SPECIFICATION Spec
CONSTANTS
  brightness = brightness
  contrast = contrast
  Direct = {d1}
  Remote = {r1}
  Daemon = Daemon
  Controls = {brightness, contrast}
  Maximum <- MCMaximum
  Garbage <- MCGarbage
  Ops <- MCOps
  MaxOps = 2
  MaxTimeouts = 1
  NoReply = NoReply
  NoJob = NoJob
INVARIANTS
  BaseIsOwnValue
  InRange
  DirectIsWritten
PROPERTIES
  OperationEnds
CHECK_DEADLOCK FALSE
