SPECIFICATION Spec
CONSTANTS
  Byte <- MCByte
  Contents <- MCContents
  Malformed <- MCMalformed
  Binary <- MCBinary
  Hash <- MCHash
  MaxCaps = 4
  BufFragment = 2
  MonitorFragment = 3
  MaxCalls = 2
  NullCaps = NullCaps
  NoReply = NoReply
INVARIANTS
  TypeOK
  StringIsOwn
  RequestsTotal
PROPERTIES
  AtomicSpec
  CallReturns
CHECK_DEADLOCK FALSE
