SPECIFICATION LiveSpec
CONSTANTS
  Depth = 1
  MaxClients = 2
  MaxDevs = 1
  MaxChunks = 3
  MaxUp = 1
CHECK_DEADLOCK FALSE
INVARIANTS
  TypeOK
  TailBounded
PROPERTIES
  StreamContiguous
  GuestNeverStalled
  SupersededPumpEnds
