SPECIFICATION LiveSpec
CONSTANTS
  MaxBoots = 2
  MaxConns = 3
  MaxEnds = 2
  MaxEvents = 2
  MaxPieces = 2
CHECK_DEADLOCK FALSE
INVARIANTS
  TypeOK
  OneLiveConnection
  NoStrandedWrite
PROPERTIES
  WriteEnds
  DaemonSettles
