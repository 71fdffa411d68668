SPECIFICATION Spec
CONSTANTS
  None = None
  Clients = {c1, c2}
  Faults = 2
INVARIANTS
  TypeOK
  OneSession
PROPERTIES
  HungSessionDropped
  ClientServed
