SPECIFICATION Spec
CONSTANTS
  g1 = g1
  g2 = g2
  b1 = b1
  Bins <- TwoGoodOneBad
  Good <- TwoGood
  Faults <- AllFaults
  Careful = TRUE
  Torn = Torn
  None = None
SYMMETRY Symmetry
INVARIANTS
  TypeOK
  GoodBinaryRemains
