SPECIFICATION Spec
CONSTANTS
  g1 = g1
  g2 = g2
  b1 = b1
  Bins <- TwoGoodOneBad
  Good <- TwoGood
  Faults <- OnlyCrash
  Careful = FALSE
  Torn = Torn
  None = None
PROPERTY UnverifiedNotTrusted
