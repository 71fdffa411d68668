SPECIFICATION LiveSpec
CONSTANTS
  g1 = g1
  g2 = g2
  b1 = b1
  Bins <- TwoGoodOneBad
  Good <- TwoGood
  Faults <- NoReboot
  Careful = FALSE
  Torn = Torn
  None = None
PROPERTIES
  HealthyNeverReverted
  OneRevertPerDeploy
  BadDeployRecovers
