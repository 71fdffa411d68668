SPECIFICATION LiveSpec
CONSTANTS
  Targets = {0, 1, 2}
  MaxPublish = 1
  MaxBoots = 3
  None = None
CHECK_DEADLOCK FALSE
INVARIANTS
  TypeOK
  UpdateLanded
  RunsWhatIsInstalled
  HungBeforeReboot
PROPERTIES
  ImplementsContract
  Ends
