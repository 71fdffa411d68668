SPECIFICATION Spec
CONSTANTS
  None = None
  Keys = {gw, other}
  Gateway = gw
  Values = {v1}
  Requests = {r1, r2}
  MaxTime = 1
  MaxBackups = 2
  MaxBare = 1
PROPERTY BackupsStay
