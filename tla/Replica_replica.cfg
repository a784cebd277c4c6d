SPECIFICATION Spec
CONSTANTS
  MaxT = 2
  Histories <- Plain
  LogKeepTxs = 0
  Sessions = {}
  MaxSockets = 2
  MaxRestarts = 1
  MaxFails = 1
  MaxDeaths = 1
  MaxOpens = 1
CHECK_DEADLOCK FALSE
PROPERTIES ImplementsFollower CatchesUp
