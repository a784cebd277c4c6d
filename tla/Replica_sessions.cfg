SPECIFICATION Spec
CONSTANTS
  MaxT = 3
  Histories <- Changing
  LogKeepTxs = 0
  Sessions = {"s1"}
  MaxSockets = 2
  MaxRestarts = 1
  MaxFails = 1
  MaxDeaths = 0
  MaxOpens = 2
CONSTRAINT Focused
CHECK_DEADLOCK FALSE
INVARIANT ShowsView
