SPECIFICATION Spec
CONSTANTS
  MaxWrites = 2
  MaxForeign = 1
  TransientAttempts = 2
  MaxDrops = 1
  MaxResyncs = 1
  FirstUserEid = 1
CHECK_DEADLOCK FALSE
INVARIANTS SettledIsServer LiveIsFresh EditsLand
