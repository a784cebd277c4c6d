SPECIFICATION Spec
CONSTANTS
  None = None
  s1 = s1
  s2 = s2
  dialer = dialer
  Accounts = {"ann", "bob"}
  Readers <- TasksAndDialer
  Slots <- BothTasks
  Dialer = dialer
  Loads <- ManyLoads
  Lifetime = 2
  Margin = 1
  MaxNow = 2
  TTL = 1
  Flight = 1
  MinTRetries = 1
  MaxT = 4
  TransientAttempts = 2
CHECK_DEADLOCK FALSE
INVARIANT TokenIsCurrent ReadsAreFresh PrincipalIsSockets ClosedLeaksNothing
PROPERTY EveryCallEnds
