SPECIFICATION FairSpec
CONSTANTS
  r1 = r1 r2 = r2 r3 = r3 r4 = r4
  ada = ada bob = bob c1 = c1 c2 = c2
  Requests = {r1, r2, r3, r4}
  Principals = {ada, bob}
  Ids = {c1, c2}
  NoId = NoId
  NoAck = NoAck
  Kind <- OpKind
  Who <- OpWho
  ClientTxId <- OpId
  Provisionable = {ada}
  Limit = 2
  MaxBatch = 1
  MaxCrashes = 1
  MaxFaults = 1
INVARIANT OpAppliedOnce
PROPERTY Answered
CHECK_DEADLOCK FALSE
