SPECIFICATION DbFairSpec
CONSTANTS
  r1 = r1 r2 = r2 r3 = r3
  ada = ada
  Requests = {r1, r2}
  Principals = {ada}
  Ids = {}
  NoId = NoId
  NoAck = NoAck
  Kind <- PlainKind
  Who <- PlainWho
  ClientTxId <- PlainId
  Provisionable = {}
  Limit = 1
  MaxBatch = 0
  MaxCrashes = 1
  MaxFaults = 0
  MaxTxsPerRun = 2
  LogKeepTxs = 0
  RetainRoots = 1
  GcEachRun = TRUE
  AdminGc = FALSE
PROPERTY Indexed
CHECK_DEADLOCK FALSE
