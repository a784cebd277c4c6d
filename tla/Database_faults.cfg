SPECIFICATION DbSpec
CONSTANTS
  r1 = r1 r2 = r2 r3 = r3
  ada = ada
  Requests = {r1, r2}
  Principals = {ada}
  Ids = {}
  NoId = NoId
  NoAck = NoAck
  Kind <- PlainKind
  Who <- PlainWho
  ClientTxId <- PlainId
  Provisionable = {}
  Limit = 1
  MaxBatch = 0
  MaxCrashes = 1
  MaxFaults = 1
  MaxTxsPerRun = 2
  LogKeepTxs = 1
  RetainRoots = 2
  GcEachRun = TRUE
  AdminGc = TRUE
INVARIANTS
  ReadsAreStored
  PublishedIsStored
  CatchUp
  ReachableIsKept
PROPERTIES
  CurrentNeverRegresses
  StoredImplementsCommittedLog
CONSTRAINT SlicesAreWritten
SYMMETRY AnyOrder
CHECK_DEADLOCK FALSE
