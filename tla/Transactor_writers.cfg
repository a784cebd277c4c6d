SPECIFICATION Spec
CONSTANTS
  r1 = r1 r2 = r2 r3 = r3 r4 = r4
  ada = ada bob = bob c1 = c1 c2 = c2
  Requests = {r1, r2, r3, r4}
  Principals = {ada, bob}
  Ids = {c1, c2}
  NoId = NoId
  NoAck = NoAck
  Kind <- WriterKind
  Who <- WriterWho
  ClientTxId <- WriterId
  Provisionable = {bob}
  Limit = 3
  MaxBatch = 0
  MaxCrashes = 1
  MaxFaults = 1
INVARIANTS
  TypeOK
  AckIsDurable
  ReplayIsOwn
  ProvisionedFirst
PROPERTIES
  ImplementsCommittedLog
CHECK_DEADLOCK FALSE
