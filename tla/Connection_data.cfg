SPECIFICATION Spec
CONSTANTS
  LeafSize = 2
  Fanout = 2
  Attr <- MCAttr
  IndexAttr = 1
  UniqueAttr = 2
  TxInstant = 3
  FirstUserEid = 8
  TxBase = 18
  Boot <- MCBoot
  Txs <- MCTxs
  MaxT = 3
  MaxIndexes = 2
  MaxRestores = 1
CHECK_DEADLOCK FALSE
INVARIANTS IndexesAreFacts SnapshotsAreStable TreesAreTrue ConstraintsHold RestoreIsFaithful
