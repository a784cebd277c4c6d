SPECIFICATION ReadsSpec
CONSTANTS
  LeafSize = 2
  Fanout = 2
  Attr <- MCAttr
  NsOf <- MCNsOf
  IndexAttr = 1
  UniqueAttr = 2
  TxInstant = 3
  FirstUserEid = 9
  TxBase = 30
  SeekCost = 2
  VisibleSetMax = 1
  RetractCap = 6
  Boot <- MCBoot
  Txs = {}
  MaxT = 4
  MaxIndexes = 0
  MaxRestores = 0
  Deployments <- MCDeployments
  RuleOf <- MCRuleOf
  FragOf <- MCFragOf
  Grants <- MCGrants
  Members <- MCMembers
  Admin <- MCAdmin
  Setup <- World
  AdminTxs <- MCAdminTxs
  MemberTxs <- MCMemberTxs
  Queries <- MCNested
  Trees <- MCTrees
  Lists <- MCLists
  Layouts <- MCLayouts
CHECK_DEADLOCK FALSE
INVARIANTS PushdownIsFilter
