SPECIFICATION Spec
CONSTANTS
  LeafSize = 50
  Fanout = 2
  Attr <- MCAttr
  NsOf <- MCNsOf
  RuleOf <- MCRuleOf
  IndexAttr = 1
  UniqueAttr = 2
  TxInstant = 3
  FirstUserEid = 20
  TxBase = 60
  SeekCost = 2
  Declared <- MCDeclared
  BindSets <- MCBindSets
  Worlds <- MCWorlds
  Databases <- MCDatabases
  Meant <- MCMeant
  Namespace <- MCNamespace
  Menus <- MCMenus
  Refinements <- MCRefinements
  Enrichments <- MCEnrichments
  Summaries <- MCSummaries
  MaxWraps = 1
  MaxPages = 3
CHECK_DEADLOCK FALSE
INVARIANTS BuiltMeansSaid RowsAreShapes SummariesAreMeant PagesCoverOnce
