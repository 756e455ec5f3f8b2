CONSTANTS
  Last1 = 4
  x = x
  y = y
  Block <- MCBlock
  Entry <- MCEntry
  Dummy <- MCDummy
  Null = Null
  Stmt <- MCStmt
  Programs <- MCPrograms
SPECIFICATION FairSpec
INVARIANTS FlowIsValid NothingDangles SameNextLiveBlock LiveBlocksRemain PhiMatchesPreds OnlyNeededIsLive
PROPERTY QueuesRunDry
CHECK_DEADLOCK FALSE
