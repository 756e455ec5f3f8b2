CONSTANTS
  Last1 = 4
  Block <- MCBlock
  Entry <- MCEntry
  Dummy <- MCDummy
  Null = Null
  Programs <- MCPrograms
SPECIFICATION Spec
INVARIANTS FreedIsForgotten CfgAndPhiMatchFlow BodiesAreChains NothingLeftToMerge
CHECK_DEADLOCK FALSE
