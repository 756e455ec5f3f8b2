CONSTANTS
  Block <- MCBlock
  Entry <- MCEntry
  Dummy <- MCDummy
  Null = Null
  Programs <- MCPrograms
SPECIFICATION FairSpec
INVARIANTS NeverLosesADominator FixpointIsExact CfgRestored
PROPERTIES RefinesDominatorTree Terminates
CHECK_DEADLOCK FALSE
