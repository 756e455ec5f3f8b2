CONSTANTS
  Last1 = 4
  Calls = 2
  Block <- MCBlock
  Entry <- MCEntry
  Dummy <- MCDummy
  Null = Null
  Programs <- MCPrograms
SPECIFICATION Spec
INVARIANTS PhiMatchesPreds ReadyForDominators QuietCallChangesNothing
PROPERTY RefinesReduction
CHECK_DEADLOCK FALSE
