CONSTANTS
  lx = lx
  ly = ly
  Local <- MCLocal
  Block <- MCBlock
  Entry <- MCEntry
  Dummy <- MCDummy
  Null = Null
  Width = 3
  Programs <- MCPrograms
SPECIFICATION Spec
INVARIANTS SpreadOrQueued SameReads FailsOnlyUnstored
CHECK_DEADLOCK FALSE
