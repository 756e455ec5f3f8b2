CONSTANTS
  Width = 8
  Block <- MCBlock
  Entry <- MCEntry
  Dummy <- MCDummy
  Null = Null
  Programs <- MCPrograms
SPECIFICATION Spec
INVARIANTS RunsAgree FirstMeetsLast NeverDeeper
CHECK_DEADLOCK FALSE
