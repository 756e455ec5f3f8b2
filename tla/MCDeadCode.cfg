CONSTANTS
  s1 = s1
  Stmt = {s1, s2, s3}
  Block <- MCBlock
  Entry <- MCEntry
  Dummy <- MCDummy
  Null = Null
  Programs <- MCPrograms
SPECIFICATION Spec
INVARIANTS NothingDangles OnlyNeededIsMarked
CHECK_DEADLOCK FALSE
