CONSTANTS
  ta = ta
  tc = tc
  tp = tp
  tq = tq
  tr = tr
  Width = 3
  Block <- MCBlock
  Entry <- MCEntry
  Dummy <- MCDummy
  Null = Null
  Programs <- MCLate
SPECIFICATION Spec
INVARIANT RunsAgree
CHECK_DEADLOCK FALSE
