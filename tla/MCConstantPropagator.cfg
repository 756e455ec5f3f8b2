CONSTANTS
  ta = ta
  tc = tc
  tp = tp
  tq = tq
  tr = tr
  Width = 3
  Block <- MCBlock
  Entry <- MCEntry
  Dummy <- MCDummy
  Null = Null
  Programs <- MCPrograms
SPECIFICATION Spec
INVARIANTS RunsAgree Settled
PROPERTY ValuesOnlyFall
CHECK_DEADLOCK FALSE
