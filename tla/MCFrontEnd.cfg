CONSTANTS
  Width = 3
  FormatLimit = 6
  Functions <- MCFunctions
  Methods <- MCMethods
  Layout <- MCLayout
  Block <- MCBlock
  Entry <- MCEntry
  Dummy <- MCDummy
  Null = Null
  Programs <- MCPrograms
  Inputs <- MCInputs
SPECIFICATION Spec
INVARIANTS RunsAsWritten AcceptedNeverGoesWrong BlocksAreWhole
CHECK_DEADLOCK FALSE
