CONSTANTS
  Width = 3
  FormatLimit = 6
  Functions <- MCFunctions
  Methods <- MCMethods
  Layout <- MCLayout
  Block <- MCBlock
  Entry <- MCEntry
  Dummy <- MCDummy
  Null = Null
  Programs <- MCNegated
  Inputs <- MCInputs
SPECIFICATION Spec
INVARIANT RunsAsWritten
CHECK_DEADLOCK FALSE
