CONSTANTS
  Block <- MCBlock
  Entry <- MCEntry
  Dummy <- MCDummy
  Null = Null
  LoopPrograms <- MCLoopPrograms
SPECIFICATION StepsSpec
INVARIANTS FlagsTellTheTruth ReadersFindTheTruth AssertionsHold CopiesArePropagated
           LoopsNest SearchedWhenSorted
CHECK_DEADLOCK FALSE
