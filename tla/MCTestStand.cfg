CONSTANTS
  Tests = 3
  Combos = 2
  FileSizes = 2
SPECIFICATION FairSpec
INVARIANTS
  TypeOK
  OneOfEach
  StopFindsThreads
  PassedIsComplete
PROPERTIES
  RefusedForGood
  SuiteEnds
CHECK_DEADLOCK FALSE
