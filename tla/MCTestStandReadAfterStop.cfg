CONSTANTS
  Tests = 3
  Combos = 2
  FileSizes = 2
SPECIFICATION Spec
INVARIANT ThreadsFindTunnel
CHECK_DEADLOCK FALSE
