CONSTANTS
  Profiles <- MCProfiles
  Pauses = {0, 1, 2}
  MaxId = 13
SPECIFICATION Spec
INVARIANTS
  TypeOK
  LossOnlyInGaps
  GapsComplete
  CutEndsGap
  CutsAreEarned
CHECK_DEADLOCK FALSE
