SPECIFICATION Spec
CONSTANTS
  TRIAL_COUNT = 2
  MAX_ATTEMPTS = 2
CHECK_DEADLOCK FALSE
INVARIANTS
  ReportedLandedIsReal
  SwapsAreOnRecord
  NoArmOutlivesItsTrial
