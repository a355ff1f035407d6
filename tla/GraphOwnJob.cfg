SPECIFICATION Spec
CONSTANTS
  Templates <- PairOnly
  StepLimits = {3}
  Early = {}
  Drivers = {d1}
  Keys = {}
  Lateness = FALSE
  Cancels = FALSE
  MaxCrashes = 0
INVARIANT OwnJob
CHECK_DEADLOCK FALSE
