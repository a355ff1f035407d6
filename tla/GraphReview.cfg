SPECIFICATION FairSpec
CONSTANTS
  Templates <- AllTemplates
  StepLimits = {1, 6}
  Early = {2}
  Drivers = {d1}
  Keys = {k1}
  Lateness = TRUE
  Cancels = TRUE
  MaxCrashes = 1
INVARIANTS
  RoutedOnce JoinComplete SucceededMeansSettled WithinLimits ResultsTrue
PROPERTIES GraphEnds NoStepBeyond
CHECK_DEADLOCK FALSE
