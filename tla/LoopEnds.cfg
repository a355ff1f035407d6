SPECIFICATION FairSpec
CONSTANTS
  c1 = c1
  r1 = r1
  NumJobs = 3
  Controllers = {c1}
  Reviewers = {r1}
  Refused = {}
  RetryLimit = 1
  MaxAttempts = 4
  MaxIterations = 3
  OtherLimits = {FALSE, TRUE}
  Asking = TRUE
  Cancels = TRUE
  EarlyExpiry = TRUE
  Patient = TRUE
  Mortal = {c1}
  MaxCrashes = 1
PROPERTIES
  MissionEnds
INVARIANTS
  EndsAsWorked
