SPECIFICATION Spec
CONSTANTS
  c1 = c1
  NumJobs = 2
  Controllers = {c1, c2}
  Reviewers = {r1}
  Refused = {2}
  RetryLimit = 1
  MaxAttempts = 1
  MaxIterations = 1
  OtherLimits = {FALSE}
  Asking = TRUE
  Cancels = TRUE
  EarlyExpiry = TRUE
  Patient = FALSE
  Mortal = {}
  MaxCrashes = 0
  c2 = c2
  r1 = r1
INVARIANTS
  OutcomeMatches
  AttemptsBounded
SYMMETRY Interchangeable
