\* Two calls of execute_job and one recoverer on one job, with store errors, crashes
\* and one retry.
SPECIFICATION Spec
CONSTANTS
  Jobs = {j1}
  Execs = {e1, e2}
  NoJob = NoJob
  Recoverers = {r1}
  NoExec = NoExec
  RetryLimit = 1
  OtherMoves = {"CANCELED"}
  StoreErrors = TRUE
SYMMETRY Interchangeable
INVARIANTS OneSuccess AttemptsHonest OneOwner
PROPERTIES FinalStays NewestCommits
CHECK_DEADLOCK FALSE
