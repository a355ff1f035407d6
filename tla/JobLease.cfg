\* Two calls on two jobs, crashes but no store errors: a lease ends, and every
\* step of the store is a step of the ledger or none.
SPECIFICATION FairSpec
CONSTANTS
  Jobs = {j1, j2}
  Execs = {e1, e2}
  NoJob = NoJob
  Recoverers = {}
  NoExec = NoExec
  RetryLimit = 1
  OtherMoves = {"CANCELED"}
  StoreErrors = FALSE
PROPERTIES ImplementsLedger LeaseEnds
CHECK_DEADLOCK FALSE
