CONSTANTS
  Setups = {s1, s2}
  MaxEvidence = 2
  MaxSolves = 2
  OldSolutions <- AllOrNone
  MaxVersion = 2
  MaxDay = 1
  Clients = {"files", "solves", "reads"}
  Objects = {1, 2}
  MaxReads = 2
  MaxFaults = 1
  MaxEdits = 1
SPECIFICATION Spec
INVARIANTS FreshHasEnded ScriptBackedUp MissingIsSaid
PROPERTY PendingEnds
CHECK_DEADLOCK FALSE
