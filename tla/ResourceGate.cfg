SPECIFICATION FairSpec
CONSTANTS
  Callers = {c1, c2, c3}
  Limit <- Limits
INVARIANTS SlotsConserved NoCircularWait
PROPERTIES RequestEnds
