CONSTANTS
  edit = edit
  second = second
  look = look
  NoToken = NoToken
  TTL = 1
  Tokens = {1,2,3,4,5,6,7,8,9,10,11,12,13,14,15,16,17}
  MaxPolls = 1
  Sessions <- Ids
  Plans <- PlanNames
  ReadOnly = {look}
  Uses <- AllUses
  Resources <- Resource
SPECIFICATION Spec
INVARIANTS TypeOK OneQuestion ReleasedForgotten TraceTruth GraphKnowsDesign
PROPERTIES TaintHolds ImplementsChangeLedger HostFreed
CHECK_DEADLOCK FALSE
