CONSTANTS
  Names <- Inventory
  Commands <- AllCommands
  Handlers <- CommandTable
  Limit <- FewUses
SPECIFICATION Spec
INVARIANTS BegunAsShown CleanFailure VerifiedAsShown
PROPERTY OthersKept
CHECK_DEADLOCK FALSE
