SPECIFICATION Spec
CONSTANTS
  alice = alice  bob = bob
  None = None
  Junk = Junk
  MaxValue = 4
  Contracts <- OnlyToken
  InitialCells <- Stores
  Senders = {alice, bob}
  Arguments <- Passed
  MaxCalls = 4
INVARIANT
  StatementsTakeEffectInOrder
CHECK_DEADLOCK FALSE
