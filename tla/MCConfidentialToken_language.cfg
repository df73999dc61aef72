SPECIFICATION Spec
CONSTANTS
  alice = alice  bob = bob
  None = None
  Junk = Junk
  MaxValue = 4
  Contracts <- AllContracts
  InitialCells <- Stores
  Senders = {alice, bob}
  Arguments <- Passed
  MaxCalls = 4
INVARIANTS
  AcceptedCallsDoNotGoWrong
  CallsReadTheStateBefore
PROPERTY
  SupplyFollowsThePlans
CHECK_DEADLOCK FALSE
