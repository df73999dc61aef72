SPECIFICATION BalanceSpec
CONSTANTS
  app = app  user = user  friend = friend  rt = rt
  c1 = c1  k1 = k1  ver1 = ver1  n1 = n1  n2 = n2
  vSender = vSender  vReceiver = vReceiver  vMinimum = vMinimum  vAmount = vAmount
  i1 = i1  i2 = i2  i3 = i3  i4 = i4  o1 = o1  o2 = o2  o3 = o3  o4 = o4
  Accounts = {app, user, friend, rt}
  Users = {user, friend}
  DataOwners = {user, friend}
  Admin = rt
  RuntimeAccounts = {rt}
  Verifiers = {ver1}
  Selections <- OneCommittee
  ContractIds = {c1}
  ContractOwner <- OwnedByApp
  Selectors = {"conditionalTransfer"}
  DataIds = {i1, i2, i3, i4, o1, o2, o3, o4}
  InputSets <- AnyInputs
  InitialVersions = {1, 2}
  Nodes = {n1, n2}
  StorageSets <- AllNodesOnly
  CommitteeIds = {k1}
  Nonces = {1, 2}
  Variables = {vSender, vReceiver, vMinimum, vAmount}
  PickNonces = {1}
  GenesisRoot = GenesisRoot
  ZeroRoot = ZeroRoot
  None = None
  MaxTime = 2
  MaxRound = 0
  MaxDataVersion = 2
  Processes = {"p"}
  BalanceContract = c1
  User = user
  Receiver = friend
  BalanceVariable <- Balances
  MinimumVariable = vMinimum
  AmountVariable = vAmount
  TransferSelector = "conditionalTransfer"
  WorkerCommittee = k1
  CommitteeMembers <- AllNodes
  StorageNodes <- AllNodes
  InitialData <- FirstData
  InitialValue <- FirstValue
  TransferOutput <- Outputs
  MaxBootstraps = 2
  MaxCrashes = 1
INVARIANTS
  BalancesFollowTheTransfers
  DatabaseTrailsByOneResult
CHECK_DEADLOCK FALSE
