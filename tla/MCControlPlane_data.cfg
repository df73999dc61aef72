SPECIFICATION Spec
CONSTANTS
  app = app  user = user  rt = rt
  c1 = c1  c2 = c2  d1 = d1  d2 = d2
  n1 = n1  n2 = n2  k1 = k1  k2 = k2  ver1 = ver1  ver2 = ver2
  Accounts = {app, user, rt}
  Users = {user}
  DataOwners = {user}
  Admin = rt
  RuntimeAccounts = {rt}
  Verifiers = {ver1, ver2}
  Selections <- DifferingSelections
  ContractIds = {c1}
  ContractOwner <- OwnedByApp
  Selectors = {"transfer"}
  DataIds = {d1, d2}
  InputSets <- OneInput
  InitialVersions = {1}
  Nodes = {n1, n2}
  StorageSets <- NodeOne
  CommitteeIds = {k1, k2}
  Nonces = {1}
  Variables = {"v"}
  PickNonces = {1}
  GenesisRoot = GenesisRoot
  ZeroRoot = ZeroRoot
  None = None
  MaxTime = 1
  MaxRound = 1
  MaxDataVersion = 2
INVARIANTS
  BindingsResolve
  LocationsMatchRoot
  OneCommitteeInCharge
  CommitteesCanSign
PROPERTIES
  ReferencesOnlyAdvance
  SignersChangeByHandoffOnly
CHECK_DEADLOCK FALSE
