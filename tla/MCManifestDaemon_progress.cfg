SPECIFICATION FairDaemonSpec
CONSTANTS
  app = app  user = user
  c1 = c1  c2 = c2  key1 = key1  in1 = in1  n1 = n1  n2 = n2  k1 = k1  k2 = k2  ver1 = ver1
  Accounts = {app, user, n1, n2}
  Users = {user}
  DataOwners = {app, user}
  Admin = app
  RuntimeAccounts = {n1}
  Verifiers = {ver1}
  Selections <- NoSelections
  ContractIds = {c1}
  ContractOwner <- OwnedByApp
  Selectors = {"f"}
  DataIds <- WithInput
  InputSets <- CalledInputs
  InitialVersions = {1}
  Nodes = {n1, n2}
  StorageSets <- OneNode
  CommitteeIds = {k1, k2}
  Nonces = {1, 2}
  Variables = {"v", "w"}
  PickNonces = {}
  GenesisRoot = GenesisRoot
  ZeroRoot = ZeroRoot
  None = None
  MaxTime = 1
  MaxRound = 1
  MaxDataVersion = 1
  Daemons = {n1}
  DaemonContract = c1
  ActiveCommittee <- ActiveFirst
  FinalMembers <- Members
  Call <- WritingBoth
  KeyOf <- KeyOfUser
  Representation <- Kinds
  Uploads <- SharedUpload
  Registrations <- TakenIds
PROPERTIES
  TasksAreTaken
  PendingResultsAreSubmitted
  UploadsAreRegistered
CHECK_DEADLOCK FALSE
