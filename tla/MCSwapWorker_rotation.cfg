SPECIFICATION FairWorkerSpec
CONSTANTS
  alice = alice  t1 = t1  a1 = a1  a2 = a2
  n1 = n1  n2 = n2  k1 = k1  k2 = k2  w1 = w1
  Accounts = {alice}
  Admin = alice
  Tokens = {t1}
  Commitments = {a1, a2}
  Tasks <- Openings
  Vouchers <- NoVouchers
  Nullifiers <- WithdrawalIds
  Roots <- AllRoots
  ZeroRoot <- NoRoot
  CommitteeIds = {k1, k2}
  Nodes = {n1, n2}
  Members <- OverlappingMembers
  Threshold <- AllMembers
  RefundDelay = 1
  Configs <- Enabled
  GasValues = {0}
  MaxTime = 2
  MaxDonation = 0
  None = None
  watch = "watch"
  Workers = {"watch"}
  WorkerToken = t1
  MaxAmount = 100
  FirstCommittee = k1
  Signers = {n1}
  NextCommittee = k2
  NextSigners = {n1, n2}
  NextNodes = {n1, n2}
  RotationOn = TRUE
  MaxFaults = 1
PROPERTIES
  SnapshotsAreCurrent
  DepositsAreServed
CHECK_DEADLOCK FALSE
