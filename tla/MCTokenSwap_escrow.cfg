SPECIFICATION FairSpec
CONSTANTS
  alice = alice  bob = bob  t1 = t1  a1 = a1  a2 = a2
  n1 = n1  n2 = n2  k1 = k1  k2 = k2  z1 = z1  z2 = z2
  Accounts = {alice, bob}
  Admin = alice
  Tokens = {t1}
  Commitments = {a1, a2}
  Tasks <- SharedAccount
  Vouchers <- VouchersOfOne
  Nullifiers = {z1, z2}
  Roots = {"zero", "root"}
  ZeroRoot = "zero"
  CommitteeIds = {k1, k2}
  Nodes = {n1, n2}
  Members <- OverlappingMembers
  Threshold <- AllMembers
  RefundDelay = 1
  Configs <- OnOff
  GasValues = {1}
  MaxTime = 2
  MaxDonation = 1
  None = None
INVARIANTS
  ReserveIsExact
  LiabilitiesAreBacked
  EtherIsOwed
  EscrowIsForPending
CHECK_DEADLOCK FALSE
PROPERTIES
  FundsComeBack
  ControllersAreKept
