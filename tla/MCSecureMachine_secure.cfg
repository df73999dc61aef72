SPECIFICATION MCSpec
CONSTANTS
  None = None
  Prime = 23
  Width = 4
  Polynomial = 3
  Scale = 3
  Names = {v1, v2}
  Committees <- MCCommittees
  Inputs = {1}
  Coins = {3}
  Numbers = {3}
  Checks = {4}
  Noises <- MCNoises
  Changes <- MCChanges
  MacKey = 7
  FheKey = 9
  CompareBound = 7
  Bits = 2
  SmallBound = 3
  MaxSteps = 3
  Seats = 5
  Draws = {0, 5, 22}
SYMMETRY MCSymmetry
INVARIANTS
  SharesHoldTheValue
  BitIsTheComparison
  CheckFindsFaults
  CipherHolds
  AnswersAreRight
CHECK_DEADLOCK FALSE
