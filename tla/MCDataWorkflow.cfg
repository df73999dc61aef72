SPECIFICATION Spec
CONSTANTS
  a = a
  Nodes = {1, 2, 3}
  ClientIds <- WithResult
  Executions = {"e"}
  Values = {1, 2}
  MaxValue = 3
  UploadVersions = {1}
  UploadLists <- Lists
  InputLists <- Inputs
  EligibleSets <- Everyone
  Sizes = {2}
  Seeds = {1, 2}
  Digest <- Digests
  Runtimes = {"r"}
  None = None
  MaxUploads = 3
  MaxEvents = 2
  MaxVersion = 4
INVARIANTS
  NothingIsLost
  ResultsAreSums
  RecordedHandoffsAreCurrent
CHECK_DEADLOCK FALSE
