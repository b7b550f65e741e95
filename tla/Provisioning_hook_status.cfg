SPECIFICATION FairSpec
CONSTANTS
  Settings <- FailingLzbt
  MaxKeys = 1
CHECK_DEADLOCK FALSE
INVARIANT SuccessMeansSigned
