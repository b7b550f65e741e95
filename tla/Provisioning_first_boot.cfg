SPECIFICATION FairSpec
CONSTANTS
  Settings <- AllSettings
  MaxKeys = 2
CHECK_DEADLOCK FALSE
INVARIANTS TypeOK SuccessMeansSigned FirmwareKeyIsOurs EnrolledPolicyIsFull
PROPERTY Provisioned
