SPECIFICATION FairSpec
CHECK_DEADLOCK FALSE
CONSTANTS
  RetryConnectCount = 2
  max_try_count = 1
  Uses <- RelayUse
PROPERTY Answered
