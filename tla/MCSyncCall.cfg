SPECIFICATION FairSpec
CHECK_DEADLOCK FALSE
CONSTANTS
  workThreadsNumber = 2
  MaxFaults = 2
  MaxRequests = 5
INVARIANTS TypeOK SuccessHeard SelfWaits
PROPERTY Settles
