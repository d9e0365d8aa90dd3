SPECIFICATION FairSpec
CHECK_DEADLOCK FALSE
CONSTANTS
  RetryConnectCount = 2
  max_try_count = 1
  Uses <- Sessions
INVARIANTS TypeOK NeverDeaf InOrder TriesBounded NoSocketLost OneLateCallback
PROPERTIES TellsSession StartAnswered
