SPECIFICATION FairSpec
CHECK_DEADLOCK FALSE
CONSTANTS
  Argvs <- Commands
  Latencies = {0, 2}
  MaxHeld = 2
  MaxPackets = 4
  MaxFaults = 1
  MaxHits = 2
  TryCount = 4
PROPERTY DestroyEnds
