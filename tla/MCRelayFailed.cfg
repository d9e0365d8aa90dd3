SPECIFICATION FairSpec
CONSTANTS
  PktMs = 100
  Inputs <- const_Inputs
  Lead = 100
  SilenceMs = 100
  Threads = 2
  Bad = {1, 2}
  MaxPackets = 3
  MaxFailures = 2
  MaxSessions = 5
  MaxDrift = 1
PROPERTIES
  NoAudioAfterFailure
CHECK_DEADLOCK FALSE
