SPECIFICATION FairSpec
CONSTANTS
  DelaySec = 1
  Durations <- const_Durations
  Skew = 700
  Windows <- const_Windows
  MaxPackets = 7
  IntMax = 3400
INVARIANTS
  TypeOK
  InOrder
  TotalIsHeld
  NoFrontOfEmpty
  NothingOverdue
  AudioLead
  HeaderFirst
PROPERTIES
  ImplementsLine
  PushReturns
CHECK_DEADLOCK FALSE
