SPECIFICATION FairSpec
CONSTANTS
  Bytes <- const_Bytes
  Space <- const_Space
  DictFiles <- const_DictFiles
  Results <- const_Results
INVARIANTS
  TypeOK
  SegmentsExact
  NoneIntact
PROPERTIES
  Terminates
CHECK_DEADLOCK FALSE
