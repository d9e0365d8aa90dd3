SPECIFICATION FairSpec
CHECK_DEADLOCK FALSE
CONSTANTS
  Users = {u1, u2}
  Worker = w
  MaxRequests = 3
  Uses <- AllUses
INVARIANTS TypeOK EntryAlive DeletedOnce
PROPERTY ReleaseEnds
