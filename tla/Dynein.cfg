SPECIFICATION FairSpec
CONSTANTS
  Attempts = 3
  Idle = 2
  MaxFaults = 2
  MaxRuns = 3
INVARIANTS
  TypeOK
  PassLeavesNothing
  NoOrphan
  ConfirmationNotLost
  BrokenBeforeUse
PROPERTIES
  EveryRunEnds
