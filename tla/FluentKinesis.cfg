SPECIFICATION FairSpec
CONSTANTS
  Samples = 3
  MaxAttempts = 2
  Budget = 2
  MaxFaults = 2
INVARIANTS
  TypeOK
  StartsBehindOpenPort
  NoStartupDrop
  PassIsComplete
  NoOvercount
PROPERTIES
  KeepsPromise
  VerdictReached
